------------------------------- MODULE Telling -------------------------------
(***************************************************************************)
(* The prober, which asks the secondaries what serial they hold, and the   *)
(* notifier, beside the zone they are about: a write publishes a version   *)
(* and then tells the secondaries, and every step the notifier observes    *)
(* schedules a probe (the wiring of weg serve).                            *)
(*                                                                         *)
(* One zone, so a pair is a secondary.  Time is when a question becomes    *)
(* due and when it has waited long enough, and any round may find either.  *)
(* The identifier of a question only tells its own answer from an older    *)
(* one's, so an answer here is to the question that is out.  What an       *)
(* answer says of the secondary's serial is left out: here it only matters *)
(* that the gauges speak of the pair from then on.  What a round reports,  *)
(* it reports in the step that finds it.                                   *)
(***************************************************************************)
EXTENDS Integers, FiniteSets

CONSTANTS
    Secondaries, Tellers, Attempts, MaxNotices,
    MaxVersions   \* bound on the versions published

VARIABLES
    published,    \* the zone's version in the snapshot, or NoSerial
    versions,     \* how often it changed
    owes,         \* the tellers that have published and not told yet
    targets, telling, pending, sending, reading, wire, closed, count,
    asked,        \* Prober.targets
    pair,         \* Prober.pending: secondary -> its probeState, or Unknown
    answering,    \* the secondary whose answer is worked out with the lock released, if any
    standing,     \* secondary -> whether Observe has told the gauges of the pair
    crossed,      \* history: the secondaries whose notification was heard to end while a
                  \* datagram of it was still to be heard of, or was replaced by one
                  \* that leaves them out
    haunted       \* history: those whose pair was dropped while an answer of theirs was
                  \* being worked out

N == INSTANCE Notifier

own == <<published, versions, owes>>
notifier == <<targets, telling, pending, sending, reading, wire, closed, count>>
prober == <<asked, pair, answering, standing>>
history == <<crossed, haunted>>
vars == <<own, notifier, prober, history>>

NoSerial == -1
Unknown == [known |-> FALSE, suppressed |-> FALSE, question |-> "none"]
Fresh == [Unknown EXCEPT !.known = TRUE]

Init ==
    /\ published = 0
    /\ versions = 0
    /\ owes = {}
    /\ N!Init
    /\ asked = Secondaries
    /\ pair = [s \in Secondaries |-> Unknown]
    /\ answering = {}
    /\ standing = [s \in Secondaries |-> "none"]
    /\ crossed = {} /\ haunted = {}

\* A committed write is published before the handler tells anyone; it may also
\* take the zone out of the snapshot, or put it back.
Publish(t) ==
    /\ versions < MaxVersions
    /\ t \notin owes /\ telling[t] = N!NoNews
    /\ versions' = versions + 1
    /\ published' \in {versions + 1, NoSerial}
    /\ owes' = owes \cup {t}
    /\ UNCHANGED <<notifier, prober, history>>

\* tellSecondaries: one notification for the zone, if it is still published
\* and anybody is on the list.
Tell(t) ==
    /\ t \in owes
    /\ owes' = owes \ {t}
    /\ IF published = NoSerial \/ targets = {} \/ closed THEN UNCHANGED notifier
       ELSE N!Tell(t, published)
    /\ UNCHANGED <<published, versions, prober, history>>

\* A notification that replaces another may leave out who that one was for.
Store(t) ==
    /\ N!Store(t)
    /\ crossed' = IF closed THEN crossed ELSE (crossed \cup DOMAIN pending.waiting) \ telling[t].to
    /\ UNCHANGED <<own, prober, haunted>>

\* notifyPublishers.SetTargets.
SetTargets ==
    /\ \E list \in SUBSET Secondaries : N!SetTargets(list) /\ asked' = list
    /\ UNCHANGED <<own, pair, answering, standing, history>>

Sender ==
    /\ \/ N!Round
       \/ \E s \in Secondaries, id \in 1 .. MaxNotices : N!Write(s, id) \/ N!WriteFails(s, id)
    /\ UNCHANGED <<own, prober, history>>

Tick == N!Tick /\ UNCHANGED <<own, prober, history>>

\* Mutant: the end of a notification does not lift the suppression.
NotifiedKeeps(s, outcome) ==
    /\ pair' = [pair EXCEPT ![s] = [@ EXCEPT !.known = TRUE,
                  !.suppressed = @ \/ outcome = "sent",
                  !.question = IF outcome = "sent" THEN "none" ELSE @]]
    /\ UNCHANGED <<asked, answering, standing>>

\* A step of the notifier's work.  It makes the pair known if it was not.
Notified(s, outcome) ==
    /\ pair' = [pair EXCEPT ![s] = [@ EXCEPT !.known = TRUE,
                  !.suppressed = (outcome = "sent"),
                  !.question = IF outcome = "sent" THEN "none" ELSE @]]
    /\ UNCHANGED <<asked, answering, standing>>

\* Mutant: a pair that is dropped keeps its gauge.
ReportedKept(s, live, after) ==
    IF s \in live /\ pair[s].question # "none" /\ after.question = "none" THEN "told"
    ELSE standing[s]

\* What a round reports of a pair: Forget for one it drops, silence, or nothing new.
Reported(s, live, after) ==
    IF s \notin live THEN IF pair[s].known THEN "none" ELSE standing[s]
    ELSE IF pair[s].question # "none" /\ after.question = "none" THEN "told"
    ELSE standing[s]

\* reconcile and round: pairs that are no longer are forgotten, new ones become
\* known, and of the rest those that are due are asked and those that have
\* waited long enough are given up on.
Round(due, late) ==
    LET live == IF published = NoSerial THEN {} ELSE asked
        step(s) ==
            IF s \notin live THEN Unknown
            ELSE IF ~pair[s].known THEN Fresh
            ELSE IF pair[s].suppressed THEN pair[s]
            ELSE IF pair[s].question # "none"
                 THEN IF s \in late THEN [pair[s] EXCEPT !.question = "none"]
                      ELSE pair[s]
            ELSE IF s \in due THEN [pair[s] EXCEPT !.question = "asked"]
            ELSE pair[s]
    IN /\ pair' = [s \in Secondaries |-> step(s)]
       /\ standing' = [s \in Secondaries |-> Reported(s, live, step(s))]
       /\ haunted' = {s \in Secondaries : IF s \notin live /\ pair[s].known THEN s \in answering ELSE s \in haunted}
       /\ UNCHANGED <<asked, answering, crossed>>

\* The hook of both goroutines is Prober.Notified.
ObserveSender(s) ==
    /\ \E outcome \in {"sent", "abandoned"} :
          /\ N!Observe(s, outcome)
          /\ IF closed THEN UNCHANGED prober ELSE Notified(s, outcome)
          /\ crossed' = IF outcome = "sent" THEN crossed ELSE crossed \ {s}
    /\ UNCHANGED <<own, haunted>>

Acknowledge(s, id) ==
    /\ N!Acknowledge(s, id)
    /\ UNCHANGED <<own, prober, history>>

\* The round under way has a datagram to the secondary that the hook has not
\* heard of.
InFlight(s) == \E x \in sending : x[1] \in {"write", "sent"} /\ x[2] = s

ObserveAnswered(s) ==
    /\ N!ObserveAnswered(s)
    /\ IF closed THEN UNCHANGED prober ELSE Notified(s, "answered")
    /\ crossed' = IF InFlight(s) THEN crossed \cup {s} ELSE crossed \ {s}
    /\ UNCHANGED <<own, haunted>>

AskThose(due, late) ==
    /\ ~closed
    /\ Round(due, late)
    /\ UNCHANGED <<own, notifier>>

Ask == \E due, late \in SUBSET Secondaries : AskThose(due, late)

\* The datagram could not be written, and the question is still the same one.
AskFails(s) ==
    /\ pair[s].question # "none"
    /\ pair' = [pair EXCEPT ![s].question = "none"]
    /\ UNCHANGED <<own, notifier, asked, answering, standing, history>>

\* answer, up to where what came back is compared with what is published.
Answer(s) ==
    /\ ~closed
    /\ answering = {}
    /\ pair[s].question # "none"
    /\ pair' = [pair EXCEPT ![s].question = "none"]
    /\ answering' = IF pair[s].suppressed THEN {} ELSE {s}
    /\ UNCHANGED <<own, notifier, asked, standing, history>>

\* The rest of answer: the pair may have gone, or been told, in the meantime.
\* Observe hears of one that has gone like of any other.
Settle(s) ==
    /\ answering = {s}
    /\ standing' = [standing EXCEPT ![s] = IF pair[s].suppressed THEN @ ELSE "told"]
    /\ answering' = {}
    /\ UNCHANGED <<own, notifier, asked, pair, history>>

Close == N!Close /\ UNCHANGED <<own, prober, history>>

Next ==
    \/ \E t \in Tellers : Publish(t) \/ Tell(t) \/ Store(t)
    \/ SetTargets
    \/ Sender
    \/ Tick
    \/ Ask
    \/ Close
    \/ \E s \in Secondaries :
          \/ ObserveSender(s) \/ ObserveAnswered(s)
          \/ AskFails(s) \/ Answer(s) \/ Settle(s)
          \/ \E id \in 1 .. MaxNotices : Acknowledge(s, id)

\* Goroutines run and timers fire; the secondaries, the network and an operator
\* owe nothing.
Fairness ==
    /\ \A t \in Tellers : WF_vars(Tell(t)) /\ WF_vars(Store(t))
    /\ WF_vars(Sender) /\ WF_vars(Tick)
    /\ WF_vars(AskThose(Secondaries, Secondaries))
    /\ \A s \in Secondaries :
          WF_vars(ObserveSender(s)) /\ WF_vars(ObserveAnswered(s)) /\ WF_vars(Settle(s))

Spec == Init /\ [][Next]_vars /\ Fairness

-----------------------------------------------------------------------------
TypeOK ==
    /\ published \in (0 .. MaxVersions) \cup {NoSerial}
    /\ owes \subseteq Tellers
    /\ N!TypeOK
    /\ asked \subseteq Secondaries
    /\ pair \in [Secondaries -> [known : BOOLEAN, suppressed : BOOLEAN, question : {"none", "asked"}]]
    /\ answering \subseteq Secondaries
    /\ standing \in [Secondaries -> {"none", "told"}]
    /\ crossed \subseteq Secondaries /\ haunted \subseteq Secondaries

\* A pair is suppressed only while a notification to it is outstanding, so
\* that the end of it asks again.  Two things may cross: the answer to a datagram
\* overtakes the hook that hears of its sending, or a notification is replaced by
\* one for a list the secondary has left; nothing else leaves a pair unasked
\* (probeState.suppressed, Notifier.round, acknowledge, Notify).
SuppressedIsTold ==
    \A s \in Secondaries :
       pair[s].suppressed /\ ~closed => N!Outstanding(s) \/ s \in crossed

\* What the gauges say of a pair is taken back when the pair is dropped, unless
\* an answer was being worked out with the lock released just then
\* (Prober.reconcile, Forget, answer).
StandingIsOfAPair ==
    \A s \in Secondaries : standing[s] # "none" => pair[s].known \/ s \in haunted

\* Every notification ends, however many of its datagrams are lost: answered,
\* or abandoned after Attempts of them (Notifier.round).
NoticesEnd == []<>(pending = N!NoNotice \/ closed)

\* No pair on the list goes unasked for good, whatever the network does: it is
\* asked again and again, or is being told, unless the two crossed (Prober.round,
\* probeFloor).
PairsAreAsked ==
    \A s \in Secondaries :
       []<>(\/ closed \/ published = NoSerial \/ s \notin asked
            \/ pair[s].question # "none" \/ N!Outstanding(s) \/ s \in crossed)
=============================================================================
