------------------------------ MODULE Notifier -------------------------------
(***************************************************************************)
(* Telling the secondaries that a zone has a new version.                  *)
(*                                                                         *)
(* One zone.  A request that wrote tells on its own goroutine (a Teller);  *)
(* one goroutine sends, one reads the responses.  The network may lose,    *)
(* delay, repeat and reorder: a datagram that was written can be answered  *)
(* at any later time, any number of times, or never.  The steps that       *)
(* observe an outcome are parameters of a joint step of the composition.   *)
(***************************************************************************)
EXTENDS Integers, FiniteSets

CONSTANTS
    Secondaries, Tellers,
    Attempts,       \* notifyAttempts
    MaxNotices      \* bound on the notifications started

VARIABLES
    targets,    \* Notifier.targets
    telling,    \* teller -> the serial and the list it has read, or NoNews
    pending,    \* Notifier.pending[apex], or NoNotice
    sending,    \* what the round under way has still to write and to observe
    reading,    \* the answered secondary the reader has still to observe, if any
    wire,       \* every datagram written: <<secondary, identifier>>
    closed,
    count       \* the notifications started, which names their identifiers

NoNews == [serial |-> -1, to |-> {}]
NoNotice == [id |-> 0, serial |-> -1, waiting |-> [s \in {} |-> 0], due |-> FALSE]

\* A notifier that is closed tells nobody.
Init ==
    /\ targets = Secondaries
    /\ telling = [t \in Tellers |-> NoNews]
    /\ pending = NoNotice
    /\ sending = {}
    /\ reading = {}
    /\ wire = {}
    /\ closed \in BOOLEAN
    /\ count = 0

SetTargets(list) ==
    /\ targets # list
    /\ targets' = list
    /\ UNCHANGED <<telling, pending, sending, reading, wire, closed, count>>

-----------------------------------------------------------------------------
(* Notifier.Notify: the list is read under the lock, the message is built  *)
(* without it, and the notification is stored under it again.              *)

\* The serial is the published one; a zone that is not published, an empty
\* list and a closed notifier end it here.
Tell(t, serial) ==
    /\ telling[t] = NoNews
    /\ ~closed
    /\ targets # {}
    /\ telling' = [telling EXCEPT ![t] = [serial |-> serial, to |-> targets]]
    /\ UNCHANGED <<targets, pending, sending, reading, wire, closed, count>>

\* It replaces whatever is still being retried.
Store(t) ==
    /\ telling[t] # NoNews
    /\ count < MaxNotices
    /\ telling' = [telling EXCEPT ![t] = NoNews]
    /\ pending' = IF closed THEN pending
                  ELSE [id |-> count + 1, serial |-> telling[t].serial, due |-> TRUE,
                        waiting |-> [s \in telling[t].to |-> 0]]
    /\ count' = count + 1
    /\ UNCHANGED <<targets, sending, reading, wire, closed>>

-----------------------------------------------------------------------------
(* The sender.                                                             *)

\* The interval has passed.
Tick ==
    /\ pending # NoNotice
    /\ ~pending.due
    /\ pending' = [pending EXCEPT !.due = TRUE]
    /\ UNCHANGED <<targets, telling, sending, reading, wire, closed, count>>

\* Mutant: one attempt too many.
SpentLate(n) == n > Attempts

Spent(n) == n >= Attempts

\* Mutant: nobody hears of a secondary that is given up on.
GivenUpQuietly(out) == {}

GivenUp(out) == {<<"abandoned", s, pending.id>> : s \in DOMAIN pending.waiting \ out}

\* Mutant: attempts are not counted.
ToldUncounted(out) ==
    IF out = {} THEN NoNotice
    ELSE [pending EXCEPT !.due = FALSE, !.waiting = [s \in out |-> pending.waiting[s]]]

\* The notification after a round; a notification nobody is left of is done.
Told(out) ==
    IF out = {} THEN NoNotice
    ELSE [pending EXCEPT !.due = FALSE, !.waiting = [s \in out |-> pending.waiting[s] + 1]]

\* round, up to the unlock.  A secondary told often enough, and one whose
\* notification cannot be signed, drop out; the others are sent to.
Round ==
    /\ sending = {}
    /\ pending # NoNotice
    /\ pending.due
    /\ \E out \in SUBSET {s \in DOMAIN pending.waiting : ~Spent(pending.waiting[s])} :
          /\ sending' = GivenUp(out) \cup {<<"write", s, pending.id>> : s \in out}
          /\ pending' = Told(out)
    /\ UNCHANGED <<targets, telling, reading, wire, closed, count>>

\* After the unlock: those given up on are observed first, then each datagram
\* is written and, once it has been, observed.
MayWrite == \A x \in sending : x[1] = "write"

Write(s, id) ==
    /\ MayWrite
    /\ <<"write", s, id>> \in sending
    /\ ~closed
    /\ sending' = (sending \ {<<"write", s, id>>}) \cup {<<"sent", s, id>>}
    /\ wire' = wire \cup {<<s, id>>}
    /\ UNCHANGED <<targets, telling, pending, reading, closed, count>>

WriteFails(s, id) ==
    /\ MayWrite
    /\ <<"write", s, id>> \in sending
    /\ sending' = sending \ {<<"write", s, id>>}
    /\ UNCHANGED <<targets, telling, pending, reading, wire, closed, count>>

\* The sender's call of the hook, with the outcome "sent" or "abandoned".
Observe(s, outcome) ==
    /\ outcome = "sent" \/ outcome = "abandoned"
    /\ \E x \in sending : /\ x[1] = outcome /\ x[2] = s
                          /\ sending' = sending \ {x}
    /\ UNCHANGED <<targets, telling, pending, reading, wire, closed, count>>

-----------------------------------------------------------------------------
(* The reader.                                                             *)

\* acknowledge, up to the unlock: the identifier and the address settle it.
Acknowledge(s, id) ==
    /\ reading = {}
    /\ <<s, id>> \in wire
    /\ pending # NoNotice
    /\ pending.id = id
    /\ s \in DOMAIN pending.waiting
    /\ pending' = IF DOMAIN pending.waiting = {s} THEN NoNotice
                  ELSE [pending EXCEPT !.waiting =
                          [r \in DOMAIN pending.waiting \ {s} |-> pending.waiting[r]]]
    /\ reading' = {s}
    /\ UNCHANGED <<targets, telling, sending, wire, closed, count>>

\* The reader's call of the hook.
ObserveAnswered(s) ==
    /\ reading = {s}
    /\ reading' = {}
    /\ UNCHANGED <<targets, telling, pending, sending, wire, closed, count>>

Close ==
    /\ ~closed
    /\ closed' = TRUE
    /\ UNCHANGED <<targets, telling, pending, sending, reading, wire, count>>

-----------------------------------------------------------------------------
Notice ==
    [id : 1 .. MaxNotices, serial : Nat, due : BOOLEAN,
     waiting : UNION {[S -> 0 .. Attempts] : S \in SUBSET Secondaries \ {{}}}]

TypeOK ==
    /\ targets \subseteq Secondaries
    /\ \A t \in Tellers : telling[t] = NoNews \/ telling[t].to \in SUBSET Secondaries \ {{}}
    /\ pending = NoNotice \/ pending \in Notice
    /\ sending \subseteq {"abandoned", "write", "sent"} \X Secondaries \X (1 .. MaxNotices)
    /\ reading \subseteq Secondaries
    /\ wire \subseteq Secondaries \X (1 .. MaxNotices)
    /\ closed \in BOOLEAN
    /\ count \in 0 .. MaxNotices

\* A notification to the secondary is outstanding, or has just ended and the
\* hook is about to hear of it.
Outstanding(s) ==
    \/ s \in DOMAIN pending.waiting
    \/ s \in reading
    \/ \E x \in sending : x[1] = "abandoned" /\ x[2] = s
=============================================================================
