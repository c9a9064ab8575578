----------------------------- MODULE ServingProofs -----------------------------
(***************************************************************************)
(* The sockets of a server: no slot leaks or is given twice, and a         *)
(* shutdown wakes every connection, for any number of sockets and          *)
(* connections and any limits.  The notifier and the prober: a pair that   *)
(* is not asked has a notification outstanding, and a gauge speaks of a    *)
(* pair that is there, but where two hand-overs crossed, for any number of *)
(* secondaries, tellers, attempts and versions.                            *)
(***************************************************************************)
EXTENDS Serving, FiniteSetTheorems, TLAPS

(***************************************************************************)
(* The notifier and the prober.                                            *)
(***************************************************************************)

Waiting == DOMAIN pending.waiting

\* The end of a notification to the secondary is still to be heard of, or crossed
\* another hand-over.
Owed(s) == T!N!Outstanding(s) \/ s \in crossed

\* The inductive invariant of the suppression: what suppresses a pair, or is about
\* to, is accounted for; and a round either gives a secondary up or sends to it.
PairInv ==
    /\ DOMAIN pending = {"id", "serial", "waiting", "due"}
    /\ DOMAIN pair = Secondaries
    /\ \A s \in Secondaries : DOMAIN pair[s] = {"known", "suppressed", "question"}
    /\ \A x, y \in sending : x[1] = "abandoned" /\ y[2] = x[2] => y[1] = "abandoned"
    /\ ~closed => \A s \in Secondaries : pair[s].suppressed \/ T!InFlight(s) => Owed(s)

\* A pair that is asked, or whose answer is being worked out, is known, or was
\* dropped while that answer was.
KnownInv ==
    /\ DOMAIN pair = Secondaries
    /\ \A s \in Secondaries : DOMAIN pair[s] = {"known", "suppressed", "question"}
    /\ DOMAIN standing = Secondaries
    /\ \A s \in Secondaries : pair[s].question # "none" => pair[s].known
    /\ \A s \in answering : s \in Secondaries /\ (pair[s].known \/ s \in haunted)
    /\ T!StandingIsOfAPair

-----------------------------------------------------------------------------
(* The notifier.                                                           *)

\* A notification that is stored: whoever the one before it was for and this one is
\* not for has crossed it.
LEMMA StoreTells ==
  ASSUME PairInv, NEW t \in Tellers, T!Store(t) PROVE PairInv'
<1>1. /\ pending' = IF closed THEN pending
                    ELSE [id |-> count + 1, serial |-> telling[t].serial, due |-> TRUE,
                          waiting |-> [s \in telling[t].to |-> 0]]
      /\ crossed' = IF closed THEN crossed ELSE (crossed \cup Waiting) \ telling[t].to
      /\ UNCHANGED <<sending, reading, closed, pair>>
  BY DEF T!Store, T!N!Store, T!prober, Waiting
<1>2. CASE closed
  <2>1. pending' = pending  BY <1>1, <1>2
  <2> QED BY <1>1, <1>2, <2>1 DEF PairInv
<1>3. CASE ~closed
  <2>1. /\ pending'.waiting = [s \in telling[t].to |-> 0]
        /\ DOMAIN pending' = {"id", "serial", "waiting", "due"}
    BY <1>1, <1>3
  <2>2. Waiting' = telling[t].to  BY <2>1 DEF Waiting
  <2>3. crossed' = (crossed \cup Waiting) \ Waiting'  BY <1>1, <1>3, <2>2
  <2>4. \A s \in Secondaries : Owed(s) => Owed(s)'
    BY <1>1, <2>3 DEF Owed, T!N!Outstanding, Waiting
  <2>5. \A s \in Secondaries : T!InFlight(s)' <=> T!InFlight(s)  BY <1>1 DEF T!InFlight
  <2> QED BY <1>1, <1>3, <2>1, <2>4, <2>5 DEF PairInv
<1> QED BY <1>2, <1>3

\* A step that keeps who is waited for, what is sent and heard, and what is
\* suppressed.
LEMMA NothingTold ==
  ASSUME PairInv, UNCHANGED <<sending, reading, closed, pair, crossed>>,
         Waiting' = Waiting, DOMAIN pending' = DOMAIN pending
  PROVE  PairInv'
<1>1. \A s \in Secondaries : Owed(s)' <=> Owed(s)  BY DEF Owed, T!N!Outstanding, Waiting
<1>2. \A s \in Secondaries : T!InFlight(s)' <=> T!InFlight(s)  BY DEF T!InFlight
<1> QED BY <1>1, <1>2 DEF PairInv

\* The interval that passes.
LEMMA TickTells ==
  ASSUME PairInv, T!Tick PROVE PairInv'
<1>1. /\ pending' = [pending EXCEPT !.due = TRUE]
      /\ UNCHANGED <<sending, reading, closed, pair, crossed>>
  BY DEF T!Tick, T!N!Tick, T!prober, T!history
<1>2. DOMAIN pending' = DOMAIN pending /\ pending'.waiting = pending.waiting
  BY <1>1 DEF PairInv
<1> QED BY <1>1, <1>2, NothingTold DEF Waiting

\* A round: whoever drops out is about to be reported as abandoned, and whoever is
\* sent to is waited for.
LEMMA RoundTells ==
  ASSUME PairInv, T!N!Round, UNCHANGED <<T!own, T!prober, T!history>> PROVE PairInv'
<1>1. PICK out \in SUBSET Waiting :
        /\ sending' = {<<"abandoned", s, pending.id>> : s \in Waiting \ out}
                        \cup {<<"write", s, pending.id>> : s \in out}
        /\ pending' = T!N!Told(out)
  <2>1. PICK out \in SUBSET {s \in DOMAIN pending.waiting : ~T!N!Spent(pending.waiting[s])} :
          /\ sending' = T!N!GivenUp(out) \cup {<<"write", s, pending.id>> : s \in out}
          /\ pending' = T!N!Told(out)
    BY DEF T!N!Round
  <2>2. out \in SUBSET Waiting  BY DEF Waiting
  <2> QED BY <2>1, <2>2 DEF T!N!GivenUp, Waiting
<1>2. sending = {} /\ UNCHANGED <<reading, closed, pair, crossed>>
  BY DEF T!N!Round, T!prober, T!history
<1>3. Waiting' = out /\ DOMAIN pending' = {"id", "serial", "waiting", "due"}
  <2>1. CASE out = {}
    <3>1. pending' = T!N!NoNotice  BY <1>1, <2>1 DEF T!N!Told
    <3>2. pending'.waiting = [s \in {} |-> 0] /\ DOMAIN pending' = {"id", "serial", "waiting", "due"}
      BY <3>1 DEF T!N!NoNotice
    <3> QED BY <2>1, <3>2 DEF Waiting
  <2>2. CASE out # {}
    <3>1. pending' = [pending EXCEPT !.due = FALSE, !.waiting = [s \in out |-> pending.waiting[s] + 1]]
      BY <1>1, <2>2 DEF T!N!Told
    <3>2. /\ pending'.waiting = [s \in out |-> pending.waiting[s] + 1]
          /\ DOMAIN pending' = {"id", "serial", "waiting", "due"}
      BY <3>1 DEF PairInv
    <3> QED BY <3>2 DEF Waiting
  <2> QED BY <2>1, <2>2
<1>4. \A x \in sending' : \/ x[1] = "abandoned" /\ x[2] \in Waiting \ out
                          \/ x[1] = "write" /\ x[2] \in out
  BY <1>1
<1>5. \A s \in Waiting : s \in Waiting' \/ \E x \in sending' : x[1] = "abandoned" /\ x[2] = s
  <2> SUFFICES ASSUME NEW s \in Waiting \ out
               PROVE  \E x \in sending' : x[1] = "abandoned" /\ x[2] = s
    BY <1>3
  <2>1. <<"abandoned", s, pending.id>> \in sending'  BY <1>1
  <2> QED BY <2>1
<1>6. \A s \in Secondaries : T!InFlight(s)' => s \in Waiting'
  BY <1>3, <1>4 DEF T!InFlight
<1>7. \A s \in Secondaries : Owed(s) => Owed(s)'
  BY <1>2, <1>5 DEF Owed, T!N!Outstanding, Waiting
<1>8. \A s \in Secondaries : s \in Waiting' => Owed(s)'  BY DEF Owed, T!N!Outstanding, Waiting
<1> QED BY <1>2, <1>3, <1>4, <1>6, <1>7, <1>8 DEF PairInv

\* A datagram written or not: nothing more is in flight, and nobody is given up.
LEMMA WriteTells ==
  ASSUME PairInv, NEW s, NEW id, T!N!Write(s, id) \/ T!N!WriteFails(s, id),
         UNCHANGED <<T!own, T!prober, T!history>>
  PROVE  PairInv'
<1>1. /\ UNCHANGED <<pending, reading, closed, pair, crossed>>
      /\ <<"write", s, id>> \in sending
      /\ \A x \in sending : x[1] = "write"
      /\ sending' \in {(sending \ {<<"write", s, id>>}) \cup {<<"sent", s, id>>},
                       sending \ {<<"write", s, id>>}}
  BY DEF T!N!Write, T!N!WriteFails, T!N!MayWrite, T!prober, T!history
<1>2. \A x \in sending' : x \in sending \/ x = <<"sent", s, id>>  BY <1>1
<1>3. \A x \in sending' : x[1] # "abandoned"  BY <1>1, <1>2
<1>4. \A r \in Secondaries : T!InFlight(r)' => T!InFlight(r)
  <2> SUFFICES ASSUME NEW r \in Secondaries, NEW x \in sending', x[2] = r
               PROVE  T!InFlight(r)
    BY DEF T!InFlight
  <2>1. PICK y \in sending : y[1] = "write" /\ y[2] = r
    <3>1. CASE x \in sending  BY <1>1, <3>1
    <3>2. CASE x = <<"sent", s, id>>  BY <1>1, <3>2
    <3> QED BY <1>2, <3>1, <3>2
  <2> QED BY <2>1 DEF T!InFlight
<1>5. \A r \in Secondaries : Owed(r) => Owed(r)'
  BY <1>1 DEF Owed, T!N!Outstanding
<1> QED BY <1>1, <1>3, <1>4, <1>5 DEF PairInv

\* What the hook of either goroutine does to the pair.
LEMMA NotifiedPair ==
  ASSUME NEW s \in Secondaries, NEW outcome, T!Notified(s, outcome),
         DOMAIN pair = Secondaries,
         \A r \in Secondaries : DOMAIN pair[r] = {"known", "suppressed", "question"}
  PROVE  /\ DOMAIN pair' = Secondaries
         /\ \A r \in Secondaries \ {s} : pair'[r] = pair[r]
         /\ DOMAIN pair'[s] = {"known", "suppressed", "question"}
         /\ pair'[s].suppressed = (outcome = "sent")
         /\ pair'[s].known = TRUE
  BY DEF T!Notified

\* The hook of the sender: "sent" suppresses a pair a datagram was in flight to, and
\* "abandoned" lifts the suppression of the one it takes out.
LEMMA ObserveTells ==
  ASSUME PairInv, NEW s \in Secondaries, T!ObserveSender(s) PROVE PairInv'
<1>1. PICK outcome \in {"sent", "abandoned"} :
        /\ T!N!Observe(s, outcome)
        /\ IF closed THEN UNCHANGED T!prober ELSE T!Notified(s, outcome)
        /\ crossed' = IF outcome = "sent" THEN crossed ELSE crossed \ {s}
  BY DEF T!ObserveSender
<1>2. PICK x \in sending : x[1] = outcome /\ x[2] = s /\ sending' = sending \ {x}
  BY <1>1 DEF T!N!Observe
<1>3. UNCHANGED <<pending, reading, closed>>  BY <1>1 DEF T!N!Observe
<1>4. \A y \in sending' : y \in sending  BY <1>2
<1>5. CASE closed
  <2>1. UNCHANGED pair  BY <1>1, <1>5 DEF T!prober
  <2> QED BY <1>3, <1>4, <1>5, <2>1 DEF PairInv
<1>6. CASE ~closed
  <2>1. T!Notified(s, outcome)  BY <1>1, <1>6
  <2>2. /\ DOMAIN pair' = Secondaries
        /\ \A r \in Secondaries \ {s} : pair'[r] = pair[r]
        /\ DOMAIN pair'[s] = {"known", "suppressed", "question"}
        /\ pair'[s].suppressed = (outcome = "sent")
    BY <2>1, NotifiedPair, ZenonT(30) DEF PairInv
  <2>3. \A r \in Secondaries : T!InFlight(r)' => T!InFlight(r)  BY <1>4 DEF T!InFlight
  <2>4. \A r \in Secondaries \ {s} : Owed(r) => Owed(r)'
    BY <1>1, <1>2, <1>3 DEF Owed, T!N!Outstanding
  <2>5. pair'[s].suppressed \/ T!InFlight(s)' => Owed(s)'
    <3>1. CASE outcome = "sent"
      <4>1. T!InFlight(s)  BY <1>2, <3>1 DEF T!InFlight
      <4>2. Owed(s)  BY <1>6, <4>1 DEF PairInv
      <4> QED BY <1>1, <1>2, <1>3, <3>1, <4>2 DEF Owed, T!N!Outstanding
    <3>2. CASE outcome = "abandoned"
      <4>1. x[1] = "abandoned" /\ x[2] = s  BY <1>2, <3>2
      <4>2. \A y \in sending : y[2] = s => y[1] = "abandoned"  BY <4>1 DEF PairInv
      <4>3. ~T!InFlight(s)  BY <4>2 DEF T!InFlight
      <4> QED BY <2>2, <2>3, <3>2, <4>3
    <3> QED BY <3>1, <3>2
  <2>6. \A r \in Secondaries : pair'[r].suppressed \/ T!InFlight(r)' => Owed(r)'
    BY <1>6, <2>2, <2>3, <2>4, <2>5, ZenonT(30) DEF PairInv
  <2>7. /\ \A r \in Secondaries : DOMAIN pair'[r] = {"known", "suppressed", "question"}
        /\ \A y, z \in sending' : y[1] = "abandoned" /\ z[2] = y[2] => z[1] = "abandoned"
    BY <1>4, <2>2, ZenonT(30) DEF PairInv
  <2> QED BY <1>3, <2>2, <2>6, <2>7, ZenonT(30) DEF PairInv
<1> QED BY <1>5, <1>6

\* An answer: the secondary is no longer waited for, and the reader is about to
\* report it.
LEMMA AcknowledgeTells ==
  ASSUME PairInv, NEW s \in Secondaries, NEW id, T!Acknowledge(s, id)
  PROVE  PairInv'
<1>1. /\ s \in Waiting /\ reading = {} /\ reading' = {s}
      /\ pending' = IF Waiting = {s} THEN T!N!NoNotice
                    ELSE [pending EXCEPT !.waiting = [r \in Waiting \ {s} |-> pending.waiting[r]]]
      /\ UNCHANGED <<sending, closed, pair, crossed>>
  BY DEF T!Acknowledge, T!N!Acknowledge, T!prober, T!history, Waiting
<1>2. Waiting' = Waiting \ {s} /\ DOMAIN pending' = {"id", "serial", "waiting", "due"}
  <2>1. CASE Waiting = {s}
    <3>1. pending'.waiting = [r \in {} |-> 0] /\ DOMAIN pending' = {"id", "serial", "waiting", "due"}
      BY <1>1, <2>1 DEF T!N!NoNotice
    <3> QED BY <2>1, <3>1 DEF Waiting
  <2>2. CASE Waiting # {s}
    <3>1. /\ pending'.waiting = [r \in Waiting \ {s} |-> pending.waiting[r]]
          /\ DOMAIN pending' = {"id", "serial", "waiting", "due"}
      BY <1>1, <2>2 DEF PairInv
    <3>2. DOMAIN pending'.waiting = Waiting \ {s}  BY <3>1
    <3> QED BY <3>1, <3>2 DEF Waiting
  <2> QED BY <2>1, <2>2
<1>3. \A r \in Secondaries : Owed(r) => Owed(r)'
  BY <1>1, <1>2 DEF Owed, T!N!Outstanding, Waiting
<1>4. \A r \in Secondaries : T!InFlight(r)' <=> T!InFlight(r)  BY <1>1 DEF T!InFlight
<1> QED BY <1>1, <1>2, <1>3, <1>4 DEF PairInv

\* The hook of the reader: a datagram still to be heard of has crossed the answer.
LEMMA AnsweredTells ==
  ASSUME PairInv, NEW s \in Secondaries, T!ObserveAnswered(s) PROVE PairInv'
<1>1. /\ reading = {s} /\ UNCHANGED <<pending, sending, closed>>
      /\ IF closed THEN UNCHANGED T!prober ELSE T!Notified(s, "answered")
      /\ crossed' = IF T!InFlight(s) THEN crossed \cup {s} ELSE crossed \ {s}
  BY DEF T!ObserveAnswered, T!N!ObserveAnswered
<1>2. CASE closed
  <2>1. UNCHANGED pair  BY <1>1, <1>2 DEF T!prober
  <2> QED BY <1>1, <1>2, <2>1 DEF PairInv
<1>3. CASE ~closed
  <2>1. T!Notified(s, "answered")  BY <1>1, <1>3
  <2>2. /\ DOMAIN pair' = Secondaries
        /\ \A r \in Secondaries \ {s} : pair'[r] = pair[r]
        /\ DOMAIN pair'[s] = {"known", "suppressed", "question"}
        /\ pair'[s].suppressed = ("answered" = "sent")
    BY <2>1, NotifiedPair, ZenonT(30) DEF PairInv
  <2>3. \A r \in Secondaries : T!InFlight(r)' <=> T!InFlight(r)  BY <1>1 DEF T!InFlight
  <2>4. \A r \in Secondaries \ {s} : Owed(r) => Owed(r)'
    BY <1>1 DEF Owed, T!N!Outstanding
  <2>5. T!InFlight(s) => Owed(s)'  BY <1>1 DEF Owed
  <2>6. \A r \in Secondaries : pair'[r].suppressed \/ T!InFlight(r)' => Owed(r)'
    BY <1>3, <2>2, <2>3, <2>4, <2>5, ZenonT(30) DEF PairInv
  <2>7. \A r \in Secondaries : DOMAIN pair'[r] = {"known", "suppressed", "question"}
    BY <2>2, ZenonT(30) DEF PairInv
  <2> QED BY <1>1, <2>2, <2>6, <2>7, ZenonT(30) DEF PairInv
<1> QED BY <1>2, <1>3

-----------------------------------------------------------------------------
(* The prober.                                                             *)

\* A round of questions: a pair is left as it is or loses its suppression; one that
\* is off the list is unknown and has no gauge, but for one that had none to lose or
\* whose answer is in hand.
LEMMA AskedPairs ==
  ASSUME NEW due \in SUBSET Secondaries, NEW late \in SUBSET Secondaries, T!AskThose(due, late),
         DOMAIN pair = Secondaries,
         \A s \in Secondaries : DOMAIN pair[s] = {"known", "suppressed", "question"}
  PROVE  /\ DOMAIN pair' = Secondaries
         /\ \A s \in Secondaries :
               /\ DOMAIN pair'[s] = {"known", "suppressed", "question"}
               /\ pair'[s].suppressed => pair[s].suppressed
               /\ \/ pair'[s].known
                  \/ /\ pair'[s].question = "none"
                     /\ \/ ~pair[s].known /\ standing'[s] = standing[s] /\ (s \in haunted' <=> s \in haunted)
                        \/ pair[s].known /\ standing'[s] = "none" /\ (s \in haunted' <=> s \in answering)
<1> DEFINE live == IF published = T!NoSerial THEN {} ELSE asked
           step(s) == IF s \notin live THEN T!Unknown
                      ELSE IF ~pair[s].known THEN T!Fresh
                      ELSE IF pair[s].suppressed THEN pair[s]
                      ELSE IF pair[s].question # "none"
                           THEN IF s \in late THEN [pair[s] EXCEPT !.question = "none"]
                                ELSE pair[s]
                      ELSE IF s \in due THEN [pair[s] EXCEPT !.question = "asked"]
                      ELSE pair[s]
<1>1. /\ pair' = [s \in Secondaries |-> step(s)]
      /\ standing' = [s \in Secondaries |-> T!Reported(s, live, step(s))]
      /\ haunted' = {s \in Secondaries : IF s \notin live /\ pair[s].known THEN s \in answering
                                         ELSE s \in haunted}
  BY DEF T!AskThose, T!Round
<1>2. ASSUME NEW s \in Secondaries
      PROVE  /\ DOMAIN step(s) = {"known", "suppressed", "question"}
             /\ step(s).suppressed => pair[s].suppressed
             /\ step(s).known \/ (s \notin live /\ step(s) = T!Unknown)
  BY DEF T!Unknown, T!Fresh
<1>3. \A s \in Secondaries : s \notin live => standing'[s] = IF pair[s].known THEN "none" ELSE standing[s]
  BY <1>1 DEF T!Reported
<1>4. \A s \in Secondaries : s \notin live => (s \in haunted' <=> IF pair[s].known THEN s \in answering
                                                                 ELSE s \in haunted)
  BY <1>1
<1>5. \A s \in Secondaries : pair'[s] = step(s)  BY <1>1, SMTT(30), ZenonT(30)
<1>6. T!Unknown.question = "none"  BY DEF T!Unknown
<1>7. DOMAIN pair' = Secondaries  BY <1>1
<1> HIDE DEF step, live
<1> QED BY <1>2, <1>3, <1>4, <1>5, <1>6, <1>7

\* A question that ends: the rest of the pair stays.
LEMMA QuestionEnds ==
  ASSUME NEW s \in Secondaries, pair' = [pair EXCEPT ![s].question = "none"],
         DOMAIN pair = Secondaries,
         \A r \in Secondaries : DOMAIN pair[r] = {"known", "suppressed", "question"}
  PROVE  /\ DOMAIN pair' = Secondaries
         /\ \A r \in Secondaries :
               /\ DOMAIN pair'[r] = {"known", "suppressed", "question"}
               /\ pair'[r].suppressed = pair[r].suppressed
               /\ pair'[r].known = pair[r].known
               /\ pair'[r].question \in {pair[r].question, "none"}
  OBVIOUS

\* Whatever the prober does by itself suppresses nothing.
LEMMA ProberTells ==
  ASSUME PairInv,
         T!Ask \/ \E s \in Secondaries : T!AskFails(s) \/ T!Answer(s) \/ T!Settle(s)
  PROVE  PairInv'
<1>1. UNCHANGED <<pending, sending, reading, closed, crossed>>
  BY ZenonT(30) DEF T!Ask, T!AskThose, T!Round, T!AskFails, T!Answer, T!Settle, T!notifier, T!history
<1>2. /\ DOMAIN pair' = Secondaries
      /\ \A s \in Secondaries : /\ DOMAIN pair'[s] = {"known", "suppressed", "question"}
                                /\ pair'[s].suppressed => pair[s].suppressed
  <2>1. CASE T!Ask  BY <2>1, AskedPairs, ZenonT(30) DEF T!Ask, PairInv
  <2>2. CASE \E s \in Secondaries : T!AskFails(s) \/ T!Answer(s)
    <3>1. PICK s \in Secondaries : pair' = [pair EXCEPT ![s].question = "none"]
      BY <2>2 DEF T!AskFails, T!Answer
    <3> QED BY <3>1, QuestionEnds, SMTT(30), ZenonT(30) DEF PairInv
  <2>3. CASE \E s \in Secondaries : T!Settle(s)
    BY <2>3, SMTT(30), ZenonT(30) DEF T!Settle, PairInv
  <2> QED BY <2>1, <2>2, <2>3, ZenonT(30)
<1>3. \A s \in Secondaries : Owed(s)' <=> Owed(s)  BY <1>1 DEF Owed, T!N!Outstanding
<1>4. \A s \in Secondaries : T!InFlight(s)' <=> T!InFlight(s)  BY <1>1 DEF T!InFlight
<1> QED BY <1>1, <1>2, <1>3, <1>4, ZenonT(30) DEF PairInv

\* Every step keeps the suppression accounted for.
LEMMA PairStep ==
  PairInv /\ [Next]_vars => PairInv'
<1> SUFFICES ASSUME PairInv, [Next]_vars PROVE PairInv'
  OBVIOUS
<1>1. CASE UNCHANGED <<pending, sending, reading, closed, pair, crossed>>
  BY <1>1, NothingTold DEF Waiting
<1>2. CASE T!Next
  <2>1. CASE \E t \in Tellers : T!Publish(t) \/ T!Tell(t)
    BY <1>1, <2>1 DEF T!Publish, T!Tell, T!N!Tell, T!notifier, T!prober, T!history
  <2>2. CASE T!SetTargets
    BY <1>1, <2>2 DEF T!SetTargets, T!N!SetTargets, T!history
  <2>3. CASE T!Close
    <3>1. closed' = TRUE /\ UNCHANGED <<pending, sending, pair>>
      BY <2>3 DEF T!Close, T!N!Close, T!prober
    <3> QED BY <3>1 DEF PairInv
  <2>4. CASE T!Sender
    BY <2>4, RoundTells, WriteTells, SMTT(30), ZenonT(30) DEF T!Sender
  <2>5. CASE \E s \in Secondaries : \E id \in 1 .. MaxNotices : T!Acknowledge(s, id)
    BY <2>5, AcknowledgeTells, SMTT(30), ZenonT(30)
  <2>6. CASE \/ \E t \in Tellers : T!Store(t)
             \/ T!Tick \/ T!Ask
             \/ \E s \in Secondaries : \/ T!ObserveSender(s) \/ T!ObserveAnswered(s)
                                       \/ T!AskFails(s) \/ T!Answer(s) \/ T!Settle(s)
    BY <2>6, StoreTells, TickTells, ObserveTells, AnsweredTells, ProberTells
  <2> QED BY <1>2, <2>1, <2>2, <2>3, <2>4, <2>5, <2>6 DEF T!Next
<1> QED BY <1>1, <1>2 DEF Next, Publishing, Answering, Telling, vars, teller

-----------------------------------------------------------------------------
(* The gauges.                                                             *)

\* A step of the notifier's work makes the pair known.
LEMMA NotifiedKnown ==
  ASSUME KnownInv, NEW s \in Secondaries, NEW outcome, T!Notified(s, outcome), haunted' = haunted
  PROVE  KnownInv'
<1>1. UNCHANGED <<answering, standing>>  BY SMTT(30), ZenonT(30) DEF T!Notified
<1>2. /\ DOMAIN pair' = Secondaries
      /\ \A r \in Secondaries \ {s} : pair'[r] = pair[r]
      /\ DOMAIN pair'[s] = {"known", "suppressed", "question"}
      /\ pair'[s].known = TRUE
  BY NotifiedPair, ZenonT(30) DEF KnownInv
<1> QED BY <1>1, <1>2, ZenonT(30) DEF KnownInv, T!StandingIsOfAPair

\* The prober's own steps: a pair is forgotten with its gauge, and where its answer
\* is being worked out that is remembered.
LEMMA ProberKnown ==
  ASSUME KnownInv,
         T!Ask \/ \E s \in Secondaries : T!AskFails(s) \/ T!Answer(s) \/ T!Settle(s)
  PROVE  KnownInv'
<1>1. CASE T!Ask
  <2>1. PICK due \in SUBSET Secondaries, late \in SUBSET Secondaries : T!AskThose(due, late)
    BY <1>1 DEF T!Ask
  <2>2. answering' = answering /\ DOMAIN standing' = Secondaries
    BY <2>1, SMTT(30), ZenonT(30) DEF T!AskThose, T!Round
  <2>3. /\ DOMAIN pair' = Secondaries
        /\ \A s \in Secondaries :
              /\ DOMAIN pair'[s] = {"known", "suppressed", "question"}
              /\ \/ pair'[s].known
                 \/ /\ pair'[s].question = "none"
                    /\ \/ ~pair[s].known /\ standing'[s] = standing[s] /\ (s \in haunted' <=> s \in haunted)
                       \/ pair[s].known /\ standing'[s] = "none" /\ (s \in haunted' <=> s \in answering)
    BY <2>1, AskedPairs, ZenonT(30) DEF KnownInv
  <2>4. \A s \in answering' : s \in Secondaries /\ (pair'[s].known \/ s \in haunted')
    BY <2>2, <2>3, ZenonT(30) DEF KnownInv
  <2>5. T!StandingIsOfAPair'  BY <2>3, ZenonT(30) DEF KnownInv, T!StandingIsOfAPair
  <2>6. \A s \in Secondaries : pair'[s].question # "none" => pair'[s].known  BY <2>3, ZenonT(30)
  <2> QED BY <2>2, <2>3, <2>4, <2>5, <2>6, ZenonT(30) DEF KnownInv
<1>2. ASSUME NEW s \in Secondaries, T!AskFails(s) \/ T!Answer(s) PROVE KnownInv'
  <2>1. /\ pair' = [pair EXCEPT ![s].question = "none"]
        /\ pair[s].question # "none"
        /\ standing' = standing /\ haunted' = haunted
        /\ \A a \in answering' : a \in answering \/ a = s
    BY <1>2 DEF T!AskFails, T!Answer, T!history
  <2>2. /\ DOMAIN pair' = Secondaries
        /\ \A r \in Secondaries :
              /\ DOMAIN pair'[r] = {"known", "suppressed", "question"}
              /\ pair'[r].known = pair[r].known
              /\ pair'[r].question \in {pair[r].question, "none"}
    BY <2>1, QuestionEnds DEF KnownInv
  <2>3. pair[s].known  BY <2>1 DEF KnownInv
  <2>4. \A a \in answering' : a \in Secondaries /\ (pair'[a].known \/ a \in haunted')
    BY <2>1, <2>2, <2>3, SMTT(30), ZenonT(30) DEF KnownInv
  <2> QED BY <2>1, <2>2, <2>4 DEF KnownInv, T!StandingIsOfAPair
<1>3. ASSUME NEW s \in Secondaries, T!Settle(s) PROVE KnownInv'
  <2>1. /\ s \in answering /\ answering' = {} /\ pair' = pair /\ haunted' = haunted
        /\ standing' = [standing EXCEPT ![s] = IF pair[s].suppressed THEN @ ELSE "told"]
    BY <1>3, SMTT(30), ZenonT(30) DEF T!Settle, T!history
  <2>2. /\ DOMAIN standing' = Secondaries
        /\ \A r \in Secondaries \ {s} : standing'[r] = standing[r]
    BY <2>1, SMTT(30), ZenonT(30) DEF KnownInv
  <2>3. pair[s].known \/ s \in haunted  BY <2>1, ZenonT(30) DEF KnownInv
  <2> QED BY <2>1, <2>2, <2>3 DEF KnownInv, T!StandingIsOfAPair
<1> QED BY <1>1, <1>2, <1>3

\* Every step keeps the pairs known that are asked or spoken of.
LEMMA KnownStep == KnownInv /\ [Next]_vars => KnownInv'
<1> SUFFICES ASSUME KnownInv, [Next]_vars PROVE KnownInv'
  OBVIOUS
<1>1. CASE UNCHANGED <<pair, answering, standing, haunted>>
  BY <1>1 DEF KnownInv, T!StandingIsOfAPair
<1>2. CASE T!Next
  <2>1. CASE \/ \E t \in Tellers : T!Publish(t) \/ T!Tell(t) \/ T!Store(t)
             \/ T!SetTargets \/ T!Sender \/ T!Tick \/ T!Close
             \/ \E s \in Secondaries : \E id \in 1 .. MaxNotices : T!Acknowledge(s, id)
    BY <1>1, <2>1, ZenonT(30) DEF T!Publish, T!Tell, T!Store, T!SetTargets, T!Sender, T!Tick,
                      T!Close, T!Acknowledge, T!prober, T!history
  <2>2. ASSUME NEW s \in Secondaries, T!ObserveSender(s) \/ T!ObserveAnswered(s) PROVE KnownInv'
    <3>1. haunted' = haunted /\ (UNCHANGED T!prober \/ \E outcome : T!Notified(s, outcome))
      BY <2>2 DEF T!ObserveSender, T!ObserveAnswered
    <3> QED BY <1>1, <3>1, NotifiedKnown DEF T!prober
  <2> QED BY <1>2, <2>1, <2>2, ProberKnown, SMTT(30), ZenonT(30) DEF T!Next
<1> QED BY <1>1, <1>2 DEF Next, Publishing, Answering, Telling, vars, teller

-----------------------------------------------------------------------------
\* A pair that is not asked has a notification outstanding whose end will ask again,
\* unless an answer overtook the hook of a datagram to it or a notification that
\* leaves it out replaced the one it waited for; and what the gauges say is of a pair
\* that is there, unless it was dropped while its answer was being worked out: in
\* whatever order the tellers, the sender, the reader, the prober and a change of the
\* list come between each other's locked steps (Notifier.Notify, round, acknowledge,
\* observe; Prober.Notified, reconcile, answer).
THEOREM EveryPairAccounted == Spec => []PairsAccounted
<1>1. Init => PairInv /\ KnownInv
  <2> SUFFICES ASSUME Init PROVE PairInv /\ KnownInv
    OBVIOUS
  <2>1. T!N!Init /\ T!Init  BY DEF Init, T!Init
  <2>2. DOMAIN pending = {"id", "serial", "waiting", "due"} /\ sending = {}
    BY <2>1 DEF T!N!Init, T!N!NoNotice
  <2>3. /\ DOMAIN pair = Secondaries /\ DOMAIN standing = Secondaries /\ answering = {}
        /\ \A s \in Secondaries : /\ DOMAIN pair[s] = {"known", "suppressed", "question"}
                                  /\ ~pair[s].suppressed /\ pair[s].question = "none"
                                  /\ standing[s] = "none"
    BY <2>1, SMTT(30), ZenonT(30) DEF T!Init, T!Unknown
  <2>4. \A s \in Secondaries : ~T!InFlight(s)  BY <2>2 DEF T!InFlight
  <2> QED BY <2>2, <2>3, <2>4, ZenonT(30) DEF PairInv, KnownInv, T!StandingIsOfAPair
<1>2. PairInv /\ KnownInv => PairsAccounted
  BY DEF PairInv, KnownInv, PairsAccounted, T!SuppressedIsTold, Owed
<1>3. PairInv /\ KnownInv /\ [Next]_vars => (PairInv /\ KnownInv)'  BY PairStep, KnownStep
<1> QED BY <1>1, <1>2, <1>3, PTL DEF Spec

-----------------------------------------------------------------------------
(***************************************************************************)
(* The sockets.                                                            *)
(***************************************************************************)

Places == {"none", "track", "loop", "arm", "read", "answer", "ask", "send", "forget", "free"}

\* A goroutine between trackConn and forgetConn.
Served == {"loop", "arm", "read", "answer", "ask", "send", "forget"}

Busy == Conns \ S!Where({"none"})
Sending == S!Where({"send"})

\* The inductive invariant of the slots.
SlotsInv ==
    /\ at \in [Conns -> Places]
    /\ slots = Cardinality(Busy) /\ slots <= MaxTCPClients
    /\ transfers = Cardinality(Sending) /\ transfers <= MaxTransfers

\* The inductive invariant of the shutdown: whoever may wait for a query is
\* registered, and nobody sets a new deadline once closing is up.
WokenInv ==
    /\ at \in [Conns -> Places]
    /\ deadline \in [Conns -> {"idle", "past"}]
    /\ \A c \in Conns : at[c] \in Served => c \in conns
    /\ S!closing => \A c \in Conns : at[c] # "arm"
    /\ S!Woken

-----------------------------------------------------------------------------
(* The slots.                                                              *)

\* A connection that moves is busy unless it is gone, and sends where it moves to
\* sending.
LEMMA Move ==
  ASSUME at \in [Conns -> Places], NEW c \in Conns, NEW p \in Places, at' = [at EXCEPT ![c] = p]
  PROVE  /\ at' \in [Conns -> Places]
         /\ Busy' = IF p = "none" THEN Busy \ {c} ELSE Busy \cup {c}
         /\ Sending' = IF p = "send" THEN Sending \cup {c} ELSE Sending \ {c}
<1>1. at' \in [Conns -> Places]  OBVIOUS
<1>2. \A d \in Conns : at'[d] = IF d = c THEN p ELSE at[d]  OBVIOUS
<1> QED BY <1>1, <1>2 DEF Busy, Sending, S!Where

\* A connection that moves without taking or giving back either kind of slot.
LEMMA Passes ==
  ASSUME SlotsInv, NEW c \in Conns, NEW p \in Places \ {"none", "send"},
         at' = [at EXCEPT ![c] = p], at[c] \notin {"none", "send"}, UNCHANGED <<slots, transfers>>
  PROVE  SlotsInv'
<1>1. at \in [Conns -> Places]  BY DEF SlotsInv
<1>2. c \in Busy /\ c \notin Sending  BY DEF Busy, Sending, S!Where
<1>3. /\ at' \in [Conns -> Places]
      /\ Busy' = IF p = "none" THEN Busy \ {c} ELSE Busy \cup {c}
      /\ Sending' = IF p = "send" THEN Sending \cup {c} ELSE Sending \ {c}
  BY <1>1, Move, ZenonT(30)
<1>4. Busy' = Busy /\ Sending' = Sending  BY <1>2, <1>3
<1> QED BY <1>3, <1>4 DEF SlotsInv

\* The sets that are counted are finite.
LEMMA Finite == IsFiniteSet(Busy) /\ IsFiniteSet(Sending)
  BY ServingAssumption, FS_Subset DEF Busy, Sending, S!Where

\* takeSlot, or the connection turned away.
LEMMA AcceptSlots ==
  ASSUME SlotsInv, NEW c \in Conns, S!Accept(c) PROVE SlotsInv'
<1>1. at \in [Conns -> Places]  BY DEF SlotsInv
<1>2. CASE slots < MaxTCPClients
  <2>1. at' = [at EXCEPT ![c] = "track"] /\ slots' = slots + 1 /\ transfers' = transfers /\ at[c] = "none"
    BY <1>2 DEF S!Accept
  <2>2. c \notin Busy /\ c \notin Sending  BY <2>1 DEF Busy, Sending, S!Where
  <2>3. at' \in [Conns -> Places] /\ Busy' = Busy \cup {c} /\ Sending' = Sending
    <3>1. "track" \in Places  BY DEF Places
    <3>2. /\ at' \in [Conns -> Places]
          /\ Busy' = IF "track" = "none" THEN Busy \ {c} ELSE Busy \cup {c}
          /\ Sending' = IF "track" = "send" THEN Sending \cup {c} ELSE Sending \ {c}
      BY <1>1, <2>1, <3>1, Move, ZenonT(30)
    <3> QED BY <2>2, <3>2
  <2>4. Cardinality(Busy') = Cardinality(Busy) + 1 /\ Cardinality(Busy) \in Nat
    BY <2>2, <2>3, Finite, FS_AddElement, FS_CardinalityType
  <2> QED BY <1>2, <2>1, <2>3, <2>4, ServingAssumption DEF SlotsInv
<1>3. CASE ~(slots < MaxTCPClients)
  <2>1. UNCHANGED <<at, slots, transfers>>  BY <1>3 DEF S!Accept
  <2> QED BY <2>1 DEF SlotsInv, Busy, Sending, S!Where
<1> QED BY <1>2, <1>3

\* freeSlot.
LEMMA FreeSlots ==
  ASSUME SlotsInv, NEW c \in Conns, S!FreeSlot(c) PROVE SlotsInv'
<1>1. at \in [Conns -> Places]  BY SMTT(30), ZenonT(30) DEF SlotsInv
<1>2. at' = [at EXCEPT ![c] = "none"] /\ slots' = slots - 1 /\ transfers' = transfers /\ at[c] = "free"
  BY DEF S!FreeSlot
<1>3. c \in Busy /\ c \notin Sending  BY <1>2 DEF Busy, Sending, S!Where
<1>4. at' \in [Conns -> Places] /\ Busy' = Busy \ {c} /\ Sending' = Sending
  <2>1. "none" \in Places  BY DEF Places
  <2>2. /\ at' \in [Conns -> Places]
        /\ Busy' = IF "none" = "none" THEN Busy \ {c} ELSE Busy \cup {c}
        /\ Sending' = IF "none" = "send" THEN Sending \cup {c} ELSE Sending \ {c}
    BY <1>1, <1>2, <2>1, Move, ZenonT(30)
  <2> QED BY <1>3, <2>2
<1>5. Cardinality(Busy') = Cardinality(Busy) - 1 /\ Cardinality(Busy) \in Nat
  BY <1>3, <1>4, Finite, FS_RemoveElement, FS_CardinalityType
<1> QED BY <1>2, <1>4, <1>5, ServingAssumption DEF SlotsInv

\* takeTransfer, or the request refused.
LEMMA TransferSlots ==
  ASSUME SlotsInv, NEW c \in Conns, S!Transfer(c) PROVE SlotsInv'
<1>1. at \in [Conns -> Places] /\ at[c] = "ask" /\ slots' = slots  BY DEF SlotsInv, S!Transfer
<1>2. CASE transfers' = transfers /\ at' \in {[at EXCEPT ![c] = "loop"], [at EXCEPT ![c] = "forget"]}
  <2>1. PICK p \in {"loop", "forget"} : at' = [at EXCEPT ![c] = p]  BY <1>2
  <2>2. p \in Places \ {"none", "send"}  BY DEF Places
  <2> QED BY <1>1, <1>2, <2>1, <2>2, Passes, ZenonT(30)
<1>3. CASE /\ transfers < MaxTransfers /\ transfers' = transfers + 1
           /\ at' = [at EXCEPT ![c] = "send"]
  <2>1. c \in Busy /\ c \notin Sending  BY <1>1 DEF Busy, Sending, S!Where
  <2>2. at' \in [Conns -> Places] /\ Busy' = Busy /\ Sending' = Sending \cup {c}
    <3>1. "send" \in Places  BY DEF Places
    <3>2. /\ at' \in [Conns -> Places]
          /\ Busy' = IF "send" = "none" THEN Busy \ {c} ELSE Busy \cup {c}
          /\ Sending' = IF "send" = "send" THEN Sending \cup {c} ELSE Sending \ {c}
      BY <1>1, <1>3, <3>1, Move, ZenonT(30)
    <3> QED BY <2>1, <3>2, SMTT(30), ZenonT(30)
  <2>3. Cardinality(Sending') = Cardinality(Sending) + 1 /\ Cardinality(Sending) \in Nat
    BY <2>1, <2>2, Finite, FS_AddElement, FS_CardinalityType
  <2> QED BY <1>1, <1>3, <2>2, <2>3, ServingAssumption DEF SlotsInv
<1> QED BY <1>2, <1>3, SMTT(30), ZenonT(30) DEF S!Transfer

\* releaseTransfer, however the transfer ended.
LEMMA TransferEndsSlots ==
  ASSUME SlotsInv, NEW c \in Conns, S!TransferEnds(c) PROVE SlotsInv'
<1>1. at \in [Conns -> Places] /\ at[c] = "send" /\ slots' = slots /\ transfers' = transfers - 1
  BY DEF SlotsInv, S!TransferEnds
<1>2. PICK p \in {"loop", "forget"} : at' = [at EXCEPT ![c] = p]  BY DEF S!TransferEnds
<1>3. c \in Busy /\ c \in Sending  BY <1>1 DEF Busy, Sending, S!Where
<1>4. at' \in [Conns -> Places] /\ Busy' = Busy /\ Sending' = Sending \ {c}
  <2>1. p \in Places \ {"none", "send"}  BY SMTT(30), ZenonT(30) DEF Places
  <2>2. /\ at' \in [Conns -> Places]
        /\ Busy' = IF p = "none" THEN Busy \ {c} ELSE Busy \cup {c}
        /\ Sending' = IF p = "send" THEN Sending \cup {c} ELSE Sending \ {c}
    BY <1>1, <1>2, <2>1, Move, ZenonT(30)
  <2> QED BY <1>3, <2>1, <2>2
<1>5. Cardinality(Sending') = Cardinality(Sending) - 1 /\ Cardinality(Sending) \in Nat
  BY <1>3, <1>4, Finite, FS_RemoveElement, FS_CardinalityType, SMTT(30), ZenonT(30)
<1> QED BY <1>1, <1>4, <1>5, ServingAssumption DEF SlotsInv

\* Every other step of a connection keeps what it holds.
LEMMA OtherSlots ==
  ASSUME SlotsInv, NEW c \in Conns,
         \/ S!TrackConn(c) \/ S!Loop(c) \/ S!Arm(c) \/ S!Read(c) \/ S!ReadFails(c)
         \/ S!AnswerQuery(c) \/ S!ForgetConn(c)
  PROVE  SlotsInv'
<1>1. UNCHANGED <<slots, transfers>>
  BY SMTT(30), ZenonT(30) DEF S!TrackConn, S!Loop, S!Arm, S!Read, S!ReadFails, S!AnswerQuery, S!ForgetConn
<1>2. at[c] \notin {"none", "send"}
  BY DEF S!TrackConn, S!Loop, S!Arm, S!Read, S!ReadFails, S!AnswerQuery, S!ForgetConn
<1>3. \E p \in Places \ {"none", "send"} : at' = [at EXCEPT ![c] = p]
  <2>1. {"free", "loop", "forget", "arm", "read", "answer", "ask"} \subseteq Places \ {"none", "send"}
    BY DEF Places
  <2>2. \E p \in {"free", "loop", "forget", "arm", "read", "answer", "ask"} : at' = [at EXCEPT ![c] = p]
    BY SMTT(30), ZenonT(30) DEF S!TrackConn, S!Loop, S!Arm, S!Read, S!ReadFails, S!AnswerQuery, S!ForgetConn
  <2> QED BY <2>1, <2>2, ZenonT(30)
<1> QED BY <1>1, <1>2, <1>3, Passes, ZenonT(30)

\* Every step keeps the slots exact.
LEMMA SlotsStep == SlotsInv /\ [Next]_vars => SlotsInv'
<1> SUFFICES ASSUME SlotsInv, [Next]_vars PROVE SlotsInv'
  BY SMTT(30), ZenonT(30)
<1>1. CASE UNCHANGED <<at, slots, transfers>>  BY <1>1, SMTT(30), ZenonT(30) DEF SlotsInv, Busy, Sending, S!Where
<1>2. CASE S!Next
  <2>1. CASE \E u \in Sockets : S!ReadUDP(u) \/ S!AnswerDatagram(u) \/ S!ReaderEnds(u)
    BY <1>1, <2>1 DEF S!ReadUDP, S!AnswerDatagram, S!ReaderEnds
  <2>2. CASE S!AcceptEnds  BY <1>1, <2>2 DEF S!AcceptEnds
  <2>3. CASE S!Shutdown
    BY <1>1, <2>3, SMTT(30), ZenonT(30) DEF S!Shutdown, S!ShutdownBegins, S!CloseListeners, S!WakeConns, S!Drain
  <2>4. ASSUME NEW c \in Conns, S!Accept(c) \/ S!ServeConn(c) \/ S!Read(c) \/ S!ReadFails(c) \/ S!Expire(c)
        PROVE  SlotsInv'
    <3>1. CASE S!Expire(c)  BY <1>1, <3>1, SMTT(30), ZenonT(30) DEF S!Expire
    <3> QED BY <2>4, <3>1, AcceptSlots, FreeSlots, TransferSlots, TransferEndsSlots, OtherSlots, SMTT(30), ZenonT(30) DEF S!ServeConn
  <2> QED BY <1>2, <2>1, <2>2, <2>3, <2>4 DEF S!Next
<1> QED BY <1>1, <1>2 DEF Next, Publishing, Answering, Telling, vars, server

\* The cardinality that Server counts with is the one the theorems are about.
LEMMA SameCount == \A X : S!Cardinality(X) = Cardinality(X)
  BY DEF S!Cardinality, Cardinality, S!IsFiniteSet, IsFiniteSet

\* No slot of either kind leaks, is given back twice or is given out over its limit,
\* however connections and transfers end (takeSlot, freeSlot, takeTransfer,
\* releaseTransfer).
THEOREM SlotsAreExact == Spec => []SlotsExact
<1>1. Init => SlotsInv
  <2> SUFFICES ASSUME Init PROVE SlotsInv
    BY SMTT(30), ZenonT(30)
  <2>1. at = [c \in Conns |-> "none"] /\ slots = 0 /\ transfers = 0  BY DEF Init, S!Init
  <2>2. Busy = {} /\ Sending = {}  BY <2>1, SMTT(30), ZenonT(30) DEF Busy, Sending, S!Where
  <2> QED BY <2>1, <2>2, FS_EmptySet, ServingAssumption DEF SlotsInv, Places
<1>2. SlotsInv => SlotsExact  BY SameCount DEF SlotsInv, SlotsExact, S!SlotsExact, Busy, Sending
<1> QED BY <1>1, <1>2, SlotsStep, PTL DEF Spec

-----------------------------------------------------------------------------
(* The shutdown.                                                           *)

\* A connection that moves within what it may do once it is registered.
LEMMA StaysServed ==
  ASSUME WokenInv, NEW c \in Conns, NEW p \in {"loop", "answer", "ask", "send", "forget"},
         at' = [at EXCEPT ![c] = p], at[c] \in Served, UNCHANGED <<shut, deadline, conns>>
  PROVE  WokenInv'
<1>1. \A d \in Conns : at'[d] = IF d = c THEN p ELSE at[d]  BY SMTT(30), ZenonT(30) DEF WokenInv
<1>2. at' \in [Conns -> Places]  BY SMTT(30), ZenonT(30) DEF WokenInv, Places
<1>3. c \in conns  BY DEF WokenInv
<1> QED BY <1>1, <1>2, <1>3, SMTT(30), ZenonT(30) DEF WokenInv, S!closing, S!Woken, S!Where, Served

\* Registering, the head of the loop and the new deadline: the three that look at
\* closing or rely on a look at it.
LEMMA EntersServed ==
  ASSUME WokenInv, NEW c \in Conns, S!TrackConn(c) \/ S!Loop(c) \/ S!Arm(c) PROVE WokenInv'
<1>1. CASE S!TrackConn(c) /\ S!closing
  <2>1. at' = [at EXCEPT ![c] = "free"] /\ UNCHANGED <<shut, deadline, conns>>
    BY <1>1, SMTT(30), ZenonT(30) DEF S!TrackConn
  <2>2. \A d \in Conns : at'[d] = IF d = c THEN "free" ELSE at[d]  BY <2>1, SMTT(30), ZenonT(30) DEF WokenInv
  <2>3. at' \in [Conns -> Places]  BY <2>1, SMTT(30), ZenonT(30) DEF WokenInv, Places
  <2> QED BY <2>1, <2>2, <2>3, ZenonT(30) DEF WokenInv, S!closing, S!Woken, S!Where, Served
<1>2. CASE S!TrackConn(c) /\ ~S!closing
  <2>1. at' = [at EXCEPT ![c] = "loop"] /\ conns' = conns \cup {c} /\ UNCHANGED <<shut, deadline>>
    BY <1>2, SMTT(30), ZenonT(30) DEF S!TrackConn
  <2>2. \A d \in Conns : at'[d] = IF d = c THEN "loop" ELSE at[d]  BY <2>1, SMTT(30), ZenonT(30) DEF WokenInv
  <2>3. at' \in [Conns -> Places]  BY <2>1, SMTT(30), ZenonT(30) DEF WokenInv, Places
  <2> QED BY <1>2, <2>1, <2>2, <2>3, SMTT(30), ZenonT(30) DEF WokenInv, S!closing, S!Woken, S!Where, Served
<1>3. CASE S!Loop(c) /\ S!closing
  BY <1>3, StaysServed, ZenonT(30) DEF S!Loop, Served
<1>4. CASE S!Loop(c) /\ ~S!closing
  <2>1. at' = [at EXCEPT ![c] = "arm"] /\ at[c] = "loop" /\ UNCHANGED <<shut, deadline, conns>>
    BY <1>4 DEF S!Loop
  <2>2. \A d \in Conns : at'[d] = IF d = c THEN "arm" ELSE at[d]  BY <2>1 DEF WokenInv
  <2>3. at' \in [Conns -> Places]  BY <2>1, SMTT(30), ZenonT(30) DEF WokenInv, Places
  <2> QED BY <1>4, <2>1, <2>2, <2>3, SMTT(30), ZenonT(30) DEF WokenInv, S!closing, S!Woken, S!Where, Served
<1>5. CASE S!Arm(c)
  <2>1. /\ at' = [at EXCEPT ![c] = "read"] /\ at[c] = "arm" /\ UNCHANGED <<shut, conns>>
        /\ deadline' = [deadline EXCEPT ![c] = "idle"]
    BY <1>5, SMTT(30), ZenonT(30) DEF S!Arm
  <2>2. \A d \in Conns : at'[d] = IF d = c THEN "read" ELSE at[d]  BY <2>1 DEF WokenInv
  <2>3. at' \in [Conns -> Places] /\ deadline' \in [Conns -> {"idle", "past"}]
    BY <2>1, SMTT(30), ZenonT(30) DEF WokenInv, Places
  <2>4. shut = "no"  BY <2>1 DEF WokenInv, S!closing
  <2> QED BY <2>1, <2>2, <2>3, <2>4, SMTT(30), ZenonT(30) DEF WokenInv, S!closing, S!Woken, S!Where, Served
<1> QED BY <1>1, <1>2, <1>3, <1>4, <1>5, SMTT(30), ZenonT(30)

\* Accepting a connection, and letting go of one.
LEMMA OutsideServed ==
  ASSUME WokenInv, NEW c \in Conns, S!Accept(c) \/ S!ForgetConn(c) \/ S!FreeSlot(c) PROVE WokenInv'
<1>1. CASE UNCHANGED <<shut, at, deadline, conns>>
  BY <1>1, SMTT(30), ZenonT(30) DEF WokenInv, S!closing, S!Woken, S!Where
<1>2. CASE S!Accept(c) /\ slots < MaxTCPClients
  <2>1. /\ at' = [at EXCEPT ![c] = "track"] /\ UNCHANGED <<shut, conns>>
        /\ deadline' = [deadline EXCEPT ![c] = "idle"]
    BY <1>2 DEF S!Accept
  <2>2. \A d \in Conns : /\ at'[d] = IF d = c THEN "track" ELSE at[d]
                         /\ deadline'[d] = IF d = c THEN "idle" ELSE deadline[d]
    BY <2>1 DEF WokenInv
  <2>3. at' \in [Conns -> Places] /\ deadline' \in [Conns -> {"idle", "past"}]
    BY <2>1 DEF WokenInv, Places
  <2> QED BY <2>1, <2>2, <2>3 DEF WokenInv, S!closing, S!Woken, S!Where, Served
<1>3. CASE S!Accept(c) /\ ~(slots < MaxTCPClients)  BY <1>1, <1>3, SMTT(30), ZenonT(30) DEF S!Accept
<1>4. CASE S!ForgetConn(c)
  <2>1. at' = [at EXCEPT ![c] = "free"] /\ conns' = conns \ {c} /\ UNCHANGED <<shut, deadline>>
    BY <1>4, SMTT(30), ZenonT(30) DEF S!ForgetConn
  <2>2. \A d \in Conns : at'[d] = IF d = c THEN "free" ELSE at[d]  BY <2>1 DEF WokenInv
  <2>3. at' \in [Conns -> Places]  BY <2>1, SMTT(30), ZenonT(30) DEF WokenInv, Places
  <2> QED BY <2>1, <2>2, <2>3, SMTT(30), ZenonT(30) DEF WokenInv, S!closing, S!Woken, S!Where, Served
<1>5. CASE S!FreeSlot(c)
  <2>1. at' = [at EXCEPT ![c] = "none"] /\ UNCHANGED <<shut, deadline, conns>>
    BY <1>5 DEF S!FreeSlot
  <2>2. \A d \in Conns : at'[d] = IF d = c THEN "none" ELSE at[d]  BY <2>1 DEF WokenInv
  <2>3. at' \in [Conns -> Places]  BY <2>1 DEF WokenInv, Places
  <2> QED BY <2>1, <2>2, <2>3 DEF WokenInv, S!closing, S!Woken, S!Where, Served
<1> QED BY <1>2, <1>3, <1>4, <1>5

\* Raising closing and moving the deadlines.
LEMMA ShutdownWakes ==
  ASSUME "deadline" \notin Windows, WokenInv, S!Shutdown PROVE WokenInv'
<1>1. CASE S!ShutdownBegins
  BY <1>1, SMTT(30), ZenonT(30) DEF S!ShutdownBegins, WokenInv, S!closing, S!Woken, S!Where
<1>2. CASE S!CloseListeners
  BY <1>2, SMTT(30), ZenonT(30) DEF S!CloseListeners, WokenInv, S!closing, S!Woken, S!Where
<1>3. CASE S!WakeConns
  <2>1. /\ shut = "closed" /\ shut' = "woken" /\ UNCHANGED <<at, conns>>
        /\ deadline' = [c \in Conns |-> IF c \in conns THEN "past" ELSE deadline[c]]
    BY <1>3, SMTT(30), ZenonT(30) DEF S!WakeConns
  <2>2. deadline' \in [Conns -> {"idle", "past"}]  BY <2>1, SMTT(30), ZenonT(30) DEF WokenInv
  <2>3. \A c \in Conns : at[c] = "read" => deadline'[c] = "past"  BY <2>1, SMTT(30), ZenonT(30) DEF WokenInv, Served
  <2> QED BY <2>1, <2>2, <2>3, SMTT(30), ZenonT(30) DEF WokenInv, S!closing, S!Woken, S!Where
<1>4. CASE S!Drain
  <2>1. shut = "woken" /\ shut' # "no" /\ UNCHANGED <<at, deadline, conns>>  BY <1>4, SMTT(30), ZenonT(30) DEF S!Drain
  <2> QED BY <2>1, SMTT(30), ZenonT(30) DEF WokenInv, S!closing, S!Woken, S!Where
<1> QED BY <1>1, <1>2, <1>3, <1>4 DEF S!Shutdown

\* Every step keeps the connections in reach of the shutdown.
LEMMA WokenStep == "deadline" \notin Windows /\ WokenInv /\ [Next]_vars => WokenInv'
<1> SUFFICES ASSUME "deadline" \notin Windows, WokenInv, [Next]_vars PROVE WokenInv'
  BY SMTT(30), ZenonT(30)
<1>1. CASE UNCHANGED <<shut, at, deadline, conns>>
  BY <1>1, SMTT(30), ZenonT(30) DEF WokenInv, S!closing, S!Woken, S!Where
<1>2. CASE S!Next
  <2>1. CASE \E u \in Sockets : S!ReadUDP(u) \/ S!AnswerDatagram(u) \/ S!ReaderEnds(u)
    BY <1>1, <2>1, SMTT(30), ZenonT(30) DEF S!ReadUDP, S!AnswerDatagram, S!ReaderEnds
  <2>2. CASE S!AcceptEnds  BY <1>1, <2>2, SMTT(30), ZenonT(30) DEF S!AcceptEnds
  <2>3. CASE S!Shutdown  BY <2>3, ShutdownWakes, SMTT(30), ZenonT(30)
  <2>4. ASSUME NEW c \in Conns, S!Accept(c) \/ S!ServeConn(c) \/ S!Read(c) \/ S!ReadFails(c) \/ S!Expire(c)
        PROVE  WokenInv'
    <3>1. CASE S!Expire(c)
      <4>1. deadline' = [deadline EXCEPT ![c] = "past"] /\ UNCHANGED <<shut, at, conns>>
        BY <3>1, SMTT(30), ZenonT(30) DEF S!Expire
      <4>2. deadline' \in [Conns -> {"idle", "past"}]  BY <4>1, SMTT(30), ZenonT(30) DEF WokenInv
      <4>3. \A d \in Conns : deadline'[d] = IF d = c THEN "past" ELSE deadline[d]
        BY <4>1, SMTT(30), ZenonT(30) DEF WokenInv
      <4> QED BY <4>1, <4>2, <4>3, SMTT(30), ZenonT(30) DEF WokenInv, S!closing, S!Woken, S!Where
    <3>2. CASE S!Read(c) \/ S!ReadFails(c) \/ S!AnswerQuery(c) \/ S!Transfer(c) \/ S!TransferEnds(c)
      <4>1. at[c] \in Served /\ UNCHANGED <<shut, deadline, conns>>
        BY <3>2, ZenonT(30) DEF S!Read, S!ReadFails, S!AnswerQuery, S!Transfer, S!TransferEnds, Served
      <4>2. \E p \in {"loop", "answer", "ask", "send", "forget"} : at' = [at EXCEPT ![c] = p]
        BY <3>2, ZenonT(30) DEF S!Read, S!ReadFails, S!AnswerQuery, S!Transfer, S!TransferEnds
      <4> QED BY <4>1, <4>2, StaysServed, ZenonT(30)
    <3> QED BY <2>4, <3>1, <3>2, EntersServed, OutsideServed DEF S!ServeConn
  <2> QED BY <1>2, <2>1, <2>2, <2>3, <2>4, SMTT(30), ZenonT(30) DEF S!Next
<1> QED BY <1>1, <1>2, SMTT(30), ZenonT(30) DEF Next, Publishing, Answering, Telling, vars, server

\* After Shutdown moved the deadlines no connection waits out an idle period: each was
\* registered in time to be woken or was refused, provided the shutdown does not
\* begin between a connection's look at closing and its new deadline (trackConn,
\* serveConn, Shutdown).
THEOREM ShutdownWakesAll ==
  ASSUME "deadline" \notin Windows PROVE Spec => []Woken
<1>1. Init => WokenInv
  BY DEF Init, S!Init, WokenInv, S!closing, S!Woken, S!Where, Places, Served
<1>2. WokenInv => Woken  BY DEF WokenInv, Woken
<1>3. WokenInv /\ [Next]_vars => WokenInv'  BY WokenStep
<1> QED BY <1>1, <1>2, <1>3, PTL DEF Spec

================================================================================
