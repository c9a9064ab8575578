------------------------------- MODULE Members -------------------------------
(***************************************************************************)
(* Who is in the cluster: joining in two steps, being taken out, and what  *)
(* `weg cluster status` and `weg cluster remove` say about the majority.   *)
(*                                                                         *)
(* Raft is external.  It has one configuration, changed by its leader; a   *)
(* change that its own voters cannot commit leaves the cluster without a   *)
(* leader.  Running members see the configuration as it is; a member that  *)
(* was off when it was taken out is never told (D46).  How far a store has *)
(* got is Cluster's subject: here a node has been sent the log or not.     *)
(***************************************************************************)
EXTENDS Integers, FiniteSets

CONSTANTS
    Data,           \* servers
    Witnesses,      \* wegwitness programs, known by their identifiers
    Formed,         \* the servers there may be to begin with, all of them voters
    joinHops,
    MaxChanges,     \* changes of the configuration
    ChecksOverlap   \* may a second change be checked before the first is made?

VARIABLES
    config,     \* node -> "out", "nonvoter" or "voter"
    leader,     \* who leads, or NoNode
    up,         \* the nodes that run and are reached
    sent,       \* the nodes the log has reached: they hold Raft state
    stalled,    \* members that could not apply an entry
    told,       \* members that know they were taken out
    join,       \* node -> how far its Join is
    pending,    \* changes checked and not yet made
    changes,    \* how many have been made
    removal     \* the `weg cluster remove` under way

vars == <<config, leader, up, sent, stalled, told, join, pending, changes, removal>>

NoNode == "none"
Nodes == Data \cup Witnesses
NotJoining == [step |-> "no", target |-> NoNode, hops |-> 0, role |-> "none", holdsLog |-> FALSE]
NoRemoval == [step |-> "no", id |-> NoNode, foretold |-> {}]

Init ==
    /\ up \in Formed
    /\ leader \in up
    /\ sent = up
    /\ config = [n \in Nodes |-> IF n \in up THEN "voter" ELSE "out"]
    /\ stalled = {}
    /\ told = {}
    /\ join = [n \in Nodes |-> NotJoining]
    /\ pending = {}
    /\ changes = 0
    /\ removal = NoRemoval

Voters(c) == {n \in Nodes : c[n] = "voter"}
TakesPart(n) == n \in up /\ n \notin stalled \cup told
Majority(c) == 2 * Cardinality({n \in Voters(c) : TakesPart(n)}) > Cardinality(Voters(c))
Left(n) == n \in stalled \cup told

\* Something else happened, so what a removal was told may no longer be so.
Disturbed == removal' = [removal EXCEPT !.foretold = {}]

-----------------------------------------------------------------------------
(* Raft, and the machines.                                                 *)

Elect(n) ==
    /\ leader = NoNode
    /\ n \in Voters(config) /\ TakesPart(n) /\ Majority(config)
    /\ leader' = n
    /\ UNCHANGED <<config, up, sent, stalled, told, join, pending, changes, removal>>

\* A witness hands leadership to a member that holds data.
HandOver(n) ==
    /\ leader \in Witnesses
    /\ n \in Data \cap Voters(config) /\ TakesPart(n)
    /\ leader' = n
    /\ UNCHANGED <<config, up, sent, stalled, told, join, pending, changes, removal>>

LeaderIf(c, u) == IF leader \in u /\ 2 * Cardinality(Voters(c) \cap u) > Cardinality(Voters(c))
                  THEN leader ELSE NoNode

GoDown(n) ==
    /\ n \in up
    /\ up' = up \ {n}
    /\ leader' = LeaderIf(config, {m \in up' : TakesPart(m)})
    /\ join' = [join EXCEPT ![n] = NotJoining]
    /\ Disturbed
    /\ UNCHANGED <<config, sent, stalled, told, pending, changes>>

\* A member that gives up on an entry leaves Raft; a witness applies none.
leave(n) ==
    /\ n \in Data \cap sent /\ TakesPart(n) /\ config[n] # "out"
    /\ stalled' = stalled \cup {n}
    /\ leader' = LeaderIf(config, {m \in up : TakesPart(m)} \ {n})
    /\ Disturbed
    /\ UNCHANGED <<config, up, sent, told, join, pending, changes>>

Replicate(n) ==
    /\ leader # NoNode /\ n \in up /\ config[n] # "out" /\ n \notin sent
    /\ sent' = sent \cup {n}
    /\ UNCHANGED <<config, leader, up, stalled, told, join, pending, changes, removal>>

\* Its database and Raft directory are discarded, once it is out and off, and
\* long after anything it asked for.
Discard(n) ==
    /\ n \notin up /\ n \in sent /\ config[n] = "out"
    /\ \A p \in pending : p.id # n
    /\ sent' = sent \ {n}
    /\ stalled' = stalled \ {n}
    /\ told' = told \ {n}
    /\ UNCHANGED <<config, leader, up, join, pending, changes, removal>>

-----------------------------------------------------------------------------
(* Joining.                                                                *)

\* Started with --join, which a node that holds Raft state ignores.
startMember(n, via, role) ==
    /\ n \notin up
    /\ (role = "witness") = (n \in Witnesses)
    /\ up' = up \cup {n}
    /\ join' = [join EXCEPT ![n] = IF n \in sent THEN NotJoining
                                   ELSE [step |-> "asks", target |-> via, hops |-> 0,
                                         role |-> role, holdsLog |-> FALSE]]
    /\ Disturbed
    /\ UNCHANGED <<config, leader, sent, stalled, told, pending, changes>>

\* Mutant: only a witness that comes is counted, not a server that goes.
keepsWitnessesFewComing(id, voting) ==
    LET voters == (Voters(config) \ {id}) \cup (IF voting THEN {id} ELSE {})
        witnesses == voters \cap Witnesses
    IN  ~voting \/ witnesses = {} \/ 2 * Cardinality(witnesses) < Cardinality(voters)

\* The voters there would be once id votes, or is gone.
keepsWitnessesFew(id, voting) ==
    LET voters == (Voters(config) \ {id}) \cup (IF voting THEN {id} ELSE {})
        witnesses == voters \cap Witnesses
    IN  witnesses = {} \/ 2 * Cardinality(witnesses) < Cardinality(voters)

Fails(n) == join' = [join EXCEPT ![n] = NotJoining]
MayCheck == ChecksOverlap \/ pending = {}

\* One request, answered by the member it was put to.  Raft is asked to make
\* the change after the check.  A witness that leads is handing over.
admit(n) ==
    LET t == join[n].target
        vote == join[n].role # "nonvoter" /\ join[n].holdsLog
        change == [op |-> IF vote THEN "vote" ELSE "add", id |-> n, at |-> t,
                   staged |-> join[n].role # "nonvoter" /\ ~vote]
    IN  /\ join[n].step = "asks" /\ join[n].hops < joinHops
        /\ \/ /\ t \notin up \/ Left(t) \/ t \in Witnesses \/ leader = NoNode
              /\ Fails(n) /\ UNCHANGED pending
           \/ /\ t \in up \ Witnesses /\ ~Left(t) /\ leader \notin {t, NoNode}
              /\ join' = [join EXCEPT ![n].target = leader, ![n].hops = @ + 1]
              /\ UNCHANGED pending
           \/ /\ t = leader /\ t \notin Witnesses /\ MayCheck
              /\ IF n \in Witnesses /\ ~keepsWitnessesFew(n, TRUE)
                 THEN Fails(n) /\ UNCHANGED pending
                 ELSE /\ pending' = pending \cup {change}
                      /\ join' = [join EXCEPT ![n].step = "asked", ![n].hops = @ + 1]
        /\ UNCHANGED <<config, leader, up, sent, stalled, told, changes, removal>>

\* Sent on, or asking, too often.
JoinGivesUp(n) ==
    /\ \/ join[n].step = "asks" /\ join[n].hops = joinHops
       \/ join[n].step \in {"waits", "done"} /\ (n \notin sent \/ n \in stalled)
    /\ Fails(n)
    /\ UNCHANGED <<config, leader, up, sent, stalled, told, pending, changes, removal>>

\* What has been sent has been applied, as far as the leader had got.
awaitLog(n) ==
    /\ join[n].step \in {"waits", "done"} /\ n \in sent /\ n \notin stalled
    /\ join' = IF join[n].step = "done" THEN [join EXCEPT ![n] = NotJoining]
               ELSE [join EXCEPT ![n].step = "asks", ![n].holdsLog = TRUE]
    /\ UNCHANGED <<config, leader, up, sent, stalled, told, pending, changes, removal>>

-----------------------------------------------------------------------------
(* The change itself.                                                      *)

\* A voter that is added without a vote keeps the one it has.
Changed(p) ==
    [config EXCEPT ![p.id] = CASE p.op = "vote" -> "voter"
                               [] p.op = "add" -> IF @ = "voter" THEN @ ELSE "nonvoter"
                               [] p.op = "remove" -> "out"]

Replied(p, ok) ==
    CASE p.op = "remove" -> UNCHANGED join
      [] p.op # "remove" /\ join[p.id].step # "asked" -> UNCHANGED join
      [] OTHER -> IF ok THEN join' = [join EXCEPT ![p.id].step = IF p.staged THEN "waits" ELSE "done"]
                  ELSE IF leader # NoNode /\ leader # p.at
                  THEN join' = [join EXCEPT ![p.id].step = "asks", ![p.id].target = leader]
                  ELSE Fails(p.id)

Answered(p, ok) ==
    IF p.op = "remove"
    THEN removal' = [removal EXCEPT !.step = IF ok THEN "made" ELSE "no"]
    ELSE Disturbed

\* Made by the leader it was put to.  The last voter is never taken out, by
\* Raft itself.
membership(p) ==
    /\ pending' = pending \ {p}
    /\ IF leader = p.at /\ Voters(Changed(p)) # {} /\ changes < MaxChanges
       THEN /\ config' = Changed(p)
            /\ changes' = changes + 1
            /\ told' = IF p.op = "remove" /\ p.id \in up \cap sent THEN told \cup {p.id}
                       ELSE told \ {p.id}
            /\ leader' = IF p.op = "remove" /\ p.id = leader THEN NoNode
                         ELSE LeaderIf(config', {m \in up : TakesPart(m)})
            /\ Replied(p, Majority(config')) /\ Answered(p, TRUE)
       ELSE /\ UNCHANGED <<config, changes, told, leader>>
            /\ Replied(p, FALSE) /\ Answered(p, FALSE)
    /\ UNCHANGED <<up, sent, stalled>>

-----------------------------------------------------------------------------
(* Status, and taking a member out.                                        *)

\* A member that answers says how far it has got.
progressOf(n) == n \in up /\ n \notin stalled \cup told

quorumOf ==
    [voters |-> Cardinality(Voters(config)),
     answered |-> Cardinality({n \in Voters(config) : progressOf(n)}),
     needed |-> Cardinality(Voters(config)) \div 2 + 1]

\* Mutant: the member taken out is counted as one that answered.
warnAboutMajorityCounting(id) ==
    LET q == quorumOf
    IN  IF q.answered < q.needed THEN {}
        ELSE IF config[id] # "voter" THEN {q}
        ELSE {[voters |-> q.voters - 1, answered |-> q.answered - 1,
               needed |-> (q.voters - 1) \div 2 + 1]}

\* What taking id out leaves of the majority; nothing is said without one.
warnAboutMajority(id) ==
    LET q == quorumOf
    IN  IF q.answered < q.needed THEN {}
        ELSE IF config[id] # "voter" THEN {q}
        ELSE {[voters |-> q.voters - 1,
               answered |-> q.answered - (IF progressOf(id) THEN 1 ELSE 0),
               needed |-> (q.voters - 1) \div 2 + 1]}

runClusterRemove(id) ==
    /\ removal.step = "no" /\ config[id] # "out"
    /\ removal' = [step |-> "told", id |-> id, foretold |-> warnAboutMajority(id)]
    /\ UNCHANGED <<config, leader, up, sent, stalled, told, join, pending, changes>>

\* The request reaches the leader, or is refused.
Remove ==
    /\ removal.step = "told" /\ MayCheck
    /\ IF /\ leader # NoNode /\ leader \notin Witnesses
          /\ config[removal.id] # "out" /\ Voters(config) # {removal.id}
          /\ keepsWitnessesFew(removal.id, FALSE)
       THEN /\ pending' = pending \cup {[op |-> "remove", id |-> removal.id, staged |-> FALSE, at |-> leader]}
            /\ removal' = [removal EXCEPT !.step = "asked"]
       ELSE UNCHANGED pending /\ removal' = NoRemoval
    /\ UNCHANGED <<config, leader, up, sent, stalled, told, join, changes>>

RemovalDone ==
    /\ removal.step = "made"
    /\ removal' = NoRemoval
    /\ UNCHANGED <<config, leader, up, sent, stalled, told, join, pending, changes>>

Next ==
    \/ \E n \in Nodes : \/ Elect(n) \/ HandOver(n) \/ GoDown(n) \/ leave(n) \/ Replicate(n) \/ Discard(n)
                        \/ \E via \in Data \ {n}, role \in {"voter", "nonvoter", "witness"} :
                               startMember(n, via, role)
                        \/ admit(n)
                        \/ JoinGivesUp(n) \/ awaitLog(n)
                        \/ runClusterRemove(n)
    \/ \E p \in pending : membership(p)
    \/ Remove
    \/ RemovalDone

Spec == Init /\ [][Next]_vars

-----------------------------------------------------------------------------
(***************************************************************************)
(* Witnesses stay fewer than half of the voters, and every voter has been  *)
(* sent the log, whichever way members come and go                         *)
(* (keepsWitnessesFew, admit, Remove, Join's two steps).                   *)
(***************************************************************************)
VotersSound ==
    /\ LET w == Voters(config) \cap Witnesses
       IN  w = {} \/ 2 * Cardinality(w) < Cardinality(Voters(config))
    /\ Voters(config) \subseteq sent

(***************************************************************************)
(* What `weg cluster remove` says a removal will leave of the majority is  *)
(* what a status says afterwards, unless something else happened in        *)
(* between (warnAboutMajority, quorumOf).                                  *)
(***************************************************************************)
ForetoldMajority ==
    removal.step = "made" => \A q \in removal.foretold : quorumOf = q
=============================================================================
