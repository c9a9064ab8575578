----------------------------- MODULE ClusterProofs -----------------------------
(***************************************************************************)
(* Proofs about Cluster, for any number of members, witnesses and zones    *)
(* and any bounds: the inductive invariant and what follows from it, that  *)
(* a plan is never made in ignorance of a committed batch, and that no     *)
(* serial is claimed twice.                                                *)
(***************************************************************************)
EXTENDS ClusterStores

USE DEF NoStall

\* The initial states satisfy the invariant: there is no log, and every store but
\* the founder's is empty.
LEMMA InitInductive == Init => Inductive
<1> SUFFICES ASSUME Init PROVE Inductive
  OBVIOUS
<1> USE ClusterAssumption
<1>1. FoundedFirst  BY DEF Init, FoundedFirst
<1>2. CountersInOrder  BY DEF Init, CountersInOrder, InOrder
<1>3. \A m \in Members : SnapshotHolds(m)  BY DEF Init, SnapshotHolds
<1>4. Commands = {}  BY DEF Init, Commands
<1>5. ASSUME NEW m \in Members \ Witnesses PROVE StoreHolds(m)
  <2>1. CASE m = Founder
    <3>1. store[m].at = 0 /\ store[m].holds = {0}  BY <2>1 DEF Init, Seed
    <3> QED BY <1>4, <2>1, <3>1 DEF Init, StoreHolds, Good, Upto, NoGap
  <2>2. CASE m # Founder  BY <1>4, <2>2 DEF Init, StoreHolds, NoGap
  <2> QED BY <2>1, <2>2
<1> QED BY <1>1, <1>2, <1>3, <1>5 DEF Inductive

\* Every step keeps the types and the invariant.
LEMMA InvStep == Undisturbed /\ LeavesAtOnce /\ Inv /\ [Next]_vars => Inv'
<1> SUFFICES ASSUME Undisturbed, LeavesAtOnce, Inv, [Next]_vars PROVE Inv'
  OBVIOUS
<1>1. TypeOK' /\ LogGrows  BY TypeStep, LogStep
<1>2. FoundedFirst' /\ CountersInOrder'  BY <1>1, FoundedStep, CountersStep
<1>3. \A n \in Members : SnapshotHolds(n)'  BY <1>1, SnapshotsStep
<1>4. \A n \in Members \ Witnesses : StoreHolds(n)'  BY <1>1, StoresStep
<1> QED BY <1>1, <1>2, <1>3, <1>4 DEF Inv, Inductive

--------------------------------------------------------------------------------
(***************************************************************************)
(* The theorems, for a founding nothing disturbs and members that take no  *)
(* snapshot between a stall and their leaving.                             *)
(***************************************************************************)

\* The types and the invariant hold in every state.
LEMMA Always == ASSUME Undisturbed, LeavesAtOnce PROVE Spec => []Inv
<1>1. Init => Inv  BY InitType, InitInductive DEF Inv
<1>2. Inv /\ [Next]_vars => Inv'  BY InvStep
<1> QED BY <1>1, <1>2, PTL DEF Spec

\* Raft's counters stay in order, nobody joins before the first snapshot, and what
\* a store or a snapshot lacks is never taken for covered: a member that lacks a
\* batch before Raft's count has stalled or is going (fsm.Apply, catchUp).
THEOREM Invariance == ASSUME Undisturbed, LeavesAtOnce PROVE Spec => []Inductive
<1>1. Inv => Inductive  BY DEF Inv
<1> QED BY <1>1, Always, PTL

\* Every variable keeps its type.
THEOREM Types == ASSUME Undisturbed, LeavesAtOnce PROVE Spec => []TypeOK
<1>1. Inv => TypeOK  BY DEF Inv
<1> QED BY <1>1, Always, PTL

\* Every store holds exactly the batches of the log up to its applied index, and
\* what the founder brought in, through stalls, power cuts, replays and restored
\* snapshots (fsm.Apply, catchUp, Restore).
THEOREM StorePrefix == ASSUME Undisturbed, LeavesAtOnce PROVE Spec => []StoreIsPrefix
<1>1. Inv => StoreIsPrefix  BY DEF Inv, Inductive, StoreHolds, StoreIsPrefix, Good
<1> QED BY <1>1, Always, PTL

\* A log snapshot stands in for every batch up to the position it is filed under
\* (fsmSnapshot.Persist).
THEOREM SnapshotCoverage == ASSUME Undisturbed, LeavesAtOnce PROVE Spec => []SnapshotCovers
<1>1. Inv => SnapshotCovers
  BY DEF Inv, Inductive, SnapshotHolds, SnapshotCovers, Good, NoGap
<1> QED BY <1>1, Always, PTL

\* What the founder held reaches every member that holds anything (Node.Init).
THEOREM FounderReaches ==
  ASSUME Undisturbed, LeavesAtOnce PROVE Spec => []FounderContentReaches
<1>1. Inv => FounderContentReaches
  <2>1. Empty.at = 0  BY DEF Empty
  <2> QED BY <2>1 DEF Inv, Inductive, StoreHolds, FounderContentReaches, Good, Upto
<1> QED BY <1>1, Always, PTL

\* What a step may never do to a member that has stalled.
Stays(m) ==
    (stall[m] # None /\ phase'[m] # "down") => store'[m] = store[m] /\ stall'[m] = stall[m]

\* What that rests on, however founding and snapshots go: stores, stalls and
\* phases are kept member by member, and a process that is down has no stall.
OfMembers(f) == f = [m \in Members |-> f[m]]
Shape ==
    /\ OfMembers(store) /\ OfMembers(stall) /\ OfMembers(phase)
    /\ \A m \in Members : phase[m] = "down" => stall[m] = None

\* A member that has stalled leaves its store and its index where they are while
\* its process runs, without any assumption on founding, snapshots or plans
\* (fsm.Apply, StoreConfiguration, Restore).
THEOREM Stalled == Spec => NothingAfterAGap
<1>1. Init => Shape  BY DEF Init, Shape, OfMembers
<1>2. ASSUME Shape, Next PROVE Shape' /\ \A m \in Members : Stays(m)
  <2> USE DEF Shape, OfMembers, Stays
  <2>1. CASE UNCHANGED <<store, stall, phase>>  BY <1>2, <2>1
  <2>2. CASE Bootstrap \/ FirstSnapshot \/ InitFails \/ LoseLeader \/ RaftEntry
    BY <1>2, <2>1, <2>2 DEF Bootstrap, FirstSnapshot, InitFails, LoseLeader, RaftEntry, memberVars
  <2>3. ASSUME NEW m \in Members,
               \/ Admit(m) \/ Elect(m) \/ SendEntry(m) \/ Snapshot(m) \/ Persist(m)
               \/ SettleAndPlan(m) \/ Propose(m) \/ Refuse(m)
        PROVE  UNCHANGED <<store, stall, phase>>
    BY <2>3 DEF Admit, Elect, SendEntry, Snapshot, Persist, SettleAndPlan, Propose,
                Refuse, memberVars
  <2>4. ASSUME NEW m \in Members, Leave(m) \/ Close(m) PROVE Shape' /\ \A n \in Members : Stays(n)
    BY <1>2, <2>4 DEF Leave, Close
  <2>5. ASSUME NEW m \in Members, Deliver(m) PROVE Shape' /\ \A n \in Members : Stays(n)
    <3>1. phase' = phase /\ phase[m] # "down"  BY <2>5 DEF Deliver
    <3>2. \/ store' = store /\ stall' = stall
          \/ /\ stall' = stall /\ stall[m] = None
             /\ \E c : store' = [store EXCEPT ![m] = c]
          \/ store' = store /\ stall[m] = None /\ \E i : stall' = [stall EXCEPT ![m] = i]
      BY <2>5 DEF Deliver, Stop, NoStall
    <3> QED BY <1>2, <3>1, <3>2
  <2>6. ASSUME NEW m \in Members, SendSnapshot(m) PROVE Shape' /\ \A n \in Members : Stays(n)
    <3>1. phase' = phase /\ phase[m] # "down"  BY <2>6 DEF SendSnapshot
    <3>2. \/ store' = store /\ stall' = stall
          \/ stall' = stall /\ stall[m] = None /\ \E c : store' = [store EXCEPT ![m] = c]
          \/ store' = store /\ \E i : stall' = [stall EXCEPT ![m] = IF @ = None THEN i ELSE @]
      BY <2>6 DEF SendSnapshot, Stop, NoStall
    <3> QED BY <1>2, <3>1, <3>2
  <2>7. ASSUME NEW m \in Members, End(m) PROVE Shape' /\ \A n \in Members : Stays(n)
    <3>1. \E c : store' = [store EXCEPT ![m] = c]  BY <2>7, ZenonT(30) DEF End
    <3>2. phase' = [phase EXCEPT ![m] = "down"] /\ stall' = [stall EXCEPT ![m] = None]
      BY <2>7 DEF End, Forget
    <3> QED BY <1>2, <3>1, <3>2, ZenonT(30)
  <2>8. ASSUME NEW m \in Members, Start(m) PROVE Shape' /\ \A n \in Members : Stays(n)
    <3>1. phase[m] = "down" /\ phase' = [phase EXCEPT ![m] = "up"] /\ stall' = stall
      BY <2>8 DEF Start
    <3>2. store' = store \/ \E c : store' = [store EXCEPT ![m] = c]  BY <2>8, ZenonT(30) DEF Start
    <3> QED BY <1>2, <3>1, <3>2
  <2> QED BY <1>2, <2>1, <2>2, <2>3, <2>4, <2>5, <2>6, <2>7, <2>8 DEF Next, MemberNext
<1>3. Shape /\ UNCHANGED vars => Shape'  BY DEF Shape, OfMembers, vars, memberVars
<1>4. Shape /\ [Next]_vars => Shape' /\ [\A m \in Members : Stays(m)]_vars  BY <1>2, <1>3
<1>5. NothingAfterAGap <=> [][\A m \in Members : Stays(m)]_vars
  BY DEF NothingAfterAGap, Stays
<1> QED BY <1>1, <1>4, <1>5, PTL DEF Spec

--------------------------------------------------------------------------------
(***************************************************************************)
(* Plans.                                                                  *)
(***************************************************************************)

\* A member can still propose the plan it holds.
MayPropose(m) == plan[m] # {} /\ phase[m] = "up" /\ stall[m] = None /\ leader = m

\* The store such a plan was made from lacks nothing of the log.
PlanHolds == \A m \in Members :
    MayPropose(m) => m \notin Witnesses /\ Good(store[m]) /\ NoGap(store[m].at, Len(log))

\* A step that adds no batch to the log.
SameBatches == Commands' = Commands /\ \A i \in Commands : log'[i] = log[i]

\* An entry that is no batch adds none to the log.
LEMMA NoBatch ==
  ASSUME TypeOK, NEW kind \in {"config", "raft"}, log' = Append(log, [kind |-> kind, claims |-> {}])
  PROVE  SameBatches
<1>1. Len(log') = Len(log) + 1 /\ Len(log) \in Nat /\ log'[Len(log) + 1].kind = kind
      /\ \A i \in 1 .. Len(log) : log'[i] = log[i]
  BY DEF TypeOK
<1>2. kind # "command"  OBVIOUS
<1> QED BY <1>1, <1>2 DEF Commands, SameBatches

\* A plan that may be proposed after a step was made by the step, or might have been
\* proposed before it; then the store behind it has not gone back, and no batch
\* was added to the log.
Kept(m) ==
    /\ MayPropose(m) /\ plan'[m] = plan[m]
    /\ store'[m].at >= store[m].at /\ SameBatches

\* A plan that may be proposed after a step was kept over it, or was made by it.
LEMMA PlanOrigin ==
  ASSUME NoReturn, Inv, Inv', [Next]_vars, NEW m \in Members, MayPropose(m)'
  PROVE  Kept(m) \/ SettleAndPlan(m)
<1> DEFINE Goal == Kept(m) \/ SettleAndPlan(m)
<1>1. TypeOK /\ TypeOK' /\ m # None /\ store[m] \in Content /\ store[m].at \in Nat
  BY ClusterAssumption, ZenonT(30) DEF Inv, TypeOK, Content
<1>2. leader = m => phase[m] = "up" /\ has[m] = Len(log) /\ Len(log) > 0
  BY <1>1 DEF Inv, Inductive, FoundedFirst
<1>3. CASE MayPropose(m) /\ plan'[m] = plan[m] /\ store'[m] = store[m] /\ SameBatches
  BY <1>1, <1>3 DEF Kept
<1>4. CASE UNCHANGED <<plan, phase, stall, leader, store, log>>
  BY <1>3, <1>4 DEF MayPropose, Commands, SameBatches
<1>5. CASE Bootstrap
  BY <1>1, <1>2, <1>5 DEF Bootstrap, MayPropose
<1>6. CASE RaftEntry \/ \E n \in Members : Admit(n)
  <2>1. UNCHANGED <<plan, phase, stall, leader, store>>  BY <1>6 DEF RaftEntry, Admit, memberVars
  <2>2. SameBatches  BY <1>1, <1>6, NoBatch DEF RaftEntry, Admit, Propagate
  <2> QED BY <1>3, <2>1, <2>2 DEF MayPropose
<1>7. CASE FirstSnapshot \/ InitFails \/ LoseLeader
  BY <1>1, <1>4, <1>7 DEF FirstSnapshot, InitFails, LoseLeader, MayPropose, memberVars
<1>8. ASSUME NEW n \in Members, SendEntry(n) \/ Snapshot(n) \/ Persist(n) PROVE Goal
  BY <1>4, <1>8 DEF SendEntry, Snapshot, Persist, memberVars, raftVars
<1>9. ASSUME NEW n \in Members, Elect(n) PROVE Goal
  <2>1. leader' = n /\ plan[n] = {} /\ plan' = plan  BY <1>9 DEF Elect
  <2> QED BY <2>1 DEF MayPropose
<1>10. ASSUME NEW n \in Members, Leave(n) \/ Close(n) \/ Refuse(n) PROVE Goal
  <2>1. MayPropose(m)
    BY <1>1, <1>10 DEF Leave, Close, Refuse, MayPropose, TypeOK, memberVars, raftVars
  <2>2. UNCHANGED <<store, log>> /\ plan'[m] = plan[m]
    BY <1>1, <1>10, SMTT(30), ZenonT(30) DEF Leave, Close, Refuse, MayPropose, TypeOK, memberVars, raftVars
  <2> QED BY <1>3, <2>1, <2>2 DEF Commands, SameBatches
<1>11. ASSUME NEW n \in Members, SettleAndPlan(n) PROVE Goal
  <2>1. UNCHANGED <<phase, stall, leader, store, log>>
    BY <1>11 DEF SettleAndPlan, memberVars, raftVars
  <2>2. CASE n # m
    BY <1>1, <1>3, <1>11, <2>1, <2>2, SMTT(30), ZenonT(30) DEF SettleAndPlan, MayPropose, TypeOK, Commands, SameBatches
  <2> QED BY <1>11, <2>2
<1>12. ASSUME NEW n \in Members, Propose(n) PROVE Goal
  BY <1>1, <1>12 DEF Propose, MayPropose, TypeOK
<1>13. ASSUME NEW n \in Members, Deliver(n) PROVE Goal
  <2>1. UNCHANGED <<plan, phase, leader, log>> /\ n \in Members
    BY <1>13 DEF Deliver, raftVars
  <2>2. stall' = stall \/ \E i : Stop(n, i)  BY <1>13 DEF Deliver
  <2>3. stall[m] = None  BY <1>1, <2>2, SMTT(30), ZenonT(30) DEF MayPropose, Stop, TypeOK
  <2>4. store' = store \/ store' = [store EXCEPT ![n] = ApplyBatchAt(@, delivered[n] + 1)]
    BY <1>13 DEF Deliver
  <2>5. store'[m].at >= store[m].at
    <3>1. CASE store' = store  BY <1>1, <3>1
    <3>2. CASE store' = [store EXCEPT ![n] = ApplyBatchAt(@, delivered[n] + 1)]
      <4>1. store'[m] = store[m] \/ store'[m] = ApplyBatchAt(store[m], delivered[n] + 1)
        BY <1>1, <1>13, <3>2 DEF TypeOK
      <4>2. delivered \in [Members -> Nat]  BY <1>1, Zenon DEF TypeOK
      <4>3. delivered[n] + 1 \in Nat  BY <1>13, <4>2
      <4> QED BY <1>1, <4>1, <4>3 DEF ApplyBatchAt
    <3> QED BY <2>4, <3>1, <3>2
  <2> QED BY <2>1, <2>3, <2>5, SMTT(30), ZenonT(30) DEF Kept, MayPropose, Commands, SameBatches
<1>14. ASSUME NEW n \in Members, SendSnapshot(n) PROVE Goal
  <2>1. UNCHANGED <<plan, phase, leader, log>> /\ leader # n  BY <1>14 DEF SendSnapshot
  <2>2. stall' = stall \/ \E i : Stop(n, i)  BY <1>14 DEF SendSnapshot
  <2>3. stall[m] = None  BY <1>1, <2>2, SMTT(30), ZenonT(30) DEF MayPropose, Stop, TypeOK
  <2>4. store' = store \/ \E c : store' = [store EXCEPT ![n] = c]  BY <1>14 DEF SendSnapshot
  <2>5. store'[m] = store[m]  BY <1>1, <2>1, <2>4 DEF MayPropose, TypeOK
  <2> QED BY <1>3, <2>1, <2>3, <2>5 DEF MayPropose, Commands, SameBatches
<1>15. ASSUME NEW n \in Members, End(n) PROVE Goal
  <2>1. leader' = m /\ leader' = (IF leader = n THEN None ELSE leader) /\ log' = log
    BY <1>15 DEF End, Forget, MayPropose
  <2>2. leader = m /\ n # m  BY <1>1, <2>1
  <2>3. plan'[m] = plan[m] /\ stall'[m] = stall[m] /\ phase'[m] = phase[m] /\ store'[m] = store[m]
    BY <1>1, <1>15, <2>2, SMTT(30), ZenonT(30) DEF End, Forget, TypeOK
  <2> QED BY <1>3, <2>1, <2>2, <2>3 DEF MayPropose, Commands, SameBatches
<1>16. ASSUME NEW n \in Members, Start(n) PROVE Goal
  <2>1. UNCHANGED <<log, leader, stall, plan>> /\ phase[n] = "down"  BY <1>16 DEF Start
  <2>2. leader = m /\ n # m  BY <1>2, <2>1 DEF MayPropose
  <2>3. phase'[m] = phase[m] /\ store'[m] = store[m]
    BY <1>1, <1>16, <2>2 DEF Start, TypeOK
  <2> QED BY <1>3, <2>1, <2>3 DEF MayPropose, Commands, SameBatches
<1>17. CASE UNCHANGED vars  BY <1>4, <1>17 DEF vars, raftVars, memberVars
<1> QED BY <1>5, <1>6, <1>7, <1>8, <1>9, <1>10, <1>11, <1>12, <1>13, <1>14, <1>15, <1>16, <1>17
        DEF Next, MemberNext

\* A plan that may be proposed was one that might be, the store behind it has not
\* gone back, and no batch was added to the log.
LEMMA PlanKept ==
  ASSUME Inv, Inv', PlanHolds, NEW m \in Members, MayPropose(m), MayPropose(m)',
         store'[m].at >= store[m].at, Commands' = Commands
  PROVE  m \notin Witnesses /\ Good(store[m])' /\ NoGap(store[m].at, Len(log))'
<1>1. m \notin Witnesses /\ NoGap(store[m].at, Len(log))  BY DEF PlanHolds
<1>2. /\ store[m].at \in Nat /\ store'[m].at \in Nat
      /\ Len(log) \in Nat /\ Len(log') \in Nat /\ Commands \subseteq Nat
  <2>1. TypeOK /\ TypeOK'  BY DEF Inv
  <2>2. store[m] \in Content /\ store'[m] \in Content  BY <2>1 DEF TypeOK
  <2>3. log \in Seq(Entry) /\ log' \in Seq(Entry)  BY <2>1, Zenon DEF TypeOK
  <2>4. Len(log) \in Nat /\ Len(log') \in Nat  BY <2>3
  <2>5. Commands \subseteq Nat  BY <2>4 DEF Commands
  <2> QED BY <2>2, <2>4, <2>5 DEF Content
<1>3. NoGap(store[m].at, Len(log))'
  <2>1. \A i \in Commands : i <= Len(log)  BY DEF Commands
  <2> QED BY <1>1, <1>2, <2>1 DEF NoGap
<1>4. Good(store[m])'
  <2>1. phase'[m] = "up" /\ leader' = m  BY DEF MayPropose
  <2>2. has'[m] = Len(log') /\ Len(log') > 0 
    BY <2>1, ClusterAssumption DEF Inv, Inductive, FoundedFirst
  <2>3. m # Founder => store'[m].at > 0
    BY <1>1, <2>1, <2>2 DEF Inv, Inductive, StoreHolds
  <2>4. StoreHolds(m)'  BY <1>1 DEF Inv, Inductive
  <2>5. (m # Founder /\ store'[m] = Empty) \/ Good(store[m])'  BY <2>4, Zenon DEF StoreHolds
  <2>6. Empty.at = 0  BY DEF Empty
  <2> QED BY <2>3, <2>5, <2>6
<1> QED BY <1>1, <1>3, <1>4

\* Every step keeps it: a plan is made from a store that lacks nothing, and while it
\* is held only its own member adds a batch.
LEMMA PlanStep == NoReturn /\ Inv /\ Inv' /\ PlanHolds /\ [Next]_vars => PlanHolds'
<1> SUFFICES ASSUME NoReturn, Inv, Inv', PlanHolds, [Next]_vars, NEW m \in Members, MayPropose(m)'
             PROVE  m \notin Witnesses /\ Good(store[m])' /\ NoGap(store[m].at, Len(log))'
  BY DEF PlanHolds
<1>1. CASE Kept(m)  BY <1>1, PlanKept DEF Kept, SameBatches
<1>2. CASE SettleAndPlan(m)
  <2>1. UNCHANGED <<store, log>>  BY <1>2 DEF SettleAndPlan, memberVars, raftVars
  <2>2. m \notin Witnesses /\ delivered[m] = Len(log) /\ phase[m] = "up" /\ NoStall(m) /\ leader = m
    BY <1>2 DEF SettleAndPlan
  <2>3. m # None /\ has[m] = Len(log) /\ Len(log) > 0
    BY <2>2, ClusterAssumption DEF Inv, Inductive, FoundedFirst
  <2>4. StoreHolds(m)  BY <2>2 DEF Inv, Inductive
  <2>5. /\ (m # Founder /\ store[m] = Empty) \/ Good(store[m])
        /\ m # Founder => store[m].at > 0
        /\ NoGap(store[m].at, Len(log))
    BY <2>2, <2>3, <2>4 DEF StoreHolds
  <2>6. Empty.at = 0  BY DEF Empty
  <2>7. Good(store[m])  BY <2>5, <2>6
  <2> QED BY <2>1, <2>2, <2>5, <2>7 DEF Good, Upto, NoGap, Commands
<1> QED BY <1>1, <1>2, PlanOrigin

\* While a plan can still be proposed, the store it was made from holds every batch
\* of the log: nothing is planned in ignorance of a committed write, as long as no
\* member is elected again with an old plan in hand (Applier.settle, Node.Propose).
THEOREM PlansCurrent ==
  ASSUME Undisturbed, LeavesAtOnce, NoReturn PROVE Spec => []PlanIsCurrent
<1>1. Init => PlanHolds  BY DEF Init, PlanHolds, MayPropose
<1>2. Inv /\ Inv' /\ PlanHolds /\ [Next]_vars => PlanHolds'  BY PlanStep
<1>3. Inv /\ PlanHolds => PlanIsCurrent
  <2> SUFFICES ASSUME Inv, PlanHolds, NEW m \in Members, MayPropose(m)
               PROVE  store[m].holds = Upto(Len(log))
    BY DEF PlanIsCurrent, MayPropose, NoStall
  <2>1. Good(store[m]) /\ NoGap(store[m].at, Len(log))  BY DEF PlanHolds
  <2>2. \A i \in Commands : i <= Len(log)  BY DEF Commands
  <2> QED BY <2>1, <2>2 DEF Good, Upto, NoGap
<1> QED BY <1>1, <1>2, <1>3, Always, PTL DEF Spec

\* How many batches of the log change a zone.
Touching(z) == {i \in Commands : \E c \in log[i].claims : c[1] = z}
Changes(z) == Cardinality(Touching(z))

\* A batch claims no serial past the number of changes, no two claim the same, and
\* a plan that may be proposed claims the next one of each of its zones.
ClaimsHold ==
    /\ \A i \in Commands : \A c \in log[i].claims : c[2] <= Changes(c[1])
    /\ ClaimsAreUnique
    /\ \A m \in Members : MayPropose(m) => \A c \in plan[m] : c[2] = Changes(c[1]) + 1

\* The log is finite, so the changes of a zone can be counted.
LEMMA ChangesType ==
  ASSUME TypeOK, NEW z PROVE IsFiniteSet(Touching(z)) /\ Changes(z) \in Nat
<1>1. Touching(z) \subseteq 1 .. Len(log)  BY DEF Touching, Commands
<1>2. IsFiniteSet(1 .. Len(log))
  <2>1. Len(log) \in Nat  BY DEF TypeOK
  <2> QED BY <2>1, FS_Interval
<1> QED BY <1>1, <1>2, FS_Subset, FS_CardinalityType DEF Changes

\* Where no batch is added, nothing claimed changes.
LEMMA SameClaims ==
  ASSUME SameBatches
  PROVE  /\ \A z : Changes(z)' = Changes(z)
         /\ ClaimsHold => /\ \A i \in Commands' : \A c \in log'[i].claims : c[2] <= Changes(c[1])'
                          /\ ClaimsAreUnique'
<1>1. ASSUME NEW z PROVE Touching(z)' = Touching(z)  BY DEF SameBatches, Touching
<1>2. \A z : Changes(z)' = Changes(z)  BY <1>1 DEF Changes
<1> QED BY <1>2 DEF ClaimsHold, ClaimsAreUnique, SameBatches

\* A step adds a batch only by proposing it.
LEMMA BatchOrigin ==
  ASSUME Inv, [Next]_vars PROVE SameBatches \/ \E n \in Members : Propose(n)
<1>1. TypeOK  BY DEF Inv
<1>2. CASE log' = log  BY <1>2 DEF SameBatches, Commands
<1>3. CASE Bootstrap \/ RaftEntry \/ \E n \in Members : Admit(n)
  BY <1>1, <1>3, NoBatch, SMTT(30), ZenonT(30) DEF Bootstrap, RaftEntry, Admit, Propagate
<1>4. CASE \/ FirstSnapshot \/ InitFails \/ LoseLeader
           \/ \E n \in Members : \/ Elect(n) \/ SendEntry(n) \/ SendSnapshot(n) \/ Deliver(n)
                                 \/ Snapshot(n) \/ Persist(n) \/ Leave(n) \/ SettleAndPlan(n)
                                 \/ Refuse(n) \/ Close(n) \/ End(n) \/ Start(n)
           \/ UNCHANGED vars
  BY <1>2, <1>4, ZenonT(30) DEF FirstSnapshot, InitFails, LoseLeader, Elect, SendEntry, SendSnapshot, Deliver,
         Snapshot, Persist, Leave, SettleAndPlan, Refuse, Close, End, Start, vars, raftVars
<1> QED BY <1>3, <1>4 DEF Next, MemberNext

\* A proposed batch claims serials no other has, and they are then counted.
LEMMA ProposeClaims ==
  ASSUME TypeOK, ClaimsHold, NEW m \in Members, Propose(m)
  PROVE  /\ \A i \in Commands' : \A c \in log'[i].claims : c[2] <= Changes(c[1])'
         /\ ClaimsAreUnique'
<1> DEFINE n == Len(log) + 1
           new == [kind |-> "command", claims |-> plan[m]]
<1>1. MayPropose(m) /\ log' = Append(log, new)  BY DEF Propose, MayPropose, Propagate, NoStall
<1>2. /\ Len(log) \in Nat /\ Len(log') = n /\ log'[n] = new
      /\ \A i \in 1 .. Len(log) : log'[i] = log[i]
  <2>1. log \in Seq(Entry)  BY DEF TypeOK
  <2> HIDE DEF new
  <2> QED BY <1>1, <2>1
<1>3. Commands' = Commands \cup {n} /\ n \notin Commands /\ \A i \in Commands : log'[i] = log[i]
  BY <1>2 DEF Commands
<1>4. \A c \in plan[m] : c[2] = Changes(c[1]) + 1  BY <1>1 DEF ClaimsHold
<1>5. ASSUME NEW z PROVE /\ Changes(z) \in Nat /\ Changes(z)' \in Nat /\ Changes(z) <= Changes(z)'
                         /\ (\E c \in plan[m] : c[1] = z) => Changes(z)' = Changes(z) + 1
  <2>1. IsFiniteSet(Touching(z)) /\ Changes(z) \in Nat  BY ChangesType
  <2>2. CASE \E c \in plan[m] : c[1] = z
    <3>1. Touching(z)' = Touching(z) \cup {n}  BY <1>2, <1>3, <2>2 DEF Touching
    <3>2. n \notin Touching(z)  BY <1>3 DEF Touching
    <3>3. Changes(z)' = Changes(z) + 1  BY <2>1, <3>1, <3>2, FS_AddElement, ZenonT(30) DEF Changes
    <3> QED BY <2>1, <3>3
  <2>3. CASE ~ \E c \in plan[m] : c[1] = z
    <3>1. Touching(z)' = Touching(z)  BY <1>2, <1>3, <2>3 DEF Touching
    <3> QED BY <2>1, <2>3, <3>1 DEF Changes
  <2> QED BY <2>2, <2>3
<1>6. ASSUME NEW i \in Commands, NEW c \in log[i].claims PROVE c[2] \in Nat /\ c[2] <= Changes(c[1])
  <2>1. log[i] \in Entry  BY DEF TypeOK, Commands
  <2>2. c \in Claim  BY <2>1 DEF Entry
  <2> QED BY <2>2 DEF Claim, ClaimsHold
<1>7. \A i \in Commands' : \A c \in log'[i].claims : c[2] <= Changes(c[1])'
  <2> SUFFICES ASSUME NEW i \in Commands', NEW c \in log'[i].claims PROVE c[2] <= Changes(c[1])'
    OBVIOUS
  <2>1. CASE i \in Commands  BY <1>3, <1>5, <1>6, <2>1
  <2>2. CASE i = n  BY <1>2, <1>4, <1>5, <2>2
  <2> QED BY <1>3, <2>1, <2>2
<1>8. \A i \in Commands : plan[m] \cap log[i].claims = {}
  <2> SUFFICES ASSUME NEW i \in Commands, NEW c \in plan[m] \cap log[i].claims PROVE FALSE
    OBVIOUS
  <2> QED BY <1>4, <1>5, <1>6
<1>9. ClaimsAreUnique'
  BY <1>2, <1>3, <1>8 DEF ClaimsHold, ClaimsAreUnique
<1> QED BY <1>7, <1>9

\* Every step keeps it: a new plan counts what its store holds, which is every
\* batch of the log.
LEMMA ClaimsStep ==
  NoReturn /\ Inv /\ Inv' /\ PlanHolds' /\ ClaimsHold /\ [Next]_vars => ClaimsHold'
<1> SUFFICES ASSUME NoReturn, Inv, Inv', PlanHolds', ClaimsHold, [Next]_vars PROVE ClaimsHold'
  OBVIOUS
<1>1. TypeOK  BY DEF Inv
<1>2. /\ \A i \in Commands' : \A c \in log'[i].claims : c[2] <= Changes(c[1])'
      /\ ClaimsAreUnique'
  BY <1>1, BatchOrigin, SameClaims, ProposeClaims
<1>3. ASSUME NEW m \in Members, MayPropose(m)', NEW c \in plan'[m] PROVE c[2] = Changes(c[1])' + 1
  <2>1. CASE Kept(m)  BY <1>3, <2>1, SameClaims DEF Kept, ClaimsHold
  <2>2. CASE SettleAndPlan(m)
    <3>1. UNCHANGED <<store, log>>  BY <2>2 DEF SettleAndPlan, memberVars, raftVars
    <3>2. store[m].holds \ {0} = Commands
      <4>1. Good(store[m])' /\ NoGap(store[m].at, Len(log))'  BY <1>3 DEF PlanHolds
      <4>2. Commands' = Commands  BY <3>1 DEF Commands
      <4>3. \A i \in Commands : i <= Len(log) /\ i # 0  BY <1>1, CommandsType
      <4> QED BY <3>1, <4>1, <4>2, <4>3 DEF Good, Upto, NoGap
    <3>3. \A z : SerialOf(m, z) = Changes(z)  BY <3>2 DEF SerialOf, Changes, Touching
    <3>4. \E z : c = <<z, SerialOf(m, z) + 1>>
      <4>1. PICK touched \in SUBSET Zones \ {{}} :
               plan' = [plan EXCEPT ![m] = {<<z, SerialOf(m, z) + 1>> : z \in touched}]
        BY <2>2, ZenonT(30) DEF SettleAndPlan
      <4>2. plan'[m] = {<<z, SerialOf(m, z) + 1>> : z \in touched}  BY <1>1, <1>3, <4>1 DEF TypeOK
      <4> QED BY <1>3, <4>2
    <3>5. SameBatches  BY <3>1 DEF SameBatches, Commands
    <3> QED BY <3>3, <3>4, <3>5, SameClaims
  <2> QED BY <1>3, <2>1, <2>2, PlanOrigin
<1> QED BY <1>2, <1>3 DEF ClaimsHold

\* No two batches of the log claim the same serial of a zone, so that no state
\* machine refuses one for it: "the plan is the only place that failure is allowed
\* to happen" (Applier.settle), as long as no member is elected again with an old
\* plan in hand.
THEOREM SerialsUnique ==
  ASSUME Undisturbed, LeavesAtOnce, NoReturn PROVE Spec => []ClaimsAreUnique
<1>1. Init => PlanHolds /\ ClaimsHold
  BY DEF Init, PlanHolds, MayPropose, ClaimsHold, ClaimsAreUnique, Commands
<1>2. Inv /\ Inv' /\ PlanHolds /\ ClaimsHold /\ [Next]_vars => PlanHolds' /\ ClaimsHold'
  BY PlanStep, ClaimsStep
<1>3. ClaimsHold => ClaimsAreUnique  BY DEF ClaimsHold
<1> QED BY <1>1, <1>2, <1>3, Always, PTL DEF Spec

================================================================================
