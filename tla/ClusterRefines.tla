---------------------------- MODULE ClusterRefines -----------------------------
(***************************************************************************)
(* Cluster implements ReplicatedStore, for any number of members,          *)
(* witnesses and zones and any bounds.                                     *)
(***************************************************************************)
EXTENDS ClusterProofs

\* The initial states map to initial states.
LEMMA InitRefines == Init => R!Init
<1> SUFFICES ASSUME Init PROVE R!Init
  OBVIOUS
<1> USE ClusterAssumption
<1>1. R!Prefix(0) = Seed
  <2>1. Len(log) = 0  BY DEF Init
  <2>2. {i \in 1 .. Len(log) : log[i].kind = "command" /\ i <= 0} = {}  BY <2>1
  <2> QED BY <2>2, ZenonT(30) DEF R!Prefix, Seed
<1>2. [m \in Members \ Witnesses |-> store[m]]
        = [m \in Members \ Witnesses |-> IF m = Founder THEN R!Prefix(0) ELSE R!Unwritten]
  BY <1>1 DEF Init, R!Unwritten, Empty
<1>3. {m \in Members \ Witnesses : phase[m] # "down"} = Members \ Witnesses  BY DEF Init
<1>4. {m \in Members \ Witnesses : stall[m] # None} = {}  BY DEF Init
<1> QED BY <1>2, <1>3, <1>4 DEF R!Init, Init

\* A store that holds what its position says is the prefix of the log there.
LEMMA GoodIsPrefix ==
  ASSUME NEW c \in Content, Good(c)
  PROVE  c = R!Prefix(c.at)
BY DEF Good, Upto, Commands, R!Prefix, Content

\* The store of one member is set, and everything else the abstract log sees is as
\* it was.
OnlyStore(m, c) ==
    /\ store' = [store EXCEPT ![m] = c]
    /\ UNCHANGED <<log, phase, stall>>

\* A running member that has not stalled moves to another position of the log.
LEMMA Follows ==
  ASSUME Inv, Inv', NEW m \in Members \ Witnesses, NEW c, OnlyStore(m, c),
         phase[m] # "down", stall[m] = None, c.at > 0
  PROVE  R!Next \/ UNCHANGED R!vars
<1>1. store \in [Members -> Content] /\ store' \in [Members -> Content] /\ m \in Members
  BY ZenonT(30) DEF Inv, TypeOK
<1>2. store'[m] = c /\ c \in Content  BY <1>1 DEF OnlyStore
<1>3. Good(c)
  <2>1. (m # Founder /\ store[m] = Empty)' \/ Good(store[m])'  BY DEF Inv, Inductive, StoreHolds
  <2>2. c # Empty  BY DEF Empty
  <2>3. Good(c)'  BY <1>2, <2>1, <2>2
  <2> QED BY <2>3 DEF Good, Upto, Commands, OnlyStore
<1>4. c = R!Prefix(c.at) /\ c.at \in 1 .. Len(log)
  BY <1>2, <1>3, GoodIsPrefix DEF Good, Content
<1>5. CASE c.at = store[m].at
  <2>1. store[m] # Empty  BY <1>5 DEF Empty
  <2>2. Good(store[m])  BY <2>1 DEF Inv, Inductive, StoreHolds
  <2>3. store[m] = c  BY <1>1, <1>4, <1>5, <2>2, GoodIsPrefix
  <2>4. store' = store  BY <1>1, <2>3 DEF OnlyStore
  <2> QED BY <2>4 DEF OnlyStore, R!vars
<1>6. CASE c.at # store[m].at
  <2> DEFINE Held == [n \in Members \ Witnesses |-> store[n]]
  <2>1. Held' = [Held EXCEPT ![m] = R!Prefix(c.at)]
    BY <1>1, <1>4, ZenonT(30) DEF OnlyStore
  <2>2. R!Follow(m)
    BY <1>2, <1>4, <1>6, <2>1, ZenonT(30) DEF R!Follow, OnlyStore
  <2> QED BY <2>2 DEF R!Next
<1> QED BY <1>5, <1>6

\* An entry is added to the log, and nothing else the abstract log sees changes.
LEMMA Commits ==
  ASSUME TypeOK, TypeOK', Len(log') = Len(log) + 1, NEW e \in Entry, log' = Append(log, e),
         UNCHANGED <<store, phase, stall>>
  PROVE  R!Next
<1>1. log'[Len(log')] = e /\ log \in Seq(Entry)  BY DEF TypeOK
<1> QED BY <1>1 DEF R!Next, R!Commit

\* Steps of the log and of Raft: what the abstract log sees is one more entry, or
\* nothing.
LEMMA LogRefines ==
  ASSUME TypeOK, TypeOK', NEW m \in Members,
         \/ Bootstrap \/ RaftEntry \/ Admit(m) \/ Propose(m)
  PROVE  R!Next
<1>1. PICK e \in Entry : log' = Append(log, e) /\ UNCHANGED <<store, phase, stall>>
  <2> USE DEF Propagate, Entry
  <2>1. CASE Bootstrap  BY <2>1 DEF Bootstrap, memberVars
  <2>2. CASE RaftEntry  BY <2>2 DEF RaftEntry, memberVars
  <2>3. CASE Admit(m)  BY <2>3 DEF Admit, memberVars
  <2>4. CASE Propose(m)  BY <2>4, ZenonT(30) DEF Propose, memberVars, TypeOK
  <2> QED BY <2>1, <2>2, <2>3, <2>4
<1>2. Len(log') = Len(log) + 1  BY <1>1 DEF TypeOK
<1> QED BY <1>1, <1>2, Commits

\* The rest of what Raft and the planning member do shows nothing: no store moves,
\* and no process comes or goes.
LEMMA QuietRefines ==
  ASSUME TypeOK, NEW m \in Members,
         \/ FirstSnapshot \/ InitFails \/ LoseLeader
         \/ Elect(m) \/ SendEntry(m) \/ Snapshot(m) \/ Persist(m) \/ Leave(m)
         \/ SettleAndPlan(m) \/ Refuse(m) \/ Close(m)
  PROVE  UNCHANGED R!vars
<1>1. CASE UNCHANGED <<log, store, phase, stall>>  BY <1>1 DEF R!vars
<1>2. CASE Leave(m) \/ Close(m)
  <2>1. UNCHANGED <<log, store, stall>>  BY <1>2 DEF Leave, Close
  <2>2. \A n \in Members : phase[n] # "down" <=> phase'[n] # "down"
    BY <1>2, SMTT(30), ZenonT(30) DEF Leave, Close, TypeOK
  <2> QED BY <2>1, <2>2 DEF R!vars
<1>3. CASE ~(Leave(m) \/ Close(m))
  BY <1>1, <1>3 DEF FirstSnapshot, InitFails, LoseLeader, Elect, SendEntry, Snapshot, Persist,
                    SettleAndPlan, Refuse, memberVars, raftVars
<1> QED BY <1>2, <1>3

\* fsm.stop: the member has stopped, or had before.
LEMMA StopRefines ==
  ASSUME TypeOK, NEW m \in Members \ Witnesses, NEW i \in Nat, Stop(m, i), phase[m] # "down",
         UNCHANGED <<log, store, phase>>
  PROVE  R!Next \/ UNCHANGED R!vars
<1>1. stall' = [stall EXCEPT ![m] = IF @ = None THEN i ELSE @] /\ stall \in [Members -> Nat \cup {None}]
  BY DEF Stop, TypeOK
<1>2. {n \in Members \ Witnesses : stall'[n] # None}
        = {n \in Members \ Witnesses : stall[n] # None} \cup {m}
  BY <1>1, ClusterAssumption
<1>3. R!StopAt(m)  BY <1>2, SMTT(30), ZenonT(30) DEF R!StopAt
<1> QED BY <1>3 DEF R!Next

\* fsm.Apply and fsm.StoreConfiguration: the store goes on, stays, or stops.
LEMMA DeliverRefines ==
  ASSUME Inv, Inv', NEW m \in Members, Deliver(m)
  PROVE  R!Next \/ UNCHANGED R!vars
<1> DEFINE i == delivered[m] + 1
<1>1. TypeOK /\ i \in Nat /\ UNCHANGED <<log, phase>> /\ phase[m] # "down"
  BY ZenonT(30) DEF Inv, TypeOK, Deliver, raftVars
<1>2. CASE UNCHANGED <<store, stall>>  BY <1>1, <1>2 DEF R!vars
<1>3. CASE /\ m \notin Witnesses /\ NoStall(m) /\ phase[m] = "up"
           /\ store' = [store EXCEPT ![m] = ApplyBatchAt(@, i)] /\ stall' = stall
  <2>1. CASE i <= store[m].at
    <3>1. store' = store  BY <1>1, <1>3, <2>1 DEF TypeOK, ApplyBatchAt
    <3> QED BY <1>2, <1>3, <3>1, SMTT(30), ZenonT(30)
  <2>2. CASE ~(i <= store[m].at)
    <3>1. PICK c : c = ApplyBatchAt(store[m], i)  BY SMTT(30), ZenonT(30)
    <3>2. c.at > 0  BY <1>1, <2>2, <3>1, SMTT(30), ZenonT(30) DEF ApplyBatchAt, TypeOK
    <3>3. OnlyStore(m, c)  BY <1>1, <1>3, <3>1, ZenonT(30) DEF OnlyStore
    <3>4. m \in Members \ Witnesses /\ phase[m] # "down" /\ stall[m] = None  BY <1>1, <1>3 DEF NoStall
    <3> HIDE DEF i
    <3> QED BY <3>2, <3>3, <3>4, Follows, Zenon
  <2> QED BY <2>1, <2>2
<1>4. CASE m \notin Witnesses /\ Stop(m, i) /\ store' = store
  BY <1>1, <1>4, StopRefines, SMTT(30), ZenonT(30)
<1> QED BY <1>2, <1>3, <1>4, SMTT(30), ZenonT(30) DEF Deliver

\* fsm.Restore: the store is replaced by what the snapshot holds, or stops.
LEMMA SendSnapshotRefines ==
  ASSUME Inv, Inv', NEW m \in Members, SendSnapshot(m)
  PROVE  R!Next \/ UNCHANGED R!vars
<1> DEFINE s == snap[leader]
<1>1. TypeOK /\ UNCHANGED <<log, phase>> /\ phase[m] # "down" /\ s \in LogSnapshot
  BY ZenonT(30) DEF Inv, TypeOK, SendSnapshot
<1>2. CASE m \in Witnesses /\ UNCHANGED <<store, stall>>  BY <1>1, <1>2 DEF R!vars
<1>3. CASE /\ m \notin Witnesses /\ NoStall(m) /\ Restorable(s)
           /\ store' = [store EXCEPT ![m] = s.content] /\ stall' = stall
  <2>1. PICK c : c = s.content  BY SMTT(30), ZenonT(30)
  <2>2. OnlyStore(m, c) /\ c.at > 0  BY <1>1, <1>3, <2>1 DEF OnlyStore, Restorable
  <2>3. m \in Members \ Witnesses /\ phase[m] # "down" /\ stall[m] = None  BY <1>1, <1>3 DEF NoStall
  <2> QED BY <2>2, <2>3, Follows, Zenon
<1>4. CASE m \notin Witnesses /\ (\E i \in {0, s.content.at} : Stop(m, i)) /\ store' = store
  <2>1. s.content.at \in Nat  BY <1>1 DEF LogSnapshot, Content
  <2> QED BY <1>1, <1>4, <2>1, StopRefines, SMTT(30), ZenonT(30)
<1> QED BY <1>2, <1>3, <1>4, SMTT(30), ZenonT(30) DEF SendSnapshot

\* The process of a member ends, with its store as it was or further back.
LEMMA EndRefines ==
  ASSUME Inv, Inv', NEW m \in Members, End(m)
  PROVE  R!Next \/ UNCHANGED R!vars
<1> DEFINE Stores == Members \ Witnesses
<1>1. TypeOK /\ log' = log /\ phase[m] # "down" /\ phase' = [phase EXCEPT ![m] = "down"]
      /\ stall' = [stall EXCEPT ![m] = None]
  BY DEF Inv, End, Forget
<1>2. PICK k \in 0 .. store[m].at : store' = [store EXCEPT ![m] = Rewound(m, k)]
  BY ZenonT(30) DEF End
<1>3. CASE m \in Witnesses
  <2>1. \A n \in Stores : store'[n] = store[n] /\ phase'[n] = phase[n] /\ stall'[n] = stall[n]
    BY <1>1, <1>2, <1>3 DEF TypeOK
  <2> QED BY <1>1, <2>1 DEF R!vars
<1>4. CASE m \in Stores
  <2>1. {n \in Stores : phase'[n] # "down"} = {n \in Stores : phase[n] # "down"} \ {m}
    BY <1>1, <1>4, SMTT(30), ZenonT(30) DEF TypeOK
  <2>2. {n \in Stores : stall'[n] # None} = {n \in Stores : stall[n] # None} \ {m}
    BY <1>1, <1>4, SMTT(30), ZenonT(30) DEF TypeOK
  <2>3. Rewound(m, k) = IF k = 0 /\ m # Founder THEN R!Unwritten ELSE R!Prefix(k)
    <3>1. CASE k = 0 /\ m # Founder  BY <3>1 DEF Rewound, Empty, R!Unwritten
    <3>2. CASE ~(k = 0 /\ m # Founder)
      <4>1. Good(store[m])
        BY <1>1, <1>2, <1>4, <3>2 DEF Inv, Inductive, StoreHolds, Empty
      <4>2. {i \in store[m].holds : i <= k} = {0} \cup {i \in 1 .. Len(log) : log[i].kind = "command" /\ i <= k}
        BY <1>1, <1>2, <4>1, SMTT(30), ZenonT(30) DEF Good, Upto, Commands, TypeOK, Content
      <4> QED BY <3>2, <4>2, ZenonT(30) DEF Rewound, R!Prefix
    <3> QED BY <3>1, <3>2, SMTT(30), ZenonT(30)
  <2> DEFINE Held == [n \in Stores |-> store[n]]
  <2>4. Held' = [Held EXCEPT ![m] = IF k = 0 /\ m # Founder THEN R!Unwritten ELSE R!Prefix(k)]
    BY <1>1, <1>2, <1>4, <2>3, ZenonT(30) DEF TypeOK
  <2>5. R!End(m)  BY <1>1, <1>2, <1>4, <2>1, <2>2, <2>4, ZenonT(30) DEF R!End
  <2> QED BY <1>4, <2>5, SMTT(30), ZenonT(30) DEF R!Next
<1> QED BY <1>3, <1>4

\* cluster.Start: the store as it was, or the one of the snapshot it is behind.
LEMMA StartRefines ==
  ASSUME Inv, Inv', NEW m \in Members, Start(m)
  PROVE  R!Next \/ UNCHANGED R!vars
<1> DEFINE Stores == Members \ Witnesses
           s == snap[m]
<1>1. TypeOK /\ UNCHANGED <<log, stall>> /\ phase[m] = "down" /\ phase' = [phase EXCEPT ![m] = "up"]
  BY ZenonT(30) DEF Inv, Start
<1>2. CASE m \in Witnesses
  <2>1. store' = store  BY <1>2, SMTT(30), ZenonT(30) DEF Start
  <2>2. \A n \in Stores : phase'[n] = phase[n]  BY <1>1, <1>2, SMTT(30), ZenonT(30) DEF TypeOK
  <2> QED BY <1>1, <2>1, <2>2, ZenonT(30) DEF R!vars
<1>3. CASE m \in Stores
  <2>1. {n \in Stores : phase'[n] # "down"} = {n \in Stores : phase[n] # "down"} \cup {m}
    BY <1>1, <1>3, SMTT(30), ZenonT(30) DEF TypeOK
  <2> DEFINE Held == [n \in Stores |-> store[n]]
  <2>2. Held' = Held \/ \E n \in 1 .. Len(log) : Held' = [Held EXCEPT ![m] = R!Prefix(n)]
    <3>1. CASE store' = store  BY <3>1, SMTT(30), ZenonT(30)
    <3>2. CASE s # None /\ Restorable(s) /\ store' = [store EXCEPT ![m] = s.content]
      <4>1. s \in LogSnapshot /\ s.content \in Content
        BY <1>1, <3>2, ZenonT(30) DEF TypeOK, LogSnapshot
      <4>2. Good(s.content) /\ s.content.at > 0
        BY <3>2, ZenonT(30) DEF Inv, Inductive, SnapshotHolds, Restorable
      <4>3. PICK c \in Content : c = s.content  BY <4>1, SMTT(30), ZenonT(30)
      <4>4. c = R!Prefix(c.at) /\ c.at \in 1 .. Len(log)
        BY <4>2, <4>3, GoodIsPrefix, SMTT(30), ZenonT(30) DEF Good, Content
      <4>5. Held' = [Held EXCEPT ![m] = R!Prefix(c.at)]
        BY <1>1, <1>3, <3>2, <4>3, <4>4, ZenonT(30) DEF TypeOK
      <4> QED BY <4>4, <4>5, ZenonT(30)
    <3> QED BY <3>1, <3>2, ZenonT(30) DEF Start
  <2>3. R!Start(m)  BY <1>1, <2>1, <2>2, ZenonT(30) DEF R!Start
  <2> QED BY <1>3, <2>3, SMTT(30), ZenonT(30) DEF R!Next
<1> QED BY <1>2, <1>3, SMTT(30), ZenonT(30)

\* Every step of the cluster is a step of the abstract log, or none.
LEMMA StepRefines == Inv /\ Inv' /\ [Next]_vars => [R!Next]_(R!vars)
<1> SUFFICES ASSUME Inv, Inv', [Next]_vars PROVE R!Next \/ UNCHANGED R!vars
  OBVIOUS
<1>1. TypeOK /\ TypeOK' /\ Founder \in Members  BY ClusterAssumption, SMTT(30), ZenonT(30) DEF Inv
<1>2. CASE UNCHANGED vars  BY <1>2, SMTT(30), ZenonT(30) DEF vars, raftVars, memberVars, R!vars
<1>3. CASE Bootstrap \/ RaftEntry  BY <1>1, <1>3, LogRefines, SMTT(30), ZenonT(30)
<1>4. CASE FirstSnapshot \/ InitFails \/ LoseLeader  BY <1>1, <1>4, QuietRefines, SMTT(30), ZenonT(30)
<1>5. ASSUME NEW m \in Members, MemberNext(m) PROVE R!Next \/ UNCHANGED R!vars
  <2>1. CASE Admit(m) \/ Propose(m)  BY <1>1, <2>1, LogRefines, SMTT(30), ZenonT(30)
  <2>2. CASE \/ Elect(m) \/ SendEntry(m) \/ Snapshot(m) \/ Persist(m) \/ Leave(m)
             \/ SettleAndPlan(m) \/ Refuse(m) \/ Close(m)
    BY <1>1, <2>2, QuietRefines, SMTT(30), ZenonT(30)
  <2> QED BY <1>5, <2>1, <2>2, DeliverRefines, SendSnapshotRefines, EndRefines, StartRefines, SMTT(30), ZenonT(30)
          DEF MemberNext
<1> QED BY <1>2, <1>3, <1>4, <1>5, SMTT(30), ZenonT(30) DEF Next

\* Cluster implements ReplicatedStore: whatever is retried, restored, stalled, cut
\* off or started again, the members with a store are replicas of one growing log,
\* and a stopped one stays where it is (fsm.Apply, fsm.Restore, catchUp).
THEOREM Implements == ASSUME Undisturbed, LeavesAtOnce PROVE Spec => Replicates
<1>1. Init => R!Init  BY InitRefines, SMTT(30), ZenonT(30)
<1>2. Inv /\ Inv' /\ [Next]_vars => [R!Next]_(R!vars)  BY StepRefines, SMTT(30), ZenonT(30)
<1> QED BY <1>1, <1>2, Always, PTL DEF Spec, Replicates, R!Spec

================================================================================
