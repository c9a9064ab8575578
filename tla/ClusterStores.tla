----------------------------- MODULE ClusterStores -----------------------------
(***************************************************************************)
(* Proofs about Cluster: every step keeps log snapshots covering what they *)
(* are filed under, and stores prefixes of the log.                        *)
(***************************************************************************)
EXTENDS ClusterCounters

USE DEF NoStall

\* A snapshot that is left alone still covers what it covered.
LEMMA SnapshotFrame ==
  ASSUME TypeOK, LogGrows, NEW n \in Members, SnapshotHolds(n),
         snap'[n] = snap[n], base'[n] = base[n]
  PROVE  SnapshotHolds(n)'
<1>1. CASE snap[n] = None  BY <1>1 DEF SnapshotHolds
<1>2. CASE snap[n] # None
  <2> DEFINE s == snap[n]
  <2>1. s.filed \in Nat /\ s.content \in Content /\ s.content.at \in Nat
    BY <1>2 DEF TypeOK, LogSnapshot, Content
  <2>2. base[n] <= s.filed /\ 0 < s.filed /\ s.filed <= Len(log)
    BY <1>2 DEF SnapshotHolds
  <2>3. s.filed <= Len(log')  BY <2>1, <2>2 DEF LogGrows
  <2>4. ASSUME s.writer = "store"
        PROVE  Good(s.content)' /\ NoGap(s.content.at, s.filed)'
    <3>1. Good(s.content) /\ NoGap(s.content.at, s.filed)  BY <1>2, <2>4 DEF SnapshotHolds
    <3>2. /\ s.content.at <= Len(log')
          /\ s.content.holds = {0} \cup {i \in Commands' : i <= s.content.at}
      BY <2>1, <3>1, GoodGrows
    <3>3. s' = s  OBVIOUS
    <3>4. Good(s.content)'  BY <3>2, <3>3 DEF Good, Upto
    <3>5. \A i \in Commands' : i <= s.filed => i <= s.content.at
      BY <2>1, <2>2, <3>1 DEF NoGap, LogGrows
    <3> QED BY <3>3, <3>4, <3>5 DEF NoGap
  <2>5. s' = s  OBVIOUS
  <2> QED BY <1>2, <2>2, <2>3, <2>4, <2>5 DEF SnapshotHolds
<1> QED BY <1>1, <1>2

\* A store that is left alone, on a member that is handed nothing new, still holds
\* what it should.
LEMMA StoreFrame ==
  ASSUME Inv, LogGrows, NEW n \in Members \ Witnesses,
         store'[n] = store[n], delivered'[n] = delivered[n],
         phase'[n] = "up" => phase[n] = "up",
         snapping'[n] \in {snapping[n], None},
         n # Founder /\ has'[n] > 0 => has[n] > 0,
         stall'[n] = None => stall[n] = None
  PROVE  StoreHolds(n)'
<1> DEFINE c == store[n]
<1>1. StoreHolds(n) /\ InOrder(n)  BY DEF Inv, Inductive, CountersInOrder
<1>2. c \in Content /\ c.at \in Nat /\ c' = c  BY DEF Inv, TypeOK, Content
<1>3. delivered[n] \in Nat /\ delivered[n] <= Len(log)
  BY <1>1 DEF Inv, InOrder, TypeOK
<1>4. snapping[n] # None => snapping[n] \in Nat /\ snapping[n] <= Len(log)
  BY <1>1, <1>3 DEF Inv, InOrder, TypeOK
<1>5. ASSUME Good(c) PROVE Good(c)'
  BY <1>2, <1>5, GoodGrows DEF Inv, Good, Upto
<1>6. ASSUME NEW k \in Nat, k <= Len(log), NoGap(c.at, k)
      PROVE  NoGap(c.at, k)'
  <2>1. \A i \in Commands' : i <= k => i <= c.at  BY <1>6 DEF NoGap, LogGrows
  <2> QED BY <1>2, <2>1 DEF NoGap
<1>7. phase'[n] = "up" /\ stall'[n] = None => NoGap(c.at, delivered[n])'
  BY <1>1, <1>3, <1>6 DEF StoreHolds
<1>8. phase'[n] = "up" /\ snapping'[n] # None => NoGap(c.at, snapping[n])'
  BY <1>1, <1>4, <1>6 DEF StoreHolds
<1> QED BY <1>1, <1>2, <1>5, <1>7, <1>8 DEF StoreHolds, Empty, NoGap

\* A snapshot newly on disk covers what it should when its content does.
LEMMA NewSnapshot ==
  ASSUME TypeOK, log' = log, NEW n \in Members, NEW f \in Nat, NEW w, NEW c \in Content,
         snap'[n] # None, snap'[n].filed = f, snap'[n].writer = w, snap'[n].content = c,
         0 < f, f <= Len(log), base'[n] <= f,
         w = "store" => Good(c) /\ NoGap(c.at, f)
  PROVE  SnapshotHolds(n)'
<1>1. Commands' = Commands  BY DEF Commands
<1>2. ASSUME w = "store" PROVE Good(snap[n].content)' /\ NoGap(snap[n].content.at, snap[n].filed)'
  BY <1>1, <1>2 DEF Good, Upto, NoGap
<1> QED BY <1>2 DEF SnapshotHolds

\* A member that has been handed an entry, and runs, has more than an empty store.
LEMMA NotEmpty ==
  ASSUME Inv, NEW m \in Members \ Witnesses, phase[m] = "up", has[m] > 0
  PROVE  Good(store[m]) /\ (m # Founder => store[m].at > 0)
<1>1. StoreHolds(m)  BY DEF Inv, Inductive
<1>2. store[m] = Empty => store[m].at = 0  BY DEF Empty
<1> QED BY <1>1, <1>2 DEF StoreHolds

\* Every step keeps log snapshots covering what they are filed under.
LEMMA SnapshotsStep ==
  ASSUME Inv, TypeOK', LogGrows, [Next]_vars, Undisturbed, LeavesAtOnce
  PROVE  \A n \in Members : SnapshotHolds(n)'
<1> SUFFICES ASSUME NEW n \in Members PROVE SnapshotHolds(n)'
  OBVIOUS
<1> USE ClusterAssumption
<1>1. CASE snap'[n] = snap[n] /\ base'[n] = base[n]  BY <1>1, SnapshotFrame DEF Inv, Inductive
<1>2. CASE FirstSnapshot /\ n = Founder
  <2>1. /\ leader = Founder /\ delivered[Founder] = Len(log) /\ log' = log
        /\ stall[Founder] = None /\ phase[Founder] = "up"
        /\ Len(log) \in Nat /\ Len(log) > 0 /\ base'[Founder] = Len(log)
        /\ snap'[Founder] =
             [filed |-> Len(log), writer |-> "store", content |-> store[Founder]]
    BY <1>2 DEF Inv, Inductive, FirstSnapshot, FoundedFirst, TypeOK
  <2>2. Good(store[Founder]) /\ NoGap(store[Founder].at, Len(log))
    BY <2>1 DEF Inv, Inductive, StoreHolds
  <2>3. snap'[Founder] \in LogSnapshot  BY <2>1 DEF Inv, TypeOK, LogSnapshot
  <2>4. snap'[Founder] # None  BY <2>3, NoneAssumption
  <2>5. /\ snap'[Founder].filed = Len(log) /\ snap'[Founder].writer = "store"
        /\ snap'[Founder].content = store[Founder]
    BY <2>1
  <2>6. store[Founder] \in Content /\ base'[Founder] <= Len(log)  BY <2>1 DEF Inv, TypeOK
  <2> QED BY <1>2, <2>1, <2>2, <2>4, <2>5, <2>6, NewSnapshot DEF Inv
<1>3. CASE Persist(n) /\ ~UNCHANGED <<snap, base>>
  <2>1. /\ log' = log /\ phase[n] = "up" /\ snapping[n] \in Nat
        /\ base'[n] \in {base[n], snapping[n]}
        /\ snap[n] # None => snap[n].filed < snapping[n]
        /\ snap'[n] =
             [filed |-> snapping[n], writer |-> IF n \in Witnesses THEN "witness" ELSE "store",
              content |-> store[n]]
    BY <1>3 DEF Inv, Persist, raftVars, TypeOK
  <2>2. 0 < snapping[n] /\ snapping[n] <= Len(log) /\ has[n] > 0
    <3>1. snapping[n] # None  BY <1>3 DEF Persist
    <3>2. has[n] \in Nat /\ delivered[n] \in Nat /\ Len(log) \in Nat  BY DEF Inv, TypeOK
    <3> QED BY <2>1, <3>1, <3>2 DEF Inv, Inductive, CountersInOrder, InOrder
  <2>3. base'[n] <= snapping[n]
    BY <2>1, SMTT(30), ZenonT(30) DEF Inv, Inductive, SnapshotHolds, TypeOK, LogSnapshot
  <2>4. n \notin Witnesses => Good(store[n]) /\ NoGap(store[n].at, snapping[n])
    <3>1. snapping[n] # None  BY <1>3, SMTT(30), ZenonT(30) DEF Persist
    <3> QED BY <2>1, <2>2, <3>1, NotEmpty DEF Inv, Inductive, StoreHolds
  <2>5. store[n] \in Content  BY DEF Inv, TypeOK
  <2>6. snap'[n] # None  BY <2>1, <2>5, NoneAssumption DEF LogSnapshot
  <2> DEFINE w == IF n \in Witnesses THEN "witness" ELSE "store"
  <2>7. snap'[n].filed = snapping[n] /\ snap'[n].writer = w /\ snap'[n].content = store[n]
    BY <2>1
  <2>8. w = "store" => n \notin Witnesses  OBVIOUS
  <2> HIDE DEF w
  <2> QED BY <2>1, <2>2, <2>3, <2>4, <2>5, <2>6, <2>7, <2>8, NewSnapshot DEF Inv
<1>4. CASE SendSnapshot(n)
  <2> DEFINE t == snap[leader]
  <2>1. /\ log' = log /\ t # None /\ snap' = [snap EXCEPT ![n] = t]
    BY <1>4 DEF SendSnapshot
  <2>2. /\ t.filed \in Nat /\ t.content \in Content /\ has[n] < t.filed /\ t.filed <= Len(log)
        /\ t.writer = "store" => Good(t.content) /\ NoGap(t.content.at, t.filed)
        /\ base' = base \/ base' = [base EXCEPT ![n] = t.filed]
    BY <1>4, SendSnapshotEffect
  <2>3. snap'[n] = t  BY <2>1 DEF Inv, TypeOK
  <2> HIDE DEF t
  <2>4. has[n] \in Nat /\ base[n] \in Nat /\ base[n] <= has[n]
    BY DEF Inv, Inductive, TypeOK, CountersInOrder, InOrder
  <2>5. 0 < t.filed  BY <2>2, <2>4
  <2>6. base'[n] <= t.filed  BY <2>2, <2>4, SMTT(30), ZenonT(30) DEF Inv, TypeOK
  <2> QED BY <2>1, <2>2, <2>3, <2>5, <2>6, NewSnapshot DEF Inv
<1>5. CASE Start(n) /\ snap[n] # None
  <2> DEFINE t == snap[n]
  <2>1. /\ t.filed \in Nat /\ t.content \in Content /\ log' = log /\ snap' = snap
        /\ base' = base \/ base' = [base EXCEPT ![n] = t.filed]
    BY <1>5, StartEffect, Zenon DEF Start
  <2>2. /\ 0 < t.filed /\ t.filed <= Len(log) /\ base[n] <= t.filed
        /\ t.writer = "store" => Good(t.content) /\ NoGap(t.content.at, t.filed)
    BY <1>5 DEF Inv, Inductive, SnapshotHolds
  <2>3. base'[n] <= t.filed  BY <2>1, <2>2, SMTT(30), ZenonT(30) DEF Inv, TypeOK
  <2> QED BY <1>5, <2>1, <2>2, <2>3, NewSnapshot DEF Inv
<1>6. CASE Start(n) /\ snap[n] = None  BY <1>1, <1>6, StartEffect DEF Start
<1>7. CASE Bootstrap \/ InitFails \/ LoseLeader \/ RaftEntry \/ UNCHANGED vars
  BY <1>1, <1>7, Zenon DEF Bootstrap, InitFails, LoseLeader, RaftEntry, memberVars, vars
<1>8. CASE FirstSnapshot /\ n # Founder
  BY <1>1, <1>8, SMTT(30), ZenonT(30) DEF Inv, FirstSnapshot, TypeOK
<1>9. ASSUME NEW m \in Members,
             \/ Admit(m) \/ Elect(m) \/ SendEntry(m) \/ Deliver(m) \/ Snapshot(m) \/ Leave(m)
             \/ SettleAndPlan(m) \/ Propose(m) \/ Refuse(m) \/ Close(m) \/ End(m)
      PROVE  SnapshotHolds(n)'
  BY <1>1, <1>9, Zenon
     DEF Admit, Elect, SendEntry, Deliver, Snapshot, Leave, SettleAndPlan, Propose, Refuse,
         Close, End, memberVars
<1>10. ASSUME NEW m \in Members \ {n}, Persist(m) \/ SendSnapshot(m) \/ Start(m)
       PROVE  SnapshotHolds(n)'
  <2>1. CASE Persist(m)  BY <1>1, <1>10, <2>1, SMTT(30), ZenonT(30) DEF Inv, Persist, TypeOK
  <2>2. CASE SendSnapshot(m)
    <3>1. base' = base \/ base' = [base EXCEPT ![m] = snap[leader].filed]
      BY <1>10, <2>2 DEF SendSnapshot
    <3>2. base'[n] = base[n]  BY <1>10, <3>1, ZenonT(30) DEF Inv, TypeOK
    <3> QED BY <1>1, <1>10, <2>2, <3>2 DEF Inv, SendSnapshot, TypeOK
  <2>3. CASE Start(m)
    <3>1. base' = base \/ base' = [base EXCEPT ![m] = snap[m].filed]
      BY <1>10, <2>3, StartEffect
    <3>2. base'[n] = base[n]  BY <1>10, <3>1, Zenon DEF Inv, TypeOK
    <3> QED BY <1>1, <2>3, <3>2 DEF Start
  <2> QED BY <1>10, <2>1, <2>2, <2>3, SMTT(30), ZenonT(30)
<1> QED BY <1>1, <1>2, <1>3, <1>4, <1>5, <1>6, <1>7, <1>8, <1>9, <1>10 DEF Next, MemberNext

\* An entry handed to a member is in its store, or the member has stalled, or the
\* entry was no batch (fsm.Apply, fsm.StoreConfiguration).
LEMMA DeliverStores ==
  ASSUME Inv, TypeOK', NEW n \in Members \ Witnesses, Deliver(n)
  PROVE  StoreHolds(n)'
<1> USE ClusterAssumption
<1> DEFINE i == delivered[n] + 1
           c == store[n]
<1>1. /\ log' = log /\ has' = has /\ phase' = phase /\ snapping' = snapping
      /\ delivered'[n] = i /\ i \in Nat /\ i <= has[n] /\ has[n] > 0 /\ i > delivered[n]
      /\ i \in 1..Len(log) /\ i <= Len(log) /\ delivered[n] \in Nat
  BY SMTT(30), ZenonT(30) DEF Inv, Inductive, Deliver, raftVars, TypeOK, CountersInOrder, InOrder
<1>2. Commands' = Commands /\ Commands \subseteq Nat \ {0}
  BY <1>1, CommandsType DEF Inv, Commands
<1>3. i \in Commands <=> log[i].kind = "command"  BY <1>1 DEF Commands
<1>4. StoreHolds(n) /\ c \in Content /\ c.at \in Nat  BY Zenon DEF Inv, Inductive, TypeOK, Content
<1>5. snapping[n] # None => snapping[n] \in Nat /\ snapping[n] < i
  BY <1>1, SMTT(30), ZenonT(30) DEF Inv, Inductive, CountersInOrder, InOrder, TypeOK
<1>6. CASE /\ store'[n] = c
           /\ phase[n] = "up" /\ stall'[n] = None => stall[n] = None /\ i \notin Commands
  <2>1. ASSUME phase[n] = "up", stall'[n] = None PROVE NoGap(c.at, i)
    BY <1>1, <1>2, <1>4, <1>6, <2>1, SMTT(30), ZenonT(30) DEF Inv, StoreHolds, NoGap, TypeOK
  <2> QED BY <1>1, <1>2, <1>4, <1>6, <2>1, Zenon DEF StoreHolds, NoGap, Good, Upto, Empty
<1>7. CASE phase[n] = "up" /\ stall[n] = None /\ store'[n] = ApplyBatchAt(c, i)
  <2>1. Good(c) /\ (n # Founder => c.at > 0)  BY <1>1, <1>7, NotEmpty
  <2>2. NoGap(c.at, delivered[n])  BY <1>4, <1>7 DEF StoreHolds
  <2>3. CASE i <= c.at
    <3>1. store'[n] = c  BY <1>7, <2>3 DEF ApplyBatchAt
    <3>2. \A k \in Nat : k <= i => NoGap(c.at, k)
      BY <1>1, <1>4, <2>3, NoGapFacts DEF Inv
    <3>3. NoGap(c.at, i) /\ (snapping[n] # None => NoGap(c.at, snapping[n]))
      BY <1>1, <1>5, <3>2
    <3> QED BY <1>1, <1>2, <2>1, <3>1, <3>3, SMTT(30), ZenonT(30)
        DEF StoreHolds, Good, Upto, NoGap
  <2>4. CASE i > c.at
    <3>1. /\ store'[n].at = i
          /\ store'[n].holds = IF i \in Commands THEN c.holds \cup {i} ELSE c.holds
      BY <1>1, <1>3, <1>4, <1>7, <2>4 DEF ApplyBatchAt
    <3>2. c.holds = {0} \cup {k \in Commands : k <= c.at}  BY <2>1 DEF Good, Upto
    <3>3. \A k \in Commands : k <= i <=> (k <= c.at \/ k = i)
      <4>1. \A k \in Commands : k \in Nat /\ (k <= delivered[n] => k <= c.at)
        BY <1>2, <2>2 DEF NoGap
      <4>2. \A k \in Nat : k <= i <=> (k <= delivered[n] \/ k = i)  BY <1>1
      <4> QED BY <1>1, <1>4, <2>4, <4>1, <4>2
    <3>4. store'[n].holds = {0} \cup {k \in Commands : k <= i}
      BY <3>1, <3>2, <3>3
    <3>5. Good(store[n])'  BY <1>1, <1>2, <3>1, <3>4 DEF Good, Upto
    <3>6. \A k \in Nat : k <= i => NoGap(i, k)  BY <1>1, NoGapFacts DEF Inv
    <3>7. NoGap(i, i) /\ (snapping[n] # None => NoGap(i, snapping[n]))
      BY <1>1, <1>5, <3>6
    <3>8. i > 0  BY <1>1, SMTT(30), ZenonT(30)
    <3> HIDE DEF i
    <3> QED BY <1>1, <1>2, <3>1, <3>5, <3>7, <3>8, Zenon DEF StoreHolds, NoGap
  <2> QED BY <1>1, <1>4, <2>3, <2>4, SMTT(30), ZenonT(30)
<1>8. \/ /\ store'[n] = c
         /\ phase[n] = "up" /\ stall'[n] = None => stall[n] = None /\ i \notin Commands
      \/ phase[n] = "up" /\ stall[n] = None /\ store'[n] = ApplyBatchAt(c, i)
  <2> DEFINE applying == phase[n] = "up" /\ NoStall(n) /\ n \notin Witnesses
                           /\ log[i].kind # "raft"
  <2>1. CASE ~applying /\ UNCHANGED <<store, stall>>  BY <1>3, <2>1, SMTT(30), ZenonT(30)
  <2>2. CASE applying /\ store' = [store EXCEPT ![n] = ApplyBatchAt(c, i)]
    BY <2>2, SMTT(30), ZenonT(30) DEF Inv, TypeOK
  <2>3. CASE applying /\ Stop(n, i) /\ UNCHANGED store
    <3>1. stall'[n] # None  BY <1>1, <2>3, SMTT(30), ZenonT(30) DEF Inv, Stop, TypeOK
    <3> QED BY <2>3, <3>1, Zenon
  <2>4. CASE applying /\ log[i].kind = "config" /\ UNCHANGED <<store, stall>>
    BY <1>3, <2>4, SMTT(30), ZenonT(30)
  <2> QED BY <2>1, <2>2, <2>3, <2>4, SMTT(30), ZenonT(30) DEF Deliver
<1> QED BY <1>6, <1>7, <1>8, SMTT(30), ZenonT(30)

\* A snapshot that is begun covers what its member holds (fsm.Snapshot).
LEMMA SnapshotStores ==
  ASSUME Inv, NEW n \in Members \ Witnesses, Snapshot(n), LeavesAtOnce
  PROVE  StoreHolds(n)'
<1>1. /\ log' = log /\ has' = has /\ phase' = phase /\ store' = store /\ delivered' = delivered
      /\ stall' = stall /\ stall[n] = None /\ snapping'[n] = delivered[n]
  BY DEF Inv, Snapshot, raftVars, TypeOK
<1>2. Commands' = Commands  BY <1>1 DEF Commands
<1>3. StoreHolds(n)  BY DEF Inv, Inductive
<1> QED BY <1>1, <1>2, <1>3 DEF StoreHolds, NoGap, Good, Upto, Empty

\* A snapshot from the leader is restored whole, or the member has stalled
\* (fsm.Restore).
LEMMA SendSnapshotStores ==
  ASSUME Inv, Undisturbed, LogGrows, NEW n \in Members \ Witnesses, SendSnapshot(n)
  PROVE  StoreHolds(n)'
<1> USE ClusterAssumption
<1> DEFINE t == snap[leader]
<1>1. log' = log /\ phase' = phase /\ snapping' = snapping  BY SMTT(30), ZenonT(30)
    DEF SendSnapshot
<1>2. /\ t.filed \in Nat /\ t.content \in Content /\ has[n] < t.filed
      /\ t.writer = "store" => Good(t.content) /\ NoGap(t.content.at, t.filed)
      /\ \/ /\ Restorable(t) /\ store' = [store EXCEPT ![n] = t.content]
            /\ has' = [has EXCEPT ![n] = t.filed]
            /\ delivered' = [delivered EXCEPT ![n] = t.filed]
         \/ store' = store /\ has' = has /\ delivered' = delivered /\ stall'[n] # None
  BY SendSnapshotEffect
<1> HIDE DEF t
<1>3. CASE store' = store /\ has' = has /\ delivered' = delivered /\ stall'[n] # None
  BY <1>1, <1>3, StoreFrame, SMTT(30), ZenonT(30)
<1>4. CASE /\ Restorable(t) /\ store' = [store EXCEPT ![n] = t.content]
           /\ delivered' = [delivered EXCEPT ![n] = t.filed]
  <2>1. store'[n] = t.content /\ delivered'[n] = t.filed  BY <1>4 DEF Inv, TypeOK
  <2>2. Good(t.content) /\ NoGap(t.content.at, t.filed) /\ t.content.at > 0
    BY <1>2, <1>4 DEF Restorable
  <2>3. Commands' = Commands /\ Commands \subseteq Nat  BY <1>1, CommandsType DEF Inv, Commands
  <2>4. snapping[n] # None => snapping[n] \in Nat /\ snapping[n] <= t.filed
    BY <1>2, SMTT(30), ZenonT(30) DEF Inv, Inductive, CountersInOrder, InOrder, TypeOK
  <2>5. snapping[n] # None => NoGap(t.content.at, snapping[n])
    <3>1. t.content.at \in Nat  BY <1>2 DEF Content
    <3>2. TypeOK /\ t.filed \in Nat  BY <1>2 DEF Inv
    <3> QED BY <2>2, <2>4, <3>1, <3>2, NoGapFacts, Zenon
  <2> QED BY <1>1, <2>1, <2>2, <2>3, <2>5 DEF StoreHolds, NoGap, Good, Upto
<1> QED BY <1>2, <1>3, <1>4

\* A power cut leaves a shorter prefix (synchronous = NORMAL).
LEMMA EndStores ==
  ASSUME Inv, NEW n \in Members \ Witnesses, End(n)
  PROVE  StoreHolds(n)'
<1> DEFINE c == store[n]
<1>1. log' = log /\ phase'[n] = "down"  BY DEF Inv, End, Forget, TypeOK
<1>2. Commands' = Commands /\ Commands \subseteq Nat \ {0}  BY <1>1, CommandsType
    DEF Inv, Commands
<1>3. PICK k \in 0..c.at : store' = [store EXCEPT ![n] = Rewound(n, k)]  BY ZenonT(30) DEF End
<1>4. k \in Nat /\ c.at \in Nat /\ k <= c.at /\ store'[n] = Rewound(n, k)
  BY <1>3 DEF Inv, TypeOK, Content
<1>5. CASE k = 0 /\ n # Founder
  BY <1>1, <1>4, <1>5 DEF Rewound, StoreHolds, Empty
<1>6. CASE ~(k = 0 /\ n # Founder)
  <2>1. Good(c)
    <3>1. c = Empty => c.at = 0  BY SMTT(30), ZenonT(30) DEF Empty
    <3>2. (n # Founder /\ c = Empty) \/ Good(c)  BY SMTT(30), ZenonT(30)
        DEF Inv, Inductive, StoreHolds
    <3> QED BY <1>4, <1>6, <3>1, <3>2
  <2>2. c.at <= Len(log) /\ c.holds = {0} \cup {i \in Commands : i <= c.at}
    BY <2>1 DEF Good, Upto
  <2>3. {i \in c.holds : i <= k} = {0} \cup {i \in Commands : i <= k}
    <3>1. \A i \in Nat : i <= k => i <= c.at  BY <1>4
    <3>2. 0 <= k  BY <1>4
    <3>3. \A i : (i \in c.holds /\ i <= k) <=> (i = 0 \/ (i \in Commands /\ i <= k))
      BY <1>2, <2>2, <3>1, <3>2, Zenon
    <3> QED BY <3>3
  <2>4. store'[n] = [at |-> k, holds |-> {i \in c.holds : i <= k}]
    BY <1>4, <1>6 DEF Rewound
  <2>5. store'[n].at = k /\ store'[n].holds = {0} \cup {i \in Commands : i <= k}
    BY <2>3, <2>4
  <2>6. k <= Len(log')  BY <1>1, <1>4, <2>2, SMTT(30), ZenonT(30) DEF Inv, TypeOK
  <2>7. Good(store[n])'  BY <1>2, <2>5, <2>6 DEF Good, Upto
  <2> QED BY <1>1, <2>7, ZenonT(30) DEF StoreHolds
<1> QED BY <1>5, <1>6

\* A member that starts holds what its newest snapshot covers (catchUp).
LEMMA StartStores ==
  ASSUME Inv, NEW n \in Members \ Witnesses, Start(n)
  PROVE  StoreHolds(n)'
<1> USE ClusterAssumption
<1> DEFINE t == snap[n]
           c == store[n]
<1>1. log' = log /\ snapping' = snapping /\ stall' = stall  BY DEF Start
<1>2. delivered[n] = 0 /\ snapping[n] = None  BY StartEffect
<1>3. Commands' = Commands /\ Commands \subseteq Nat \ {0}  BY <1>1, CommandsType
    DEF Inv, Commands
<1>4. StoreHolds(n) /\ SnapshotHolds(n) /\ InOrder(n) /\ c \in Content /\ c.at \in Nat
  BY SMTT(30), ZenonT(30) DEF Inv, Inductive, CountersInOrder, TypeOK, Content
<1>5. CASE t = None
  <2>1. has' = has /\ delivered' = delivered /\ store' = store  BY <1>5, StartEffect
  <2>2. n # Founder => ~(has[n] > 0)  BY <1>4, <1>5 DEF InOrder, SnapshotHolds
  <2>3. NoGap(c.at, 0)  BY <1>3 DEF NoGap
  <2> QED BY <1>1, <1>2, <1>3, <1>4, <2>1, <2>2, <2>3, SMTT(30), ZenonT(30)
      DEF StoreHolds, NoGap, Good, Upto, Empty
<1>6. CASE t # None
  <2>1. /\ t.filed \in Nat /\ t.content \in Content
        /\ delivered' = [delivered EXCEPT ![n] = t.filed]
        /\ \/ t.filed <= c.at /\ store' = store
           \/ Restorable(t) /\ store' = [store EXCEPT ![n] = t.content]
    BY <1>6, StartEffect
  <2>2. /\ 0 < t.filed
        /\ t.writer = "store" => Good(t.content) /\ NoGap(t.content.at, t.filed)
    BY <1>4, <1>6 DEF SnapshotHolds
  <2>3. delivered'[n] = t.filed  BY <2>1 DEF Inv, TypeOK
  <2>4. CASE t.filed <= c.at /\ store' = store
    <3>1. c.at > 0  BY <1>4, <2>1, <2>2, <2>4
    <3>2. Good(c)
      <4>1. c = Empty => c.at = 0  BY SMTT(30), ZenonT(30) DEF Empty
      <4> QED BY <1>4, <3>1, <4>1 DEF StoreHolds
    <3>3. NoGap(c.at, t.filed)  BY <1>4, <2>1, <2>4, NoGapFacts DEF Inv
    <3> QED BY <1>1, <1>2, <1>3, <2>3, <2>4, <3>1, <3>2, <3>3, SMTT(30), ZenonT(30)
        DEF StoreHolds, NoGap, Good, Upto
  <2>5. CASE Restorable(t) /\ store' = [store EXCEPT ![n] = t.content]
    <3>1. store'[n] = t.content  BY <2>5, SMTT(30), ZenonT(30) DEF Inv, TypeOK
    <3>2. Good(t.content) /\ NoGap(t.content.at, t.filed) /\ t.content.at > 0
      BY <2>2, <2>5, Zenon DEF Restorable
    <3> QED BY <1>1, <1>2, <1>3, <2>3, <3>1, <3>2 DEF StoreHolds, NoGap, Good, Upto
  <2> QED BY <2>1, <2>4, <2>5, SMTT(30), ZenonT(30)
<1> QED BY <1>5, <1>6, SMTT(30), ZenonT(30)

\* Every step keeps every store a prefix of the log, and a running member that
\* has not stalled free of gaps.
LEMMA StoresStep ==
  ASSUME Inv, TypeOK', LogGrows, [Next]_vars, Undisturbed, LeavesAtOnce
  PROVE  \A n \in Members \ Witnesses : StoreHolds(n)'
<1> SUFFICES ASSUME NEW n \in Members \ Witnesses PROVE StoreHolds(n)'
  OBVIOUS
<1> USE ClusterAssumption
<1>1. CASE FirstSnapshot \/ InitFails \/ LoseLeader \/ UNCHANGED vars
  BY <1>1, StoreFrame, SMTT(30), ZenonT(30)
     DEF FirstSnapshot, InitFails, LoseLeader, vars, raftVars, memberVars
<1>2. CASE Bootstrap
  <2>1. has' = [has EXCEPT ![Founder] = Len(log) + 1]  BY <1>2, Appended, Zenon DEF Inv, Bootstrap
  <2> QED BY <1>2, <2>1, StoreFrame, SMTT(30), ZenonT(30) DEF Inv, Bootstrap, memberVars, TypeOK
<1>3. ASSUME leader # None, has' = [has EXCEPT ![leader] = Len(log) + 1], UNCHANGED memberVars
      PROVE  StoreHolds(n)'
  <2>1. leader \in Members /\ has[leader] = Len(log) /\ Len(log) > 0
    BY <1>3 DEF Inv, Inductive, FoundedFirst, TypeOK
  <2>2. has'[n] > 0 => has[n] > 0  BY <1>3, <2>1 DEF Inv, TypeOK
  <2> QED BY <1>3, <2>2, StoreFrame, SMTT(30), ZenonT(30) DEF memberVars
<1>4. CASE RaftEntry
  <2>1. leader \in Members /\ Propagate("raft", {}, leader)  BY <1>4 DEF Inv, RaftEntry, TypeOK
  <2> QED BY <1>3, <1>4, <2>1, Appended, Zenon DEF Inv, RaftEntry
<1>5. ASSUME NEW m \in Members, Admit(m) PROVE StoreHolds(n)'
  <2>1. leader \in Members /\ Propagate("config", {}, leader)  BY <1>5 DEF Admit
  <2> QED BY <1>3, <1>5, <2>1, Appended, Zenon DEF Inv, Admit
<1>6. ASSUME NEW m \in Members, Propose(m) PROVE StoreHolds(n)'
  <2>1. leader = m /\ Propagate("command", plan[m], m)  BY <1>6 DEF Propose
  <2>2. has' = [has EXCEPT ![m] = Len(log) + 1]  BY <2>1, Appended, Zenon DEF Inv, TypeOK
  <2> QED BY <1>3, <1>6, <2>1, <2>2 DEF Propose
<1>7. ASSUME NEW m \in Members, Elect(m) \/ SettleAndPlan(m) \/ Refuse(m)
      PROVE  StoreHolds(n)'
  BY <1>7, StoreFrame DEF Elect, SettleAndPlan, Refuse, raftVars, memberVars
<1>8. ASSUME NEW m \in Members, Leave(m) \/ Close(m) PROVE StoreHolds(n)'
  BY <1>8, StoreFrame, ZenonT(30) DEF Inv, Leave, Close, TypeOK
<1>9. ASSUME NEW m \in Members, Persist(m) PROVE StoreHolds(n)'
  BY <1>9, StoreFrame, Zenon DEF Inv, Persist, raftVars, TypeOK
<1>10. ASSUME NEW m \in Members, SendEntry(m) PROVE StoreHolds(n)'
  <2>1. leader \in Members /\ leader \in joined /\ m \in joined /\ leader # m
    BY <1>10 DEF Inv, Inductive, SendEntry, FoundedFirst, TypeOK
  <2>2. founding = "founded" /\ Len(log) > 0 /\ has[leader] = Len(log)
    BY <2>1 DEF Inv, Inductive, FoundedFirst
  <2>3. base[leader] > 0  BY <2>1, <2>2 DEF Inv, Inductive, FoundedFirst, CountersInOrder, InOrder
  <2>4. has[m] > 0
    <3>1. base[leader] <= has[m] /\ base[leader] \in Nat /\ has[m] \in Nat
      BY <1>10, <2>1 DEF Inv, SendEntry, TypeOK
    <3> QED BY <2>3, <3>1
  <2>5. has'[n] > 0 => has[n] > 0  BY <1>10, <2>4, SMTT(30), ZenonT(30) DEF Inv, SendEntry, TypeOK
  <2> QED BY <1>10, <2>5, StoreFrame, Zenon DEF SendEntry, memberVars
<1>11. ASSUME NEW m \in Members \ {n}, Deliver(m) \/ Snapshot(m) PROVE StoreHolds(n)'
  <2>1. /\ store'[n] = store[n] /\ delivered'[n] = delivered[n] /\ stall'[n] = stall[n]
        /\ phase' = phase /\ has' = has /\ snapping'[n] = snapping[n]
    BY <1>11, SMTT(30), ZenonT(30) DEF Inv, Deliver, Snapshot, Stop, raftVars, TypeOK
  <2> QED BY <2>1, StoreFrame, ZenonT(30)
<1>12. ASSUME NEW m \in Members \ {n}, SendSnapshot(m) PROVE StoreHolds(n)'
  <2>1. phase' = phase /\ snapping' = snapping  BY <1>12, Zenon DEF SendSnapshot
  <2>2. /\ store' = store \/ store' = [store EXCEPT ![m] = snap[leader].content]
        /\ has' = has \/ has' = [has EXCEPT ![m] = snap[leader].filed]
        /\ delivered' = delivered \/ delivered' = [delivered EXCEPT ![m] = snap[leader].filed]
        /\ stall'[n] = stall[n]
    BY <1>12, SendSnapshotEffect, Zenon
  <2>3. store'[n] = store[n] /\ has'[n] = has[n] /\ delivered'[n] = delivered[n]
    BY <1>12, <2>2, ZenonT(30) DEF Inv, TypeOK
  <2> QED BY <2>1, <2>2, <2>3, StoreFrame, Zenon
<1>13. ASSUME NEW m \in Members \ {n}, End(m) PROVE StoreHolds(n)'
  <2>1. has' = has /\ \E r : store' = [store EXCEPT ![m] = r]  BY <1>13, Zenon DEF End
  <2>2. store'[n] = store[n]  BY <1>13, <2>1, SMTT(30), ZenonT(30) DEF Inv, TypeOK
  <2>3. Forget(m)  BY <1>13, Zenon DEF End
  <2>4. /\ delivered'[n] = delivered[n] /\ stall'[n] = stall[n]
        /\ phase'[n] = phase[n] /\ snapping'[n] = snapping[n]
    BY <1>13, <2>3, SMTT(30), ZenonT(30) DEF Forget, Inv, TypeOK
  <2> QED BY <2>1, <2>2, <2>4, StoreFrame, ZenonT(30)
<1>14. ASSUME NEW m \in Members \ {n}, Start(m) PROVE StoreHolds(n)'
  <2>1. phase'[n] = phase[n] /\ snapping' = snapping /\ stall' = stall
    BY <1>14, SMTT(30), ZenonT(30) DEF Inv, Start, TypeOK
  <2>2. /\ store' = store \/ store' = [store EXCEPT ![m] = snap[m].content]
        /\ has' = has \/ has' = [has EXCEPT ![m] = snap[m].filed]
        /\ delivered' = delivered \/ delivered' = [delivered EXCEPT ![m] = snap[m].filed]
    BY <1>14, StartEffect, ZenonT(30)
  <2>3. store'[n] = store[n] /\ has'[n] = has[n] /\ delivered'[n] = delivered[n]
    BY <1>14, <2>2, ZenonT(30) DEF Inv, TypeOK
  <2> QED BY <2>1, <2>3, StoreFrame, ZenonT(30)
<1>15. CASE Deliver(n)  BY <1>15, DeliverStores
<1>16. CASE Snapshot(n)  BY <1>16, SnapshotStores
<1>17. CASE SendSnapshot(n)  BY <1>17, SendSnapshotStores
<1>18. CASE End(n)  BY <1>18, EndStores
<1>19. CASE Start(n)  BY <1>19, StartStores, SMTT(30), ZenonT(30)
<1> QED BY SMTT(30), ZenonT(30),
           <1>1, <1>2, <1>4, <1>5, <1>6, <1>7, <1>8, <1>9, <1>10, <1>11, <1>12, <1>13, <1>14,
           <1>15, <1>16, <1>17, <1>18, <1>19 DEF Next, MemberNext

================================================================================
