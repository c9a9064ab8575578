---------------------------- MODULE ClusterCounters ----------------------------
(***************************************************************************)
(* Proofs about Cluster: types, the log, the order of founding, and Raft's *)
(* counters.                                                               *)
(***************************************************************************)
EXTENDS Cluster, FiniteSetTheorems, TLAPS

USE DEF NoStall

\* What a step may do to the log: entries are added after the ones that are there.
LogGrows ==
    /\ Len(log) \in Nat /\ Len(log') \in Nat /\ Len(log) <= Len(log')
    /\ Commands \subseteq Commands' /\ Commands' \subseteq Nat \ {0}
    /\ \A i \in Commands' : i <= Len(log) => i \in Commands

\* The positions of batches are positions of the log.
LEMMA CommandsType == TypeOK => Commands \subseteq Nat \ {0} /\ \A i \in Commands : i <= Len(log)
  BY DEF TypeOK, Commands

\* No batch lies before a position that is held, nor in part of a stretch without any.
LEMMA NoGapFacts ==
  ASSUME TypeOK, NEW a \in Nat, NEW b \in Nat, NEW k \in Nat, k <= b
  PROVE  /\ b <= a => NoGap(a, b)
         /\ NoGap(a, b) => NoGap(a, k)
<1>1. Commands \subseteq Nat  BY CommandsType
<1> QED BY <1>1 DEF NoGap

\* A step that leaves the log alone lets it grow by nothing.
LEMMA SameLog == TypeOK /\ log' = log => LogGrows
  BY CommandsType DEF TypeOK, LogGrows, Commands

\* An entry propagated comes after the ones there were, and its proposer has it.
LEMMA Appended ==
  ASSUME TypeOK, NEW kind \in {"command", "config", "raft"}, NEW claims \in SUBSET Claim,
         NEW m \in Members, Propagate(kind, claims, m)
  PROVE  /\ LogGrows /\ log' \in Seq(Entry) /\ Len(log') = Len(log) + 1
         /\ has' = [has EXCEPT ![m] = Len(log) + 1] /\ has' \in [Members -> Nat]
<1> DEFINE e == [kind |-> kind, claims |-> claims]
<1>1. e \in Entry  BY DEF Entry
<1>2. log \in Seq(Entry) /\ log' = Append(log, e) /\ has' = [has EXCEPT ![m] = Len(log) + 1]
  BY DEF TypeOK, Propagate
<1> HIDE DEF e
<1>3. log' \in Seq(Entry) /\ Len(log') = Len(log) + 1 /\ Len(log) \in Nat
      /\ \A i \in 1..Len(log) : log'[i] = log[i]
  BY <1>1, <1>2
<1>4. LogGrows  BY <1>3 DEF LogGrows, Commands
<1> QED BY <1>2, <1>3, <1>4 DEF TypeOK

\* A store that holds what it should still does when the log has grown: new
\* entries come after its position.
LEMMA GoodGrows ==
  ASSUME TypeOK, LogGrows, NEW c \in Content, Good(c)
  PROVE  c.at <= Len(log') /\ c.holds = {0} \cup {i \in Commands' : i <= c.at}
<1>1. c.at \in Nat  BY DEF Content
<1>2. c.at <= Len(log)  BY DEF Good
<1>3. \A i \in Nat : i <= c.at => (i \in Commands' <=> i \in Commands)
  BY <1>1, <1>2 DEF LogGrows
<1>4. {i \in Commands' : i <= c.at} = {i \in Commands : i <= c.at}
  BY <1>3, CommandsType, Zenon DEF LogGrows
<1> QED BY <1>1, <1>2, <1>4 DEF LogGrows, Good, Upto

--------------------------------------------------------------------------------
(***************************************************************************)
(* Type correctness.                                                       *)
(***************************************************************************)

\* What is carried from state to state.
Inv == TypeOK /\ Inductive

\* The initial states have the right types.
LEMMA InitType == Init => TypeOK
<1> SUFFICES ASSUME Init PROVE TypeOK
  OBVIOUS
<1>1. Seed \in Content /\ Empty \in Content  BY DEF Seed, Empty, Content
<1> QED BY <1>1, ClusterAssumption DEF Init, TypeOK, Claim

\* A store holds finitely many batches, so that counting them yields a serial.
LEMMA FiniteHoldings ==
  ASSUME Inv, NEW m \in Members \ Witnesses
  PROVE  IsFiniteSet(store[m].holds \ {0})
<1>1. store[m] = Empty \/ Good(store[m])  BY DEF Inv, Inductive, StoreHolds
<1>2. store[m] = Empty => store[m].holds = {}  BY DEF Empty
<1>3. Good(store[m]) => store[m].holds \ {0} \subseteq Commands  BY DEF Good, Upto
<1>4. Commands \subseteq 1..Len(log)  BY DEF Commands
<1>5. store[m].holds \ {0} \subseteq 1..Len(log)  BY <1>1, <1>2, <1>3, <1>4, Zenon
<1>6. IsFiniteSet(1..Len(log))  BY FS_Interval DEF Inv, TypeOK
<1> QED BY <1>5, <1>6, FS_Subset

\* The serial a plan is made from is a number (SerialOf).
LEMMA SerialType ==
  ASSUME Inv, NEW m \in Members \ Witnesses, NEW z \in Zones
  PROVE  SerialOf(m, z) \in Nat
<1> DEFINE S == {i \in store[m].holds \ {0} : \E c \in log[i].claims : c[1] = z}
<1>1. IsFiniteSet(S)  BY FiniteHoldings, FS_Subset, Zenon
<1> QED BY <1>1, FS_CardinalityType DEF SerialOf

\* A stall is recorded as a log position (fsm.stop).
LEMMA StopType ==
  ASSUME TypeOK, NEW m \in Members, NEW i \in Nat, Stop(m, i)
  PROVE  stall' \in [Members -> Nat \cup {None}]
BY DEF TypeOK, Stop

\* Every step keeps the types.
LEMMA TypeStep == Inv /\ [Next]_vars => TypeOK'
<1> SUFFICES ASSUME Inv, [Next]_vars PROVE TypeOK'
  OBVIOUS
<1> USE ClusterAssumption
<1>1. CASE Bootstrap
  <2>1. Propagate("config", {}, Founder)  BY <1>1 DEF Bootstrap
  <2>2. log' \in Seq(Entry) /\ has' \in [Members -> Nat]  BY <2>1, Appended, Zenon DEF Inv
  <2> QED BY <1>1, <2>2 DEF Inv, Bootstrap, TypeOK, memberVars
<1>2. CASE FirstSnapshot
  <2>1. [filed |-> Len(log), writer |-> "store", content |-> store[Founder]] \in LogSnapshot
    BY DEF Inv, TypeOK, LogSnapshot
  <2> QED BY <1>2, <2>1 DEF Inv, FirstSnapshot, TypeOK
<1>3. CASE InitFails
  BY <1>3 DEF Inv, InitFails, TypeOK, Fault, memberVars
<1>4. CASE LoseLeader
  BY <1>4 DEF Inv, LoseLeader, TypeOK, Fault, memberVars
<1>5. CASE RaftEntry
  <2>1. Propagate("raft", {}, leader) /\ leader \in Members  BY <1>5 DEF Inv, RaftEntry, TypeOK
  <2>2. log' \in Seq(Entry) /\ has' \in [Members -> Nat]  BY <2>1, Appended, Zenon DEF Inv
  <2> QED BY <1>5, <2>2, SMTT(30), ZenonT(30) DEF Inv, RaftEntry, TypeOK, memberVars
<1>6. ASSUME NEW m \in Members, Admit(m) PROVE TypeOK'
  <2>1. Propagate("config", {}, leader) /\ leader \in Members  BY <1>6 DEF Admit
  <2>2. log' \in Seq(Entry) /\ has' \in [Members -> Nat]  BY <2>1, Appended, Zenon DEF Inv
  <2> QED BY <1>6, <2>2, Zenon DEF Inv, Admit, TypeOK, memberVars
<1>7. ASSUME NEW m \in Members, Elect(m) PROVE TypeOK'
  BY <1>7, SMTT(30), ZenonT(30) DEF Inv, Elect, TypeOK, Fault, memberVars
<1>8. ASSUME NEW m \in Members, SendEntry(m) PROVE TypeOK'
  BY <1>8, SMTT(30), ZenonT(30) DEF Inv, SendEntry, TypeOK, memberVars
<1>9. ASSUME NEW m \in Members, SendSnapshot(m) PROVE TypeOK'
  <2>1. leader \in Members /\ snap[leader] \in LogSnapshot  BY <1>9
      DEF Inv, SendSnapshot, TypeOK
  <2>2. /\ snap[leader].filed \in Nat /\ snap[leader].content \in Content
        /\ snap[leader].content.at \in Nat
    BY <2>1 DEF LogSnapshot, Content
  <2>3. snap' \in [Members -> LogSnapshot \cup {None}]
    BY <1>9, <2>1 DEF Inv, SendSnapshot, TypeOK
  <2>4. /\ store' \in [Members -> Content]
        /\ has' \in [Members -> Nat] /\ base' \in [Members -> Nat]
        /\ delivered' \in [Members -> Nat]
    BY <1>9, <2>2, ZenonT(30) DEF Inv, SendSnapshot, TypeOK
  <2>5. stall' = stall \/ \E i \in Nat : Stop(m, i)
    BY <1>9, <2>2 DEF SendSnapshot
  <2>6. stall' \in [Members -> Nat \cup {None}]  BY <2>5, StopType DEF Inv, TypeOK
  <2>7. faults' = faults \/ Fault  BY <1>9 DEF SendSnapshot
  <2>8. faults' \in Nat  BY <2>7 DEF Inv, TypeOK, Fault
  <2> QED BY <1>9, <2>3, <2>4, <2>6, <2>8, Zenon DEF Inv, SendSnapshot, TypeOK
<1>10. ASSUME NEW m \in Members, Deliver(m) PROVE TypeOK'
  <2>1. delivered[m] + 1 \in Nat  BY DEF Inv, TypeOK
  <2>2. ApplyBatchAt(store[m], delivered[m] + 1) \in Content
    BY <2>1, Zenon DEF Inv, ApplyBatchAt, Content, TypeOK
  <2>3. delivered' \in [Members -> Nat]  BY <1>10, <2>1 DEF Inv, Deliver, TypeOK
  <2>4. store' \in [Members -> Content]  BY <1>10, <2>2 DEF Inv, Deliver, TypeOK
  <2>5. stall' = stall \/ Stop(m, delivered[m] + 1)  BY <1>10 DEF Deliver
  <2>6. stall' \in [Members -> Nat \cup {None}]  BY <2>1, <2>5, StopType DEF Inv, TypeOK
  <2>7. faults' = faults \/ Fault  BY <1>10 DEF Deliver
  <2>8. faults' \in Nat  BY <2>7, SMTT(30), ZenonT(30) DEF Inv, TypeOK, Fault
  <2> QED BY <1>10, <2>3, <2>4, <2>6, <2>8 DEF Inv, Deliver, TypeOK, raftVars
<1>11. ASSUME NEW m \in Members, Snapshot(m) PROVE TypeOK'
  BY <1>11, SMTT(30), ZenonT(30) DEF Inv, Snapshot, TypeOK, raftVars
<1>12. ASSUME NEW m \in Members, Persist(m) PROVE TypeOK'
  <2>1. snapping[m] \in Nat  BY <1>12 DEF Inv, Persist, TypeOK
  <2>2. \A w \in {"store", "witness"} :
          [filed |-> snapping[m], writer |-> w, content |-> store[m]] \in LogSnapshot
    BY <2>1 DEF Inv, TypeOK, LogSnapshot
  <2>3. snap' = snap \/ \E s \in LogSnapshot : snap' = [snap EXCEPT ![m] = s]
    BY <1>12, <2>2 DEF Persist
  <2>4. base' \in [Members -> Nat]  BY <1>12, <2>1, Zenon DEF Inv, Persist, TypeOK
  <2>5. snap' \in [Members -> LogSnapshot \cup {None}]  BY <2>3, Zenon DEF Inv, TypeOK
  <2> QED BY <1>12, <2>4, <2>5, Zenon DEF Inv, Persist, TypeOK, raftVars
<1>13. ASSUME NEW m \in Members, Leave(m) PROVE TypeOK'
  BY <1>13 DEF Inv, Leave, TypeOK
<1>14. ASSUME NEW m \in Members, SettleAndPlan(m) PROVE TypeOK'
  <2>1. PICK touched \in SUBSET Zones \ {{}} :
          plan' = [plan EXCEPT ![m] = {<<z, SerialOf(m, z) + 1>> : z \in touched}]
    BY <1>14, Zenon DEF SettleAndPlan
  <2>2. {<<z, SerialOf(m, z) + 1>> : z \in touched} \in SUBSET Claim
    BY <1>14, SerialType DEF SettleAndPlan, Claim
  <2> QED BY <1>14, <2>1, <2>2 DEF Inv, SettleAndPlan, TypeOK, raftVars, memberVars
<1>15. ASSUME NEW m \in Members, Propose(m) PROVE TypeOK'
  <2>1. Propagate("command", plan[m], m)  BY <1>15 DEF Propose
  <2>2. log' \in Seq(Entry) /\ has' \in [Members -> Nat]  BY <2>1, Appended DEF Inv, TypeOK
  <2> QED BY <1>15, <2>2, Zenon DEF Inv, Propose, TypeOK, memberVars
<1>16. ASSUME NEW m \in Members, Refuse(m) PROVE TypeOK'
  BY <1>16 DEF Inv, Refuse, TypeOK, raftVars, memberVars
<1>17. ASSUME NEW m \in Members, Close(m) PROVE TypeOK'
  BY <1>17, SMTT(30), ZenonT(30) DEF Inv, Close, TypeOK, Fault
<1>18. ASSUME NEW m \in Members, End(m) PROVE TypeOK'
  <2>1. \A k \in Nat : Rewound(m, k) \in Content
    BY DEF Inv, Rewound, Empty, Content, TypeOK
  <2>2. PICK k \in 0..store[m].at : store' = [store EXCEPT ![m] = Rewound(m, k)]
    BY <1>18, Zenon DEF End
  <2>3. Rewound(m, k) \in Content
    <3>1. k \in Nat  OBVIOUS
    <3> QED BY <2>1, <3>1
  <2>4. store' \in [Members -> Content]  BY <2>2, <2>3 DEF Inv, TypeOK
  <2>5. faults' = faults \/ Fault  BY <1>18 DEF End
  <2>6. faults' \in Nat  BY <2>5 DEF Inv, TypeOK, Fault
  <2>7. /\ founding' \in {"single", "founding", "founded", "failed"}
        /\ leader' \in Members \cup {None}
        /\ phase' \in [Members -> {"up", "closing", "left", "down"}]
        /\ delivered' \in [Members -> Nat]
    BY <1>18 DEF Inv, End, Forget, TypeOK
  <2>8. /\ snapping' \in [Members -> Nat \cup {None}]
        /\ stall' \in [Members -> Nat \cup {None}]
        /\ plan' \in [Members -> SUBSET Claim]
    BY <1>18 DEF Inv, End, Forget, TypeOK
  <2> QED BY <1>18, <2>4, <2>6, <2>7, <2>8, Zenon DEF Inv, End, TypeOK
<1>19. ASSUME NEW m \in Members, Start(m) PROVE TypeOK'
  <2>1. snap[m] # None => snap[m].filed \in Nat /\ snap[m].content \in Content
    BY DEF Inv, TypeOK, LogSnapshot
  <2>2. store' \in [Members -> Content]  BY <1>19, <2>1 DEF Inv, Start, TypeOK
  <2>3. delivered' \in [Members -> Nat]  BY <1>19, <2>1, Zenon DEF Inv, Start, TypeOK
  <2>4. has' \in [Members -> Nat] /\ base' \in [Members -> Nat]
    <3>1. CASE snap[m] = None  BY <1>19, <3>1 DEF Inv, Start, TypeOK
    <3>2. CASE snap[m] # None
      <4>1. /\ has' = [has EXCEPT ![m] = IF has[m] < snap[m].filed THEN snap[m].filed ELSE has[m]]
            /\ base' = [base EXCEPT ![m] = IF has[m] < snap[m].filed THEN snap[m].filed ELSE base[m]]
        BY <1>19, <3>2, SMTT(30), ZenonT(30) DEF Inv, Start, TypeOK
      <4> QED BY <2>1, <3>2, <4>1 DEF Inv, TypeOK
    <3> QED BY <3>1, <3>2
  <2> QED BY <1>19, <2>2, <2>3, <2>4, Zenon DEF Inv, Start, TypeOK
<1>20. CASE UNCHANGED vars
  BY <1>20 DEF Inv, vars, raftVars, memberVars, TypeOK
<1> QED BY <1>1, <1>2, <1>3, <1>4, <1>5, <1>6, <1>7, <1>8, <1>9, <1>10, <1>11, <1>12,
           <1>13, <1>14, <1>15, <1>16, <1>17, <1>18, <1>19, <1>20 DEF Next, MemberNext

--------------------------------------------------------------------------------
(***************************************************************************)
(* The inductive step.                                                     *)
(***************************************************************************)

\* The log only grows.
LEMMA LogStep == Inv /\ [Next]_vars => LogGrows
<1> SUFFICES ASSUME Inv, [Next]_vars PROVE LogGrows
  OBVIOUS
<1> USE ClusterAssumption
<1>1. CASE log' = log  BY <1>1, SameLog DEF Inv
<1>2. CASE Bootstrap  BY <1>2, Appended DEF Inv, Bootstrap
<1>3. CASE RaftEntry  BY <1>3, Appended DEF Inv, RaftEntry, TypeOK
<1>4. ASSUME NEW m \in Members, Admit(m) PROVE LogGrows  BY <1>4, Appended DEF Inv, Admit
<1>5. ASSUME NEW m \in Members, Propose(m) PROVE LogGrows
  BY <1>5, Appended, SMTT(30), ZenonT(30) DEF Inv, Propose, TypeOK
<1> QED
  BY <1>1, <1>2, <1>3, <1>4, <1>5, ZenonT(30)
     DEF Next, MemberNext, FirstSnapshot, InitFails, LoseLeader, Elect, SendEntry,
         SendSnapshot, Deliver, Snapshot, Persist, Leave, SettleAndPlan, Refuse, Close,
         End, Start, vars, raftVars

\* A snapshot the leader sends is ahead of all the member has, and is either
\* taken over whole or stops the member where it is (fsm.Restore).
LEMMA SendSnapshotEffect ==
  ASSUME Inv, Undisturbed, NEW m \in Members, SendSnapshot(m)
  PROVE  LET s == snap[leader] IN
         /\ leader \in Members /\ leader # m /\ founding = "founded"
         /\ s \in LogSnapshot /\ s.filed \in Nat /\ s.content \in Content
         /\ has[m] < s.filed /\ s.filed <= Len(log)
         /\ s.writer = "store" => Good(s.content) /\ NoGap(s.content.at, s.filed)
         /\ \/ /\ m \in Witnesses \/ (NoStall(m) /\ Restorable(s))
               /\ store' = IF m \in Witnesses THEN store ELSE [store EXCEPT ![m] = s.content]
               /\ has' = [has EXCEPT ![m] = s.filed]
               /\ base' = [base EXCEPT ![m] = s.filed]
               /\ delivered' = [delivered EXCEPT ![m] = s.filed]
               /\ stall' = stall
            \/ /\ m \notin Witnesses
               /\ store' = store /\ has' = has /\ base' = base /\ delivered' = delivered
               /\ stall'[m] # None /\ \A n \in Members \ {m} : stall'[n] = stall[n]
<1> USE ClusterAssumption
<1> DEFINE s == snap[leader]
<1>1. leader \in Members /\ leader # m /\ m \in joined /\ s # None /\ has[m] < base[leader]
  BY DEF Inv, SendSnapshot, TypeOK
<1>2. founding = "founded"  BY <1>1 DEF Inv, Inductive, FoundedFirst, TypeOK
<1>3. s \in LogSnapshot /\ s.filed \in Nat /\ s.content \in Content /\ s.content.at \in Nat
  BY <1>1, SMTT(30), ZenonT(30) DEF Inv, TypeOK, LogSnapshot, Content
<1>4. /\ base[leader] <= s.filed /\ s.filed <= Len(log)
      /\ s.writer = "store" => Good(s.content) /\ NoGap(s.content.at, s.filed)
  BY <1>1, SMTT(30), ZenonT(30) DEF Inv, Inductive, SnapshotHolds
<1>5. has[m] < s.filed  BY <1>1, <1>3, <1>4, SMTT(30), ZenonT(30) DEF Inv, TypeOK
<1>6. \A i \in Nat : Stop(m, i) =>
        stall'[m] # None /\ \A n \in Members \ {m} : stall'[n] = stall[n]
  BY DEF Inv, Stop, TypeOK
<1> QED BY <1>1, <1>2, <1>3, <1>4, <1>5, <1>6 DEF SendSnapshot

\* What a start makes of a member's counters and its store (catchUp).
LEMMA StartEffect ==
  ASSUME Inv, NEW m \in Members, Start(m)
  PROVE  LET s == snap[m] IN
         /\ phase[m] = "down" /\ leader # m /\ delivered[m] = 0 /\ stall[m] = None
         /\ snapping[m] = None
         /\ s = None =>
               /\ has' = has /\ base' = base /\ delivered' = delivered /\ store' = store
         /\ s # None =>
               /\ s \in LogSnapshot /\ s.filed \in Nat /\ s.content \in Content
               /\ delivered' = [delivered EXCEPT ![m] = s.filed]
               /\ \/ has[m] < s.filed
                     /\ has' = [has EXCEPT ![m] = s.filed]
                     /\ base' = [base EXCEPT ![m] = s.filed]
                  \/ has[m] >= s.filed /\ has' = has /\ base' = base
               /\ \/ m \in Witnesses /\ store' = store
                  \/ s.filed <= store[m].at /\ store' = store
                  \/ Restorable(s) /\ store' = [store EXCEPT ![m] = s.content]
<1> USE ClusterAssumption
<1> DEFINE s == snap[m]
<1>1. phase[m] = "down" /\ leader # m /\ delivered[m] = 0 /\ stall[m] = None
      /\ snapping[m] = None
  BY DEF Inv, Inductive, Start, CountersInOrder, InOrder, FoundedFirst, TypeOK
<1>2. CASE s = None  BY <1>1, <1>2, SMTT(30), ZenonT(30) DEF Start
<1>3. CASE s # None
  <2>1. s \in LogSnapshot /\ s.filed \in Nat /\ s.content \in Content
    BY <1>3 DEF Inv, TypeOK, LogSnapshot
  <2>2. /\ delivered' = [delivered EXCEPT ![m] = s.filed]
        /\ has' = [has EXCEPT ![m] = IF has[m] < s.filed THEN s.filed ELSE has[m]]
        /\ base' = [base EXCEPT ![m] = IF has[m] < s.filed THEN s.filed ELSE base[m]]
    BY <1>3 DEF Inv, Start, TypeOK
  <2>3. \/ has[m] < s.filed
           /\ has' = [has EXCEPT ![m] = s.filed] /\ base' = [base EXCEPT ![m] = s.filed]
        \/ has[m] >= s.filed /\ has' = has /\ base' = base
    <3>1. CASE has[m] < s.filed  BY <2>2, <3>1
    <3>2. CASE ~(has[m] < s.filed)
      <4>1. has' = [has EXCEPT ![m] = has[m]] /\ base' = [base EXCEPT ![m] = base[m]]
        BY <2>2, <3>2
      <4>2. has' = has /\ base' = base  BY <4>1 DEF Inv, TypeOK
      <4> QED BY <2>1, <3>2, <4>2 DEF Inv, TypeOK
    <3> QED BY <3>1, <3>2
  <2>4. \/ m \in Witnesses /\ store' = store
        \/ s.filed <= store[m].at /\ store' = store
        \/ Restorable(s) /\ store' = [store EXCEPT ![m] = s.content]
    BY <1>3, <2>1, SMTT(30), ZenonT(30) DEF Inv, Start, TypeOK, Content
  <2> QED BY <1>1, <1>3, <2>1, <2>2, <2>3, <2>4
<1> QED BY <1>2, <1>3, Zenon

\* What the next two lemmas use of the invariant: the types of Raft's counters and
\* the order of founding and of the counters.
Counted ==
    /\ log \in Seq(Entry) /\ Len(log) \in Nat
    /\ leader \in Members \cup {None} /\ joined \subseteq Members
    /\ phase \in [Members -> {"up", "closing", "left", "down"}]
    /\ has \in [Members -> Nat] /\ base \in [Members -> Nat] /\ delivered \in [Members -> Nat]
    /\ snapping \in [Members -> Nat \cup {None}] /\ stall \in [Members -> Nat \cup {None}]
    /\ FoundedFirst /\ CountersInOrder

\* The invariant says so (Raft's counters, Node.Init).
LEMMA CountedNow == ASSUME Inv PROVE Counted
<1>1. TypeOK /\ FoundedFirst /\ CountersInOrder  BY Zenon DEF Inv, Inductive
<1>2. log \in Seq(Entry)  BY <1>1, Zenon DEF TypeOK
<1>3. Len(log) \in Nat  BY <1>2
<1> QED BY <1>1, <1>2, <1>3, ZenonT(30) DEF TypeOK, Counted

\* Every step keeps the order of founding: the first snapshot, then the members
\* (Node.Init, snapshotEverything).
LEMMA FoundedStep ==
  ASSUME Inv, TypeOK', LogGrows, [Next]_vars, Undisturbed, LeavesAtOnce
  PROVE  FoundedFirst'
<1> USE ClusterAssumption
<1>0. Counted  BY CountedNow, Zenon
<1>1. CASE Bootstrap
  <2>1. Propagate("config", {}, Founder)  BY <1>1 DEF Bootstrap
  <2>2. /\ Len(log') = Len(log) + 1
        /\ has' = [has EXCEPT ![Founder] = Len(log) + 1]
    BY <1>1, <2>1, Appended, Zenon DEF Inv, Bootstrap
  <2> QED BY <1>0, <1>1, <2>2 DEF Counted, Bootstrap, memberVars, FoundedFirst
<1>2. CASE FirstSnapshot
  BY <1>0, <1>2 DEF Counted, FirstSnapshot, FoundedFirst
<1>3. CASE InitFails
  BY <1>0, <1>3 DEF Counted, InitFails, memberVars, Fault, FoundedFirst
<1>4. CASE LoseLeader
  BY <1>0, <1>4 DEF Counted, LoseLeader, memberVars, FoundedFirst
<1>5. CASE RaftEntry
  <2>1. Propagate("raft", {}, leader)  BY <1>5 DEF RaftEntry
  <2>2. /\ Len(log') = Len(log) + 1
        /\ has' = [has EXCEPT ![leader] = Len(log) + 1]
    BY <1>5, <2>1, Appended, Zenon DEF Inv, RaftEntry, TypeOK
  <2> QED BY <1>0, <1>5, <2>2, SMTT(30), ZenonT(30) DEF Counted, RaftEntry, memberVars, FoundedFirst
<1>6. ASSUME NEW m \in Members, Admit(m) PROVE FoundedFirst'
  <2>1. Propagate("config", {}, leader)  BY <1>6 DEF Admit
  <2>2. /\ Len(log') = Len(log) + 1
        /\ has' = [has EXCEPT ![leader] = Len(log) + 1]
    BY <1>6, <2>1, Appended, Zenon DEF Inv, Admit
  <2> QED BY <1>0, <1>6, <2>2, SMTT(30), ZenonT(30) DEF Counted, Admit, memberVars, FoundedFirst
<1>7. ASSUME NEW m \in Members, Elect(m) PROVE FoundedFirst'
  BY <1>0, <1>7 DEF Counted, Elect, memberVars, FoundedFirst
<1>8. ASSUME NEW m \in Members, SendEntry(m) PROVE FoundedFirst'
  BY <1>0, <1>8 DEF Counted, SendEntry, memberVars, FoundedFirst
<1>9. ASSUME NEW m \in Members, SendSnapshot(m) PROVE FoundedFirst'
  <2>1. /\ log' = log /\ leader' = leader /\ joined' = joined /\ founding' = founding
        /\ phase' = phase
    BY <1>9 DEF SendSnapshot
  <2>2. /\ leader \in Members /\ leader # m
        /\ snap[leader].filed \in Nat /\ has[m] < snap[leader].filed
        /\ base' = base \/ base' = [base EXCEPT ![m] = snap[leader].filed]
        /\ has' = has \/ has' = [has EXCEPT ![m] = snap[leader].filed]
    BY <1>9, SendSnapshotEffect
  <2>3. has[m] \in Nat  BY DEF Inv, TypeOK
  <2>4. snap[leader].filed > 0  BY <2>2, <2>3
  <2>5. has'[leader] = has[leader]  BY <2>2, Zenon DEF Inv, TypeOK
  <2>6. base[Founder] > 0 => base'[Founder] > 0  BY <2>2, <2>4, ZenonT(30) DEF Inv, TypeOK
  <2> QED BY <1>0, <2>1, <2>5, <2>6, SMTT(30), ZenonT(30) DEF Counted, FoundedFirst
<1>10. ASSUME NEW m \in Members, Deliver(m) PROVE FoundedFirst'
  BY <1>0, <1>10, SMTT(30), ZenonT(30) DEF Counted, Deliver, raftVars, FoundedFirst
<1>11. ASSUME NEW m \in Members, Snapshot(m) PROVE FoundedFirst'
  BY <1>0, <1>11 DEF Counted, Snapshot, raftVars, FoundedFirst
<1>12. ASSUME NEW m \in Members, Persist(m) PROVE FoundedFirst'
  <2>1. snapping[m] \in Nat /\ snapping[m] > 0
    BY <1>0, <1>12, SMTT(30), ZenonT(30) DEF Counted, Persist, CountersInOrder, InOrder
  <2>2. base' = base \/ base' = [base EXCEPT ![m] = snapping[m]]
    BY <1>12 DEF Persist
  <2>3. base[Founder] > 0 => base'[Founder] > 0  BY <2>1, <2>2, ZenonT(30) DEF Inv, TypeOK
  <2>4. UNCHANGED <<log, leader, joined, founding, has, phase>>  BY <1>12, SMTT(30), ZenonT(30)
      DEF Persist, raftVars
  <2> QED BY <2>3, <2>4 DEF Inv, Inductive, FoundedFirst
<1>13. ASSUME NEW m \in Members, Leave(m) PROVE FoundedFirst'
  BY <1>0, <1>13, SMTT(30), ZenonT(30) DEF Counted, Leave, FoundedFirst
<1>14. ASSUME NEW m \in Members, SettleAndPlan(m) PROVE FoundedFirst'
  BY <1>0, <1>14, SMTT(30), ZenonT(30) DEF Counted, SettleAndPlan, raftVars, memberVars, FoundedFirst
<1>15. ASSUME NEW m \in Members, Propose(m) PROVE FoundedFirst'
  <2>1. Propagate("command", plan[m], m)  BY <1>15 DEF Propose
  <2>2. /\ Len(log') = Len(log) + 1
        /\ has' = [has EXCEPT ![m] = Len(log) + 1]
    BY <1>15, <2>1, Appended, Zenon DEF Inv, Propose, TypeOK
  <2> QED BY <1>0, <1>15, <2>2 DEF Counted, Propose, memberVars, FoundedFirst
<1>16. ASSUME NEW m \in Members, Refuse(m) PROVE FoundedFirst'
  BY <1>0, <1>16, SMTT(30), ZenonT(30) DEF Counted, Refuse, raftVars, memberVars, FoundedFirst
<1>17. ASSUME NEW m \in Members, Close(m) PROVE FoundedFirst'
  BY <1>0, <1>17, SMTT(30), ZenonT(30) DEF Counted, Close, FoundedFirst
<1>18. ASSUME NEW m \in Members, End(m) PROVE FoundedFirst'
  BY <1>0, <1>18 DEF Counted, End, Forget, FoundedFirst
<1>19. ASSUME NEW m \in Members, Start(m) PROVE FoundedFirst'
  <2>1. /\ log' = log /\ leader' = leader /\ joined' = joined /\ founding' = founding
        /\ phase' = [phase EXCEPT ![m] = "up"] /\ leader # m
    BY <1>19, StartEffect, Zenon DEF Start
  <2>2. /\ base' = base \/ base' = [base EXCEPT ![m] = snap[m].filed]
        /\ leader # None => has'[leader] = has[leader]
        /\ base' # base => snap[m].filed > 0
    BY <1>19, StartEffect, ZenonT(30) DEF Inv, Inductive, TypeOK, SnapshotHolds
  <2> QED BY <1>0, <2>1, <2>2, ZenonT(30) DEF Counted, FoundedFirst
<1>20. CASE UNCHANGED vars
  BY <1>0, <1>20 DEF Counted, vars, raftVars, memberVars, FoundedFirst
<1> QED BY SMTT(30), ZenonT(30),
           <1>1, <1>2, <1>3, <1>4, <1>5, <1>6, <1>7, <1>8, <1>9, <1>10, <1>11, <1>12,
           <1>13, <1>14, <1>15, <1>16, <1>17, <1>18, <1>19, <1>20 DEF Next, MemberNext

\* Every step keeps Raft's counters in order.
LEMMA CountersStep ==
  ASSUME Inv, TypeOK', LogGrows, [Next]_vars, Undisturbed, LeavesAtOnce
  PROVE  CountersInOrder'
<1> USE ClusterAssumption
<1>0. Counted  BY CountedNow, Zenon
<1>1. CASE Bootstrap
  <2>1. Propagate("config", {}, Founder)  BY <1>1, SMTT(30), ZenonT(30) DEF Bootstrap
  <2>2. /\ Len(log') = Len(log) + 1
        /\ has' = [has EXCEPT ![Founder] = Len(log) + 1]
    BY <1>1, <2>1, Appended, ZenonT(30) DEF Inv, Bootstrap
  <2> QED BY <1>0, <1>1, <2>2, SMTT(30), ZenonT(30)
      DEF Counted, Bootstrap, memberVars, CountersInOrder, InOrder, FoundedFirst
<1>2. CASE FirstSnapshot
  BY <1>0, <1>2, SMTT(30), ZenonT(30) DEF Counted, FirstSnapshot, CountersInOrder, InOrder, FoundedFirst
<1>3. CASE InitFails
  BY <1>0, <1>3, SMTT(30), ZenonT(30)
      DEF Counted, InitFails, memberVars, Fault, CountersInOrder, InOrder, FoundedFirst
<1>4. CASE LoseLeader
  BY <1>0, <1>4, SMTT(30), ZenonT(30)
      DEF Counted, LoseLeader, memberVars, CountersInOrder, InOrder, FoundedFirst
<1>5. CASE RaftEntry
  <2>1. Propagate("raft", {}, leader)  BY <1>5, SMTT(30), ZenonT(30) DEF RaftEntry
  <2>2. /\ Len(log') = Len(log) + 1
        /\ has' = [has EXCEPT ![leader] = Len(log) + 1]
    BY <1>5, <2>1, Appended, ZenonT(30) DEF Inv, RaftEntry, TypeOK
  <2> QED BY <1>0, <1>5, <2>2, SMTT(30), ZenonT(30)
      DEF Counted, RaftEntry, memberVars, CountersInOrder, InOrder, FoundedFirst
<1>6. ASSUME NEW m \in Members, Admit(m) PROVE CountersInOrder'
  <2>1. Propagate("config", {}, leader)  BY <1>6, SMTT(30), ZenonT(30) DEF Admit
  <2>2. /\ Len(log') = Len(log) + 1
        /\ has' = [has EXCEPT ![leader] = Len(log) + 1]
    BY <1>6, <2>1, Appended, ZenonT(30) DEF Inv, Admit
  <2> QED BY <1>0, <1>6, <2>2, SMTT(30), ZenonT(30)
      DEF Counted, Admit, memberVars, CountersInOrder, InOrder, FoundedFirst
<1>7. ASSUME NEW m \in Members, Elect(m) PROVE CountersInOrder'
  BY <1>0, <1>7, SMTT(30), ZenonT(30)
      DEF Counted, Elect, memberVars, CountersInOrder, InOrder, FoundedFirst
<1>8. ASSUME NEW m \in Members, SendEntry(m) PROVE CountersInOrder'
  BY <1>0, <1>8, SMTT(30), ZenonT(30)
      DEF Counted, SendEntry, memberVars, CountersInOrder, InOrder, FoundedFirst
<1>9. ASSUME NEW m \in Members, SendSnapshot(m) PROVE CountersInOrder'
  <2>1. log' = log /\ phase' = phase /\ snapping' = snapping /\ phase[m] = "up"
    BY <1>9 DEF SendSnapshot
  <2> DEFINE f == snap[leader].filed
  <2>2. /\ f \in Nat /\ has[m] < f /\ f <= Len(log)
        /\ \/ /\ has' = [has EXCEPT ![m] = f] /\ base' = [base EXCEPT ![m] = f]
              /\ delivered' = [delivered EXCEPT ![m] = f] /\ stall' = stall
           \/ /\ has' = has /\ base' = base /\ delivered' = delivered
              /\ \A n \in Members \ {m} : stall'[n] = stall[n]
    BY <1>9, SendSnapshotEffect
  <2> HIDE DEF f
  <2>3. snapping[m] # None => snapping[m] \in Nat  BY DEF Inv, TypeOK
  <2>4. InOrder(m)'  BY <1>0, <2>1, <2>2, <2>3, SMTT(30), ZenonT(30)
      DEF Counted, CountersInOrder, InOrder
  <2>5. \A n \in Members \ {m} : InOrder(n)'
    BY <1>0, <2>1, <2>2, ZenonT(30) DEF Counted, CountersInOrder, InOrder
  <2> QED BY <2>4, <2>5 DEF Inv, Inductive, CountersInOrder
<1>10. ASSUME NEW m \in Members, Deliver(m) PROVE CountersInOrder'
  <2>1. /\ log' = log /\ has' = has /\ base' = base /\ phase' = phase /\ snapping' = snapping
        /\ delivered' = [delivered EXCEPT ![m] = delivered[m] + 1]
        /\ delivered[m] + 1 <= has[m] /\ phase[m] # "down"
    BY <1>10, Zenon DEF Deliver, raftVars
  <2>2. \A n \in Members : stall'[n] = stall[n] \/ n = m
    <3>1. stall' = stall \/ \E k : stall' = [stall EXCEPT ![m] = k]
      BY <1>10, Zenon DEF Deliver, Stop
    <3> QED BY <3>1, Zenon DEF Inv, TypeOK
  <2> QED BY <1>0, <2>1, <2>2, SMTT(30), ZenonT(30) DEF Counted, CountersInOrder, InOrder
<1>11. ASSUME NEW m \in Members, Snapshot(m) PROVE CountersInOrder'
  BY <1>0, <1>11, SMTT(30), ZenonT(30)
      DEF Counted, Snapshot, raftVars, CountersInOrder, InOrder, FoundedFirst
<1>12. ASSUME NEW m \in Members, Persist(m) PROVE CountersInOrder'
  BY <1>0, <1>12, SMTT(30), ZenonT(30)
      DEF Counted, Persist, raftVars, CountersInOrder, InOrder, FoundedFirst
<1>13. ASSUME NEW m \in Members, Leave(m) PROVE CountersInOrder'
  BY <1>0, <1>13, SMTT(30), ZenonT(30) DEF Counted, Leave, CountersInOrder, InOrder, FoundedFirst
<1>14. ASSUME NEW m \in Members, SettleAndPlan(m) PROVE CountersInOrder'
  BY <1>14, SMTT(30), ZenonT(30)
     DEF Inv, Inductive, SettleAndPlan, raftVars, memberVars, CountersInOrder, InOrder,
          FoundedFirst, TypeOK
<1>15. ASSUME NEW m \in Members, Propose(m) PROVE CountersInOrder'
  <2>1. Propagate("command", plan[m], m)  BY <1>15, SMTT(30), ZenonT(30) DEF Propose
  <2>2. /\ Len(log') = Len(log) + 1
        /\ has' = [has EXCEPT ![m] = Len(log) + 1]
    BY <1>15, <2>1, Appended, ZenonT(30) DEF Inv, Propose, TypeOK
  <2> QED BY <1>0, <1>15, <2>2, SMTT(30), ZenonT(30)
      DEF Counted, Propose, memberVars, CountersInOrder, InOrder, FoundedFirst
<1>16. ASSUME NEW m \in Members, Refuse(m) PROVE CountersInOrder'
  BY <1>0, <1>16, SMTT(30), ZenonT(30)
      DEF Counted, Refuse, raftVars, memberVars, CountersInOrder, InOrder, FoundedFirst
<1>17. ASSUME NEW m \in Members, Close(m) PROVE CountersInOrder'
  BY <1>0, <1>17, SMTT(30), ZenonT(30) DEF Counted, Close, CountersInOrder, InOrder, FoundedFirst
<1>18. ASSUME NEW m \in Members, End(m) PROVE CountersInOrder'
  <2>1. /\ log' = log /\ has' = has /\ base' = base
        /\ phase' = [phase EXCEPT ![m] = "down"]
        /\ delivered' = [delivered EXCEPT ![m] = 0]
        /\ snapping' = [snapping EXCEPT ![m] = None]
        /\ stall' = [stall EXCEPT ![m] = None]
    BY <1>18, Zenon DEF End, Forget
  <2>2. InOrder(m)
    BY Zenon DEF Inv, Inductive, CountersInOrder
  <2>3. InOrder(m)'
    BY <2>1, <2>2, SMTT(30), ZenonT(30) DEF Inv, InOrder, TypeOK
  <2>4. ASSUME NEW n \in Members, n # m PROVE InOrder(n)'
    <3>1. InOrder(n)  BY Zenon DEF Inv, Inductive, CountersInOrder
    <3>2. /\ phase'[n] = phase[n] /\ delivered'[n] = delivered[n]
          /\ snapping'[n] = snapping[n] /\ stall'[n] = stall[n]
      BY <2>1, <2>4, ZenonT(30) DEF Inv, TypeOK
    <3> QED BY <2>1, <3>1, <3>2, SMTT(30), ZenonT(30) DEF InOrder
  <2> QED BY <2>3, <2>4, ZenonT(30) DEF CountersInOrder
<1>19. ASSUME NEW m \in Members, Start(m) PROVE CountersInOrder'
  <2>1. /\ log' = log /\ snapping' = snapping /\ stall' = stall
        /\ phase' = [phase EXCEPT ![m] = "up"] /\ snapping[m] = None
    BY <1>19, StartEffect, ZenonT(30) DEF Start
  <2>2. snap[m] # None => snap[m].filed \in Nat /\ 0 < snap[m].filed /\ snap[m].filed <= Len(log)
    BY Zenon DEF Inv, Inductive, SnapshotHolds, TypeOK, LogSnapshot
  <2>3. CASE snap[m] = None
    <3>1. has' = has /\ base' = base /\ delivered' = delivered  BY <1>19, <2>3, StartEffect, ZenonT(30)
    <3> QED BY <1>0, <2>1, <3>1, SMTT(30), ZenonT(30) DEF Counted, CountersInOrder, InOrder
  <2>4. CASE snap[m] # None
    <3> DEFINE f == snap[m].filed
    <3>1. /\ f \in Nat /\ 0 < f /\ f <= Len(log) /\ delivered' = [delivered EXCEPT ![m] = f]
          /\ \/ has[m] < f /\ has' = [has EXCEPT ![m] = f] /\ base' = [base EXCEPT ![m] = f]
             \/ has[m] >= f /\ has' = has /\ base' = base
      BY <1>19, <2>2, <2>4, StartEffect, SMTT(30), ZenonT(30)
    <3> HIDE DEF f
    <3>2. InOrder(m)'  BY <1>0, <2>1, <3>1, SMTT(30), ZenonT(30) DEF Counted, CountersInOrder, InOrder
    <3>3. \A n \in Members \ {m} : InOrder(n)'
      BY <1>0, <2>1, <3>1, SMTT(30), ZenonT(30) DEF Counted, CountersInOrder, InOrder
    <3> QED BY <3>2, <3>3, SMTT(30), ZenonT(30) DEF Inv, Inductive, CountersInOrder
  <2> QED BY <2>3, <2>4, SMTT(30), ZenonT(30)
<1>20. CASE UNCHANGED vars
  BY <1>0, <1>20 DEF Counted, vars, raftVars, memberVars, CountersInOrder, InOrder, FoundedFirst
<1> QED BY <1>1, <1>2, <1>3, <1>4, <1>5, <1>6, <1>7, <1>8, <1>9, <1>10, <1>11, <1>12,
           <1>13, <1>14, <1>15, <1>16, <1>17, <1>18, <1>19, <1>20 DEF Next, MemberNext

================================================================================
