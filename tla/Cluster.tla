-------------------------------- MODULE Cluster --------------------------------
(***************************************************************************)
(* The members of a cluster and the log they apply (internal/cluster and   *)
(* ApplyBatchAt in internal/apply): founding, joining, planning and        *)
(* proposing a write, carrying out committed entries, stalling and         *)
(* leaving, log snapshots, closing, crashing and starting again.           *)
(*                                                                         *)
(* hashicorp/raft is external.  What is used of it: the committed log only *)
(* grows, a leader holds all of it, entries reach a state machine in order *)
(* and one at a time, and its count of applied entries moves past an entry *)
(* whatever the state machine answers.  Elections are taken at any moment. *)
(*                                                                         *)
(* A store is the set of log positions whose batch it holds, together with *)
(* its applied index.  Position 0 stands for what the founder held before  *)
(* there was a log.  A batch is the set of <<zone, serial>> pairs its      *)
(* commits claim, which is what the store's unique index tells apart.      *)
(***************************************************************************)
EXTENDS Naturals, Sequences, FiniteSets

CONSTANTS
    Members,        \* every node that is or becomes a member
    Founder,        \* the node `weg cluster init` is run on
    Witnesses,      \* members without a store
    Zones,
    None,
    MaxLog,         \* bound: no entry is proposed past this many
    MaxRaft,        \* bound: this many of them are Raft's own
    MaxFaults,      \* bound: failing writes, lost leaders, stops and crashes
    Undisturbed,    \* TRUE: nobody joins and nothing stops while Init runs
    LeavesAtOnce,   \* TRUE: no log snapshot starts between a stall and leave
    NoReturn        \* TRUE: no member leads again with an old plan in hand

ASSUME ClusterAssumption ==
    /\ Founder \in Members \ Witnesses
    /\ Witnesses \subseteq Members
    /\ None \notin Members /\ None \notin Nat
    /\ MaxLog \in Nat
    /\ MaxRaft \in Nat
    /\ MaxFaults \in Nat
    /\ Undisturbed \in BOOLEAN
    /\ LeavesAtOnce \in BOOLEAN
    /\ NoReturn \in BOOLEAN

VARIABLES
    log,        \* the committed entries
    leader,     \* the member Raft has leading, or None
    joined,     \* members the configuration lists
    founding,   \* how far Init has got
    phase,      \* what a member's process is doing
    has,        \* last entry in a member's own copy of the log
    base,       \* last entry compacted away from that copy
    delivered,  \* Raft's count: the last entry handed to the state machine
    snap,       \* the newest log snapshot on a member's disk
    snapping,   \* the position a snapshot being written is filed under
    store,      \* what a member's database holds, and its applied index
    stall,      \* the entry a member could not get past
    plan,       \* what the write in a member's applier claims; {} for none
    faults      \* how much has gone wrong so far

raftVars == <<log, leader, joined, founding, has>>
memberVars == <<phase, base, delivered, snap, snapping, store, stall>>
vars == <<raftVars, memberVars, plan, faults>>

--------------------------------------------------------------------------------

Claim == Zones \X Nat
Entry == [kind : {"command", "config", "raft"}, claims : SUBSET Claim]
Content == [at : Nat, holds : SUBSET Nat]
LogSnapshot == [filed : Nat, writer : {"store", "witness"}, content : Content]

ASSUME NoneAssumption == None \notin LogSnapshot

Commands == {i \in 1..Len(log) : log[i].kind = "command"}
\* A bug: the stall is recorded and never looked at.
NoStallAsked(m) == TRUE

NoStall(m) == stall[m] = None

\* The state machine refuses a batch whose commit claims a serial another
\* commit of the same zone already has: the unique index on (zone_id, serial_to).
Refused(content, i) ==
    \E j \in content.holds \ {0, i} : log[j].claims \cap log[i].claims # {}

\* A bug: an entry seen before is written again, and the index goes back to it.
ApplyAgain(content, i) ==
    [at |-> i,
     holds |-> IF log[i].kind = "command" THEN content.holds \cup {i} ELSE content.holds]

\* One transaction: nothing for an entry seen before, else the batch (once,
\* whatever the journal says) and the index together.
ApplyBatchAt(content, i) ==
    IF i <= content.at
      THEN content
      ELSE [at |-> i,
            holds |-> IF log[i].kind = "command" THEN content.holds \cup {i}
                                                 ELSE content.holds]

\* The entries the snapshot's position does not cover are replayed over it.
Restorable(s) == s.writer = "store" /\ s.content.at > 0

Empty == [at |-> 0, holds |-> {}]
Seed == [at |-> 0, holds |-> {0}]

Init ==
    /\ log = << >>
    /\ leader = None
    /\ joined = {}
    /\ founding = "single"
    /\ phase = [m \in Members |-> "up"]
    /\ has = [m \in Members |-> 0]
    /\ base = [m \in Members |-> 0]
    /\ delivered = [m \in Members |-> 0]
    /\ snap = [m \in Members |-> None]
    /\ snapping = [m \in Members |-> None]
    /\ store = [m \in Members |-> IF m = Founder THEN Seed ELSE Empty]
    /\ stall = [m \in Members |-> None]
    /\ plan = [m \in Members |-> {}]
    /\ faults = 0

\* Something goes wrong, within the bound.
Fault == faults < MaxFaults /\ faults' = faults + 1

--------------------------------------------------------------------------------
(***************************************************************************)
(* Founding and joining.                                                   *)
(***************************************************************************)

Propagate(kind, claims, by) ==
    /\ Len(log) < MaxLog
    /\ log' = Append(log, [kind |-> kind, claims |-> claims])
    /\ has' = [has EXCEPT ![by] = Len(log) + 1]

\* Node.Init up to the election: Replicating is refused, then Bootstrap.
Bootstrap ==
    /\ log = << >> /\ founding = "single" /\ phase[Founder] = "up"
    /\ Propagate("config", {}, Founder)
    /\ joined' = {Founder}
    /\ founding' = "founding"
    /\ UNCHANGED <<leader, memberVars, plan, faults>>

\* A bug: the first snapshot is written and the log in front of it kept.
FirstSnapshotKeepsLog ==
    /\ founding = "founding" /\ leader = Founder
    /\ delivered[Founder] = Len(log)
    /\ NoStall(Founder) \/ ~LeavesAtOnce
    /\ snap' = [snap EXCEPT ![Founder] =
                  [filed |-> Len(log), writer |-> "store", content |-> store[Founder]]]
    /\ founding' = "founded"
    /\ UNCHANGED <<log, leader, joined, has, phase, base, delivered, snapping,
                   store, stall, plan, faults>>

\* snapshotEverything: everything committed is handed over, the snapshot is
\* written and no log is left in front of it.
FirstSnapshot ==
    /\ founding = "founding" /\ leader = Founder
    /\ delivered[Founder] = Len(log)
    /\ NoStall(Founder) \/ ~LeavesAtOnce
    /\ snap' = [snap EXCEPT ![Founder] =
                  [filed |-> Len(log), writer |-> "store", content |-> store[Founder]]]
    /\ base' = [base EXCEPT ![Founder] = Len(log)]
    /\ founding' = "founded"
    /\ UNCHANGED <<log, leader, joined, has, phase, delivered, snapping,
                   store, stall, plan, faults>>

\* Init fails after Bootstrap: no election in time, or no snapshot written.
InitFails ==
    /\ ~Undisturbed
    /\ founding = "founding"
    /\ founding' = "failed"
    /\ Fault
    /\ UNCHANGED <<log, leader, joined, has, memberVars, plan>>

\* The leader answers a join: a configuration entry that lists the node.
Admit(m) ==
    /\ leader \in Members \ Witnesses
    /\ phase[leader] = "up" /\ NoStall(leader)
    /\ m \notin joined /\ phase[m] = "up"
    /\ Undisturbed => founding = "founded"
    /\ Propagate("config", {}, leader)
    /\ joined' = joined \cup {m}
    /\ UNCHANGED <<leader, founding, memberVars, plan, faults>>

--------------------------------------------------------------------------------
(***************************************************************************)
(* Raft.                                                                   *)
(***************************************************************************)

\* A member with the whole log takes the lead, from whoever led before.
Elect(m) ==
    /\ m \in joined /\ leader # m
    /\ phase[m] = "up" /\ has[m] = Len(log)
    /\ NoReturn => plan[m] = {}
    /\ leader' = m
    /\ IF leader = None THEN UNCHANGED faults ELSE Fault
    /\ UNCHANGED <<log, joined, founding, has, memberVars, plan>>

LoseLeader ==
    /\ leader # None
    /\ leader' = None
    /\ Fault
    /\ UNCHANGED <<log, joined, founding, has, memberVars, plan>>

\* An entry of Raft's own: the no-op of an election, the barrier of a Settle.
RaftEntry ==
    /\ leader # None
    /\ Cardinality({i \in 1..Len(log) : log[i].kind = "raft"}) < MaxRaft
    /\ Propagate("raft", {}, leader)
    /\ UNCHANGED <<leader, joined, founding, memberVars, plan, faults>>

\* The leader sends the next entry to a member that lacks it.
SendEntry(m) ==
    /\ leader \notin {None, m} /\ m \in joined /\ phase[m] = "up"
    /\ has[m] < Len(log) /\ base[leader] <= has[m]
    /\ has' = [has EXCEPT ![m] = @ + 1]
    /\ UNCHANGED <<log, leader, joined, founding, memberVars, plan, faults>>

--------------------------------------------------------------------------------
(***************************************************************************)
(* The state machine.                                                      *)
(***************************************************************************)

\* A bug: a batch that cannot be written is reported and passed over.
StopOnlyReports(m, i) == stall' = stall

\* fsm.stop: the first stall counts.
Stop(m, i) == stall' = [stall EXCEPT ![m] = IF @ = None THEN i ELSE @]

\* fsm.Apply and fsm.StoreConfiguration, as Raft calls them: its count moves
\* on in every case.  A batch that cannot be written, or read, is a stall; a
\* position that cannot be written is only reported.
Deliver(m) ==
    LET i == delivered[m] + 1
        applying == phase[m] = "up" /\ NoStall(m) /\ m \notin Witnesses
                      /\ log[i].kind # "raft"
        refused == i > store[m].at /\ log[i].kind = "command" /\ Refused(store[m], i)
    IN
    /\ phase[m] \in {"up", "closing"}
    /\ i <= has[m]
    /\ delivered' = [delivered EXCEPT ![m] = i]
    /\ \/ ~applying /\ UNCHANGED <<store, stall, faults>>
       \/ /\ applying /\ ~refused
          /\ store' = [store EXCEPT ![m] = ApplyBatchAt(@, i)]
          /\ UNCHANGED <<stall, faults>>
       \/ /\ applying /\ log[i].kind = "command"
          /\ Stop(m, i)
          /\ IF refused THEN UNCHANGED faults ELSE Fault
          /\ UNCHANGED store
       \/ /\ applying /\ log[i].kind = "config"
          /\ Fault
          /\ UNCHANGED <<store, stall>>
    /\ UNCHANGED <<raftVars, phase, base, snap, snapping, plan>>

\* fsm.Restore for a snapshot the leader sends to a member whose next entry is
\* compacted away.  The file is on disk before it is restored.
SendSnapshot(m) ==
    LET s == snap[leader] IN
    /\ leader \notin {None, m} /\ m \in joined /\ phase[m] = "up"
    /\ has[m] < base[leader] /\ s # None
    /\ snap' = [snap EXCEPT ![m] = s]
    /\ \/ /\ m \in Witnesses \/ (NoStall(m) /\ Restorable(s))
          /\ store' = IF m \in Witnesses THEN store
                                         ELSE [store EXCEPT ![m] = s.content]
          /\ has' = [has EXCEPT ![m] = s.filed]
          /\ base' = [base EXCEPT ![m] = s.filed]
          /\ delivered' = [delivered EXCEPT ![m] = s.filed]
          /\ UNCHANGED <<stall, faults>>
       \/ /\ m \notin Witnesses
          /\ \E i \in {0, s.content.at} : Stop(m, i)
          /\ IF NoStall(m) /\ Restorable(s) THEN Fault ELSE UNCHANGED faults
          /\ UNCHANGED <<store, has, base, delivered>>
    /\ UNCHANGED <<log, leader, joined, founding, phase, snapping, plan>>

\* fsm.Snapshot: Raft settles what the snapshot will be filed under ...
Snapshot(m) ==
    /\ phase[m] = "up" /\ m \in joined /\ snapping[m] = None
    /\ delivered[m] > base[m]
    /\ snap[m] # None => delivered[m] > snap[m].filed
    /\ LeavesAtOnce => NoStall(m)
    /\ snapping' = [snapping EXCEPT ![m] = delivered[m]]
    /\ UNCHANGED <<raftVars, phase, base, delivered, snap, store, stall, plan, faults>>

\* ... and fsmSnapshot.Persist writes what the store holds by then, under the
\* position read with it.  Raft then compacts some of the log before it.
Persist(m) ==
    /\ phase[m] = "up" /\ snapping[m] # None
    /\ \/ snap[m] # None /\ snap[m].filed >= snapping[m]
          /\ UNCHANGED <<snap, base>>
       \/ /\ snap[m] # None => snap[m].filed < snapping[m]
          /\ snap' = [snap EXCEPT ![m] =
                 [filed |-> snapping[m],
                  writer |-> IF m \in Witnesses THEN "witness" ELSE "store",
                  content |-> store[m]]]
          /\ base' \in {base, [base EXCEPT ![m] = snapping[m]]}
    /\ snapping' = [snapping EXCEPT ![m] = None]
    /\ UNCHANGED <<raftVars, phase, delivered, store, stall, plan, faults>>

\* Node.leave, woken by the stall: Raft stops here, the process goes on.
Leave(m) ==
    /\ phase[m] = "up" /\ ~NoStall(m)
    /\ phase' = [phase EXCEPT ![m] = "left"]
    /\ snapping' = [snapping EXCEPT ![m] = None]
    /\ leader' = IF leader = m THEN None ELSE leader
    /\ UNCHANGED <<log, joined, founding, has, base, delivered, snap, store,
                   stall, plan, faults>>

--------------------------------------------------------------------------------
(***************************************************************************)
(* A write at the leader: settled, planned, proposed, under one lock.      *)
(***************************************************************************)

\* The serial a zone has in this store: one commit has been written per step.
SerialOf(m, z) ==
    Cardinality({i \in store[m].holds \ {0} : \E c \in log[i].claims : c[1] = z})

\* A bug: the plan does not wait for what is committed and not handed over yet.
PlanUnsettled(m) ==
    /\ leader = m /\ m \notin Witnesses /\ phase[m] = "up" /\ NoStall(m)
    /\ m = Founder => founding # "founding"
    /\ plan[m] = {}
    /\ \E touched \in SUBSET Zones \ {{}} :
          plan' = [plan EXCEPT ![m] = {<<z, SerialOf(m, z) + 1>> : z \in touched}]
    /\ UNCHANGED <<raftVars, memberVars, faults>>

\* Node.Settle, then the plan: this member leads and has been handed everything
\* committed; the plan claims the next serial of each zone it reaches.
SettleAndPlan(m) ==
    /\ leader = m /\ m \notin Witnesses /\ phase[m] = "up" /\ NoStall(m)
    /\ m = Founder => founding # "founding"      \* Applier.Exclusive
    /\ plan[m] = {} /\ delivered[m] = Len(log)
    /\ \E touched \in SUBSET Zones \ {{}} :
          plan' = [plan EXCEPT ![m] = {<<z, SerialOf(m, z) + 1>> : z \in touched}]
    /\ UNCHANGED <<raftVars, memberVars, faults>>

\* Node.Propose on a member that has not left and, as Raft sees it, leads.
Propose(m) ==
    /\ plan[m] # {} /\ phase[m] = "up" /\ NoStall(m) /\ leader = m
    /\ Propagate("command", plan[m], m)
    /\ plan' = [plan EXCEPT ![m] = {}]
    /\ UNCHANGED <<leader, joined, founding, memberVars, faults>>

\* The same, refused: ErrNotLeader, or the stall.
Refuse(m) ==
    /\ plan[m] # {}
    /\ phase[m] # "up" \/ ~NoStall(m) \/ leader # m
    /\ plan' = [plan EXCEPT ![m] = {}]
    /\ UNCHANGED <<raftVars, memberVars, faults>>

--------------------------------------------------------------------------------
(***************************************************************************)
(* Stopping and starting.                                                  *)
(***************************************************************************)

\* What a process loses when it ends.
Forget(m) ==
    /\ phase' = [phase EXCEPT ![m] = "down"]
    /\ delivered' = [delivered EXCEPT ![m] = 0]
    /\ snapping' = [snapping EXCEPT ![m] = None]
    /\ stall' = [stall EXCEPT ![m] = None]
    /\ plan' = [plan EXCEPT ![m] = {}]
    /\ leader' = IF leader = m THEN None ELSE leader
    /\ founding' = IF m = Founder /\ founding = "founding" THEN "failed" ELSE founding

\* Node.Close: leadership is handed on and the context cancelled, so that
\* nothing more is applied; then the process ends.
Close(m) ==
    /\ m \in joined /\ phase[m] = "up"
    /\ Undisturbed => ~(m = Founder /\ founding = "founding")
    /\ phase' = [phase EXCEPT ![m] = "closing"]
    /\ Fault
    /\ leader' = IF leader = m THEN None ELSE leader
    /\ UNCHANGED <<log, joined, founding, has, base, delivered, snap, snapping,
                   store, stall, plan>>

\* A power cut takes a store back to where it was some transactions ago
\* (synchronous = NORMAL): each wrote one entry and its index, or restored a
\* snapshot over what came before.
Rewound(m, k) ==
    IF k = 0 /\ m # Founder
      THEN Empty
      ELSE [at |-> k, holds |-> {i \in store[m].holds : i <= k}]

\* A process ends, with the whole of its database or, on a power cut, less.
End(m) ==
    /\ m \in joined /\ phase[m] # "down"
    /\ Undisturbed => ~(m = Founder /\ founding = "founding")
    /\ Forget(m)
    /\ \E k \in 0..store[m].at :
          /\ k \in 1..Len(log) => log[k].kind # "raft"
          /\ store' = [store EXCEPT ![m] = Rewound(m, k)]
    /\ IF phase[m] \in {"closing", "left"} THEN UNCHANGED faults ELSE Fault
    /\ UNCHANGED <<log, joined, has, base, snap>>

\* A bug: a node starts without catching its store up with its log snapshot.
StartBehind(m) ==
    LET s == snap[m] IN
    /\ phase[m] = "down"
    /\ phase' = [phase EXCEPT ![m] = "up"]
    /\ IF s = None
         THEN UNCHANGED <<has, base, delivered>>
         ELSE /\ delivered' = [delivered EXCEPT ![m] = s.filed]
              /\ has' = [has EXCEPT ![m] = IF @ < s.filed THEN s.filed ELSE @]
              /\ base' = [base EXCEPT ![m] = IF has[m] < s.filed THEN s.filed ELSE @]
    /\ UNCHANGED <<log, leader, joined, founding, snap, snapping, store, stall, plan, faults>>

\* cluster.Start: catchUp restores the newest snapshot when the store is behind
\* it, and Raft replays what follows the position that one is filed under.  A
\* snapshot that cannot be restored keeps the node from starting.
Start(m) ==
    LET s == snap[m]
        behind == s # None /\ m \notin Witnesses /\ store[m].at < s.filed
    IN
    /\ phase[m] = "down"
    /\ behind => Restorable(s)
    /\ store' = IF behind THEN [store EXCEPT ![m] = s.content] ELSE store
    /\ phase' = [phase EXCEPT ![m] = "up"]
    /\ IF s = None
         THEN UNCHANGED <<has, base, delivered>>
         ELSE /\ delivered' = [delivered EXCEPT ![m] = s.filed]
              /\ has' = [has EXCEPT ![m] = IF @ < s.filed THEN s.filed ELSE @]
              /\ base' = [base EXCEPT ![m] = IF has[m] < s.filed THEN s.filed ELSE @]
    /\ UNCHANGED <<log, leader, joined, founding, snap, snapping, stall, plan, faults>>

--------------------------------------------------------------------------------

MemberNext(m) ==
    \/ Admit(m) \/ Elect(m) \/ SendEntry(m) \/ SendSnapshot(m)
    \/ Deliver(m) \/ Snapshot(m) \/ Persist(m) \/ Leave(m)
    \/ SettleAndPlan(m) \/ Propose(m) \/ Refuse(m)
    \/ Close(m) \/ End(m) \/ Start(m)

Next ==
    \/ Bootstrap \/ FirstSnapshot \/ InitFails \/ LoseLeader \/ RaftEntry
    \/ \E m \in Members : MemberNext(m)

Spec == Init /\ [][Next]_vars

\* A leader goes on replicating and Raft goes on handing entries over while both
\* ends run.  Nothing is assumed of elections, joins, writes or restarts.
Fairness ==
    \A m \in Members : WF_vars(SendEntry(m)) /\ WF_vars(SendSnapshot(m)) /\ WF_vars(Deliver(m))

FairSpec == Spec /\ Fairness

--------------------------------------------------------------------------------
(***************************************************************************)
(* Properties.                                                             *)
(***************************************************************************)

\* Every variable has its type.
TypeOK ==
    /\ log \in Seq(Entry)
    /\ leader \in Members \cup {None}
    /\ joined \subseteq Members
    /\ founding \in {"single", "founding", "founded", "failed"}
    /\ phase \in [Members -> {"up", "closing", "left", "down"}]
    /\ has \in [Members -> Nat]
    /\ base \in [Members -> Nat]
    /\ delivered \in [Members -> Nat]
    /\ snap \in [Members -> LogSnapshot \cup {None}]
    /\ snapping \in [Members -> Nat \cup {None}]
    /\ store \in [Members -> Content]
    /\ stall \in [Members -> Nat \cup {None}]
    /\ plan \in [Members -> SUBSET Claim]
    /\ faults \in Nat

\* What the log says a store at position n holds.
Upto(n) == {0} \cup {i \in Commands : i <= n}

\* The store of a member holds the batches of the log up to its applied index,
\* every one of them and no other, and with them what the founder brought in:
\* across retries, stalls, power cuts, replays and restored snapshots, no member
\* has "a state no other member has ever had" (fsm.Apply, catchUp, Restore).
StoreIsPrefix ==
    \A m \in Members \ Witnesses :
        \/ store[m] = Empty /\ m # Founder
        \/ store[m].at <= Len(log) /\ store[m].holds = Upto(store[m].at)

\* A log snapshot on disk can stand in for the entries up to the position Raft
\* files it under: what it holds is a prefix of the log at its own position,
\* and no batch lies between the two (fsmSnapshot.Persist).
SnapshotCovers ==
    \A m \in Members :
        (snap[m] # None /\ snap[m].writer = "store") =>
            LET s == snap[m] IN
            /\ s.content.holds = Upto(s.content.at)
            /\ \A i \in Commands : i <= s.filed => i <= s.content.at

\* No two entries of the log claim the same serial of a zone, so that no batch
\* is refused by the state machine of every member at once: "the plan is the
\* only place that failure is allowed to happen" (Applier.settle).
ClaimsAreUnique ==
    \A i, j \in Commands : i # j => log[i].claims \cap log[j].claims = {}

\* A write is never planned in ignorance of a committed one: while a plan can
\* still be proposed, the planning store holds every batch of the log.
PlanIsCurrent ==
    \A m \in Members :
        (plan[m] # {} /\ phase[m] = "up" /\ NoStall(m) /\ leader = m)
            => store[m].holds = Upto(Len(log))

\* A member that has stalled leaves its store and its index where they are for
\* as long as its process runs: nothing after a gap is applied, configuration
\* entries and snapshots included (fsm.Apply, StoreConfiguration, Restore).
NothingAfterAGap ==
    [][\A m \in Members : (stall[m] # None /\ phase'[m] # "down")
            => store'[m] = store[m] /\ stall'[m] = stall[m]]_vars

\* A member that keeps running and does not stall, under a leader that keeps
\* leading, comes to hold every batch of the log, whether entries or a snapshot
\* bring it there (fsm.Apply, fsm.Restore).
CatchesUp ==
    \A m \in Members \ Witnesses, l \in Members :
        <>[](leader = l /\ m \in joined /\ phase[m] = "up" /\ NoStall(m))
            => <>[](Commands \subseteq store[m].holds)

\* Every member that joins starts from what the founder held: a member whose
\* store has moved holds it (Node.Init: "every member that joins starts from
\* that snapshot").
FounderContentReaches ==
    \A m \in Members \ Witnesses : store[m].at > 0 => 0 \in store[m].holds

--------------------------------------------------------------------------------
(***************************************************************************)
(* What this implements.                                                   *)
(***************************************************************************)

R == INSTANCE ReplicatedStore WITH
        Stores <- Members \ Witnesses,
        First <- Founder,
        store <- [m \in Members \ Witnesses |-> store[m]],
        running <- {m \in Members \ Witnesses : phase[m] # "down"},
        stopped <- {m \in Members \ Witnesses : stall[m] # None}

\* The members with a store are replicas of one growing log: whatever is
\* retried, restored, stalled, cut off or started again, a step of a member is
\* a step of the log or of one replica along it (fsm.Apply, fsm.Restore,
\* catchUp).
Replicates == R!Spec

--------------------------------------------------------------------------------
(***************************************************************************)
(* The inductive invariant, for a founding nothing disturbs and a member   *)
(* that takes no snapshot between a stall and its leaving.                 *)
(***************************************************************************)

\* No batch lies after position a and up to position b.
NoGap(a, b) == \A i \in Commands : i <= b => i <= a

\* What a store at this position should hold, it holds.
Good(content) == content.at <= Len(log) /\ content.holds = Upto(content.at)

\* Nobody but the founder is a member before the first snapshot is there, and a
\* leader runs and has the whole log.
FoundedFirst ==
    /\ founding # "failed"
    /\ founding # "founded" => joined \subseteq {Founder}
    /\ founding = "founded" => base[Founder] > 0
    /\ joined # {} => Len(log) > 0
    /\ leader # None =>
          leader \in joined /\ phase[leader] = "up" /\ has[leader] = Len(log)

\* Raft's counters are in order, and only the founder has entries without a
\* snapshot under them.
InOrder(m) ==
    /\ delivered[m] <= has[m] /\ base[m] <= has[m] /\ has[m] <= Len(log)
    /\ phase[m] = "down" => delivered[m] = 0 /\ stall[m] = None
    /\ snapping[m] # None => 0 < snapping[m] /\ snapping[m] <= delivered[m]
    /\ m # Founder /\ has[m] > 0 => base[m] > 0

CountersInOrder == \A m \in Members : InOrder(m)

\* A snapshot covers what is compacted away and the batches up to where it is
\* filed.
SnapshotHolds(m) ==
    /\ base[m] > 0 => snap[m] # None
    /\ snap[m] # None =>
          /\ base[m] <= snap[m].filed
          /\ 0 < snap[m].filed /\ snap[m].filed <= Len(log)
          /\ snap[m].writer = "store" =>
                Good(snap[m].content) /\ NoGap(snap[m].content.at, snap[m].filed)

\* A store is good, and a running member that has not stalled lacks no batch
\* Raft has handed it, nor one a snapshot being written is to cover.
StoreHolds(m) ==
    /\ (m # Founder /\ store[m] = Empty) \/ Good(store[m])
    /\ phase[m] = "up" /\ m # Founder /\ has[m] > 0 => store[m].at > 0
    /\ phase[m] = "up" /\ NoStall(m) => NoGap(store[m].at, delivered[m])
    /\ phase[m] = "up" /\ snapping[m] # None => NoGap(store[m].at, snapping[m])

\* What every step of the cluster keeps: a member that lacks a batch before
\* Raft's count has stalled or is going, and nothing can stand in for a batch
\* that is not there.
Inductive ==
    /\ FoundedFirst
    /\ CountersInOrder
    /\ \A m \in Members : SnapshotHolds(m)
    /\ \A m \in Members \ Witnesses : StoreHolds(m)

================================================================================
