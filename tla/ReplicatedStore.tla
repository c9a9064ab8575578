--------------------------- MODULE ReplicatedStore ---------------------------
(***************************************************************************)
(* What a cluster promises of its stores: there is one log, it only grows, *)
(* and a store is at every moment what some beginning of it makes.  While  *)
(* its process runs a store follows the log, or is replaced by another     *)
(* member's; one that has stopped at an entry stays as it is.  When its    *)
(* process ends it may find itself further back, and it is caught up when  *)
(* the process starts.  Nothing is said of how this is brought about.      *)
(***************************************************************************)
EXTENDS Naturals, Sequences

CONSTANTS
    Stores,     \* the members that have one
    First,      \* the member whose content the log starts from
    Entry       \* what the log may hold

VARIABLES
    log,        \* the entries, those of kind "command" with a batch each
    store,      \* member -> the position it is at and the batches it holds
    running,    \* the members whose process runs
    stopped     \* those that have stopped at an entry

vars == <<log, store, running, stopped>>

\* What the log up to position n makes, and a store nothing was written to.
Prefix(n) == [at |-> n, holds |-> {0} \cup {i \in 1 .. Len(log) : log[i].kind = "command" /\ i <= n}]
Unwritten == [at |-> 0, holds |-> {}]

Init ==
    /\ log = << >>
    /\ store = [m \in Stores |-> IF m = First THEN Prefix(0) ELSE Unwritten]
    /\ running = Stores
    /\ stopped = {}

Commit ==
    /\ Len(log') = Len(log) + 1
    /\ log'[Len(log')] \in Entry
    /\ log' = Append(log, log'[Len(log')])
    /\ UNCHANGED <<store, running, stopped>>

\* The store goes on to a later position, with every batch in between, or is
\* replaced by what another member held, which may be of an earlier one.
Follow(m) ==
    /\ store'[m].at \in (1 .. Len(log)) \ {store[m].at}
    /\ m \in running \ stopped
    /\ store' = [store EXCEPT ![m] = Prefix(store'[m].at)]
    /\ UNCHANGED <<log, running, stopped>>

StopAt(m) ==
    /\ m \in running
    /\ stopped' = stopped \cup {m}
    /\ UNCHANGED <<log, store, running>>

\* The process ends, and the store is what it was at this or an earlier position.
End(m) ==
    /\ m \in running
    /\ running' = running \ {m}
    /\ stopped' = stopped \ {m}
    /\ \E n \in 0 .. store[m].at :
          store' = [store EXCEPT ![m] = IF n = 0 /\ m # First THEN Unwritten ELSE Prefix(n)]
    /\ UNCHANGED log

\* The process starts, from its store or from a later one.
Start(m) ==
    /\ m \notin running
    /\ running' = running \cup {m}
    /\ \/ UNCHANGED store
       \/ \E n \in 1 .. Len(log) : store' = [store EXCEPT ![m] = Prefix(n)]
    /\ UNCHANGED <<log, stopped>>

Next ==
    \/ Commit
    \/ \E m \in Stores : Follow(m) \/ StopAt(m) \/ End(m) \/ Start(m)

Spec == Init /\ [][Next]_vars
==============================================================================
