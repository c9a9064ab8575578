------------------------------- MODULE Serving -------------------------------
(***************************************************************************)
(* The parts of a running server that serve: publishing, the sockets, and  *)
(* telling the secondaries.                                                *)
(*                                                                         *)
(* No two of them share a variable, so what holds of one is decided by its *)
(* own steps.  A behaviour here is therefore a behaviour of one part with  *)
(* the others as they start; the states are a sum and not a product.       *)
(***************************************************************************)
EXTENDS Integers, FiniteSets

CONSTANTS
    Names, Copies, Writers, MaxWrites, Overtakes,                   \* Publisher
    Sockets, Conns, MaxTCPClients, MaxTransfers, Windows,           \* Server
    Secondaries, Tellers, Attempts, MaxNotices, MaxVersions         \* Telling

VARIABLES
    part,   \* the part that runs
    clock, store, copy, owed, mu, next, stale,
    shut, open, accepting, reader, at, deadline, conns, slots, transfers, unanswered,
    published, versions, owes,
    targets, telling, pending, sending, reading, wire, closed, count,
    asked, pair, answering, standing, crossed, haunted

\* What the proofs need of the constants.
ASSUME ServingAssumption ==
    /\ IsFiniteSet(Conns)
    /\ MaxTCPClients \in Nat /\ MaxTransfers \in Nat
    /\ Names \cap Copies = {}

P == INSTANCE Publisher
S == INSTANCE Server
T == INSTANCE Telling

publisher == <<clock, store, copy, owed, mu, next, stale>>
server == <<shut, open, accepting, reader, at, deadline, conns, slots, transfers, unanswered>>
teller == <<published, versions, owes, targets, telling, pending, sending, reading, wire, closed,
            count, asked, pair, answering, standing, crossed, haunted>>
vars == <<part, publisher, server, teller>>

\* At rest the notifier is closed, and so asks nothing of the scheduler.
Init ==
    /\ part \in {"publisher", "server", "telling"}
    /\ P!Init
    /\ S!Init
    /\ T!Init
    /\ closed = (part # "telling")

Publishing == part = "publisher" /\ P!Next /\ UNCHANGED <<part, server, teller>>
Answering == part = "server" /\ S!Next /\ UNCHANGED <<part, publisher, teller>>
Telling == part = "telling" /\ T!Next /\ UNCHANGED <<part, publisher, server>>

Next == Publishing \/ Answering \/ Telling

Spec == Init /\ [][Next]_vars /\ P!Fairness /\ S!Fairness /\ T!Fairness

-----------------------------------------------------------------------------
\* Publisher: what is answered from is current, being rebuilt, or reported.
CopiesCurrent == P!CopiesCurrent

\* Publisher: every committed change is answered from in the end, or reported.
ChangeReaches == P!ChangeReaches

\* Server: slots are held exactly while they are used.
SlotsExact == S!SlotsExact

\* Server: after the shutdown no connection waits out an idle period.
Woken == S!Woken

\* Server: after the shutdown every goroutine ends.
Drains == S!Drains

\* Notifier and prober: a pair that is not asked has a notification
\* outstanding, and a gauge speaks of a pair that is there, but where two
\* hand-overs crossed in one of the ways the code leaves open.
PairsAccounted == T!SuppressedIsTold /\ T!StandingIsOfAPair

\* Notifier and prober: every notification ends, and no pair goes unasked for
\* good.
NobodyForgotten == T!NoticesEnd /\ T!PairsAreAsked
=============================================================================
