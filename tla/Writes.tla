-------------------------------- MODULE Writes --------------------------------
(***************************************************************************)
(* The write path on five servers: one whose reverse zone comes and goes   *)
(* over two addresses, and four with a classless child of the reverse      *)
(* zone, whose entries generate in turn: under last-wins, under the other  *)
(* policies, with automation switched off and on, and with rollbacks.  A   *)
(* behaviour is a behaviour of one of them.                                *)
(***************************************************************************)
EXTENDS Integers

CONSTANTS Writers, Hosts, MaxRecords

VARIABLES
    server,     \* the server this is
    zones, auto, policy, recs, told, mark, work

vars == <<server, zones, auto, policy, recs, told, mark, work>>

Plain == INSTANCE WritePath WITH
    Addrs <- {1, 2}, InChild <- {}, Policies <- {"last-wins"}, Switched <- {}, MaxId <- 4,
    Ops <- {"add", "pair", "update", "delete", "canonical", "reconcile", "create", "remove"}
Latest == INSTANCE WritePath WITH
    Addrs <- {1}, InChild <- {1}, Policies <- {"last-wins"}, Switched <- {}, MaxId <- 5,
    Ops <- {"add", "ptr", "update", "delete", "detach", "canonical", "create", "remove"}
Child == INSTANCE WritePath WITH
    Addrs <- {1}, InChild <- {1}, Policies <- {"first-wins", "multi", "reject"},
    Switched <- {}, MaxId <- 5,
    Ops <- {"add", "pair", "ptr", "update", "delete", "detach", "reconcile", "create"}
Switching == INSTANCE WritePath WITH
    Addrs <- {1}, InChild <- {1}, Policies <- {"first-wins"}, Switched <- {"F"}, MaxId <- 4,
    Ops <- {"add", "update", "delete", "reconcile", "create", "remove"}
Restoring == INSTANCE WritePath WITH
    Addrs <- {1}, InChild <- {1}, Policies <- {"first-wins"}, Switched <- {}, MaxId <- 4,
    Ops <- {"add", "update", "delete", "detach", "create", "rollback"}

Init ==
    \/ server = "plain" /\ Plain!Init
    \/ server = "latest" /\ Latest!Init
    \/ server = "child" /\ Child!Init
    \/ server = "switching" /\ Switching!Init
    \/ server = "restoring" /\ Restoring!Init

Next ==
    \/ server = "plain" /\ Plain!Next /\ UNCHANGED server
    \/ server = "latest" /\ Latest!Next /\ UNCHANGED server
    \/ server = "child" /\ Child!Next /\ UNCHANGED server
    \/ server = "switching" /\ Switching!Next /\ UNCHANGED server
    \/ server = "restoring" /\ Restoring!Next /\ UNCHANGED server

Spec == Init /\ [][Next]_vars

\* Replaying a zone's journal gives the zone, but for what is left to the
\* database (WritePath!OnlyCascadesAreSilent).
OnlyCascadesAreSilent == Plain!OnlyCascadesAreSilent
\* A generated entry goes on saying what its source says, and there is one
\* generated name to an address, except under multi (WritePath!KeptInStep).
KeptInStep == Plain!KeptInStep
\* A record somebody wrote is only changed by a command for its own zone
\* (WritePath!HandWrittenStays).
HandWrittenStays == Plain!HandWrittenStays

================================================================================
