------------------------------- MODULE Editing -------------------------------
(***************************************************************************)
(* The commands that change a zone and its records, from what a person     *)
(* types to what is written.                                               *)
(*                                                                         *)
(* A command asks for the zone by name, for the record by name, type and   *)
(* perhaps data, may ask the person, and then names what it found by its   *)
(* identifier.  The handler reads what is to change, lays what was sent    *)
(* over it and hands the whole to the applier, which writes under the      *)
(* zone's lock; the answer is read back afterwards.  Other commands come   *)
(* in between any two of these.  One zone name, one owner name and type.   *)
(***************************************************************************)
EXTENDS Integers, Sequences, FiniteSets

CONSTANTS
    Commands,               \* the commands that may run at once
    Data, TTLs, None,       \* None is no data
    MaxZones, MaxRecords    \* zones and records made in all

VARIABLES
    zone,       \* the zone of the name, or NoZone
    records,    \* its records at the owner name and type
    zones, made,  \* zones and records made so far
    cmd         \* command -> what it has to do and what it has seen

vars == <<zone, records, zones, made, cmd>>

NoZone == [id |-> 0, ttl |-> 0, disabled |-> FALSE]
NoRecord == [id |-> 0, zone |-> 0, data |-> None, ttl |-> 0, disabled |-> FALSE, generated |-> FALSE]
NoPatch == [data |-> None, ttl |-> 0, disabled |-> "keep"]
Nothing == [todo |-> <<>>, patch |-> NoPatch, named |-> None, zone |-> 0, target |-> 0,
            whole |-> NoRecord, wholeZone |-> NoZone]

Init ==
    /\ zone = [id |-> 1, ttl |-> 1, disabled |-> FALSE]
    /\ records \in {{[NoRecord EXCEPT !.id = 1, !.zone = 1, !.data = d, !.ttl = 1, !.generated = g]} :
                        d \in Data, g \in BOOLEAN}
    /\ zones = 1 /\ made = 1
    /\ cmd = [c \in Commands |-> Nothing]

Keep == UNCHANGED <<zone, records, zones, made>>
At(c, step) == cmd[c].todo # <<>> /\ Head(cmd[c].todo) = step
Become(c, f) == cmd' = [cmd EXCEPT ![c] = f]
Onward(c, f) == Become(c, [f EXCEPT !.todo = Tail(@)])
End(c) == Become(c, Nothing)
Wrote(c) == Become(c, [Nothing EXCEPT !.todo = Tail(cmd[c].todo)])

-----------------------------------------------------------------------------
(* What a command does, in the order it does it; any of it may end it. *)

runZoneUpdate == <<"read zone", "update zone", "answer">>
runZoneDelete == <<"confirm", "delete zone", "answer">>
runRecordAdd == <<"read zone", "add", "answer">>
runRecordEdit == <<"resolve", "read", "update", "answer">>
runRecordDetach == <<"resolve", "read", "detach", "answer">>
runRecordDelete == <<"resolve", "confirm", "read", "delete", "answer">>

\* The address records are commits of their own, after the zone's.
runZoneCreate(addresses) == <<"create zone">> \o (IF addresses = 0 THEN <<>> ELSE <<"read zone", "add">>)
                                \o <<"answer">>

\* What was typed names the zone, which becomes an identifier first.
findZone(c, todo, patch, named) ==
    /\ cmd[c] = Nothing
    /\ zone # NoZone
    /\ Become(c, [Nothing EXCEPT !.todo = todo, !.patch = patch, !.named = named, !.zone = zone.id])
    /\ Keep

\* A patch holds the flags given and nothing else.
newZoneUpdateCommand(c, ttl) == findZone(c, runZoneUpdate, [NoPatch EXCEPT !.ttl = ttl], None)
newZoneSwitchCommand(c, disable) == findZone(c, runZoneUpdate, [NoPatch EXCEPT !.disabled = disable], None)
newZoneDeleteCommand(c) == findZone(c, runZoneDelete, NoPatch, None)
newZoneCreateCommand(c, addresses) ==
    /\ cmd[c] = Nothing
    /\ \E d \in IF addresses = 0 THEN {None} ELSE Data :
         Become(c, [Nothing EXCEPT !.todo = runZoneCreate(addresses), !.patch.data = d])
    /\ Keep
newRecordAddCommand(c, data) == findZone(c, runRecordAdd, [NoPatch EXCEPT !.data = data], None)
newRecordUpdateCommand(c, named) ==
    \/ \E d \in Data : findZone(c, runRecordEdit, [NoPatch EXCEPT !.data = d], named)
    \/ \E ttl \in TTLs : findZone(c, runRecordEdit, [NoPatch EXCEPT !.ttl = ttl], named)
newRecordSwitchCommand(c, disable, named) ==
    findZone(c, runRecordEdit, [NoPatch EXCEPT !.disabled = disable], named)
newRecordDetachCommand(c, named) == findZone(c, runRecordDetach, NoPatch, named)
newRecordDeleteCommand(c, named) == findZone(c, runRecordDelete, NoPatch, named)

-----------------------------------------------------------------------------
(* Which record was meant, and whether. *)

\* By its data, or as the only one; of several none is guessed.
pickRecord(found, named) ==
    IF named # None THEN {r \in found : r.data = named}
    ELSE IF Cardinality(found) = 1 THEN found ELSE {}

resolveRecord(c) ==
    LET picked == pickRecord({r \in records : r.zone = cmd[c].zone}, cmd[c].named)
    IN  /\ At(c, "resolve")
        /\ IF picked = {} THEN End(c)
           ELSE \E r \in picked : Onward(c, [cmd[c] EXCEPT !.target = r.id, !.named = None])
        /\ Keep

confirm(c, yes) ==
    /\ At(c, "confirm")
    /\ IF yes THEN Onward(c, cmd[c]) ELSE End(c)
    /\ Keep

-----------------------------------------------------------------------------
(* The handlers: read, lay what was sent over it, apply, read back. *)

Sent(was, ttl) == IF ttl = 0 THEN was ELSE ttl
Switched(was, disable) == IF disable = "keep" THEN was ELSE disable = "yes"

patchZone(z, p) == [z EXCEPT !.ttl = Sent(@, p.ttl), !.disabled = Switched(@, p.disabled)]

patchRecord(r, p) ==
    [r EXCEPT !.ttl = Sent(@, p.ttl), !.disabled = Switched(@, p.disabled),
              !.data = IF p.data = None THEN @ ELSE p.data]

\* A record without a TTL gets the zone's.
recordFrom(z, p) == [NoRecord EXCEPT !.zone = z.id, !.data = p.data, !.ttl = z.ttl]

recordByID(id) == {r \in records : r.id = id}

zoneByID(c) ==
    /\ At(c, "read zone")
    /\ IF zone.id # cmd[c].zone THEN End(c)
       ELSE Onward(c, IF cmd[c].patch.data = None
                      THEN [cmd[c] EXCEPT !.wholeZone = patchZone(zone, cmd[c].patch)]
                      ELSE [cmd[c] EXCEPT !.whole = recordFrom(zone, cmd[c].patch)])
    /\ Keep

ReadRecord(c) ==
    /\ At(c, "read")
    /\ \/ recordByID(cmd[c].target) = {} /\ End(c)
       \/ \E r \in recordByID(cmd[c].target) :
            Onward(c, IF cmd[c].patch = NoPatch THEN cmd[c]
                      ELSE [cmd[c] EXCEPT !.whole = patchRecord(r, cmd[c].patch)])
    /\ Keep

Duplicate(r) == \E s \in records : s.id # r.id /\ s.data = r.data
Refuse(c) == End(c) /\ Keep

\* Unless the name is taken.
CreateZone(c) ==
    /\ At(c, "create zone")
    /\ \/ zone # NoZone /\ Refuse(c)
       \/ /\ zone = NoZone /\ zones < MaxZones
          /\ zone' = [id |-> zones + 1, ttl |-> 1, disabled |-> FALSE]
          /\ zones' = zones + 1
          /\ Onward(c, [cmd[c] EXCEPT !.zone = zones + 1])
          /\ UNCHANGED <<records, made>>

\* The whole zone as it was read, with what was sent laid over it.
UpdateZone(c) ==
    /\ At(c, "update zone")
    /\ \/ zone.id # cmd[c].zone /\ Refuse(c)
       \/ /\ zone.id = cmd[c].zone
          /\ zone' = cmd[c].wholeZone
          /\ Wrote(c)
          /\ UNCHANGED <<records, zones, made>>

\* Mutant: the zone is deleted by the name it was found under.
DeleteZoneOfName(c) ==
    /\ At(c, "delete zone")
    /\ zone # NoZone
    /\ zone' = NoZone /\ records' = {}
    /\ Wrote(c)
    /\ UNCHANGED <<zones, made>>

DeleteZone(c) ==
    /\ At(c, "delete zone")
    /\ \/ zone.id # cmd[c].zone /\ Refuse(c)
       \/ /\ zone.id = cmd[c].zone
          /\ zone' = NoZone /\ records' = {}
          /\ Wrote(c)
          /\ UNCHANGED <<zones, made>>

CreateRecord(c) ==
    LET r == [cmd[c].whole EXCEPT !.id = made + 1] IN
    /\ At(c, "add")
    /\ \/ (zone.id # r.zone \/ Duplicate(r)) /\ Refuse(c)
       \/ /\ zone.id = r.zone /\ ~Duplicate(r) /\ made < MaxRecords
          /\ records' = records \cup {r}
          /\ made' = made + 1
          /\ Wrote(c)
          /\ UNCHANGED <<zone, zones>>

Authored(id) == \E r \in recordByID(id) : ~r.generated

\* A generated record is not edited; an edited one keeps where it came from.
UpdateRecord(c) ==
    LET r == cmd[c].whole IN
    /\ At(c, "update")
    /\ \/ (~Authored(r.id) \/ Duplicate(r)) /\ Refuse(c)
       \/ /\ Authored(r.id) /\ ~Duplicate(r)
          /\ records' = (records \ recordByID(r.id)) \cup {[r EXCEPT !.generated = FALSE]}
          /\ Wrote(c)
          /\ UNCHANGED <<zone, zones, made>>

\* One that is authored already stays as it is.
DetachRecord(c) ==
    /\ At(c, "detach")
    /\ \/ recordByID(cmd[c].target) = {} /\ Refuse(c)
       \/ \E r \in recordByID(cmd[c].target) :
          /\ records' = (records \ {r}) \cup {[r EXCEPT !.generated = FALSE]}
          /\ Wrote(c)
          /\ UNCHANGED <<zone, zones, made>>

DeleteRecord(c) ==
    /\ At(c, "delete")
    /\ \/ ~Authored(cmd[c].target) /\ Refuse(c)
       \/ /\ Authored(cmd[c].target)
          /\ records' = records \ recordByID(cmd[c].target)
          /\ Wrote(c)
          /\ UNCHANGED <<zone, zones, made>>

\* The answer holds the record as it stands; by then it may be gone.
recordWritten(c) == At(c, "answer") /\ End(c) /\ Keep

Next ==
    \E c \in Commands :
        \/ \E ttl \in TTLs : newZoneUpdateCommand(c, ttl)
        \/ \E disable \in {"yes", "no"} :
            \/ newZoneSwitchCommand(c, disable)
            \/ \E named \in Data \cup {None} : newRecordSwitchCommand(c, disable, named)
        \/ newZoneDeleteCommand(c)
        \/ \E addresses \in 0..1 : newZoneCreateCommand(c, addresses)
        \/ \E data \in Data : newRecordAddCommand(c, data)
        \/ \E named \in Data \cup {None} :
            newRecordUpdateCommand(c, named) \/ newRecordDetachCommand(c, named)
                \/ newRecordDeleteCommand(c, named)
        \/ resolveRecord(c) \/ \E yes \in BOOLEAN : confirm(c, yes)
        \/ zoneByID(c) \/ ReadRecord(c)
        \/ CreateZone(c) \/ UpdateZone(c) \/ DeleteZone(c)
        \/ CreateRecord(c) \/ UpdateRecord(c) \/ DetachRecord(c) \/ DeleteRecord(c)
        \/ recordWritten(c)

Spec == Init /\ [][Next]_vars

-----------------------------------------------------------------------------
(***************************************************************************)
(* What a command writes, it writes to the zone that had the name when it  *)
(* was looked for and to the record it picked there: a zone deleted and    *)
(* made again under the name, or a record put in the place of the one      *)
(* shown, is not touched (cli.findZone, resolveRecord, confirm, and the    *)
(* handlers' identifiers).                                                 *)
(***************************************************************************)
ActsOnWhatItNamed ==
    \A c \in Commands : cmd'[c] # cmd[c] =>
        /\ zone' # zone /\ zone # NoZone => zone.id = cmd[c].zone
        /\ \A r \in records \ records' :
            r.zone = cmd[c].zone /\ (At(c, "delete zone") \/ r.id = cmd[c].target)
        /\ \A r \in records' \ records : r.zone = cmd[c].zone /\ r.zone = zone.id

(***************************************************************************)
(* "Only the flags given are changed; everything else is left as it was"   *)
(* (`weg zone update`, cli/zone_edit.go), for a zone and for a record.     *)
(***************************************************************************)
RestIsKept ==
    \A c \in Commands : cmd'[c] # cmd[c] =>
        LET p == cmd[c].patch IN
        /\ At(c, "update zone") =>
            /\ p.ttl = 0 => zone'.ttl = zone.ttl
            /\ p.disabled = "keep" => zone'.disabled = zone.disabled
        /\ At(c, "update") => \A r \in records, s \in records' : r.id = s.id =>
            /\ p.ttl = 0 => s.ttl = r.ttl
            /\ p.data = None => s.data = r.data
            /\ p.disabled = "keep" => s.disabled = r.disabled
=============================================================================
