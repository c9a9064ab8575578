------------------------------- MODULE Listing -------------------------------
(***************************************************************************)
(* Listings read page by page while the table they list is written to.     *)
(*                                                                         *)
(* A page ends with a cursor holding the ordering key of its last row, and *)
(* the next request resumes after that key.  A command sends one request   *)
(* per page, so writes come between two pages; a handler that follows the  *)
(* cursor itself does so in one transaction and reads one state.           *)
(***************************************************************************)
EXTENDS Integers, Sequences, FiniteSets, SequencesExt

CONSTANTS
    Tables,             \* of {"zones", "records", "commits"}
    Sorts, Types, Ids,  \* the parts of a row's ordering key, positive
    pageSize, DefaultLimit, MaxLimit,
    MaxWrites           \* writes while a listing is read

VARIABLES
    table,      \* what is listed
    rows,       \* its rows
    there,      \* whether the zone whose records are listed exists
    spent,      \* the identifiers given out
    reader,     \* the listing under way
    stayed,     \* rows there, unchanged, since the listing began
    ever,       \* rows there at some time since
    writes

vars == <<table, rows, there, spent, reader, stayed, ever, writes>>

Marks == {"on", "off"}
NotGiven == 0
NoCursor == [kind |-> "none", key |-> <<0, 0, 0>>]
Idle == [at |-> "idle", view |-> FALSE, of |-> {}, name |-> NotGiven, typ |-> NotGiven, mark |-> "any",
         limit |-> 0, size |-> 0, cursor |-> NoCursor, out |-> <<>>]

Row == [sort : Sorts, typ : Types \cup {0}, id : Ids, mark : Marks]
OfTable(r) ==
    /\ (table = "records") = (r.typ # 0)
    /\ table = "records" => r.mark = "on"

key(r) == <<r.sort, r.typ, r.id>>
Less(a, b) ==
    \/ a[1] < b[1]
    \/ a[1] = b[1] /\ a[2] < b[2]
    \/ a[1] = b[1] /\ a[2] = b[2] /\ a[3] < b[3]

\* No two zones have one name, no two rows one identifier.
Sound(R) ==
    /\ \A r \in R : OfTable(r)
    /\ \A r, s \in R : r # s => r.id # s.id /\ (table = "zones" => r.sort # s.sort)

Init ==
    /\ table \in Tables
    /\ rows \in {R \in SUBSET {r \in Row : OfTable(r)} : Cardinality(R) <= 3 /\ Sound(R)}
    /\ there = TRUE
    /\ spent = {r.id : r \in rows}
    /\ reader = Idle
    /\ stayed = {} /\ ever = {} /\ writes = 0

-----------------------------------------------------------------------------
(* The store: one page of a listing. *)

EffectiveLimit(limit) == IF limit <= 0 THEN DefaultLimit ELSE IF limit < MaxLimit THEN limit ELSE MaxLimit

\* The zero cursor stands for the start of the listing.
decodeCursor(c, kind) == c = NoCursor \/ c.kind = kind

zoneConditions(f, r) ==
    /\ f.cursor # NoCursor => Less(f.cursor.key, key(r))
    /\ f.name # NotGiven => r.sort = f.name
    /\ f.mark # "any" => r.mark = f.mark

\* Mutant: the sort key is left out for every listing.
recordConditionsTypeFirst(f, r) ==
    /\ f.cursor # NoCursor =>
        Less(<<0, f.cursor.key[2], f.cursor.key[3]>>, <<0, r.typ, r.id>>)
    /\ f.name # NotGiven => r.sort = f.name
    /\ f.typ # NotGiven => r.typ = f.typ

\* At one name every row has one sort key, and it is left out of the comparison.
recordConditions(f, r) ==
    /\ f.cursor # NoCursor =>
        IF f.name = NotGiven THEN Less(f.cursor.key, key(r))
        ELSE Less(<<0, f.cursor.key[2], f.cursor.key[3]>>, <<0, r.typ, r.id>>)
    /\ f.name # NotGiven => r.sort = f.name
    /\ f.typ # NotGiven => r.typ = f.typ

commitConditions(f, r) ==
    /\ f.cursor # NoCursor => Less(key(r), f.cursor.key)
    /\ f.mark # "any" => r.mark = f.mark

\* Mutant: the cursor names the row after the page.
pageSkipping(sorted, kind, limit) ==
    IF Len(sorted) > limit
    THEN [items |-> SubSeq(sorted, 1, limit), next |-> [kind |-> kind, key |-> key(sorted[limit + 1])]]
    ELSE [items |-> sorted, next |-> NoCursor]

\* One row more than the page is read to learn whether another page follows.
page(sorted, kind, limit) ==
    IF Len(sorted) > limit
    THEN [items |-> SubSeq(sorted, 1, limit), next |-> [kind |-> kind, key |-> key(sorted[limit])]]
    ELSE [items |-> sorted, next |-> NoCursor]

ReadZones(R, f) ==
    page(SetToSortSeq({r \in R : zoneConditions(f, r)}, LAMBDA a, b : Less(key(a), key(b))),
         "zones", EffectiveLimit(f.size))

ReadRecords(R, f) ==
    page(SetToSortSeq({r \in R : recordConditions(f, r)}, LAMBDA a, b : Less(key(a), key(b))),
         "records", EffectiveLimit(f.size))

ReadCommits(R, f) ==
    page(SetToSortSeq({r \in R : commitConditions(f, r)}, LAMBDA a, b : Less(key(b), key(a))),
         "commits", EffectiveLimit(f.size))

-----------------------------------------------------------------------------
(* The requests. *)

Begin(f) ==
    /\ reader.at = "idle"
    /\ reader' = f
    /\ stayed' = rows /\ ever' = rows
    /\ UNCHANGED <<table, rows, there, spent, writes>>

\* A limit below the page size is the page size asked for.
Sized(f, limit) ==
    [f EXCEPT !.at = "reading", !.limit = limit,
              !.size = IF limit > 0 /\ limit < pageSize THEN limit ELSE pageSize]

\* `weg zone list`, --disabled on, off or not given.
runZoneList(mark, limit) ==
    /\ table = "zones"
    /\ Begin(Sized([Idle EXCEPT !.mark = mark], limit))

\* `weg record list`, and the resolving of a record by name and type.
runRecordList(name, typ, limit) ==
    /\ table = "records"
    /\ Begin(Sized([Idle EXCEPT !.name = name, !.typ = typ], limit))

\* `weg history list`, with or without what the server wrote by itself.
runHistoryList(mark, limit) ==
    /\ table = "commits"
    /\ Begin(Sized([Idle EXCEPT !.mark = mark], limit))

\* The handlers that read a zone's records of one type, or one RRset, to the end.
allOfType(typ) ==
    /\ table = "records"
    /\ Begin([Idle EXCEPT !.at = "reading", !.view = TRUE, !.of = rows, !.typ = typ, !.size = MaxLimit])

readRRsets(name, typ) ==
    /\ table = "records"
    /\ Begin([Idle EXCEPT !.at = "reading", !.view = TRUE, !.of = rows, !.name = name, !.typ = typ,
                          !.size = MaxLimit])

\* A page is taken in: cut at the limit, or the cursor is followed.
Follow(p) ==
    LET out == reader.out \o p.items
        full == reader.limit > 0 /\ Len(out) >= reader.limit
    IN  /\ reader' = [reader EXCEPT
                        !.out = IF full THEN SubSeq(out, 1, reader.limit) ELSE out,
                        !.cursor = p.next,
                        !.at = IF full \/ p.next = NoCursor THEN "done" ELSE "reading"]
        /\ UNCHANGED <<table, rows, there, spent, stayed, ever, writes>>

Fail ==
    /\ reader' = [reader EXCEPT !.at = "failed"]
    /\ UNCHANGED <<table, rows, there, spent, stayed, ever, writes>>

ListZones ==
    /\ table = "zones" /\ reader.at = "reading"
    /\ decodeCursor(reader.cursor, "zones")
    /\ Follow(ReadZones(rows, reader))

\* A zone that is not there is an error and not an empty page.
ListRecords ==
    /\ table = "records" /\ reader.at = "reading"
    /\ decodeCursor(reader.cursor, "records")
    /\ IF reader.view THEN Follow(ReadRecords(reader.of, reader))
       ELSE IF there THEN Follow(ReadRecords(rows, reader))
       ELSE Fail

ListCommits ==
    /\ table = "commits" /\ reader.at = "reading"
    /\ decodeCursor(reader.cursor, "commits")
    /\ Follow(ReadCommits(rows, reader))

-----------------------------------------------------------------------------
(* The writes that come between two pages. *)

Write(R) ==
    /\ reader.at = "reading"
    /\ writes < MaxWrites
    /\ writes' = writes + 1
    /\ rows' = R
    /\ Sound(R)
    /\ spent' = spent \cup {r.id : r \in R}
    /\ IF reader.view THEN UNCHANGED <<stayed, ever>>
       ELSE stayed' = stayed \cap R /\ ever' = ever \cup R
    /\ UNCHANGED <<table, reader>>

CreateZone(r) == table = "zones" /\ r.id \notin spent /\ Write(rows \cup {r}) /\ UNCHANGED there
UpdateZone(r, mark) ==
    table = "zones" /\ r \in rows /\ Write((rows \ {r}) \cup {[r EXCEPT !.mark = mark]}) /\ UNCHANGED there
InsertRecord(r) ==
    table = "records" /\ there /\ r.id \notin spent /\ Write(rows \cup {r}) /\ UNCHANGED there

\* A record keeps its identity when its name or its type changes.
UpdateRecord(r, sort, typ) ==
    /\ table = "records" /\ r \in rows
    /\ Write((rows \ {r}) \cup {[r EXCEPT !.sort = sort, !.typ = typ]})
    /\ UNCHANGED there

DeleteRecord(r) == table = "records" /\ r \in rows /\ Write(rows \ {r}) /\ UNCHANGED there

\* With a zone go its records; its commits stay.
DeleteZone(r) ==
    \/ table = "zones" /\ r \in rows /\ Write(rows \ {r}) /\ UNCHANGED there
    \/ table = "records" /\ there /\ there' = FALSE /\ Write({})

\* Stamped with the time of the member that planned it, which may lag another's.
AppendCommit(r) == table = "commits" /\ r.id \notin spent /\ Write(rows \cup {r}) /\ UNCHANGED there

Next ==
    \/ \E mark \in Marks \cup {"any"}, limit \in 0..3 :
        runZoneList(mark, limit) \/ runHistoryList(mark, limit)
    \/ \E name \in Sorts \cup {NotGiven}, typ \in Types \cup {NotGiven}, limit \in {0, 3} :
        runRecordList(name, typ, limit)
    \/ \E typ \in Types : allOfType(typ)
    \/ \E name \in Sorts, typ \in Types : readRRsets(name, typ)
    \/ ListZones
    \/ ListRecords
    \/ ListCommits
    \/ \E r \in Row : CreateZone(r) \/ InsertRecord(r) \/ AppendCommit(r)
    \/ \E r \in rows : DeleteRecord(r)
    \/ \E r \in Row : DeleteZone(r)
    \/ \E r \in rows, mark \in Marks : UpdateZone(r, mark)
    \/ \E r \in rows, sort \in Sorts, typ \in Types : UpdateRecord(r, sort, typ)

Spec == Init /\ [][Next]_vars

-----------------------------------------------------------------------------
Wanted(r) ==
    /\ reader.name # NotGiven => r.sort = reader.name
    /\ reader.typ # NotGiven => r.typ = reader.typ
    /\ reader.mark # "any" => r.mark = reader.mark

InOrder(a, b) == IF table = "commits" THEN Less(key(b), key(a)) ELSE Less(key(a), key(b))

(***************************************************************************)
(* A listing that came to its end has every row that was there throughout, *)
(* once and in order, and no row that was never there; a limit cuts the    *)
(* end and never the middle.  A handler's own listing is the state it      *)
(* read.  "Offset paging over a table being written to skips and           *)
(* duplicates rows" (sqlite/cursor.go); a record that moved while it was   *)
(* listed is not one that stayed.                                          *)
(***************************************************************************)
ListedOnce ==
    reader.at = "done" =>
        LET out == reader.out
            listed == {out[i] : i \in 1..Len(out)}
        IN  /\ \A i, j \in 1..Len(out) : i < j => InOrder(out[i], out[j])
            /\ \A r \in listed : r \in ever /\ Wanted(r)
            /\ \A r \in stayed : Wanted(r) =>
                \/ r \in listed
                \/ reader.limit > 0 /\ Len(out) = reader.limit /\ InOrder(out[Len(out)], r)
=============================================================================
