------------------------------- MODULE Files ------------------------------
(***************************************************************************)
(* A zone as a file (zonefile/zonefile.go, zonefile/write.go,              *)
(* api/transfer.go): what a file must be to be read, which of its records  *)
(* an import keeps, and what an export writes.  A zone arrives from a      *)
(* file, its records are switched off and on, and it is written out again. *)
(* A name is the sequence of its labels, the outermost first; types and    *)
(* classes are a few of each sort the code tells apart.                    *)
(***************************************************************************)
EXTENDS Integers, Sequences, FiniteSets, SequencesExt

CONSTANTS
  MaxTTL,       \* zone.MaxTTL
  MaxSerial,    \* the last serial, above MaxTTL
  MaxRecords,   \* zonefile.DefaultMaxRecords
  MaxLines      \* bound on the lines of a file

VARIABLES
  held,    \* the records of the zone, each with whether it is switched off
  soa      \* its start of authority and apex, or NoZone

vars == <<held, soa>>

Origin == <<"z">>
NoZone == [name |-> <<>>, serial |-> 0, ttl |-> 0]

----------------------------------------------------------------------------
(* The lexer, which is a library's: lines with relative names and without  *)
(* TTLs are completed from the directives, the options and earlier lines.  *)

Inherit == -1     \* a line without a TTL
Line(rel, name, class, type, ttl, data) ==
  [rel |-> rel, name |-> name, class |-> class, type |-> type, ttl |-> ttl, data |-> data]

\* The TTL a line without one gets: the directive's, or the last one written.
ttlOf(f, i) ==
  LET given == {j \in 1 .. i : f.lines[j].ttl # Inherit}
  IN IF f.lines[i].ttl # Inherit THEN f.lines[i].ttl
     ELSE IF f.ttl # Inherit THEN f.ttl
     ELSE IF given # {} THEN f.lines[CHOOSE j \in given : \A k \in given : k <= j].ttl
     ELSE Inherit

Lexed(f, origin) ==
  [i \in DOMAIN f.lines |->
     [f.lines[i] EXCEPT !.rel = FALSE, !.ttl = ttlOf(f, i),
        !.name = IF f.lines[i].rel THEN (IF f.origin # <<>> THEN f.origin ELSE origin) \o @ ELSE @]]

----------------------------------------------------------------------------
\* Storable, of a type and of a class: not one that lives in messages only.
IsDNSSEC(t) == t = "DS"
TypeStorable(t) == t \notin {"ANY"}
ClassStorable(c) == c \notin {"ANY"}

\* validateHeader and Validate: what a record may be on its own.
RecordValid(l) ==
  /\ ClassStorable(l.class)
  /\ TypeStorable(l.type) /\ ~IsDNSSEC(l.type) /\ l.type # "SOA"
  /\ l.ttl \in 0 .. MaxTTL

\* soaFrom: its TTL and its counters have a ceiling that its serial has not.
soaFrom(l) == l.ttl \in 0 .. MaxTTL /\ l.data \in 0 .. MaxSerial

SOAs(lines) == SelectSeq(lines, LAMBDA l : l.type = "SOA")
Others(lines) == SelectSeq(lines, LAMBDA l : l.type # "SOA")

Refused == [ok |-> FALSE, origin |-> <<>>, soa |-> NoZone, records |-> <<>>]

\* Mutant: records may lie anywhere.
ParseAnywhere(f, origin) ==
  LET lines == Lexed(f, origin)
      soas == SOAs(lines)
      recs == Others(lines)
  IN IF \/ Len(soas) # 1 \/ Len(recs) > MaxRecords
        \/ ~soaFrom(soas[1]) \/ \E i \in DOMAIN recs : ~RecordValid(recs[i])
     THEN Refused
     ELSE [ok |-> TRUE, origin |-> soas[1].name,
           soa |-> [name |-> soas[1].name, serial |-> soas[1].data, ttl |-> soas[1].ttl], records |-> recs]

\* One SOA, which says which zone this is; every record one the model holds,
\* not too many of them, and none outside the zone.
Parse(f, origin) ==
  LET lines == Lexed(f, origin)
      soas == SOAs(lines)
      recs == Others(lines)
  IN IF \/ Len(soas) # 1 \/ Len(recs) > MaxRecords
        \/ ~soaFrom(soas[1]) \/ \E i \in DOMAIN recs : ~RecordValid(recs[i])
        \/ \E i \in DOMAIN recs : ~IsPrefix(soas[1].name, recs[i].name)
     THEN Refused
     ELSE [ok |-> TRUE, origin |-> soas[1].name,
           soa |-> [name |-> soas[1].name, serial |-> soas[1].data, ttl |-> soas[1].ttl], records |-> recs]

----------------------------------------------------------------------------
(* The import.                                                             *)

Cuts(apex, recs) == {recs[i].name : i \in {j \in DOMAIN recs : recs[j].type = "NS" /\ recs[j].name # apex}}

\* keepAnswerable: at a delegation only its NS records.
keepAnswerable(apex, recs) == SelectSeq(recs, LAMBDA r : r.name \in Cuts(apex, recs) => r.type = "NS")

\* ValidateRRset: one TTL, and nothing twice; and an NS at the apex.
SameSet(r, s) == r.name = s.name /\ r.class = s.class /\ r.type = s.type
ValidateZone(apex, recs) ==
  /\ \A i, j \in DOMAIN recs : i # j /\ SameSet(recs[i], recs[j]) => recs[i].ttl = recs[j].ttl /\ recs[i].data # recs[j].data
  /\ \E i \in DOMAIN recs : recs[i].name = apex /\ recs[i].type = "NS"

Stored(r) == [name |-> r.name, class |-> r.class, type |-> r.type, ttl |-> r.ttl, data |-> r.data, disabled |-> FALSE]

\* Import: the zone it would make, from what was read.
Imported(c) ==
  LET kept == keepAnswerable(c.origin, c.records)
  IN IF c.ok /\ ValidateZone(c.origin, kept)
     THEN [ok |-> TRUE, soa |-> c.soa, records |-> {Stored(kept[i]) : i \in DOMAIN kept},
           skipped |-> Len(c.records) - Len(kept)]
     ELSE [ok |-> FALSE, soa |-> NoZone, records |-> {}, skipped |-> 0]

----------------------------------------------------------------------------
(* The export.                                                             *)

TypeNumber(t) == CASE t = "A" -> 1 [] t = "NS" -> 2 [] t = "TYPE65280" -> 65280

\* compareRecords: by name, then type, then data.
Before(r, s) ==
  IF r.name # s.name THEN IsStrictPrefix(r.name, s.name)
  ELSE IF r.type # s.type THEN TypeNumber(r.type) < TypeNumber(s.type)
  ELSE r.data < s.data

\* String: one record as one line, nothing left to be inherited.
String(r) == Line(FALSE, r.name, r.class, r.type, r.ttl, r.data)

\* Mutant: the serial is printed as the TTLs are, which stop sooner.
WriteSerialAsTTL(z, recs) ==
  [origin |-> z.name, ttl |-> z.ttl,
   lines |-> <<Line(FALSE, z.name, "IN", "SOA", z.ttl, IF z.serial > MaxTTL THEN MaxTTL ELSE z.serial)>>
               \o LET on == SetToSortSeq({r \in recs : ~r.disabled}, Before)
                  IN [i \in DOMAIN on |-> String(on[i])]]

\* The SOA, then what is switched on, in canonical order.
Write(z, recs) ==
  [origin |-> z.name, ttl |-> z.ttl,
   lines |-> <<Line(FALSE, z.name, "IN", "SOA", z.ttl, z.serial)>>
               \o LET on == SetToSortSeq({r \in recs : ~r.disabled}, Before)
                  IN [i \in DOMAIN on |-> String(on[i])]]

----------------------------------------------------------------------------
(* Files there may be: some SOA, records with and without a TTL, relative  *)
(* and absolute names, repeated, of types and classes that are refused.    *)

LineTTLs == {Inherit, 1, MaxTTL, MaxTTL + 1}

Lines ==
  {Line(FALSE, Origin, "IN", "SOA", t, s) : t \in LineTTLs, s \in {1, MaxSerial}}
    \cup {Line(rel, n, "IN", ty, t, d) : rel \in BOOLEAN, n \in {<<>>, <<"w">>}, ty \in {"A"}, t \in {Inherit, 1}, d \in {1, 2}}
    \cup {Line(rel, n, "IN", "NS", Inherit, 1) : rel \in BOOLEAN, n \in {<<>>, <<"w">>}}
    \cup {Line(FALSE, Origin, "IN", ty, 1, 1) : ty \in {"NS", "DS", "ANY", "TYPE65280"}}
    \cup {Line(FALSE, Origin, c, "A", 1, 1) : c \in {"CH", "ANY"}}

FilesOf(n) ==
  {[origin |-> o, ttl |-> t, lines |-> l] : o \in {<<>>, Origin}, t \in {Inherit, 1}, l \in [1 .. n -> Lines]}

\* ExportZone: all of it, read in one view of the store.
ExportZone == Write(soa, held)

\* ImportZone, for a zone that is not there yet.
ImportZone(f, origin) ==
  LET zone == Imported(Parse(f, origin))
  IN /\ soa = NoZone
     /\ zone.ok
     /\ soa' = zone.soa
     /\ held' = zone.records

\* A record is switched off or on.
Switch(r) ==
  /\ held' = (held \ {r}) \cup {[r EXCEPT !.disabled = ~@]}
  /\ UNCHANGED soa

Init == held = {} /\ soa = NoZone

Next ==
  \/ soa = NoZone /\ \E n \in 1 .. MaxLines : \E f \in FilesOf(n), origin \in {<<>>, Origin} : ImportZone(f, origin)
  \/ \E r \in held : Switch(r)

Spec == Init /\ [][Next]_vars

----------------------------------------------------------------------------
TypeOK == soa = NoZone => held = {}

\* A zone written out and read back, with whatever origin, on a server that has
\* not got it, is the zone as it answers: the same serial, the records that are
\* switched on and no other, nothing skipped, as long as one NS at the apex is
\* switched on (zonefile Parse, Write; apply.Import).
ExportImports ==
  soa # NoZone /\ (\E r \in held : r.name = soa.name /\ r.type = "NS" /\ ~r.disabled) =>
    \A origin \in {<<>>, Origin, <<"other">>} :
      Imported(Parse(ExportZone, origin)) =
        [ok |-> TRUE, soa |-> soa, records |-> {r \in held : ~r.disabled}, skipped |-> 0]

\* No record of a zone lies outside it, whatever origin a file of relative names
\* was read with (zonefile Parse).
RecordsInside == \A r \in held : IsPrefix(soa.name, r.name)
=============================================================================
