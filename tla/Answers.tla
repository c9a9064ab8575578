------------------------------ MODULE Answers --------------------------------
(***************************************************************************)
(* What a zone may hold, and what a question about it is answered with.    *)
(*                                                                         *)
(* A name is the sequence of its labels, the outermost first, so that a    *)
(* name lies under each of its prefixes and canonical order is the order   *)
(* of sequences.  A record is its zone's apex, its owner, its type and the *)
(* name it points at; an address points nowhere.                           *)
(***************************************************************************)
EXTENDS Integers, Sequences, FiniteSets, SequencesExt

CONSTANTS
    Apexes,      \* the apexes of the zones there may be
    Names,       \* the owners records are written at
    Targets,     \* the names records point at
    Asked,       \* the names questions are about
    MaxRecords,  \* bound on the records beside the NS at each apex
    MaxChain     \* maxCNAMEChain

VARIABLES zones, records

vars == <<zones, records>>

Nowhere == <<"elsewhere">>
Types == {"A", "NS", "CNAME"}
Record(z) ==
    {[zone |-> z, name |-> n, type |-> "A", to |-> Nowhere] : n \in {m \in Names : IsPrefix(z, m)}}
      \cup [zone : {z}, name : {m \in Names : IsPrefix(z, m)}, type : Types \ {"A"}, to : Targets]
ApexNS(z) == [zone |-> z, name |-> z, type |-> "NS", to |-> Nowhere]

Above(n) == {SubSeq(n, 1, k) : k \in 0 .. Len(n)}
Longest(ns) == CHOOSE n \in ns : \A m \in ns : Len(m) <= Len(n)
None == {}
TheNearest(ns) == IF ns = {} THEN None ELSE {Longest(ns)}

In(recs, z) == {r \in recs : r.zone = z}
\* ownerRecords and namesUnder.
At(recs, n) == {r \in recs : r.name = n}
OfType(recs, t) == {r \in recs : r.type = t}
Owners(recs) == {r.name : r \in recs}
NamesUnder(recs, n) == {m \in Owners(recs) : IsStrictPrefix(n, m)}
Cuts(z, recs) == Owners(OfType(recs, "NS")) \ {z}

-----------------------------------------------------------------------------
(* What a zone may hold.                                                   *)

\* closestDelegation, in the write path, the whole-zone check and the import:
\* the nearest delegation at or above the name.
ClosestDelegation(z, recs, n) == TheNearest(Above(n) \cap Cuts(z, recs))

\* ValidateOwner, with ValidateRRset: one CNAME, and nothing beside it.
ValidateOwner(z, owned) ==
    OfType(owned, "CNAME") # {} => Cardinality(owned) = 1 /\ z \notin Owners(owned)

\* Only NS at a delegation, and only addresses below it.
ValidateUnderDelegation(n, owned, point) ==
    IF point = None THEN TRUE
    ELSE IF point = {n} THEN owned \subseteq OfType(owned, "NS")
    ELSE owned \subseteq OfType(owned, "A")

ValidName(z, recs, n) ==
    /\ ValidateOwner(z, At(recs, n))
    /\ ValidateUnderDelegation(n, At(recs, n), ClosestDelegation(z, recs, n))
    /\ n = z => OfType(At(recs, n), "NS") # {}

\* ValidateZone: the whole of a new zone.
ValidateZone(z, recs) == \A n \in Owners(recs) \cup {z} : ValidName(z, recs, n)

\* Mutant: only what was touched is looked at.
ValidateTouchedOnly(z, recs, touched) == \A n \in touched : ValidName(z, recs, n)

\* validateTouched: the names a command touched and, where one of them has
\* become a delegation, every name below it.
ValidateTouched(z, recs, touched) ==
    \A n \in touched :
       /\ ValidName(z, recs, n)
       /\ n \in Cuts(z, recs) =>
             \A m \in NamesUnder(recs, n) : ValidName(z, recs, m)

\* Check: one pass over the names in canonical order, with a stack of the
\* delegations above the name being read.
Before(n, m) ==
    \/ IsStrictPrefix(n, m)
    \/ \E k \in 1 .. Len(n) :
          /\ k <= Len(m) /\ SubSeq(n, 1, k - 1) = SubSeq(m, 1, k - 1)
          /\ <<n[k], m[k]>> \in {<<"*", "a">>, <<"*", "b">>, <<"a", "b">>}

popPast(stack, n) == SelectSeq(stack, LAMBDA d : IsPrefix(d, n))

\* flush: the name that has just been read, under the delegations still open.
flush(z, recs, stack, n) ==
    LET popped == popPast(stack, n)
        open == IF n \in Cuts(z, recs) THEN Append(popped, n) ELSE popped
        point == IF open = <<>> THEN None ELSE {Last(open)}
    IN [stack |-> open,
        sound |-> /\ ValidateOwner(z, At(recs, n))
                  /\ ValidateUnderDelegation(n, At(recs, n), point)]

Check(z, recs) ==
    LET names == SetToSortSeq(Owners(recs), Before)
        pass[k \in 0 .. Len(names)] ==
            IF k = 0 THEN [stack |-> <<>>, sound |-> TRUE]
            ELSE LET f == flush(z, recs, pass[k - 1].stack, names[k])
                 IN [f EXCEPT !.sound = @ /\ pass[k - 1].sound]
    IN pass[Len(names)].sound /\ OfType(At(recs, z), "NS") # {}

\* Mutant: only the zone's own servers, not those of a delegation.
NameServersInsideApex(z, ns) == {s.to : s \in {t \in At(ns, z) : IsPrefix(z, t.to)}}

\* The name servers these NS records name that live inside the zone.
NameServersInside(z, ns) == {s.to : s \in {t \in ns : IsPrefix(z, t.to)}}

hasAddress(recs, n) == OfType(At(recs, n), "A") # {}

\* The warnings of a check, and what the read of a zone says of it.
lame(z, recs) == {n \in NameServersInside(z, OfType(recs, "NS")) : ~hasAddress(recs, n)}

\* keepAnswerable: of a zone file, what the delegation rule lets stand.
KeepAnswerable(z, recs) ==
    {r \in recs : LET point == ClosestDelegation(z, recs, r.name)
                  IN \/ ValidateUnderDelegation(r.name, At(recs, r.name), point)
                     \/ ValidateUnderDelegation(r.name, {r}, point)}

-----------------------------------------------------------------------------
(* Writes.                                                                 *)

Replace(z, recs) ==
    /\ Cardinality(recs \ {ApexNS(z)}) <= MaxRecords
    /\ zones' = zones \cup {z}
    /\ records' = (records \ In(records, z)) \cup recs

\* A command adds or removes a record and is validated where it touched.
Add(r) ==
    LET after == In(records, r.zone) \cup {r}
    IN /\ r.zone \in zones
       /\ r \notin records
       /\ ValidateTouched(r.zone, after, {r.name})
       /\ Cardinality(records \ {ApexNS(z) : z \in Apexes}) < MaxRecords
       /\ Replace(r.zone, after)

Delete(r) ==
    LET after == In(records, r.zone) \ {r}
    IN /\ r \in records
       /\ ValidateTouched(r.zone, after, {r.name})
       /\ Replace(r.zone, after)

\* Import: a zone that is not there, from what a zone file holds.
Import(z, recs) ==
    LET kept == KeepAnswerable(z, recs \cup {ApexNS(z)})
    IN /\ z \notin zones
       /\ ValidateZone(z, kept)
       /\ Cardinality(records \ {ApexNS(a) : a \in Apexes}) + Cardinality(recs) <= MaxRecords
       /\ Replace(z, kept)

DeleteZone(z) ==
    /\ z \in zones
    /\ zones' = zones \ {z}
    /\ records' = records \ In(records, z)

Init == zones = {} /\ records = {}

Next ==
    \/ \E z \in Apexes :
          \/ \E r \in Record(z) : Add(r)
          \/ \E c \in Record(z), r \in Record(z) : c.type = "NS" /\ Import(z, {c, r})
          \/ Import(z, {})
          \/ DeleteZone(z)
    \/ \E r \in records : Delete(r)

Spec == Init /\ [][Next]_vars

-----------------------------------------------------------------------------
(* Answering from a snapshot.                                              *)

\* zoneFor: the zone with the longest apex at or above the name.
ZoneFor(n) == TheNearest(Above(n) \cap zones)

\* node: a name with records, and every name between it and the apex.
Nodes(z) ==
    {z} \cup {n \in UNION {Above(r.name) : r \in In(records, z)} : IsPrefix(z, n)}

\* link: the delegation a node points at is the nearest one.
DelegationOf(z, n) == ClosestDelegation(z, In(records, z), n)

\* lookup: the deepest node at or above the name.
Lookup(z, n) == Longest(Above(n) \cap Nodes(z))

\* Mutant: a wildcard anywhere above the name.
WildAnywhere(z, closest) ==
    LET wild == {Append(n, "*") : n \in Above(closest)} \cap Nodes(z)
    IN TheNearest(wild)

\* The "*" child of the closest encloser.
Wild(z, closest) == {Append(closest, "*")} \cap Nodes(z)

\* negSOA: what a negative answer carries.
NegSOA(z) == {<<z, "SOA", Nowhere>>}

Sent(recs, owner) == {<<owner, r.type, r.to>> : r \in recs}

\* addAddresses, for the types that point at a host, of which NS is one;
\* addresses below another delegation are not ours to give.  The records here
\* are too few to fill the additional section (maxAdditional).
AddAddresses(z, set, glueFor) ==
    {r \in OfType(In(records, z), "A") :
        /\ \E s \in OfType(set, "NS") : s.to = r.name
        /\ DelegationOf(z, r.name) \in {None, glueFor}}

\* anyRRset: the CNAME, or the lowest type.
AnyRRset(set) ==
    LET order == <<"CNAME", "A", "NS">>
        held == {k \in DOMAIN order : OfType(set, order[k]) # {}}
    IN IF held = {} THEN {} ELSE OfType(set, order[CHOOSE k \in held : \A j \in held : k <= j])

Empty == [rcode |-> "NOERROR", aa |-> FALSE, answer |-> {}, authority |-> {}, additional |-> {},
          next |-> None]

\* answerAt: the type asked for, an alias to follow, or no data.
AnswerAt(z, n, owner, qtype, a) ==
    LET here == At(In(records, z), n)
        set == IF qtype = "ANY" THEN AnyRRset(here) ELSE OfType(here, qtype)
        alias == OfType(here, "CNAME")
    IN IF set # {}
       THEN [a EXCEPT !.answer = @ \cup Sent(set, owner), !.additional = AddAddresses(z, set, None)]
       ELSE IF alias # {} /\ qtype # "ANY"
       THEN [a EXCEPT !.answer = @ \cup Sent(alias, owner), !.next = {r.to : r \in alias}]
       ELSE [a EXCEPT !.authority = NegSOA(z)]

\* referral: the delegation's NS, with the addresses below it.
Referral(z, cut, a) ==
    LET ns == OfType(At(In(records, z), Longest(cut)), "NS")
    IN [a EXCEPT !.authority = Sent(ns, Longest(cut)), !.additional = AddAddresses(z, ns, cut)]

\* One turn of the loop of Resolve, for a name in zone z.
Turn(z, name, qtype, a, chased) ==
    LET closest == Lookup(z, name)
        cut == DelegationOf(z, closest)
        wild == Wild(z, closest)
    IN IF cut # None
       THEN Referral(z, cut, [a EXCEPT !.aa = (chased > 0)])
       ELSE IF closest = name THEN AnswerAt(z, name, name, qtype, a)
       ELSE IF wild # {} THEN AnswerAt(z, Longest(wild), name, qtype, a)
       ELSE [a EXCEPT !.rcode = "NXDOMAIN", !.authority = NegSOA(z)]

Resolve(qname, qtype) ==
    LET turn[k \in 0 .. MaxChain + 1] ==
            IF k = 0
            THEN IF ZoneFor(qname) = None THEN [Empty EXCEPT !.rcode = "REFUSED"]
                 ELSE [Empty EXCEPT !.aa = TRUE, !.next = {qname}]
            ELSE LET a == turn[k - 1]
                     name == Longest(a.next)
                     z == ZoneFor(name)
                 IN IF a.next = None THEN a
                    ELSE IF z = None THEN [a EXCEPT !.next = None]
                    ELSE Turn(Longest(z), name, qtype, [a EXCEPT !.next = None], k - 1)
        last == turn[MaxChain + 1]
    IN IF last.next = None THEN last ELSE [Empty EXCEPT !.rcode = "SERVFAIL"]

-----------------------------------------------------------------------------
(* The canonical name search of RFC 1034 section 4.3.2, by what exists.    *)

Exists(z, n) == \E r \in In(records, z) : IsPrefix(n, r.name)
\* Of nested delegations the deepest is the one a name is under
\* (TestDelegatingOverADeeperDelegationIsAllowed).
Cut(z, n) ==
    LET cuts == Above(n) \cap Cuts(z, In(records, z))
    IN {c \in cuts : \A d \in cuts : Len(d) <= Len(c)}

\* The name the data for n is at: n itself, or the wildcard beside the closest
\* encloser when nothing at or below n exists.
Source(z, n) ==
    LET encloser == Longest({m \in Above(n) : IsPrefix(z, m) /\ Exists(z, m)})
    IN IF Exists(z, n) THEN {n}
       ELSE {m \in {Append(encloser, "*")} : Exists(z, m)}

\* What the name stands for: a referral, no such name, data, an alias, nothing.
Meaning(z, n, qtype) ==
    LET cut == Cut(z, n)
        here == IF Source(z, n) = None THEN {} ELSE At(In(records, z), Longest(Source(z, n)))
    IN IF cut # None THEN <<"referral", Sent(OfType(At(In(records, z), Longest(cut)), "NS"), Longest(cut))>>
       ELSE IF Source(z, n) = None THEN <<"NXDOMAIN", {}>>
       ELSE IF OfType(here, qtype) # {} THEN <<"data", Sent(OfType(here, qtype), n)>>
       ELSE IF OfType(here, "CNAME") # {} THEN <<"alias", Sent(OfType(here, "CNAME"), n)>>
       ELSE <<"NODATA", {}>>

\* The names an alias leads through, in order, up to one more than are followed.
Path(qname, qtype) ==
    LET step(n) == IF ZoneFor(n) = None THEN {}
                   ELSE LET m == Meaning(Longest(ZoneFor(n)), n, qtype)
                        IN IF m[1] = "alias" THEN {s[3] : s \in m[2]} ELSE {}
        path[k \in 0 .. MaxChain + 1] ==
            IF k = 0 THEN <<qname>>
            ELSE IF Len(path[k - 1]) < k \/ step(Last(path[k - 1])) = {} THEN path[k - 1]
            ELSE Append(path[k - 1], Longest(step(Last(path[k - 1]))))
    IN path[MaxChain + 1]

\* An answer agrees with the search when it ends the way the last name of the
\* path means it to, and carries every alias on the way and nothing else.
Agrees(qname, qtype) ==
    LET a == Resolve(qname, qtype)
        path == Path(qname, qtype)
        end == Last(path)
        aliases == UNION {Meaning(Longest(ZoneFor(path[i])), path[i], qtype)[2] :
                            i \in 1 .. Len(path) - 1}
        m == Meaning(Longest(ZoneFor(end)), end, qtype)
    IN IF ZoneFor(qname) = None THEN a = [Empty EXCEPT !.rcode = "REFUSED"]
       ELSE IF Len(path) = MaxChain + 2 THEN a = [Empty EXCEPT !.rcode = "SERVFAIL"]
       ELSE IF ZoneFor(end) = None THEN a.answer = aliases /\ a.rcode = "NOERROR"
       ELSE /\ a.rcode = IF m[1] = "NXDOMAIN" THEN "NXDOMAIN" ELSE "NOERROR"
            /\ a.answer = aliases \cup (IF m[1] = "data" THEN m[2] ELSE {})
            /\ a.authority = CASE m[1] = "referral" -> m[2]
                               [] m[1] = "data" -> {}
                               [] OTHER -> NegSOA(Longest(ZoneFor(end)))
            /\ a.additional = {r \in OfType(In(records, Longest(ZoneFor(end))), "A") :
                                  /\ \E s \in m[2] : s[2] = "NS" /\ s[3] = r.name
                                  /\ Cut(r.zone, r.name) \in {None, Cut(r.zone, end)}}
            /\ a.aa = (m[1] # "referral" \/ Len(path) > 1)

-----------------------------------------------------------------------------
TypeOK ==
    /\ zones \subseteq Apexes
    /\ records \subseteq UNION {Record(z) \cup {ApexNS(z)} : z \in zones}

\* A question is answered the way the canonical name search of RFC 1034 would,
\* but that of nested delegations the deepest refers (RFC 1034 stops at the
\* topmost): delegation before data, wildcards only where no closer name exists, no data
\* where a name exists without the type, no such name only where nothing is at
\* or below it, aliases followed over zones (Snapshot.Resolve, zoneTree.lookup,
\* link).
AnswersAreCanonical == \A n \in Asked, t \in {"A", "NS"} : Agrees(n, t)

\* At a delegation only NS may live, and below it only addresses
\* (docs/decisions D5a; validateTouched, ValidateZone, keepAnswerable).
DelegationRule ==
    \A r \in records : \A c \in Cuts(r.zone, In(records, r.zone)) :
       /\ r.name = c => r.type = "NS"
       /\ IsStrictPrefix(c, r.name) => r.type = "A"

\* The order in which a zone was written decides nothing: the zone stands in
\* the whole-zone check and in the report of weg zone check, and the write path
\* takes one more record exactly when the whole-zone check would take the
\* result (validateTouched, ValidateZone, Check).
OneRule ==
    \A z \in zones :
       LET recs == In(records, z)
       IN /\ ValidateZone(z, recs)
          /\ Check(z, recs)
          /\ \A r \in Record(z) : ValidateTouched(z, recs \cup {r}, {r.name}) <=>
                                    ValidateZone(z, recs \cup {r})

\* A name server inside a zone that a resolver would be told does not exist, or
\* has no address, is always reported, the zone's own and those of its
\* delegations (zone/check.go lame, NameServersInside; api/zones.go
\* lameNameServers, hasAddress).
LameIsReported ==
    \A z \in zones : \A s \in OfType(In(records, z), "NS") :
       LET a == Resolve(s.to, "A")
       IN ZoneFor(s.to) = {z} /\ a.answer = {} /\ a.authority = NegSOA(z)
            => s.to \in lame(z, In(records, z))
=============================================================================
