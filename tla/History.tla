------------------------------- MODULE History -------------------------------
(***************************************************************************)
(* One zone, its journal, rollback, and the transfers a secondary takes.   *)
(*                                                                         *)
(* A record is identified by owner, class, type and data (rdataKey), here  *)
(* a member of Keys; what a change can vary is its TTL, whether it is      *)
(* switched off and whether the automation made it (ManagedBy), which is   *)
(* decided by commands for other zones (WritePath).  The parameters of the *)
(* start of authority are a member of Params.  Ballast counts the records  *)
(* of the zone no request touches, the NS records at the apex among them.  *)
(***************************************************************************)
EXTENDS Serial, Sequences, FiniteSets, FiniteSetsExt

CONSTANTS
    Keys, TTLs, Params,
    First,          \* the serial the zone is created with
    Ballast,
    MaxCommits,     \* bound on the commits after the one that creates the zone
    MaySwitchOff    \* whether requests switch single records off and on

VARIABLES
    zone,       \* the zone's row and its records
    journal,    \* its commits, oldest first, the one that created it leading
    hooks,      \* whether a committed change is still to be published
    tree,       \* the zone in the snapshot queries are answered from
    transfer,   \* the transfer under way: the tree it holds and what was asked
    secondary,  \* what the secondary holds
    was         \* for the properties: what each serial stood for

vars == <<zone, journal, hooks, tree, transfer, secondary, was>>

Gone == [serial |-> -1]

Record == [ttl : TTLs, off : BOOLEAN, made : BOOLEAN]
DefaultTTL == CHOOSE ttl \in TTLs : TRUE
RR == Keys \X TTLs

-----------------------------------------------------------------------------
(* Commits.                                                                *)

\* What a query is answered with: the records that are not switched off.
Served(soa, recs) ==
    [soa |-> soa,
     recs |-> {<<k, recs[k].ttl>> : k \in {x \in DOMAIN recs : ~recs[x].off}}]

With(recs, k, r) == [x \in DOMAIN recs \cup {k} |-> IF x = k THEN r ELSE recs[x]]
Without(recs, k) == [x \in DOMAIN recs \ {k} |-> recs[x]]

\* Mutant: an update that keeps the record's name and data is no event.
RemovedGone(from, to) == {<<k, from[k].ttl>> : k \in DOMAIN from \ DOMAIN to}

\* A removal carries the record as it was and an addition as it becomes; an
\* update is both.  Neither says whether the record is switched off.
Removed(from, to) ==
    {<<k, from[k].ttl>> : k \in {x \in DOMAIN from : x \notin DOMAIN to \/ to[x] # from[x]}}

Added(from, to) == Removed(to, from)

\* The events of a commit.  The two sides of a changed start of authority are
\* kept with the serials they were recorded at; None when it did not change.
None == <<>>
Events(from, to, soaFrom, soaTo, serial, reverts) ==
    [from |-> serial, to |-> Succ(serial), reverts |-> reverts,
     del |-> Removed(from, to), add |-> Added(from, to),
     soa |-> IF soaFrom = soaTo THEN None ELSE <<soaFrom>>]

\* The unique index on (zone_id, serial_to): a serial is reached once.
Unreached(serial) == \A i \in DOMAIN journal : journal[i].to # serial

\* One commit: the zone's new content, its serial step and its events in one
\* transaction.
Commit(recs, soa, off, reverts) ==
    /\ Len(journal) <= MaxCommits
    /\ Unreached(Succ(zone.serial))
    /\ zone' = [serial |-> Succ(zone.serial), soa |-> soa, recs |-> recs, off |-> off]
    /\ journal' = Append(journal, Events(zone.recs, recs, zone.soa, soa, zone.serial, reverts))
    /\ was' = [was EXCEPT ![Succ(zone.serial)] = Served(soa, recs)]
    /\ hooks' = TRUE
    /\ UNCHANGED <<tree, transfer, secondary>>

AddRecord(k) ==
    /\ k \notin DOMAIN zone.recs
    /\ \E ttl \in TTLs, off \in {FALSE, MaySwitchOff} :
          Commit(With(zone.recs, k, [ttl |-> ttl, off |-> off, made |-> FALSE]),
                 zone.soa, zone.off, None)

\* checkOwnedAndAuthored: what the automation made is not for a request to change.
Authored(k) == k \in DOMAIN zone.recs /\ ~zone.recs[k].made

UpdateRecord(k) ==
    /\ Authored(k)
    /\ \E r \in Record :
          /\ r # zone.recs[k] /\ ~r.made
          /\ r.off => MaySwitchOff
          /\ Commit(With(zone.recs, k, r), zone.soa, zone.off, None)

DeleteRecord(k) ==
    /\ Authored(k)
    /\ Commit(Without(zone.recs, k), zone.soa, zone.off, None)

\* ActionReplaceRRset: one record gives way to another in one commit.
ReplaceRRset(k, l) ==
    /\ Authored(k)
    /\ l \in Keys \ DOMAIN zone.recs
    /\ Commit(With(Without(zone.recs, k), l, zone.recs[k]), zone.soa, zone.off, None)

\* What a command for another zone implies here: an entry is generated, or one is
\* retired.
Generate(k) ==
    /\ k \notin DOMAIN zone.recs
    /\ Commit(With(zone.recs, k, [ttl |-> DefaultTTL, off |-> FALSE, made |-> TRUE]),
              zone.soa, zone.off, None)

Retire(k) ==
    /\ k \in DOMAIN zone.recs \ {x \in Keys : Authored(x)}
    /\ Commit(Without(zone.recs, k), zone.soa, zone.off, None)

\* ActionDetach: a generated entry becomes one somebody wrote.
Detach(k) ==
    /\ k \in DOMAIN zone.recs \ {x \in Keys : Authored(x)}
    /\ Commit([zone.recs EXCEPT ![k].made = FALSE], zone.soa, zone.off, None)

\* Settings of the zone: only a changed start of authority is an event.
UpdateZone ==
    \E soa \in Params, off \in BOOLEAN :
       /\ soa # zone.soa \/ off # zone.off
       /\ Commit(zone.recs, soa, off, None)

-----------------------------------------------------------------------------
(* Following the chain of serials back.                                    *)

\* The commits that took the zone from one serial to another, oldest first;
\* None where a step is missing.
ChainBack(from, to) ==
    LET ends == [s \in {journal[i].to : i \in DOMAIN journal} |->
                    CHOOSE i \in DOMAIN journal : journal[i].to = s]
        at[n \in 0 .. Len(journal)] ==
            IF n = 0 THEN to
            ELSE IF at[n - 1] \in DOMAIN ends THEN journal[ends[at[n - 1]]].from ELSE -1
        lengths == {n \in 0 .. Len(journal) : at[n] = from}
    IN IF lengths = {} THEN None
       ELSE [i \in 1 .. Min(lengths) |-> journal[ends[at[Min(lengths) - i]]]]

-----------------------------------------------------------------------------
(* Rollback.                                                               *)

\* Mutant: what the range did last is undone, not what it did first.
FirstEventLast(chain, k) ==
    LET touched == {i \in DOMAIN chain : \E e \in chain[i].del \cup chain[i].add : e[1] = k}
        c == chain[Max(touched)]
    IN IF \E e \in c.del : e[1] = k
       THEN <<CHOOSE ttl \in TTLs : <<k, ttl>> \in c.del>>
       ELSE None

\* What the first event about a record in the range says it was before: the
\* TTL it had, or None when the range brought it.
FirstEvent(chain, k) ==
    LET touched == {i \in DOMAIN chain : \E e \in chain[i].del \cup chain[i].add : e[1] = k}
        c == chain[Min(touched)]
    IN IF \E e \in c.del : e[1] = k
       THEN <<CHOOSE ttl \in TTLs : <<k, ttl>> \in c.del>>
       ELSE None


\* undoOne: what the automation owns now stays.  Otherwise a record that was
\* there comes back with its TTL, and one that was not is taken out.  A record
\* that is still there keeps its switch; one that is not comes back as one
\* somebody wrote, also where the automation had made it.
UndoOne(before, recs, k) ==
    IF k \in DOMAIN recs /\ recs[k].made THEN {recs[k]}
    ELSE IF before = None THEN {}
    ELSE IF k \in DOMAIN recs THEN {[recs[k] EXCEPT !.ttl = before[1]]}
    ELSE {[ttl |-> before[1], off |-> FALSE, made |-> FALSE]}

Undo(chain) ==
    LET touched == {e[1] : e \in UNION {chain[i].del \cup chain[i].add : i \in DOMAIN chain}}
        after(k) == IF k \in touched THEN UndoOne(FirstEvent(chain, k), zone.recs, k)
                    ELSE IF k \in DOMAIN zone.recs THEN {zone.recs[k]} ELSE {}
    IN [k \in {x \in Keys : after(x) # {}} |-> CHOOSE r \in after(k) : TRUE]

\* undoSOA: the first removal in the range carries the parameters.
UndoSOA(chain) ==
    LET changing == {i \in DOMAIN chain : chain[i].soa # None}
    IN IF changing = {} THEN zone.soa ELSE chain[Min(changing)].soa[1]

\* A range that holds the commit creating the zone takes the NS records at the
\* apex with it and is refused; one that changes nothing commits nothing.  What
\* expandReverse then adds for the restored records are changes to other zones,
\* in commits of theirs (WritePath!Rollback).
Rollback(target) ==
    /\ target # zone.serial
    /\ Comparable(target, zone.serial)
    /\ Before(target, zone.serial)
    /\ LET chain == ChainBack(target, zone.serial)
       IN /\ chain # None
          /\ journal[1] \notin {chain[i] : i \in DOMAIN chain}
          /\ Undo(chain) # zone.recs \/ UndoSOA(chain) # zone.soa
          /\ Commit(Undo(chain), UndoSOA(chain), zone.off, <<target>>)

-----------------------------------------------------------------------------
(* Publishing, and transfers from what is published.                       *)

\* buildZone, and a zone that is switched off is dropped.
BuildZone ==
    IF zone.off THEN Gone
    ELSE [serial |-> zone.serial, soa |-> zone.soa, recs |-> Served(zone.soa, zone.recs).recs]

Publish ==
    /\ hooks
    /\ hooks' = FALSE
    /\ tree' = BuildZone
    /\ UNCHANGED <<zone, journal, transfer, secondary, was>>

\* Server.transfer up to the zone it answers from.  A secondary with nothing
\* asks for the whole zone; a name not in the snapshot is refused.
Ask ==
    /\ transfer = None
    /\ tree # Gone
    /\ \E since \in {Gone.serial, secondary.serial} : transfer' = <<tree, since>>
    /\ UNCHANGED <<zone, journal, hooks, tree, secondary, was>>

Whole(t) == t

\* Counted in records: two starts of authority frame a step, and a whole zone
\* is its records and its start of authority twice.
WorthSending(chain, t) ==
    LET size(c) == Cardinality(c.del) + Cardinality(c.add) + (IF c.soa = None THEN 2 ELSE 4)
        total[n \in 0 .. Len(chain)] == IF n = 0 THEN 0 ELSE total[n - 1] + size(chain[n])
    IN total[Len(chain)] < Cardinality(t.recs) + Ballast + 2

\* The secondary's side of RFC 1995 section 4, one step after another.
Replay(chain, recs) ==
    LET after[n \in 0 .. Len(chain)] ==
            IF n = 0 THEN recs
            ELSE {rr \in after[n - 1] : \A d \in chain[n].del : d[1] # rr[1]} \cup chain[n].add
    IN after[Len(chain)]

\* Server.ixfr: a client that is level or ahead is told the version; a serial
\* that cannot be ordered, a range the journal does not cover and a difference
\* larger than the zone are all answered with the whole zone.
Answered(t, since) ==
    LET chain == ChainBack(since, t.serial)
    IN IF since = Gone.serial \/ ~Comparable(since, t.serial) THEN Whole(t)
       ELSE IF ~Before(since, t.serial) THEN secondary
       ELSE IF chain = None \/ ~WorthSending(chain, t) THEN Whole(t)
       ELSE [serial |-> t.serial, soa |-> t.soa, recs |-> Replay(chain, secondary.recs)]

Answer ==
    /\ transfer # None
    /\ secondary' = Answered(transfer[1], transfer[2])
    /\ transfer' = None
    /\ UNCHANGED <<zone, journal, hooks, tree, was>>

-----------------------------------------------------------------------------
Init ==
    LET soa == CHOOSE p \in Params : TRUE
    IN /\ zone = [serial |-> First, soa |-> soa, recs |-> [k \in {} |-> 0], off |-> FALSE]
       /\ journal = <<[from |-> 0, to |-> First, del |-> {}, add |-> {}, soa |-> None, reverts |-> None]>>
       /\ hooks = FALSE
       /\ tree = [serial |-> First, soa |-> soa, recs |-> {}]
       /\ transfer = None
       /\ secondary = Gone
       /\ was = [s \in Serials |-> IF s = First THEN [soa |-> soa, recs |-> {}] ELSE Gone]

Next ==
    \/ \E k \in Keys : \/ AddRecord(k) \/ UpdateRecord(k) \/ DeleteRecord(k)
                      \/ Generate(k) \/ Retire(k) \/ Detach(k)
    \/ \E k, l \in Keys : ReplaceRRset(k, l)
    \/ UpdateZone
    \/ \E i \in DOMAIN journal : Rollback(journal[i].to)
    \/ Publish
    \/ Ask
    \/ Answer

Spec == Init /\ [][Next]_vars

-----------------------------------------------------------------------------
Tree == [serial : Serials, soa : Params, recs : SUBSET RR] \cup {Gone}

TypeOK ==
    /\ zone.serial \in Serials /\ zone.soa \in Params /\ zone.off \in BOOLEAN
    /\ DOMAIN zone.recs \subseteq Keys
    /\ \A k \in DOMAIN zone.recs : zone.recs[k] \in Record
    /\ \A i \in DOMAIN journal :
          /\ journal[i].from \in Serials /\ journal[i].to \in Serials
          /\ journal[i].del \cup journal[i].add \subseteq RR
    /\ hooks \in BOOLEAN
    /\ tree \in Tree
    /\ transfer = None \/ transfer[1] \in Tree
    /\ secondary \in Tree

\* A serial names what a zone held: whatever is published, is being
\* transferred or was taken by a secondary, whole or as differences, is what
\* this server answered with at the serial it goes by (buildZone,
\* Server.transfer, ixfr, steps, differences).
SerialNamesContent ==
    \A copy \in {tree, secondary} \cup (IF transfer = None THEN {} ELSE {transfer[1]}) :
       copy # Gone => was[copy.serial] = [soa |-> copy.soa, recs |-> copy.recs]


\* Whatever serial a secondary names, also one from before the wrap or one
\* that cannot be ordered, the answer leaves it at the version the transfer
\* was answered from (ixfr, Serial.Compare).
AnswerBringsLevel ==
    [][transfer # None /\ transfer' = None => secondary'.serial = transfer[1].serial]_vars
=============================================================================
