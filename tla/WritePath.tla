------------------------------- MODULE WritePath -------------------------------
(***************************************************************************)
(* The write path with reverse automation (internal/apply): a command is   *)
(* planned against the store, the plan is a batch of resolved changes, and *)
(* the batch is carried out in a transaction of its own.  Address records  *)
(* generate PTR records in the reverse zone answering for the address, and *)
(* a PTR in a classless child generates the parent's CNAME (RFC 2317).     *)
(*                                                                         *)
(* One forward zone F, one reverse zone R and one classless child C of R.  *)
(* A record has an identifier, the identifier it was generated from (0 for *)
(* an authored record) and whether it is switched off.  Identifiers are    *)
(* minted in increasing order, as ULIDs are, which is also the order the   *)
(* store lists the records of one name in.                                 *)
(***************************************************************************)
EXTENDS Integers, FiniteSets, Sequences, FiniteSetsExt, SequencesExt

CONSTANTS
    Writers,        \* requests at work at once; one, when every write settles
    Hosts,          \* owner names in F, ordered as the store sorts them
    Addrs,          \* addresses, all inside R
    InChild,        \* the addresses C answers for
    Policies,       \* the conflict policies to start from
    Ops,            \* the operations taken
    Switched,       \* the zones whose automation is switched on and off
    MaxId,          \* bound: no identifier above this one
    MaxRecords      \* bound: no batch that leaves more records than this

ZoneNames == {"F", "R", "C"}

VARIABLES
    zones,      \* the zones that exist
    auto,       \* the zones with reverse automation on
    policy,     \* the server's conflict policy
    recs,       \* the records
    told,       \* per zone, what replaying its journal gives
    mark,       \* a zone, and the first event about each record since a serial of it
    work        \* what each request is doing

store == <<zones, auto, recs, told, mark>>
vars == <<store, policy, work>>

--------------------------------------------------------------------------------

Target == 0      \* what a delegation points at: the same address in C
Record ==
    [id : 1..MaxId, zone : {"F"}, type : {"A"}, name : Hosts, data : Addrs,
     by : {0}, off : BOOLEAN]
    \cup
    [id : 1..MaxId, zone : {"R", "C"}, type : {"PTR"}, name : Addrs, data : Hosts,
     by : 0..MaxId, off : {FALSE}]
    \cup
    [id : 1..MaxId, zone : {"R"}, type : {"CNAME"}, name : Addrs, data : {Target},
     by : 0..MaxId, off : {FALSE}]

RR(r) == <<r.name, r.type, r.data>>
Managed(r) == r.by # 0
In(S, z) == {r \in S : r.zone = z}
Ids(S) == {r.id : r \in S}
ById(S) == SetToSortSeq(S, LAMBDA r, q : r.id < q.id)
Oldest(S) == CHOOSE r \in S : \A q \in S : r.id <= q.id

\* Store.ReverseZoneFor: the longest prefix held.  {} when no zone answers.
ReverseZoneFor(addr) ==
    IF addr \in InChild /\ "C" \in zones THEN {"C"} ELSE zones \cap {"R"}

\* Records whose source is gone go too: managed_by ... ON DELETE CASCADE.  A
\* chain is at most a CNAME from a PTR from an address record.
Orphans(S) == {r \in S : Managed(r) /\ r.by \notin Ids(S)}
Cascade(S) == LET once == S \ Orphans(S) IN once \ Orphans(once)

--------------------------------------------------------------------------------
(***************************************************************************)
(* A change set: what is queued while a command is planned.                *)
(***************************************************************************)

\* Identifiers in use anywhere, the batches on their way to the store included.
Minted == Ids(recs) \cup UNION {IF work[w].step = "planned" THEN Ids(work[w].ins) ELSE {}
                                : w \in Writers}
NoChanges == [ok |-> TRUE, next |-> 1 + Max({0} \cup Minted),
              del |-> {}, upd |-> {}, ins |-> {}, claims |-> {}]
Refusal == [NoChanges EXCEPT !.ok = FALSE]

Removing(cs, S) == [cs EXCEPT !.del = @ \cup S]
Insert(cs, zone, type, name, data, by) ==
    [cs EXCEPT !.next = @ + 1,
               !.ins = @ \cup {[id |-> cs.next, zone |-> zone, type |-> type,
                                name |-> name, data |-> data, by |-> by, off |-> FALSE]}]

\* Mutant: what the same command is about to insert is not looked at.
AsIs(cs, zone, name) == {r \in recs \ cs.del : r.zone = zone /\ r.name = name}

\* reverseRRset and ownerAsWillBe: stored and not on its way out, or arriving.
\* No command both updates an entry and generates one.
AsWillBe(cs, zone, name) ==
    {r \in (recs \ cs.del) \cup cs.ins : r.zone = zone /\ r.name = name}

\* Mutant: only what the record itself generated is retired.
BelowOnce(id) == {r \in recs : r.by = id}

\* retireBelow: everything generated from a record, however deep.
Below(id) ==
    LET first == {r \in recs : r.by = id}
    IN  first \cup {r \in recs : r.by \in Ids(first)}

\* queueGenerated, then queueDelegation: the entry, and for one in the child the
\* CNAME at the same address in the parent, if nothing is there.
QueueGenerated(cs, rev, src) ==
    LET with == Insert(cs, rev, "PTR", src.data, src.name, src.id) IN
    IF rev = "C" /\ "R" \in zones /\ AsWillBe(with, "R", src.data) = {}
      THEN Insert(with, "R", "CNAME", src.data, Target, cs.next)
      ELSE with

\* Mutant: the last name wins over hand-written ones as well.
ResolveConflictOver(cs, rev, src, existing, pol) ==
    CASE pol = "multi" -> QueueGenerated(cs, rev, src)
      [] pol = "reject" -> Refusal
      [] pol = "last-wins" -> QueueGenerated(Removing(cs, existing), rev, src)
      [] OTHER -> cs

\* resolveConflict.
ResolveConflict(cs, rev, src, existing, pol) ==
    CASE pol = "multi" -> QueueGenerated(cs, rev, src)
      [] pol = "reject" -> Refusal
      [] pol = "last-wins" /\ Managed(Oldest(existing)) ->
            QueueGenerated(Removing(cs, {r \in existing : Managed(r)}), rev, src)
      [] OTHER -> cs

\* generate: nothing for what is no address or answers nothing, nothing where no
\* zone answers for the address or the name is there already.
Generate(cs, src, pol) ==
    IF ~cs.ok \/ src.type # "A" \/ src.off \/ ReverseZoneFor(src.data) = {} THEN cs
    ELSE LET rev == CHOOSE z \in ReverseZoneFor(src.data) : TRUE
             existing == {r \in AsWillBe(cs, rev, src.data) : r.type = "PTR"}
         IN  IF \E r \in existing : r.data = src.name THEN cs
             ELSE IF existing = {} THEN QueueGenerated(cs, rev, src)
             ELSE ResolveConflict(cs, rev, src, existing, pol)

GenerateAll(cs, S, pol) ==
    FoldLeft(LAMBDA c, src : Generate(c, src, pol), cs, ById(S))

\* Mutant: switching a record off is not a change its entry follows.
SameReverseWhenOff(u) ==
    u.was.type # "A" \/ (u.was.data = u.now.data /\ u.was.name = u.now.name)

SameReverse(u) ==
    \/ u.was.type # "A"
    \/ u.was.data = u.now.data /\ u.was.name = u.now.name /\ u.was.off = u.now.off

\* expandReverse: entries of what goes or changes are retired first and in full,
\* then those of what changes, arrives or claims are generated.
ExpandReverse(cs, z, pol) ==
    IF z \notin auto \/ ~cs.ok THEN cs
    ELSE LET moved == {u \in cs.upd : ~SameReverse(u)}
             gone == {r \in cs.del : r.type \in {"A", "PTR"}} \cup {u.was : u \in moved}
             retired == Removing(cs, UNION {Below(r.id) : r \in gone})
             updated == GenerateAll(retired, {u.now : u \in moved}, pol)
         IN  GenerateAll(GenerateAll(updated, In(cs.ins, z), pol), cs.claims, pol)

--------------------------------------------------------------------------------
(***************************************************************************)
(* Carrying a batch out.                                                   *)
(***************************************************************************)

\* Mutant: the records of a deleted zone are left behind.
WrittenZoneLeft(b) ==
    LET kept == Cascade({r \in recs : r.id \notin Ids(b.del)})
        replaced == {r \in kept : r.id \notin {u.now.id : u \in b.upd}}
    IN  replaced \cup {u.now : u \in b.upd} \cup b.ins

\* Batch.write and changeSet.write: removals with what cascades from them, then
\* changes in place, then arrivals; a zone is created first and deleted last.
Written(b) ==
    LET kept == Cascade({r \in recs : r.id \notin Ids(b.del)})
        replaced == {r \in kept : r.id \notin {u.now.id : u \in b.upd}}
        after == replaced \cup {u.now : u \in b.upd} \cup b.ins
    IN  IF b.zop = "remove" THEN Cascade({r \in after : r.zone # b.zone}) ELSE after

\* The zones a batch commits to: those with changes, and the one it is about.
CommitsTo(b) ==
    {r.zone : r \in b.del \cup b.ins \cup {u.now : u \in b.upd}}
      \cup (IF b.zop = "none" THEN {} ELSE {b.zone})

\* What the store accepts: every row named is there, every source is there, no
\* resource record is there twice, and the zones are.
Accepted(b) ==
    LET after == Written(b)
        left == {r \in recs : r.id \notin Ids(b.del)} IN
    /\ \A r \in b.del : r.id \in Ids(recs)
    /\ \A u \in b.upd : u.now.id \in Ids(Cascade(left))
    /\ \A r \in b.ins : r.by = 0 \/ r.by \in Ids(Cascade(left) \cup b.ins)
    /\ \A r \in after, q \in after : r.zone = q.zone /\ RR(r) = RR(q) => r.id = q.id
    /\ IF b.zop = "create" THEN b.zone \notin zones /\ CommitsTo(b) \ {b.zone} \subseteq zones
                           ELSE CommitsTo(b) \subseteq zones

\* validateTouched: where a CNAME is, nothing else may be.
Valid(b) ==
    LET after == Written(b) IN
    \A r \in after : r.type = "CNAME" =>
        \A q \in after : q.zone = r.zone /\ q.name = r.name => q = r

\* changes.events: every removal, then every addition, a change being both.
Dels(b, z) == {RR(r) : r \in In(b.del \cup {u.was : u \in b.upd}, z)}
Adds(b, z) == {RR(r) : r \in In(b.ins \cup {u.now : u \in b.upd}, z)}
Replayed(b, z) == (told[z] \ Dels(b, z)) \cup Adds(b, z)

\* The events of a batch after those since the mark, the first about a record
\* being the one that counts.
NoMark == [zone |-> "none", first |-> <<>>]
Marked(b) ==
    LET z == mark.zone
        new == [rr \in Dels(b, z) \cup Adds(b, z) |->
                   IF rr \in Dels(b, z) THEN "del" ELSE "add"]
    IN  IF mark = NoMark \/ (b.zop = "remove" /\ b.zone = z) THEN NoMark
        ELSE [mark EXCEPT !.first = @ @@ new]

--------------------------------------------------------------------------------
(***************************************************************************)
(* Planning.                                                               *)
(***************************************************************************)

Idle == [step |-> "idle"]
Locked(z) == \E v \in Writers : work[v].step = "planned" /\ work[v].zop # "create"
                                  /\ work[v].zone = z

\* A plan is written in a transaction that is thrown away, and what cannot be
\* written or is not valid is refused there.  An empty batch goes nowhere.  A
\* plan past the bounds ends as one does whose transaction fails.
Plan(w, z, zop, cs, fill) ==
    LET b == [step |-> "planned", zone |-> z, zop |-> zop, del |-> cs.del,
              upd |-> cs.upd, ins |-> cs.ins, fill |-> fill, stale |-> FALSE]
        empty == zop = "none" /\ cs.del \cup cs.upd \cup cs.ins = {}
        planned == /\ cs.ok /\ ~empty /\ Accepted(b) /\ Valid(b)
                   /\ cs.next <= MaxId + 1 /\ Cardinality(Written(b)) <= MaxRecords
    IN
    /\ work' = [work EXCEPT ![w] = IF planned THEN b ELSE Idle]
    /\ UNCHANGED <<store, policy>>

\* Applier.Apply up to the plan, for one zone.  Making a name canonical is
\* resolved under last-wins, whatever the server says.
Begin(w, z, op) == op \in Ops /\ work[w] = Idle /\ z \in zones /\ ~Locked(z)
Command(w, z, cs, pol) == Plan(w, z, "none", ExpandReverse(cs, z, pol), FALSE)

Add(w) ==
    /\ Begin(w, "F", "add")
    /\ \E h \in Hosts, a \in Addrs :
          Command(w, "F", Insert(NoChanges, "F", "A", h, a, 0), policy)

\* Two additions in one command.
AddPair(w) ==
    /\ Begin(w, "F", "pair")
    /\ \E h \in Hosts, k \in Hosts, a \in Addrs :
          /\ h # k
          /\ Command(w, "F", Insert(Insert(NoChanges, "F", "A", h, a, 0), "F", "A", k, a, 0),
                     policy)

\* A hand-written reverse entry.
AddEntry(w, z) ==
    /\ Begin(w, z, "ptr")
    /\ \E a \in (IF z = "C" THEN InChild ELSE Addrs), h \in Hosts :
          Command(w, z, Insert(NoChanges, z, "PTR", a, h, 0), policy)

\* checkOwnedAndAuthored: a generated record is refused.
Update(w) ==
    /\ Begin(w, "F", "update")
    /\ \E r \in In(recs, "F"), h \in Hosts, a \in Addrs, off \in BOOLEAN :
          LET now == [r EXCEPT !.name = h, !.data = a, !.off = off] IN
          /\ now # r
          /\ Command(w, "F", [NoChanges EXCEPT !.upd = {[was |-> r, now |-> now]}], policy)

Delete(w, z) ==
    /\ Begin(w, z, "delete")
    /\ \E r \in In(recs, z) :
          /\ ~Managed(r)
          /\ Command(w, z, Removing(NoChanges, {r}), policy)

Detach(w, z) ==
    /\ Begin(w, z, "detach")
    /\ \E r \in In(recs, z) :
          /\ Managed(r)
          /\ Command(w, z, [NoChanges EXCEPT
                              !.upd = {[was |-> r, now |-> [r EXCEPT !.by = 0]]}], policy)

MakeCanonical(w) ==
    /\ Begin(w, "F", "canonical")
    /\ \E r \in In(recs, "F") :
          Command(w, "F", [NoChanges EXCEPT !.claims = {r}], "last-wins")

--------------------------------------------------------------------------------
(***************************************************************************)
(* Rollback.                                                               *)
(***************************************************************************)

\* The serial a rollback will name is that of some zone at some time.
Mark(z) ==
    /\ "rollback" \in Ops /\ mark = NoMark /\ z \in zones
    /\ mark' = [zone |-> z, first |-> <<>>]
    /\ UNCHANGED <<zones, auto, recs, told, policy, work>>

\* undo and undoOne: what came since the mark goes, what went comes back as a
\* record of its own, in no particular order, and what the automation owns now is
\* left alone.
Since(op) == {rr \in DOMAIN mark.first : mark.first[rr] = op}
Undo(order) ==
    LET came == {r \in In(recs, mark.zone) : ~Managed(r) /\ RR(r) \in Since("add")}
    IN  FoldLeft(LAMBDA cs, rr : Insert(cs, mark.zone, rr[2], rr[1], rr[3], 0),
                 Removing(NoChanges, came), order)

\* Mutant: what the restored records generate is not worked out again.
RollbackAlone(w) ==
    /\ mark # NoMark /\ Begin(w, mark.zone, "rollback")
    /\ \E order \in SetToSeqs(Since("del") \ {RR(r) : r \in In(recs, mark.zone)}) :
          Plan(w, mark.zone, "none", Undo(order), FALSE)

\* rollbackIn.
Rollback(w) ==
    /\ mark # NoMark /\ Begin(w, mark.zone, "rollback")
    /\ \E order \in SetToSeqs(Since("del") \ {RR(r) : r \in In(recs, mark.zone)}) :
          Command(w, mark.zone, Undo(order), policy)

--------------------------------------------------------------------------------
(***************************************************************************)
(* Zones, and filling them.                                                *)
(***************************************************************************)

\* supersede: entries a record generated that are no longer where they belong.
Supersede(cs, src) ==
    LET astray == {r \in recs : r.by = src.id
                       /\ ~(r.zone \in ReverseZoneFor(src.data) /\ r.name = src.data)}
    IN  IF ReverseZoneFor(src.data) = {} THEN cs
        ELSE Removing(cs, astray \cup UNION {Below(r.id) : r \in astray})

\* reconcileInto: the address records of the zone, or those a reverse zone's
\* prefix covers, in the order the store lists them.
ReconcileInto(z) ==
    LET covered == CASE z = "R" -> Addrs [] z = "C" -> InChild [] OTHER -> Addrs
        sources == {r \in In(recs, "F") : "F" \in auto /\ r.data \in covered}
        listed == SetToSortSeq(sources,
                      LAMBDA r, q : r.name < q.name \/ (r.name = q.name /\ r.id < q.id))
    IN  FoldLeft(LAMBDA cs, src : IF cs.ok THEN Generate(Supersede(cs, src), src, policy)
                                           ELSE cs,
                 NoChanges, listed)

Reconcile(w, z) ==
    /\ Begin(w, z, "reconcile")
    /\ Plan(w, z, "none", ReconcileInto(z), FALSE)

\* CreateZone with at most one record to begin with.  A reverse zone is filled
\* afterwards.
CreateZone(w, z) ==
    /\ "create" \in Ops /\ work[w] = Idle /\ z \notin zones
    /\ \/ Plan(w, z, "create", NoChanges, z # "F")
       \/ /\ z = "F" /\ "F" \in auto
          /\ \E h \in Hosts, a \in Addrs :
                Plan(w, z, "create",
                     ExpandReverse(Insert(NoChanges, "F", "A", h, a, 0), "F", policy), FALSE)

\* deleteZoneIn: what this zone's records generated elsewhere is removed there.
DeleteZoneIn(z) ==
    Removing(NoChanges, {r \in recs : r.zone # z /\ r.by \in Ids(In(recs, z))})

DeleteZone(w, z) ==
    /\ Begin(w, z, "remove")
    /\ Plan(w, z, "remove", DeleteZoneIn(z), FALSE)

\* UpdateZone reads whether automation was on before it takes the lock ...
UpdateZone(w, z) ==
    /\ z \in Switched /\ work[w] = Idle /\ z \in zones
    /\ \E on \in BOOLEAN :
          work' = [work EXCEPT ![w] = [step |-> "update", zone |-> z, on |-> on,
                                       was |-> z \in auto]]
    /\ UNCHANGED <<store, policy>>

\* ... and fills the zone afterwards when it was not and is to be.
PlanUpdateZone(w) ==
    /\ work[w].step = "update" /\ ~Locked(work[w].zone)
    /\ LET z == work[w].zone IN
       IF z \notin zones \/ (z \in auto) = work[w].on
         THEN /\ work' = [work EXCEPT ![w] = IF z \in zones /\ work[w].on /\ ~work[w].was
                                               THEN [step |-> "fill", zone |-> z] ELSE Idle]
              /\ UNCHANGED <<store, policy>>
         ELSE Plan(w, z, IF work[w].on THEN "on" ELSE "off", NoChanges,
                   work[w].on /\ ~work[w].was)

\* fill: a reconcile of its own, once the lock of what it follows is gone.
Fill(w) ==
    /\ work[w].step = "fill" /\ ~Locked(work[w].zone)
    /\ IF work[w].zone \in zones
         THEN Plan(w, work[w].zone, "none", ReconcileInto(work[w].zone), FALSE)
         ELSE work' = [work EXCEPT ![w] = Idle] /\ UNCHANGED <<store, policy>>

--------------------------------------------------------------------------------

\* ApplyBatch.  A commit whose serial another commit of the zone took meanwhile
\* is refused, and with it the whole transaction.
ApplyBatch(w) ==
    LET b == work[w]
        touches(v) == work[v].step = "planned" /\ CommitsTo(work[v]) \cap CommitsTo(b) # {}
        next == IF b.fill THEN [step |-> "fill", zone |-> b.zone] ELSE Idle
    IN
    /\ b.step = "planned"
    /\ IF b.stale \/ ~Accepted(b)
         THEN work' = [work EXCEPT ![w] = Idle] /\ UNCHANGED store
         ELSE /\ recs' = Written(b)
              /\ zones' = CASE b.zop = "create" -> zones \cup {b.zone}
                            [] b.zop = "remove" -> zones \ {b.zone}
                            [] OTHER -> zones
              /\ auto' = CASE b.zop \in {"create", "on"} -> auto \cup {b.zone}
                           [] b.zop = "off" -> auto \ {b.zone}
                           [] OTHER -> auto
              /\ told' = [z \in ZoneNames |->
                            IF b.zop = "remove" /\ z = b.zone THEN {} ELSE Replayed(b, z)]
              /\ mark' = Marked(b)
              /\ work' = [v \in Writers |->
                            CASE v = w -> next
                              [] v # w /\ touches(v) -> [work[v] EXCEPT !.stale = TRUE]
                              [] OTHER -> work[v]]
    /\ UNCHANGED policy

\* A server with the forward zone and the reverse zone, and nothing in them.
Init ==
    /\ zones = {"F", "R"}
    /\ auto = ZoneNames
    /\ policy \in Policies
    /\ recs = {}
    /\ told = [z \in ZoneNames |-> {}]
    /\ mark = NoMark
    /\ work = [w \in Writers |-> Idle]

Next ==
    \/ \E z \in ZoneNames : Mark(z)
    \/ \E w \in Writers :
        \/ Add(w) \/ AddPair(w) \/ Update(w) \/ MakeCanonical(w) \/ Rollback(w)
        \/ \E z \in ZoneNames :
              \/ AddEntry(w, z) /\ z # "F"
              \/ Delete(w, z) \/ Detach(w, z) \/ Reconcile(w, z)
              \/ CreateZone(w, z) \/ DeleteZone(w, z) \/ UpdateZone(w, z)
        \/ PlanUpdateZone(w) \/ Fill(w) \/ ApplyBatch(w)

Spec == Init /\ [][Next]_vars

--------------------------------------------------------------------------------
(***************************************************************************)
(* Properties.                                                             *)
(***************************************************************************)

\* Every variable has its type, and every record lies in a zone that exists and
\* hangs off a record that exists.
TypeOK ==
    /\ zones \subseteq ZoneNames /\ auto \subseteq ZoneNames
    /\ policy \in Policies
    /\ recs \subseteq Record
    /\ \A r \in recs : r.zone \in zones /\ (Managed(r) => r.by \in Ids(recs))
    /\ told \in [ZoneNames -> SUBSET ((Hosts \cup Addrs) \X {"A", "PTR", "CNAME"}
                                        \X (Hosts \cup Addrs \cup {Target}))]
    /\ \A w \in Writers : work[w].step \in {"idle", "update", "planned", "fill"}

\* Replaying a zone's journal gives the zone: no record appears or disappears
\* without an event (docs/conventions.md, architecture invariant 4), whatever
\* the database cascades away behind the batch.
JournalAccounts ==
    \A z \in zones : told[z] = {RR(r) : r \in In(recs, z)}

\* The batch a step carries out, if any.
Carried == {work[w] : w \in {v \in Writers : work[v].step = "planned" /\ work'[v] # work[v]}}

\* Whether a record that goes with its source is one the code leaves to the
\* database: its source is taken while automation is off for that zone, or is
\* itself generated, in a classless child, and is replaced by the last name or
\* goes with the zone it came from.
LeftToCascade(r) ==
    \E b \in Carried, s \in recs :
        /\ s.id = r.by /\ s.id \notin Ids(recs')
        /\ \/ b.zone \notin auto
           \/ /\ Managed(s)
              /\ \/ b.zop = "remove"
                 \/ \E q \in recs' \ recs : q.zone = s.zone /\ q.name = s.name /\ Managed(q)

\* What replaying a zone's journal gives is never less than the zone, and comes
\* to be more only by a generated record the database removes behind the batch in
\* one of the three ways of LeftToCascade: every other removal, however deep the
\* chain it ends, has its event (retireBelow, deleteZoneIn, rollbackIn).
OnlyCascadesAreSilent ==
    [][\A z \in zones' :
          LET now == {RR(r) : r \in In(recs', z)} IN
          /\ now \subseteq told'[z]
          /\ \A rr \in told'[z] \ now :
                \/ z \in zones /\ rr \in told[z] \ {RR(r) : r \in In(recs, z)}
                \/ \E r \in In(recs, z) : RR(r) = rr /\ Managed(r) /\ LeftToCascade(r)]_vars

\* A generated entry says what the record it came from says: its name, its
\* address, and only while that record answers (checkOwnedAndAuthored: "is kept
\* in step with it").
InStep(r, S) == \E s \in S : s.id = r.by /\ s.name = r.data /\ s.data = r.name /\ ~s.off

\* Except under multi, an address never has two generated names in one zone.
OneGeneratedName ==
    policy # "multi" =>
        \A r, q \in recs : r.type = "PTR" /\ Managed(r) /\ Managed(q) /\ q.type = "PTR"
            /\ r.zone = q.zone /\ r.name = q.name => r = q

\* A generated entry comes to disagree with its source only by a command for the
\* source's zone while automation is off there, which expandReverse passes over;
\* and no command leaves an address two generated names that the policy does not
\* allow (resolveConflict).
KeptInStep ==
    [][/\ OneGeneratedName'
       /\ \A r \in recs' : r.type = "PTR" /\ Managed(r) =>
             \/ InStep(r, recs')
             \/ r \in recs /\ ~InStep(r, recs)
             \/ \E b \in Carried : b.zone = "F" /\ "F" \notin auto]_vars

\* A record somebody wrote is changed or taken away by a command for its own
\* zone, never by what a command elsewhere implies (D4).
HandWrittenStays ==
    [][\A r \in recs : ~Managed(r) /\ r \notin recs' =>
          \E w \in Writers : work[w].step = "planned" /\ work[w].zone = r.zone
                              /\ work'[w] # work[w]]_vars

\* A generated entry in the child can be reached: the parent, if it is here, has
\* something at that address (D7).
Delegated ==
    \A r \in recs : r.zone = "C" /\ Managed(r) /\ "R" \in zones =>
        \E q \in recs : q.zone = "R" /\ q.name = r.name

\* A reconcile that the policy does not refuse can be written, so that it is the
\* way back from a fill that failed (Applier.fill).
ReconcileCanBeWritten ==
    policy # "reject" => \A z \in zones : ReconcileInto(z).del \subseteq recs

================================================================================
