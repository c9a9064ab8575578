------------------------------ MODULE Replica ------------------------------
(***************************************************************************)
(* What travels between the members of a cluster and what they store of    *)
(* it: a batch is planned on the leader, encoded into an entry of the log  *)
(* (apply/codec.go), decoded and carried out by every member in one        *)
(* transaction (apply/batch.go, ApplyBatchAt, cluster/fsm.go), and the     *)
(* whole store is written out as a log snapshot and put back from one      *)
(* (apply/snapshot.go, store/sqlite/replicated.go).  An identifier is the  *)
(* position of the entry that minted it; a stamp is the member whose clock *)
(* set it.                                                                 *)
(***************************************************************************)
EXTENDS Integers, Sequences, SequencesExt, FiniteSets

CONSTANTS
  Members,     \* the members holding a store
  Leaders,     \* those of them that lead, and so are never behind
  KeyNames,    \* names of transfer keys
  ZoneNames,   \* names of zones
  ReverseNames,     \* those of them in a reverse namespace
  Values,      \* values of the one server setting
  MaxLog,      \* bound on the log
  MayClash,    \* a key may be made under a name in use, or an unknown one revoked
  None

VARIABLES log, store, stalled, file

vars == <<log, store, stalled, file>>

\* Of a batch and of a log snapshot, as this build writes and reads them.
Version == 1

Empty == [settings |-> {}, tokens |-> {}, keys |-> {}, zones |-> {}, records |-> {}, commits |-> {}]

NoBatch == [sets |-> <<>>, ops |-> {}, commits |-> {}, settings |-> {}, keys |-> {}, tokens |-> {}]

NewID == Len(log) + 1

NewZone(id, name, by) ==
  [id |-> id, name |-> name, kind |-> IF name \in ReverseNames THEN "reverse" ELSE "forward", by |-> by]

----------------------------------------------------------------------------
(* Batches: what the planners make. *)

SetSettings(v) == [NoBatch EXCEPT !.settings = {[key |-> "s", value |-> v]}]

PlanCreateKey(name) ==
  [NoBatch EXCEPT !.keys = {[op |-> "create", id |-> NewID,
     key |-> [id |-> NewID, name |-> name, secret |-> TRUE, revoked |-> FALSE]]}]

PlanRevokeKey(id) == [NoBatch EXCEPT !.keys = {[op |-> "revoke", id |-> id, key |-> None]}]

PlanCreateToken ==
  [NoBatch EXCEPT !.tokens = {[op |-> "create", id |-> NewID,
     token |-> [id |-> NewID, revoked |-> FALSE, used |-> FALSE]]}]

PlanRevokeToken(id) == [NoBatch EXCEPT !.tokens = {[op |-> "revoke", id |-> id, token |-> None]}]

\* A zone comes with a record and its commit.
PlanCreateZone(name) ==
  [NoBatch EXCEPT
     !.ops = {[op |-> "create", id |-> NewID, zone |-> NewZone(NewID, name, None)]},
     !.sets = <<[zone |-> NewID, deletes |-> {},
                 inserts |-> {[id |-> <<NewID, 1>>, zone |-> NewID, from |-> None, by |-> None]}]>>,
     !.commits = {[id |-> <<NewID, NewID>>, zone |-> NewID, kind |-> "zone_create"]}]

\* A record that generates another, in its own zone or in one more; the zone a
\* command is addressed to is in the set even where nothing changes in it.
PlanEdit(z, other) ==
  LET made == [id |-> <<NewID, 1>>, zone |-> z.id, from |-> None, by |-> None]
      generated == [id |-> <<NewID, 2>>, zone |-> other.id, from |-> made.id, by |-> None]
      set == IF z = other THEN <<[zone |-> z.id, deletes |-> {}, inserts |-> {made, generated}]>>
             ELSE <<[zone |-> z.id, deletes |-> {}, inserts |-> {made}],
                    [zone |-> other.id, deletes |-> {}, inserts |-> {generated}]>>
  IN [NoBatch EXCEPT
        !.sets = set,
        !.commits = {[id |-> <<NewID, s.zone>>, zone |-> s.zone, kind |-> "edit"] : s \in Range(set)}]

\* Removing a record removes what was generated from it, addressed to its zone.
PlanDelete(st, r) ==
  LET gone == {q \in st.records : q = r \/ q.from = r.id}
      set == <<[zone |-> r.zone, deletes |-> {q \in gone : q.zone = r.zone}, inserts |-> {}]>> \o
             SetToSeq({[zone |-> z.id, deletes |-> {q \in gone : q.zone = z.id}, inserts |-> {}] :
                         z \in {y \in st.zones : y.id # r.zone}})
  IN [NoBatch EXCEPT
        !.sets = set,
        !.commits = {[id |-> <<NewID, s.zone>>, zone |-> s.zone, kind |-> "edit"] :
                       s \in {q \in Range(set) : q.deletes # {}}}]

PlanDeleteZone(z) ==
  [NoBatch EXCEPT
     !.ops = {[op |-> "delete", id |-> z.id, zone |-> None]},
     !.commits = {[id |-> <<NewID, z.id>>, zone |-> z.id, kind |-> "zone_delete"]}]

----------------------------------------------------------------------------
(* Carrying a batch out: Batch.write inside one transaction. *)

zoneOp(b, id) == \E o \in b.ops : o.id = id

\* What the store's constraints allow of a batch.
Writable(st, b) ==
  /\ \A o \in b.keys : IF o.op = "create"
                       THEN ~\E k \in st.keys : k.name = o.key.name /\ ~k.revoked
                       ELSE \E k \in st.keys : k.id = o.id
  /\ \A o \in b.tokens : o.op = "revoke" => \E t \in st.tokens : t.id = o.id
  /\ \A o \in b.ops : o.op = "create" => ~\E z \in st.zones : z.name = o.zone.name
  /\ \A s \in Range(b.sets) : s.deletes # {} =>
       {r.id : r \in s.deletes} \subseteq {r.id : r \in st.records}
  /\ \A c \in b.commits : zoneOp(b, c.zone) \/ \E s \in Range(b.sets) : s.zone = c.zone
  /\ {c.id : c \in b.commits} \cap {c.id : c \in st.commits} = {}

writeKeys(keys, b) ==
  {IF \E o \in b.keys : o.op = "revoke" /\ o.id = k.id
   THEN [k EXCEPT !.secret = FALSE, !.revoked = TRUE] ELSE k : k \in keys}
  \cup {o.key : o \in {p \in b.keys : p.op = "create"}}

writeTokens(tokens, b) ==
  {IF \E o \in b.tokens : o.op = "revoke" /\ o.id = t.id THEN [t EXCEPT !.revoked = TRUE] ELSE t : t \in tokens}
  \cup {o.token : o \in {p \in b.tokens : p.op = "create"}}

\* Zones and records are stamped by the clock of the member writing them.
write(st, b, m) ==
  LET gone == UNION {{r.id : r \in s.deletes} : s \in Range(b.sets)}
      dropped == {o.id : o \in {p \in b.ops : p.op = "delete"}}
      inserted == UNION {s.inserts : s \in Range(b.sets)}
      records == {r \in st.records : r.id \notin gone} \cup {[r EXCEPT !.by = m] : r \in inserted}
      kept == {r \in records : r.zone \notin dropped}
  IN [settings |-> {s \in st.settings : b.settings = {}} \cup b.settings,
      keys     |-> writeKeys(st.keys, b),
      tokens   |-> writeTokens(st.tokens, b),
      zones    |-> {z \in st.zones : z.id \notin dropped}
                   \cup {[o.zone EXCEPT !.by = m] : o \in {p \in b.ops : p.op = "create"}},
      records  |-> {r \in kept : r.from = None \/ r.from \in {q.id : q \in kept}},
      commits  |-> st.commits \cup b.commits]

----------------------------------------------------------------------------
(* The batch as it travels. *)

emptySet(s) == s.deletes = {} /\ s.inserts = {}

wireZoneOp(o) == [op |-> o.op, id |-> o.id, name |-> IF o.zone = None THEN None ELSE o.zone.name]

\* A zone's share that changes nothing is left out, and so are a zone's kind and
\* prefix.
MarshalJSON(b) ==
  [version |-> Version, sets |-> SelectSeq(b.sets, LAMBDA s : ~emptySet(s)),
   ops |-> {wireZoneOp(o) : o \in b.ops},
   commits |-> b.commits, settings |-> b.settings, keys |-> b.keys, tokens |-> b.tokens]

\* A key has a secret until it is revoked and none after.
keyReads(k) == k.revoked = ~k.secret

\* A record carries its identity and its zone's.
recordReads(r) == r.id # None /\ r.zone # None

commitReads(c) == c.kind \in {"zone_create", "zone_update", "zone_delete", "edit", "import", "rollback"}

Unmarshals(w) ==
  /\ w.version = Version
  /\ \A i, j \in DOMAIN w.sets : w.sets[i].zone = w.sets[j].zone => i = j
  /\ \A s \in Range(w.sets) : \A r \in s.deletes \cup s.inserts : recordReads(r)
  /\ \A o \in w.ops : (o.name = None) <=> (o.op = "delete")
  /\ \A c \in w.commits : commitReads(c)
  /\ \A o \in w.keys : o.key = None \/ keyReads(o.key)

\* The zone an operation carries is made again from its name.
UnmarshalJSON(w) ==
  [sets |-> w.sets,
   ops |-> {[op |-> o.op, id |-> o.id,
             zone |-> IF o.name = None THEN None ELSE NewZone(o.id, o.name, None)] : o \in w.ops},
   commits |-> w.commits, settings |-> w.settings, keys |-> w.keys, tokens |-> w.tokens]

----------------------------------------------------------------------------
(* The log snapshot: a header, one element per item, an end mark. *)

Kinds == <<"settings", "tokens", "keys", "zones", "records", "commits">>

Unreadable == [kind |-> "unreadable"]

item(kind, row) ==
  [kind |-> kind, row |-> IF kind = "tokens" THEN [row EXCEPT !.used = FALSE] ELSE row]

\* Every kind in turn.  Within one the order is the table's; records come in the
\* order of their names, which puts a generated one before or after its source.
ExportReplicated(st, generatedFirst) ==
  LET rows(k) == IF k # "records" THEN SetToSeq(st[k])
                 ELSE LET made == SetToSeq({r \in st.records : r.from = None})
                          generated == SetToSeq({r \in st.records : r.from # None})
                      IN IF generatedFirst THEN generated \o made ELSE made \o generated
      stream(k) == [i \in DOMAIN rows(k) |-> item(k, rows(k)[i])]
  IN FlattenSeq([i \in DOMAIN Kinds |-> stream(Kinds[i])])

WriteSnapshot(index, writer, items) ==
  [version |-> Version, index |-> index, writer |-> writer,
   body |-> items \o <<[kind |-> "end", count |-> Len(items)]>>, whole |-> TRUE]

\* Mutant: the content ends where the stream does.
ReadsOpenEnded(f) == \A i \in DOMAIN f.body : f.body[i] # Unreadable

\* Whether the content reads to its end: every item is of a known kind, the end
\* mark is there, counts what came before it and is last.
ReadsWhole(f) ==
  LET end == Len(f.body)
  IN /\ \A i \in DOMAIN f.body : f.body[i] # Unreadable
     /\ end > 0
     /\ f.body[end].kind = "end"
     /\ f.body[end].count = end - 1
     /\ \A i \in 1 .. end - 1 : f.body[i].kind # "end"

itemsOf(f, kind) == SelectSeq(f.body, LAMBDA e : e.kind = kind)

rowsOf(f, kind) == {e.row : e \in Range(itemsOf(f, kind))}

\* Mutant: a key is put back the way one is created, which refuses a revoked one.
KeepsKeysSigning(f) ==
  \A k \in rowsOf(f, "keys") : k.secret

KeepsKeys(f) ==
  \A k \in rowsOf(f, "keys") : keyReads(k)

\* What the restored rows have to satisfy: nothing comes twice, and the foreign
\* keys hold once everything is in.
Consistent(f) ==
  /\ \A k \in Range(Kinds) : Len(itemsOf(f, k)) = Cardinality(rowsOf(f, k))
  /\ KeepsKeys(f)
  /\ \A c \in rowsOf(f, "commits") : commitReads(c)
  /\ \A r \in rowsOf(f, "records") :
       /\ recordReads(r)
       /\ r.zone \in {z.id : z \in rowsOf(f, "zones")}
       /\ r.from = None \/ r.from \in {q.id : q \in rowsOf(f, "records")}

ReplaceReplicated(f) == [k \in Range(Kinds) |-> rowsOf(f, k)]

----------------------------------------------------------------------------
(* The members. *)

NoFile == [version |-> 1, index |-> 0, writer |-> "store", body |-> <<>>, whole |-> FALSE]

\* The first entry of a log is the configuration it starts from.
Init ==
  /\ log = <<[plan |-> NoBatch, wire |-> None]>>
  /\ store = [m \in Members |-> [index |-> 0, content |-> Empty]]
  /\ stalled = [m \in Members |-> None]
  /\ file = NoFile

\* Applier.submit on the leader: a write plans alone and against everything
\* committed before it, is checked by writing it in a transaction thrown away,
\* and goes into the log encoded.
Submit(m, b) ==
  /\ m \in Leaders
  /\ stalled[m] = None
  /\ store[m].index = Len(log)
  /\ Len(log) < MaxLog
  /\ log' = Append(log, [plan |-> b, wire |-> MarshalJSON(b)])
  /\ UNCHANGED <<store, stalled, file>>

Plan(m) ==
  LET st == store[m].content
  IN \/ \E v \in Values : Submit(m, SetSettings(v))
     \/ \E z \in st.zones, o \in st.zones : Submit(m, PlanEdit(z, o))
     \/ \E n \in ZoneNames : Writable(st, PlanCreateZone(n)) /\ Submit(m, PlanCreateZone(n))
     \/ \E r \in {q \in st.records : q.from = None} : Submit(m, PlanDelete(st, r))
     \/ \E z \in st.zones : Submit(m, PlanDeleteZone(z))

\* A token is revoked only where the guard's reading of the tokens finds it.
PlanToken(m) ==
  \/ Submit(m, PlanCreateToken)
  \/ \E t \in store[m].content.tokens : Submit(m, PlanRevokeToken(t.id))

\* Nothing is read before a key's batch is made: whether the name is free, or the
\* key there, is found out by the members carrying the batch out.
PlanKey(m) ==
  \/ \E n \in KeyNames :
       /\ MayClash \/ Writable(store[m].content, PlanCreateKey(n))
       /\ Submit(m, PlanCreateKey(n))
  \/ \E id \in 1 .. Len(log) :
       /\ MayClash \/ Writable(store[m].content, PlanRevokeKey(id))
       /\ Submit(m, PlanRevokeKey(id))

stop(m, why) ==
  /\ stalled' = [stalled EXCEPT ![m] = why]
  /\ UNCHANGED <<log, store>>

\* fsm.Apply and fsm.StoreConfiguration: the next entry, in one transaction with
\* the index.
Apply(m) ==
  LET at == store[m].index + 1
      w == log[at].wire
      b == UnmarshalJSON(w)
      st == store[m].content
  IN /\ stalled[m] = None
     /\ at <= Len(log)
     /\ IF w = None
        THEN /\ store' = [store EXCEPT ![m].index = at]
             /\ UNCHANGED <<log, stalled, file>>
        ELSE IF ~Unmarshals(w) THEN stop(m, "build") /\ UNCHANGED file
        ELSE IF ~Writable(st, b) THEN stop(m, "refused") /\ UNCHANGED file
        ELSE /\ store' = [store EXCEPT ![m] = [index |-> at, content |-> write(st, b, m)]]
             /\ UNCHANGED <<log, stalled, file>>

\* A request signed with a token marks it used here and nowhere else.
TouchToken(m) ==
  \E t \in store[m].content.tokens :
    /\ ~t.used
    /\ store' = [store EXCEPT ![m].content.tokens = (@ \ {t}) \cup {[t EXCEPT !.used = TRUE]}]
    /\ UNCHANGED <<log, stalled, file>>

\* Mutant: the position is the log's rather than the one read with the content.
PersistAtEnd(m) ==
  /\ file = NoFile
  /\ store[m].index > 0
  /\ \E first \in BOOLEAN :
       file' = WriteSnapshot(Len(log), "store", ExportReplicated(store[m].content, first))
  /\ UNCHANGED <<log, store, stalled>>

Persist(m) ==
  /\ file = NoFile
  /\ store[m].index > 0
  /\ \E first \in BOOLEAN :
       file' = WriteSnapshot(store[m].index, "store", ExportReplicated(store[m].content, first))
  /\ UNCHANGED <<log, store, stalled>>

\* A witness writes a snapshot too, of nothing.
PersistWitness ==
  /\ file = NoFile
  /\ file' = WriteSnapshot(Len(log), "witness", <<>>)
  /\ UNCHANGED <<log, store, stalled>>

\* A leader of a newer build writes what this one does not read.
NewerLeader ==
  /\ Len(log) < MaxLog
  /\ log' = Append(log, [plan |-> NoBatch, wire |-> [MarshalJSON(NoBatch) EXCEPT !.version = Version + 1]])
  /\ UNCHANGED <<store, stalled, file>>

NewerSnapshot ==
  /\ file = NoFile
  /\ file' = [WriteSnapshot(Len(log), "store", <<>>) EXCEPT !.version = Version + 1]
  /\ UNCHANGED <<log, store, stalled>>

\* What a member is handed of a snapshot: all of it, or a stream that ends early,
\* lacks an element, holds one twice or one that does not read.
Delivered ==
  {file} \cup {[file EXCEPT !.whole = FALSE, !.body = b] :
     b \in UNION {{SubSeq(file.body, 1, i - 1), RemoveAt(file.body, i), InsertAt(file.body, i, file.body[i]),
                   ReplaceAt(file.body, i, Unreadable)} : i \in DOMAIN file.body}}

\* fsm.Restore: one transaction, or a stall.  A member that leads is not handed a
\* snapshot.
Restore(m) ==
  /\ m \notin Leaders
  /\ stalled[m] = None
  /\ file # NoFile
  /\ file' = NoFile
  /\ \E f \in Delivered :
       IF f.version # Version THEN stop(m, "build")
       ELSE IF f.writer # "store" THEN stop(m, "witness")
       ELSE IF ~ReadsWhole(f) \/ ~Consistent(f) THEN stop(m, IF f.whole THEN "refused" ELSE "damage")
       ELSE /\ store' = [store EXCEPT ![m] = [index |-> f.index, content |-> ReplaceReplicated(f)]]
            /\ UNCHANGED <<log, stalled>>

Next ==
  \/ \E m \in Members : Plan(m) \/ PlanToken(m) \/ PlanKey(m)
  \/ \E m \in Members : Apply(m) \/ TouchToken(m) \/ Persist(m) \/ Restore(m)
  \/ PersistWitness \/ NewerLeader \/ NewerSnapshot

Spec == Init /\ [][Next]_vars

----------------------------------------------------------------------------
(* What a member holds, apart from the stamps and the marks of its own clock. *)
Shared(st) ==
  [st EXCEPT !.tokens = {[t EXCEPT !.used = FALSE] : t \in @},
             !.zones = {[z EXCEPT !.by = None] : z \in @},
             !.records = {[r EXCEPT !.by = None] : r \in @}]

\* The content the plans of the first n entries add up to.
Expected(n) == FoldLeft(LAMBDA st, e : write(st, e.plan, None), Empty, SubSeq(log, 1, n))

\* A member holds what the log up to its index says, whether it carried the
\* entries out itself, was put back from a snapshot another member wrote, or was
\* handed a snapshot cut short, with an element missing, doubled or unreadable:
\* encoding, decoding, exporting and restoring lose nothing and a restore lands
\* whole or not at all.
StoreIsItsIndex ==
  \A m \in Members : Shared(store[m].content) = Shared(Expected(store[m].index))

\* A member stops only over what it cannot read: another build's encoding, a
\* damaged stream or a witness's snapshot.  An entry the leader planned, or a
\* whole snapshot of the same build, is never refused.
NeverRefuses ==
  \A m \in Members : stalled[m] # "refused"
=============================================================================
