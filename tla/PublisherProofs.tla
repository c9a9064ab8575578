---------------------------- MODULE PublisherProofs ----------------------------
(***************************************************************************)
(* Publishing: no rebuild drops what another had just put in, for any      *)
(* number of zones, copies and writers and any number of writes.           *)
(***************************************************************************)
EXTENDS Serving, TLAPS

Value == [id : Nat, ver : Nat, on : BOOLEAN]

\* What a hook may owe; a load is of all zones and names none.
Hooks == {h \in [zones : SUBSET (Names \X Nat), copies : SUBSET Copies, load : BOOLEAN] :
             h.load => h.zones = {}}

\* What a rebuild that has read holds: each thing it is about as the store has it,
\* or as it was before a write whose hook is still to run, and the rest of the
\* snapshot as it is in force.
Built(w) ==
    /\ \/ (owed[w].load \/ owed[w].zones # {}) /\ DOMAIN next[w] = Names
       \/ /\ ~owed[w].load /\ owed[w].zones = {}
          /\ \E c \in owed[w].copies : DOMAIN next[w] = {c}
    /\ \A t \in DOMAIN next[w] :
          IF t \in P!About(w)
          THEN next[w][t] = P!Current(t) \/ \E v \in Writers \ {w} : P!Owes(v, t)
          ELSE next[w][t] = copy[t]

\* A zone the hook is to rebuild is there under the identity the hook was given,
\* or is gone.
SameZone(w) == \A z \in owed[w].zones : store[z[1]].id \in {0, z[2]}

PubTypes ==
    /\ clock \in Nat
    /\ store \in [P!Things -> Value]
    /\ DOMAIN copy = P!Things
    /\ owed \in [Writers -> Hooks]
    /\ DOMAIN next = Writers

\* The inductive invariant.  Whoever has read holds the lock, so that what it
\* read of the snapshot cannot change before it is installed.
PubInv ==
    /\ PubTypes
    /\ \A w \in Writers : next[w] # P!Unread => mu = {w} /\ Built(w)
    /\ \A w \in Writers : SameZone(w)
    /\ P!CopiesCurrent

-----------------------------------------------------------------------------
(* Writes.                                                                 *)

\* What a hook has to rebuild.
Covers(hook, t) ==
    \/ t \in hook.copies
    \/ t \in Names /\ hook.load
    \/ \E z \in hook.zones : z[1] = t

\* A write whose hook covers all that it changes keeps the invariant: it owes what
\* is no longer current, also to a rebuild that has already read.
LEMMA WriteKeeps ==
  ASSUME PubInv, NEW w \in Writers, NEW changed, NEW hook \in Hooks, P!Write(w, changed, hook),
         \A t \in DOMAIN changed : changed[t] \in Value /\ Covers(hook, t),
         \A z \in hook.zones : store'[z[1]].id \in {0, z[2]},
         \A v \in Writers : \A z \in owed[v].zones : store'[z[1]].id \in {0, z[2]}
  PROVE  PubInv'
<1>1. /\ owed[w] = P!Nothing /\ w \notin mu /\ clock' = clock + 1
      /\ store' = [t \in P!Things |-> IF t \in DOMAIN changed THEN changed[t] ELSE store[t]]
      /\ owed' = [owed EXCEPT ![w] = hook]
      /\ UNCHANGED <<copy, mu, next, stale>>
  BY DEF P!Write
<1>2. PubTypes  BY DEF PubInv
<1>3. owed'[w] = hook /\ \A v \in Writers \ {w} : owed'[v] = owed[v]  BY <1>1, <1>2 DEF PubTypes
<1>4. \A t : ~P!Owes(w, t)  BY <1>1 DEF P!Owes, P!Nothing
<1>5. \A t : P!Owes(w, t)' <=> Covers(hook, t)  BY <1>3 DEF P!Owes, Covers
<1>6. \A v \in Writers \ {w} : \A t : P!Owes(v, t)' <=> P!Owes(v, t)  BY <1>3 DEF P!Owes
<1>7. \A t \in P!Things : t \notin DOMAIN changed => P!Current(t)' = P!Current(t)
  BY <1>1 DEF P!Current
<1>8. PubTypes'
  <2>1. store' \in [P!Things -> Value]  BY <1>1, <1>2 DEF PubTypes
  <2>2. owed' \in [Writers -> Hooks]  BY <1>1, <1>2 DEF PubTypes
  <2> QED BY <1>1, <1>2, <2>1, <2>2 DEF PubTypes
<1>9. ASSUME NEW v \in Writers, next'[v] # P!Unread PROVE mu' = {v} /\ Built(v)'
  <2>1. mu = {v} /\ Built(v) /\ v # w /\ next'[v] = next[v]  BY <1>1, <1>9 DEF PubInv
  <2>2. owed'[v] = owed[v] /\ P!About(v)' = P!About(v)  BY <1>1, <1>3, <2>1 DEF P!About
  <2>3. DOMAIN next[v] \subseteq P!Things
    <3>1. owed[v].copies \subseteq Copies  BY <1>2 DEF PubTypes, Hooks
    <3> QED BY <2>1, <3>1 DEF Built, P!Things
  <2>4. ASSUME NEW t \in DOMAIN next[v], t \in P!About(v)
        PROVE  next[v][t] = P!Current(t)' \/ \E u \in Writers \ {v} : P!Owes(u, t)'
    <3>1. CASE t \in DOMAIN changed  BY <1>5, <2>1, <3>1
    <3>2. CASE \E u \in Writers \ {v} : P!Owes(u, t)  BY <1>4, <1>6, <3>2
    <3>3. CASE t \notin DOMAIN changed /\ next[v][t] = P!Current(t)  BY <1>7, <2>3, <3>3
    <3> QED BY <2>1, <2>4, <3>1, <3>2, <3>3 DEF Built
  <2>5. \A t \in DOMAIN next[v] : t \notin P!About(v) => next[v][t] = copy'[t]
    BY <1>1, <2>1 DEF Built
  <2> QED BY <1>1, <2>1, <2>2, <2>4, <2>5 DEF Built
<1>10. \A v \in Writers : SameZone(v)'  BY <1>3 DEF SameZone
<1>11. P!CopiesCurrent'
  <2> SUFFICES ASSUME NEW t \in P!Things
               PROVE  copy'[t] = P!Current(t)' \/ t \in stale' \/ \E v \in Writers : P!Owes(v, t)'
    BY DEF P!CopiesCurrent
  <2>1. CASE t \in DOMAIN changed  BY <1>5, <2>1
  <2>2. CASE t \notin DOMAIN changed
    <3>1. copy[t] = P!Current(t) \/ t \in stale \/ \E v \in Writers : P!Owes(v, t)
      BY DEF PubInv, P!CopiesCurrent
    <3> QED BY <1>1, <1>4, <1>6, <1>7, <2>2, <3>1
  <2> QED BY <2>1, <2>2
<1> QED BY <1>8, <1>9, <1>10, <1>11 DEF PubInv

\* A change of zones that are there leaves them their identity.
LEMMA ChangeZonesKeeps ==
  ASSUME PubInv, NEW w \in Writers, NEW ns \in SUBSET Names, NEW on \in BOOLEAN, P!ChangeZones(w, ns, on)
  PROVE  PubInv'
<1>1. PICK changed : changed = [n \in ns |-> [id |-> store[n].id, ver |-> clock + 1, on |-> on]]  BY ZenonT(30)
<1>2. PICK hook : hook = P!Touched({<<n, store[n].id>> : n \in ns})  OBVIOUS
<1>3. P!Write(w, changed, hook)  BY <1>1, <1>2 DEF P!ChangeZones
<1>4. PubTypes /\ \A n \in Names : n \in P!Things /\ store[n].id \in Nat
  BY DEF PubInv, PubTypes, Value, P!Things
<1>5. hook \in Hooks  BY <1>2, <1>4 DEF Hooks, P!Touched
<1>6. \A t \in DOMAIN changed : changed[t] \in Value /\ Covers(hook, t)
  <2>1. \A t \in ns : changed[t] \in Value  BY <1>1, <1>4 DEF PubTypes, Value
  <2>2. \A t \in ns : <<t, store[t].id>> \in hook.zones  BY <1>2 DEF P!Touched
  <2>3. \A t \in ns : Covers(hook, t)  BY <2>2, ZenonT(30) DEF Covers
  <2> QED BY <1>1, <2>1, <2>3
<1>7. \A n \in Names : store'[n].id = store[n].id  BY <1>1, <1>3, <1>4 DEF P!Write
<1>8. \A z \in hook.zones : store'[z[1]].id \in {0, z[2]}  BY <1>2, <1>7 DEF P!Touched
<1>9. \A v \in Writers : \A z \in owed[v].zones : store'[z[1]].id \in {0, z[2]}
  <2>1. \A v \in Writers : \A z \in owed[v].zones : z[1] \in Names  BY <1>4 DEF PubTypes, Hooks
  <2> QED BY <1>7, <2>1 DEF PubInv, SameZone
<1> QED BY <1>3, <1>5, <1>6, <1>8, <1>9, WriteKeeps

\* A zone is created under a new identity, and no hook is left that knew another
\* one of that name.
LEMMA CreateZoneKeeps ==
  ASSUME ~Overtakes, PubInv, NEW w \in Writers, NEW n \in Names, P!CreateZone(w, n) PROVE PubInv'
<1>1. PICK changed : changed = [t \in {n} |-> [id |-> clock + 1, ver |-> clock + 1, on |-> TRUE]]  BY ZenonT(30)
<1>2. PICK hook : hook = P!Touched({<<n, clock + 1>>})  OBVIOUS
<1>3. P!Write(w, changed, hook)  BY <1>1, <1>2 DEF P!CreateZone
<1>4. PubTypes /\ clock \in Nat /\ n \in P!Things  BY DEF PubInv, PubTypes, P!Things
<1>5. hook \in Hooks  BY <1>2, <1>4 DEF Hooks, P!Touched
<1>6. \A t \in DOMAIN changed : changed[t] \in Value /\ Covers(hook, t)
  <2>1. changed[n] \in Value /\ DOMAIN changed = {n}  BY <1>1, <1>4 DEF Value
  <2>2. <<n, clock + 1>> \in hook.zones  BY <1>2 DEF P!Touched
  <2>3. Covers(hook, n)  BY <2>2 DEF Covers
  <2> QED BY <2>1, <2>3
<1>7. store'[n].id = clock + 1 /\ \A t \in P!Things : t # n => store'[t] = store[t]
  BY <1>1, <1>3, <1>4 DEF P!Write
<1>8. \A z \in hook.zones : store'[z[1]].id \in {0, z[2]}  BY <1>2, <1>7 DEF P!Touched
<1>9. \A v \in Writers : \A z \in owed[v].zones : store'[z[1]].id \in {0, z[2]}
  <2>1. \A v \in Writers : \A z \in owed[v].zones : z[1] \in P!Things /\ z[1] # n
    BY <1>4, SMTT(30), ZenonT(30) DEF PubTypes, Hooks, P!CreateZone, P!Things
  <2> QED BY <1>7, <2>1 DEF PubInv, SameZone
<1> QED BY <1>3, <1>5, <1>6, <1>8, <1>9, WriteKeeps

\* A deleted zone is told to its hook by the identity it had.
LEMMA DeleteZoneKeeps ==
  ASSUME PubInv, NEW w \in Writers, NEW n \in Names, P!DeleteZone(w, n) PROVE PubInv'
<1>1. PICK changed : changed = [t \in {n} |-> [id |-> 0, ver |-> clock + 1, on |-> TRUE]]  BY ZenonT(30)
<1>2. PICK hook : hook = P!Touched({<<n, store[n].id>>})  OBVIOUS
<1>3. P!Write(w, changed, hook)  BY <1>1, <1>2 DEF P!DeleteZone
<1>4. PubTypes /\ clock \in Nat /\ n \in P!Things /\ store[n].id \in Nat
  BY DEF PubInv, PubTypes, Value, P!Things
<1>5. hook \in Hooks  BY <1>2, <1>4 DEF Hooks, P!Touched
<1>6. \A t \in DOMAIN changed : changed[t] \in Value /\ Covers(hook, t)
  <2>1. changed[n] \in Value /\ DOMAIN changed = {n}  BY <1>1, <1>4 DEF Value
  <2>2. <<n, store[n].id>> \in hook.zones  BY <1>2 DEF P!Touched
  <2>3. Covers(hook, n)  BY <2>2 DEF Covers
  <2> QED BY <2>1, <2>3
<1>7. store'[n].id = 0 /\ \A t \in P!Things : t # n => store'[t] = store[t]
  BY <1>1, <1>3, <1>4 DEF P!Write
<1>8. \A z \in hook.zones : store'[z[1]].id \in {0, z[2]}  BY <1>2, <1>7 DEF P!Touched
<1>9. \A v \in Writers : \A z \in owed[v].zones : store'[z[1]].id \in {0, z[2]}
  <2>1. \A v \in Writers : \A z \in owed[v].zones : z[1] \in P!Things
    BY <1>4 DEF PubTypes, Hooks, P!Things
  <2> QED BY <1>7, <2>1 DEF PubInv, SameZone
<1> QED BY <1>3, <1>5, <1>6, <1>8, <1>9, WriteKeeps, ZenonT(30)

\* A key or a setting.
LEMMA ChangeCopyKeeps ==
  ASSUME PubInv, NEW w \in Writers, NEW c \in Copies, P!ChangeCopy(w, c) PROVE PubInv'
<1>1. PICK changed : changed = [t \in {c} |-> [id |-> 1, ver |-> clock + 1, on |-> TRUE]]  BY ZenonT(30)
<1>2. PICK hook : hook = [zones |-> {}, copies |-> {c}, load |-> FALSE]  BY ZenonT(30)
<1>3. P!Write(w, changed, hook)  BY <1>1, <1>2 DEF P!ChangeCopy
<1>4. PubTypes /\ clock \in Nat  BY DEF PubInv, PubTypes
<1>5. hook \in Hooks  BY <1>2 DEF Hooks
<1>6. \A t \in DOMAIN changed : changed[t] \in Value /\ Covers(hook, t)
  BY <1>1, <1>2, <1>4, SMTT(30), ZenonT(30) DEF Value, Covers
<1>7. \A t \in P!Things : t # c => store'[t] = store[t]  BY <1>1, <1>3, SMTT(30), ZenonT(30) DEF P!Write
<1>8. \A z \in hook.zones : store'[z[1]].id \in {0, z[2]}  BY <1>2
<1>9. \A v \in Writers : \A z \in owed[v].zones : store'[z[1]].id \in {0, z[2]}
  <2>1. \A v \in Writers : \A z \in owed[v].zones : z[1] \in P!Things /\ z[1] # c
    BY <1>4, ServingAssumption, SMTT(30), ZenonT(30) DEF PubTypes, Hooks, P!Things
  <2> QED BY <1>7, <2>1 DEF PubInv, SameZone
<1> QED BY <1>3, <1>5, <1>6, <1>8, <1>9, WriteKeeps

\* A restored snapshot changes everything and owes everything.
LEMMA RestoreKeeps ==
  ASSUME PubInv, NEW w \in Writers, P!Restore(w) PROVE PubInv'
<1>1. PICK gone \in SUBSET Names :
        P!Write(w, [t \in P!Things |-> [id |-> IF t \in gone THEN 0 ELSE clock + 1,
                                        ver |-> clock + 1, on |-> TRUE]],
                [zones |-> {}, copies |-> Copies, load |-> TRUE])
  BY ZenonT(30) DEF P!Restore
<1>2. PICK changed : changed = [t \in P!Things |-> [id |-> IF t \in gone THEN 0 ELSE clock + 1,
                                                   ver |-> clock + 1, on |-> TRUE]]
  BY ZenonT(30)
<1>3. PICK hook : hook = [zones |-> {}, copies |-> Copies, load |-> TRUE]  BY ZenonT(30)
<1>4. P!Write(w, changed, hook)  BY <1>1, <1>2, <1>3, ZenonT(30)
<1>5. hook \in Hooks  BY <1>3 DEF Hooks
<1>6. clock \in Nat  BY SMTT(30), ZenonT(30) DEF PubInv, PubTypes
<1>7. \A t \in DOMAIN changed : changed[t] \in Value /\ Covers(hook, t)
  BY <1>2, <1>3, <1>6, SMTT(30), ZenonT(30) DEF Value, Covers, P!Things
<1>8. \A v \in Writers : owed[v].zones = {}  BY SMTT(30), ZenonT(30) DEF P!Restore, P!Nothing
<1> QED BY <1>3, <1>4, <1>5, <1>7, <1>8, WriteKeeps, ZenonT(30)

-----------------------------------------------------------------------------
(* The hook.                                                               *)

\* Nobody else has read while a writer may enter, and reading changes nothing that
\* is answered from.
LEMMA ReadKeeps ==
  ASSUME PubInv, NEW w \in Writers, P!MayEnter(w), mu' = {w}, DOMAIN next' = Writers,
         \A v \in Writers \ {w} : next'[v] = next[v],
         UNCHANGED <<clock, store, copy, owed, stale>>, Built(w)'
  PROVE  PubInv'
<1>1. PubTypes'  BY SMTT(30), ZenonT(30) DEF PubInv, PubTypes
<1>2. \A v \in Writers : next'[v] # P!Unread => mu' = {v} /\ Built(v)'
  BY ZenonT(30) DEF PubInv, P!MayEnter
<1>3. \A v \in Writers : SameZone(v)'  BY ZenonT(30) DEF PubInv, SameZone
<1>4. P!CopiesCurrent'  BY ZenonT(30) DEF PubInv, P!CopiesCurrent, P!Current, P!Owes
<1> QED BY <1>1, <1>2, <1>3, <1>4, ZenonT(30) DEF PubInv

\* Publisher.zones reads each touched zone as the store has it.
LEMMA ReadZonesKeeps ==
  ASSUME PubInv, NEW w \in Writers, ~owed[w].load, P!ReadZones(w) PROVE PubInv'
<1> DEFINE Zone(n) == CHOOSE z \in owed[w].zones : z[1] = n
           About == {z[1] : z \in owed[w].zones}
           read == [n \in Names |-> IF \E z \in owed[w].zones : z[1] = n
                                    THEN P!WithZone(n, Zone(n)[2]) ELSE copy[n]]
<1>1. /\ P!MayEnter(w) /\ mu' = {w} /\ owed[w].zones # {}
      /\ next' = [next EXCEPT ![w] = read]
      /\ UNCHANGED <<clock, store, copy, owed, stale>>
  BY ZenonT(30) DEF P!ReadZones
<1>2. next'[w] = read /\ DOMAIN next' = Writers /\ \A v \in Writers \ {w} : next'[v] = next[v]
  <2> HIDE DEF read
  <2> QED BY <1>1, ZenonT(30) DEF PubInv, PubTypes
<1>3. P!About(w)' = About  BY <1>1, ZenonT(30) DEF P!About
<1>4. ASSUME NEW n \in Names, n \in About PROVE read[n] = P!Current(n)
  <2>1. \E z \in owed[w].zones : z[1] = n  BY <1>4
  <2>2. Zone(n) \in owed[w].zones /\ Zone(n)[1] = n  BY <2>1, SMTT(30), ZenonT(30)
  <2>3. store[n].id \in {0, Zone(n)[2]}  BY <2>2, SMTT(30), ZenonT(30) DEF PubInv, SameZone
  <2>4. P!WithZone(n, Zone(n)[2]) = P!Current(n)  BY <2>3, SMTT(30), ZenonT(30) DEF P!WithZone, P!Current
  <2> QED BY <2>1, <2>4, ZenonT(30)
<1>5. \A n \in Names : n \notin About => read[n] = copy[n]  BY SMTT(30), ZenonT(30)
<1>6. \A n : P!Current(n)' = P!Current(n)  BY <1>1, ZenonT(30) DEF P!Current
<1>7. Built(w)'
  <2>1. DOMAIN read = Names  BY ZenonT(30)
  <2> HIDE DEF read, About
  <2> QED BY <1>1, <1>2, <1>3, <1>4, <1>5, <1>6, <2>1, ZenonT(30) DEF Built
<1> QED BY <1>1, <1>2, <1>7, ReadKeeps, ZenonT(30)

\* Publisher.Load reads every zone, and the other copies are read one at a time.
LEMMA ReadOthersKeeps ==
  ASSUME PubInv, NEW w \in Writers, P!ReadAll(w) \/ \E c \in Copies : P!ReadCopy(w, c) PROVE PubInv'
<1> \A n : store' = store => P!Current(n)' = P!Current(n)  BY SMTT(30), ZenonT(30) DEF P!Current
<1>1. CASE P!ReadAll(w)
  <2>1. /\ P!MayEnter(w) /\ mu' = {w} /\ owed[w].load
        /\ next' = [next EXCEPT ![w] = [n \in Names |-> P!Current(n)]]
        /\ UNCHANGED <<clock, store, copy, owed, stale>>
    BY <1>1, SMTT(30), ZenonT(30) DEF P!ReadAll
  <2>2. /\ next'[w] = [n \in Names |-> P!Current(n)] /\ DOMAIN next' = Writers
        /\ \A v \in Writers \ {w} : next'[v] = next[v]
    BY <2>1, SMTT(30), ZenonT(30) DEF PubInv, PubTypes
  <2>3. P!About(w)' = Names  BY <2>1, ZenonT(30) DEF P!About
  <2>4. Built(w)'  BY <2>1, <2>2, <2>3, ZenonT(30) DEF Built
  <2> QED BY <2>1, <2>2, <2>4, ReadKeeps
<1>2. ASSUME NEW c \in Copies, P!ReadCopy(w, c) PROVE PubInv'
  <2>1. /\ P!MayEnter(w) /\ mu' = {w} /\ owed[w].zones = {} /\ ~owed[w].load /\ c \in owed[w].copies
        /\ next' = [next EXCEPT ![w] = [t \in {c} |-> P!Current(c)]]
        /\ UNCHANGED <<clock, store, copy, owed, stale>>
    BY <1>2, ZenonT(30) DEF P!ReadCopy
  <2>2. /\ next'[w] = [t \in {c} |-> P!Current(c)] /\ DOMAIN next' = Writers
        /\ \A v \in Writers \ {w} : next'[v] = next[v]
    BY <2>1, ZenonT(30) DEF PubInv, PubTypes
  <2>3. DOMAIN next'[w] = {c} /\ next'[w][c] = P!Current(c)  BY <2>2, SMTT(30), ZenonT(30)
  <2>4. P!About(w)' = {c}  BY <2>1, <2>3, ZenonT(30) DEF P!About
  <2>5. Built(w)'  BY <2>1, <2>3, <2>4, ZenonT(30) DEF Built
  <2> QED BY <2>1, <2>2, <2>5, ReadKeeps, ZenonT(30)
<1> QED BY <1>1, <1>2, SMTT(30), ZenonT(30)

\* What a hook owes beyond the rebuild it is at is some other copy.
LEMMA OwesBeyond ==
  ASSUME PubTypes, NEW w \in Writers, NEW t, P!Owes(w, t), t \notin P!About(w)
  PROVE  t \in owed[w].copies
<1>1. \A z \in owed[w].zones : z[1] \in Names  BY SMTT(30), ZenonT(30) DEF PubTypes, Hooks
<1> QED BY <1>1, ZenonT(30) DEF P!Owes, P!About

\* A rebuild that ends, either way: the writer's hook owes less and has read nothing.
LEMMA EndKeeps ==
  ASSUME PubInv, NEW w \in Writers, next[w] # P!Unread, NEW left \in SUBSET Copies,
         owed' = [owed EXCEPT ![w] = [zones |-> {}, copies |-> left, load |-> FALSE]],
         next' = [next EXCEPT ![w] = P!Unread], DOMAIN copy' = P!Things,
         UNCHANGED <<clock, store, mu>>, P!CopiesCurrent'
  PROVE  PubInv'
<1>1. PubTypes /\ mu = {w}  BY ZenonT(30) DEF PubInv
<1>2. next'[w] = P!Unread /\ \A v \in Writers \ {w} : next'[v] = next[v]  BY <1>1, ZenonT(30) DEF PubTypes
<1>3. \A v \in Writers : next'[v] = P!Unread  BY <1>1, <1>2, SMTT(30), ZenonT(30) DEF PubInv
<1>4. owed'[w].zones = {} /\ \A v \in Writers \ {w} : owed'[v] = owed[v]  BY <1>1, ZenonT(30) DEF PubTypes
<1>5. PubTypes'
  <2>1. [zones |-> {}, copies |-> left, load |-> FALSE] \in Hooks  BY ZenonT(30) DEF Hooks
  <2>2. owed' \in [Writers -> Hooks]  BY <1>1, <2>1, ZenonT(30) DEF PubTypes
  <2> QED BY <1>1, <2>2, ZenonT(30) DEF PubTypes
<1>6. \A v \in Writers : SameZone(v)'  BY <1>4, ZenonT(30) DEF PubInv, SameZone
<1> QED BY <1>3, <1>5, <1>6, ZenonT(30) DEF PubInv

\* SetSnapshot: what was read of a thing is current, or someone else owes it; the
\* rest goes in as it was.
LEMMA InstallKeeps ==
  ASSUME PubInv, NEW w \in Writers, P!Install(w) PROVE PubInv'
<1>1. /\ next[w] # P!Unread
      /\ copy' = [t \in P!Things |-> IF t \in DOMAIN next[w] THEN next[w][t] ELSE copy[t]]
      /\ stale' = stale \ P!About(w)
      /\ owed' = [owed EXCEPT ![w] = [zones |-> {}, copies |-> owed[w].copies \ P!About(w), load |-> FALSE]]
      /\ next' = [next EXCEPT ![w] = P!Unread]
      /\ UNCHANGED <<clock, store, mu>>
  BY ZenonT(30) DEF P!Install
<1>2. PubTypes /\ Built(w)  BY <1>1, ZenonT(30) DEF PubInv
<1>3. owed[w] \in Hooks /\ owed[w].copies \subseteq Copies  BY <1>2, SMTT(30), ZenonT(30) DEF PubTypes, Hooks
<1>4. P!About(w) \subseteq DOMAIN next[w]
  <2>1. \A z \in owed[w].zones : z[1] \in Names  BY <1>3, SMTT(30), ZenonT(30) DEF Hooks
  <2> QED BY <1>2, <2>1, ZenonT(30) DEF Built, P!About
<1>5. /\ owed'[w] = [zones |-> {}, copies |-> owed[w].copies \ P!About(w), load |-> FALSE]
      /\ \A v \in Writers \ {w} : owed'[v] = owed[v]
  BY <1>1, <1>2, ZenonT(30) DEF PubTypes
<1>6. \A v \in Writers \ {w} : \A t : P!Owes(v, t)' <=> P!Owes(v, t)  BY <1>5, ZenonT(30) DEF P!Owes
<1>7. \A t : P!Current(t)' = P!Current(t)  BY <1>1, ZenonT(30) DEF P!Current
<1>8. ASSUME NEW t \in P!Things
      PROVE  copy'[t] = P!Current(t)' \/ t \in stale' \/ \E v \in Writers : P!Owes(v, t)'
  <2>1. CASE t \in P!About(w)
    <3>1. copy'[t] = next[w][t]  BY <1>1, <1>4, <2>1, ZenonT(30)
    <3>2. next[w][t] = P!Current(t) \/ \E v \in Writers \ {w} : P!Owes(v, t)
      BY <1>2, <1>4, <2>1, ZenonT(30) DEF Built
    <3> QED BY <1>6, <1>7, <3>1, <3>2, ZenonT(30)
  <2>2. CASE t \notin P!About(w)
    <3>1. copy'[t] = copy[t]  BY <1>1, <1>2, <2>2, ZenonT(30) DEF Built
    <3>2. CASE copy[t] = P!Current(t) \/ t \in stale  BY <1>1, <1>7, <2>2, <3>1, <3>2, ZenonT(30)
    <3>3. CASE \E v \in Writers \ {w} : P!Owes(v, t)  BY <1>6, <3>3, SMTT(30), ZenonT(30)
    <3>4. CASE P!Owes(w, t)
      <4>1. t \in owed'[w].copies  BY <1>2, <1>5, <2>2, <3>4, OwesBeyond, SMTT(30), ZenonT(30)
      <4> QED BY <4>1, ZenonT(30) DEF P!Owes
    <3> QED BY <3>2, <3>3, <3>4, ZenonT(30) DEF PubInv, P!CopiesCurrent
  <2> QED BY <2>1, <2>2, SMTT(30), ZenonT(30)
<1>9. P!CopiesCurrent'  BY <1>8 DEF P!CopiesCurrent
<1> QED BY <1>1, <1>3, <1>9, EndKeeps, ZenonT(30)

\* report: everything a failed rebuild was about is known to be stale.
LEMMA FailKeeps ==
  ASSUME PubInv, NEW w \in Writers, P!Fail(w) PROVE PubInv'
<1> DEFINE left == IF owed[w].load THEN {} ELSE owed[w].copies \ P!About(w)
<1>1. /\ next[w] # P!Unread
      /\ stale' = stale \cup P!About(w) \cup (IF owed[w].load THEN Copies ELSE {})
      /\ owed' = [owed EXCEPT ![w] = [zones |-> {}, copies |-> left, load |-> FALSE]]
      /\ next' = [next EXCEPT ![w] = P!Unread]
      /\ UNCHANGED <<clock, store, copy, mu>>
  BY ZenonT(30) DEF P!Fail
<1>2. PubTypes  BY DEF PubInv
<1>3. owed[w].copies \subseteq Copies /\ left \in SUBSET Copies  BY <1>2, SMTT(30), ZenonT(30) DEF PubTypes, Hooks
<1>4. owed'[w].copies = left /\ \A v \in Writers \ {w} : owed'[v] = owed[v]
  <2> HIDE DEF left
  <2> QED BY <1>1, <1>2, ZenonT(30) DEF PubTypes
<1>5. \A v \in Writers \ {w} : \A t : P!Owes(v, t)' <=> P!Owes(v, t)  BY <1>4, ZenonT(30) DEF P!Owes
<1>6. ASSUME NEW t \in P!Things
      PROVE  copy'[t] = P!Current(t)' \/ t \in stale' \/ \E v \in Writers : P!Owes(v, t)'
  <2>1. CASE t \in P!About(w)  BY <1>1, <2>1, ZenonT(30)
  <2>2. CASE copy[t] = P!Current(t) \/ t \in stale  BY <1>1, <2>2, ZenonT(30) DEF P!Current
  <2>3. CASE \E v \in Writers \ {w} : P!Owes(v, t)  BY <1>5, <2>3, SMTT(30), ZenonT(30)
  <2>4. CASE P!Owes(w, t) /\ t \notin P!About(w)
    <3>1. t \in owed[w].copies  BY <1>2, <2>4, OwesBeyond, SMTT(30), ZenonT(30)
    <3>2. t \in stale' \/ t \in left  BY <1>1, <1>3, <2>4, <3>1, ZenonT(30)
    <3> QED BY <1>4, <3>2, ZenonT(30) DEF P!Owes
  <2> QED BY <2>1, <2>2, <2>3, <2>4, ZenonT(30) DEF PubInv, P!CopiesCurrent
<1>7. P!CopiesCurrent'  BY <1>6, SMTT(30), ZenonT(30) DEF P!CopiesCurrent
<1> HIDE DEF left
<1> QED BY <1>1, <1>2, <1>3, <1>7, EndKeeps, ZenonT(30) DEF PubTypes

\* A step that leaves the store, what is answered from and what is owed, with nobody
\* holding what it read.
LEMMA StaysKept ==
  ASSUME PubInv, UNCHANGED <<clock, store, copy, owed, next, stale>>,
         UNCHANGED mu \/ \A v \in Writers : next[v] = P!Unread
  PROVE  PubInv'
<1>1. PubTypes'  BY SMTT(30), ZenonT(30) DEF PubInv, PubTypes
<1>2. \A v \in Writers : SameZone(v)'  BY ZenonT(30) DEF PubInv, SameZone
<1>3. \A t : P!Current(t)' = P!Current(t)  BY SMTT(30), ZenonT(30) DEF P!Current
<1>4. \A v, t : P!Owes(v, t)' = P!Owes(v, t)  BY SMTT(30), ZenonT(30) DEF P!Owes
<1>5. P!CopiesCurrent'  BY <1>3, <1>4, SMTT(30), ZenonT(30) DEF PubInv, P!CopiesCurrent
<1>6. \A v \in Writers : Built(v)' = Built(v)
  <2>1. \A v : P!About(v)' = P!About(v)  BY SMTT(30), ZenonT(30) DEF P!About
  <2> QED BY <1>3, <1>4, <2>1, ZenonT(30) DEF Built
<1>7. \A v \in Writers : (next[v] # P!Unread)' => mu' = {v} /\ Built(v)'  BY <1>6, SMTT(30), ZenonT(30) DEF PubInv
<1> QED BY <1>1, <1>2, <1>5, <1>7, SMTT(30), ZenonT(30) DEF PubInv

\* The lock goes back only from a hook that is done.
LEMMA UnlockKeeps ==
  ASSUME PubInv, NEW w \in Writers, P!Unlock(w) PROVE PubInv'
<1>1. mu = {w} /\ owed[w] = P!Nothing /\ UNCHANGED <<clock, store, copy, owed, next, stale>>
  BY SMTT(30), ZenonT(30) DEF P!Unlock
<1>2. owed[w].load = FALSE /\ owed[w].zones = {} /\ owed[w].copies = {}  BY <1>1, SMTT(30), ZenonT(30) DEF P!Nothing
<1>3. ~Built(w)  BY <1>2, ZenonT(30) DEF Built
<1>4. \A v \in Writers : next[v] # P!Unread => mu = {v} /\ Built(v)  BY SMTT(30), ZenonT(30) DEF PubInv
<1>5. \A v \in Writers : next[v] = P!Unread  BY <1>1, <1>3, <1>4
<1> QED BY <1>1, <1>5, StaysKept, ZenonT(30)


\* Every step keeps what is answered from accounted for.
LEMMA PubStep == ~Overtakes /\ PubInv /\ [Next]_vars => PubInv'
<1> SUFFICES ASSUME ~Overtakes, PubInv, [Next]_vars PROVE PubInv'
  BY SMTT(30), ZenonT(30)
<1>1. CASE UNCHANGED publisher
  BY <1>1, StaysKept, SMTT(30), ZenonT(30) DEF publisher
<1>2. CASE P!Next
  <2>1. PICK w \in Writers :
           \/ \E ns \in SUBSET Names, on \in BOOLEAN : P!ChangeZones(w, ns, on)
           \/ \E n \in Names : P!CreateZone(w, n) \/ P!DeleteZone(w, n)
           \/ \E c \in Copies : P!ChangeCopy(w, c)
           \/ P!Restore(w)
           \/ P!Hook(w)
    BY <1>2, SMTT(30), ZenonT(30) DEF P!Next
  <2>2. CASE P!Hook(w)
    <3>1. P!ReadZones(w) => ~owed[w].load
      BY ZenonT(30) DEF PubInv, PubTypes, Hooks, P!ReadZones
    <3> QED BY <2>2, <3>1, ReadZonesKeeps, ReadOthersKeeps, InstallKeeps, FailKeeps, UnlockKeeps, ZenonT(30) DEF P!Hook
  <2> QED BY <2>1, <2>2, ChangeZonesKeeps, CreateZoneKeeps, DeleteZoneKeeps, ChangeCopyKeeps, RestoreKeeps
<1> QED BY <1>1, <1>2 DEF Next, Publishing, Answering, Telling, vars

\* Whatever hooks of whatever writes run in whatever order, each thing is answered
\* from as the store holds it, or a hook that will rebuild it is still to run, or its
\* last rebuild was reported as failed, provided no name is created again before the
\* hook of its deletion ran (Publisher.mu, zones, Load, withZone, report).
THEOREM NothingIsDropped ==
  ASSUME ~Overtakes PROVE Spec => []CopiesCurrent
<1>1. Init => PubInv
  <2> SUFFICES ASSUME Init PROVE PubInv
    OBVIOUS
  <2>1. P!Init  BY SMTT(30), ZenonT(30) DEF Init
  <2>2. PubTypes
    <3>1. P!Nothing \in Hooks  BY ZenonT(30) DEF P!Nothing, Hooks
    <3> QED BY <2>1, <3>1, SMTT(30), ZenonT(30) DEF P!Init, PubTypes, Value
  <2>3. \A w \in Writers : next[w] = P!Unread /\ owed[w].zones = {}  BY <2>1, ZenonT(30) DEF P!Init, P!Nothing
  <2>4. P!CopiesCurrent  BY <2>1 DEF P!Init, P!CopiesCurrent, P!Current
  <2> QED BY <2>2, <2>3, <2>4, ZenonT(30) DEF PubInv, SameZone
<1>2. PubInv => CopiesCurrent  BY DEF PubInv, CopiesCurrent
<1>3. PubInv /\ [Next]_vars => PubInv'  BY PubStep
<1> QED BY <1>1, <1>2, <1>3, PTL DEF Spec

================================================================================
