------------------------------ MODULE Publisher ------------------------------
(***************************************************************************)
(* Copying the store into what queries are answered from.                  *)
(*                                                                         *)
(* A thing is a zone name or one of the other copies (keys, transfer list, *)
(* notify list, cookie secrets, resolvers).  The store holds for each      *)
(* thing the write that last changed it, and for a zone the identity it    *)
(* was created with: a zone is found by its identity and dropped by its    *)
(* name.  The hook of a write runs on the goroutine that made the write,   *)
(* after the commit and with nothing held, so hooks run in any order.      *)
(***************************************************************************)
EXTENDS Naturals, FiniteSets

CONSTANTS
    Names, Copies, Writers,
    MaxWrites,   \* bound on the writes
    Overtakes    \* whether a name is created again before the hook of its deletion ran

VARIABLES
    clock,    \* the number of writes so far
    store,    \* thing -> [id, ver, on]; id 0 is a zone the store does not hold
    copy,     \* thing -> the write whose state is answered from, 0 when none
    owed,     \* writer -> what its hook has still to rebuild
    mu,       \* who holds Publisher.mu, if anyone
    next,     \* writer -> the things it is about to install, and as what
    stale     \* for the properties: things whose last rebuild failed

vars == <<clock, store, copy, owed, mu, next, stale>>

Things == Names \cup Copies
Nothing == [zones |-> {}, copies |-> {}, load |-> FALSE]
Unread == [t \in {} |-> 0]
Held(n) == store[n].id # 0

\* What a query for the thing should be answered from.
Current(t) == IF store[t].id # 0 /\ store[t].on THEN store[t].ver ELSE 0

\* A server loads before anything can write to it.
Init ==
    /\ clock = 1
    /\ store = [t \in Things |-> [id |-> 1, ver |-> 1, on |-> TRUE]]
    /\ copy = [t \in Things |-> 1]
    /\ owed = [w \in Writers |-> Nothing]
    /\ mu = {}
    /\ next = [w \in Writers |-> Unread]
    /\ stale = {}

-----------------------------------------------------------------------------
(* Writes: the store changes, and the hook is owed.                        *)

Write(w, changed, hook) ==
    /\ clock < MaxWrites
    /\ owed[w] = Nothing
    /\ w \notin mu
    /\ \A v \in Writers : ~owed[v].load
    /\ clock' = clock + 1
    /\ store' = [t \in Things |-> IF t \in DOMAIN changed THEN changed[t] ELSE store[t]]
    /\ owed' = [owed EXCEPT ![w] = hook]
    /\ UNCHANGED <<copy, mu, next, stale>>

\* The batch names every zone it touched, by identity and by name.
Touched(ids) == [zones |-> ids, copies |-> {}, load |-> FALSE]

\* A record change reaches the zone and possibly a reverse zone with it; the
\* settings of a zone also switch it off and on.
ChangeZones(w, ns, on) ==
    /\ ns # {}
    /\ \A n \in ns : Held(n)
    /\ Write(w, [n \in ns |-> [id |-> store[n].id, ver |-> clock + 1, on |-> on]],
             Touched({<<n, store[n].id>> : n \in ns}))

CreateZone(w, n) ==
    /\ ~Held(n)
    /\ Overtakes \/ \A v \in Writers : \A z \in owed[v].zones : z[1] # n
    /\ Write(w, [t \in {n} |-> [id |-> clock + 1, ver |-> clock + 1, on |-> TRUE]],
             Touched({<<n, clock + 1>>}))

DeleteZone(w, n) ==
    /\ Held(n)
    /\ Write(w, [t \in {n} |-> [id |-> 0, ver |-> clock + 1, on |-> TRUE]],
             Touched({<<n, store[n].id>>}))

\* A key or a setting.
ChangeCopy(w, c) ==
    Write(w, [t \in {c} |-> [id |-> 1, ver |-> clock + 1, on |-> TRUE]],
          [zones |-> {}, copies |-> {c}, load |-> FALSE])

\* A snapshot of the log restored over the store: everything is new.  Only
\* the state machine restores, and it applies one thing after another.
Restore(w) ==
    /\ \A v \in Writers : owed[v] = Nothing
    /\ \E gone \in SUBSET Names :
          Write(w, [t \in Things |-> [id |-> IF t \in gone THEN 0 ELSE clock + 1,
                                     ver |-> clock + 1, on |-> TRUE]],
                [zones |-> {}, copies |-> Copies, load |-> TRUE])

-----------------------------------------------------------------------------
(* The hook, under Publisher.mu.                                           *)

\* Mutant: two rebuilds interleave.
MayEnterAny(w) == TRUE

MayEnter(w) == mu \subseteq {w}

\* The zone with that identity as the store now holds it, or the name dropped.
WithZone(n, id) == IF store[n].id = id THEN Current(n) ELSE 0

\* Publisher.zones: the snapshot in force with the touched zones replaced.
ReadZones(w) ==
    /\ MayEnter(w)
    /\ next[w] = Unread
    /\ owed[w].zones # {}
    /\ mu' = {w}
    /\ next' = [next EXCEPT ![w] = [n \in Names |->
                  IF \E z \in owed[w].zones : z[1] = n
                  THEN WithZone(n, (CHOOSE z \in owed[w].zones : z[1] = n)[2])
                  ELSE copy[n]]]
    /\ UNCHANGED <<clock, store, copy, owed, stale>>

\* Publisher.Load: every zone the store holds.
ReadAll(w) ==
    /\ MayEnter(w)
    /\ next[w] = Unread
    /\ owed[w].load
    /\ mu' = {w}
    /\ next' = [next EXCEPT ![w] = [n \in Names |-> Current(n)]]
    /\ UNCHANGED <<clock, store, copy, owed, stale>>

\* Publisher.keys, transfers, notify, cookies and resolvers, after the zones.
ReadCopy(w, c) ==
    /\ MayEnter(w)
    /\ next[w] = Unread
    /\ owed[w].zones = {} /\ ~owed[w].load
    /\ c \in owed[w].copies
    /\ mu' = {w}
    /\ next' = [next EXCEPT ![w] = [t \in {c} |-> Current(c)]]
    /\ UNCHANGED <<clock, store, copy, owed, stale>>

\* The things a rebuild is about: the zones of the batch, all of them for a
\* load, or one copy.
About(w) ==
    IF owed[w].load THEN Names
    ELSE IF owed[w].zones # {} THEN {z[1] : z \in owed[w].zones}
    ELSE DOMAIN next[w]

\* SetSnapshot installs every zone of the snapshot that was built.
Install(w) ==
    /\ next[w] # Unread
    /\ copy' = [t \in Things |-> IF t \in DOMAIN next[w] THEN next[w][t] ELSE copy[t]]
    /\ stale' = stale \ About(w)
    /\ owed' = [owed EXCEPT ![w] = [zones |-> {}, copies |-> @.copies \ About(w), load |-> FALSE]]
    /\ next' = [next EXCEPT ![w] = Unread]
    /\ UNCHANGED <<clock, store, mu>>

\* report: a rebuild that fails leaves the copy as it was; one zone of a batch
\* that cannot be built leaves all of them, and a load that cannot build the
\* zones returns without the other copies.
Fail(w) ==
    /\ next[w] # Unread
    /\ stale' = stale \cup About(w) \cup (IF owed[w].load THEN Copies ELSE {})
    /\ owed' = [owed EXCEPT ![w] = [zones |-> {},
                                   copies |-> IF @.load THEN {} ELSE @.copies \ About(w),
                                   load |-> FALSE]]
    /\ next' = [next EXCEPT ![w] = Unread]
    /\ UNCHANGED <<clock, store, copy, mu>>

\* Mutant: the lock is released only where everything went well.
UnlockOnSuccess(w) ==
    /\ mu = {w}
    /\ owed[w] = Nothing
    /\ stale = {}
    /\ mu' = {}
    /\ UNCHANGED <<clock, store, copy, owed, next, stale>>

Unlock(w) ==
    /\ mu = {w}
    /\ owed[w] = Nothing
    /\ mu' = {}
    /\ UNCHANGED <<clock, store, copy, owed, next, stale>>

Hook(w) ==
    \/ ReadZones(w) \/ ReadAll(w) \/ (\E c \in Copies : ReadCopy(w, c))
    \/ Install(w) \/ Fail(w) \/ Unlock(w)

Next ==
    \E w \in Writers :
       \/ \E ns \in SUBSET Names, on \in BOOLEAN : ChangeZones(w, ns, on)
       \/ \E n \in Names : CreateZone(w, n) \/ DeleteZone(w, n)
       \/ \E c \in Copies : ChangeCopy(w, c)
       \/ Restore(w)
       \/ Hook(w)

Fairness == \A w \in Writers : SF_vars(Hook(w))

Spec == Init /\ [][Next]_vars /\ Fairness

-----------------------------------------------------------------------------
TypeOK ==
    /\ clock \in 1 .. MaxWrites
    /\ store \in [Things -> [id : 0 .. MaxWrites, ver : 1 .. MaxWrites, on : BOOLEAN]]
    /\ copy \in [Things -> 0 .. MaxWrites]
    /\ \A w \in Writers : /\ owed[w].copies \subseteq Copies
                          /\ owed[w].zones \subseteq Names \X Nat
                          /\ owed[w].load \in BOOLEAN
                          /\ DOMAIN next[w] \subseteq Things
    /\ mu \subseteq Writers
    /\ stale \subseteq Things

\* What the hook of some write has still to bring up to date.
Owes(w, t) ==
    \/ t \in owed[w].copies
    \/ t \in Names /\ owed[w].load
    \/ \E z \in owed[w].zones : z[1] = t

\* Each thing is answered from as the store holds it, or a hook that will
\* rebuild it is still to run, or its last rebuild was reported as failed: no
\* publish drops what another had just put in (Publisher.mu, zones, withZone).
CopiesCurrent ==
    \A t \in Things :
       copy[t] = Current(t) \/ t \in stale \/ \E w \in Writers : Owes(w, t)

\* Every committed change is answered from in the end, or was reported.
ChangeReaches ==
    \A t \in Things : []<>(copy[t] = Current(t) \/ t \in stale)
=============================================================================
