------------------------------ MODULE Startup ------------------------------
(***************************************************************************)
(* The life of a server process (cli/serve.go runServe): it opens the      *)
(* database and brings its schema up to date, opens the cluster port,      *)
(* loads the query path, comes up as a member or joins, mints what a node  *)
(* of its own needs, starts the parts that answer, shows the first         *)
(* administrator token, and takes everything down again in reverse.  Any   *)
(* step may fail and the process may be killed at any point; two processes *)
(* of two builds may be started on one database, whose transactions are    *)
(* all that survives them.                                                 *)
(***************************************************************************)
EXTENDS Integers, Sequences, SequencesExt, FiniteSets

CONSTANTS
  Procs,          \* processes started on the one database
  Builds,         \* the schema versions the builds around know up to
  Sections,       \* whether the configuration may have a cluster section
  MaxStarts       \* bound on the starts of processes

VARIABLES
  db,        \* schema, tokens, minted secrets, whether the raft directory holds a
             \* log, and whether the cluster has admitted this node; history: did
             \* it come up on its own since, and what has a log thrown away
  proc,      \* each process
  section,   \* whether there is a cluster section
  shown,     \* the tokens printed
  starts     \* starts so far

vars == <<db, proc, section, shown, starts>>

Down == [at |-> "down", up |-> <<>>, failed |-> FALSE, build |-> 0, todo |-> 0, current |-> 0,
         join |-> FALSE, start |-> 0, replicating |-> FALSE, loaded |-> FALSE, none |-> FALSE, watched |-> FALSE]

\* Mutant: the sockets are bound before the first copy is taken.
OrderEager == <<"open", "check", "migrate", "port", "dns", "load", "member", "secrets", "notifier",
                "prober", "rotating", "look", "mint", "api", "forward", "listen", "print", "ready">>

\* The steps of runServe; the ones a cluster section adds are skipped without it.
Order == <<"open", "check", "migrate", "port", "load", "member", "secrets", "notifier",
           "prober", "rotating", "dns", "look", "mint", "api", "forward", "listen", "print", "ready">>

ClusterSteps == {"port", "member", "forward"}

After(step) ==
  LET from == CHOOSE i \in DOMAIN Order : Order[i] = step
      later == {i \in from + 1 .. Len(Order) : section \/ Order[i] \notin ClusterSteps}
  IN Order[CHOOSE i \in later : \A j \in later : i <= j]

\* What a deferred close is registered for.
Deferred == [open |-> "store", port |-> "port", member |-> "member", notifier |-> "notifier",
             prober |-> "prober", rotating |-> "rotating", dns |-> "dns", api |-> "api",
             forward |-> "forward", listen |-> "listener"]

Replicating == db.member

Next1(p, step) == [proc EXCEPT ![p].at = After(step),
                     ![p].up = IF step \in DOMAIN Deferred THEN Append(@, Deferred[step]) ELSE @]

Failed(p) == [proc EXCEPT ![p].at = "closing", ![p].failed = TRUE]

\* One process at a time holds a raft directory; --join needs the section.
Start(p) ==
  /\ proc[p].at = "down" /\ starts < MaxStarts
  /\ section => \A q \in Procs : proc[q].at = "down"
  /\ \E join \in BOOLEAN, build \in Builds :
       /\ join => section
       /\ proc' = [proc EXCEPT ![p] = [Down EXCEPT !.at = "open", !.join = join, !.build = build, !.start = starts + 1]]
  /\ starts' = starts + 1
  /\ UNCHANGED <<db, section, shown>>

\* A step that only brings something up: the pools and their settings, the
\* cluster port, the notifier, the prober, the rotations, the sockets, the
\* API, the server of forwarded writes, the listener.
BringUp(p, step) ==
  /\ proc[p].at = step
  /\ proc' = Next1(p, step)
  /\ UNCHANGED <<db, section, shown, starts>>

\* Migrate's look at the version: a database newer than the build is refused.
schemaVersion(p) ==
  /\ proc[p].at = "check"
  /\ proc' = IF Len(db.schema) > proc[p].build THEN Failed(p)
             ELSE [proc EXCEPT ![p].at = "migrate", ![p].todo = 1, ![p].current = Len(db.schema)]
  /\ UNCHANGED <<db, section, shown, starts>>

\* Mutant: which migrations have run is taken from the version read before.
applyMigrationOf(p) ==
  /\ proc[p].at = "migrate" /\ proc[p].todo <= proc[p].build
  /\ db' = IF proc[p].todo <= proc[p].current THEN db
           ELSE [db EXCEPT !.schema = Append(@, proc[p].todo)]
  /\ proc' = [proc EXCEPT ![p].todo = @ + 1]
  /\ UNCHANGED <<section, shown, starts>>

\* One migration in one write transaction, which looks whether it has run.
applyMigration(p) ==
  /\ proc[p].at = "migrate" /\ proc[p].todo <= proc[p].build
  /\ db' = IF proc[p].todo \in Range(db.schema) THEN db
           ELSE [db EXCEPT !.schema = Append(@, proc[p].todo)]
  /\ proc' = [proc EXCEPT ![p].todo = @ + 1]
  /\ UNCHANGED <<section, shown, starts>>

Migrated(p) ==
  /\ proc[p].at = "migrate" /\ proc[p].todo > proc[p].build
  /\ proc' = Next1(p, "migrate")
  /\ UNCHANGED <<db, section, shown, starts>>

\* pub.Load: the first copy of everything the query path holds.
Load(p) ==
  /\ proc[p].at = "load"
  /\ proc' = [Next1(p, "load") EXCEPT ![p].loaded = TRUE]
  /\ UNCHANGED <<db, section, shown, starts>>

\* Mutant: content of its own does not keep a node from joining.
HoldsNothing == FALSE

\* What refuseHeldContent finds: anything the cluster would have replicated.
HoldsContent == db.tokens # {} \/ db.secrets # {}

\* Whether this node replicates is looked at once, when its member is up.
Entered(p) == [Next1(p, "member") EXCEPT ![p].replicating = Replicating]
CameUp == [db EXCEPT !.alone = @ \/ (db.admitted /\ ~Replicating)]

\* startMember: a node that is a member stays one and --join is ignored; one
\* that is to join must hold nothing.
startMember(p) ==
  /\ proc[p].at = "member"
  /\ LET joins == proc[p].join /\ ~Replicating
     IN  /\ proc' = IF ~joins THEN Entered(p)
                    ELSE IF HoldsContent THEN Failed(p)
                    ELSE [proc EXCEPT ![p].at = "asking"]
         /\ db' = IF joins THEN db ELSE CameUp
  /\ UNCHANGED <<section, shown, starts>>

\* node.Join asks: it is admitted, and told so or not.  A refusal is Fail's.
Join(p) ==
  /\ proc[p].at = "asking"
  /\ db' = [db EXCEPT !.admitted = TRUE]
  /\ \/ proc' = [proc EXCEPT ![p].at = "awaiting"]
     \/ proc' = Failed(p)
  /\ UNCHANGED <<section, shown, starts>>

\* The cluster's: what it sends a node it has admitted starts with a snapshot of
\* everything, for as long as the member runs.
Restored == [db EXCEPT !.member = TRUE, !.tokens = {<<"cluster", 0>>}, !.secrets = {"cluster"},
                       !.thrown = @ \/ db.tokens # {} \/ db.secrets # {}]
MemberRuns(p) == proc[p].at \in {"asking", "awaiting"} \/ "member" \in Range(proc[p].up)

LogArrives(p) ==
  /\ db.admitted /\ ~Replicating /\ MemberRuns(p)
  /\ db' = Restored
  /\ UNCHANGED <<proc, section, shown, starts>>

\* awaitLog; giving up on it is Fail's.
awaitLog(p) ==
  /\ proc[p].at = "awaiting" /\ Replicating
  /\ proc' = Entered(p)
  /\ UNCHANGED <<db, section, shown, starts>>

\* A write of what this start found missing: refused where a log has arrived
\* since, as a follower's are, and otherwise made here.  No lock keeps the log from
\* arriving between the look (submit) and the write.
Minted(p, table, row) ==
  IF Replicating THEN UNCHANGED db /\ proc' = Failed(p)
  ELSE /\ \E d \in {db} \cup (IF db.admitted /\ MemberRuns(p) THEN {Restored} ELSE {}) :
             db' = [d EXCEPT ![table] = @ \cup {row}]
       /\ proc' = Next1(p, proc[p].at)

\* The cookie secret and the session key, minted where none are held, by a node
\* that was no member when it came up.
MintSecrets(p) ==
  /\ proc[p].at = "secrets"
  /\ IF proc[p].replicating \/ (db.secrets # {} /\ ~Replicating) THEN proc' = Next1(p, "secrets") /\ UNCHANGED db
     ELSE Minted(p, "secrets", p)
  /\ UNCHANGED <<section, shown, starts>>

\* EnsureBootstrapToken looks for tokens, and writes the first if there were
\* none; the secret is in this process's memory until it is printed.
LookForTokens(p) ==
  /\ proc[p].at = "look"
  /\ proc' = [Next1(p, "look") EXCEPT ![p].none = (~proc[p].replicating /\ db.tokens = {})]
  /\ UNCHANGED <<db, section, shown, starts>>

MintBootstrap(p) ==
  /\ proc[p].at = "mint"
  /\ IF proc[p].none THEN Minted(p, "tokens", <<p, proc[p].start>>)
     ELSE proc' = Next1(p, "mint") /\ UNCHANGED db
  /\ UNCHANGED <<section, shown, starts>>

\* The status, then the secret if this start minted one.
PrintStatus(p) ==
  /\ proc[p].at = "print"
  /\ proc' = Next1(p, "print")
  /\ shown' = IF proc[p].none THEN shown \cup {<<p, proc[p].start>>} ELSE shown
  /\ UNCHANGED <<db, section, starts>>

\* Every step that reports an error ends the start.
MayFailAt == {"open", "check", "migrate", "port", "load", "member", "asking", "awaiting", "secrets", "notifier",
              "prober", "dns", "look", "mint", "api", "listen", "print"}

Fail(p) ==
  /\ proc[p].at \in MayFailAt
  /\ proc' = Failed(p)
  /\ UNCHANGED <<db, section, shown, starts>>

\* A client opens a query stream, which ends only when the client goes.
Watch(p) ==
  /\ proc[p].at = "ready" /\ ~proc[p].watched
  /\ proc' = [proc EXCEPT ![p].watched = TRUE]
  /\ UNCHANGED <<db, section, shown, starts>>

Unwatch(p) ==
  /\ proc[p].watched
  /\ proc' = [proc EXCEPT ![p].watched = FALSE]
  /\ UNCHANGED <<db, section, shown, starts>>

\* The signal: what is up comes down through the deferred calls.
Stop(p) ==
  /\ proc[p].at = "ready"
  /\ proc' = [proc EXCEPT ![p].at = "closing"]
  /\ UNCHANGED <<db, section, shown, starts>>

\* Mutant: what came up first goes down first.
CloseFirst(p) ==
  /\ proc[p].at = "closing" /\ proc[p].up # <<>>
  /\ proc' = [proc EXCEPT ![p].up = Tail(@)]
  /\ UNCHANGED <<db, section, shown, starts>>

\* The last deferred call.  Shutting the listener down waits for the requests
\* in flight, and gives up on a stream still open, which is an error.
CloseLast(p) ==
  /\ proc[p].at = "closing" /\ proc[p].up # <<>>
  /\ proc' = [proc EXCEPT ![p].up = Front(@),
                ![p].failed = @ \/ (Last(proc[p].up) = "listener" /\ proc[p].watched)]
  /\ UNCHANGED <<db, section, shown, starts>>

\* runServe returns; what it returns is the process's exit status.
Return(p) ==
  /\ proc[p].at = "closing" /\ proc[p].up = <<>>
  /\ proc' = [proc EXCEPT ![p] = [Down EXCEPT !.failed = proc[p].failed]]
  /\ UNCHANGED <<db, section, shown, starts>>

\* The process is killed: only what was committed stays.
Crash(p) ==
  /\ proc[p].at # "down"
  /\ proc' = [proc EXCEPT ![p] = Down]
  /\ UNCHANGED <<db, section, shown, starts>>

Init ==
  /\ db = [schema |-> <<>>, tokens |-> {}, secrets |-> {}, member |-> FALSE, admitted |-> FALSE, alone |-> FALSE,
           thrown |-> FALSE]
  /\ proc = [p \in Procs |-> Down]
  /\ section \in Sections
  /\ shown = {} /\ starts = 0

Next ==
  \E p \in Procs :
    \/ Start(p)
    \/ \E s \in {"open", "port", "notifier", "prober", "rotating", "dns", "api", "forward", "listen"} : BringUp(p, s)
    \/ schemaVersion(p) \/ applyMigration(p) \/ Migrated(p)
    \/ Load(p) \/ startMember(p) \/ Join(p) \/ LogArrives(p) \/ awaitLog(p)
    \/ MintSecrets(p) \/ LookForTokens(p) \/ MintBootstrap(p) \/ PrintStatus(p)
    \/ Fail(p) \/ Watch(p) \/ Unwatch(p) \/ Stop(p) \/ CloseLast(p) \/ Return(p) \/ Crash(p)

Spec == Init /\ [][Next]_vars

----------------------------------------------------------------------------
TypeOK ==
  /\ db.tokens \subseteq (Procs \X (1 .. MaxStarts)) \cup {<<"cluster", 0>>}
  /\ \A p \in Procs : proc[p].at \in Range(Order) \cup {"asking", "awaiting", "down", "closing"}
  /\ starts \in 0 .. MaxStarts

IsUp(p, part) == part \in Range(proc[p].up)

\* Nothing is answered from less than everything: while the sockets are bound
\* the first copy has been taken and every migration the build knows has run,
\* and no part is up without the store, on the way up, on the way down and
\* after a step that failed (cli/serve.go runServe).
ServesWhole ==
  \A p \in Procs :
    /\ IsUp(p, "dns") => proc[p].loaded /\ 1 .. proc[p].build \subseteq Range(db.schema)
    /\ proc[p].up # <<>> => IsUp(p, "store")
    /\ IsUp(p, "listener") => IsUp(p, "api") /\ IsUp(p, "dns")
    /\ IsUp(p, "member") => IsUp(p, "port")

\* Whatever processes start on a database and wherever they are killed, each
\* migration runs once and in order (store/sqlite/migrate.go).
SchemaInOrder == db.schema = [i \in DOMAIN db.schema |-> i]

\* However many starts came before, and whether the one that was admitted saw
\* the log arrive or not, a node that joined holds what the cluster holds and
\* nothing it minted itself, joining has thrown nothing away, and the
\* administrator token a start printed is one that is stored; but where a node
\* was started on its own after it was admitted (serve_cluster.go startMember,
\* refuseHeldContent; cluster/join.go Join).
JoinsEmpty ==
  db.alone \/ /\ db.member => db.tokens = {<<"cluster", 0>>} /\ db.secrets = {"cluster"}
              /\ ~db.thrown /\ shown \subseteq db.tokens
=============================================================================
