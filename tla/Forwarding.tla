------------------------------ MODULE Forwarding ------------------------------
(***************************************************************************)
(* A request reaches the API of any node and is answered there: read where *)
(* it landed, written by the leader.                                       *)
(*                                                                         *)
(* What a node knows of the cluster is what its Raft tells it at the       *)
(* moment it is asked, and goes stale: leadership moves while a request    *)
(* travels, a member is taken out or stalls, and the machine at a leader's *)
(* address may have been rebuilt and be in no cluster yet.                 *)
(***************************************************************************)
EXTENDS Integers, FiniteSets

CONSTANTS
    Nodes,          \* servers with a cluster section
    Witness,        \* a member that holds no data
    Requests,
    MaxMoves        \* how often leadership moves, or a machine is rebuilt

VARIABLES
    leading,    \* who leads, or NoNode
    view,       \* node -> who it takes to lead, or NoNode
    member,     \* node -> "single", "member" or "left"
    log,        \* writes in the cluster's log: who asked, in whose name
    own,        \* node -> writes in its store and in no log
    req,        \* request -> how far it is
    moves

vars == <<leading, view, member, log, own, req, moves>>

NoNode == "none"
Idle == [step |-> "idle", at |-> NoNode, to |-> NoNode, kind |-> "none", may |-> FALSE]
\* Signing out is a change too, made on the way of an answer given anyway.
Kinds == {"read", "write", "ending"}

Init ==
    /\ leading \in Nodes
    /\ view = [n \in Nodes |-> leading]
    /\ member = [n \in Nodes |-> "member"]
    /\ log = {}
    /\ own = [n \in Nodes |-> {}]
    /\ req = [r \in Requests |-> Idle]
    /\ moves = 0

Step(r, to) == req' = [req EXCEPT ![r].step = to]
Still == UNCHANGED <<leading, view, member, moves>>
Nowhere == UNCHANGED <<log, own>>

-----------------------------------------------------------------------------
(* Raft and the machines.                                                  *)

Moved == moves < MaxMoves /\ moves' = moves + 1

\* Leadership moves, or is lost; the others learn of it later.
Elect(n) ==
    /\ Moved
    /\ n \in Nodes => member[n] = "member"
    /\ n # leading
    /\ leading' = n
    /\ view' = IF n \in Nodes THEN [view EXCEPT ![n] = n] ELSE view
    /\ UNCHANGED <<member, log, own, req>>

Learn(n) ==
    /\ member[n] = "member" /\ view[n] # leading
    /\ view' = [view EXCEPT ![n] = leading]
    /\ UNCHANGED <<leading, member, log, own, req, moves>>

\* Taken out, or stalled.
Leave(n) ==
    /\ Moved
    /\ member[n] = "member" /\ leading # n
    /\ member' = [member EXCEPT ![n] = "left"]
    /\ UNCHANGED <<leading, view, log, own, req>>

\* Its database and Raft directory discarded and started again, at the same
\* address, before it has joined.  What it was answering is cut off.
Rebuild(n) ==
    /\ Moved
    /\ member[n] = "left"
    /\ member' = [member EXCEPT ![n] = "single"]
    /\ view' = [view EXCEPT ![n] = NoNode]
    /\ req' = [r \in Requests |-> IF \/ req[r].at = n /\ req[r].step # "answered"
                                     \/ req[r].to = n /\ req[r].step \in {"handled", "written"}
                                  THEN [req[r] EXCEPT !.step = "failed"] ELSE req[r]]
    /\ UNCHANGED <<leading, log, own>>

Joined(n) ==
    /\ member[n] = "single" /\ own[n] = {}
    /\ member' = [member EXCEPT ![n] = "member"]
    /\ UNCHANGED <<leading, view, log, own, req, moves>>

-----------------------------------------------------------------------------
(* One request.                                                            *)

IsLeader(n) == leading = n
Replicating(n) == member[n] # "single"

\* Authenticated where it lands, with the scope its route needs or without.
authenticator(r, n, kind, may) ==
    /\ req[r].step = "idle"
    /\ req' = [req EXCEPT ![r] = [step |-> IF may THEN "routed" ELSE "refused",
                                  at |-> n, to |-> n, kind |-> kind, may |-> may]]
    /\ Still /\ Nowhere

\* Handled here: a read, a write on a single server, or the leader's.
\* Otherwise refused, or sent to whoever this member takes to lead.
forwarding(r) ==
    LET n == req[r].at
    IN  /\ req[r].step = "routed"
        /\ IF req[r].kind # "write" \/ ~Replicating(n) \/ IsLeader(n)
           THEN req' = [req EXCEPT ![r].step = "handled"]
           ELSE IF member[n] = "left" \/ view[n] \in {NoNode, Witness}
           THEN req' = [req EXCEPT ![r].step = "failed"]
           ELSE req' = [req EXCEPT ![r].step = "sent", ![r].to = view[n]]
        /\ Still /\ Nowhere

\* Mutant: the cluster port serves a node that is in no cluster.
forwardedIdentityAnywhere(r) ==
    /\ req[r].step = "sent"
    /\ Step(r, IF req[r].may THEN "handled" ELSE "failed")
    /\ Still /\ Nowhere

\* The cluster port: a node in no cluster takes nothing, and the scope is
\* looked at again.  Nothing is forwarded on from here.
forwardedIdentity(r) ==
    /\ req[r].step = "sent"
    /\ Step(r, IF Replicating(req[r].to) /\ req[r].may THEN "handled" ELSE "failed")
    /\ Still /\ Nowhere

Recorded(r, n) ==
    IF ~Replicating(n) THEN own' = [own EXCEPT ![n] = @ \cup {r}] /\ UNCHANGED log
    ELSE log' = log \cup {<<r, n>>} /\ UNCHANGED own

\* May n take a change: as a single server, or as the member that leads?
Settled(n) == ~Replicating(n) \/ (IsLeader(n) /\ member[n] = "member")

\* The handler.  A change goes into the log of the member that leads or the
\* store of a single server, and is refused anywhere else.
Handle(r) ==
    LET n == req[r].to
    IN  /\ req[r].step = "handled"
        /\ \/ req[r].kind = "read" /\ Step(r, "answered") /\ Nowhere
           \/ req[r].kind = "write" /\ Settled(n) /\ Recorded(r, n) /\ Step(r, "written")
           \/ req[r].kind = "write" /\ ~Settled(n) /\ Nowhere /\ Step(r, "failed")
        /\ Still

\* Ending a session is recorded here or handed to the leader, never handed on;
\* where neither works the browser is answered all the same.
endSession(r) ==
    LET n == req[r].to
        here == n = req[r].at
    IN  /\ req[r].step = "handled" /\ req[r].kind = "ending"
        /\ IF here /\ Replicating(n) /\ ~IsLeader(n)
           THEN /\ req' = IF member[n] = "left" \/ view[n] \in {NoNode, Witness}
                          THEN [req EXCEPT ![r].step = "answered"]
                          ELSE [req EXCEPT ![r].step = "sent", ![r].to = view[n]]
                /\ Nowhere
           ELSE /\ Step(r, "answered")
                /\ IF Settled(n) THEN Recorded(r, n) ELSE Nowhere
        /\ Still

\* What the leader answered is what the client is told, or the connection is
\* lost, and the write was made all the same.
Reply(r, lost) ==
    /\ req[r].step = "written"
    /\ lost => req[r].at # req[r].to
    /\ Step(r, IF lost THEN "failed" ELSE "answered")
    /\ Still /\ Nowhere

Next ==
    \/ \E n \in Nodes \cup {Witness, NoNode} : Elect(n)
    \/ \E n \in Nodes : Learn(n) \/ Leave(n) \/ Rebuild(n) \/ Joined(n)
    \/ \E r \in Requests :
           \/ \E n \in Nodes, kind \in Kinds, may \in BOOLEAN : authenticator(r, n, kind, may)
           \/ forwarding(r) \/ forwardedIdentity(r) \/ Handle(r) \/ endSession(r)
           \/ \E lost \in BOOLEAN : Reply(r, lost)

Spec == Init /\ [][Next]_vars

-----------------------------------------------------------------------------
(***************************************************************************)
(* A change is made once and where every member of the caller's cluster    *)
(* will see it: one that was answered as made is in the log once, or in    *)
(* the store of the single server it was sent to, and no change is ever    *)
(* left in the store of a server it was not sent to.  A caller without the *)
(* scope changes nothing (forwarding, forwardedIdentity, endSession,       *)
(* Applier.settle).                                                        *)
(***************************************************************************)
ChangeIsShared ==
    \A r \in Requests :
        LET logged == {n \in Nodes : <<r, n>> \in log}
            kept == {n \in Nodes : r \in own[n]}
        IN  /\ kept \subseteq {req[r].at}
            /\ Cardinality(logged) + Cardinality(kept) <= 1
            /\ req[r].step = "answered" /\ req[r].kind = "write" => logged \cup kept # {}
            /\ logged \cup kept # {} => req[r].may
=============================================================================
