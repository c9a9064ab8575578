-------------------------------- MODULE Port ---------------------------------
(***************************************************************************)
(* The cluster port: connections prove themselves, are sorted by what they *)
(* carry, and wait to be taken.  A kind of stream can be closed on its own *)
(* (Raft's, when a member leaves); the port is closed once, by a Close     *)
(* that returns when nothing it started is running.  A proof is good when  *)
(* it is made with this cluster's secret; the cryptography is left out.    *)
(***************************************************************************)
EXTENDS Integers, FiniteSets

CONSTANTS
    Conns,          \* connections ever made
    Kinds,          \* StreamRaft, StreamForward, StreamJoin
    maxHandshakes,
    queueDepth

VARIABLES
    place,      \* connection -> how far it is
    open,       \* the connections whose socket is open here
    says,       \* connection -> the kind its dialler proves itself for, or Nothing
    slots,      \* connections holding a handshake slot
    inflight,   \* connections still proving themselves ...
    tracking,   \* ... while they are noted
    queue,      \* kind -> streams waiting to be taken
    shutKind,   \* kinds turned away
    draining,   \* kinds turned away and still to be emptied
    closing     \* how far Close is

vars == <<place, open, says, slots, inflight, tracking, queue, shutKind, draining, closing>>

\* Another secret, another protocol, or a kind this member does not carry.
Nothing == "nothing"

Init ==
    /\ place = [c \in Conns |-> "none"]
    /\ open = {}
    /\ says = [c \in Conns |-> Nothing]
    /\ slots = {}
    /\ inflight = {}
    /\ tracking = TRUE
    /\ queue = [k \in Kinds |-> {}]
    /\ shutKind = {}
    /\ draining = {}
    /\ closing = "open"

Goes(c, to) == place' = [place EXCEPT ![c] = to]
Kept == UNCHANGED <<tracking, shutKind, draining, closing>>

\* Dialled, and waiting in the listener.
Dial(c, kind) ==
    /\ place[c] = "none" /\ closing = "open"
    /\ says' = [says EXCEPT ![c] = kind]
    /\ Goes(c, "dialled") /\ open' = open \cup {c}
    /\ UNCHANGED <<slots, inflight, queue>> /\ Kept

\* Closed, and said why unless the port is closing.
refuse(c) == Goes(c, "gone") /\ open' = open \ {c}

\* Taken off the listener, with a slot or not at all.
accept(c) ==
    /\ place[c] = "dialled" /\ closing = "open"
    /\ IF Cardinality(slots) < maxHandshakes
       THEN Goes(c, "accepted") /\ slots' = slots \cup {c} /\ UNCHANGED open
       ELSE refuse(c) /\ UNCHANGED slots
    /\ UNCHANGED <<says, inflight, queue>> /\ Kept

\* Noted as in flight, unless Close has been there.
track(c) ==
    /\ place[c] = "accepted"
    /\ IF tracking
       THEN Goes(c, "proving") /\ inflight' = inflight \cup {c} /\ UNCHANGED <<slots, open>>
       ELSE refuse(c) /\ slots' = slots \ {c} /\ UNCHANGED inflight
    /\ UNCHANGED <<says, queue>> /\ Kept

\* The proof is checked before the kind, and both before anything is said.
\* A socket closed under it, or its time running out, ends it too.
answer(c) ==
    /\ place[c] = "proving"
    /\ \/ c \in open /\ says[c] \in Kinds /\ Goes(c, "proved")
       \/ Goes(c, "refused")
    /\ UNCHANGED <<says, open, slots, inflight, queue>> /\ Kept

\* Handing a stream over looks at whether its kind is closed ...
offer(c) ==
    /\ place[c] = "proved"
    /\ Goes(c, IF says[c] \in shutKind THEN "refused" ELSE "offers")
    /\ UNCHANGED <<says, open, slots, inflight, queue>> /\ Kept

\* ... and puts it in the queue afterwards, if there is room.
enqueue(c) ==
    LET k == says[c]
    IN  /\ place[c] = "offers"
        /\ IF Cardinality(queue[k]) < queueDepth
           THEN Goes(c, "queued") /\ queue' = [queue EXCEPT ![k] = @ \cup {c}]
           ELSE Goes(c, "refused") /\ UNCHANGED queue
        /\ UNCHANGED <<says, open, slots, inflight>> /\ Kept

\* Whoever carries a kind takes a stream of it, also after the kind was closed
\* if one is there.
Accept(c) ==
    /\ place[c] \in {"queued", "waits"}
    /\ queue' = [queue EXCEPT ![says[c]] = @ \ {c}]
    /\ Goes(c, IF c \in slots THEN "taken early" ELSE "taken")
    /\ UNCHANGED <<says, open, slots, inflight>> /\ Kept

\* The handshake's goroutine ends: a refused connection is closed, it is no
\* longer in flight and its slot is free.
admit(c) ==
    /\ c \in slots
    /\ \/ place[c] = "refused" /\ refuse(c)
       \/ place[c] = "queued" /\ Goes(c, "waits") /\ UNCHANGED open
       \/ place[c] = "taken early" /\ Goes(c, "taken") /\ UNCHANGED open
       \/ place[c] = "gone" /\ UNCHANGED <<place, open>>
    /\ inflight' = inflight \ {c}
    /\ slots' = slots \ {c}
    /\ UNCHANGED <<says, queue>> /\ Kept

-----------------------------------------------------------------------------
(* Closing.                                                                *)

Emptied(ks) ==
    LET cs == UNION {queue[k] : k \in ks}
    IN  /\ open' = open \ cs
        /\ place' = [c \in Conns |-> IF c \in cs THEN "gone" ELSE place[c]]
        /\ queue' = [k \in Kinds |-> IF k \in ks THEN {} ELSE queue[k]]

\* A kind is turned away first ...
shut(k) ==
    /\ k \notin shutKind
    /\ shutKind' = shutKind \cup {k}
    /\ draining' = draining \cup {k}
    /\ UNCHANGED <<place, open, says, slots, inflight, tracking, queue, closing>>

\* ... and what waited closed afterwards.
drain(k) ==
    /\ k \in draining
    /\ Emptied({k})
    /\ draining' = draining \ {k}
    /\ UNCHANGED <<says, slots, inflight, tracking, shutKind, closing>>

\* The port is stopped, and its listener closed with what waited in it.
Close ==
    /\ closing = "open"
    /\ closing' = "stopped"
    /\ open' = {c \in open : place[c] # "dialled"}
    /\ place' = [c \in Conns |-> IF place[c] = "dialled" THEN "gone" ELSE place[c]]
    /\ UNCHANGED <<says, slots, inflight, tracking, queue, shutKind, draining>>

\* What is in flight is closed, and nothing more is noted.
closePending ==
    /\ closing = "stopped"
    /\ closing' = "waiting"
    /\ open' = open \ inflight
    /\ inflight' = {}
    /\ tracking' = FALSE
    /\ UNCHANGED <<place, says, slots, queue, shutKind, draining>>

\* Mutant: the queues are shut without waiting for the handshakes.
shutAllAtOnce ==
    /\ closing = "waiting"
    /\ closing' = "closed"
    /\ Emptied(Kinds)
    /\ shutKind' = Kinds
    /\ UNCHANGED <<says, slots, inflight, tracking, draining>>

\* Every handshake has ended; every queue is shut and emptied.
shutAll ==
    /\ closing = "waiting" /\ slots = {}
    /\ closing' = "closed"
    /\ Emptied(Kinds)
    /\ shutKind' = Kinds
    /\ UNCHANGED <<says, slots, inflight, tracking, draining>>

Next ==
    \/ \E c \in Conns :
           \/ (\E k \in Kinds \cup {Nothing} : Dial(c, k))
           \/ accept(c) \/ track(c) \/ answer(c)
           \/ offer(c) \/ enqueue(c) \/ Accept(c) \/ admit(c)
    \/ \E k \in Kinds : shut(k) \/ drain(k)
    \/ Close \/ closePending \/ shutAll

Spec == Init /\ [][Next]_vars

-----------------------------------------------------------------------------
(***************************************************************************)
(* Once Close has returned nothing of the port's is left: no handshake     *)
(* runs, no stream waits, and the only sockets open are those somebody     *)
(* took.  Until then a slot is held by every handshake under way and by    *)
(* nothing else (Mux.accept, admit, Close, queue.offer, shut).             *)
(***************************************************************************)
NothingLeft ==
    /\ slots = {c \in Conns : place[c] \in {"accepted", "proving", "proved", "offers", "refused",
                                            "queued", "taken early"}}
                 \cup {c \in slots : place[c] = "gone"}
    /\ closing = "closed" =>
           /\ slots = {} /\ \A k \in Kinds : queue[k] = {}
           /\ \A c \in open : place[c] = "taken"
=============================================================================
