------------------------------- MODULE Server --------------------------------
(***************************************************************************)
(* The sockets of the query path: datagram readers, the accept loop, one   *)
(* goroutine per connection, the slots they hold, and shutting all of it   *)
(* down.                                                                   *)
(*                                                                         *)
(* What a query is answered with is not looked at here.  A connection is   *)
(* used again once its goroutine is gone.  Time is the read deadline of a  *)
(* connection, which is either ahead ("idle") or has passed ("past").      *)
(***************************************************************************)
EXTENDS Naturals, FiniteSets

CONSTANTS
    Sockets,        \* the datagram sockets, one reader each
    Conns,          \* connections a client may open
    MaxTCPClients, MaxTransfers,
    Windows         \* what may come between: "deadline" a shutdown between a connection's
                    \* look at closing and its new deadline, "datagram" the sockets closing
                    \* under a query that was read, "fault" a socket error that is no timeout

VARIABLES
    shut,        \* how far Shutdown is
    open,        \* whether the sockets are
    accepting,   \* whether the accept loop runs
    reader,      \* socket -> what its reader is doing
    at,          \* connection -> where its goroutine is, "none" without one
    deadline,    \* connection -> its read deadline
    conns,       \* Server.conns
    slots, transfers, \* how many of each are taken
    unanswered   \* for the properties: whether a query that was read got no answer

vars == <<shut, open, accepting, reader, at, deadline, conns, slots, transfers,
          unanswered>>

closing == shut # "no"

\* Start: the sockets are bound, and a goroutine runs for each of them.
Init ==
    /\ shut = "no" /\ open = TRUE /\ accepting = TRUE
    /\ reader = [u \in Sockets |-> "read"]
    /\ at = [c \in Conns |-> "none"]
    /\ deadline = [c \in Conns |-> "idle"]
    /\ conns = {}
    /\ slots = 0 /\ transfers = 0
    /\ unanswered = FALSE

-----------------------------------------------------------------------------
(* Datagrams.                                                              *)

ReadUDP(u) ==
    /\ reader[u] = "read" /\ open
    /\ "datagram" \in Windows \/ ~closing
    /\ reader' = [reader EXCEPT ![u] = "answer"]
    /\ UNCHANGED <<shut, open, accepting, at, deadline, conns, slots, transfers, unanswered>>

\* The write goes to the socket the query came from, if it is still open.
AnswerDatagram(u) ==
    /\ reader[u] = "answer"
    /\ reader' = [reader EXCEPT ![u] = "read"]
    /\ unanswered' = (unanswered \/ ~open)
    /\ UNCHANGED <<shut, open, accepting, at, deadline, conns, slots, transfers>>

\* A reader ends with its socket, or at any error that is not a timeout.
ReaderEnds(u) ==
    /\ reader[u] = "read"
    /\ ~open \/ "fault" \in Windows
    /\ reader' = [reader EXCEPT ![u] = "done"]
    /\ UNCHANGED <<shut, open, accepting, at, deadline, conns, slots, transfers, unanswered>>

-----------------------------------------------------------------------------
(* Connections.                                                            *)

\* takeSlot claims a slot or closes the connection.
Accept(c) ==
    /\ accepting /\ open
    /\ at[c] = "none"
    /\ IF slots < MaxTCPClients
       THEN /\ slots' = slots + 1
            /\ at' = [at EXCEPT ![c] = "track"]
            /\ deadline' = [deadline EXCEPT ![c] = "idle"]
       ELSE UNCHANGED <<slots, at, deadline>>
    /\ UNCHANGED <<shut, open, accepting, reader, conns, transfers, unanswered>>

AcceptEnds ==
    /\ accepting
    /\ ~open \/ "fault" \in Windows
    /\ accepting' = FALSE
    /\ UNCHANGED <<shut, open, reader, at, deadline, conns, slots, transfers, unanswered>>

\* Under mu, so a connection is either refused or seen by the shutdown.
TrackConn(c) ==
    /\ at[c] = "track"
    /\ IF closing
       THEN at' = [at EXCEPT ![c] = "free"] /\ UNCHANGED conns
       ELSE at' = [at EXCEPT ![c] = "loop"] /\ conns' = conns \cup {c}
    /\ UNCHANGED <<shut, open, accepting, reader, deadline, slots, transfers, unanswered>>

\* Mutant: a connection goes on reading while the server shuts down.
LoopBlind(c) ==
    /\ at[c] = "loop"
    /\ at' = [at EXCEPT ![c] = "arm"]
    /\ UNCHANGED <<shut, open, accepting, reader, deadline, conns, slots, transfers, unanswered>>

\* The head of the loop, and the new deadline behind it.
Loop(c) ==
    /\ at[c] = "loop"
    /\ at' = [at EXCEPT ![c] = IF closing THEN "forget" ELSE "arm"]
    /\ UNCHANGED <<shut, open, accepting, reader, deadline, conns, slots, transfers, unanswered>>

Arm(c) ==
    /\ at[c] = "arm"
    /\ at' = [at EXCEPT ![c] = "read"]
    /\ deadline' = [deadline EXCEPT ![c] = "idle"]
    /\ UNCHANGED <<shut, open, accepting, reader, conns, slots, transfers, unanswered>>

\* A query is read whole: one that is answered with a message, or a transfer.
Read(c) ==
    /\ at[c] = "read"
    /\ deadline[c] = "idle"
    /\ at' \in {[at EXCEPT ![c] = "answer"], [at EXCEPT ![c] = "ask"]}
    /\ UNCHANGED <<shut, open, accepting, reader, deadline, conns, slots, transfers, unanswered>>

\* The deadline passes.
Expire(c) ==
    /\ at[c] = "read"
    /\ deadline[c] = "idle"
    /\ deadline' = [deadline EXCEPT ![c] = "past"]
    /\ UNCHANGED <<shut, open, accepting, reader, at, conns, slots, transfers, unanswered>>

\* Nothing came in time, or the client hung up.
ReadFails(c) ==
    /\ at[c] = "read"
    /\ at' = [at EXCEPT ![c] = "forget"]
    /\ UNCHANGED <<shut, open, accepting, reader, deadline, conns, slots, transfers, unanswered>>

\* Respond and the write; a query with no safe reply and a write that fails
\* end the connection.
AnswerQuery(c) ==
    /\ at[c] = "answer"
    /\ at' \in {[at EXCEPT ![c] = "loop"], [at EXCEPT ![c] = "forget"]}
    /\ UNCHANGED <<shut, open, accepting, reader, deadline, conns, slots, transfers, unanswered>>

\* Server.transfer up to takeTransfer.  A request that is refused, and one
\* turned away for want of a slot, are answered and the connection goes on.
Transfer(c) ==
    /\ at[c] = "ask"
    /\ \/ /\ at' \in {[at EXCEPT ![c] = "loop"], [at EXCEPT ![c] = "forget"]}
          /\ UNCHANGED transfers
       \/ /\ transfers < MaxTransfers
          /\ transfers' = transfers + 1
          /\ at' = [at EXCEPT ![c] = "send"]
    /\ UNCHANGED <<shut, open, accepting, reader, deadline, conns, slots, unanswered>>

\* Mutant: a transfer that breaks off keeps its slot.
TransferEndsLeaking(c) ==
    /\ at[c] = "send"
    /\ \/ at' = [at EXCEPT ![c] = "loop"] /\ transfers' = transfers - 1
       \/ at' = [at EXCEPT ![c] = "forget"] /\ UNCHANGED transfers
    /\ UNCHANGED <<shut, open, accepting, reader, deadline, conns, slots, unanswered>>

\* The slot goes back however the transfer ends.
TransferEnds(c) ==
    /\ at[c] = "send"
    /\ at' \in {[at EXCEPT ![c] = "loop"], [at EXCEPT ![c] = "forget"]}
    /\ transfers' = transfers - 1
    /\ UNCHANGED <<shut, open, accepting, reader, deadline, conns, slots, unanswered>>

ForgetConn(c) ==
    /\ at[c] = "forget"
    /\ conns' = conns \ {c}
    /\ at' = [at EXCEPT ![c] = "free"]
    /\ UNCHANGED <<shut, open, accepting, reader, deadline, slots, transfers, unanswered>>

FreeSlot(c) ==
    /\ at[c] = "free"
    /\ slots' = slots - 1
    /\ at' = [at EXCEPT ![c] = "none"]
    /\ UNCHANGED <<shut, open, accepting, reader, deadline, conns, transfers, unanswered>>

-----------------------------------------------------------------------------
(* Shutdown.                                                               *)

\* closing goes up, once, and the load meter is waited for.
ShutdownBegins ==
    /\ shut = "no"
    /\ "deadline" \in Windows \/ \A c \in Conns : at[c] # "arm"
    /\ shut' = "closing"
    /\ UNCHANGED <<open, accepting, reader, at, deadline, conns, slots, transfers, unanswered>>

\* Mutant: only the datagram sockets.
CloseListenersHalf ==
    /\ shut = "closing"
    /\ shut' = "closed"
    /\ UNCHANGED <<open, accepting, reader, at, deadline, conns, slots, transfers, unanswered>>

CloseListeners ==
    /\ shut = "closing"
    /\ "datagram" \in Windows \/ \A u \in Sockets : reader[u] # "answer"
    /\ shut' = "closed"
    /\ open' = FALSE
    /\ UNCHANGED <<accepting, reader, at, deadline, conns, slots, transfers, unanswered>>

\* Under mu, every connection that is open has its deadline moved.
WakeConns ==
    /\ shut = "closed"
    /\ shut' = "woken"
    /\ deadline' = [c \in Conns |-> IF c \in conns THEN "past" ELSE deadline[c]]
    /\ UNCHANGED <<open, accepting, reader, at, conns, slots, transfers, unanswered>>

Running == accepting \/ (\E u \in Sockets : reader[u] # "done") \/ (\E c \in Conns : at[c] # "none")

\* wg.Wait returned, or the context given to Shutdown ended first.
Drain ==
    /\ shut = "woken"
    /\ shut' \in {"expired"} \cup IF Running THEN {} ELSE {"drained"}
    /\ UNCHANGED <<open, accepting, reader, at, deadline, conns, slots, transfers, unanswered>>

ServeConn(c) ==
    \/ TrackConn(c) \/ Loop(c) \/ Arm(c) \/ AnswerQuery(c) \/ Transfer(c) \/ TransferEnds(c)
    \/ ForgetConn(c) \/ FreeSlot(c) \/ (deadline[c] = "past" /\ ReadFails(c))

Shutdown == ShutdownBegins \/ CloseListeners \/ WakeConns \/ Drain

Next ==
    \/ \E u \in Sockets : ReadUDP(u) \/ AnswerDatagram(u) \/ ReaderEnds(u)
    \/ AcceptEnds
    \/ \E c \in Conns : Accept(c) \/ ServeConn(c) \/ Read(c) \/ ReadFails(c) \/ Expire(c)
    \/ Shutdown

\* Goroutines run, deadlines pass, and a socket that is closed returns an
\* error to whoever waits on it.  A client owes nothing.
Fairness ==
    /\ \A u \in Sockets : WF_vars(AnswerDatagram(u)) /\ WF_vars(ReaderEnds(u) /\ ~open)
    /\ WF_vars(AcceptEnds /\ ~open)
    /\ \A c \in Conns : WF_vars(ServeConn(c)) /\ WF_vars(Expire(c))
    /\ WF_vars(CloseListeners) /\ WF_vars(WakeConns)

Spec == Init /\ [][Next]_vars /\ Fairness

-----------------------------------------------------------------------------
TypeOK ==
    /\ shut \in {"no", "closing", "closed", "woken", "drained", "expired"}
    /\ reader \in [Sockets -> {"read", "answer", "done"}]
    /\ at \in [Conns -> {"none", "track", "loop", "arm", "read", "answer", "ask", "send",
                         "forget", "free"}]
    /\ deadline \in [Conns -> {"idle", "past"}]
    /\ conns \subseteq Conns
    /\ slots \in 0 .. MaxTCPClients /\ transfers \in 0 .. MaxTransfers

Where(places) == {c \in Conns : at[c] \in places}

\* A slot is held exactly while its goroutine runs, and a transfer slot while
\* a transfer is sent, however either ends: neither leaks, and no more of them
\* are out than the configuration allows (takeSlot, freeSlot, takeTransfer,
\* releaseTransfer).
SlotsExact ==
    /\ slots = Cardinality(Conns \ Where({"none"})) /\ slots <= MaxTCPClients
    /\ transfers = Cardinality(Where({"send"})) /\ transfers <= MaxTransfers

\* Once Shutdown has moved the deadlines, no connection is left waiting out an
\* idle period: it was registered in time to be woken, or it was refused
\* (trackConn, Shutdown).
Woken ==
    shut \in {"woken", "expired", "drained"} => \A c \in Where({"read"}) : deadline[c] = "past"

\* A query that was read is answered, also while the server shuts down
\* (Shutdown).
ReadIsAnswered == ~unanswered

\* The accept loop takes connections until the listener is closed (acceptTCP).
AcceptsUntilClosed == open => accepting

\* Once Shutdown has begun every goroutine of the server ends, whatever the
\* clients do (Shutdown, readUDP, acceptTCP, serveConn).
Drains == closing ~> ~Running
=============================================================================
