------------------------------- MODULE LastUse -------------------------------
(***************************************************************************)
(* When a token was last used: noted by every request it authenticates,    *)
(* written back by one loop, and written out once more when the server is  *)
(* closed, which goes on serving.  One token; the flush writes every token *)
(* it drained in one transaction, so another would fare the same.          *)
(***************************************************************************)
EXTENDS Integers, FiniteSets

CONSTANTS
    Requests,
    Delay,      \* how long after reading the clock a request may note its use
    MaxClock

VARIABLES
    clock,
    using,      \* request -> when its token was found active, 0 when there is none
    pending,    \* tokenUse.pending, 0 when the token is not in it
    draining,   \* who is flushing, and what was drained
    lastUsed,   \* api_tokens.last_used_at
    loop,       \* recordUse has not returned
    closing,    \* "open", "waiting" for the loop, "flushing" or "closed"
    noted,      \* the latest use noted before Close's own flush
    lost        \* a flush failed: what it had drained is reported and gone

vars == <<clock, using, pending, draining, lastUsed, loop, closing, noted, lost>>

NoUse == 0
Quiet == [by |-> "nobody", at |-> NoUse]
Later(a, b) == IF a > b THEN a ELSE b

Init ==
    /\ clock = 1
    /\ using = [r \in Requests |-> NoUse]
    /\ pending = NoUse
    /\ draining = Quiet
    /\ lastUsed = NoUse
    /\ loop = TRUE
    /\ closing = "open"
    /\ noted = NoUse
    /\ lost = FALSE

Tick ==
    /\ clock < MaxClock
    /\ \A r \in Requests : using[r] # NoUse => clock - using[r] < Delay
    /\ clock' = clock + 1
    /\ UNCHANGED <<using, pending, draining, lastUsed, loop, closing, noted, lost>>

\* The token is active; the moment is read before the map is locked.
tokenSubject(r) ==
    /\ using[r] = NoUse
    /\ using' = [using EXCEPT ![r] = clock]
    /\ UNCHANGED <<clock, pending, draining, lastUsed, loop, closing, noted, lost>>

\* Mutant: the first use since the last flush is the one kept.
recordFirst(r) ==
    /\ using[r] # NoUse
    /\ pending' = IF pending = NoUse THEN using[r] ELSE pending
    /\ using' = [using EXCEPT ![r] = NoUse]
    /\ noted' = IF closing \in {"open", "waiting"} THEN Later(noted, using[r]) ELSE noted
    /\ UNCHANGED <<clock, draining, lastUsed, loop, closing, lost>>

record(r) ==
    /\ using[r] # NoUse
    /\ pending' = Later(pending, using[r])
    /\ using' = [using EXCEPT ![r] = NoUse]
    /\ noted' = IF closing \in {"open", "waiting"} THEN Later(noted, using[r]) ELSE noted
    /\ UNCHANGED <<clock, draining, lastUsed, loop, closing, lost>>

-----------------------------------------------------------------------------
(* drain takes what has accumulated; the transaction comes after.          *)

drain(by) ==
    /\ draining' = [by |-> by, at |-> pending]
    /\ pending' = NoUse

TouchToken(written) ==
    /\ lastUsed' = IF written /\ draining.at # NoUse THEN draining.at ELSE lastUsed
    /\ lost' = (lost \/ (~written /\ draining.at # NoUse))
    /\ draining' = Quiet

\* The select takes either branch when both are ready.
recordUse ==
    /\ loop
    /\ draining = Quiet
    /\ drain("loop")
    /\ UNCHANGED <<clock, using, lastUsed, loop, closing, noted, lost>>

loopWrites(written) ==
    /\ draining.by = "loop"
    /\ TouchToken(written)
    /\ UNCHANGED <<clock, using, pending, loop, closing, noted>>

loopReturns ==
    /\ loop
    /\ closing = "waiting"
    /\ draining = Quiet
    /\ loop' = FALSE
    /\ UNCHANGED <<clock, using, pending, draining, lastUsed, closing, noted, lost>>

Close ==
    /\ closing = "open"
    /\ closing' = "waiting"
    /\ UNCHANGED <<clock, using, pending, draining, lastUsed, loop, noted, lost>>

closeFlushes ==
    /\ closing = "waiting"
    /\ ~loop
    /\ drain("close")
    /\ closing' = "flushing"
    /\ UNCHANGED <<clock, using, lastUsed, loop, noted, lost>>

closeWrites(written) ==
    /\ draining.by = "close"
    /\ TouchToken(written)
    /\ closing' = "closed"
    /\ UNCHANGED <<clock, using, pending, loop, noted>>

Next ==
    \/ Tick
    \/ \E r \in Requests : tokenSubject(r) \/ record(r)
    \/ recordUse
    \/ loopReturns
    \/ Close
    \/ closeFlushes
    \/ \E written \in BOOLEAN : loopWrites(written) \/ closeWrites(written)

Spec == Init /\ [][Next]_vars

-----------------------------------------------------------------------------
TypeOK ==
    /\ clock \in 1..MaxClock
    /\ using \in [Requests -> 0..MaxClock]
    /\ pending \in 0..MaxClock
    /\ draining.by \in {"nobody", "loop", "close"}
    /\ lastUsed \in 0..MaxClock

\* A server that has been closed, and whose flushes all succeeded, has written
\* down every use noted before it stopped: the moment it holds is the latest
\* one, or behind it by no more than a request took to note its own
\* (api.flushTokenUse, api.Server.Close).
UseIsKept ==
    closing = "closed" /\ ~lost => lastUsed + Delay >= noted
=============================================================================
