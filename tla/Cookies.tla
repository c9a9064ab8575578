------------------------------- MODULE Cookies -------------------------------
(***************************************************************************)
(* Server Cookies (dns/cookie.go, apply/cookie.go) and the load under      *)
(* which a client without one is refused (dns/load.go).  The leader mints  *)
(* a secret each CookieRotation and keeps the one before; a node answers   *)
(* with the pair it has been handed.  A cookie is what it is computed      *)
(* from: secret, time stamp, address.  The hash is taken to tell every two *)
(* of these apart.                                                         *)
(***************************************************************************)
EXTENDS Integers, FiniteSets

CONSTANTS
    Sockets,        \* the datagram sockets the meter watches
    Addresses,      \* where a client asks from
    cookieMaxAge,
    cookieMaxSkew,
    cookieRenewAge,
    CookieRotation,
    Width,          \* time stamps are modulo this: 2^32
    DropWidth,      \* and the kernel's counters modulo this
    Lag,            \* how long a rotation takes to reach the query path
    Start,
    MaxClock

VARIABLES
    now,
    stored,     \* the pair in the database: current, previous, rotatedAt
    published,  \* the pair the query path answers with
    late,       \* for how long the two have differed
    held,       \* the cookie the client returns, or NoCookie
    last,       \* what became of its last query
    counter,    \* socket -> the kernel's count of dropped datagrams
    meter,      \* drops (socket -> as last read), under, silent
    lost        \* sockets that dropped one since the last window; and in it

vars == <<now, stored, published, late, held, last, counter, meter, lost>>
cookieVars == <<stored, published, late, held, last>>
loadVars == <<counter, meter, lost>>

NoSecret == 0
NoCookie == [secret |-> NoSecret, ts |-> 0, at |-> 0, from |-> "nowhere"]
NoQuery == [held |-> NoCookie, from |-> "nowhere", at |-> 0, valid |-> FALSE, refused |-> "no"]

Init ==
    /\ now = Start
    /\ stored = [current |-> 1, previous |-> NoSecret, rotatedAt |-> Start]
    /\ published = [current |-> NoSecret, previous |-> NoSecret, rotatedAt |-> 0]
    /\ late = 0
    /\ held = NoCookie
    /\ last = NoQuery
    /\ counter = [s \in Sockets |-> 0]
    /\ meter = [drops |-> counter, under |-> FALSE, silent |-> FALSE]
    /\ lost = [now |-> {}, window |-> {}]

Tick ==
    /\ now < MaxClock
    /\ published # stored => late < Lag
    /\ now' = now + 1
    /\ late' = IF published # stored THEN late + 1 ELSE 0
    /\ UNCHANGED <<stored, published, held, last, counter, meter, lost>>

-----------------------------------------------------------------------------
(* The pair.                                                               *)

Due == ~(now < stored.rotatedAt + CookieRotation)

\* Mutant: the secret just replaced is not kept.
RotateForgetting(s) == [current |-> s.current + 1, previous |-> NoSecret, rotatedAt |-> now]

Rotate(s) == [current |-> s.current + 1, previous |-> s.current, rotatedAt |-> now]

\* By the leader alone, and as late as it likes: it may not lead when it is due.
RotateCookieSecrets ==
    /\ Due
    /\ stored' = Rotate(stored)
    /\ UNCHANGED <<now, published, late, held, last>> /\ UNCHANGED loadVars

SetCookieSecrets ==
    /\ published # stored
    /\ published' = stored /\ late' = 0
    /\ UNCHANGED <<now, stored, held, last>> /\ UNCHANGED loadVars

-----------------------------------------------------------------------------
(* One query over UDP.                                                     *)

usable == published.current # NoSecret

\* Ours, for this address, under either secret.
knows(c, from) ==
    /\ c.secret # NoSecret /\ c.from = from
    /\ \/ c.secret = published.current
       \/ published.previous # NoSecret /\ c.secret = published.previous

cookieNow == now % Width

\* int32(now - ts)
cookieAge(ts) == ((cookieNow - ts + Width + Width \div 2) % Width) - Width \div 2
cookieUsable(ts) == cookieAge(ts) <= cookieMaxAge /\ cookieAge(ts) >= -cookieMaxSkew
cookieWorn(ts) == cookieAge(ts) >= cookieRenewAge

serverCookie(from) == [secret |-> published.current, ts |-> cookieNow, at |-> now, from |-> from]

\* The client keeps what the response carries.  With no secret published a
\* response carries none.
readCookie(from, with) ==
    LET c == IF with THEN held ELSE NoCookie
        ours == knows(c, from) /\ cookieUsable(c.ts)
        fresh == ~(ours /\ ~cookieWorn(c.ts))
        refused == meter.under /\ ~(usable /\ ours)
    IN  /\ held' = IF with /\ usable /\ fresh THEN serverCookie(from) ELSE held
        /\ last' = [held |-> c, from |-> from, at |-> now, valid |-> usable /\ ours,
                    refused |-> IF ~refused THEN "no" ELSE IF with /\ usable THEN "badcookie" ELSE "cookieless"]
        /\ UNCHANGED <<now, stored, published, late>> /\ UNCHANGED loadVars

-----------------------------------------------------------------------------
(* The load meter.                                                         *)

\* The kernel discards a datagram nobody took in time.
Drop(s) ==
    /\ s \notin lost.now
    /\ counter' = [counter EXCEPT ![s] = (@ + 1) % DropWidth]
    /\ lost' = [lost EXCEPT !.now = @ \cup {s}]
    /\ UNCHANGED <<now, meter>> /\ UNCHANGED cookieVars

\* Mutant: the first socket that dropped one decides, and the rest is not read.
windowFirst ==
    /\ ~meter.silent
    /\ LET moved == {s \in Sockets : counter[s] # meter.drops[s]}
           one == IF moved = {} THEN {} ELSE {CHOOSE s \in moved : TRUE}
       IN  meter' = [meter EXCEPT !.drops = [s \in Sockets |-> IF s \in one THEN counter[s] ELSE @[s]],
                                  !.under = moved # {}]
    /\ lost' = [now |-> {}, window |-> lost.now]
    /\ UNCHANGED <<now, counter>> /\ UNCHANGED cookieVars

\* Any change at all of any counter.
window ==
    /\ ~meter.silent
    /\ meter' = [meter EXCEPT !.drops = counter, !.under = counter # meter.drops]
    /\ lost' = [now |-> {}, window |-> lost.now]
    /\ UNCHANGED <<now, counter>> /\ UNCHANGED cookieVars

\* A kernel that will not say is not asked again.
windowFails ==
    /\ ~meter.silent
    /\ meter' = [meter EXCEPT !.silent = TRUE, !.under = FALSE]
    /\ UNCHANGED <<now, counter, lost>> /\ UNCHANGED cookieVars

Next ==
    \/ Tick \/ RotateCookieSecrets \/ SetCookieSecrets
    \/ \E from \in Addresses, with \in BOOLEAN : readCookie(from, with)
    \/ \E s \in Sockets : Drop(s)
    \/ window \/ windowFails

Spec == Init /\ [][Next]_vars

-----------------------------------------------------------------------------
(***************************************************************************)
(* A client that returns the cookie it was handed, from where it was       *)
(* handed it and before its hour is up, is never refused, whatever has     *)
(* been rotated meanwhile and whatever the load; and one that was not      *)
(* handed it here is taken for nobody (CookieSecrets.knows, Rotate, Due,   *)
(* cookieUsable).                                                          *)
(***************************************************************************)
CookieHonoured ==
    LET c == last.held
    IN  /\ c.secret # NoSecret /\ c.from = last.from /\ last.at - c.at + Lag < cookieMaxAge
               => last.valid /\ last.refused = "no"
        /\ last.valid => c.from = last.from /\ last.at - c.at <= cookieMaxAge

(***************************************************************************)
(* The server counts as under load exactly when some socket dropped a      *)
(* query in the window just ended, and never once the kernel has declined  *)
(* to say (loadMeter.window).                                              *)
(***************************************************************************)
LoadIsLoss == meter.under = (lost.window # {} /\ ~meter.silent)
=============================================================================
