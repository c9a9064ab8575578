------------------------------- MODULE SignIn --------------------------------
(***************************************************************************)
(* Signing in through an OpenID Connect provider: from the sign-in page,   *)
(* from `weg login`, and as the test an administrator starts from the page *)
(* or with `weg idp check --sign-in`.                                      *)
(*                                                                         *)
(* One browser, one provider.  The flow a start seals lives in one cookie, *)
(* so a second start replaces it while the first is still at the provider. *)
(* What a sign-in came to goes to the page, or to the port a weg waits on; *)
(* a weg that gave up leaves the port to the next.  The session key's      *)
(* rotation is Sessions' subject: a flow is far shorter than a key's life. *)
(***************************************************************************)
EXTENDS Integers, Sequences, FiniteSets

CONSTANTS
    Logins,         \* the weg commands that wait on the one port
    FlowLifetime,   \* flowLifetime, and loginWait with it
    Burst,          \* callbacks nobody started, before the address waits
    MaxFlows, MaxClock

VARIABLES
    now,
    enabled,    \* is the provider switched on?
    tickets,    \* when the tickets for a test sign-in run out
    flows,      \* every flow started: where it ends, whether it is a test, when it runs out
    cookie,     \* the flow the browser's cookie holds, or 0
    back,       \* answers the provider has sent the browser back with
    guesses,    \* callbacks counted against the address
    weg,        \* what each weg is doing
    kept,       \* what each weg came back with, a session or what a test came to:
                \* the flow it came from, or 0
    opened      \* every session opened: the flow, and whether the provider was on

vars == <<now, enabled, tickets, flows, cookie, back, guesses, weg, kept, opened>>

Page == "page"
Nowhere == 0

Init ==
    /\ now = 0
    /\ enabled \in BOOLEAN
    /\ tickets = {}
    /\ flows = <<>>
    /\ cookie = Nowhere
    /\ back = {}
    /\ guesses = 0
    /\ weg = [l \in Logins |-> "idle"]
    /\ kept = [l \in Logins |-> Nowhere]
    /\ opened = {}

Tick ==
    /\ now < MaxClock
    /\ now' = now + 1
    /\ UNCHANGED <<enabled, tickets, flows, cookie, back, guesses, weg, kept, opened>>

Switch ==
    /\ enabled' = ~enabled
    /\ UNCHANGED <<now, tickets, flows, cookie, back, guesses, weg, kept, opened>>

-----------------------------------------------------------------------------
(* The port of 127.0.0.1.                                                  *)

Listening(l) == weg[l] \in {"waits", "checks"}

\* What is sealed to a key opens under that key alone.
Open(l, key) == key = l

\* A login has ended, or a check.
Over(l) == [weg EXCEPT ![l] = IF @ = "checks" THEN "checked" ELSE "done"]

\* The result is an error, a sealed session, or what a test came to; weg
\* login keeps a session that opens, asked about once with it, and weg idp
\* check hands what a test came to to the server, whichever test that was.
loopbackHandler(l, result) ==
    /\ weg' = Over(l)
    /\ kept' = IF \/ weg[l] = "waits" /\ result.kind = "session" /\ Open(l, result.key)
                  \/ weg[l] = "checks" /\ result.kind = "tried"
               THEN [kept EXCEPT ![l] = result.flow] ELSE kept

\* The handler takes the first answer and no other; without a listener the
\* browser finds nothing there.
Deliver(to, result) ==
    IF to # Page /\ \E l \in Logins : Listening(l)
    THEN \E l \in Logins : Listening(l) /\ loopbackHandler(l, result)
    ELSE UNCHANGED <<weg, kept>>

\* No sign-in came back in time, or an interrupt.
GiveUp(l) ==
    /\ Listening(l)
    /\ weg' = Over(l)
    /\ UNCHANGED <<now, enabled, tickets, flows, cookie, back, guesses, kept, opened>>

-----------------------------------------------------------------------------
(* Starting.                                                               *)

oidcProvider(off) == enabled \/ off

\* Sealed into the cookie, over whatever it held.
startOIDC(to, test) ==
    /\ Len(flows) < MaxFlows
    /\ flows' = Append(flows, [to |-> to, test |-> test, expires |-> now + FlowLifetime])
    /\ cookie' = Len(flows) + 1

\* A start that is refused says so where the sign-in would have ended.
StartFromPage ==
    /\ oidcProvider(FALSE)
    /\ startOIDC(Page, FALSE)
    /\ UNCHANGED <<now, enabled, tickets, back, guesses, weg, kept, opened>>

\* weg listens first, so one at a time has the port.
runLogin(l) ==
    /\ weg[l] = "idle"
    /\ ~\E m \in Logins : Listening(m)
    /\ IF oidcProvider(FALSE)
       THEN /\ startOIDC(l, FALSE)
            /\ weg' = [weg EXCEPT ![l] = "waits"]
       ELSE /\ weg' = [weg EXCEPT ![l] = "done"]
            /\ UNCHANGED <<flows, cookie>>
    /\ UNCHANGED <<now, enabled, tickets, back, guesses, kept, opened>>

\* An administrator's, and the provider may be off.
TryOIDCSignIn ==
    /\ tickets' = tickets \cup {now + FlowLifetime}
    /\ UNCHANGED <<now, enabled, flows, cookie, back, guesses, weg, kept, opened>>

\* weg idp check --sign-in listens, and then asks for a ticket.
runIDPTry(l) ==
    /\ weg[l] = "idle"
    /\ ~\E m \in Logins : Listening(m)
    /\ weg' = [weg EXCEPT ![l] = "checks"]
    /\ tickets' = tickets \cup {now + FlowLifetime}
    /\ UNCHANGED <<now, enabled, flows, cookie, back, guesses, kept, opened>>

\* The address a ticket came with says where the test ends.
StartTest(to) ==
    /\ \E t \in tickets : now < t
    /\ to # Page => weg[to] \in {"checks", "checked"}
    /\ oidcProvider(TRUE)
    /\ startOIDC(to, TRUE)
    /\ UNCHANGED <<now, enabled, tickets, back, guesses, weg, kept, opened>>

-----------------------------------------------------------------------------
(* Coming back.                                                            *)

\* With a code, or a refusal.
ProviderAnswers(f) ==
    /\ back' = back \cup {f}
    /\ UNCHANGED <<now, enabled, tickets, flows, cookie, guesses, weg, kept, opened>>

\* Mutant: the switch is not looked at again.
oidcIdentityStale(state) ==
    /\ now < flows[cookie].expires
    /\ state = cookie

\* The answer has to be the one the flow in the cookie asked for, in time,
\* through a provider that is on unless it is a test.
oidcIdentity(state) ==
    /\ now < flows[cookie].expires
    /\ state = cookie
    /\ oidcProvider(flows[cookie].test)

\* The provider did not refuse, the code is exchanged and the groups map to a
\* scope, or not (vouched).
finishOIDC(state, vouched) ==
    IF oidcIdentity(state) /\ vouched
    THEN /\ opened' = opened \cup {[flow |-> cookie, on |-> enabled]}
         /\ Deliver(flows[cookie].to,
                    [kind |-> "session", flow |-> cookie, key |-> flows[cookie].to])
    ELSE /\ UNCHANGED opened
         /\ Deliver(flows[cookie].to, [kind |-> "error", flow |-> cookie, key |-> Page])

\* A test opens nothing; what it came to is sealed for the check.
finishTest ==
    /\ UNCHANGED opened
    /\ Deliver(flows[cookie].to, [kind |-> "tried", flow |-> cookie, key |-> Page])

\* The cookie is cleared however it ends.  Only a callback without a flow of
\* this server's counts as a guess.
FinishOIDCSignIn(state, vouched) ==
    /\ back' = back \ {state}
    /\ cookie' = Nowhere
    /\ IF guesses > Burst \/ cookie = Nowhere
       THEN /\ guesses' = IF guesses > Burst THEN guesses ELSE guesses + 1
            /\ UNCHANGED opened
            /\ IF cookie = Nowhere THEN UNCHANGED <<weg, kept>>
               ELSE Deliver(flows[cookie].to, [kind |-> "error", flow |-> cookie, key |-> Page])
       ELSE /\ UNCHANGED guesses
            /\ IF flows[cookie].test THEN finishTest
               ELSE finishOIDC(state, vouched)
    /\ UNCHANGED <<now, enabled, tickets, flows>>

Next ==
    \/ Tick
    \/ Switch
    \/ StartFromPage
    \/ TryOIDCSignIn
    \/ \E to \in {Page} \cup Logins : StartTest(to)
    \/ \E l \in Logins : runLogin(l) \/ runIDPTry(l) \/ GiveUp(l)
    \/ \E f \in 1..Len(flows) : ProviderAnswers(f)
    \/ \E state \in back, vouched \in BOOLEAN : FinishOIDCSignIn(state, vouched)

Spec == Init /\ [][Next]_vars

-----------------------------------------------------------------------------
TypeOK ==
    /\ now \in 0..MaxClock
    /\ cookie \in 0..Len(flows)
    /\ kept \in [Logins -> 0..MaxFlows]
    /\ \A s \in opened : s.flow \in 1..Len(flows)

\* What a `weg login` keeps is the session of the sign-in it started itself,
\* whichever tab, stale answer or earlier command on the same port reached it
\* first, and what a `weg idp check` reports is what a test came to; and no
\* session is opened by a test, or through a provider that was off when the
\* browser came back (api.FinishOIDCSignIn, cli.awaitBrowser, handoff.Key.Open).
SignInIsItsOwn ==
    /\ \A l \in Logins : kept[l] # Nowhere =>
          LET f == flows[kept[l]]
          IN  IF weg[l] = "checked" THEN f.test ELSE f.to = l /\ ~f.test
    /\ \A s \in opened : s.on /\ ~flows[s.flow].test
=============================================================================
