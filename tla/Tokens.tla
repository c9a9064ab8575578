------------------------------- MODULE Tokens --------------------------------
(***************************************************************************)
(* API tokens: minting, withdrawing, and the rule that the last credential *)
(* able to administer the server is not withdrawn.                         *)
(*                                                                         *)
(* Requests overlap on the server that leads.  A token may expire while a  *)
(* request about it is under way.                                          *)
(***************************************************************************)
EXTENDS Integers, Sequences, FiniteSets

CONSTANTS
    Requests,       \* the revocations that may be under way at once
    MaxTokens, MaxClock

VARIABLES
    clock,
    tokens,     \* api_tokens, in the order they were made
    asked,      \* request -> the token it withdraws and when it was asked, or Idle
    plans,      \* the requests whose guard has passed and whose batch is not written
    holder      \* who holds tokenLock

vars == <<clock, tokens, asked, plans, holder>>

Never == MaxClock + 1
Idle == [target |-> 0, at |-> 0]
Nobody == "nobody"

Init ==
    /\ clock = 0
    /\ tokens = <<>>
    /\ asked = [r \in Requests |-> Idle]
    /\ plans = {}
    /\ holder = Nobody

Tick ==
    /\ clock < MaxClock
    /\ clock' = clock + 1
    /\ UNCHANGED <<tokens, asked, plans, holder>>

Active(t, at) == ~t.revoked /\ at < t.expires
hasAdmin(t) == t.scope = "admin"

MintToken(scope, expires) == [scope |-> scope, expires |-> expires, revoked |-> FALSE]

\* On the first start only: a withdrawn token is still a token.
EnsureBootstrapToken ==
    /\ tokens = <<>>
    /\ tokens' = <<MintToken("admin", Never)>>
    /\ UNCHANGED <<clock, asked, plans, holder>>

requireAdmin == \E i \in 1..Len(tokens) : hasAdmin(tokens[i]) /\ Active(tokens[i], clock)

\* No lock: it takes nothing away.
CreateToken(scope, expires) ==
    /\ Len(tokens) < MaxTokens
    /\ requireAdmin
    /\ clock < expires
    /\ tokens' = Append(tokens, MintToken(scope, expires))
    /\ UNCHANGED <<clock, asked, plans, holder>>

-----------------------------------------------------------------------------
(* Withdrawing one.  When it was asked is read before the lock.            *)

Ask(r, i) ==
    /\ asked[r] = Idle
    /\ requireAdmin
    /\ asked' = [asked EXCEPT ![r] = [target |-> i, at |-> clock]]
    /\ UNCHANGED <<clock, tokens, plans, holder>>

checkNotLastAdmin(revoking, now) ==
    /\ hasAdmin(tokens[revoking])
    /\ Active(tokens[revoking], now)
    => \E i \in 1..Len(tokens) :
           i # revoking /\ Active(tokens[i], now) /\ hasAdmin(tokens[i])

\* Mutant: two revocations plan at once.
PlanUnlocked(r) ==
    /\ asked[r] # Idle
    /\ r \notin plans
    /\ IF checkNotLastAdmin(asked[r].target, asked[r].at)
       THEN /\ plans' = plans \cup {r}
            /\ UNCHANGED <<asked, holder>>
       ELSE /\ asked' = [asked EXCEPT ![r] = Idle]
            /\ UNCHANGED <<plans, holder>>
    /\ UNCHANGED <<clock, tokens>>

\* A refused request is answered; one that passes keeps the lock until its
\* batch is written.
Plan(r) ==
    /\ asked[r] # Idle
    /\ holder = Nobody
    /\ IF checkNotLastAdmin(asked[r].target, asked[r].at)
       THEN /\ plans' = plans \cup {r}
            /\ holder' = r
            /\ UNCHANGED asked
       ELSE /\ asked' = [asked EXCEPT ![r] = Idle]
            /\ UNCHANGED <<plans, holder>>
    /\ UNCHANGED <<clock, tokens>>

\* Only the first revocation of a token counts.  The write can fail, which
\* leaves the token as it was.
Submit(r, written) ==
    /\ r \in plans
    /\ tokens' = IF written THEN [tokens EXCEPT ![asked[r].target].revoked = TRUE] ELSE tokens
    /\ plans' = plans \ {r}
    /\ asked' = [asked EXCEPT ![r] = Idle]
    /\ holder' = Nobody
    /\ UNCHANGED clock

Next ==
    \/ Tick
    \/ EnsureBootstrapToken
    \/ \E scope \in {"admin", "write"}, expires \in {clock + 1, Never} : CreateToken(scope, expires)
    \/ \E r \in Requests, i \in 1..Len(tokens) : Ask(r, i)
    \/ \E r \in Requests : Plan(r)
    \/ \E r \in Requests, written \in BOOLEAN : Submit(r, written)

Spec == Init /\ [][Next]_vars

-----------------------------------------------------------------------------
TypeOK ==
    /\ clock \in 0..MaxClock
    /\ \A i \in 1..Len(tokens) : tokens[i].scope \in {"admin", "write"} /\ tokens[i].revoked \in BOOLEAN
    /\ holder \in Requests \cup {Nobody}
    /\ plans \subseteq Requests

\* However revocations overlap, withdrawing a token that could administer the
\* server when it was asked for leaves another that could: two never each
\* count on the other (api.checkNotLastAdmin inside apply.RevokeToken's lock).
AdminRemains ==
    \A r \in plans :
        LET i == asked[r].target
        IN  (~tokens[i].revoked /\ tokens'[i].revoked /\ hasAdmin(tokens[i])
             /\ Active(tokens[i], asked[r].at))
            => \E j \in 1..Len(tokens) : j # i /\ hasAdmin(tokens[j]) /\ Active(tokens'[j], asked[r].at)
=============================================================================
