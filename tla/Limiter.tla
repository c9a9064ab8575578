------------------------------- MODULE Limiter -------------------------------
(***************************************************************************)
(* The limit on failed sign-ins per source address, and the middleware     *)
(* that asks it before it looks at a credential and charges it after.      *)
(* Requests overlap between the two.  One address is followed; what the    *)
(* others' rejections do to it is to forget it.                            *)
(***************************************************************************)
EXTENDS Integers, Sequences, FiniteSets

CONSTANTS
    Requests,
    authBurst, authRefill, authForget,
    MaxClock,
    MaxRejected     \* the rejections followed

\* What the constants of api/auth.go satisfy: an address is forgotten only once
\* its bucket is full again.
LimiterAssumption ==
    /\ {authBurst, authRefill, authForget} \subseteq Nat \ {0}
    /\ authForget > authRefill * (authBurst + 2)

VARIABLES
    clock,
    bucket,     \* when it is full again, when the address was last heard from
    judging,    \* request -> what is being looked at
    rejected    \* when each rejection was charged

vars == <<clock, bucket, judging, rejected>>

NoBucket == [full |-> 0, seen |-> 0, held |-> FALSE]
Idle == "idle"

Init ==
    /\ clock = 0
    /\ bucket = NoBucket
    /\ judging = [r \in Requests |-> Idle]
    /\ rejected = <<>>

Tick ==
    /\ clock < MaxClock
    /\ clock' = clock + 1
    /\ UNCHANGED <<bucket, judging, rejected>>

\* An address with no bucket may try; any other is heard from either way.
allow == ~bucket.held \/ bucket.full <= clock + authBurst * authRefill
heard == [bucket EXCEPT !.seen = IF bucket.held THEN clock ELSE @]

\* Mutant: an address is dropped after the refill of one attempt.
forgetSoon == IF bucket.held /\ clock - bucket.seen > authRefill THEN NoBucket ELSE bucket

forget == IF bucket.held /\ clock - bucket.seen > authForget THEN NoBucket ELSE bucket

spend ==
    LET full == IF forget.held /\ forget.full > clock THEN forget.full ELSE clock
    IN  /\ bucket' = [full |-> full + authRefill, seen |-> clock, held |-> TRUE]
        /\ rejected' = Append(rejected, clock)

\* Another address's rejection.
spendElsewhere ==
    /\ bucket' = forget
    /\ UNCHANGED <<clock, judging, rejected>>

\* A request with nothing in it is refused before the limit is asked, and an
\* open route is served without it.
presented(kind) == kind \in {"token", "cookie", "password"}

authenticator(r, kind) ==
    /\ judging[r] = Idle
    /\ presented(kind)
    /\ bucket' = heard
    /\ judging' = [judging EXCEPT ![r] = IF allow THEN kind ELSE Idle]
    /\ UNCHANGED <<clock, rejected>>

\* Only what can be guessed is charged: a token that is not one, a name and a
\* password that do not fit.  A cookie that does not open is cleared, and a
\* directory that cannot be asked says nothing about who asked.
credential(r, verdict) ==
    /\ judging[r] # Idle
    /\ judging' = [judging EXCEPT ![r] = Idle]
    /\ IF verdict = "refused" /\ judging[r] # "cookie"
       THEN Len(rejected) < MaxRejected /\ spend
       ELSE UNCHANGED <<bucket, rejected>>
    /\ UNCHANGED clock

Next ==
    \/ Tick
    \/ spendElsewhere
    \/ \E r \in Requests, kind \in {"nothing", "token", "cookie", "password"} : authenticator(r, kind)
    \/ \E r \in Requests, verdict \in {"accepted", "refused", "unknown"} : credential(r, verdict)

Spec == Init /\ [][Next]_vars

-----------------------------------------------------------------------------
TypeOK ==
    /\ clock \in 0..MaxClock
    /\ bucket.held \in BOOLEAN
    /\ Len(rejected) <= MaxRejected

\* No stretch of time holds more rejections from one address than the burst,
\* one for each refill it spans, and those already past the limit when it was
\* reached: neither forgetting an address nor another address's rejections
\* give any back (api.authLimiter).  The burst is one more than authBurst.
RejectionsBounded ==
    \A i, j \in 1..Len(rejected) :
        i <= j => j - i + 1 <= authBurst + Cardinality(Requests)
                                + (rejected[j] - rejected[i]) \div authRefill
=============================================================================
