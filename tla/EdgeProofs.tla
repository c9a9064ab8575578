------------------------------ MODULE EdgeProofs -------------------------------
(***************************************************************************)
(* At the edge of a server: revocations that overlap leave an              *)
(* administrator, and every match of the live tail is accounted for, for   *)
(* any number of requests and tokens, query goroutines and watchers.       *)
(***************************************************************************)
EXTENDS Integers, Sequences, FiniteSets, FiniteSetTheorems, TLAPS

CONSTANTS
    Requests, MaxTokens, MaxClock,                                              \* Tokens
    Readers, Watchers, MaxWatchers, Buffer, MaxRate, Seconds, MaxOffers         \* Stream

VARIABLES
    clock, tokens, asked, plans, holder,
    list, state, sub, offer, offers, taken

K == INSTANCE Tokens
S == INSTANCE Stream

-----------------------------------------------------------------------------
(* Tokens.                                                                 *)

Token == [scope : {"admin", "write"}, expires : Int, revoked : BOOLEAN]

\* The inductive invariant: a request that is planned holds the lock, and the guard
\* it passed would still let it pass.
GuardInv ==
    /\ clock \in Int
    /\ tokens \in Seq(Token)
    /\ asked \in [Requests -> [target : Nat, at : Int]]
    /\ \A r \in Requests : asked[r] # K!Idle => asked[r].target \in 1 .. Len(tokens)
    /\ \A r \in plans : /\ r \in Requests /\ holder = r /\ asked[r] # K!Idle
                        /\ K!checkNotLastAdmin(asked[r].target, asked[r].at)

\* The guard speaks of the tokens as they are; a token made since changes nothing.
LEMMA GuardGrows ==
  ASSUME tokens \in Seq(Token), NEW new \in Token, tokens' = Append(tokens, new),
         NEW i \in 1 .. Len(tokens), NEW now, K!checkNotLastAdmin(i, now)
  PROVE  K!checkNotLastAdmin(i, now)'
<1>1. Len(tokens') = Len(tokens) + 1 /\ \A j \in 1 .. Len(tokens) : tokens'[j] = tokens[j]  OBVIOUS
<1>2. 1 .. Len(tokens) \subseteq 1 .. Len(tokens')  BY <1>1
<1> QED BY <1>1, <1>2 DEF K!checkNotLastAdmin, K!hasAdmin, K!Active

\* Minting a token, on the first start or for an administrator.
LEMMA MintKeeps ==
  ASSUME GuardInv, NEW new \in Token, tokens' = Append(tokens, new), UNCHANGED <<clock, asked, plans, holder>>
  PROVE  GuardInv'
<1>1. tokens' \in Seq(Token) /\ Len(tokens') = Len(tokens) + 1  BY DEF GuardInv
<1>2. \A r \in Requests : asked[r] # K!Idle => asked[r].target \in 1 .. Len(tokens')
  BY <1>1 DEF GuardInv
<1>3. ASSUME NEW r \in plans PROVE K!checkNotLastAdmin(asked[r].target, asked[r].at)'
  <2>1. /\ tokens \in Seq(Token) /\ asked[r].target \in 1 .. Len(tokens)
        /\ K!checkNotLastAdmin(asked[r].target, asked[r].at)
    BY DEF GuardInv
  <2>2. PICK i \in 1 .. Len(tokens) : i = asked[r].target  BY <2>1
  <2>3. PICK now : now = asked[r].at  OBVIOUS
  <2>4. K!checkNotLastAdmin(i, now)  BY <2>1, <2>2, <2>3
  <2>5. K!checkNotLastAdmin(i, now)'  BY <2>1, <2>4, GuardGrows
  <2> QED BY <2>2, <2>3, <2>5
<1> QED BY <1>1, <1>2, <1>3 DEF GuardInv

\* Asking, which looks at the token list and takes no lock.
LEMMA AskKeeps ==
  ASSUME GuardInv, NEW r \in Requests, NEW i \in 1 .. Len(tokens), K!Ask(r, i) PROVE GuardInv'
<1>1. /\ asked[r] = K!Idle /\ asked' = [asked EXCEPT ![r] = [target |-> i, at |-> clock]]
      /\ UNCHANGED <<clock, tokens, plans, holder>>
  BY DEF K!Ask
<1>2. Len(tokens) \in Nat /\ i \in Nat  BY DEF GuardInv
<1>3. asked' \in [Requests -> [target : Nat, at : Int]]  BY <1>1, <1>2 DEF GuardInv
<1>4. asked'[r].target = i /\ \A q \in Requests \ {r} : asked'[q] = asked[q]  BY <1>1 DEF GuardInv
<1>5. r \notin plans  BY <1>1 DEF GuardInv
<1>6. \A q \in plans : K!checkNotLastAdmin(asked[q].target, asked[q].at)'
  BY <1>1, <1>4, <1>5, ZenonT(30) DEF GuardInv, K!checkNotLastAdmin, K!hasAdmin, K!Active
<1> QED BY <1>1, <1>3, <1>4, <1>5, <1>6 DEF GuardInv

\* The guard, under a lock nobody held.
LEMMA PlanKeeps ==
  ASSUME "nobody" \notin Requests, GuardInv, NEW r \in Requests, K!Plan(r) PROVE GuardInv'
<1>1. asked[r] # K!Idle /\ holder = K!Nobody /\ UNCHANGED <<clock, tokens>>  BY DEF K!Plan
<1>2. plans = {}  BY <1>1 DEF GuardInv, K!Nobody
<1>3. CASE K!checkNotLastAdmin(asked[r].target, asked[r].at)
  <2>1. plans' = {r} /\ holder' = r /\ asked' = asked  BY <1>2, <1>3 DEF K!Plan
  <2>2. K!checkNotLastAdmin(asked[r].target, asked[r].at)'
    BY <1>1, <1>3, <2>1 DEF K!checkNotLastAdmin, K!hasAdmin, K!Active
  <2> QED BY <1>1, <2>1, <2>2 DEF GuardInv
<1>4. CASE ~K!checkNotLastAdmin(asked[r].target, asked[r].at)
  <2>1. plans' = {} /\ asked' = [asked EXCEPT ![r] = K!Idle]  BY <1>2, <1>4 DEF K!Plan
  <2>2. /\ asked' \in [Requests -> [target : Nat, at : Int]]
        /\ \A q \in Requests : asked'[q] = K!Idle \/ asked'[q] = asked[q]
    BY <2>1 DEF GuardInv, K!Idle
  <2> QED BY <1>1, <2>1, <2>2 DEF GuardInv
<1> QED BY <1>3, <1>4

\* The batch, and the lock given back.
LEMMA SubmitKeeps ==
  ASSUME GuardInv, NEW r \in Requests, NEW written \in BOOLEAN, K!Submit(r, written) PROVE GuardInv'
<1>1. /\ r \in plans /\ plans' = plans \ {r} /\ asked' = [asked EXCEPT ![r] = K!Idle] /\ clock' = clock
      /\ tokens' = IF written THEN [tokens EXCEPT ![asked[r].target].revoked = TRUE] ELSE tokens
  BY DEF K!Submit
<1>2. plans' = {}  BY <1>1 DEF GuardInv
<1>3. tokens' \in Seq(Token) /\ Len(tokens') = Len(tokens)
  <2>1. asked[r].target \in 1 .. Len(tokens) /\ tokens \in Seq(Token)  BY <1>1 DEF GuardInv
  <2>2. PICK new : new = [tokens[asked[r].target] EXCEPT !.revoked = TRUE]  BY ZenonT(30)
  <2>3. new \in Token
    <3>1. PICK old \in Token : old = tokens[asked[r].target]  BY <2>1
    <3>2. new = [old EXCEPT !.revoked = TRUE]  BY <2>2, <3>1
    <3> QED BY <3>2, ZenonT(30) DEF Token
  <2>4. tokens' = tokens \/ tokens' = [tokens EXCEPT ![asked[r].target] = new]  BY <1>1, <2>2
  <2> QED BY <2>1, <2>3, <2>4
<1>4. /\ asked' \in [Requests -> [target : Nat, at : Int]]
      /\ \A q \in Requests : asked'[q] = K!Idle \/ asked'[q] = asked[q]
  BY <1>1 DEF GuardInv, K!Idle
<1> QED BY <1>1, <1>2, <1>3, <1>4 DEF GuardInv

\* Every step keeps the guard good and leaves an administrator.
LEMMA TokenStep ==
  "nobody" \notin Requests /\ MaxClock \in Int /\ GuardInv /\ [K!Next]_(K!vars)
     => GuardInv' /\ [K!AdminRemains]_(K!vars)
<1> SUFFICES ASSUME "nobody" \notin Requests, MaxClock \in Int, GuardInv, [K!Next]_(K!vars)
             PROVE  GuardInv' /\ [K!AdminRemains]_(K!vars)
  OBVIOUS
<1>1. CASE UNCHANGED K!vars
  BY <1>1 DEF K!vars, GuardInv, K!checkNotLastAdmin, K!hasAdmin, K!Active
<1>2. CASE K!Tick
  <2>1. clock' \in Int /\ UNCHANGED <<tokens, asked, plans, holder>>  BY <1>2 DEF K!Tick, GuardInv
  <2>2. GuardInv'  BY <2>1 DEF GuardInv, K!checkNotLastAdmin, K!hasAdmin, K!Active
  <2> QED BY <2>1, <2>2 DEF K!AdminRemains
<1>3. ASSUME NEW new \in Token, tokens' = Append(tokens, new), UNCHANGED <<clock, asked, plans, holder>>
      PROVE  GuardInv' /\ K!AdminRemains
  <2>1. \A r \in plans : tokens'[asked[r].target] = tokens[asked[r].target]
    <3>1. tokens \in Seq(Token) /\ \A r \in plans : asked[r].target \in 1 .. Len(tokens)
      BY DEF GuardInv
    <3> QED BY <1>3, <3>1
  <2>2. K!AdminRemains  BY <2>1 DEF K!AdminRemains
  <2> QED BY <1>3, <2>2, MintKeeps
<1>4. CASE K!EnsureBootstrapToken
  <2>1. PICK new : new = K!MintToken("admin", K!Never)  OBVIOUS
  <2>2. new \in Token  BY <2>1 DEF K!MintToken, K!Never, Token
  <2>3. tokens' = Append(tokens, new) /\ UNCHANGED <<clock, asked, plans, holder>>
    BY <1>4, <2>1, <2>2 DEF K!EnsureBootstrapToken
  <2> QED BY <1>3, <2>2, <2>3
<1>5. ASSUME NEW scope \in {"admin", "write"}, NEW expires \in {clock + 1, K!Never},
             K!CreateToken(scope, expires)
      PROVE  GuardInv' /\ K!AdminRemains
  <2>1. PICK new : new = K!MintToken(scope, expires)  OBVIOUS
  <2>2. expires \in Int  BY DEF GuardInv, K!Never
  <2>3. new \in Token  BY <2>1, <2>2 DEF K!MintToken, Token
  <2> QED BY <1>3, <1>5, <2>1, <2>3 DEF K!CreateToken
<1>6. ASSUME NEW r \in Requests, (\E i \in 1 .. Len(tokens) : K!Ask(r, i)) \/ K!Plan(r)
      PROVE  GuardInv' /\ K!AdminRemains
  <2>1. tokens' = tokens  BY <1>6 DEF K!Ask, K!Plan
  <2> QED BY <1>6, <2>1, AskKeeps, PlanKeeps DEF K!AdminRemains
<1>7. ASSUME NEW r \in Requests, NEW written \in BOOLEAN, K!Submit(r, written)
      PROVE  GuardInv' /\ K!AdminRemains
  <2>1. plans = {r} /\ K!checkNotLastAdmin(asked[r].target, asked[r].at)
    BY <1>7 DEF K!Submit, GuardInv
  <2>2. asked[r].target \in 1 .. Len(tokens) /\ tokens \in Seq(Token)  BY <1>7 DEF K!Submit, GuardInv
  <2>3. \A j \in 1 .. Len(tokens) : j # asked[r].target => tokens'[j] = tokens[j]
    BY <1>7, <2>2 DEF K!Submit
  <2>4. K!AdminRemains  BY <2>1, <2>3 DEF K!AdminRemains, K!checkNotLastAdmin
  <2> QED BY <1>7, <2>4, SubmitKeeps
<1> QED BY <1>1, <1>2, <1>4, <1>5, <1>6, <1>7 DEF K!Next

\* However many revocations overlap, the one that withdraws a token that could
\* administer the server leaves another that can: the lock is held from the guard to
\* the batch (checkNotLastAdmin, RevokeToken).
THEOREM AdminStays ==
  ASSUME "nobody" \notin Requests, MaxClock \in Int
  PROVE  K!Spec => [][K!AdminRemains]_(K!vars)
<1>1. K!Init => GuardInv  BY DEF K!Init, GuardInv, K!Idle, Token
<1>2. GuardInv /\ [K!Next]_(K!vars) => GuardInv' /\ [K!AdminRemains]_(K!vars)  BY TokenStep
<1> QED BY <1>1, <1>2, PTL DEF K!Spec

-----------------------------------------------------------------------------
(* The live tail.                                                          *)

Stamps == Seconds \cup {0}
Resting == {"idle", "next"}

\* The goroutines that have counted a match for the watcher and not settled it.
Underway(w) == {r \in Readers : offer[r].w = w /\ offer[r].at \notin Resting}

\* What has become of the matches that are settled.
Settled(w) == taken[w] + Len(sub[w].events) + sub[w].sampled + sub[w].dropped

OfferOK(r) ==
    /\ DOMAIN offer[r] = {"at", "to", "w", "sec", "n"}
    /\ offer[r].sec \in Stamps
    /\ offer[r].at \notin Resting => offer[r].w \in Watchers

SubOK(w) ==
    /\ DOMAIN sub[w] = {"events", "matched", "sent", "sampled", "dropped",
                        "window", "count", "next", "carried", "ratio"}
    /\ sub[w].events \in Seq(Stamps)
    /\ sub[w].matched \in Nat /\ sub[w].sampled \in Nat /\ sub[w].dropped \in Nat

StreamTypes ==
    /\ DOMAIN offer = Readers /\ \A r \in Readers : OfferOK(r)
    /\ DOMAIN sub = Watchers /\ \A w \in Watchers : SubOK(w)
    /\ taken \in [Watchers -> Nat]

\* The inductive invariant: a match is settled or under way.
MatchInv ==
    /\ StreamTypes
    /\ \A w \in Watchers : sub[w].matched = Settled(w) + Cardinality(Underway(w))

\* What a step of one goroutine leaves alone, with the watcher it is about.
OnlyOffer(r) ==
    DOMAIN offer' = Readers /\ OfferOK(r)' /\ \A q \in Readers \ {r} : offer'[q] = offer[q]
OnlySub(w) ==
    DOMAIN sub' = Watchers /\ SubOK(w)' /\ \A v \in Watchers \ {w} : sub'[v] = sub[v]

\* The numbers that are added up are numbers.
LEMMA Counted ==
  ASSUME IsFiniteSet(Readers), StreamTypes, NEW w \in Watchers
  PROVE  /\ Settled(w) \in Nat /\ IsFiniteSet(Underway(w)) /\ Cardinality(Underway(w)) \in Nat
<1>1. IsFiniteSet(Underway(w))  BY FS_Subset DEF Underway
<1>2. /\ taken[w] \in Nat /\ Len(sub[w].events) \in Nat
      /\ sub[w].sampled \in Nat /\ sub[w].dropped \in Nat
  BY DEF StreamTypes, SubOK
<1>3. Cardinality(Underway(w)) \in Nat  BY <1>1, FS_CardinalityType
<1>4. PICK a \in Nat, b \in Nat, c \in Nat, d \in Nat : Settled(w) = a + b + c + d
  BY <1>2, ZenonT(30) DEF Settled
<1> QED BY <1>1, <1>3, <1>4

\* The types after a step of one goroutine about one watcher.
LEMMA TypesKept ==
  ASSUME StreamTypes, NEW r \in Readers, NEW w \in Watchers, OnlyOffer(r), OnlySub(w), taken' = taken
  PROVE  StreamTypes'
<1>1. \A q \in Readers : OfferOK(q)'  BY DEF StreamTypes, OnlyOffer, OfferOK
<1>2. \A v \in Watchers : SubOK(v)'  BY ZenonT(30) DEF StreamTypes, OnlySub, SubOK
<1> QED BY <1>1, <1>2 DEF StreamTypes, OnlyOffer, OnlySub

\* A goroutine that stays under way settles nothing.
LEMMA GoesOn ==
  ASSUME MatchInv, NEW r \in Readers, NEW w \in Watchers, OnlyOffer(r), OnlySub(w), taken' = taken,
         offer[r].w = w, offer[r].at \notin Resting, offer'[r].w = w, offer'[r].at \notin Resting,
         sub'[w].matched = sub[w].matched, Settled(w)' = Settled(w)
  PROVE  MatchInv'
<1>1. StreamTypes'  BY TypesKept DEF MatchInv
<1>2. \A v \in Watchers : Underway(v)' = Underway(v)  BY DEF OnlyOffer, Underway
<1>3. \A v \in Watchers \ {w} : sub'[v] = sub[v] /\ Settled(v)' = Settled(v)
  BY DEF OnlySub, Settled
<1> QED BY <1>1, <1>2, <1>3 DEF MatchInv

\* A goroutine that settles its match in one of the three ways.
LEMMA Settles ==
  ASSUME IsFiniteSet(Readers), MatchInv, NEW r \in Readers, NEW w \in Watchers,
         OnlyOffer(r), OnlySub(w), taken' = taken,
         offer[r].w = w, offer[r].at \notin Resting, offer'[r].at \in Resting,
         sub'[w].matched = sub[w].matched, Settled(w)' = Settled(w) + 1
  PROVE  MatchInv'
<1>1. StreamTypes'  BY TypesKept DEF MatchInv
<1>2. Underway(w)' = Underway(w) \ {r} /\ r \in Underway(w)  BY DEF OnlyOffer, Underway
<1>3. \A v \in Watchers \ {w} : Underway(v)' = Underway(v)  BY DEF OnlyOffer, Underway
<1>4. \A v \in Watchers \ {w} : sub'[v] = sub[v] /\ Settled(v)' = Settled(v)
  BY DEF OnlySub, Settled
<1>5. Settled(w) \in Nat /\ IsFiniteSet(Underway(w)) /\ Cardinality(Underway(w)) \in Nat
  BY Counted DEF MatchInv
<1>6. Cardinality(Underway(w)') = Cardinality(Underway(w)) - 1
  BY <1>2, <1>5, FS_RemoveElement, ZenonT(30)
<1>7. sub'[w].matched = Settled(w)' + Cardinality(Underway(w)')
  BY <1>5, <1>6 DEF MatchInv
<1> QED BY <1>1, <1>3, <1>4, <1>7 DEF MatchInv

\* A goroutine that counts a match.
LEMMA Begins ==
  ASSUME IsFiniteSet(Readers), MatchInv, NEW r \in Readers, NEW w \in Watchers,
         OnlyOffer(r), OnlySub(w), taken' = taken,
         offer[r].at \in Resting, offer'[r].w = w, offer'[r].at \notin Resting,
         sub'[w].matched = sub[w].matched + 1, Settled(w)' = Settled(w)
  PROVE  MatchInv'
<1>1. StreamTypes'  BY TypesKept DEF MatchInv
<1>2. Underway(w)' = Underway(w) \cup {r} /\ r \notin Underway(w)  BY DEF OnlyOffer, Underway
<1>3. \A v \in Watchers \ {w} : Underway(v)' = Underway(v)  BY DEF OnlyOffer, Underway
<1>4. \A v \in Watchers \ {w} : sub'[v] = sub[v] /\ Settled(v)' = Settled(v)
  BY DEF OnlySub, Settled
<1>5. Settled(w) \in Nat /\ IsFiniteSet(Underway(w)) /\ Cardinality(Underway(w)) \in Nat
  BY Counted DEF MatchInv
<1>6. Cardinality(Underway(w)') = Cardinality(Underway(w)) + 1
  BY <1>2, <1>5, FS_AddElement, ZenonT(30)
<1>7. sub'[w].matched = Settled(w)' + Cardinality(Underway(w)')
  BY <1>5, <1>6 DEF MatchInv
<1> QED BY <1>1, <1>3, <1>4, <1>7 DEF MatchInv

\* A goroutine between two matches, or with none.
LEMMA Rests ==
  ASSUME MatchInv, NEW r \in Readers, OnlyOffer(r), UNCHANGED <<sub, taken>>,
         offer[r].at \in Resting, offer'[r].at \in Resting
  PROVE  MatchInv'
<1>1. \A v \in Watchers : Underway(v)' = Underway(v)  BY DEF OnlyOffer, Underway
<1>2. \A q \in Readers : OfferOK(q)'  BY DEF MatchInv, StreamTypes, OnlyOffer, OfferOK
<1>3. StreamTypes'  BY <1>2 DEF MatchInv, StreamTypes, OnlyOffer, SubOK
<1> QED BY <1>1, <1>3 DEF MatchInv, Settled

\* The steps of admit before it decides: the window, its closing and the count.
LEMMA AdmittingKeeps ==
  ASSUME MatchInv, NEW r \in Readers,
         S!Window(r) \/ S!Swap(r) \/ S!Carry(r) \/ S!Reset(r) \/ S!Count(r)
  PROVE  MatchInv'
<1>1. offer[r].at \notin Resting
  BY ZenonT(30) DEF S!Window, S!Swap, S!Carry, S!Reset, S!Count, S!At, Resting
<1>2. PICK w \in Watchers : w = offer[r].w  BY <1>1 DEF MatchInv, StreamTypes, OfferOK
<1>3. /\ DOMAIN offer = Readers /\ OfferOK(r) /\ DOMAIN sub = Watchers /\ SubOK(w)
  BY DEF MatchInv, StreamTypes
<1>4. /\ offer'[r].at \notin Resting /\ offer'[r].w = w /\ offer'[r].sec = offer[r].sec
      /\ DOMAIN offer'[r] = DOMAIN offer[r] /\ DOMAIN offer' = Readers
      /\ \A q \in Readers \ {r} : offer'[q] = offer[q]
  BY <1>2, <1>3 DEF OfferOK, Resting, S!Window, S!Swap, S!Carry, S!Reset, S!Count
<1>5. OnlyOffer(r)  BY <1>2, <1>3, <1>4 DEF OnlyOffer, OfferOK
<1>6. /\ DOMAIN sub' = Watchers /\ \A v \in Watchers \ {w} : sub'[v] = sub[v]
      /\ DOMAIN sub'[w] = DOMAIN sub[w] /\ sub'[w].events = sub[w].events
      /\ sub'[w].matched = sub[w].matched /\ sub'[w].sampled = sub[w].sampled
      /\ sub'[w].dropped = sub[w].dropped
  <2>1. CASE S!Window(r)  BY <1>2, <1>3, <2>1 DEF SubOK, S!Window
  <2>2. CASE S!Swap(r)  BY <1>2, <1>3, <2>2 DEF SubOK, S!Swap
  <2>3. CASE S!Carry(r)  BY <1>2, <1>3, <2>3 DEF SubOK, S!Carry
  <2>4. CASE S!Reset(r)  BY <1>2, <1>3, <2>4 DEF SubOK, S!Reset
  <2>5. CASE S!Count(r)  BY <1>2, <1>3, <2>5 DEF SubOK, S!Count
  <2> QED BY <2>1, <2>2, <2>3, <2>4, <2>5
<1>7. OnlySub(w)  BY <1>3, <1>6, SMTT(30), ZenonT(30) DEF OnlySub, SubOK
<1>8. taken' = taken  BY DEF S!Window, S!Swap, S!Carry, S!Reset, S!Count
<1>9. Settled(w)' = Settled(w)  BY <1>6, <1>8 DEF Settled
<1> QED BY <1>1, <1>2, <1>4, <1>5, <1>6, <1>7, <1>8, <1>9, GoesOn

\* Admit: an exchange that is not sent is counted as sampled out.
LEMMA AdmitKeeps ==
  ASSUME IsFiniteSet(Readers), MatchInv, NEW r \in Readers, S!Admit(r)
  PROVE  MatchInv'
<1>1. offer[r].at \notin Resting  BY ZenonT(30) DEF S!Admit, S!At, Resting
<1>2. PICK w \in Watchers : w = offer[r].w  BY <1>1 DEF MatchInv, StreamTypes, OfferOK
<1>3. /\ DOMAIN offer = Readers /\ OfferOK(r) /\ DOMAIN sub = Watchers /\ SubOK(w)
  BY SMTT(30), ZenonT(30) DEF MatchInv, StreamTypes
<1>4. PICK sent \in BOOLEAN : \E ratio, next :
        /\ sub' = [sub EXCEPT ![w].ratio = ratio, ![w].next = next,
                              ![w].sampled = IF sent THEN @ ELSE @ + 1]
        /\ offer' = [offer EXCEPT ![r].at = IF sent THEN "send" ELSE "next"]
        /\ taken' = taken
  BY <1>2, ZenonT(30) DEF S!Admit
<1>5. /\ offer'[r].w = w /\ offer'[r].sec = offer[r].sec
      /\ offer'[r].at = (IF sent THEN "send" ELSE "next")
      /\ DOMAIN offer'[r] = DOMAIN offer[r] /\ DOMAIN offer' = Readers
      /\ \A q \in Readers \ {r} : offer'[q] = offer[q]
  BY <1>2, <1>3, <1>4 DEF OfferOK
<1>6. OnlyOffer(r)  BY <1>2, <1>3, <1>5 DEF OnlyOffer, OfferOK
<1>7. /\ DOMAIN sub' = Watchers /\ \A v \in Watchers \ {w} : sub'[v] = sub[v]
      /\ DOMAIN sub'[w] = DOMAIN sub[w] /\ sub'[w].events = sub[w].events
      /\ sub'[w].matched = sub[w].matched /\ sub'[w].dropped = sub[w].dropped
      /\ sub'[w].sampled = (IF sent THEN sub[w].sampled ELSE sub[w].sampled + 1)
  BY <1>3, <1>4 DEF SubOK
<1>8. OnlySub(w)  BY <1>3, <1>7 DEF OnlySub, SubOK
<1>9. PICK t \in Nat, l \in Nat, a \in Nat, d \in Nat :
        t = taken[w] /\ l = Len(sub[w].events) /\ a = sub[w].sampled /\ d = sub[w].dropped
  BY <1>3, SMTT(30), ZenonT(30) DEF MatchInv, StreamTypes, SubOK
<1>10. CASE sent
  <2>1. Settled(w)' = Settled(w)  BY <1>4, <1>7, <1>10 DEF Settled
  <2>2. offer'[r].at \notin Resting  BY <1>5, <1>10, SMTT(30), ZenonT(30) DEF Resting
  <2> QED BY <1>1, <1>2, <1>4, <1>5, <1>6, <1>7, <1>8, <2>1, <2>2, GoesOn, ZenonT(30)
<1>11. CASE ~sent
  <2>1. Settled(w)' = Settled(w) + 1
    <3>1. Settled(w) = t + l + a + d /\ Settled(w)' = t + l + (a + 1) + d
      BY <1>4, <1>7, <1>9, <1>11 DEF Settled
    <3> QED BY <3>1
  <2>2. offer'[r].at \in Resting  BY <1>5, <1>11 DEF Resting
  <2> QED BY <1>1, <1>2, <1>4, <1>5, <1>6, <1>7, <1>8, <2>1, <2>2, Settles, ZenonT(30)
<1> QED BY <1>10, <1>11, SMTT(30), ZenonT(30)

\* Send, MakeRoom and Retry: the event enters the buffer, or something is counted
\* as dropped, and the oldest event that makes room is counted too.
LEMMA SendingKeeps ==
  ASSUME IsFiniteSet(Readers), MatchInv, NEW r \in Readers,
         S!Send(r) \/ S!MakeRoom(r) \/ S!Retry(r)
  PROVE  MatchInv'
<1>1. offer[r].at \notin Resting
  BY ZenonT(30) DEF S!Send, S!MakeRoom, S!Retry, S!At, Resting
<1>2. PICK w \in Watchers : w = offer[r].w  BY <1>1 DEF MatchInv, StreamTypes, OfferOK
<1>3. /\ DOMAIN offer = Readers /\ OfferOK(r) /\ DOMAIN sub = Watchers /\ SubOK(w)
  BY SMTT(30), ZenonT(30) DEF MatchInv, StreamTypes
<1>4. taken' = taken  BY ZenonT(30) DEF S!Send, S!MakeRoom, S!Retry
<1>5. PICK place \in {"room", "retry", "next"} : offer' = [offer EXCEPT ![r].at = place]
  BY ZenonT(30) DEF S!Send, S!MakeRoom, S!Retry
<1>6. /\ offer'[r].w = w /\ offer'[r].sec = offer[r].sec /\ offer'[r].at = place
      /\ DOMAIN offer'[r] = DOMAIN offer[r] /\ DOMAIN offer' = Readers
      /\ \A q \in Readers \ {r} : offer'[q] = offer[q]
  BY <1>2, <1>3, <1>5 DEF OfferOK
<1>7. OnlyOffer(r)  BY <1>2, <1>3, <1>6 DEF OnlyOffer, OfferOK
<1>8. PICK t \in Nat, l \in Nat, a \in Nat, d \in Nat :
        t = taken[w] /\ l = Len(sub[w].events) /\ a = sub[w].sampled /\ d = sub[w].dropped
  BY <1>3 DEF MatchInv, StreamTypes, SubOK
<1>9. PICK e \in Seq(Stamps) : e = sub[w].events  BY <1>3 DEF SubOK
<1>10. ASSUME sub' = sub, place # "next" PROVE MatchInv'
  <2>1. OnlySub(w) /\ sub'[w].matched = sub[w].matched  BY <1>3, <1>10 DEF OnlySub, SubOK
  <2>2. Settled(w)' = Settled(w)  BY <1>4, <1>10 DEF Settled
  <2>3. offer'[r].at \notin Resting  BY <1>5, <1>6, <1>10, SMTT(30), ZenonT(30) DEF Resting
  <2> QED BY <1>1, <1>2, <1>4, <1>6, <1>7, <2>1, <2>2, <2>3, GoesOn
<1>11. ASSUME place = "next",
              sub' = [sub EXCEPT ![w].events = Append(@, offer[r].sec), ![w].sent = @ + 1]
       PROVE  MatchInv'
  <2>1. PICK x \in Stamps : x = offer[r].sec  BY <1>3 DEF OfferOK
  <2>2. Append(e, x) \in Seq(Stamps) /\ Len(Append(e, x)) = Len(e) + 1  OBVIOUS
  <2>3. /\ DOMAIN sub' = Watchers /\ \A v \in Watchers \ {w} : sub'[v] = sub[v]
        /\ DOMAIN sub'[w] = DOMAIN sub[w] /\ sub'[w].events = Append(e, x)
        /\ sub'[w].matched = sub[w].matched /\ sub'[w].sampled = sub[w].sampled
        /\ sub'[w].dropped = sub[w].dropped
    BY <1>3, <1>9, <1>11, <2>1, SMTT(30), ZenonT(30) DEF SubOK
  <2>4. OnlySub(w)  BY <1>3, <2>2, <2>3 DEF OnlySub, SubOK
  <2>5. Settled(w)' = Settled(w) + 1
    <3>1. Settled(w) = t + l + a + d /\ Settled(w)' = t + (l + 1) + a + d
      BY <1>4, <1>8, <1>9, <2>2, <2>3 DEF Settled
    <3> QED BY <3>1
  <2>6. offer'[r].at \in Resting  BY <1>6, <1>11 DEF Resting
  <2> QED BY <1>1, <1>2, <1>4, <1>6, <1>7, <2>3, <2>4, <2>5, <2>6, Settles
<1>12. ASSUME place = "next", sub' = [sub EXCEPT ![w].dropped = @ + 1]
       PROVE  MatchInv'
  <2>1. /\ DOMAIN sub' = Watchers /\ \A v \in Watchers \ {w} : sub'[v] = sub[v]
        /\ DOMAIN sub'[w] = DOMAIN sub[w] /\ sub'[w].events = sub[w].events
        /\ sub'[w].matched = sub[w].matched /\ sub'[w].sampled = sub[w].sampled
        /\ sub'[w].dropped = sub[w].dropped + 1
    BY <1>3, <1>12 DEF SubOK
  <2>2. OnlySub(w)  BY <1>3, <2>1 DEF OnlySub, SubOK
  <2>3. Settled(w)' = Settled(w) + 1
    <3>1. Settled(w) = t + l + a + d /\ Settled(w)' = t + l + a + (d + 1)
      BY <1>4, <1>8, <2>1 DEF Settled
    <3> QED BY <3>1
  <2>4. offer'[r].at \in Resting  BY <1>6, <1>12, SMTT(30), ZenonT(30) DEF Resting
  <2> QED BY <1>1, <1>2, <1>4, <1>6, <1>7, <2>1, <2>2, <2>3, <2>4, Settles
<1>13. ASSUME place = "retry", e # <<>>,
              sub' = [sub EXCEPT ![w].events = Tail(@), ![w].dropped = @ + 1]
       PROVE  MatchInv'
  <2>1. Tail(e) \in Seq(Stamps) /\ Len(Tail(e)) = Len(e) - 1  BY <1>13
  <2>2. /\ DOMAIN sub' = Watchers /\ \A v \in Watchers \ {w} : sub'[v] = sub[v]
        /\ DOMAIN sub'[w] = DOMAIN sub[w] /\ sub'[w].events = Tail(e)
        /\ sub'[w].matched = sub[w].matched /\ sub'[w].sampled = sub[w].sampled
        /\ sub'[w].dropped = sub[w].dropped + 1
    BY <1>3, <1>9, <1>13 DEF SubOK
  <2>3. OnlySub(w)  BY <1>3, <2>1, <2>2 DEF OnlySub, SubOK
  <2>4. Settled(w)' = Settled(w)
    <3>1. Settled(w) = t + l + a + d /\ Settled(w)' = t + (l - 1) + a + (d + 1)
      BY <1>4, <1>8, <1>9, <2>1, <2>2 DEF Settled
    <3> QED BY <3>1
  <2>5. offer'[r].at \notin Resting  BY <1>6, <1>13 DEF Resting
  <2> QED BY <1>1, <1>2, <1>4, <1>6, <1>7, <2>2, <2>3, <2>4, <2>5, GoesOn
<1>14. CASE S!Send(r)
  <2>1. \/ offer'[r].at = "room" /\ sub' = sub
        \/ /\ offer'[r].at = "next"
           /\ sub' = [sub EXCEPT ![w].events = Append(@, offer[r].sec), ![w].sent = @ + 1]
    BY <1>2, <1>3, <1>14 DEF S!Send, OfferOK
  <2> QED BY <1>6, <1>10, <1>11, <2>1, ZenonT(30)
<1>15. CASE S!MakeRoom(r)
  <2>1. /\ offer'[r].at = "retry"
        /\ \/ sub' = sub
           \/ /\ e # <<>>
              /\ sub' = [sub EXCEPT ![w].events = Tail(@), ![w].dropped = @ + 1]
    BY <1>2, <1>3, <1>9, <1>15 DEF S!MakeRoom, OfferOK
  <2> QED BY <1>6, <1>10, <1>13, <2>1, ZenonT(30)
<1>16. CASE S!Retry(r)
  <2>1. /\ offer'[r].at = "next"
        /\ \/ sub' = [sub EXCEPT ![w].dropped = @ + 1]
           \/ sub' = [sub EXCEPT ![w].events = Append(@, offer[r].sec), ![w].sent = @ + 1]
    BY <1>2, <1>3, <1>16 DEF S!Retry, OfferOK
  <2> QED BY <1>6, <1>11, <1>12, <2>1, ZenonT(30)
<1> QED BY <1>14, <1>15, <1>16, SMTT(30), ZenonT(30)

\* Match and Finish: a match is counted, or the goroutine goes to the next watcher.
LEMMA MatchKeeps ==
  ASSUME IsFiniteSet(Readers), MatchInv, NEW r \in Readers, NEW w \in Watchers, S!Match(r, w)
  PROVE  MatchInv'
<1>1. offer[r].at \in Resting  BY DEF S!Match, S!At, Resting
<1>2. /\ DOMAIN offer = Readers /\ OfferOK(r) /\ DOMAIN sub = Watchers /\ SubOK(w)
  BY DEF MatchInv, StreamTypes
<1>3. taken' = taken  BY DEF S!Match
<1>4. CASE /\ sub' = [sub EXCEPT ![w].matched = @ + 1]
           /\ offer' = [offer EXCEPT ![r].at = "window", ![r].w = w, ![r].to = @ \ {w}]
  <2>1. /\ offer'[r].w = w /\ offer'[r].sec = offer[r].sec /\ offer'[r].at = "window"
        /\ DOMAIN offer'[r] = DOMAIN offer[r] /\ DOMAIN offer' = Readers
        /\ \A q \in Readers \ {r} : offer'[q] = offer[q]
    BY <1>2, <1>4 DEF OfferOK
  <2>2. OnlyOffer(r) /\ offer'[r].at \notin Resting
    BY <1>2, <2>1 DEF OnlyOffer, OfferOK, Resting
  <2>3. /\ DOMAIN sub' = Watchers /\ \A v \in Watchers \ {w} : sub'[v] = sub[v]
        /\ DOMAIN sub'[w] = DOMAIN sub[w] /\ sub'[w].events = sub[w].events
        /\ sub'[w].matched = sub[w].matched + 1 /\ sub'[w].sampled = sub[w].sampled
        /\ sub'[w].dropped = sub[w].dropped
    BY <1>2, <1>4 DEF SubOK
  <2>4. OnlySub(w)  BY <1>2, <2>3, SMTT(30), ZenonT(30) DEF OnlySub, SubOK
  <2>5. Settled(w)' = Settled(w)  BY <1>3, <2>3 DEF Settled
  <2> QED BY <1>1, <1>3, <2>1, <2>2, <2>3, <2>4, <2>5, Begins
<1>5. CASE offer' = [offer EXCEPT ![r].to = @ \ {w}] /\ UNCHANGED sub
  <2>1. /\ offer'[r].sec = offer[r].sec /\ offer'[r].at = offer[r].at
        /\ DOMAIN offer'[r] = DOMAIN offer[r] /\ DOMAIN offer' = Readers
        /\ \A q \in Readers \ {r} : offer'[q] = offer[q]
    BY <1>2, <1>5 DEF OfferOK
  <2>2. OnlyOffer(r)  BY <1>1, <1>2, <2>1 DEF OnlyOffer, OfferOK
  <2> QED BY <1>1, <1>3, <1>5, <2>1, <2>2, Rests
<1> QED BY <1>4, <1>5 DEF S!Match

\* Observe and Finish: the goroutine has no match.
LEMMA EndsKeep ==
  ASSUME MatchInv, NEW r \in Readers, S!Finish(r) \/ \E sec \in Seconds : S!Observe(r, sec)
  PROVE  MatchInv'
<1>1. offer[r].at \in Resting /\ UNCHANGED <<sub, taken>>
  BY ZenonT(30) DEF S!Finish, S!Observe, S!At, Resting
<1>2. PICK i : i = S!Idle  OBVIOUS
<1>3. DOMAIN i = {"at", "to", "w", "sec", "n"} /\ i.at = "idle" /\ i.sec = 0
  BY <1>2, ZenonT(30) DEF S!Idle
<1>4. DOMAIN offer = Readers  BY DEF MatchInv, StreamTypes
<1>5. /\ DOMAIN offer' = Readers /\ \A q \in Readers \ {r} : offer'[q] = offer[q]
      /\ DOMAIN offer'[r] = {"at", "to", "w", "sec", "n"}
      /\ offer'[r].sec \in Stamps /\ offer'[r].at \in Resting
  <2>1. CASE S!Finish(r)
    <3>1. offer' = [offer EXCEPT ![r] = i]  BY <1>2, <2>1 DEF S!Finish
    <3> QED BY <1>3, <1>4, <3>1 DEF Stamps, Resting
  <2>2. ASSUME NEW sec \in Seconds, S!Observe(r, sec)
        PROVE  /\ DOMAIN offer' = Readers /\ \A q \in Readers \ {r} : offer'[q] = offer[q]
               /\ DOMAIN offer'[r] = {"at", "to", "w", "sec", "n"}
               /\ offer'[r].sec = sec /\ offer'[r].at = "next"
    <3>1. offer' = [offer EXCEPT ![r] = [i EXCEPT !.at = "next", !.to = list, !.sec = sec]]
      BY <1>2, <2>2, ZenonT(30) DEF S!Observe
    <3> QED BY <1>3, <1>4, <3>1, SMTT(30), ZenonT(30)
  <2> QED BY <2>1, <2>2 DEF Stamps, Resting
<1>6. OnlyOffer(r) /\ offer'[r].at \in Resting  BY <1>5 DEF OnlyOffer, OfferOK
<1> QED BY <1>1, <1>6, Rests, SMTT(30), ZenonT(30)

\* A watcher receives an event: one less in the buffer, one more taken.
LEMMA TakeKeeps ==
  ASSUME IsFiniteSet(Readers), MatchInv, NEW w \in Watchers, S!Take(w)
  PROVE  MatchInv'
<1>1. DOMAIN sub = Watchers /\ SubOK(w) /\ taken \in [Watchers -> Nat]
  BY DEF MatchInv, StreamTypes
<1>2. PICK e \in Seq(Stamps) : e = sub[w].events  BY <1>1 DEF SubOK
<1>3. PICK t \in Nat, l \in Nat, a \in Nat, d \in Nat :
        t = taken[w] /\ l = Len(e) /\ a = sub[w].sampled /\ d = sub[w].dropped
  BY <1>1 DEF SubOK
<1>4. Tail(e) \in Seq(Stamps) /\ Len(Tail(e)) = l - 1  BY <1>2, <1>3 DEF S!Take
<1>5. /\ DOMAIN sub' = Watchers /\ \A v \in Watchers \ {w} : sub'[v] = sub[v]
      /\ DOMAIN sub'[w] = DOMAIN sub[w] /\ sub'[w].events = Tail(e)
      /\ sub'[w].matched = sub[w].matched /\ sub'[w].sampled = sub[w].sampled
      /\ sub'[w].dropped = sub[w].dropped
  <2>1. sub' = [sub EXCEPT ![w].events = Tail(e)]  BY <1>1, <1>2 DEF S!Take
  <2> QED BY <1>1, <2>1 DEF SubOK
<1>6. /\ taken' \in [Watchers -> Nat] /\ taken'[w] = t + 1
      /\ \A v \in Watchers \ {w} : taken'[v] = taken[v]
  BY <1>1, <1>3 DEF S!Take
<1>7. offer' = offer  BY DEF S!Take
<1>8. \A v \in Watchers : SubOK(v)'  BY <1>1, <1>4, <1>5, ZenonT(30) DEF MatchInv, StreamTypes, SubOK
<1>9. \A q \in Readers : OfferOK(q)'  BY <1>7 DEF MatchInv, StreamTypes, OfferOK
<1>10. StreamTypes'  BY <1>5, <1>6, <1>7, <1>8, <1>9 DEF MatchInv, StreamTypes
<1>11. Settled(w)' = Settled(w)
  <2>1. Settled(w) = t + l + a + d /\ Settled(w)' = (t + 1) + (l - 1) + a + d
    BY <1>2, <1>3, <1>4, <1>5, <1>6 DEF Settled
  <2> QED BY <2>1
<1>12. \A v \in Watchers \ {w} : Settled(v)' = Settled(v)  BY <1>5, <1>6 DEF Settled
<1>13. \A v \in Watchers : Underway(v)' = Underway(v)  BY <1>7 DEF Underway
<1> QED BY <1>5, <1>10, <1>11, <1>12, <1>13, SMTT(30), ZenonT(30) DEF MatchInv

\* Every step of the tail keeps the inductive invariant.
LEMMA TailStep ==
  ASSUME IsFiniteSet(Readers), MatchInv, [S!Next]_(S!vars)
  PROVE  MatchInv'
<1>1. CASE UNCHANGED <<sub, offer, taken>>
  <2>1. StreamTypes'  BY <1>1 DEF MatchInv, StreamTypes, OfferOK, SubOK
  <2> QED BY <1>1, <2>1 DEF MatchInv, Settled, Underway
<1>2. ASSUME NEW r \in Readers, S!Offer(r) PROVE MatchInv'
  BY <1>2, MatchKeeps, EndsKeep, AdmittingKeeps, AdmitKeeps, SendingKeeps DEF S!Offer
<1>3. CASE S!Next
  <2>1. ASSUME NEW w \in Watchers, S!Subscribe(w) \/ S!Close(w) \/ S!Remove(w) PROVE MatchInv'
    BY <1>1, <2>1 DEF S!Subscribe, S!Close, S!Remove
  <2> QED BY <1>2, <1>3, <2>1, TakeKeeps, EndsKeep DEF S!Next
<1> QED BY <1>1, <1>3 DEF S!vars

\* Once no goroutine is in the middle of offering a match to the watcher, what was
\* matched is what was received, is buffered, was sampled out or was counted as
\* dropped (Subscription.offer, admit, Stats), for any number of query goroutines
\* and watchers, any buffer and any rate.
THEOREM MatchesAccounted ==
  ASSUME IsFiniteSet(Readers)
  PROVE  S!Spec => []S!EveryMatchAccounted
<1>1. S!Init => MatchInv
  <2> SUFFICES ASSUME S!Init PROVE MatchInv  OBVIOUS
  <2>1. ASSUME NEW r \in Readers PROVE OfferOK(r) /\ offer[r].at \in Resting
    BY ZenonT(30) DEF S!Init, S!Idle, OfferOK, Resting, Stamps
  <2>2. ASSUME NEW w \in Watchers
        PROVE  SubOK(w) /\ sub[w].matched = 0 /\ Settled(w) = 0
    <3>1. sub[w] = S!Fresh /\ taken[w] = 0  BY DEF S!Init
    <3> QED BY <3>1 DEF S!Fresh, SubOK, Settled
  <2>3. StreamTypes  BY <2>1, <2>2 DEF S!Init, StreamTypes
  <2>4. ASSUME NEW w \in Watchers PROVE Cardinality(Underway(w)) = 0
    <3>1. Underway(w) = {}  BY <2>1 DEF Underway
    <3> QED BY <3>1, FS_EmptySet
  <2> QED BY <2>2, <2>3, <2>4 DEF MatchInv
<1>2. MatchInv => S!EveryMatchAccounted
  <2> SUFFICES ASSUME MatchInv, NEW w \in Watchers,
                      \A r \in Readers : offer[r].w # w \/ offer[r].at \in {"idle", "next"}
               PROVE  sub[w].matched = Settled(w)
    BY DEF S!EveryMatchAccounted, Settled
  <2>1. Underway(w) = {}  BY DEF Underway, Resting
  <2>2. Cardinality(Underway(w)) = 0  BY <2>1, FS_EmptySet
  <2>3. Settled(w) \in Nat  BY Counted DEF MatchInv
  <2> QED BY <2>2, <2>3 DEF MatchInv
<1> QED BY <1>1, <1>2, TailStep, PTL DEF S!Spec

================================================================================
