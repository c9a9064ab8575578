------------------------------- MODULE Stream --------------------------------
(***************************************************************************)
(* The live tail of answered queries: one hub, its watchers, and the       *)
(* query goroutines that offer exchanges to them.                          *)
(*                                                                         *)
(* An exchange is the second it was read in; the filter is whether it      *)
(* matches.  A step is one atomic operation on the subscription, so the    *)
(* goroutines interleave the way the atomics let them; only the ratio and  *)
(* the swap of next behind it are taken together.  A goroutine offers to   *)
(* one watcher of the list it loaded at a time.                            *)
(***************************************************************************)
EXTENDS Integers, Sequences, FiniteSets

CONSTANTS
    Readers,       \* query goroutines
    Watchers,      \* subscriptions that may be opened
    MaxWatchers,   \* Options.MaxWatchers
    Buffer,        \* Options.Buffer
    MaxRate,       \* Options.MaxRate
    Seconds,       \* the seconds exchanges are read in
    MaxOffers      \* bound on the exchanges

VARIABLES
    list,      \* Hub.watchers
    state,     \* watcher -> "new", "open", "closed" (flag up) or "done"
    sub,       \* watcher -> the subscription's counters and buffer
    offer,     \* goroutine -> where it is in offering which exchange
    offers,    \* exchanges so far
    taken      \* for the properties: watcher -> events its reader received

vars == <<list, state, sub, offer, offers, taken>>

Fresh == [events |-> <<>>, matched |-> 0, sent |-> 0, sampled |-> 0, dropped |-> 0,
          window |-> 0, count |-> 0, next |-> 0, carried |-> 1, ratio |-> 1]
Idle == [at |-> "idle", to |-> {}, w |-> "", sec |-> 0, n |-> 0]

Init ==
    /\ list = {}
    /\ state = [w \in Watchers |-> "new"]
    /\ sub = [w \in Watchers |-> Fresh]
    /\ offer = [r \in Readers |-> Idle]
    /\ offers = 0
    /\ taken = [w \in Watchers |-> 0]

-----------------------------------------------------------------------------
(* Subscribing and leaving.                                                *)

Subscribe(w) ==
    /\ state[w] = "new"
    /\ Cardinality(list) < MaxWatchers
    /\ state' = [state EXCEPT ![w] = "open"]
    /\ list' = list \cup {w}
    /\ UNCHANGED <<sub, offer, offers, taken>>

\* Close puts the flag up first and then leaves the list.
Close(w) ==
    /\ state[w] = "open"
    /\ state' = [state EXCEPT ![w] = "closed"]
    /\ UNCHANGED <<list, sub, offer, offers, taken>>

\* Mutant: the flag alone.
RemoveNot(w) ==
    /\ state[w] = "closed"
    /\ state' = [state EXCEPT ![w] = "done"]
    /\ UNCHANGED <<list, sub, offer, offers, taken>>

Remove(w) ==
    /\ state[w] = "closed"
    /\ state' = [state EXCEPT ![w] = "done"]
    /\ list' = list \ {w}
    /\ UNCHANGED <<sub, offer, offers, taken>>

\* The watcher's handler receives one event.
Take(w) ==
    /\ state[w] = "open"
    /\ sub[w].events # <<>>
    /\ sub' = [sub EXCEPT ![w].events = Tail(@)]
    /\ taken' = [taken EXCEPT ![w] = @ + 1]
    /\ UNCHANGED <<list, state, offer, offers>>

-----------------------------------------------------------------------------
(* Offering an exchange.                                                   *)

At(r, place) == offer[r].at = place

\* Observe loads the list once.
Observe(r, sec) ==
    /\ At(r, "idle")
    /\ offers < MaxOffers
    /\ list # {}
    /\ offers' = offers + 1
    /\ offer' = [offer EXCEPT ![r] = [Idle EXCEPT !.at = "next", !.to = list, !.sec = sec]]
    /\ UNCHANGED <<list, state, sub, taken>>

\* The next watcher of the list; one that has closed, and one whose filter
\* does not match, is passed over.
Match(r, w) ==
    /\ At(r, "next")
    /\ w \in offer[r].to
    /\ \/ /\ state[w] = "open"
          /\ sub' = [sub EXCEPT ![w].matched = @ + 1]
          /\ offer' = [offer EXCEPT ![r].at = "window", ![r].w = w, ![r].to = @ \ {w}]
       \/ /\ offer' = [offer EXCEPT ![r].to = @ \ {w}]
          /\ UNCHANGED sub
    /\ UNCHANGED <<list, state, offers, taken>>

Finish(r) ==
    /\ At(r, "next")
    /\ offer[r].to = {}
    /\ offer' = [offer EXCEPT ![r] = Idle]
    /\ UNCHANGED <<list, state, sub, offers, taken>>

RatioFor(n) == IF n <= MaxRate THEN 1 ELSE (n + MaxRate - 1) \div MaxRate

\* admit: the window is loaded and then swapped, and whoever swapped it closes
\* it, in steps others come between; one that lost the swap carries on.
Window(r) ==
    LET w == offer[r].w
        moved == offer[r].sec # sub[w].window
    IN /\ At(r, "window")
       /\ offer' = [offer EXCEPT ![r].at = IF moved THEN "swap" ELSE "count", ![r].n = sub[w].window]
       /\ UNCHANGED <<list, state, sub, offers, taken>>

Swap(r) ==
    LET w == offer[r].w
        won == sub[w].window = offer[r].n
    IN /\ At(r, "swap")
       /\ sub' = IF won THEN [sub EXCEPT ![w].window = offer[r].sec] ELSE sub
       /\ offer' = [offer EXCEPT ![r].at = IF won THEN "carry" ELSE "count"]
       /\ UNCHANGED <<list, state, offers, taken>>

Carry(r) ==
    LET w == offer[r].w
    IN /\ At(r, "carry")
       /\ sub' = [sub EXCEPT ![w].carried = RatioFor(sub[w].count), ![w].count = 0]
       /\ offer' = [offer EXCEPT ![r].at = "reset"]
       /\ UNCHANGED <<list, state, offers, taken>>

Reset(r) ==
    /\ At(r, "reset")
    /\ sub' = [sub EXCEPT ![offer[r].w].next = 0]
    /\ offer' = [offer EXCEPT ![r].at = "count"]
    /\ UNCHANGED <<list, state, offers, taken>>

Count(r) ==
    LET w == offer[r].w
    IN /\ At(r, "count")
       /\ sub' = [sub EXCEPT ![w].count = @ + 1]
       /\ offer' = [offer EXCEPT ![r].at = "admit", ![r].n = sub[w].count + 1]
       /\ UNCHANGED <<list, state, offers, taken>>

\* The ratio in force, and whether this exchange is one of the ones sent; the
\* swap of next makes it one goroutine's.
Admit(r) ==
    LET w == offer[r].w
        n == offer[r].n
        ratio == IF sub[w].carried > RatioFor(n) THEN sub[w].carried ELSE RatioFor(n)
        sent == ratio <= 1 \/ n >= sub[w].next
    IN /\ At(r, "admit")
       /\ sub' = [sub EXCEPT ![w].ratio = ratio,
                             ![w].next = IF sent /\ ratio > 1 THEN n + ratio ELSE @,
                             ![w].sampled = IF sent THEN @ ELSE @ + 1]
       /\ offer' = [offer EXCEPT ![r].at = IF sent THEN "send" ELSE "next"]
       /\ UNCHANGED <<list, state, offers, taken>>

Full(w) == Len(sub[w].events) >= Buffer

\* The first try, and the second once room was made.
Send(r) ==
    LET w == offer[r].w
    IN /\ At(r, "send")
       /\ IF Full(w)
          THEN /\ offer' = [offer EXCEPT ![r].at = "room"]
               /\ UNCHANGED sub
          ELSE /\ sub' = [sub EXCEPT ![w].events = Append(@, offer[r].sec), ![w].sent = @ + 1]
               /\ offer' = [offer EXCEPT ![r].at = "next"]
       /\ UNCHANGED <<list, state, offers, taken>>

\* Mutant: what was thrown away is not counted.
MakeRoomQuietly(r) ==
    LET w == offer[r].w
    IN /\ At(r, "room")
       /\ sub' = IF sub[w].events = <<>> THEN sub ELSE [sub EXCEPT ![w].events = Tail(@)]
       /\ offer' = [offer EXCEPT ![r].at = "retry"]
       /\ UNCHANGED <<list, state, offers, taken>>

\* The oldest goes, unless the watcher has just taken it.
MakeRoom(r) ==
    LET w == offer[r].w
    IN /\ At(r, "room")
       /\ sub' = IF sub[w].events = <<>> THEN sub
                 ELSE [sub EXCEPT ![w].events = Tail(@), ![w].dropped = @ + 1]
       /\ offer' = [offer EXCEPT ![r].at = "retry"]
       /\ UNCHANGED <<list, state, offers, taken>>

\* Another goroutine may have filled the room again.
Retry(r) ==
    LET w == offer[r].w
    IN /\ At(r, "retry")
       /\ sub' = IF Full(w) THEN [sub EXCEPT ![w].dropped = @ + 1]
                 ELSE [sub EXCEPT ![w].events = Append(@, offer[r].sec), ![w].sent = @ + 1]
       /\ offer' = [offer EXCEPT ![r].at = "next"]
       /\ UNCHANGED <<list, state, offers, taken>>

Offer(r) ==
    \/ (\E w \in Watchers : Match(r, w)) \/ Finish(r)
    \/ Window(r) \/ Swap(r) \/ Carry(r) \/ Reset(r) \/ Count(r) \/ Admit(r)
    \/ Send(r) \/ MakeRoom(r) \/ Retry(r)

Next ==
    \/ \E w \in Watchers : Subscribe(w) \/ Close(w) \/ Remove(w) \/ Take(w)
    \/ \E r \in Readers : Offer(r) \/ \E sec \in Seconds : Observe(r, sec)

Spec == Init /\ [][Next]_vars

-----------------------------------------------------------------------------
TypeOK ==
    /\ list \subseteq Watchers
    /\ state \in [Watchers -> {"new", "open", "closed", "done"}]
    /\ \A w \in Watchers : /\ Len(sub[w].events) <= Buffer
                           /\ sub[w].ratio >= 1
                           /\ sub[w].carried >= 1
    /\ offers \in 0 .. MaxOffers

\* Every exchange that matched a watcher's filter is accounted for once: it was
\* received, waits in the buffer, was sampled out, or was counted as dropped
\* (Subscription.offer, Stats), though the receive that makes room races with
\* the watcher's own and several goroutines race for the room.
EveryMatchAccounted ==
    \A w \in Watchers :
       (\A r \in Readers : offer[r].w # w \/ offer[r].at \in {"idle", "next"}) =>
          sub[w].matched = taken[w] + Len(sub[w].events) + sub[w].sampled + sub[w].dropped

\* A watcher that left costs the query path nothing once Close returned, and
\* the hub never carries more than its bound (Hub.Subscribe, Close, remove).
ListBounded ==
    /\ Cardinality(list) <= MaxWatchers
    /\ list = {w \in Watchers : state[w] \in {"open", "closed"}}

\* What a watcher is told was sent to it is what it received or can still
\* receive (Stats.Sent).
SentReaches ==
    \A w \in Watchers : sub[w].sent = taken[w] + Len(sub[w].events)
=============================================================================
