------------------------------ MODULE Counters ------------------------------
(***************************************************************************)
(* What a server says of its own traffic: the counters every exchange      *)
(* moves, a scrape of them while they move, and the summary weg makes of   *)
(* the scrape (metrics/metrics.go, metrics/summary.go).  An exchange moves *)
(* one counter at a time.  A scrape reads one family at a time, in any     *)
(* order, the series of one family together.  The size of a response and   *)
(* the reason of a refusal, which no summary reads, are left out.          *)
(***************************************************************************)
EXTENDS Integers, FiniteSets, FiniteSetsExt, Functions

CONSTANTS
  Observers,     \* query goroutines
  Exchanges,     \* the exchanges taken up, of Exchange
  MaxExchanges   \* bound on how many there are

Transport == {"udp", "tcp"}
QType == {"A", "TYPE1", "TYPE2"}       \* two without a mnemonic
TypeLabel == {"A", "other"}
Rcode == {"NOERROR", "NXDOMAIN"}
Bounds == 1 .. 2                       \* upper edges of the buckets, 1 the target
Inf == 3                               \* the edge of the last, and what is slower
Exchange == [transport : Transport, type : QType, rcode : Rcode, latency : 1 .. Inf,
             truncated : BOOLEAN, dropped : BOOLEAN]
Series == Transport \X TypeLabel \X Rcode

VARIABLES
  queries,     \* series -> exchanges answered
  dropped,     \* transport -> exchanges nobody answered
  truncated,   \* transport -> answers cut short
  duration,    \* transport -> latency -> samples
  observing,   \* goroutine -> the exchange it records and the counters to move
  scrape,      \* what was read, and the families unread
  begun,       \* for the properties: exchanges answered so far
  whole        \* for the properties: recorded whole, and dropped, at the scrape's start

counters == <<queries, dropped, truncated, duration>>
vars == <<counters, observing, scrape, begun, whole>>

Family == {"queries", "dropped", "truncated", "duration"}
NoScrape == [unread |-> Family, queries |-> <<>>, dropped |-> <<>>, truncated |-> <<>>, duration |-> <<>>]
Idle == {}

Init ==
  /\ queries = [s \in Series |-> 0]
  /\ dropped = [t \in Transport |-> 0]
  /\ truncated = [t \in Transport |-> 0]
  /\ duration = [t \in Transport |-> [l \in 1 .. Inf |-> 0]]
  /\ observing = [o \in Observers |-> Idle]
  /\ scrape = NoScrape
  /\ begun = 0
  /\ whole = [recorded |-> 0, dropped |-> 0]

----------------------------------------------------------------------------
(* Recording an exchange.                                                  *)

typeLabel(type) == IF type = "A" THEN type ELSE "other"

\* Mutant: a dropped query is counted among the answers as well.
ObserveCountingDrops(o, ev) ==
  /\ observing[o] = Idle
  /\ begun + SumFunction(dropped) < MaxExchanges
  /\ IF ev.dropped
     THEN /\ dropped' = [dropped EXCEPT ![ev.transport] = @ + 1]
          /\ queries' = [queries EXCEPT ![<<ev.transport, typeLabel(ev.type), ev.rcode>>] = @ + 1]
          /\ UNCHANGED <<observing, begun>>
     ELSE /\ queries' = [queries EXCEPT ![<<ev.transport, typeLabel(ev.type), ev.rcode>>] = @ + 1]
          /\ observing' = [observing EXCEPT ![o] = {[ev |-> ev, next |-> "duration"]}]
          /\ begun' = begun + 1
          /\ UNCHANGED dropped
  /\ UNCHANGED <<truncated, duration, scrape, whole>>

\* Observe up to its first counter: a dropped query has no other.
Observe(o, ev) ==
  /\ observing[o] = Idle
  /\ begun + SumFunction(dropped) < MaxExchanges
  /\ IF ev.dropped
     THEN /\ dropped' = [dropped EXCEPT ![ev.transport] = @ + 1]
          /\ UNCHANGED <<queries, observing, begun>>
     ELSE /\ queries' = [queries EXCEPT ![<<ev.transport, typeLabel(ev.type), ev.rcode>>] = @ + 1]
          /\ observing' = [observing EXCEPT ![o] = {[ev |-> ev, next |-> "duration"]}]
          /\ begun' = begun + 1
          /\ UNCHANGED dropped
  /\ UNCHANGED <<truncated, duration, scrape, whole>>

ObserveDuration(o) ==
  \E x \in observing[o] :
    /\ x.next = "duration"
    /\ duration' = [duration EXCEPT ![x.ev.transport][x.ev.latency] = @ + 1]
    /\ observing' = [observing EXCEPT ![o] =
                       IF x.ev.truncated THEN {[x EXCEPT !.next = "truncated"]} ELSE Idle]
    /\ UNCHANGED <<queries, dropped, truncated, scrape, begun, whole>>

ObserveTruncated(o) ==
  \E x \in observing[o] :
    /\ x.next = "truncated"
    /\ truncated' = [truncated EXCEPT ![x.ev.transport] = @ + 1]
    /\ observing' = [observing EXCEPT ![o] = Idle]
    /\ UNCHANGED <<queries, dropped, duration, scrape, begun, whole>>

----------------------------------------------------------------------------
(* The scrape, and the summary of it.                                      *)

\* What the text of a histogram holds: cumulative buckets, the last unbounded.
Cumulative(h) == [b \in Bounds \cup {Inf} |-> SumFunctionOnSet(h, {l \in 1 .. Inf : l <= b})]

\* WriteTo reads the families for one scrape.
WriteTo(f) ==
  /\ f \in scrape.unread
  /\ scrape' = [scrape EXCEPT
       !.unread = @ \ {f},
       ![f] = CASE f = "queries" -> queries
                [] f = "dropped" -> dropped
                [] f = "truncated" -> truncated
                [] f = "duration" -> [t \in Transport |-> Cumulative(duration[t])]]
  /\ whole' = IF scrape.unread # Family THEN whole
              ELSE [recorded |-> begun - Cardinality({o \in Observers : observing[o] # Idle}),
                    dropped |-> SumFunction(dropped)]
  /\ UNCHANGED <<counters, observing, begun>>

\* Mutant: the buckets are left cumulative.
histogramCumulative(family) ==
  LET cumulative == [b \in Bounds \cup {Inf} |-> SumFunction([t \in Transport |-> family[t][b]])]
  IN [counted |-> cumulative[Inf], within |-> cumulative[1], latency |-> cumulative]

\* The transports' buckets added up and differenced.
histogram(family) ==
  LET cumulative == [b \in Bounds \cup {Inf} |-> SumFunction([t \in Transport |-> family[t][b]])]
      under(b) == IF b = 0 THEN 0 ELSE cumulative[b]
  IN [counted |-> cumulative[Inf], within |-> cumulative[1],
      latency |-> [b \in DOMAIN cumulative |-> IF under(b) > under(b - 1) THEN under(b) - under(b - 1) ELSE 0]]

Summarise(read) ==
  LET total(S) == SumFunctionOnSet(read.queries, S)
      h == histogram(read.duration)
  IN [queries |-> total(Series),
      byRcode |-> [r \in Rcode |-> total({s \in Series : s[3] = r})],
      byType |-> [y \in TypeLabel |-> total({s \in Series : s[2] = y})],
      tcp |-> total({s \in Series : s[1] = "tcp"}),
      udp |-> total({s \in Series : s[1] # "tcp"}),
      dropped |-> SumFunction(read.dropped),
      truncated |-> SumFunction(read.truncated),
      counted |-> h.counted, within |-> h.within, latency |-> h.latency]

----------------------------------------------------------------------------

Next ==
  \/ \E o \in Observers :
       \/ \E ev \in Exchanges : Observe(o, ev)
       \/ ObserveDuration(o)
       \/ ObserveTruncated(o)
  \/ \E f \in Family : WriteTo(f)

Spec == Init /\ [][Next]_vars

TypeOK ==
  /\ queries \in [Series -> 0 .. MaxExchanges]
  /\ scrape.unread \subseteq Family

\* A summary accounts for the traffic, whatever was being recorded while the
\* scrape was read: its totals agree with each other, its latency buckets are a
\* distribution of exactly the answers timed, every exchange recorded before
\* the scrape is in it, none is in it that had not begun, and no dropped query
\* is among the answers (metrics.go Observe, WriteTo; summary.go Summarise,
\* histogram).
SummaryAddsUp ==
  scrape.unread = {} =>
    LET s == Summarise(scrape)
        recorded == whole.recorded .. begun
    IN /\ {s.udp + s.tcp, SumFunction(s.byRcode), SumFunction(s.byType)} = {s.queries}
       /\ SumFunction(s.latency) = s.counted /\ s.within \in 0 .. s.counted
       /\ {s.queries, s.counted} \subseteq recorded
       /\ s.dropped \in whole.dropped .. SumFunction(dropped)
       /\ s.truncated <= begun

=============================================================================
