------------------------------- MODULE People --------------------------------
(***************************************************************************)
(* What people and programs do at the edge of a server: sign in, keep and  *)
(* lose sessions and tokens, arrange the providers they sign in through    *)
(* and the secondaries that transfer, list, edit, and watch the queries.   *)
(*                                                                         *)
(* No two of the parts share state, so what holds of one is decided by its *)
(* own steps.  A behaviour here is a behaviour of one of them, and the     *)
(* slots s1, s2, ... hold its variables; the states are a sum and not a    *)
(* product.                                                                *)
(***************************************************************************)
EXTENDS Integers, Sequences, FiniteSets, TLC

CONSTANTS
    Actors,     \* two requests, commands or clients at once
    Data,       \* what records are written with
    None, AToken,
    Straddles, AnonymousSearch   \* windows that are shut here

VARIABLES part, s1, s2, s3, s4, s5, s6, s7, s8, s9, s10

Sessions == INSTANCE Sessions WITH
    Tokens <- {AToken}, Providers <- {"p"}, Names <- {"a"},
    Lifetime <- 2, MaxClock <- 4, MaxLog <- 3, MaxSessions <- 2,
    now <- s1, log <- s2, issued <- s3

SignIn == INSTANCE SignIn WITH
    Logins <- Actors, FlowLifetime <- 1, Burst <- 0, MaxFlows <- 3, MaxClock <- 1,
    now <- s1, enabled <- s2, tickets <- s3, flows <- s4, cookie <- s5, back <- s6,
    guesses <- s7, weg <- s8, kept <- s9, opened <- s10

Tokens == INSTANCE Tokens WITH
    Requests <- Actors, MaxTokens <- 3, MaxClock <- 2,
    clock <- s1, tokens <- s2, asked <- s3, plans <- s4, holder <- s5

LastUse == INSTANCE LastUse WITH
    Requests <- Actors, Delay <- 1, MaxClock <- 4,
    clock <- s1, using <- s2, pending <- s3, draining <- s4, lastUsed <- s5, loop <- s6,
    closing <- s7, noted <- s8, lost <- s9

Limiter == INSTANCE Limiter WITH
    Requests <- Actors, authBurst <- 1, authRefill <- 1, authForget <- 4,
    MaxClock <- 7, MaxRejected <- 6,
    clock <- s1, bucket <- s2, judging <- s3, rejected <- s4

Providers == INSTANCE Providers WITH
    Clients <- Actors, Names <- {"n"}, Hosts <- {"h", "g"}, Users <- {"u", "x"},
    Anonymous <- "x", MaxProviders <- 2,
    list <- s1, made <- s2, copies <- s3, asked <- s4, planned <- s5, holder <- s6, tried <- s7

Directory == INSTANCE Directory WITH
    Groups <- {"g", "h"}, Granted <- {"none", "admin"},
    provider <- s1, directory <- s2, checked <- s3, signedIn <- s4

Logins == INSTANCE Logins WITH
    Commands <- Actors, Servers <- 1 .. 2, MaxSessions <- 2,
    file <- s1, cmd <- s2, opened <- s3, used <- s4, passed <- s5

Listing == INSTANCE Listing WITH
    Tables <- {"zones", "records", "commits"}, Sorts <- 1 .. 2, Types <- 1 .. 2, Ids <- 1 .. 3,
    pageSize <- 2, DefaultLimit <- 1, MaxLimit <- 2, MaxWrites <- 1,
    table <- s1, rows <- s2, there <- s3, spent <- s4, reader <- s5, stayed <- s6,
    ever <- s7, writes <- s8

Editing == INSTANCE Editing WITH
    Commands <- Actors, TTLs <- {2}, MaxZones <- 2, MaxRecords <- 2,
    zone <- s1, records <- s2, zones <- s3, made <- s4, cmd <- s5

Arranging == INSTANCE Arranging WITH
    KeyNames <- {"k", "l"}, Zones <- {"z"}, Far <- "far", Other <- "other", NoName <- None,
    Operators <- Actors, MaxKeys <- 2,
    ring <- s1, made <- s2, picked <- s3, allow <- s4, notify <- s5, served <- s6, file <- s7

Recorded(transport, type, rcode, latency, truncated, dropped) ==
    [transport |-> transport, type |-> type, rcode |-> rcode, latency |-> latency,
     truncated |-> truncated, dropped |-> dropped]

Counters == INSTANCE Counters WITH
    Observers <- Actors, MaxExchanges <- 3,
    Exchanges <- {Recorded("udp", "A", "NOERROR", 1, FALSE, FALSE),
                  Recorded("udp", "TYPE1", "NXDOMAIN", 2, TRUE, FALSE),
                  Recorded("tcp", "TYPE2", "NXDOMAIN", 3, FALSE, FALSE),
                  Recorded("udp", "A", "NOERROR", 1, FALSE, TRUE)},
    queries <- s1, dropped <- s2, truncated <- s3, duration <- s4, observing <- s5,
    scrape <- s6, begun <- s7, whole <- s8

Stream == INSTANCE Stream WITH
    Readers <- Actors, Watchers <- {"v", "w"}, MaxWatchers <- 1, Buffer <- 1, MaxRate <- 1,
    Seconds <- {1, 2}, MaxOffers <- 3,
    list <- s1, state <- s2, sub <- s3, offer <- s4, offers <- s5, taken <- s6

ASSUME Limiter!LimiterAssumption

vars == <<part, s1, s2, s3, s4, s5, s6, s7, s8, s9, s10>>

Free10 == s10 = None
Free9 == s9 = None /\ Free10
Free8 == s8 = None /\ Free9
Free7 == s7 = None /\ Free8
Free6 == s6 = None /\ Free7
Free5 == s5 = None /\ Free6
Free4 == s4 = None /\ Free5

Init ==
    \/ part = "sessions" /\ Sessions!Init /\ Free4
    \/ part = "sign in" /\ SignIn!Init
    \/ part = "tokens" /\ Tokens!Init /\ Free6
    \/ part = "last use" /\ LastUse!Init /\ Free10
    \/ part = "limiter" /\ Limiter!Init /\ Free5
    \/ part = "providers" /\ Providers!Init /\ Free8
    \/ part = "directory" /\ Directory!Init /\ Free5
    \/ part = "logins" /\ Logins!Init /\ Free6
    \/ part = "listing" /\ Listing!Init /\ Free9
    \/ part = "editing" /\ Editing!Init /\ Free6
    \/ part = "arranging" /\ Arranging!Init /\ Free8
    \/ part = "counters" /\ Counters!Init /\ Free9
    \/ part = "stream" /\ Stream!Init /\ Free7

SessionsRun == part = "sessions" /\ Sessions!Next /\ UNCHANGED <<part, s4, s5, s6, s7, s8, s9, s10>>
SigningIn == part = "sign in" /\ SignIn!Next /\ UNCHANGED <<part>>
Revoking == part = "tokens" /\ Tokens!Next /\ UNCHANGED <<part, s6, s7, s8, s9, s10>>
NotingUse == part = "last use" /\ LastUse!Next /\ UNCHANGED <<part, s10>>
Limiting == part = "limiter" /\ Limiter!Next /\ UNCHANGED <<part, s5, s6, s7, s8, s9, s10>>
ArrangingProviders == part = "providers" /\ Providers!Next /\ UNCHANGED <<part, s8, s9, s10>>
AskingTheDirectory == part = "directory" /\ Directory!Next /\ UNCHANGED <<part, s5, s6, s7, s8, s9, s10>>
LoggingIn == part = "logins" /\ Logins!Next /\ UNCHANGED <<part, s6, s7, s8, s9, s10>>
Paging == part = "listing" /\ Listing!Next /\ UNCHANGED <<part, s9, s10>>
Commanding == part = "editing" /\ Editing!Next /\ UNCHANGED <<part, s6, s7, s8, s9, s10>>
ArrangingTransfers == part = "arranging" /\ Arranging!Next /\ UNCHANGED <<part, s8, s9, s10>>
Counting == part = "counters" /\ Counters!Next /\ UNCHANGED <<part, s9, s10>>
Watching == part = "stream" /\ Stream!Next /\ UNCHANGED <<part, s7, s8, s9, s10>>

Next ==
    \/ SessionsRun
    \/ SigningIn
    \/ Revoking
    \/ NotingUse
    \/ Limiting
    \/ ArrangingProviders
    \/ AskingTheDirectory
    \/ LoggingIn
    \/ Paging
    \/ Commanding
    \/ ArrangingTransfers
    \/ Counting
    \/ Watching

Spec == Init /\ [][Next]_vars

Sym == Permutations(Actors) \cup Permutations(Data)

-----------------------------------------------------------------------------
Part(name) == part = name

\* A session is somebody's and only theirs: every member opens exactly the
\* sessions that are still good (Sessions), a sign-in that comes back is the
\* one that set out (SignIn), and what weg keeps for a server was opened there
\* by a sign-in that asked for it (Logins).
OwnSession ==
    /\ Part("sessions") => Sessions!OpensExactly
    /\ Part("sign in") => SignIn!SignInIsItsOwn
    /\ Part("logins") => Logins!KeptIsItsOwn

\* Credentials are accounted for: the last use of a token is written down
\* unless the store or the process fails (LastUse), and no stretch of time
\* holds more rejections from an address than the limit (Limiter).
CredentialsCount ==
    /\ Part("last use") => LastUse!UseIsKept
    /\ Part("limiter") => Limiter!RejectionsBounded

\* What an administrator arranges holds: a provider's secret is sent only
\* where it was given for (Providers), a check of a directory foretells what a
\* sign-in finds (Directory), and a configuration written for a secondary works
\* as long as nothing it rests on is changed (Arranging).
ArrangedHolds ==
    /\ Part("providers") => Providers!SecretStaysHome
    /\ Part("directory") => Directory!CheckForetells
    /\ Part("arranging") => Arranging!WrittenIsServed

\* A list read page by page holds once each row that was there throughout
\* (Listing).
ListedOnce == Part("listing") => Listing!ListedOnce

\* What is shown of the queries adds up while they are counted: the summary
\* (Counters), and for every watcher of the stream the matches that it was
\* sent and that it was not (Stream).
WatchedAddsUp ==
    /\ Part("counters") => Counters!SummaryAddsUp
    /\ Part("stream") => Stream!EveryMatchAccounted /\ Stream!ListBounded

\* No step does what nobody asked for, however commands overlap: a revocation
\* leaves an administrator (Tokens), a command writes to the zone and the
\* record it looked up (Editing), and a login leaves the other servers'
\* sessions in the file (Logins).
StepsAreMeant ==
    [][/\ Part("tokens") => Tokens!AdminRemains
       /\ Part("editing") => Editing!ActsOnWhatItNamed
       /\ Part("logins") => Logins!KeepsTheRest]_vars
=============================================================================
