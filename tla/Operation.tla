------------------------------ MODULE Operation ------------------------------
(***************************************************************************)
(* A server in operation: it starts, joins a cluster and keeps to its      *)
(* members, hands requests to the leader, replays the log and answers      *)
(* queries.                                                                *)
(*                                                                         *)
(* No two of the parts share state, so what holds of one is decided by its *)
(* own steps.  A behaviour here is a behaviour of one of them, and the     *)
(* slots s1, s2, ... hold its variables; the states are a sum and not a    *)
(* product.                                                                *)
(***************************************************************************)
EXTENDS Integers, Sequences, FiniteSets, TLC

CONSTANTS
    Actors,         \* two servers, processes or sockets at once
    Conns,          \* connections to the cluster port
    srv1, srv2, srv3, witness,     \* servers, and a witness
    None,
    ChecksOverlap, MayClash     \* windows that are shut here

VARIABLES part, s1, s2, s3, s4, s5, s6, s7, s8, s9, s10

Membership == INSTANCE Members WITH
    Data <- Actors, Witnesses <- {witness}, Formed <- SUBSET Actors \ {{}}, joinHops <- 3, MaxChanges <- 3,
    config <- s1, leader <- s2, up <- s3, sent <- s4, stalled <- s5, told <- s6, join <- s7,
    pending <- s8, changes <- s9, removal <- s10

Port == INSTANCE Port WITH
    Kinds <- {"raft", "join"}, maxHandshakes <- 2, queueDepth <- 1,
    place <- s1, open <- s2, says <- s3, slots <- s4, inflight <- s5, tracking <- s6,
    queue <- s7, shutKind <- s8, draining <- s9, closing <- s10

Forwarding == INSTANCE Forwarding WITH
    Nodes <- {srv1, srv2, srv3}, Witness <- witness, Requests <- {"r"}, MaxMoves <- 4,
    leading <- s1, view <- s2, member <- s3, log <- s4, own <- s5, req <- s6, moves <- s7

Replica == INSTANCE Replica WITH
    Members <- {srv1, srv2}, Leaders <- {srv1}, KeyNames <- {"k"}, ZoneNames <- {"z"},
    ReverseNames <- {"z"}, Values <- {"v"}, MaxLog <- 4,
    log <- s1, store <- s2, stalled <- s3, file <- s4

Startup == INSTANCE Startup WITH
    Procs <- Actors, Builds <- {1, 2}, Sections <- BOOLEAN, MaxStarts <- 2,
    db <- s1, proc <- s2, section <- s3, shown <- s4, starts <- s5

Cookies == INSTANCE Cookies WITH
    Sockets <- Actors, Addresses <- {"here", "there"}, cookieMaxAge <- 2, cookieMaxSkew <- 1,
    cookieRenewAge <- 1, CookieRotation <- 2, Width <- 8, DropWidth <- 2, Lag <- 0,
    Start <- 5, MaxClock <- 9,
    now <- s1, stored <- s2, published <- s3, late <- s4, held <- s5, last <- s6,
    counter <- s7, meter <- s8, lost <- s9

\* What may be published: with a key, and with or without a cookie secret and
\* a resolver whose client subnet is believed, under load or not.
Served(secret, load) == [key |-> TRUE, secret |-> secret, believed |-> secret, load |-> load]
Resolved(rcode, size, extended) == [rcode |-> rcode, size |-> size, extended |-> extended]

Exchange == INSTANCE Exchange WITH
    MinMsgSize <- 2, MaxUDPResponse <- 4, MaxMsgSize <- 9, tsigReserve <- 1,
    Advertised <- {1, 6},
    Servers <- {Served(TRUE, TRUE), Served(TRUE, FALSE), Served(FALSE, TRUE)},
    Answers <- {Resolved("NOERROR", 1, FALSE), Resolved("NOERROR", 6, FALSE),
                Resolved("REFUSED", 1, TRUE)},
    server <- s1, scratch <- s2, asked <- s3, sent <- s4, want <- s5

vars == <<part, s1, s2, s3, s4, s5, s6, s7, s8, s9, s10>>

Free10 == s10 = None
Free9 == s9 = None /\ Free10
Free8 == s8 = None /\ Free9
Free7 == s7 = None /\ Free8
Free6 == s6 = None /\ Free7
Free5 == s5 = None /\ Free6

Init ==
    \/ part = "members" /\ Membership!Init
    \/ part = "port" /\ Port!Init
    \/ part = "forwarding" /\ Forwarding!Init /\ Free8
    \/ part = "replica" /\ Replica!Init /\ Free5
    \/ part = "startup" /\ Startup!Init /\ Free6
    \/ part = "cookies" /\ Cookies!Init /\ Free10
    \/ part = "exchange" /\ Exchange!Init /\ Free6

Joining == part = "members" /\ Membership!Next /\ UNCHANGED <<part>>
Connecting == part = "port" /\ Port!Next /\ UNCHANGED <<part>>
HandingOn == part = "forwarding" /\ Forwarding!Next /\ UNCHANGED <<part, s8, s9, s10>>
Replaying == part = "replica" /\ Replica!Next /\ UNCHANGED <<part, s5, s6, s7, s8, s9, s10>>
Starting == part = "startup" /\ Startup!Next /\ UNCHANGED <<part, s6, s7, s8, s9, s10>>
CheckingCookies == part = "cookies" /\ Cookies!Next /\ UNCHANGED <<part, s10>>
Answering == part = "exchange" /\ Exchange!Next /\ UNCHANGED <<part, s6, s7, s8, s9, s10>>

Next ==
    \/ Joining
    \/ Connecting
    \/ HandingOn
    \/ Replaying
    \/ Starting
    \/ CheckingCookies
    \/ Answering

Spec == Init /\ [][Next]_vars

Sym == Permutations(Actors)

-----------------------------------------------------------------------------
Part(name) == part = name

\* The cluster a server belongs to is sound: the voters that hold data stay a
\* majority and a change that costs the majority was foretold (Members), a
\* port that closes leaves no connection behind (Port), and a change asked of
\* any member lands in the log, once, in the name of who asked (Forwarding).
MembershipSound ==
    /\ Part("members") => Membership!VotersSound /\ Membership!ForetoldMajority
    /\ Part("port") => Port!NothingLeft
    /\ Part("forwarding") => Forwarding!ChangeIsShared

\* A member's store is what its place in the log says, however it got there,
\* and no entry that was planned is refused when it is applied (Replica).
StoreIsItsIndex ==
    Part("replica") => Replica!StoreIsItsIndex /\ Replica!NeverRefuses

\* A server that serves was brought up whole, on a schema made by every
\* migration in order; a node that joined holds what the cluster holds, unless
\* it was started on its own after it was admitted (Startup).
ServesWhole ==
    Part("startup") => Startup!ServesWhole /\ Startup!SchemaInOrder /\ Startup!JoinsEmpty

\* A query is answered for itself: nothing of the exchange before shows, but
\* for an OPT in the answer to a message that cannot be read, and the response
\* fits where it goes (Exchange), a cookie is honoured for as
\* long as it lasts and load is what was lost (Cookies).
AnsweredForItself ==
    /\ Part("exchange") => Exchange!NoCarryOver /\ Exchange!ResponseFits
    /\ Part("cookies") => Cookies!CookieHonoured /\ Cookies!LoadIsLoss

=============================================================================
