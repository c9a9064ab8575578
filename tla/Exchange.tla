------------------------------- MODULE Exchange -------------------------------
(***************************************************************************)
(* One exchange of a DNS message: from the octets of a query to those of   *)
(* its response (Responder.Respond in dns/wire.go).  A reader keeps one    *)
(* Responder and reuses all of it: the parsed query, the response being    *)
(* assembled and the event somebody watching is shown.                     *)
(*                                                                         *)
(* A query is what the table of Respond tells apart.  Sizes are in a unit  *)
(* of their own.  What a name resolves to is Answers' subject, and whose a *)
(* cookie is, Cookies'.                                                    *)
(***************************************************************************)
EXTENDS Integers, FiniteSets

CONSTANTS
    MinMsgSize,     \* 512 octets
    MaxUDPResponse, \* Limits.MaxUDPResponse
    MaxMsgSize,     \* 64 KiB
    tsigReserve,
    Advertised,     \* buffer sizes a requestor claims
    Servers,        \* what may be published: [key, secret, believed, load]
    Answers         \* what resolving comes to: [rcode, size, extended]

VARIABLES
    server,     \* what is published: a key, a secret, a resolver believed; load
    scratch,    \* the responder between two exchanges
    asked,      \* of the last query: was there an OPT, how much it takes, and
                \* whether it was cut short before its additional section
    sent,       \* the last response and its event
    want        \* what a responder never used before would have sent

vars == <<server, scratch, asked, sent, want>>

NoOPT == [present |-> FALSE, version |-> 0, cookie |-> "none", subnet |-> "none", size |-> 0]
OPT(v, c, s, n) == [present |-> TRUE, version |-> v, cookie |-> c, subnet |-> s, size |-> n]
CookieKinds == {"none", "malformed", "client", "ours", "worn", "not ours"}

\* The options a query may carry; a size of interest comes without the others.
Plain == {NoOPT} \cup {OPT(0, "none", "none", a) : a \in Advertised}
OPTs == LET n == CHOOSE a \in Advertised : \A b \in Advertised : a <= b
        IN  Plain \cup {OPT(0, c, s, n) : c \in CookieKinds, s \in {"none", "named", "malformed"}}
                  \cup {OPT(1, c, "malformed", n) : c \in {"malformed", "ours"}}

Query(f, a, o, t, tr, ans) == [form |-> f, questions |-> a, opt |-> o, tsig |-> t, tr |-> tr, answer |-> ans]

Queries ==
    LET some == CHOOSE a \in Answers : TRUE
    IN  {Query("query", "one", o, t, "UDP", some) : o \in OPTs, t \in {"none", "good"}}
        \cup {Query("query", "one", o, t, tr, a) : o \in Plain, t \in {"none", "good"}, tr \in {"UDP", "TCP"}, a \in Answers}
        \cup {Query("query", n, o, t, "UDP", some) : n \in {"none", "other class", "two"}, o \in OPTs, t \in {"none", "bad"}}
        \cup {Query(f, n, o, "none", "UDP", some) : f \in {"garbled late", "opcode"}, n \in {"none", "one"}, o \in OPTs}
        \cup {Query("garbled", n, NoOPT, "none", "UDP", some) : n \in {"none", "one"}}
        \cup {Query(f, "one", o, "none", "UDP", some) : f \in {"short", "response"}, o \in Plain}

NoEvent == [dropped |-> TRUE, named |-> FALSE, rcode |-> "none", truncated |-> FALSE,
            refused |-> "none", for |-> FALSE]
NoResponse == [rcode |-> "none", ede |-> FALSE, opt |-> FALSE, cookie |-> "none", subnet |-> FALSE,
               signed |-> FALSE, size |-> 0, truncated |-> FALSE]

Nothing == [resp |-> NoResponse, ev |-> NoEvent]
NothingAsked == [opt |-> FALSE, limit |-> MinMsgSize, garbled |-> FALSE]

\* Did all of a message unpack?
Unpacks(q) == q.form \notin {"garbled", "garbled late"}

\* NewResponder
Fresh == [opt |-> FALSE, size |-> 0, takes |-> 0, rcode |-> "none", ede |-> FALSE, cookie |-> "none",
          valid |-> FALSE, subnet |-> FALSE, signer |-> FALSE, ev |-> NoEvent]

Init ==
    /\ server \in Servers
    /\ scratch = Fresh
    /\ asked = NothingAsked
    /\ sent = Nothing
    /\ want = Nothing

-----------------------------------------------------------------------------
(* The parts of an exchange.  Each takes the responder and gives it back.  *)

\* The library's.  A message is read as far as it goes: one that fails in the
\* additional section may have brought an OPT, one that fails before it leaves
\* the additional section of the last message in place.
Unpack(s, q) ==
    [s EXCEPT !.opt = IF q.form = "garbled" THEN @ ELSE q.opt.present,
              !.takes = IF q.form = "garbled" THEN @ ELSE q.opt.size,
              !.ev = [NoEvent EXCEPT !.named = q.questions \in {"one", "other class"}]]

\* Mutant: the cookie of the last exchange is left in place.
beginKeepsCookie(s) ==
    [s EXCEPT !.rcode = "NOERROR", !.size = 1, !.ede = FALSE,
              !.subnet = FALSE, !.signer = FALSE, !.ev.refused = "none"]

begin(s) ==
    [s EXCEPT !.rcode = "NOERROR", !.size = 1, !.ede = FALSE, !.cookie = "none", !.valid = FALSE,
              !.subnet = FALSE, !.signer = FALSE, !.ev.refused = "none"]

\* Without a key nothing is verified, and a signature is not looked at.
checkTSIG(s, q) == [s EXCEPT !.signer = server.key /\ q.tsig = "good"]
TSIGRefused(q) == server.key /\ q.tsig = "bad" /\ Unpacks(q)

\* Reports whether what arrived was well formed.
CookieOK(q) == q.opt.cookie # "malformed"
readCookie(s, q) ==
    IF q.opt.cookie \in {"none", "malformed"} \/ ~server.secret THEN s
    ELSE [s EXCEPT !.valid = q.opt.cookie \in {"ours", "worn"},
                   !.cookie = IF q.opt.cookie = "ours" THEN "returned" ELSE "issued"]

SubnetOK(q) == q.opt.subnet # "malformed"
readSubnet(s, q) ==
    IF q.opt.subnet # "named" THEN s
    ELSE [s EXCEPT !.subnet = TRUE, !.ev.for = server.believed]

fail(s, rcode) == [s EXCEPT !.rcode = rcode, !.ede = TRUE]

cookieQuery(s, q) == q.questions = "none" /\ s.cookie # "none"

RefusesCookieless(s, q) == q.tr = "UDP" /\ ~s.valid /\ server.load
refuseCookieless(s) ==
    IF s.cookie # "none" THEN [s EXCEPT !.rcode = "BADCOOKIE", !.ev.refused = "badcookie"]
    ELSE [s EXCEPT !.rcode = "REFUSED", !.ev.refused = "cookieless"]

answer(s, q) == [s EXCEPT !.rcode = q.answer.rcode, !.size = q.answer.size, !.ede = q.answer.extended]

\* An order rather than a set: the first answer that applies.
Table(s, q) ==
    CASE ~Unpacks(q) -> fail(s, "FORMERR")
      [] Unpacks(q) ->
         IF q.form = "opcode" THEN fail(s, "NOTIMP")
         ELSE IF q.questions \notin {"one", "other class"} /\ ~cookieQuery(s, q) THEN fail(s, "FORMERR")
         ELSE IF ~CookieOK(q) THEN fail(s, "FORMERR")
         ELSE IF q.opt.version # 0 THEN fail(s, "BADVERS")
         ELSE IF ~SubnetOK(q) THEN fail(s, "FORMERR")
         ELSE IF q.questions = "other class" THEN fail(s, "REFUSED")
         ELSE IF RefusesCookieless(s, q) THEN refuseCookieless(s)
         ELSE IF cookieQuery(s, q) THEN s
         ELSE answer(s, q)

Least(a, b) == IF a <= b THEN a ELSE b
Most(a, b) == IF a >= b THEN a ELSE b

\* Mutant: the signature is added to a response cut to the whole budget.
budgetUnreserved(s, tr) ==
    IF tr = "TCP" THEN MaxMsgSize
    ELSE IF s.opt THEN Least(Most(s.takes, MinMsgSize), MaxUDPResponse) ELSE MinMsgSize

\* What the transport and the requestor take, less the room a signature needs.
budget(s, tr) ==
    (IF tr = "TCP" THEN MaxMsgSize
     ELSE IF s.opt THEN Least(Most(s.takes, MinMsgSize), MaxUDPResponse) ELSE MinMsgSize)
    - (IF s.signer THEN tsigReserve ELSE 0)

\* An OPT where the query had one, cut to the budget, signed.
finish(s, tr) ==
    LET cut == s.size > budget(s, tr)
    IN  [scratch |-> [s EXCEPT !.ev.rcode = s.rcode, !.ev.truncated = cut, !.ev.dropped = FALSE],
         resp |-> [rcode |-> s.rcode, opt |-> s.opt,
                   ede |-> s.opt /\ s.ede,
                   cookie |-> IF s.opt THEN s.cookie ELSE "none",
                   subnet |-> s.opt /\ s.subnet,
                   signed |-> s.signer, truncated |-> cut,
                   size |-> Least(s.size, budget(s, tr)) + (IF s.signer THEN tsigReserve ELSE 0)]]

refuseTSIG(s) ==
    [scratch |-> [s EXCEPT !.rcode = "NOTAUTH", !.ev.rcode = "NOTAUTH", !.ev.dropped = FALSE],
     resp |-> [NoResponse EXCEPT !.rcode = "NOTAUTH", !.size = 1]]

-----------------------------------------------------------------------------

\* Nothing is sent for a message too short to answer, or for a response.
Respond(s, q) ==
    IF q.form = "short" THEN [scratch |-> [s EXCEPT !.ev = NoEvent], resp |-> NoResponse]
    ELSE IF q.form = "response" THEN [scratch |-> Unpack(s, q), resp |-> NoResponse]
    ELSE LET b == begin(Unpack(s, q))
         IN  IF TSIGRefused(q) THEN refuseTSIG(b)
             ELSE IF ~Unpacks(q) THEN finish(Table(b, q), q.tr)
             ELSE finish(Table(readSubnet(readCookie(checkTSIG(b, q), q), q), q), q.tr)

\* What whoever is watching is shown: nothing written is a query dropped.
observe(x, written) == [x.scratch.ev EXCEPT !.dropped = @ \/ ~written \/ x.resp.size = 0]

\* The datagram reader, or a connection's: answered, written, and then shown
\* to whoever is watching.  A write may fail.
Answer(q, written) ==
    LET r == Respond(scratch, q)
        f == Respond(Fresh, q)
    IN  /\ sent = Nothing
        /\ scratch' = r.scratch
        /\ sent' = [resp |-> r.resp, ev |-> observe(r, written)]
        /\ want' = [resp |-> f.resp, ev |-> observe(f, written)]
        /\ asked' = [opt |-> q.opt.present,
                     limit |-> IF q.tr = "TCP" THEN MaxMsgSize
                               ELSE IF q.opt.present THEN Most(q.opt.size, MinMsgSize)
                               ELSE MinMsgSize,
                     garbled |-> q.form = "garbled"]
        /\ UNCHANGED server

\* The reader turns to the next query.
Read ==
    /\ sent # Nothing
    /\ sent' = Nothing /\ want' = Nothing /\ asked' = NothingAsked
    /\ UNCHANGED <<server, scratch>>

\* SetKeys, SetCookieSecrets, SetResolvers, and the load meter's window.
Publish(s) ==
    /\ sent = Nothing
    /\ server' = s
    /\ UNCHANGED <<scratch, asked, sent, want>>

Next ==
    \/ \E q \in Queries : \E written \in {TRUE, q.opt # NoOPT} : Answer(q, written)
    \/ Read
    \/ \E s \in Servers : Publish(s)

Spec == Init /\ [][Next]_vars

-----------------------------------------------------------------------------
(***************************************************************************)
(* A responder reused from query to query answers each one, and describes  *)
(* it to whoever is watching, as if it had never answered another          *)
(* (Responder.begin and the reset of the event in Respond).  One thing may *)
(* be left of an earlier message: where a query does not parse as far as   *)
(* its additional section, its FORMERR comes with an OPT record, and the   *)
(* reason in it, if the message before had one; no cookie, subnet or       *)
(* signature, and nothing of what was asked.                               *)
(***************************************************************************)
NoCarryOver ==
    \/ sent = want
    \/ asked.garbled /\ want.resp.rcode = "FORMERR"
       /\ sent = [want EXCEPT !.resp.opt = TRUE, !.resp.ede = TRUE]

(***************************************************************************)
(* A response is no larger than its requestor takes, its signature         *)
(* included, whatever an earlier query said it takes, and carries no OPT   *)
(* record where the query had none (but for the FORMERR above), with       *)
(* whatever goes inside one (Responder.finish).                            *)
(***************************************************************************)
ResponseFits ==
    /\ sent.resp.size <= asked.limit
    /\ sent.resp.opt => asked.opt \/ asked.garbled
    /\ sent.resp.ede \/ sent.resp.cookie # "none" \/ sent.resp.subnet => sent.resp.opt
=============================================================================
