------------------------------ MODULE Sessions -------------------------------
(***************************************************************************)
(* Browser sessions.                                                       *)
(*                                                                         *)
(* A session is a cookie sealed under a key the cluster shares, so no       *)
(* server remembers it.  What can end one early is replicated: the keys,   *)
(* the list of ended sessions, the tokens and the providers.  The log      *)
(* holds the replicated state after every command; a member that has       *)
(* applied i commands judges a cookie by log[i] and its clock.  Clocks are *)
(* taken to agree, as the comment on EndedSession.Ends says they must.     *)
(***************************************************************************)
EXTENDS Integers, Sequences, FiniteSets

CONSTANTS
    Tokens, Providers, Names,
    Lifetime,       \* SessionLifetime, and SessionRotation with it
    MaxClock, MaxLog, MaxSessions,
    Straddles       \* may a sign-in read its key before a rotation and seal after it?

VARIABLES
    now,        \* the clock
    log,        \* the replicated state after each command, and the command
    issued      \* every session cookie sealed; a browser may send any of them

vars == <<now, log, issued>>

NoKey == 0
People == Providers \X Names
Callers == Tokens \cup People

\* The command that led to a state, and when it was planned.
Nothing == [kind |-> "nothing", what |-> 0]

\* The first key is minted as the server starts.
InitialState ==
    [current |-> 1, previous |-> NoKey, rotatedAt |-> 0, ended |-> {},
     revoked |-> {}, provider |-> [p \in Providers |-> "on"], did |-> Nothing, at |-> 0]

Init ==
    /\ now = 0
    /\ log = <<InitialState>>
    /\ issued = {}

Last == log[Len(log)]
Replicate(state, did) ==
    /\ Len(log) < MaxLog
    /\ log' = Append(log, [state EXCEPT !.did = did, !.at = now])

Tick == now < MaxClock /\ now' = now + 1 /\ UNCHANGED <<log, issued>>

-----------------------------------------------------------------------------
(* Keys.                                                                   *)

Due(keys) == keys.current = NoKey \/ now >= keys.rotatedAt + Lifetime

\* Mutant: the key just replaced is forgotten.
RotateForgetting(keys) ==
    [keys EXCEPT !.current = @ + 1, !.previous = NoKey, !.rotatedAt = now]

Rotate(keys) ==
    [keys EXCEPT !.current = @ + 1, !.previous = keys.current, !.rotatedAt = now]

\* The leader settles first, so it plans on the end of the log.
RotateSessionKeys ==
    /\ Due(Last)
    /\ Replicate(Rotate(Last), [kind |-> "rotate", what |-> 0])
    /\ UNCHANGED <<now, issued>>

\* The key a sealed value opens under, current first.
unseal(keys, key) ==
    IF key # NoKey /\ key \in {keys.current, keys.previous} THEN key ELSE NoKey

-----------------------------------------------------------------------------
(* Sessions ended before their time.                                       *)

Entry(id, who, until) == [id |-> id, who |-> who, until |-> until]

\* Does an entry refuse a session?  A person's does if the session ends no
\* later than it.
Ends(e, c) ==
    IF e.id # 0 THEN e.id = c.id ELSE e.who = c.who /\ c.expires <= e.until

\* Mutant: an entry takes the place of every entry of its kind.
ReplacesAny(e, o) == (e.id = 0) = (o.id = 0)

replaces(e, o) == e.id = o.id /\ e.who = o.who

\* Written whole, without what it replaces and what has run out.
WithEnded(ended, next) ==
    {e \in ended : ~replaces(next, e) /\ now < e.until} \cup {next}

endSessions(next, did) ==
    /\ now < next.until
    /\ Replicate([Last EXCEPT !.ended = WithEnded(@, next)], did)

\* The provider has to be there, on or off.
EndPersonSessions(p, n) ==
    /\ Last.provider[p] # "gone"
    /\ endSessions(Entry(0, <<p, n>>, now + Lifetime), [kind |-> "end person", what |-> <<p, n>>])
    /\ UNCHANGED <<now, issued>>

-----------------------------------------------------------------------------
(* Opening a session a cookie carries, on a member that has applied i.     *)

openSession(i, c) == unseal(log[i], c.key) # NoKey /\ now < c.expires

personOf(i, p) == log[i].provider[p] = "on"

TokenByHash(i, t) == t \notin log[i].revoked

openedSession(i, c) ==
    /\ openSession(i, c)
    /\ \A e \in log[i].ended : ~Ends(e, c)
    /\ IF c.who \in People THEN personOf(i, c.who[1]) ELSE TokenByHash(i, c.who)

\* A write repeats the value worked out from the key the session opens under.
csrfFor(key, id) == <<key, id>>
checkCSRF(i, c) == c.csrf = csrfFor(unseal(log[i], c.key), c.id)

\* Signing out needs the session to open, and its CSRF value.  Recording the
\* end is a write by the leader; where it fails the cookies are cleared and
\* nothing else changes.
DeleteSession(c, i) ==
    /\ openedSession(i, c)
    /\ checkCSRF(i, c)
    /\ endSessions(Entry(c.id, c.who, c.expires), [kind |-> "end", what |-> c.id])
    /\ UNCHANGED <<now, issued>>

-----------------------------------------------------------------------------
(* Opening one, on a member that had applied i when it read the keys and   *)
(* looked the caller up.  It is sealed and lasts from now, which is later  *)
(* when a directory or a provider is asked in between.                     *)

Opens(who, i) ==
    /\ Cardinality(issued) < MaxSessions
    /\ log[i].current # NoKey
    /\ Straddles \/ log[i].current = Last.current
    /\ LET id == 1 + Cardinality(issued)
       IN issued' = issued \cup
              {[id |-> id, who |-> who, key |-> log[i].current, csrf |-> csrfFor(log[i].current, id),
                opened |-> now, expires |-> now + Lifetime, from |-> i]}
    /\ UNCHANGED <<now, log>>

CreateSession(t, i) == TokenByHash(i, t) /\ Opens(t, i)

\* Through a directory, or back from a provider.
SignIn(p, n, i) == personOf(i, p) /\ Opens(<<p, n>>, i)

-----------------------------------------------------------------------------
(* What else ends sessions.                                                *)

RevokeToken(t) ==
    /\ t \notin Last.revoked
    /\ Replicate([Last EXCEPT !.revoked = @ \cup {t}], [kind |-> "revoke", what |-> t])
    /\ UNCHANGED <<now, issued>>

\* A removed provider's identifier is never used again.
ChangeProvider(p, to) ==
    /\ Last.provider[p] \notin {"gone", to}
    /\ Replicate([Last EXCEPT !.provider[p] = to], [kind |-> "provider", what |-> p])
    /\ UNCHANGED <<now, issued>>

Member == 1..Len(log)

Next ==
    \/ Tick
    \/ RotateSessionKeys
    \/ \E p \in Providers, n \in Names : EndPersonSessions(p, n)
    \/ \E t \in Tokens : RevokeToken(t)
    \/ \E p \in Providers, to \in {"on", "off", "gone"} : ChangeProvider(p, to)
    \/ \E t \in Tokens, i \in Member : CreateSession(t, i)
    \/ \E p \in Providers, n \in Names, i \in Member : SignIn(p, n, i)
    \/ \E c \in issued, i \in Member : DeleteSession(c, i)

Spec == Init /\ [][Next]_vars

-----------------------------------------------------------------------------
TypeOK ==
    /\ now \in 0..MaxClock
    /\ \A i \in Member :
           /\ log[i].current \in 0..MaxLog /\ log[i].previous \in 0..MaxLog
           /\ log[i].revoked \subseteq Tokens
           /\ log[i].provider \in [Providers -> {"on", "off", "gone"}]
    /\ \A c \in issued : c.who \in Callers

\* Told from the history and not from the lists: is a session good on a member
\* that has applied i?  It has not run out, nobody signed out of it, its token
\* stands or its provider is on, and its person was not ended at or after the
\* moment it was opened.
Entitled(i, c) ==
    LET did == {log[k] : k \in 1..i}
    IN  /\ now < c.expires
        /\ \A s \in did : s.did # [kind |-> "end", what |-> c.id]
        /\ c.who \in Tokens => \A s \in did : s.did # [kind |-> "revoke", what |-> c.who]
        /\ c.who \in People =>
               /\ log[i].provider[c.who[1]] = "on"
               /\ \A s \in did : s.did = [kind |-> "end person", what |-> c.who] => s.at < c.opened

\* Every member that has applied what the sealing member had opens exactly the
\* sessions that are still good, and accepts their writes: no rotation ends
\* one, and no dropped or replaced entry revives one
\* (apply.SessionKeys.Rotate, apply.endSessions, api.openedSession).
OpensExactly ==
    \A c \in issued : \A i \in c.from..Len(log) :
        Entitled(i, c) <=> openedSession(i, c) /\ checkCSRF(i, c)
=============================================================================
