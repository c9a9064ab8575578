------------------------------ MODULE Logins ------------------------------
(***************************************************************************)
(* The sessions weg login keeps on a person's machine (cli/login.go,       *)
(* cli/sessions.go, cli/client.go): a login waits on a port of 127.0.0.1   *)
(* for the browser to bring a session sealed to its own key, tries it,     *)
(* and puts it into the one file of sessions, which every command reads    *)
(* and login and logout rewrite whole.  Commands run side by side and may  *)
(* be interrupted or killed at any point; the browser may bring what an    *)
(* earlier sign-in on the same port left in a tab; sessions run out.       *)
(***************************************************************************)
EXTENDS Integers, FiniteSets

CONSTANTS
  Commands,       \* commands started side by side
  Servers,        \* server addresses
  MaxSessions     \* bound on the sessions ever opened

VARIABLES
  file,      \* the file: per server the session kept, 0 for none
  cmd,       \* each command
  opened,    \* per session ever opened: its server, whose key, its state
  used,      \* what the last command sent, and where
  passed     \* history: the commands behind whose back another rewrote the file
             \* since they read it

vars == <<file, cmd, opened, used, passed>>

Idle == [kind |-> "none", at |-> "idle", server |-> 0, got |-> 0, held |-> [s \in Servers |-> 0]]

Sessions == DOMAIN opened
Live(i) == i \in Sessions /\ opened[i].expired = FALSE

Finish(c) == [cmd EXCEPT ![c] = Idle]

\* What was sealed to a key that is gone opens nowhere.
Stale(c) == [j \in Sessions |-> [opened[j] EXCEPT !.fresh = @ /\ opened[j].key # c]]

\* A provider the server offers: a directory asks for a password here, any
\* other makes a key, listens, sends the browser off and waits.
pickSignInProvider == {"asking", "waiting"}

runLogin(c) ==
  /\ cmd[c] = Idle
  /\ \E s \in Servers, at \in pickSignInProvider :
       cmd' = [cmd EXCEPT ![c] = [Idle EXCEPT !.kind = "login", !.at = at, !.server = s]]
  /\ opened' = Stale(c)
  /\ UNCHANGED <<file, used, passed>>

\* One more session, opened at a command's server.
Opened(c, fresh) ==
  LET i == Cardinality(Sessions) + 1
  IN [j \in 1 .. i |-> IF j < i THEN opened[j]
       ELSE [server |-> cmd[c].server, key |-> c, fresh |-> fresh, ended |-> FALSE, expired |-> FALSE]]

\* A name and a password are sent, and the session comes back with the answer,
\* or the answer is lost.
loginToDirectory(c) ==
  /\ cmd[c].at = "asking" /\ Cardinality(Sessions) < MaxSessions
  /\ opened' = Opened(c, FALSE)
  /\ \/ cmd' = [cmd EXCEPT ![c].at = "trying", ![c].got = Cardinality(Sessions) + 1]
     \/ cmd' = Finish(c)
  /\ UNCHANGED <<file, used, passed>>

\* The person signs in: the server opens a session and seals it to the key the
\* login sent along.
SignedIn(c) ==
  /\ cmd[c].kind = "login" /\ cmd[c].at = "waiting" /\ Cardinality(Sessions) < MaxSessions
  /\ \A i \in Sessions : opened[i].key # c \/ opened[i].fresh = FALSE
  /\ opened' = Opened(c, TRUE)
  /\ UNCHANGED <<file, cmd, used, passed>>

\* Mutant: whatever session the browser brings is taken.
OpensAny(c, i) == TRUE

\* key.Open: only what was sealed to the key of this sign-in opens.
Opens(c, i) == opened[i].key = c /\ opened[i].fresh

\* A tab reaches the port: loopbackHandler passes the first answer on, which is
\* this sign-in's, or what another left in a tab, or that it failed.
Arrive(c) ==
  /\ cmd[c].kind = "login" /\ cmd[c].at = "waiting"
  /\ \/ \E i \in Sessions :
          /\ cmd' = IF Opens(c, i) THEN [cmd EXCEPT ![c].at = "trying", ![c].got = i] ELSE Finish(c)
     \/ cmd' = Finish(c)
  /\ opened' = Stale(c)
  /\ UNCHANGED <<file, used, passed>>

\* GetSession with the new session: a server that does not take it ends the login.
Try(c) ==
  /\ cmd[c].at = "trying"
  /\ cmd' = IF Live(cmd[c].got) /\ ~opened[cmd[c].got].ended THEN [cmd EXCEPT ![c].at = "reading"] ELSE Finish(c)
  /\ UNCHANGED <<file, opened, used, passed>>

runLogout(c) ==
  /\ cmd[c] = Idle
  /\ \E s \in Servers : cmd' = [cmd EXCEPT ![c] = [Idle EXCEPT !.kind = "logout", !.at = "reading", !.server = s]]
  /\ UNCHANGED <<file, opened, used, passed>>

\* Between reading the file and writing it, which nothing keeps two commands from
\* being at once.
Rewriting(c) == cmd[c].at \in {"ending", "writing"}

readSessions(c) ==
  /\ cmd[c].at = "reading"
  /\ cmd' = IF cmd[c].kind = "login" THEN [cmd EXCEPT ![c].at = "writing", ![c].held = file]
            ELSE IF file[cmd[c].server] = 0 THEN Finish(c)
            ELSE [cmd EXCEPT ![c].at = IF Live(file[cmd[c].server]) THEN "ending" ELSE "writing", ![c].held = file]
  /\ UNCHANGED <<file, opened, used, passed>>

\* DeleteSession: the server ends it, or cannot be reached, and the session is
\* forgotten here all the same.
DeleteSession(c) ==
  /\ cmd[c].at = "ending"
  /\ cmd' = [cmd EXCEPT ![c].at = "writing"]
  /\ \/ opened' = [opened EXCEPT ![cmd[c].held[cmd[c].server]].ended = TRUE]
     \/ UNCHANGED opened
  /\ UNCHANGED <<file, used, passed>>

\* What is held with this command's entry set or dropped.
Changed(c) ==
  [cmd[c].held EXCEPT ![cmd[c].server] = IF cmd[c].kind = "login" THEN cmd[c].got ELSE 0]

\* Who has read the file and has not seen what this command writes into it.
Overtaken(c) == {d \in Commands : d # c /\ Rewriting(d)}

\* Mutant: only what this command changed is written.
writeSessionsOwn(c) ==
  /\ cmd[c].at = "writing"
  /\ file' = [s \in Servers |-> IF s = cmd[c].server /\ cmd[c].kind = "login" THEN cmd[c].got ELSE 0]
  /\ cmd' = Finish(c)
  /\ passed' = Overtaken(c)
  /\ UNCHANGED <<opened, used>>

\* Written beside itself, less what has run out, and renamed into place.
writeSessions(c) ==
  /\ cmd[c].at = "writing"
  /\ file' = [s \in Servers |-> IF Live(Changed(c)[s]) THEN Changed(c)[s] ELSE 0]
  /\ cmd' = Finish(c)
  /\ passed' = Overtaken(c)
  /\ UNCHANGED <<opened, used>>

\* Mutant: a session that has run out is still sent.
sessionAtStale(s) == file[s]

\* The session kept for a server, if it is still good.
sessionAt(s) == IF Live(file[s]) THEN file[s] ELSE 0

\* Any other command: a token named for it wins, else the session is attached,
\* else it stops before it asks.
dial(c) ==
  /\ cmd[c] = Idle
  /\ \E s \in Servers :
       \/ used' = [server |-> 0, session |-> 0]
       \/ sessionAt(s) # 0 /\ used' = [server |-> s, session |-> sessionAt(s)]
  /\ UNCHANGED <<file, cmd, opened, passed>>

\* An interrupt, a timeout, a failure to write or the end of the process: the
\* file is what it was, the rename not having happened.
Interrupted(c) ==
  /\ cmd[c] # Idle
  /\ cmd' = Finish(c)
  /\ passed' = passed \ {c}
  /\ UNCHANGED <<file, opened, used>>

\* A session runs out, and no command has one in hand that just did.
Expire(i) ==
  /\ Live(i)
  /\ opened' = [opened EXCEPT ![i].expired = TRUE]
  /\ used' = [server |-> 0, session |-> 0]
  /\ UNCHANGED <<file, cmd, passed>>

Init ==
  /\ file = [s \in Servers |-> 0]
  /\ cmd = [c \in Commands |-> Idle]
  /\ opened = [i \in {} |-> 0]
  /\ used = [server |-> 0, session |-> 0]
  /\ passed = {}

Next ==
  \/ \E c \in Commands :
       \/ runLogin(c) \/ loginToDirectory(c) \/ SignedIn(c) \/ Arrive(c) \/ Try(c) \/ runLogout(c)
       \/ readSessions(c) \/ DeleteSession(c) \/ writeSessions(c) \/ dial(c) \/ Interrupted(c)
  \/ \E i \in Sessions : Expire(i)

Spec == Init /\ [][Next]_vars

----------------------------------------------------------------------------
TypeOK ==
  /\ \A s \in Servers : file[s] = 0 \/ file[s] \in Sessions
  /\ \A c \in Commands : cmd[c].at \in {"idle", "asking", "waiting", "trying", "reading", "ending", "writing"}

\* What the file keeps for a server was opened at that server by a sign-in that
\* asked for it, whatever tabs came back to the port, and no command sends a
\* session to another server or after it has run out (cli/login.go awaitBrowser,
\* loginThroughOIDC; cli/sessions.go sessionAt).
KeptIsItsOwn ==
  /\ \A s \in Servers : file[s] # 0 => opened[file[s]].server = s
  /\ used.session # 0 => opened[used.session].server = used.server /\ Live(used.session)

\* A command that rewrites the file changes the entry of its own server, drops
\* what has run out, and leaves every other entry as it is.  There is no lock, so
\* one behind whose back the file was rewritten puts back what it had read; no
\* entry is ever lost or put back in any other way (cli/login.go runLogin,
\* runLogout; cli/sessions.go writeSessions).
KeepsTheRest ==
  \A s \in Servers : file'[s] # file[s] =>
    \E c \in Commands :
      /\ cmd[c].at = "writing" /\ cmd'[c] = Idle
      /\ \/ cmd[c].server = s
         \/ ~Live(file[s]) /\ file'[s] = 0
         \/ c \in passed /\ file'[s] \in {0, cmd[c].held[s]}
=============================================================================
