----------------------------- MODULE LoginProofs -------------------------------
(***************************************************************************)
(* What weg login keeps on a person's machine: for each server a session   *)
(* that was opened there, and every other server's when one is rewritten,  *)
(* for any number of commands, servers and sessions.                       *)
(***************************************************************************)
EXTENDS Integers, FiniteSets, FiniteSetTheorems, TLAPS

CONSTANTS Commands, Servers, MaxSessions

VARIABLES file, cmd, opened, used, passed

L == INSTANCE Logins

\* What is kept, in the file or by a command that has read it: for each server no
\* session, or one that was opened there.
Kept(f) ==
    /\ DOMAIN f = Servers
    /\ \A s \in Servers : f[s] # 0 => f[s] \in DOMAIN opened /\ opened[f[s]].server = s

\* The sessions are numbered as they were opened.
Numbered ==
    /\ \E k \in Nat : DOMAIN opened = 1 .. k
    /\ \A i \in DOMAIN opened :
          /\ DOMAIN opened[i] = {"server", "key", "fresh", "ended", "expired"}
          /\ opened[i].fresh \in BOOLEAN

\* A command holds a session of its own server, and while it waits for the browser,
\* what its key opens was opened there.
CommandOK(c) ==
    /\ DOMAIN cmd[c] = {"kind", "at", "server", "got", "held"}
    /\ Kept(cmd[c].held)
    /\ cmd[c].got # 0 => cmd[c].got \in DOMAIN opened /\ opened[cmd[c].got].server = cmd[c].server
    /\ cmd[c].at = "waiting" =>
          \A i \in DOMAIN opened : L!Opens(c, i) => opened[i].server = cmd[c].server

\* What was sent last went where it was opened, and was good.
UsedOK ==
    used.session # 0 => /\ used.session \in DOMAIN opened
                        /\ opened[used.session].server = used.server
                        /\ opened[used.session].expired = FALSE

LoginInv ==
    /\ Numbered
    /\ Kept(file)
    /\ DOMAIN cmd = Commands
    /\ \A c \in Commands : CommandOK(c)
    /\ UsedOK

\* Sessions stay where they were opened.
Stay ==
    \A i \in DOMAIN opened : i \in DOMAIN opened' /\ opened'[i].server = opened[i].server

\* No session comes to be opened by the key of a command but at its server.
Own(c) ==
    \A i \in DOMAIN opened' :
        L!Opens(c, i)' => (i \in DOMAIN opened /\ L!Opens(c, i)) \/ opened'[i].server = cmd[c].server

\* What was kept still is.
LEMMA KeptStays == ASSUME NEW f, Kept(f), Stay PROVE Kept(f)'
BY DEF Kept, Stay

\* A command that takes no step holds what it held, while sessions stay where they are.
LEMMA CommandStays ==
  ASSUME NEW c, CommandOK(c), cmd'[c] = cmd[c], Stay, Own(c) PROVE CommandOK(c)'
<1>1. PICK f : f = cmd[c].held  OBVIOUS
<1>2. Kept(f)'  BY <1>1, KeptStays DEF CommandOK
<1>3. Kept(cmd[c].held)'  BY <1>1, <1>2
<1>4. cmd[c].got # 0 => cmd[c].got \in DOMAIN opened' /\ opened'[cmd[c].got].server = cmd[c].server
  BY DEF CommandOK, Stay
<1>5. cmd[c].at = "waiting" =>
          \A i \in DOMAIN opened' : L!Opens(c, i)' => opened'[i].server = cmd[c].server
  BY Zenon DEF CommandOK, Own, Stay
<1> QED BY <1>3, <1>4, <1>5 DEF CommandOK

\* A command that has ended, or has not begun, holds nothing.
LEMMA IdleOK == ASSUME NEW c, cmd'[c] = L!Idle PROVE CommandOK(c)'
<1>1. /\ DOMAIN L!Idle = {"kind", "at", "server", "got", "held"}
      /\ L!Idle.at = "idle" /\ L!Idle.got = 0 /\ L!Idle.held = [s \in Servers |-> 0]
  BY DEF L!Idle
<1>2. Kept([s \in Servers |-> 0])'  BY DEF Kept
<1> QED BY <1>1, <1>2 DEF CommandOK

\* One command takes a step that leaves the file alone.
LEMMA OneCommand ==
  ASSUME LoginInv, NEW c \in Commands, NEW r, cmd' = [cmd EXCEPT ![c] = r], CommandOK(c)',
         Numbered', Stay, \A d \in Commands \ {c} : Own(d), Kept(file)', UsedOK'
  PROVE  LoginInv'
<1>1. DOMAIN cmd' = Commands /\ \A d \in Commands \ {c} : cmd'[d] = cmd[d]  BY DEF LoginInv
<1>2. ASSUME NEW d \in Commands \ {c} PROVE CommandOK(d)'
  BY <1>1, CommandStays DEF LoginInv
<1> QED BY <1>1, <1>2 DEF LoginInv

\* The file is left alone.
LEMMA KeptFile == ASSUME LoginInv, UNCHANGED file, Stay PROVE Kept(file)'
<1>1. PICK f : f = file  OBVIOUS
<1> QED BY <1>1, KeptStays DEF LoginInv

\* A command has got a session of its server.
LEMMA Obtained ==
  ASSUME LoginInv, NEW c \in Commands, NEW i, cmd' = [cmd EXCEPT ![c].at = "trying", ![c].got = i],
         i \in DOMAIN opened', opened'[i].server = cmd[c].server,
         Numbered', Stay, \A d : Own(d), Kept(file)', UsedOK'
  PROVE  LoginInv'
<1>1. CommandOK(c) /\ DOMAIN cmd = Commands  BY DEF LoginInv
<1>2. PICK r : r = [cmd[c] EXCEPT !.at = "trying", !.got = i]  OBVIOUS
<1>3. /\ DOMAIN r = {"kind", "at", "server", "got", "held"}
      /\ r.got = i /\ r.held = cmd[c].held /\ r.server = cmd[c].server /\ r.at = "trying"
  BY <1>1, <1>2 DEF CommandOK
<1>4. cmd' = [cmd EXCEPT ![c] = r] /\ cmd'[c] = r  BY <1>1, <1>2, ZenonT(30)
<1>5. PICK f : f = cmd[c].held  OBVIOUS
<1>6. Kept(f)'  BY <1>1, <1>5, KeptStays DEF CommandOK
<1>7. Kept(cmd[c].held)'  BY <1>3, <1>4, <1>5, <1>6
<1>8. CommandOK(c)'  BY <1>3, <1>4, <1>7 DEF CommandOK
<1> QED BY <1>4, <1>8, OneCommand, ZenonT(30)

\* Nothing about the sessions changes.
LEMMA SameSessions ==
  ASSUME LoginInv, UNCHANGED opened PROVE Numbered' /\ Stay /\ \A d : Own(d)
<1>1. Numbered'  BY ZenonT(30) DEF LoginInv, Numbered
<1>2. Stay  BY DEF Stay
<1>3. \A d : Own(d)  BY DEF Own, L!Opens
<1> QED BY <1>1, <1>2, <1>3

\* What was sent last is as good as it was, when neither it nor the sessions change.
LEMMA SameUsed ==
  ASSUME LoginInv, UNCHANGED used, Stay,
         \A i \in DOMAIN opened : opened'[i].expired = opened[i].expired
  PROVE  UsedOK'
BY DEF LoginInv, UsedOK, Stay

\* A new sign-in makes a new key, and what an earlier one left opens no more.
LEMMA StaleSessions ==
  ASSUME LoginInv, NEW c, opened' = L!Stale(c)
  PROVE  /\ Numbered' /\ Stay /\ \A d : Own(d)
         /\ \A i \in DOMAIN opened' : ~L!Opens(c, i)'
         /\ \A i \in DOMAIN opened : opened'[i].expired = opened[i].expired
<1>1. Numbered  BY DEF LoginInv
<1>2. DOMAIN opened' = DOMAIN opened  BY DEF L!Stale, L!Sessions
<1>3. ASSUME NEW i \in DOMAIN opened
      PROVE  /\ DOMAIN opened'[i] = {"server", "key", "fresh", "ended", "expired"}
             /\ opened'[i].server = opened[i].server /\ opened'[i].key = opened[i].key
             /\ opened'[i].expired = opened[i].expired
             /\ opened'[i].fresh = (opened[i].fresh /\ opened[i].key # c)
  BY <1>1 DEF Numbered, L!Stale, L!Sessions
<1>4. Numbered'  BY <1>1, <1>2, <1>3, ZenonT(30) DEF Numbered
<1>5. Stay  BY <1>2, <1>3 DEF Stay
<1>6. \A d : Own(d)  BY <1>2, <1>3, ZenonT(30) DEF Own, L!Opens
<1>7. \A i \in DOMAIN opened' : ~L!Opens(c, i)'  BY <1>2, <1>3, ZenonT(30) DEF L!Opens
<1> QED BY <1>3, <1>4, <1>5, <1>6, <1>7

\* The instance counts as this module does.
LEMMA SameCount == \A X : L!Cardinality(X) = Cardinality(X)
BY DEF L!Cardinality, Cardinality, L!IsFiniteSet, IsFiniteSet

\* One more session, at the server of the command that asked for it.
LEMMA OneMore ==
  ASSUME LoginInv, NEW c \in Commands, NEW fresh \in BOOLEAN, opened' = L!Opened(c, fresh)
  PROVE  /\ Numbered' /\ Stay /\ \A d : Own(d)
         /\ Cardinality(L!Sessions) + 1 \in DOMAIN opened' /\ Cardinality(L!Sessions) + 1 # 0
         /\ opened'[Cardinality(L!Sessions) + 1].server = cmd[c].server
         /\ \A i \in DOMAIN opened : opened'[i] = opened[i]
<1>1. Numbered  BY DEF LoginInv
<1>2. PICK k \in Nat : DOMAIN opened = 1 .. k  BY <1>1 DEF Numbered
<1>3. Cardinality(L!Sessions) = k  BY <1>2, FS_Interval DEF L!Sessions
<1>4. PICK new : new = [server |-> cmd[c].server, key |-> c, fresh |-> fresh, ended |-> FALSE, expired |-> FALSE]
  BY ZenonT(30)
<1>5. opened' = [j \in 1 .. k + 1 |-> IF j < k + 1 THEN opened[j] ELSE new]
  BY <1>3, <1>4, SameCount DEF L!Opened
<1>6. DOMAIN opened' = 1 .. k + 1 /\ opened'[k + 1] = new /\ \A i \in 1 .. k : opened'[i] = opened[i]
  BY <1>5
<1>7. /\ new.server = cmd[c].server /\ new.key = c /\ new.fresh = fresh
      /\ DOMAIN new = {"server", "key", "fresh", "ended", "expired"}
  BY <1>4
<1>8. \A i \in 1 .. k + 1 : i \in 1 .. k \/ i = k + 1  OBVIOUS
<1>9. Numbered'  BY <1>1, <1>2, <1>6, <1>7, <1>8 DEF Numbered
<1>10. Stay  BY <1>2, <1>6 DEF Stay
<1>11. \A d : Own(d)  BY <1>2, <1>6, <1>7, <1>8 DEF Own, L!Opens
<1> QED BY <1>2, <1>3, <1>6, <1>7, <1>9, <1>10, <1>11

\* A login begins.
LEMMA LoginBegins == ASSUME LoginInv, NEW c \in Commands, L!runLogin(c) PROVE LoginInv'
<1>1. PICK s \in Servers, at \in L!pickSignInProvider :
        cmd' = [cmd EXCEPT ![c] = [L!Idle EXCEPT !.kind = "login", !.at = at, !.server = s]]
  BY ZenonT(30) DEF L!runLogin
<1>2. opened' = L!Stale(c) /\ UNCHANGED <<file, used>>  BY DEF L!runLogin
<1>3. PICK r : r = [L!Idle EXCEPT !.kind = "login", !.at = at, !.server = s]  OBVIOUS
<1>4. /\ DOMAIN r = {"kind", "at", "server", "got", "held"}
      /\ r.got = 0 /\ r.held = [t \in Servers |-> 0]
  BY <1>3 DEF L!Idle
<1>5. cmd' = [cmd EXCEPT ![c] = r]  BY <1>1, <1>3
<1>6. cmd'[c] = r  BY <1>5 DEF LoginInv
<1>7. Kept([t \in Servers |-> 0])'  BY DEF Kept
<1>8. CommandOK(c)'  BY <1>2, <1>4, <1>6, <1>7, StaleSessions DEF CommandOK
<1>9. Kept(file)'  BY <1>2, StaleSessions, KeptFile
<1>10. UsedOK'  BY <1>2, StaleSessions, SameUsed
<1> QED BY <1>2, <1>5, <1>8, <1>9, <1>10, StaleSessions, OneCommand, ZenonT(30)

\* The browser comes back: with a session sealed to this sign-in's key, or the login
\* ends.
LEMMA ArriveKeeps == ASSUME LoginInv, NEW c \in Commands, L!Arrive(c) PROVE LoginInv'
<1>1. opened' = L!Stale(c) /\ UNCHANGED <<file, used>> /\ cmd[c].at = "waiting"  BY DEF L!Arrive
<1>2. Kept(file)'  BY <1>1, StaleSessions, KeptFile
<1>3. UsedOK'  BY <1>1, StaleSessions, SameUsed
<1>4. CASE cmd' = L!Finish(c)
  <2>1. cmd' = [cmd EXCEPT ![c] = L!Idle] /\ cmd'[c] = L!Idle  BY <1>4 DEF L!Finish, LoginInv
  <2> QED BY <1>1, <1>2, <1>3, <2>1, IdleOK, StaleSessions, OneCommand, ZenonT(30)
<1>5. CASE \E i \in L!Sessions :
             L!Opens(c, i) /\ cmd' = [cmd EXCEPT ![c].at = "trying", ![c].got = i]
  <2>1. PICK i \in DOMAIN opened : L!Opens(c, i) /\ cmd' = [cmd EXCEPT ![c].at = "trying", ![c].got = i]
    BY <1>5, ZenonT(30) DEF L!Sessions
  <2>2. opened[i].server = cmd[c].server  BY <1>1, <2>1 DEF LoginInv, CommandOK
  <2>3. i \in DOMAIN opened' /\ opened'[i].server = cmd[c].server
    BY <1>1, <2>2, StaleSessions DEF Stay
  <2> QED BY <1>1, <1>2, <1>3, <2>1, <2>3, StaleSessions, Obtained, ZenonT(30)
<1> QED BY <1>4, <1>5 DEF L!Arrive

\* A name and a password are answered with a session, or with nothing.
LEMMA DirectoryKeeps == ASSUME LoginInv, NEW c \in Commands, L!loginToDirectory(c) PROVE LoginInv'
<1>1. opened' = L!Opened(c, FALSE) /\ UNCHANGED <<file, used>>  BY DEF L!loginToDirectory
<1>2. Kept(file)'  BY <1>1, OneMore, KeptFile, ZenonT(30)
<1>3. \A i \in DOMAIN opened : opened'[i].expired = opened[i].expired  BY <1>1, OneMore, ZenonT(30)
<1>4. UsedOK'  BY <1>1, <1>3, OneMore, SameUsed, ZenonT(30)
<1>5. CASE cmd' = L!Finish(c)
  <2>1. cmd' = [cmd EXCEPT ![c] = L!Idle] /\ cmd'[c] = L!Idle  BY <1>5, SMTT(30), ZenonT(30) DEF L!Finish, LoginInv
  <2> QED BY <1>1, <1>2, <1>4, <2>1, IdleOK, OneMore, OneCommand, ZenonT(30)
<1>6. CASE cmd' = [cmd EXCEPT ![c].at = "trying", ![c].got = L!Cardinality(L!Sessions) + 1]
  <2>1. PICK i : i = Cardinality(L!Sessions) + 1  OBVIOUS
  <2>2. cmd' = [cmd EXCEPT ![c].at = "trying", ![c].got = i]  BY <1>6, <2>1, SameCount, ZenonT(30)
  <2>3. i \in DOMAIN opened' /\ opened'[i].server = cmd[c].server  BY <1>1, <2>1, OneMore, ZenonT(30)
  <2> QED BY <1>1, <1>2, <1>4, <2>2, <2>3, OneMore, Obtained, ZenonT(30)
<1> QED BY <1>5, <1>6 DEF L!loginToDirectory

\* A command moves on with what it has.
LEMMA MovesOn ==
  ASSUME LoginInv, NEW c \in Commands, NEW r, cmd' = [cmd EXCEPT ![c] = r],
         DOMAIN r = {"kind", "at", "server", "got", "held"}, r.at # "waiting", Kept(r.held),
         r.got # 0 => r.got = cmd[c].got /\ r.server = cmd[c].server,
         Numbered', Stay, \A d : Own(d), Kept(file)', UsedOK'
  PROVE  LoginInv'
<1>1. CommandOK(c) /\ DOMAIN cmd = Commands  BY DEF LoginInv
<1>2. cmd'[c] = r  BY <1>1
<1>3. PICK f : f = r.held  OBVIOUS
<1>4. Kept(f)'  BY <1>3, KeptStays
<1>5. Kept(cmd[c].held)'  BY <1>2, <1>3, <1>4
<1>6. r.got # 0 => r.got \in DOMAIN opened' /\ opened'[r.got].server = r.server
  BY <1>1 DEF CommandOK, Stay
<1>7. CommandOK(c)'  BY <1>2, <1>5, <1>6 DEF CommandOK
<1> QED BY <1>7, OneCommand, ZenonT(30)

\* No command takes a step.
LEMMA CommandsStay ==
  ASSUME LoginInv, UNCHANGED cmd, Numbered', Stay, \A d : Own(d), Kept(file)', UsedOK'
  PROVE  LoginInv'
<1>1. ASSUME NEW d \in Commands PROVE CommandOK(d)'  BY CommandStays DEF LoginInv
<1> QED BY <1>1 DEF LoginInv

\* Steps that leave the file, the sessions and what was sent alone.
LEMMA QuietKeeps ==
  ASSUME LoginInv, NEW c \in Commands, L!Try(c) \/ L!runLogout(c) \/ L!readSessions(c) \/ L!Interrupted(c)
  PROVE  LoginInv'
<1>1. UNCHANGED <<file, opened, used>>
  BY ZenonT(30) DEF L!Try, L!runLogout, L!readSessions, L!Interrupted
<1>2. Numbered' /\ Stay /\ \A d : Own(d)  BY <1>1, SameSessions
<1>3. Kept(file)'  BY <1>1, <1>2, KeptFile
<1>4. UsedOK'  BY <1>1, <1>2, SameUsed
<1>5. CommandOK(c) /\ DOMAIN cmd = Commands /\ Kept(file)  BY DEF LoginInv
<1>6. CASE cmd' = L!Finish(c)
  <2>1. cmd' = [cmd EXCEPT ![c] = L!Idle] /\ cmd'[c] = L!Idle  BY <1>5, <1>6 DEF L!Finish
  <2> QED BY <1>2, <1>3, <1>4, <2>1, IdleOK, OneCommand, ZenonT(30)
<1>7. CASE cmd' = [cmd EXCEPT ![c].at = "reading"]
  <2>1. PICK r : r = [cmd[c] EXCEPT !.at = "reading"]  BY ZenonT(30)
  <2>2. cmd' = [cmd EXCEPT ![c] = r]  BY <1>5, <1>7, <2>1
  <2>3. /\ DOMAIN r = {"kind", "at", "server", "got", "held"} /\ r.at = "reading"
        /\ r.held = cmd[c].held /\ r.got = cmd[c].got /\ r.server = cmd[c].server
    BY <1>5, <2>1 DEF CommandOK
  <2>4. Kept(r.held)  BY <1>5, <2>3 DEF CommandOK
  <2> QED BY <1>2, <1>3, <1>4, <2>2, <2>3, <2>4, MovesOn, ZenonT(30)
<1>8. CASE L!runLogout(c)
  <2>1. PICK s \in Servers :
          cmd' = [cmd EXCEPT ![c] = [L!Idle EXCEPT !.kind = "logout", !.at = "reading", !.server = s]]
    BY <1>8, ZenonT(30) DEF L!runLogout
  <2>2. PICK r : r = [L!Idle EXCEPT !.kind = "logout", !.at = "reading", !.server = s]  OBVIOUS
  <2>3. /\ DOMAIN r = {"kind", "at", "server", "got", "held"} /\ r.at = "reading"
        /\ r.held = [t \in Servers |-> 0] /\ r.got = 0
    BY <2>2 DEF L!Idle
  <2>4. Kept(r.held)  BY <2>3 DEF Kept
  <2>5. cmd' = [cmd EXCEPT ![c] = r]  BY <2>1, <2>2
  <2> QED BY <1>2, <1>3, <1>4, <2>3, <2>4, <2>5, MovesOn, ZenonT(30)
<1>9. CASE \E at \in {"ending", "writing"} : cmd' = [cmd EXCEPT ![c].at = at, ![c].held = file]
  <2>1. PICK at \in {"ending", "writing"} : cmd' = [cmd EXCEPT ![c].at = at, ![c].held = file]  BY <1>9, ZenonT(30)
  <2>2. PICK r : r = [cmd[c] EXCEPT !.at = at, !.held = file]  OBVIOUS
  <2>3. cmd' = [cmd EXCEPT ![c] = r]  BY <1>5, <2>1, <2>2, ZenonT(30)
  <2>4. /\ DOMAIN r = {"kind", "at", "server", "got", "held"} /\ r.at # "waiting"
        /\ r.held = file /\ r.got = cmd[c].got /\ r.server = cmd[c].server
    BY <1>5, <2>2 DEF CommandOK
  <2>5. Kept(r.held)  BY <1>5, <2>4
  <2> QED BY <1>2, <1>3, <1>4, <2>3, <2>4, <2>5, MovesOn, ZenonT(30)
<1> QED BY <1>6, <1>7, <1>8, <1>9, SMTT(30), ZenonT(30) DEF L!Try, L!readSessions, L!Interrupted

\* A session is ended, or runs out.
LEMMA MarkSessions ==
  ASSUME LoginInv, NEW i,
         opened' = [opened EXCEPT ![i].ended = TRUE] \/ opened' = [opened EXCEPT ![i].expired = TRUE]
  PROVE  /\ Numbered' /\ Stay /\ \A d : Own(d)
         /\ opened' = [opened EXCEPT ![i].ended = TRUE] =>
              \A j \in DOMAIN opened : opened'[j].expired = opened[j].expired
<1>1. Numbered  BY DEF LoginInv
<1>2. DOMAIN opened' = DOMAIN opened  OBVIOUS
<1>3. ASSUME NEW j \in DOMAIN opened
      PROVE  /\ DOMAIN opened'[j] = {"server", "key", "fresh", "ended", "expired"}
             /\ opened'[j].server = opened[j].server /\ opened'[j].key = opened[j].key
             /\ opened'[j].fresh = opened[j].fresh
             /\ opened' = [opened EXCEPT ![i].ended = TRUE] => opened'[j].expired = opened[j].expired
  BY <1>1 DEF Numbered
<1>4. Numbered'  BY <1>1, <1>2, <1>3 DEF Numbered
<1>5. Stay  BY <1>2, <1>3 DEF Stay
<1>6. \A d : Own(d)  BY <1>2, <1>3 DEF Own, L!Opens
<1> QED BY <1>3, <1>4, <1>5, <1>6

\* A logout asks the server to end the session.
LEMMA EndKeeps == ASSUME LoginInv, NEW c \in Commands, L!DeleteSession(c) PROVE LoginInv'
<1>1. cmd' = [cmd EXCEPT ![c].at = "writing"] /\ UNCHANGED <<file, used>>  BY DEF L!DeleteSession
<1>2. opened' = opened \/ \E i : opened' = [opened EXCEPT ![i].ended = TRUE]  BY DEF L!DeleteSession
<1>3. /\ Numbered' /\ Stay /\ \A d : Own(d)
      /\ \A j \in DOMAIN opened : opened'[j].expired = opened[j].expired
  BY <1>2, SameSessions, MarkSessions
<1>4. Kept(file)'  BY <1>1, <1>3, KeptFile
<1>5. UsedOK'  BY <1>1, <1>3, SameUsed
<1>6. CommandOK(c) /\ DOMAIN cmd = Commands  BY DEF LoginInv
<1>7. PICK r : r = [cmd[c] EXCEPT !.at = "writing"]  BY ZenonT(30)
<1>8. cmd' = [cmd EXCEPT ![c] = r]  BY <1>1, <1>6, <1>7
<1>9. /\ DOMAIN r = {"kind", "at", "server", "got", "held"} /\ r.at = "writing"
      /\ r.held = cmd[c].held /\ r.got = cmd[c].got /\ r.server = cmd[c].server
  BY <1>6, <1>7 DEF CommandOK
<1>10. Kept(r.held)  BY <1>6, <1>9 DEF CommandOK
<1> QED BY <1>3, <1>4, <1>5, <1>8, <1>9, <1>10, MovesOn, ZenonT(30)

\* What a login or a logout writes is what it read with its own entry changed.
LEMMA WrittenIs ==
  ASSUME LoginInv, NEW c \in Commands, L!writeSessions(c), NEW s \in Servers
  PROVE  /\ DOMAIN file' = Servers
         /\ file'[s] \in {0, cmd[c].held[s], cmd[c].got}
         /\ s # cmd[c].server /\ L!Live(cmd[c].held[s]) => file'[s] = cmd[c].held[s]
         /\ file'[s] = cmd[c].got /\ file'[s] # cmd[c].held[s] /\ file'[s] # 0 => s = cmd[c].server
<1>1. PICK h : h = L!Changed(c)  OBVIOUS
<1>2. file' = [t \in Servers |-> IF L!Live(h[t]) THEN h[t] ELSE 0]  BY <1>1 DEF L!writeSessions
<1>3. DOMAIN cmd[c].held = Servers  BY DEF LoginInv, CommandOK, Kept
<1>4. /\ s # cmd[c].server => h[s] = cmd[c].held[s]
      /\ s = cmd[c].server => h[s] \in {0, cmd[c].got}
  BY <1>1, <1>3 DEF L!Changed
<1>5. DOMAIN file' = Servers /\ file'[s] = IF L!Live(h[s]) THEN h[s] ELSE 0  BY <1>2
<1> QED BY <1>4, <1>5

\* The file is written with what the command read and its own entry.
LEMMA WriteKeepsOwn == ASSUME LoginInv, NEW c \in Commands, L!writeSessions(c) PROVE LoginInv'
<1>1. cmd' = L!Finish(c) /\ UNCHANGED <<opened, used>>  BY DEF L!writeSessions
<1>2. Numbered' /\ Stay /\ \A d : Own(d)  BY <1>1, SameSessions
<1>3. UsedOK'  BY <1>1, <1>2, SameUsed
<1>4. CommandOK(c)  BY DEF LoginInv
<1>5. ASSUME NEW s \in Servers, file'[s] # 0 PROVE file'[s] \in DOMAIN opened /\ opened[file'[s]].server = s
  <2>1. CASE file'[s] = cmd[c].held[s]  BY <1>4, <1>5, <2>1 DEF CommandOK, Kept
  <2>2. CASE file'[s] # cmd[c].held[s]
    <3>1. file'[s] = cmd[c].got /\ s = cmd[c].server  BY <1>5, <2>2, WrittenIs
    <3> QED BY <1>4, <1>5, <3>1 DEF CommandOK
  <2> QED BY <2>1, <2>2
<1>6. DOMAIN file' = Servers
  BY DEF L!writeSessions
<1>7. Kept(file)'  BY <1>1, <1>5, <1>6 DEF Kept
<1>8. cmd' = [cmd EXCEPT ![c] = L!Idle] /\ cmd'[c] = L!Idle  BY <1>1 DEF L!Finish, LoginInv
<1> QED BY <1>2, <1>3, <1>7, <1>8, IdleOK, OneCommand, ZenonT(30)

\* Every step keeps the invariant.
LEMMA LoginStep == LoginInv /\ [L!Next]_L!vars => LoginInv'
<1> SUFFICES ASSUME LoginInv, [L!Next]_L!vars PROVE LoginInv'
  OBVIOUS
<1>1. CASE UNCHANGED L!vars
  <2>1. UNCHANGED <<file, cmd, opened, used>>  BY <1>1 DEF L!vars
  <2>2. Numbered' /\ Stay /\ \A d : Own(d)  BY <2>1, SameSessions
  <2>3. Kept(file)' /\ UsedOK'  BY <2>1, <2>2, KeptFile, SameUsed
  <2> QED BY <2>1, <2>2, <2>3, CommandsStay
<1>2. ASSUME NEW c \in Commands, L!SignedIn(c) PROVE LoginInv'
  <2>1. opened' = L!Opened(c, TRUE) /\ UNCHANGED <<file, cmd, used>>  BY <1>2 DEF L!SignedIn
  <2>2. /\ Numbered' /\ Stay /\ \A d : Own(d)
        /\ \A i \in DOMAIN opened : opened'[i].expired = opened[i].expired
    BY <2>1, OneMore, ZenonT(30)
  <2>3. Kept(file)' /\ UsedOK'  BY <2>1, <2>2, KeptFile, SameUsed, ZenonT(30)
  <2> QED BY <2>1, <2>2, <2>3, CommandsStay
<1>3. ASSUME NEW c \in Commands, L!dial(c) PROVE LoginInv'
  <2>1. UNCHANGED <<file, cmd, opened>>  BY <1>3 DEF L!dial
  <2>2. Numbered' /\ Stay /\ \A d : Own(d)  BY <2>1, SameSessions
  <2>3. Kept(file)'  BY <2>1, <2>2, KeptFile
  <2>4. PICK s \in Servers :
          \/ used' = [server |-> 0, session |-> 0]
          \/ L!sessionAt(s) # 0 /\ used' = [server |-> s, session |-> L!sessionAt(s)]
    BY <1>3 DEF L!dial
  <2>5. L!sessionAt(s) # 0 => /\ L!sessionAt(s) = file[s] /\ file[s] \in DOMAIN opened
                             /\ opened[file[s]].expired = FALSE /\ opened[file[s]].server = s
    BY DEF L!sessionAt, L!Live, L!Sessions, LoginInv, Kept
  <2>6. UsedOK'  BY <2>1, <2>4, <2>5 DEF UsedOK
  <2> QED BY <2>1, <2>2, <2>3, <2>6, CommandsStay
<1>4. ASSUME NEW i \in L!Sessions, L!Expire(i) PROVE LoginInv'
  <2>1. /\ opened' = [opened EXCEPT ![i].expired = TRUE] /\ UNCHANGED <<file, cmd>>
        /\ used' = [server |-> 0, session |-> 0]
    BY <1>4 DEF L!Expire
  <2>2. Numbered' /\ Stay /\ \A d : Own(d)  BY <2>1, MarkSessions, ZenonT(30)
  <2>3. Kept(file)'  BY <2>1, <2>2, KeptFile
  <2>4. UsedOK'  BY <2>1 DEF UsedOK
  <2> QED BY <2>1, <2>2, <2>3, <2>4, CommandsStay
<1> QED BY <1>1, <1>2, <1>3, <1>4, LoginBegins, DirectoryKeeps, ArriveKeeps, QuietKeeps, EndKeeps,
           WriteKeepsOwn DEF L!Next

\* No command has begun, and nothing is kept.
LEMMA LoginStart == L!Init => LoginInv
<1> SUFFICES ASSUME L!Init PROVE LoginInv
  OBVIOUS
<1>1. DOMAIN opened = 1 .. 0  BY DEF L!Init
<1>2. Numbered  BY <1>1 DEF Numbered
<1>3. Kept(file) /\ UsedOK  BY DEF L!Init, Kept, UsedOK
<1>4. DOMAIN cmd = Commands /\ \A c \in Commands : cmd[c] = L!Idle  BY DEF L!Init
<1>5. /\ DOMAIN L!Idle = {"kind", "at", "server", "got", "held"}
      /\ L!Idle.at = "idle" /\ L!Idle.got = 0 /\ L!Idle.held = [s \in Servers |-> 0]
  BY DEF L!Idle
<1>6. Kept([s \in Servers |-> 0])  BY DEF Kept
<1>7. \A c \in Commands : CommandOK(c)  BY <1>4, <1>5, <1>6 DEF CommandOK
<1> QED BY <1>2, <1>3, <1>4, <1>7 DEF LoginInv

\* Whatever tabs come back to the port, whichever commands run side by side and
\* however they end, what the file keeps for a server was opened there, and no command
\* sends a session to another server or after it has run out (cli/login.go
\* awaitBrowser; cli/sessions.go writeSessions, sessionAt).
THEOREM KeptOwn == L!Spec => []L!KeptIsItsOwn
<1>1. LoginInv => L!KeptIsItsOwn
  BY DEF LoginInv, Kept, UsedOK, L!KeptIsItsOwn, L!Live, L!Sessions
<1> QED BY <1>1, LoginStart, LoginStep, PTL DEF L!Spec

\* A command behind whose back nobody wrote holds the file as it is.
HeldInv ==
    \A c \in Commands : L!Rewriting(c) /\ c \notin passed => cmd[c].held = file

\* Nothing those that rewrite the file rely on changes.
LEMMA HeldStays ==
  ASSUME HeldInv, UNCHANGED file,
         \A c \in Commands : L!Rewriting(c)' => /\ L!Rewriting(c) /\ cmd'[c].held = cmd[c].held
                                              /\ (c \in passed => c \in passed')
  PROVE  HeldInv'
BY DEF HeldInv

\* Every step keeps it: who wrote has overtaken everybody else that had read.
LEMMA HeldStep == LoginInv /\ HeldInv /\ [L!Next]_L!vars => HeldInv'
<1> SUFFICES ASSUME LoginInv, HeldInv, [L!Next]_L!vars PROVE HeldInv'
  OBVIOUS
<1>1. /\ DOMAIN cmd = Commands
      /\ \A c \in Commands : DOMAIN cmd[c] = {"kind", "at", "server", "got", "held"}
  BY DEF LoginInv, CommandOK
<1>2. L!Idle.at = "idle"  BY DEF L!Idle
<1>3. CASE UNCHANGED <<file, cmd, passed>>  BY <1>3, HeldStays DEF L!Rewriting
<1>4. ASSUME NEW c \in Commands, NEW r, cmd' = [cmd EXCEPT ![c] = r], UNCHANGED file,
             \A d \in Commands \ {c} : d \in passed => d \in passed', r.at \notin {"ending", "writing"}
      PROVE  HeldInv'
  BY <1>1, <1>4, HeldStays DEF L!Rewriting
<1>5. ASSUME NEW c \in Commands, cmd' = L!Finish(c), UNCHANGED file,
             \A d \in Commands \ {c} : d \in passed => d \in passed'
      PROVE  HeldInv'
  BY <1>2, <1>4, <1>5, ZenonT(30) DEF L!Finish
<1>6. ASSUME NEW c \in Commands, NEW at, NEW i, at \notin {"ending", "writing"}, UNCHANGED <<file, passed>>,
             cmd' = [cmd EXCEPT ![c].at = at] \/ cmd' = [cmd EXCEPT ![c].at = at, ![c].got = i]
      PROVE  HeldInv'
  <2>1. PICK r : r = cmd'[c]  OBVIOUS
  <2>2. r.at = at /\ cmd' = [cmd EXCEPT ![c] = r]  BY <1>1, <1>6, <2>1
  <2> QED BY <1>4, <1>6, <2>2, ZenonT(30)
<1>7. ASSUME NEW c \in Commands, L!runLogin(c) \/ L!runLogout(c) PROVE HeldInv'
  <2>1. UNCHANGED <<file, passed>>  BY <1>7, ZenonT(30) DEF L!runLogin, L!runLogout
  <2>2. CASE L!runLogin(c)
    <3>1. PICK s \in Servers, at \in L!pickSignInProvider :
            cmd' = [cmd EXCEPT ![c] = [L!Idle EXCEPT !.kind = "login", !.at = at, !.server = s]]
      BY <2>2, ZenonT(30) DEF L!runLogin
    <3>2. PICK r : r = [L!Idle EXCEPT !.kind = "login", !.at = at, !.server = s]  OBVIOUS
    <3>3. r.at \in {"asking", "waiting"}  BY <3>2 DEF L!Idle, L!pickSignInProvider
    <3> QED BY <1>4, <2>1, <3>1, <3>2, <3>3, ZenonT(30)
  <2>3. CASE L!runLogout(c)
    <3>1. PICK s \in Servers :
            cmd' = [cmd EXCEPT ![c] = [L!Idle EXCEPT !.kind = "logout", !.at = "reading", !.server = s]]
      BY <2>3, ZenonT(30) DEF L!runLogout
    <3>2. PICK r : r = [L!Idle EXCEPT !.kind = "logout", !.at = "reading", !.server = s]  OBVIOUS
    <3>3. r.at = "reading"  BY <3>2 DEF L!Idle
    <3> QED BY <1>4, <2>1, <3>1, <3>2, <3>3, ZenonT(30)
  <2> QED BY <1>7, <2>2, <2>3, SMTT(30), ZenonT(30)
<1>8. ASSUME NEW c \in Commands, L!loginToDirectory(c) \/ L!Arrive(c) \/ L!Try(c) PROVE HeldInv'
  <2>1. UNCHANGED <<file, passed>>  BY <1>8, ZenonT(30) DEF L!loginToDirectory, L!Arrive, L!Try
  <2>2. \/ cmd' = L!Finish(c)
        \/ \E i : cmd' = [cmd EXCEPT ![c].at = "trying", ![c].got = i]
        \/ cmd' = [cmd EXCEPT ![c].at = "reading"]
    BY <1>8, ZenonT(30) DEF L!loginToDirectory, L!Arrive, L!Try
  <2> QED BY <1>5, <1>6, <2>1, <2>2
<1>9. ASSUME NEW c \in Commands, L!Interrupted(c) PROVE HeldInv'
  BY <1>5, <1>9 DEF L!Interrupted
<1>10. ASSUME NEW c \in Commands, L!readSessions(c) PROVE HeldInv'
  <2>1. UNCHANGED <<file, passed>>  BY <1>10 DEF L!readSessions
  <2>2. CASE \E at \in {"ending", "writing"} : cmd' = [cmd EXCEPT ![c].at = at, ![c].held = file]
    <3>1. /\ cmd'[c].held = file
          /\ \A d \in Commands \ {c} : cmd'[d] = cmd[d]
      BY <1>1, <2>2
    <3> QED BY <2>1, <3>1 DEF HeldInv, L!Rewriting
  <2> QED BY <1>5, <1>10, <2>1, <2>2, ZenonT(30) DEF L!readSessions
<1>11. ASSUME NEW c \in Commands, L!DeleteSession(c) PROVE HeldInv'
  <2>1. L!Rewriting(c) /\ cmd' = [cmd EXCEPT ![c].at = "writing"] /\ UNCHANGED <<file, passed>>
    BY <1>11 DEF L!DeleteSession, L!Rewriting
  <2>2. cmd'[c].held = cmd[c].held /\ \A d \in Commands \ {c} : cmd'[d] = cmd[d]  BY <1>1, <2>1
  <2> QED BY <2>1, <2>2, HeldStays DEF L!Rewriting
<1>12. ASSUME NEW c \in Commands, L!writeSessions(c) PROVE HeldInv'
  <2>1. cmd' = L!Finish(c) /\ passed' = L!Overtaken(c)  BY <1>12 DEF L!writeSessions
  <2>2. cmd'[c] = L!Idle /\ \A d \in Commands \ {c} : cmd'[d] = cmd[d]  BY <1>1, <2>1 DEF L!Finish
  <2>3. \A d \in Commands : L!Rewriting(d)' => d # c /\ L!Rewriting(d)  BY <1>2, <2>2 DEF L!Rewriting
  <2> QED BY <2>1, <2>3 DEF HeldInv, L!Overtaken
<1>13. ASSUME NEW c \in Commands, L!SignedIn(c) \/ L!dial(c) PROVE UNCHANGED <<file, cmd, passed>>
  BY <1>13, ZenonT(30) DEF L!SignedIn, L!dial
<1>14. ASSUME NEW i, L!Expire(i) PROVE UNCHANGED <<file, cmd, passed>>  BY <1>14 DEF L!Expire
<1>15. UNCHANGED L!vars => UNCHANGED <<file, cmd, passed>>  BY DEF L!vars
<1> QED BY <1>3, <1>7, <1>8, <1>9, <1>10, <1>11, <1>12, <1>13, <1>14, <1>15 DEF L!Next

\* However many logins and logouts rewrite the file at once, each changes the entry of
\* its own server, drops what has run out and leaves every other entry as it is, unless
\* another has rewritten the file since it read it, and then it puts back what it had
\* read (cli/login.go runLogin, runLogout; cli/sessions.go writeSessions).
THEOREM OthersKept == L!Spec => [][L!KeepsTheRest]_L!vars
<1>1. L!Init => HeldInv
  <2>1. L!Idle.at = "idle"  BY DEF L!Idle
  <2> QED BY <2>1 DEF L!Init, HeldInv, L!Rewriting
<1>2. LoginInv /\ HeldInv /\ [L!Next]_L!vars => [L!KeepsTheRest]_L!vars
  <2> SUFFICES ASSUME LoginInv, HeldInv, L!Next, NEW s \in Servers, file'[s] # file[s]
               PROVE  \E c \in Commands :
                        /\ cmd[c].at = "writing" /\ cmd'[c] = L!Idle
                        /\ \/ cmd[c].server = s
                           \/ ~L!Live(file[s]) /\ file'[s] = 0
                           \/ c \in passed /\ file'[s] \in {0, cmd[c].held[s]}
    BY SMTT(30), ZenonT(30) DEF L!KeepsTheRest
  <2>1. PICK c \in Commands : L!writeSessions(c)
    BY ZenonT(30) DEF L!Next, L!runLogin, L!loginToDirectory, L!SignedIn, L!Arrive, L!Try, L!runLogout,
           L!readSessions, L!DeleteSession, L!dial, L!Interrupted, L!Expire
  <2>2. cmd[c].at = "writing" /\ cmd' = L!Finish(c)  BY <2>1 DEF L!writeSessions
  <2>3. cmd'[c] = L!Idle  BY <2>2 DEF L!Finish, LoginInv
  <2>4. cmd[c].server # s => file'[s] \in {0, cmd[c].held[s]}  BY <2>1, WrittenIs
  <2>5. cmd[c].server # s /\ L!Live(cmd[c].held[s]) => file'[s] = cmd[c].held[s]  BY <2>1, WrittenIs
  <2>6. c \notin passed => cmd[c].held = file  BY <2>2 DEF HeldInv, L!Rewriting
  <2>7. CASE cmd[c].server # s /\ c \notin passed
    <3>1. ~L!Live(file[s]) /\ file'[s] = 0  BY <2>4, <2>5, <2>6, <2>7
    <3> QED BY <2>2, <2>3, <3>1
  <2>8. CASE cmd[c].server # s /\ c \in passed  BY <2>2, <2>3, <2>4, <2>8
  <2>9. CASE cmd[c].server = s  BY <2>2, <2>3, <2>9
  <2> QED BY <2>7, <2>8, <2>9
<1> QED BY <1>1, <1>2, LoginStart, LoginStep, HeldStep, PTL DEF L!Spec

================================================================================
