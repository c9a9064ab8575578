------------------------------ MODULE Providers ------------------------------
(***************************************************************************)
(* The identity providers: one list, read and written whole, changed by    *)
(* people who look at it first.  `weg idp set` fetches a provider, applies *)
(* its flags to the copy and sends the copy back; the secret is not in the *)
(* copy, and the server keeps its own where that is right.                 *)
(*                                                                         *)
(* An account is an issuer and a client ID, or a URL and a bind DN.  A     *)
(* secret is named by the account it was typed for.                        *)
(***************************************************************************)
EXTENDS Integers, Sequences, FiniteSets, SequencesExt

CONSTANTS
    Clients,        \* people, each with one command under way
    Names,          \* what a provider may be called, compared without case
    Hosts,          \* issuers or directories
    Users,          \* client IDs or bind DNs at them
    Anonymous,      \* a member of Users: no bind DN, which needs no password
    MaxProviders    \* how many are ever made

VARIABLES
    list,       \* the identity_providers setting
    made,       \* identifiers minted so far
    copies,     \* client -> the provider it looked at, or Nothing
    asked,      \* client -> the change it sent, or Nothing
    planned,    \* client -> the list its change worked out, or Nothing
    holder,     \* who holds idpLock
    tried       \* the draft a check reached out with last, or Nothing

vars == <<list, made, copies, asked, planned, holder, tried>>

Nothing == [id |-> 0]
Nobody == "nobody"
NoSecret == <<>>
Accounts == Hosts \X Users

Init ==
    /\ list = <<>>
    /\ made = 0
    /\ copies = [c \in Clients |-> Nothing]
    /\ asked = [c \in Clients |-> Nothing]
    /\ planned = [c \in Clients |-> <<Nothing>>]
    /\ holder = Nobody
    /\ tried = Nothing

Inputs ==
    [name : Names, kind : {"oidc", "ldap"}, account : Accounts, typed : BOOLEAN]

\* A provider as a client sends it.  What is typed is typed for the account
\* beside it.
providerFromAPI(in) ==
    [id |-> 0, name |-> in.name, kind |-> in.kind, account |-> in.account,
     secret |-> IF in.typed THEN in.account ELSE NoSecret]

\* A provider as it is shown.
providerToAPI(p) == [p EXCEPT !.secret = NoSecret]

Position(id) == IF \E i \in 1..Len(list) : list[i].id = id
                THEN CHOOSE i \in 1..Len(list) : list[i].id = id ELSE 0

\* Mutant: a secret follows the client ID to another host.
keepSecretsOfUser(p, old) ==
    IF p.secret = NoSecret /\ p.account[2] = old.account[2]
    THEN [p EXCEPT !.secret = old.secret] ELSE p

keepSecrets(p, old) ==
    IF p.secret = NoSecret /\ p.account = old.account
    THEN [p EXCEPT !.secret = old.secret] ELSE p

validateSettings(p) ==
    p.secret # NoSecret \/ (p.kind = "ldap" /\ p.account[2] = Anonymous)

validate(p, others) ==
    /\ \A i \in 1..Len(others) : others[i].name # p.name
    /\ validateSettings(p)

-----------------------------------------------------------------------------
(* What a change makes of the list, or Refused.                            *)

Refused == <<Nothing>>

CreateIdentityProvider(p) ==
    LET q == [p EXCEPT !.id = made + 1]
    IN  IF validate(q, list) THEN Append(list, q) ELSE Refused

UpdateIdentityProvider(pid, p) ==
    LET i == Position(pid)
        q == keepSecrets([p EXCEPT !.id = pid], list[i])
    IN  IF i # 0 /\ p.kind = list[i].kind /\ validate(q, RemoveAt(list, i))
        THEN [list EXCEPT ![i] = q] ELSE Refused

DeleteIdentityProvider(pid) ==
    IF Position(pid) = 0 THEN Refused ELSE RemoveAt(list, Position(pid))

Changed(a) ==
    CASE a.op = "create" -> CreateIdentityProvider(a.with)
      [] a.op = "update" -> UpdateIdentityProvider(a.id, a.with)
      [] a.op = "delete" -> DeleteIdentityProvider(a.id)

\* Read the list under the lock and work out the next; a refused change is
\* answered.
changeProviders(c) ==
    /\ asked[c] # Nothing
    /\ holder = Nobody
    /\ planned' = [planned EXCEPT ![c] = Changed(asked[c])]
    /\ IF Changed(asked[c]) = Refused
       THEN asked' = [asked EXCEPT ![c] = Nothing] /\ UNCHANGED holder
       ELSE holder' = c /\ UNCHANGED asked
    /\ UNCHANGED <<list, made, copies, tried>>

\* What reaches every node is the finished list.
submit(c, written) ==
    /\ planned[c] # Refused
    /\ list' = IF written THEN planned[c] ELSE list
    /\ made' = IF asked[c].op = "create" THEN made + 1 ELSE made
    /\ planned' = [planned EXCEPT ![c] = Refused]
    /\ asked' = [asked EXCEPT ![c] = Nothing]
    /\ holder' = Nobody
    /\ UNCHANGED <<copies, tried>>

-----------------------------------------------------------------------------
(* The commands.                                                           *)

Idle(c) == asked[c] = Nothing

Send(c, op, pid, p) ==
    /\ asked' = [asked EXCEPT ![c] = [op |-> op, id |-> pid, with |-> p]]
    /\ copies' = [copies EXCEPT ![c] = Nothing]
    /\ UNCHANGED <<list, made, planned, holder, tried>>

newIDPAddCommand(c, in) ==
    /\ Idle(c)
    /\ made + Cardinality({d \in Clients : asked[d] # Nothing}) < MaxProviders
    /\ Send(c, "create", 0, providerFromAPI(in))

\* The name a command was given, resolved in the list as it is now.
pickIDP(c, name) ==
    /\ Idle(c)
    /\ \E i \in 1..Len(list) :
           list[i].name = name /\ copies' = [copies EXCEPT ![c] = providerToAPI(list[i])]
    /\ UNCHANGED <<list, made, asked, planned, holder, tried>>

\* The copy with the account and the secret of the flags, where given.
inputOf(p, account, typed) ==
    [p EXCEPT !.account = account, !.secret = IF typed THEN account ELSE NoSecret]

newIDPSetCommand(c, account, typed) ==
    /\ Idle(c)
    /\ copies[c] # Nothing
    /\ Send(c, "update", copies[c].id, inputOf(copies[c], account, typed))

\* Asked first, unless told not to: the list may have moved on.
newIDPRemoveCommand(c) ==
    /\ Idle(c)
    /\ copies[c] # Nothing
    /\ Send(c, "delete", copies[c].id, copies[c])

\* A provider as it would stand if it were saved, over the stored one by this
\* identifier where there is one.  The name is not looked at.
DraftIdentityProvider(pid, p) ==
    IF pid = 0 THEN p ELSE keepSecrets([p EXCEPT !.id = pid], list[Position(pid)])

\* --dry-run: what is tried is reached for, and nothing is written.
tryDraft(c, account, typed) ==
    LET draft == DraftIdentityProvider(copies[c].id, inputOf(copies[c], account, typed))
    IN  /\ Idle(c)
        /\ copies[c] # Nothing
        /\ Position(copies[c].id) # 0
        /\ list[Position(copies[c].id)].kind = copies[c].kind
        /\ validateSettings(draft)
        /\ tried' = draft
        /\ copies' = [copies EXCEPT ![c] = Nothing]
        /\ UNCHANGED <<list, made, asked, planned, holder>>

Next ==
    \E c \in Clients :
        \/ \E in \in Inputs : newIDPAddCommand(c, in)
        \/ \E name \in Names : pickIDP(c, name)
        \/ \E account \in Accounts, typed \in BOOLEAN :
               newIDPSetCommand(c, account, typed) \/ tryDraft(c, account, typed)
        \/ newIDPRemoveCommand(c)
        \/ changeProviders(c)
        \/ \E written \in BOOLEAN : submit(c, written)

Spec == Init /\ [][Next]_vars

-----------------------------------------------------------------------------
TypeOK ==
    /\ made \in 0..MaxProviders
    /\ Len(list) <= made
    /\ holder \in Clients \cup {Nobody}

\* A secret is only ever used with the account it was typed for, whoever
\* changes the provider meanwhile and however old the copy is that a command
\* sends back; and no two providers share a name (IdentityProvider.keepSecrets,
\* apply.changeProviders).
SecretStaysHome ==
    /\ \A i \in 1..Len(list) : list[i].secret \in {NoSecret, list[i].account}
    /\ tried # Nothing => tried.secret \in {NoSecret, tried.account}
    /\ \A i, j \in 1..Len(list) : list[i].name = list[j].name => i = j
=============================================================================
