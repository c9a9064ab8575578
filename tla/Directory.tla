------------------------------ MODULE Directory ------------------------------
(***************************************************************************)
(* Signing in through a directory, and the check that says whether it will *)
(* work.  Both hold a conversation with the directory over one connection, *)
(* which is bound as somebody, and what a search finds depends on whom.    *)
(***************************************************************************)
EXTENDS Integers, FiniteSets, FiniteSetsExt

CONSTANTS
    Groups,             \* what a person may be in
    Granted,            \* the scopes a mapping may grant, "none" for no mapping
    AnonymousSearch     \* whether groups may be searched for with no bind DN

Scopes == {"none", "read", "write", "admin"}
rank == [none |-> 0, read |-> 1, write |-> 2, admin |-> 3]
Binders == {"nobody", "service", "person"}

VARIABLES
    provider,   \* the settings: bind DN or not, where groups are read, the mappings
    directory,  \* what answers
    checked,    \* what the check said of the person, or "no" before it
    signedIn    \* what the last sign-in with their password came to

vars == <<provider, directory, checked, signedIn>>

Init ==
    /\ provider \in [bindDN : BOOLEAN, groups : {"memberOf", "search"}, mappings : [Groups -> Granted]]
    /\ ~provider.bindDN /\ provider.groups = "search" => AnonymousSearch
    /\ directory \in [reached : BOOLEAN,
                      accepts : BOOLEAN,                \* the bind DN and its password
                      entries : 0..2,                   \* what the user filter finds
                      people : SUBSET {"nobody", "service"},         \* who may read people
                      lists : SUBSET Binders,           \* who may read groups
                      hides : BOOLEAN,  \* others find nothing, and no error
                      in : SUBSET Groups]
    /\ checked = "not asked"
    /\ signedIn = "not asked"

-----------------------------------------------------------------------------
(* The steps of a conversation.                                            *)

dialLDAP == directory.reached

\* Whom the searches run as; with no bind DN, whoever is bound already.
asService(bound) == IF provider.bindDN THEN "service" ELSE bound
serviceAccepted == provider.bindDN => directory.accepts

\* The answer to a search, {} for an error.  Whoever may not read is refused, or
\* finds nothing where the directory hides what there is.
search(bound, readers, found, nothing) ==
    IF bound \in readers THEN {found} ELSE IF directory.hides THEN {nothing} ELSE {}

searchPerson(bound) == search(bound, directory.people, directory.entries, 0)

\* The memberOf of the entry found, or a search as whoever is bound now.
personGroups(bound) ==
    IF provider.groups = "memberOf" THEN {directory.in}
    ELSE search(bound, directory.lists, directory.in, {})

\* The strongest scope any of the groups maps to.
scopeOf(groups) ==
    LET best == Max({0} \cup {rank[provider.mappings[g]] : g \in groups})
    IN  CHOOSE s \in Scopes : rank[s] = best

\* Mutant: the groups are searched for as the person.
groupsReadAsPerson(bound) == bound

\* After the person has bound, a search for groups goes back to the service
\* account, if there is one.
groupsReadAs(bound) == IF provider.groups = "search" THEN asService(bound) ELSE bound

\* An empty name or password signs nobody in before the directory is asked.
signInToDirectory(password) ==
    LET found == searchPerson(asService("nobody"))
        groups == personGroups(groupsReadAs("person"))
    IN  CASE password = "empty" -> "not signed in"
          [] ~dialLDAP \/ ~serviceAccepted \/ found = {} -> "unavailable"
          [] found # {1} \/ password = "wrong" -> "not signed in"
          [] groups = {} -> "unavailable"
          [] OTHER -> scopeOf(UNION groups)

\* The bases are looked for before the person is, which a base that is hidden
\* passes; a step that fails ends it.
checkDirectory(named) ==
    LET bound == asService("nobody")
        refused(readers) == search(bound, readers, 1, 0) = {}
        groups == personGroups(bound)
    IN  CASE ~dialLDAP \/ ~serviceAccepted -> "failed"
          [] refused(directory.people) -> "failed"
          [] provider.groups = "search" /\ refused(directory.lists) -> "failed"
          [] ~named -> "works"
          [] searchPerson(bound) # {1} \/ groups = {} -> "failed"
          [] OTHER -> scopeOf(UNION groups)

CheckIdentityProvider(named) ==
    /\ checked' = checkDirectory(named)
    /\ UNCHANGED <<provider, directory, signedIn>>

CreateDirectorySession(password) ==
    /\ signedIn' = signInToDirectory(password)
    /\ UNCHANGED <<provider, directory, checked>>

\* The person joins or leaves a group upstream.
Regroup(groups) ==
    /\ directory' = [directory EXCEPT !.in = groups]
    /\ checked' = "not asked"
    /\ signedIn' = "not asked"
    /\ UNCHANGED provider

Next ==
    \/ \E named \in BOOLEAN : CheckIdentityProvider(named)
    \/ \E password \in {"empty", "wrong", "right"} : CreateDirectorySession(password)
    \/ \E groups \in SUBSET Groups : Regroup(groups)

Spec == Init /\ [][Next]_vars

-----------------------------------------------------------------------------
TypeOK ==
    /\ checked \in Scopes \cup {"not asked", "failed", "works"}
    /\ signedIn \in Scopes \cup {"not asked", "unavailable", "not signed in"}

\* What the check says somebody would sign in with is what they do sign in
\* with: the two ask the directory as the same account at every step
\* (api.checkDirectory, api.signInToDirectory).
CheckForetells ==
    checked \in Scopes => signedIn \in {checked, "not signed in", "not asked"}
=============================================================================
