------------------------------ MODULE Contents -------------------------------
(***************************************************************************)
(* What zones hold: one zone through its versions, several zones as they   *)
(* are written and answered from, a zone read from a file and written to   *)
(* one, and the texts a zone, a setting and a question are made of.  The   *)
(* parts share no state; each behaviour is a behaviour of one of them with *)
(* the others as they start.                                               *)
(***************************************************************************)
EXTENDS Serial, TLC

CONSTANTS
    Keys, TTLs, Params, First, Ballast, MaxCommits, MaySwitchOff,   \* History
    MaxRecords, MaxChain,                                           \* Answers
    Inputs,                                                         \* Names
    MappedPrefixes, FileHidden                                      \* Settings

VARIABLES
    part,   \* which of them runs
    zone, journal, hooks, tree, transfer, secondary, was,
    zones, records,
    held, soa,
    input

\* Two zones, one inside the other; names up to three labels deep, wildcards
\* beside them, and questions for names that are there and that are not.
Apexes == {<<>>, <<"a", "a">>}
Names == Apexes \cup {<<"a">>, <<"*">>, <<"a", "*">>, <<"a", "a", "a">>}
Targets == {<<"a">>, <<"a", "a", "a">>}
Asked == Names \cup {<<"b">>, <<"a", "b">>, <<"a", "a", "b">>, <<"a", "a", "a", "a">>}

H == INSTANCE History
A == INSTANCE Answers
F == INSTANCE Files WITH MaxTTL <- 7, MaxSerial <- 15, MaxRecords <- 2, MaxLines <- 3
N == INSTANCE Names WITH MaxLabelLen <- 2, MaxNameWireLen <- 6, MaxText <- 5, Octets <- 2,
                         MaxTTL <- 7, Width <- 16
C == INSTANCE Settings WITH V4Bits <- 2, V6Bits <- 3, Keys <- {"k"}, MaxEntries <- 2

history == <<zone, journal, hooks, tree, transfer, secondary, was>>
answers == <<zones, records>>
files == <<held, soa>>
vars == <<part, history, answers, files, input>>

Init ==
    /\ H!Init
    /\ A!Init
    /\ F!Init
    /\ \/ part \in {"history", "answers", "files", "names"} /\ N!Init
       \/ part = "settings" /\ C!Init

Versions == part = "history" /\ H!Next /\ UNCHANGED <<part, answers, files, input>>
Questions == part = "answers" /\ A!Next /\ UNCHANGED <<part, history, files, input>>
ZoneFiles == part = "files" /\ F!Next /\ UNCHANGED <<part, history, answers, input>>
Texts == part = "names" /\ N!Next /\ UNCHANGED <<part, history, answers, files>>
Configured == part = "settings" /\ C!Next /\ UNCHANGED <<part, history, answers, files>>

Next == Versions \/ Questions \/ ZoneFiles \/ Texts \/ Configured

Spec == Init /\ [][Next]_vars

Sym == Permutations(Keys)

-----------------------------------------------------------------------------
\* History: a serial names what the zone held, wherever it turns up.
SerialNamesContent == part = "history" => H!SerialNamesContent


\* History: a transfer leaves the secondary at the version it was answered from.
AnswerBringsLevel == H!AnswerBringsLevel

\* Answers: a question is answered the way the canonical name search would.
AnswersAreCanonical == part = "answers" => A!AnswersAreCanonical

\* Answers: every way of checking a zone applies the same rule, and the check
\* warns of every name server that would be denied.
OneRule == part = "answers" => A!OneRule /\ A!LameIsReported

\* Names, Files and Settings: what is written out is read back as it was
\* meant.  A name keeps its text and its place, a reverse name its network, a
\* filter its reach and record data its one form; a zone goes through a file,
\* and the lists and the configuration of a server through their text.
ReadsBack ==
    /\ part = "names" => /\ N!TextRoundTrips /\ N!OrderIsCanonical /\ N!ReverseAgrees
                         /\ N!FilterIsExact /\ N!DataIsCanonical
    /\ part = "files" => F!ExportImports /\ F!RecordsInside
    /\ part = "settings" => C!ListsMeanWhatTheySay /\ C!TargetsReadBack /\ C!ClientFindsServer
=============================================================================
