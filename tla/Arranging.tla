------------------------------ MODULE Arranging ------------------------------
(***************************************************************************)
(* Arranging a secondary: the transfer keys, the lists of who may transfer *)
(* a zone and who is told of a change, the configuration written for the   *)
(* other end, and what the two servers then say to each other.             *)
(*                                                                         *)
(* The configuration is written once and used for as long as it works,     *)
(* while operators rotate keys and edit the lists.  A key is withdrawn in  *)
(* two steps, by a command that looks its name up first.  What is stored   *)
(* is taken to be published; Publisher is about the time in between.       *)
(***************************************************************************)
EXTENDS Integers, FiniteSets

CONSTANTS
    KeyNames, Zones, Far, Other,    \* Far is the secondary's address
    Operators, NoName, MaxKeys

VARIABLES
    ring,       \* key name -> the key that signs under it, 0 for none
    made,       \* keys created
    picked,     \* operator -> the key looked up and to be withdrawn, or NoPick
    allow,      \* the stored transfer list, entries as a client writes them
    notify,     \* the stored notify list
    served,     \* the zones that are not switched off
    file        \* the configuration the secondary runs, or NoFile

vars == <<ring, made, picked, allow, notify, served, file>>

NoFile == [key |-> 0]
NoPick == [key |-> 0, name |-> NoName]
Nowhere == "nowhere"    \* no address of a secondary was given
Addresses == {Far, Other}
Entries == [is : {"address"}, at : Addresses] \cup [is : {"key"}, name : KeyNames]

Init ==
    /\ ring = [n \in KeyNames |-> 0] /\ made = 0 /\ picked = [o \in Operators |-> NoPick]
    /\ allow = {} /\ notify = {} /\ served = Zones
    /\ file = NoFile

-----------------------------------------------------------------------------
(* The lists as they are read. *)

ParseTransferAllow(text) ==
    [prefixes |-> {e.at : e \in {f \in text : f.is = "address"}},
     keys |-> {e.name : e \in {f \in text : f.is = "key"}}]
TransferAllowText(list) ==
    [is : {"address"}, at : list.prefixes] \cup [is : {"key"}, name : list.keys]
StoredTransferAllow == ParseTransferAllow(allow)

\* One entry an address; the key a notification is signed with comes after it.
ParseNotifyTargets(text) ==
    [a \in {e.at : e \in text} |-> (CHOOSE e \in text : e.at = a).key]

\* One entry that matches is enough.
MayTransfer(client, key) ==
    \/ key # NoName /\ key \in StoredTransferAllow.keys
    \/ client \in StoredTransferAllow.prefixes

-----------------------------------------------------------------------------
(* Keys. *)

\* A name signs with one key at a time; a withdrawn one leaves it free.
CreateTSIGKey(n) ==
    /\ ring[n] = 0 /\ made < MaxKeys
    /\ made' = made + 1
    /\ ring' = [ring EXCEPT ![n] = made + 1]
    /\ UNCHANGED <<picked, allow, notify, served, file>>

pickTSIGKey(o, n) ==
    /\ picked[o] = NoPick /\ ring[n] # 0
    /\ picked' = [picked EXCEPT ![o] = [key |-> ring[n], name |-> n]]
    /\ UNCHANGED <<ring, made, allow, notify, served, file>>

\* Mutant: the name that was given stops signing, whichever key it has by then.
RevokeTSIGKeyOfName(o, yes) ==
    /\ picked[o] # NoPick
    /\ picked' = [picked EXCEPT ![o] = NoPick]
    /\ ring' = IF yes THEN [ring EXCEPT ![picked[o].name] = 0] ELSE ring
    /\ file' = IF yes /\ file.key = picked[o].key THEN NoFile ELSE file
    /\ UNCHANGED <<made, allow, notify, served>>

\* By its identifier; one withdrawn already stays as it is.
RevokeTSIGKey(o, yes) ==
    /\ picked[o] # NoPick
    /\ picked' = [picked EXCEPT ![o] = NoPick]
    /\ ring' = [n \in KeyNames |-> IF yes /\ ring[n] = picked[o].key THEN 0 ELSE ring[n]]
    /\ file' = IF yes /\ file.key = picked[o].key THEN NoFile ELSE file
    /\ UNCHANGED <<made, allow, notify, served>>

-----------------------------------------------------------------------------
(* What a file needs of the lists and the zones; taking it away retires    *)
(* the file.                                                               *)

Grants(list, f) == IF f.key = 0 THEN Far \in list.prefixes ELSE f.name \in list.keys
KeptIf(ok) == IF file # NoFile /\ ok THEN file ELSE NoFile

\* Each list is written whole, or left alone.
UpdateSettingsAllow(text) ==
    /\ allow' = TransferAllowText(ParseTransferAllow(text))
    /\ file' = KeptIf(Grants(ParseTransferAllow(text), file))
    /\ UNCHANGED <<ring, made, picked, notify, served>>

UpdateSettingsNotify(text) ==
    /\ notify' = text
    /\ file' = KeptIf(file.at = Nowhere
                        \/ {e \in text : e.at = Far} = {e \in notify : e.at = Far})
    /\ UNCHANGED <<ring, made, picked, allow, served>>

SwitchZone(z) ==
    /\ served' = (served \cup {z}) \ (served \cap {z})
    /\ file' = KeptIf(z \notin file.zones)
    /\ UNCHANGED <<ring, made, picked, allow, notify>>

-----------------------------------------------------------------------------
(* The configuration. *)

\* All that are served, or the ones named, which must be.
secondaryZones(named) == IF named = {} THEN served ELSE named

\* The key named, or the only one on the list; none where unsigned is asked for.
secondaryKey(signed, named) ==
    IF ~signed THEN {NoName}
    ELSE IF named # NoName THEN {named}
    ELSE IF StoredTransferAllow.keys = {} THEN {NoName}
    ELSE {n \in StoredTransferAllow.keys : Cardinality(StoredTransferAllow.keys) = 1}

\* Mutant: a key that is on no list is not warned about.
WarningsKeyTrusted(c) ==
    (IF allow = {} THEN {"nobody may transfer"} ELSE {})
        \cup (IF Far \notin DOMAIN ParseNotifyTargets(notify) THEN {"not told"} ELSE {})
        \cup (IF c.zones = {} THEN {"nothing to mirror"} ELSE {})

\* Without an address the lists are only looked at for being empty, and for the
\* key.
Warnings(c) ==
    LET list == StoredTransferAllow
        told == DOMAIN ParseNotifyTargets(notify) IN
    (IF allow = {} THEN {"nobody may transfer"}
     ELSE IF c.key # 0 /\ c.name \notin list.keys THEN {"key not on the list"}
     ELSE IF c.key = 0 /\ c.at # Nowhere /\ c.at \notin list.prefixes
       THEN {"address not on the list"}
     ELSE {})
        \cup (IF told = {} \/ (c.at # Nowhere /\ c.at \notin told) THEN {"not told"} ELSE {})
        \cup (IF c.zones = {} THEN {"nothing to mirror"} ELSE {})

\* The keys a notification may be signed with to be taken: signed with the
\* key in the file, or not signed.
renderKnot(c) == {NoName} \cup {n \in {c.name} : c.key # 0}
renderBIND(c) == {NoName, c.name}

\* The address of the secondary may be left out of the request.  Its operator
\* puts a file to use when nothing is wrong with it.
GetSecondaryConfig(format, at, signed, key, named) ==
    \E n \in secondaryKey(signed, key) :
        LET k == IF n = NoName THEN 0 ELSE ring[n]
            c == [key |-> k, name |-> n, zones |-> secondaryZones(named), at |-> at]
            takes == IF format = "knot" THEN renderKnot(c) ELSE renderBIND(c) IN
        /\ n # NoName => ring[n] # 0
        /\ named \subseteq served
        /\ Warnings(c) = {}
        /\ file' = [key |-> k, name |-> n, zones |-> c.zones, at |-> at, takes |-> takes]
        /\ UNCHANGED <<ring, made, picked, allow, notify, served>>

Lists == {text \in SUBSET [at : Addresses, key : KeyNames \cup {NoName}] :
            \A d, e \in text : d.at = e.at => d = e}

Next ==
    \/ \E n \in KeyNames : CreateTSIGKey(n) \/ \E o \in Operators : pickTSIGKey(o, n)
    \/ \E o \in Operators, yes \in BOOLEAN : RevokeTSIGKey(o, yes)
    \/ \E text \in SUBSET Entries : UpdateSettingsAllow(text)
    \/ \E text \in Lists : UpdateSettingsNotify(text)
    \/ \E z \in Zones : SwitchZone(z)
    \/ \E format \in {"bind", "knot"}, at \in {Far, Nowhere}, signed \in BOOLEAN,
          key \in KeyNames \cup {NoName}, named \in SUBSET Zones :
          GetSecondaryConfig(format, at, signed, key, named)

Spec == Init /\ [][Next]_vars

-----------------------------------------------------------------------------
(* What the two servers say to each other. *)

\* A request signed with a key that is not held, or no longer the same, is
\* refused before the list is read.
verifyTSIG(name, key) == name = NoName \/ ring[name] = key

transfer(f, z) ==
    IF ~verifyTSIG(f.name, f.key) THEN "not authorised"
    ELSE IF ~MayTransfer(Far, f.name) THEN "refused"
    ELSE IF z \notin served THEN "no such zone"
    ELSE "transferred"

\* A target whose key is not held is told unsigned.
NotifyKey(a) ==
    LET key == ParseNotifyTargets(notify)[a]
    IN  IF key # NoName /\ ring[key] = 0 THEN NoName ELSE key

-----------------------------------------------------------------------------
(***************************************************************************)
(* A configuration that was written without a warning works, as far as     *)
(* what it was written from was known: every zone of one that signs, or    *)
(* that was written for a given address, is transferred, and a             *)
(* notification to a given address is taken, where the notify list names   *)
(* no key the file was not given.  It goes on working until the key, the   *)
(* list entry or the zone it rests on is taken away itself.  Withdrawing   *)
(* another key, one of the same name that came before it, growing the      *)
(* lists or making keys does not end it (Arrangement.Warnings,             *)
(* GetSecondaryConfig, verifyTSIG, Allow.MayTransfer, RevokeTSIGKey).      *)
(* Nothing is promised of a file that neither signs nor says where its     *)
(* secondary is: the code has nothing to check the list for.               *)
(***************************************************************************)
WrittenIsServed ==
    file # NoFile =>
        /\ file.key # 0 \/ file.at # Nowhere =>
              \A z \in file.zones : transfer(file, z) = "transferred"
        /\ file.at # Nowhere /\ ParseNotifyTargets(notify)[Far] \in {NoName, file.name} =>
              NotifyKey(Far) \in file.takes
=============================================================================
