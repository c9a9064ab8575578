----------------------------- MODULE Settings -----------------------------
(***************************************************************************)
(* What an operator writes and what the server makes of it: the lists of   *)
(* addresses and keys kept as settings (apply/settings.go), stored as text *)
(* and read back by every member, and the configuration a process starts   *)
(* with (config/config.go), laid over each other from flags, environment,  *)
(* file and defaults, which a client on the same machine also consults to  *)
(* find the server.  Every input of a bounded size is asked about in turn. *)
(* Addresses have a few bits, the IPv4-mapped block being the last of the  *)
(* IPv6 ones.                                                              *)
(***************************************************************************)
EXTENDS Integers, Sequences, SequencesExt

CONSTANTS
  V4Bits, V6Bits,   \* widths of the two kinds of address, V4Bits < V6Bits
  Keys,             \* names of transfer keys
  MaxEntries,       \* bound on a list's length
  MappedPrefixes,   \* whether a prefix of IPv4-mapped addresses may be written
  FileHidden        \* whether the file may be one only the server may read

VARIABLE input     \* what is being asked about

vars == <<input>>

\* Mark an entry without a port or a prefix length, and one without a key.
None == -1
NoKey == "none"

Width(f) == IF f = 4 THEN V4Bits ELSE V6Bits
Addresses == UNION {[fam : {f}, bits : 0 .. (2 ^ Width(f)) - 1] : f \in {4, 6}}
Mapped(a) == a.fam = 6 /\ a.bits \div (2 ^ V4Bits) = (2 ^ (V6Bits - V4Bits)) - 1
Unmap(a) == IF Mapped(a) THEN [fam |-> 4, bits |-> a.bits % (2 ^ V4Bits)] ELSE a

Below(p) == 2 ^ (Width(p.addr.fam) - p.len)
Masked(p) == [p EXCEPT !.addr.bits = (@ \div Below(p)) * Below(p)]
Covers(p, a) == p.addr.fam = a.fam /\ p.addr.bits \div Below(p) = a.bits \div Below(p)

----------------------------------------------------------------------------
(* Lists of entries.  An entry's text is a blank, something unreadable, a  *)
(* key, an address with or without a port, or a prefix; a key, or something*)
(* that is not one, may follow it.                                         *)

dnsPort == 53
Ports == {dnsPort, 5353}

Entry(kind, addr, len, port, after) == [kind |-> kind, addr |-> addr, len |-> len, port |-> port, after |-> after]
Zero == [fam |-> 4, bits |-> 0]
KeyEntry(k) == Entry("key", Zero, None, None, k)

\* Mutant: an address is taken as it was written.
prefixEntryAsWritten(e) ==
  LET p == [addr |-> e.addr, len |-> IF e.kind = "addr" THEN Width(e.addr.fam) ELSE e.len]
  IN IF e.kind = "addr" \/ (e.kind = "prefix" /\ Masked(p) = p) THEN <<p>> ELSE <<>>

\* The prefix an entry means, or nothing: a bare address is the one host, bits
\* below the length are refused.
prefixEntry(e) ==
  LET p == [addr |-> e.addr, len |-> e.len]
  IN IF e.kind = "addr" THEN <<[addr |-> Unmap(e.addr), len |-> Width(Unmap(e.addr).fam)]>>
     ELSE IF e.kind = "prefix" /\ Masked(p) = p THEN <<p>>
     ELSE <<>>

Refused == [ok |-> FALSE, prefixes |-> <<>>, keys |-> <<>>]

\* What one entry of the transfer list says.
TransferEntry(e) ==
  IF e.kind = "blank" THEN [Refused EXCEPT !.ok = TRUE]
  ELSE IF e.after # NoKey THEN [ok |-> e.kind = "key" /\ e.after \in Keys, prefixes |-> <<>>, keys |-> <<e.after>>]
  ELSE [ok |-> prefixEntry(e) # <<>>, prefixes |-> prefixEntry(e), keys |-> <<>>]

ParseTransferAllow(in) ==
  LET read == [i \in DOMAIN in |-> TransferEntry(in[i])]
  IN IF \E i \in DOMAIN in : ~read[i].ok THEN Refused
     ELSE [ok |-> TRUE, prefixes |-> FlattenSeq([i \in DOMAIN in |-> read[i].prefixes]),
           keys |-> FlattenSeq([i \in DOMAIN in |-> read[i].keys])]

PrefixText(p) == Entry("prefix", p.addr, p.len, None, NoKey)

TransferAllowText(allow) ==
  [i \in DOMAIN allow.prefixes |-> PrefixText(allow.prefixes[i])] \o [i \in DOMAIN allow.keys |-> KeyEntry(allow.keys[i])]

\* The resolver list is addresses and prefixes alone.
ParseResolvers(in) ==
  LET kept == SelectSeq(in, LAMBDA e : e.kind # "blank")
  IN IF \E i \in DOMAIN kept : kept[i].after # NoKey \/ prefixEntry(kept[i]) = <<>> THEN Refused
     ELSE [ok |-> TRUE, prefixes |-> [i \in DOMAIN kept |-> prefixEntry(kept[i])[1]], keys |-> <<>>]

ResolversText(allow) == [i \in DOMAIN allow.prefixes |-> PrefixText(allow.prefixes[i])]

\* Mutant: the address is kept as it was written.
parseNotifyAddrAsWritten(e) == [addr |-> e.addr, port |-> IF e.kind = "addrport" THEN e.port ELSE dnsPort]

parseNotifyAddr(e) == [addr |-> Unmap(e.addr), port |-> IF e.kind = "addrport" THEN e.port ELSE dnsPort]

ParseNotifyTargets(in) ==
  LET kept == SelectSeq(in, LAMBDA e : e.kind # "blank")
  IN IF \E i \in DOMAIN kept : kept[i].kind \notin {"addr", "addrport"} \/ kept[i].after \notin Keys \cup {NoKey}
     THEN [ok |-> FALSE, targets |-> <<>>]
     ELSE [ok |-> TRUE, targets |-> [i \in DOMAIN kept |-> [at |-> parseNotifyAddr(kept[i]), key |-> kept[i].after]]]

\* Mutant: the port is always left off.
NotifyTargetsTextPortless(read) ==
  [i \in DOMAIN read.targets |-> Entry("addr", read.targets[i].at.addr, None, None, read.targets[i].key)]

\* The port is left off where it is the one everybody assumes.
NotifyTargetsText(read) ==
  [i \in DOMAIN read.targets |->
     LET t == read.targets[i]
     IN IF t.at.port = dnsPort THEN Entry("addr", t.at.addr, None, None, t.key)
        ELSE Entry("addrport", t.at.addr, None, t.at.port, t.key)]

\* MayTransfer, and whose word about a client is believed: the address the
\* query came from, unmapped, in one of the prefixes.
Admits(allow, from) == \E i \in DOMAIN allow.prefixes : Covers(allow.prefixes[i], Unmap(from))

----------------------------------------------------------------------------
(* The configuration.  A listening address is a host and a port; "any" is  *)
(* every interface.                                                        *)

Hosts == {"any", "loopback", "lan"}
Listens == [host : Hosts, port : {1, 2}]
DefaultListen == [host |-> "loopback", port |-> 1]
defaultServer == [host |-> "loopback", port |-> 1]

NoListen == [host |-> "none", port |-> 0]
Silent == {NoListen, [host |-> "empty", port |-> 0]}
Flags == {NoListen, [host |-> "lan", port |-> 2]}
Environment == Silent \cup {[host |-> "lan", port |-> 1], [host |-> "any", port |-> 2]}

\* The strongest source that has something to say; an environment variable
\* that is set to nothing says nothing.
resolve(flag, env, file, fallback) ==
  IF flag # NoListen THEN [value |-> flag, source |-> "flag"]
  ELSE IF env \notin Silent THEN [value |-> env, source |-> "environment"]
  ELSE IF file # NoListen THEN [value |-> file, source |-> "file"]
  ELSE [value |-> fallback, source |-> "default"]

\* resolveErr: a number that cannot be read is refused where it is the one used.
resolveErr(flag, env, file) ==
  IF flag THEN "good" ELSE IF env \in {"good", "bad"} THEN env ELSE IF file THEN "good" ELSE "default"

\* The path and whether somebody named it: a flag, else the environment, else
\* the usual place.
Path(c) == IF c.pathFlag THEN "flag" ELSE IF c.pathEnv THEN "env" ELSE "usual"

\* readFile: missing is fine unless it was named, unreadable and unknown
\* settings are not.
readFile(c) ==
  LET f == c.files[Path(c)]
  IN IF ~f.there THEN [ok |-> Path(c) = "usual", listen |-> NoListen, cluster |-> "none"]
     ELSE [ok |-> f.known, listen |-> f.listen, cluster |-> f.cluster]

\* loadCluster: a section needs the secret and the address others use.
loadCluster(section) == section \in {"none", "whole"}

\* A log level nobody knows, or an empty database path, is refused.
validate(c) == c.level = "known"

Load(c) ==
  LET file == readFile(c)
  IN [ok |-> file.ok /\ resolveErr(c.sizeFlag, c.sizeEnv, FALSE) # "bad" /\ loadCluster(file.cluster) /\ validate(c),
      listen |-> resolve(c.listenFlag, c.listenEnv, file.listen, DefaultListen)]

\* Mutant: where the socket is bound is where it is called.
LocalAPIAddressAsBound(c) ==
  LET f == c.files[IF c.pathEnv THEN "env" ELSE "usual"]
  IN IF f.there /\ ~f.hidden THEN f.listen ELSE NoListen

\* Where the file says the API on this machine is: every interface is called
\* on loopback.  The file is read leniently, and one that cannot be read says
\* nothing.
LocalAPIAddress(c) ==
  LET f == c.files[IF c.pathEnv THEN "env" ELSE "usual"]
  IN IF ~f.there \/ f.hidden \/ f.listen = NoListen THEN NoListen
     ELSE [f.listen EXCEPT !.host = IF @ = "any" THEN "loopback" ELSE @]

\* address: --server, then the environment, then the file, then the default.
address(c, server, env) ==
  IF server # NoListen THEN server
  ELSE IF env # NoListen THEN env
  ELSE IF LocalAPIAddress(c) # NoListen THEN LocalAPIAddress(c)
  ELSE defaultServer

\* A connection to where a client was sent arrives at where a server listens.
Reaches(to, listen) == to.host # "any" /\ to.port = listen.port /\ listen.host \in {to.host, "any"}

----------------------------------------------------------------------------
Texts(kinds) ==
  {e \in {Entry("blank", Zero, None, None, NoKey), Entry("junk", Zero, None, None, NoKey)}
         \cup {KeyEntry(k) : k \in Keys \cup {"bad"}}
         \cup {Entry("addr", a, None, None, k) : a \in Addresses, k \in Keys \cup {NoKey, "bad"}}
         \cup {Entry("addrport", a, None, p, k) : a \in Addresses, p \in Ports, k \in Keys \cup {NoKey}}
         \cup UNION {{Entry("prefix", a, n, None, NoKey) : n \in 0 .. Width(a.fam)} : a \in Addresses} :
     /\ e.kind \in kinds
     /\ e.kind = "prefix" /\ Mapped(e.addr) => MappedPrefixes}

Lists(kinds) == UNION {[1 .. n -> Texts(kinds)] : n \in 0 .. MaxEntries}

AskTransfer ==
  \E l \in Lists({"blank", "junk", "key", "addr", "prefix"}) : input' = [kind |-> "transfer", list |-> l]

AskNotify ==
  \E l \in Lists({"blank", "junk", "key", "addr", "addrport"}) : input' = [kind |-> "notify", list |-> l]

NoFile == [there |-> FALSE, known |-> FALSE, hidden |-> FALSE, listen |-> NoListen, cluster |-> "none"]

Files ==
  {NoFile} \cup [there : {TRUE}, known : BOOLEAN, hidden : IF FileHidden THEN BOOLEAN ELSE {FALSE},
                 listen : Listens \cup {NoListen}, cluster : {"none", "bare", "whole"}]

AskConfig ==
  \E usual \in Files, named \in Files, pf, pe \in BOOLEAN, lf \in Flags, le \in Environment,
     sf \in BOOLEAN, se \in {"unset", "good", "bad"}, lv \in {"known", "unknown"} :
    /\ usual = NoFile \/ named = NoFile
    /\ sf => se = "bad"
    /\ input' = [kind |-> "config", pathFlag |-> pf, pathEnv |-> pe, listenFlag |-> lf, listenEnv |-> le,
                 sizeFlag |-> sf, sizeEnv |-> se, level |-> lv,
                 files |-> [p \in {"flag", "env", "usual"} |-> IF p = "usual" THEN usual ELSE named]]

Init == input = [kind |-> "nothing"]

Next == input.kind = "nothing" /\ (AskTransfer \/ AskNotify \/ AskConfig)

Spec == Init /\ [][Next]_vars

----------------------------------------------------------------------------
TypeOK == input.kind \in {"nothing", "transfer", "notify", "config"}

\* The addresses an entry means to whoever wrote it: a mapped address is the
\* IPv4 one, and so is a prefix of mapped addresses.
Means(e) ==
  LET all == {a \in Addresses : a.fam = e.addr.fam /\ (e.kind = "addr" => a = e.addr)
                                /\ (e.kind = "prefix" => Covers([addr |-> e.addr, len |-> e.len], a))}
  IN IF \A a \in all : Mapped(a) THEN {Unmap(a) : a \in all} ELSE {a \in all : ~Mapped(a)}

\* A list of who may transfer or be believed, once stored as text and read back
\* on another member, is the same list, and it admits exactly the clients its
\* entries mean, whichever kind of socket they reach (apply/settings.go
\* ParseTransferAllow, TransferAllowText, prefixEntry; dns/transfer.go).
ListsMeanWhatTheySay ==
  input.kind = "transfer" =>
    LET in == input.list
        allow == ParseTransferAllow(in)
        believed == ParseResolvers(in)
    IN /\ allow.ok => ParseTransferAllow(TransferAllowText(allow)) = allow
       /\ believed.ok => ParseResolvers(ResolversText(believed)) = believed
       /\ \A read \in {allow, believed} : read.ok =>
            \A from \in Addresses :
              Admits(read, from) <=> \E i \in DOMAIN in : in[i].kind \in {"addr", "prefix"} /\ Unmap(from) \in Means(in[i])

\* A list of who is told of a change reads back as it was stored, and an
\* acknowledgement from an address on it is recognised on a socket of either
\* kind (apply/settings.go ParseNotifyTargets, NotifyTargetsText;
\* dns/notify.go acknowledge).
TargetsReadBack ==
  input.kind = "notify" =>
    LET read == ParseNotifyTargets(input.list)
    IN read.ok =>
         /\ ParseNotifyTargets(NotifyTargetsText(read)) = read
         /\ \A i \in DOMAIN input.list : input.list[i].kind # "blank" =>
              \E j \in DOMAIN read.targets : read.targets[j].at.addr = Unmap(input.list[i].addr)

\* A client that is told nothing finds the server its own machine's file or the
\* default put there (config/config.go Load, LocalAPIAddress; cli/client.go
\* address).
ClientFindsServer ==
  input.kind = "config" /\ ~input.pathFlag /\ Load(input).ok /\ Load(input).listen.source \in {"file", "default"} =>
    Reaches(address(input, NoListen, NoListen), Load(input).listen.value)
=============================================================================
