------------------------------- MODULE Names -------------------------------
(***************************************************************************)
(* The text and address algorithms every other part rests on: names in     *)
(* presentation and wire form and their order (zone/name.go), the names of *)
(* reverse zones and the networks they stand for (zone/reverse.go,         *)
(* store/sqlite), canonical record data (zone/rdata.go) and TTLs           *)
(* (zone/ttl.go), each against what it is meant to compute.  Octets are    *)
(* 0 .. 7: one that does not print, three digits, the dot, the backslash   *)
(* and one letter in both cases; an escape is three digits to the base     *)
(* three.  An address has Octets octets of two bits, or twice as many      *)
(* nibbles of one.                                                         *)
(***************************************************************************)
EXTENDS Integers, Sequences, SequencesExt, FiniteSets, FiniteSetsExt, Functions

CONSTANTS
  MaxLabelLen, MaxNameWireLen,  \* limits of RFC 1035
  MaxText,                      \* bound on the length of a text
  Octets,                       \* octets of an address
  MaxTTL, Width,                \* the largest TTL, the range of an integer
  Inputs                        \* the kinds of input taken up

VARIABLE input

Octet == 0 .. 7
Digits == 1 .. 3
Dot == 4
Backslash == 5
Upper == 6
Lower == 7
Bad == <<-1>>

lowerASCII(c) == IF c = Upper THEN Lower ELSE c

isZonefileSpecial(c) == c \in {Dot, Backslash}

----------------------------------------------------------------------------
(* Names.  A name is its wire form: every label after its length, then 0. *)

Root == <<0>>

\* The name of given labels.
encode(labels) == FlattenSeq([i \in DOMAIN labels |-> <<Len(labels[i])>> \o labels[i]]) \o Root

\* The octet an escape at the start of s stands for and how much of s it takes.
decodeEscape(s) ==
  IF Len(s) < 2 THEN [ok |-> FALSE, octet |-> 0, n |-> 0]
  ELSE IF s[2] \notin Digits THEN [ok |-> TRUE, octet |-> s[2], n |-> 2]
  ELSE IF Len(s) < 4 \/ s[3] \notin Digits \/ s[4] \notin Digits THEN [ok |-> FALSE, octet |-> 0, n |-> 0]
  ELSE LET v == (s[2] - 1) * 9 + (s[3] - 1) * 3 + (s[4] - 1)
       IN [ok |-> v \in Octet, octet |-> v, n |-> 4]

fits(label) == Len(label) \in 1 .. MaxLabelLen

\* The wire form of a text, reading it from the left with the label in progress.
RECURSIVE scan(_, _, _)
scan(s, label, wire) ==
  LET flushed == wire \o <<Len(label)>> \o label
  IN IF s = <<>> THEN IF label = <<>> THEN wire ELSE IF fits(label) THEN flushed ELSE Bad
     ELSE IF s[1] = Dot THEN IF fits(label) THEN scan(Tail(s), <<>>, flushed) ELSE Bad
     ELSE IF s[1] = Backslash
          THEN LET e == decodeEscape(s)
               IN IF ~e.ok THEN Bad
                  ELSE scan(SubSeq(s, e.n + 1, Len(s)), Append(label, lowerASCII(e.octet)), wire)
     ELSE scan(Tail(s), Append(label, lowerASCII(s[1])), wire)

ParseName(s) ==
  IF s = <<>> THEN Bad
  ELSE IF s = <<Dot>> THEN Root
  ELSE LET wire == scan(s, <<>>, <<>>)
       IN IF wire = Bad \/ Len(wire) + 1 > MaxNameWireLen THEN Bad ELSE Append(wire, 0)

RECURSIVE expand(_, _)
expand(b, wire) ==
  IF b = <<>> THEN Bad
  ELSE IF b[1] = 0 THEN IF Len(b) = 1 THEN Append(wire, 0) ELSE Bad
  ELSE IF b[1] > MaxLabelLen \/ 1 + b[1] > Len(b) THEN Bad
  ELSE expand(SubSeq(b, 2 + b[1], Len(b)),
              wire \o <<b[1]>> \o [i \in 1 .. b[1] |-> lowerASCII(b[1 + i])])

NameFromWire(b) == IF Len(b) > MaxNameWireLen THEN Bad ELSE expand(b, <<>>)

\* Where each label's length octet is.
RECURSIVE labelOffsets(_, _)
labelOffsets(wire, i) ==
  IF i > Len(wire) \/ wire[i] = 0 THEN <<>> ELSE <<i>> \o labelOffsets(wire, i + 1 + wire[i])

labelAt(wire, off) == SubSeq(wire, off + 1, off + wire[off])

Labels(n) == LET offs == labelOffsets(n, 1) IN [i \in DOMAIN offs |-> labelAt(n, offs[i])]

\* Mutant: a dot inside a label is written as it is.
writeEscapedDot(c) ==
  IF c = Backslash THEN <<Backslash, c>>
  ELSE IF c = 0 THEN <<Backslash, 1 + c \div 9, 1 + ((c \div 3) % 3), 1 + (c % 3)>>
  ELSE <<c>>

writeEscaped(c) ==
  IF isZonefileSpecial(c) THEN <<Backslash, c>>
  ELSE IF c = 0 THEN <<Backslash, 1 + c \div 9, 1 + ((c \div 3) % 3), 1 + (c % 3)>>
  ELSE <<c>>

String(n) ==
  IF n = Root THEN <<Dot>>
  ELSE LET ls == Labels(n)
           text(l) == FlattenSeq([i \in DOMAIN l |-> writeEscaped(l[i])])
       IN FlattenSeq([i \in DOMAIN ls |-> text(ls[i]) \o <<Dot>>])

Parent(n) == SubSeq(n, 2 + n[1], Len(n))

Child(n, label) ==
  IF ~fits(label) \/ 1 + Len(label) + Len(n) > MaxNameWireLen THEN Bad
  ELSE <<Len(label)>> \o [i \in DOMAIN label |-> lowerASCII(label[i])] \o n

\* A suffix of the octets that starts at a label.
IsSubDomainOf(n, p) ==
  \E i \in Range(labelOffsets(n, 1)) \cup {Len(n)} : SubSeq(n, i, Len(n)) = p

\* How two octet strings compare: the first difference, else the length.
Before(a, b) ==
  \E i \in 1 .. Len(b) :
    /\ i <= Len(a) + 1
    /\ SubSeq(a, 1, i - 1) = SubSeq(b, 1, i - 1)
    /\ i <= Len(a) => a[i] < b[i]

\* Labels from the rightmost, and the name with labels left over lies below.
Compare(n, m) ==
  LET a == Reverse(Labels(n))
      b == Reverse(Labels(m))
      same(k) == \A i \in 1 .. k : a[i] = b[i]
      shorter == IF Len(a) < Len(b) THEN Len(a) ELSE Len(b)
  IN IF same(shorter) THEN Len(a) - Len(b)
     ELSE LET i == CHOOSE j \in 1 .. shorter : same(j - 1) /\ a[j] # b[j]
          IN IF Before(a[i], b[i]) THEN -1 ELSE 1

\* Mutant: a zero octet inside a label is not escaped.
SortKeyPlain(n) ==
  LET ls == Reverse(Labels(n))
  IN FlattenSeq([i \in DOMAIN ls |-> ls[i] \o <<0, 0>>])

SortKey(n) ==
  LET ls == Reverse(Labels(n))
      content(l) == FlattenSeq([i \in DOMAIN l |-> IF l[i] = 0 THEN <<0, Lower>> ELSE <<l[i]>>])
  IN FlattenSeq([i \in DOMAIN ls |-> content(ls[i]) \o <<0, 0>>])

----------------------------------------------------------------------------
(* Reverse zones.  A name under in-addr.arpa or ip6.arpa is a family and   *)
(* the labels below its apex, the least significant first; a label is an   *)
(* octet or nibble <<v>>, a classless <<v, "/", length>> or a range        *)
(* <<first, "-", last>> (RFC 2317).                                        *)

Family == {"v4", "v6"}
NotOne == [value |-> -1, length |-> -1]
NoPrefix == [fam |-> "none", addr |-> <<>>, bits |-> 0]
NoOwner == <<<<-1>>>>
Bits == 2 * Octets
Address == [1 .. Octets -> 0 .. 3]

\* Bit k of an address, counted from its most significant.
bit(addr, k) == LET o == addr[1 + (k - 1) \div 2] IN IF k % 2 = 1 THEN o \div 2 ELSE o % 2

PrefixContains(p, fam, addr) == p.fam = fam /\ \A k \in 1 .. p.bits : bit(p.addr, k) = bit(addr, k)

\* addr.Prefix(bits), also Prefix.Masked: every bit past the length cleared.
Masked(addr, bits) ==
  [i \in 1 .. Octets |-> IF 2 * i <= bits THEN addr[i]
                         ELSE IF 2 * i - 1 = bits THEN addr[i] - (addr[i] % 2) ELSE 0]

nibble(addr, i) == bit(addr, i + 1)

ReverseName(fam, addr) ==
  IF fam = "v4" THEN [i \in 1 .. Octets |-> <<addr[Octets + 1 - i]>>]
  ELSE [i \in 1 .. 2 * Octets |-> <<nibble(addr, 2 * Octets - i)>>]

\* Every length is expressible: the scaled nibble is one bit.
ReverseZoneName(fam, addr, bits) ==
  LET a == Masked(addr, bits)
      whole == bits \div 2
      octets == [i \in 1 .. whole |-> <<a[whole + 1 - i]>>]
  IN IF fam = "v6" THEN [i \in 1 .. bits |-> <<nibble(a, bits - i)>>]
     ELSE IF bits % 2 # 0 THEN <<<<a[whole + 1], "/", bits>>>> \o octets ELSE octets

\* Mutant: the alignment of a range is not looked at.
parseClasslessLabelAny(label, index) ==
  LET base == index * 2
      size == label[3] - label[1] + 1
  IN IF label[2] = "/" THEN IF label[3] \in base + 1 .. base + 2 THEN [value |-> label[1], length |-> label[3]]
                            ELSE NotOne
     ELSE IF size \notin {1, 2, 4} THEN NotOne
     ELSE [value |-> label[1], length |-> base + 2 - (CASE size = 1 -> 0 [] size = 2 -> 1 [] OTHER -> 2)]

parseClasslessLabel(label, index) ==
  LET base == index * 2
      size == label[3] - label[1] + 1
  IN IF label[2] = "/" THEN IF label[3] \in base + 1 .. base + 2 THEN [value |-> label[1], length |-> label[3]]
                            ELSE NotOne
     ELSE IF size \notin {1, 2, 4} \/ label[1] % size # 0 THEN NotOne
     ELSE [value |-> label[1], length |-> base + 2 - (CASE size = 1 -> 0 [] size = 2 -> 1 [] OTHER -> 2)]

\* Labels from the most significant; a classless one may only be the last.
parseReversePrefixV4(labels) ==
  LET n == Len(labels)
      classless == n > 0 /\ Len(labels[1]) > 1
      c == parseClasslessLabel(labels[1], n - 1)
      octet(i) == IF i > n THEN 0 ELSE IF i = n /\ classless THEN c.value ELSE labels[n + 1 - i][1]
      length == IF classless THEN c.length ELSE 2 * n
  IN IF n > Octets \/ (\E i \in 2 .. n : Len(labels[i]) > 1) THEN NoPrefix
     ELSE IF classless /\ c = NotOne THEN NoPrefix
     ELSE [fam |-> "v4", addr |-> Masked([i \in 1 .. Octets |-> octet(i)], length), bits |-> length]

parseReversePrefixV6(labels) ==
  LET n == Len(labels)
      at(k) == IF k > n THEN 0 ELSE labels[n + 1 - k][1]
  IN IF n > 2 * Octets \/ (\E i \in 1 .. n : Len(labels[i]) > 1 \/ labels[i][1] > 1) THEN NoPrefix
     ELSE [fam |-> "v6", addr |-> [i \in 1 .. Octets |-> 2 * at(2 * i - 1) + at(2 * i)], bits |-> n]

ParseReversePrefix(fam, labels) ==
  IF fam = "v4" THEN parseReversePrefixV4(labels) ELSE parseReversePrefixV6(labels)

\* Mutant: the host's labels are put below a classless zone in their order.
ReverseOwnerLast(fam, name, addr) ==
  LET plain == ReverseName(fam, addr)
  IN IF IsSuffix(name, plain) THEN plain
     ELSE IF name = <<>> \/ ~IsSuffix(Tail(name), plain) THEN NoOwner
     ELSE <<plain[1]>> \o name

\* The owner of the address's PTR in a zone whose network contains it.
ReverseOwner(fam, name, addr) ==
  LET plain == ReverseName(fam, addr)
  IN IF IsSuffix(name, plain) THEN plain
     ELSE IF name = <<>> \/ ~IsSuffix(Tail(name), plain) THEN NoOwner
     ELSE SubSeq(plain, 1, Len(plain) - Len(Tail(name))) \o name

reversePrefixLengths(zones) == {z.prefix.bits : z \in {y \in zones : y.prefix.bits <= Bits}}

\* One lookup per length in use, the longest first; any zone of that network.
ReverseZoneFor(zones, fam, addr) ==
  LET found == {z \in zones : \E bits \in reversePrefixLengths(zones) :
                  z.prefix = [fam |-> fam, addr |-> Masked(addr, bits), bits |-> bits]}
  IN {z \in found : \A y \in found : y.prefix.bits <= z.prefix.bits}

prefixBounds(p) ==
  [lo |-> p.addr,
   hi |-> [i \in 1 .. Octets |->
             LET covered == (i - 1) * 2
             IN IF covered >= p.bits THEN 3
                ELSE IF covered + 2 > p.bits THEN p.addr[i] + 2 ^ (covered + 2 - p.bits) - 1
                ELSE p.addr[i]]]

----------------------------------------------------------------------------
(* Record data that holds a name, and TTLs.                                *)

\* The library's reading of a name in data: relative to the origin unless it
\* ends in a dot no backslash takes away.
RECURSIVE isFqdn(_)
isFqdn(s) ==
  IF s = <<>> THEN FALSE
  ELSE IF s[1] = Backslash THEN Len(s) > 2 /\ isFqdn(SubSeq(s, 3, Len(s)))
  ELSE IF Len(s) = 1 THEN s[1] = Dot ELSE isFqdn(Tail(s))

parseRDataOnce(s, origin) == IF isFqdn(s) THEN s ELSE s \o <<Dot>> \o origin

probeOriginA == <<Lower, Dot>>
probeOriginB == <<1, Dot>>

\* Mutant: letters are folded in the text, escapes left as they are.
ParseRDataFolding(s) ==
  LET text == parseRDataOnce(s, probeOriginA)
      out == [i \in DOMAIN text |-> lowerASCII(text[i])]
  IN IF s = <<>> \/ parseRDataOnce(s, probeOriginB) # text \/ ParseName(text) = Bad THEN Bad
     ELSE IF parseRDataOnce(out, probeOriginA) # out THEN Bad ELSE out

ParseRData(s) ==
  LET text == parseRDataOnce(s, probeOriginA)
      out == String(ParseName(text))
  IN IF s = <<>> \/ parseRDataOnce(s, probeOriginB) # text \/ ParseName(text) = Bad THEN Bad
     ELSE IF parseRDataOnce(out, probeOriginA) # out THEN Bad ELSE out

ttlUnit == [s |-> 1, m |-> 3, h |-> 9]

\* Mutant: the product is compared once it has been taken.
addSectionWrapping(total, sec) ==
  IF total = -1 THEN -1
  ELSE LET t == (total + sec.n * ttlUnit[sec.unit]) % Width IN IF t > MaxTTL THEN -1 ELSE t

\* One number and its unit; -1 is the refusal.
addSection(total, sec) ==
  IF total = -1 \/ sec.n > MaxTTL \div ttlUnit[sec.unit] THEN -1
  ELSE LET t == (total + sec.n * ttlUnit[sec.unit]) % Width IN IF t > MaxTTL THEN -1 ELSE t

ParseTTL(sections) ==
  IF \E i, j \in DOMAIN sections : i # j /\ sections[i].unit = sections[j].unit THEN -1
  ELSE FoldLeft(addSection, 0, sections)

\* Mutant: the counters are summed before they are known to be in range.
SOAValidUnchecked(refresh, retry, expire) ==
  refresh # 0 /\ retry # 0 /\ expire > (refresh + retry) % Width

\* SOA.Validate on its counters, which are as wide as a TTL.
SOAValid(refresh, retry, expire) ==
  /\ {refresh, retry, expire} \subseteq 0 .. MaxTTL
  /\ refresh # 0 /\ retry # 0
  /\ expire > (refresh + retry) % Width

\* SOA.RData on its counters, and the reading of the text: the serial is as
\* wide as an integer, the others as a TTL.
SOAText(soa) == <<soa.serial, soa.refresh, soa.retry, soa.expire>>

\* Mutant: the serial has the ceiling of the counters behind it.
ParseSOADataCapped(f) ==
  IF Len(f) # 4 \/ (\E i \in DOMAIN f : f[i] >= Width \/ f[i] > MaxTTL) THEN Bad
  ELSE [serial |-> f[1], refresh |-> f[2], retry |-> f[3], expire |-> f[4]]

ParseSOAData(f) ==
  IF Len(f) # 4 \/ (\E i \in DOMAIN f : f[i] >= Width \/ (i > 1 /\ f[i] > MaxTTL)) THEN Bad
  ELSE [serial |-> f[1], refresh |-> f[2], retry |-> f[3], expire |-> f[4]]

----------------------------------------------------------------------------
(* The filter of a live tail: what of the traffic a watcher asked to see.  *)

\* The name of a question as the library writes it, in the case it came in.
asked(labels) ==
  FlattenSeq([i \in DOMAIN labels |->
    FlattenSeq([j \in DOMAIN labels[i] |-> writeEscaped(labels[i][j])]) \o <<Dot>>])

EqualFold(s, t) == Len(s) = Len(t) /\ \A i \in DOMAIN s : lowerASCII(s[i]) = lowerASCII(t[i])

\* Mutant: any dot in front of the suffix separates two labels.
underNameAnyDot(name, suffix) ==
  LET at == Len(name) - Len(suffix)
  IN \/ suffix = <<Dot>>
     \/ /\ at >= 0
        /\ EqualFold(SubSeq(name, at + 1, Len(name)), suffix)
        /\ at = 0 \/ name[at] = Dot

\* The suffix in the text, behind a dot with an even number of backslashes.
underName(name, suffix) ==
  LET at == Len(name) - Len(suffix)
      run == {k \in 0 .. at - 1 : \A i \in at - k .. at - 1 : name[i] = Backslash}
  IN \/ suffix = <<Dot>>
     \/ /\ at >= 0
        /\ EqualFold(SubSeq(name, at + 1, Len(name)), suffix)
        /\ at = 0 \/ (name[at] = Dot /\ Max(run) % 2 = 0)

\* A bare address is the network of one host, and a network is masked.
clientPrefix(fam, addr, bits) == [fam |-> fam, addr |-> Masked(addr, bits), bits |-> bits]

\* Mutant: a network wider than the one watched will do.
fromNetworkWider(network, ev) ==
  \/ PrefixContains(network, ev.client.fam, ev.client.addr)
  \/ ev.for # NoPrefix /\ PrefixContains(network, ev.for.fam, ev.for.addr)

fromNetwork(network, ev) ==
  \/ PrefixContains(network, ev.client.fam, ev.client.addr)
  \/ ev.for # NoPrefix /\ ev.for.bits >= network.bits /\ PrefixContains(network, ev.for.fam, ev.for.addr)

\* A filter left empty lets everything through.
matches(filter, ev) ==
  /\ filter.name # Bad => underName(ev.name, String(filter.name))
  /\ filter.client # NoPrefix => fromNetwork(filter.client, ev)

----------------------------------------------------------------------------
(* The inputs: one step per input.                                         *)

SeqsUpTo(S, n) == UNION {[1 .. k -> S] : k \in 0 .. n}

SomeNames == {w \in {encode(ls) : ls \in SeqsUpTo(SeqsUpTo({0, 1, Lower}, MaxLabelLen) \ {<<>>}, 2)} :
                Len(w) <= MaxNameWireLen}

OctetLabels == {<<v>> : v \in 0 .. 3}

ClasslessLabels == ({<<v, "/", l>> : v \in 0 .. 3, l \in 0 .. Bits + 1}) \cup {<<a, "-", b>> : a, b \in 0 .. 3}

ZoneNames(fam) ==
  IF fam = "v6" THEN SeqsUpTo({<<0>>, <<1>>}, 2 * Octets)
  ELSE SeqsUpTo(OctetLabels, Octets) \cup
       {<<c>> \o up : c \in ClasslessLabels, up \in SeqsUpTo(OctetLabels, Octets - 1)}

Networks == {[fam |-> f, addr |-> Masked(a, b), bits |-> b] : f \in Family, a \in Address, b \in 0 .. Bits}

Zones == {[name |-> ReverseZoneName(p.fam, p.addr, p.bits), prefix |-> p] : p \in Networks}

AskedLabels == SeqsUpTo(SeqsUpTo({Dot, Backslash, Upper, Lower}, MaxLabelLen) \ {<<>>}, 2)

Filters == {n \in {ParseName(s) : s \in SeqsUpTo({Dot, Backslash, Upper}, 4)} : n # Bad}

Hosts == [fam : Family, addr : Address]

Init == input = [kind |-> "none"]

Ask ==
  \/ "text" \in Inputs /\ \E s \in SeqsUpTo(Octet, MaxText) : input' = [kind |-> "text", text |-> s]
  \/ "names" \in Inputs /\ \E a, b \in SomeNames : input' = [kind |-> "names", a |-> a, b |-> b]
  \/ "network" \in Inputs /\ \E p \in Networks : input' = [kind |-> "network", p |-> p]
  \/ "zone" \in Inputs /\ \E f \in Family : \E n \in ZoneNames(f) :
       input' = [kind |-> "zone", fam |-> f, name |-> n]
  \/ "lookup" \in Inputs /\ \E y, z \in Zones, f \in Family, a \in Address :
       input' = [kind |-> "lookup", zones |-> {y, z}, fam |-> f, addr |-> a]
  \/ "ttl" \in Inputs /\ \E s \in SeqsUpTo([n : 0 .. Width - 1, unit : DOMAIN ttlUnit], 2) \ {<<>>} :
       input' = [kind |-> "ttl", sections |-> s]
  \/ "soa" \in Inputs /\ \E r, t, e \in 0 .. Width - 1 :
       input' = [kind |-> "soa", refresh |-> r, retry |-> t, expire |-> e]
  \/ "asked" \in Inputs /\ \E ls \in AskedLabels, n \in Filters :
       input' = [kind |-> "asked", labels |-> ls, filter |-> n]
  \/ "client" \in Inputs /\ \E h \in Hosts, b \in 0 .. Bits, c \in Hosts, for \in Networks \cup {NoPrefix} :
       input' = [kind |-> "client", network |-> clientPrefix(h.fam, h.addr, b), client |-> c, for |-> for]

Next == input.kind = "none" /\ Ask

Spec == Init /\ [][Next]_input

TypeOK == input.kind \in {"none", "text", "names", "network", "zone", "lookup", "ttl", "soa", "asked", "client"}

----------------------------------------------------------------------------
(* What the algorithms are meant to compute.                               *)

\* The reference order: labels from the right, compared octet by octet, a
\* name before every name below it (RFC 4034 6.1).
CanonicallyBefore(n, m) ==
  LET a == Reverse(Labels(n))
      b == Reverse(Labels(m))
  IN \E i \in 1 .. Len(b) :
       /\ i <= Len(a) + 1
       /\ SubSeq(a, 1, i - 1) = SubSeq(b, 1, i - 1)
       /\ i <= Len(a) => Before(a[i], b[i])

\* A name survives being written and read again: every text that parses, with
\* its escapes and its case, yields the same name from its own presentation
\* form and from its own wire form, within the length limit (zone/name.go
\* ParseName, String, NameFromWire).
TextRoundTrips ==
  input.kind = "text" =>
    LET n == ParseName(input.text)
    IN n # Bad => /\ ParseName(String(n)) = n
                  /\ NameFromWire(n) = n
                  /\ Len(n) <= MaxNameWireLen
                  /\ n # Root => Child(Parent(n), Labels(n)[1]) = n

\* The stored sort key orders names as Compare does, and both order them
\* canonically, zero octets and prefixes included; a name is below another
\* only at a label's boundary (zone/name.go SortKey, Compare, IsSubDomainOf).
OrderIsCanonical ==
  input.kind = "names" =>
    LET a == input.a
        b == input.b
    IN /\ Before(SortKey(a), SortKey(b)) = CanonicallyBefore(a, b)
       /\ (Compare(a, b) < 0) = CanonicallyBefore(a, b)
       /\ (Compare(a, b) = 0) = (a = b)
       /\ IsSubDomainOf(a, b) = IsSuffix(Labels(b), Labels(a))

\* The network a reverse zone's name stands for is the one the name was made
\* from, its addresses are exactly those between its bounds, the range
\* spelling covers exactly the addresses it names, each address of it has one
\* owner name inside the zone, and of the zones that cover an address the
\* longest is found (zone/reverse.go, sqlite ReverseZoneFor, prefixBounds).
ReverseAgrees ==
  /\ input.kind = "network" =>
       LET p == input.p
           b == prefixBounds(p)
       IN /\ ParseReversePrefix(p.fam, ReverseZoneName(p.fam, p.addr, p.bits)) = p
          /\ \A a \in Address : PrefixContains(p, p.fam, a) = (~Before(a, b.lo) /\ ~Before(b.hi, a))
  /\ input.kind = "zone" =>
       LET p == ParseReversePrefix(input.fam, input.name)
           owner(a) == ReverseOwner(input.fam, input.name, a)
           inside == {a \in Address : PrefixContains(p, input.fam, a)}
           first == input.name[1]
       IN p # NoPrefix =>
            /\ \A a \in inside : owner(a) # NoOwner /\ IsSuffix(input.name, owner(a))
            /\ \A a, b \in inside : owner(a) = owner(b) => a = b
            /\ input.name # <<>> /\ Len(first) = 3 /\ first[2] = "-" =>
                 inside = {a \in Address :
                             /\ a[Len(input.name)] \in first[1] .. first[3]
                             /\ IsSuffix(Tail(input.name), ReverseName("v4", a))}
  /\ input.kind = "lookup" =>
       LET covering == {z \in input.zones : PrefixContains(z.prefix, input.fam, input.addr)}
       IN ReverseZoneFor(input.zones, input.fam, input.addr)
            = {z \in covering : \A y \in covering : y.prefix.bits <= z.prefix.bits}

\* A watcher sees exactly the exchanges of its filter: a question at or below
\* the name label by label, whatever dots and backslashes its labels hold and
\* whatever its case, and a client inside the network or named by a resolver as
\* a network wholly inside it (stream/stream.go underName, fromNetwork,
\* matches; api/stream.go clientPrefix).
FilterIsExact ==
  /\ input.kind = "asked" =>
       LET folded == [i \in DOMAIN input.labels |->
                        [j \in DOMAIN input.labels[i] |-> lowerASCII(input.labels[i][j])]]
           ev == [name |-> IF input.labels = <<>> THEN <<Dot>> ELSE asked(input.labels)]
       IN matches([name |-> input.filter, client |-> NoPrefix], ev)
            = IsSuffix(Labels(input.filter), folded)
  /\ input.kind = "client" =>
       LET inside(fam, addr) == PrefixContains(input.network, fam, addr)
       IN matches([name |-> Bad, client |-> input.network], [client |-> input.client, for |-> input.for])
            = \/ inside(input.client.fam, input.client.addr)
              \/ /\ input.for # NoPrefix
                 /\ \A a \in Address : PrefixContains(input.for, input.for.fam, a) => inside(input.for.fam, a)

\* Record data is canonical: it is kept exactly when its name is fully
\* qualified, two spellings of one name are kept as one text, and what is kept
\* reads back as itself.  A TTL with units is the sum it says or is refused,
\* and a valid SOA's expiry really outlasts a refresh and a retry, whatever
\* the integers wrap to, and it is read back from its text whatever its serial
\* (zone/rdata.go ParseRData, zone/ttl.go ParseTTL, zone/soa.go Validate,
\* RData, ParseSOAData).
DataIsCanonical ==
  /\ input.kind = "text" =>
       LET r == ParseRData(input.text)
       IN /\ r # Bad => /\ isFqdn(input.text)
                        /\ r = String(ParseName(input.text))
                        /\ ParseRData(r) = r
          /\ isFqdn(input.text) /\ ParseName(input.text) # Bad => r # Bad
  /\ input.kind = "ttl" =>
       LET secs == input.sections
           sum == FoldLeft(LAMBDA t, x : t + x.n * ttlUnit[x.unit], 0, secs)
           repeats == \E i, j \in DOMAIN secs : i # j /\ secs[i].unit = secs[j].unit
       IN ParseTTL(secs) = IF repeats \/ sum > MaxTTL THEN -1 ELSE sum
  /\ input.kind = "soa" =>
       LET soa == [serial |-> Width - 1 - input.retry, refresh |-> input.refresh,
                   retry |-> input.retry, expire |-> input.expire]
       IN SOAValid(input.refresh, input.retry, input.expire) => ParseSOAData(SOAText(soa)) = soa
  /\ input.kind = "soa" =>
       SOAValid(input.refresh, input.retry, input.expire) =
         (/\ input.expire <= MaxTTL
          /\ input.refresh > 0 /\ input.retry > 0
          /\ input.expire > input.refresh + input.retry)

=============================================================================
