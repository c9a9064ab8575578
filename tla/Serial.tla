------------------------------- MODULE Serial --------------------------------
(***************************************************************************)
(* Serial number arithmetic (RFC 1982), for a space of 2 * Half numbers.   *)
(***************************************************************************)
EXTENDS Integers

CONSTANT Half     \* serialHalf: half the size of the space
ASSUME HalfAssumption == Half \in Nat /\ Half > 1

Space == 2 * Half
Serials == 0 .. Space - 1

\* Mutant: no wrap.
SuccPlain(s) == s + 1

\* Serial.Next: unsigned addition wraps.
Succ(s) == (s + 1) % Space

\* Serial.Add, which refuses more than MaxSerialIncrement.
Addable(n) == n \in 0 .. Half - 1
Add(s, n) == (s + n) % Space

\* Mutant: numbers compared as numbers.
ComparePlain(s, o) == IF s < o THEN -1 ELSE IF s = o THEN 0 ELSE 1

Compare(s, o) ==
    LET diff == (o - s) % Space
    IN IF s = o THEN 0
       ELSE IF diff < Half THEN -1
       ELSE IF diff > Half THEN 1
       ELSE IF s < o THEN -1 ELSE 1

Comparable(s, o) == (o - s) % Space # Half
Before(s, o) == Compare(s, o) < 0
After(s, o) == Compare(s, o) > 0
=============================================================================
