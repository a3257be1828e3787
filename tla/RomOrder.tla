------------------------------- MODULE RomOrder -------------------------------
(***************************************************************************)
(* ROM codes of 1-Wire devices and the order in which a search goes        *)
(* through them: as binary numbers whose first transmitted bit weighs most.*)
(***************************************************************************)
EXTENDS Integers

CONSTANTS
  Bits,      \* bits of a ROM code, 64
  FamilyBits,\* the first of them that name the family of the device, 8
  Roms       \* the ROM codes devices can have

Bit  == {0, 1}
Code == [1..Bits -> Bit]
Zero == [i \in 1..Bits |-> 0]

NoFamily(c) == \A i \in 1..FamilyBits : c[i] = 0

\* The last bits are a CRC of the others: codes that differ do so before the last
\* two bits.  There is no family 0.
ASSUME RomAssumption ==
  /\ Bits \in 3..254 /\ FamilyBits \in 1..Bits
  /\ Roms \subseteq Code
  /\ \A r \in Roms : ~NoFamily(r)
  /\ \A r, s \in Roms : r # s => \E i \in 1..(Bits - 2) : r[i] # s[i]

Agree(r, s, n) == \A i \in 1..n : r[i] = s[i]

\* At bit i, up to which they agree, r has 0 and s has 1.
Parts(r, s, i) == Agree(r, s, i - 1) /\ r[i] = 0 /\ s[i] = 1

Before(r, s) == \E i \in 1..Bits : Parts(r, s, i)

=============================================================================
