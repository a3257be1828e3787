---------------------------- MODULE MCRomSearch ----------------------------
(* RomSearch for TLC: codes of five bits, of which two are the family and the *)
(* last two a checksum of the others.                                         *)
EXTENDS RomSearch

Summed(c) == c[4] = (c[1] + c[2]) % 2 /\ c[5] = c[3]

AllValid == {c \in Code : Summed(c)}

\* What a search finds that goes the way of <<1, 0, 0, 1, 0>> and loses this device
\* after two bits.
Ghost == <<1, 0, 1, 1, 1>>

AllRoms == {c \in AllValid \ {Ghost} : ~NoFamily(c)}

=============================================================================
