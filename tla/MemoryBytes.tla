---------------------------- MODULE MemoryBytes ----------------------------
(***************************************************************************)
(* What a byte of a device's memory may be.                                *)
(***************************************************************************)
CONSTANTS
  Byte,   \* the values of a byte
  Blank   \* 0xFF, what an erased byte reads as

ASSUME ByteAssumption == Blank \in Byte
=============================================================================
