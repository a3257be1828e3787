------------------------------- MODULE MCDs2480 -------------------------------
(***************************************************************************)
(* Instance of Ds2480: bytes that look like MODE_COMMAND and like none,    *)
(* blocks of one and two bytes, one of which looks like the end of a       *)
(* pulse, two bits of a byte with power, two tries.                        *)
(***************************************************************************)
EXTENDS Ds2480

MCBytes  == {MODE_COMMAND, 85}
MCBlocks == {<<MODE_COMMAND, 85>>, <<255>>, <<MODE_STOP_PULSE>>}
=============================================================================
