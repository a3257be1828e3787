--------------------------- MODULE MCStm32Program ---------------------------
(***************************************************************************)
(* A flash of three blocks in one and a half sectors; it begins with a     *)
(* "64 kB" page of the hex files and ends in the next.                     *)
(***************************************************************************)
EXTENDS Stm32Program, CommandLine

\* A blank byte is the greatest one.
MCByte == 0 .. 63
MCOld == [c \in Cells |-> 40 + c]
MCCommands == <<60, 61, 62>>
NoSerial == [address |-> 0, data |-> <<>>]

Request(n, file, serial, bytes, f, v) ==
  [file |-> file, serial |-> serial, bytes |-> bytes, name |-> n, force |-> f, validate |-> v]
Simple(n, f) == Request(n, <<>>, NoSerial, <<>>, f, FALSE)

Data(a, n, first) == DataRecord(a, [k \in 1..n |-> first + k])

\* Two records after one offset: two full blocks, then one after a gap.
Gapped == <<OffsetRecord(16), Data(0, 4, 0), Data(4, 4, 4), OffsetRecord(24), Data(2, 2, 8),
            EndRecord>>
\* Data over the end of a sector, and a byte outside the flash.
Crossing == <<OffsetRecord(16), Data(7, 1, 20), OffsetRecord(24), Data(0, 2, 21),
              OffsetRecord(32), Data(0, 1, 30), EndRecord>>
Serial == [address |-> 22, data |-> <<38, 39>>]

\* A single block, which the first block of the validation is read behind.
Single == <<OffsetRecord(16), Data(0, 4, 10), EndRecord>>

\* No offset: the flash of a device other than an STM32 or an AVR32.
Plain == <<Data(3, 4, 20), Data(6, 2, 30), EndRecord>>

MCRequests ==
  {Request("flash", Gapped, NoSerial, <<>>, FALSE, FALSE),
   Request("flash", Crossing, Serial, <<>>, FALSE, TRUE),
   Request("flash", Single, NoSerial, <<>>, FALSE, TRUE),
   Request("flash", SubSeq(Gapped, 1, 3), NoSerial, <<>>, FALSE, FALSE),
   Simple("read", FALSE), Simple("read", TRUE), Simple("erase", FALSE),
   Simple("launch", FALSE), Simple("other", FALSE),
   Request("hex2bin", Plain, NoSerial, <<>>, FALSE, FALSE),
   Request("hex2bin", Gapped, NoSerial, <<>>, FALSE, FALSE)} \cup
  {Request("bin2hex", <<>>, NoSerial, b, FALSE, FALSE) :
     b \in {<<>>, <<50, 51, 52>>, [k \in 1..Size + 1 |-> IF k \in {3, 5, 6} THEN 63 ELSE k]}}

\* The command lines: each is accepted, and stands for the request.
Option(given, o) == IF given THEN <<o>> ELSE <<>>
Line(r) ==
  [place |-> <<>>, command |-> IF r.name = "other" THEN "get" ELSE r.name,
   words |-> Option(r.serial # NoSerial, "--serial") \o Option(r.force, "--force") \o
             Option(r.name = "flash" /\ ~r.validate, "--suppress-validation") \o
             Option(r.name \in {"flash"} \cup Conversions, "file") \o
             Option(r.name = "other", "ID1")]
ASSUME Asked ==
  \A r \in Requests :
    /\ parse_arguments(Line(r))
    /\ r.name # "other" => execute_command(Line(r)) = Operation(r.name, "flash", r.force, FALSE)
    /\ r.name = "flash" => r.validate = ValidationAsked(Line(r))

MCInit == Init /\ req = Simple("other", FALSE)

\* A conversion has nothing to do with the device: it is tried only before the first
\* command.
MCNext ==
  \/ Process \/ Replug
  \/ \E r \in Requests : Begin(r)
  \/ ret = "none" /\ req = Simple("other", FALSE) /\ dev.state = "idle" /\ \E r \in Requests : Convert(r)

MCSpec == MCInit /\ [][MCNext]_vars /\ WF_vars(GetsIdle)
=============================================================================
