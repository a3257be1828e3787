--------------------------- MODULE MCAtmelProgram ---------------------------
(***************************************************************************)
(* A flash of three transfer blocks over two "64 kB" pages, the bootloader *)
(* in its last page, and an eeprom of one block.                           *)
(***************************************************************************)
EXTENDS AtmelProgram, CommandLine

MCSize     == [flash |-> 12, eeprom |-> 4]
MCBottom   == [flash |-> 0,  eeprom |-> 0]
MCTop      == [flash |-> 9,  eeprom |-> 3]
MCPageSize == [flash |-> 2,  eeprom |-> 2]

\* The layout of such a target.
MCTarget == Target("XMEGA", 12, 2, BL_TOP, 2, 4, 2)
ASSUME LaidOut ==
  LET l == assign_target(MCTarget)
  IN /\ Size = [flash |-> l.memory_address_top + 1, eeprom |-> MCTarget.eeprom_memory_size]
     /\ Bottom = [flash |-> l.flash_address_bottom, eeprom |-> 0]
     /\ Top = [flash |-> l.flash_address_top, eeprom |-> MCTarget.eeprom_memory_size - 1]
     /\ BootBottom = l.bootloader_bottom /\ BootTop = l.bootloader_top

\* An image with a byte at each of the given addresses.
Image(m, addresses) == [a \in Cells(m) |-> IF a \in addresses THEN "b" ELSE Unset]

\* Blocks that meet the end of a 64 kB page in their middle, at their end and not
\* at all, gaps within a flash page and between two, data in the bootloader.
FlashImages == {Image("flash", s) : s \in
                  {{}, {0}, {2, 4, 6, 8}, {3, 6, 7, 9}, {5, 11}, 2 .. 11, {10}}}
EepromImages == {Image("eeprom", s) : s \in {{1}, 0 .. 3}}

Request(n, m, i, f, s, v) ==
  [name |-> n, unit |-> m, image |-> i, force |-> f, suppress |-> s, validate |-> v]

FlashRequests ==
  {Request("flash", "flash", i, f, s, v) : i \in FlashImages, f, s, v \in BOOLEAN}
EepromRequests ==
  {Request("flash", "eeprom", i, f, FALSE, v) : i \in EepromImages, f, v \in BOOLEAN}
EraseRequests ==
  {Request("erase", "flash", Image("flash", {}), f, FALSE, v) : f, v \in BOOLEAN}
ReadRequests ==
  {Request("read", m, Image(m, {}), FALSE, FALSE, FALSE) : m \in Units}

SessionRequests ==
  {Request("flash", "flash", Image("flash", {6, 8, 9}), f, FALSE, TRUE) : f \in BOOLEAN} \cup
  ReadRequests \cup
  {Request("flash", "eeprom", Image("eeprom", {1}), TRUE, FALSE, FALSE),
   Request("erase", "flash", Image("flash", {}), FALSE, FALSE, TRUE)}

AllRequests ==
  FlashRequests \cup EepromRequests \cup EraseRequests \cup ReadRequests \cup SessionRequests

\* The command lines: each is accepted, and stands for the request.
Option(given, o) == IF given THEN <<o>> ELSE <<>>
Line(r) ==
  [place |-> <<>>, command |-> r.name,
   words |-> Option(r.force, "--force") \o Option(r.suppress, "--suppress-bootloader-mem") \o
             Option(~r.validate /\ r.name # "read", "--suppress-validation") \o
             Option(r.name = "flash", "file") \o Option(r.unit = "eeprom", "--eeprom")]
ASSUME Asked ==
  \A r \in Requests :
    LET op == execute_command(Line(r))
    IN /\ parse_arguments(Line(r)) /\ op.name = r.name /\ op.segment = r.unit
       /\ op.force = r.force
       /\ r.name # "read" => r.validate = ValidationAsked(Line(r))

\* The device before the first command: blank, or with one byte written somewhere.
MCInit ==
  /\ \E m \in Units : \E c \in Cells(m) : \E v \in Byte :
       mem = [n \in Units |-> [a \in Cells(n) |-> IF n = m /\ a = c THEN v ELSE Blank]]
  /\ req = CHOOSE r \in Requests : TRUE
  /\ Init

\* One command, given to a device left in any state, any request of which may fail.
OneCommandNext == ~sound /\ (pc = "idle" => ret = "none") /\ Next

\* One command after another, of a few, with no failures: each finds what the
\* others have left.
SessionNext == sound /\ Next /\ req' \in SessionRequests

MCSpec == MCInit /\ [][OneCommandNext \/ SessionNext]_vars
OneCommand == MCInit /\ sound = FALSE /\ [][OneCommandNext]_vars

=============================================================================
