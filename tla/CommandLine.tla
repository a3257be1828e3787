---------------------------- MODULE CommandLine ----------------------------
(***************************************************************************)
(* dfu-programmer's command line (arguments.c), and what execute_command   *)
(* of commands.c makes of it: the layout of the memory of each target, the *)
(* options each command takes, and the operation a command stands for.     *)
(*                                                                         *)
(* A command line is a record of the bus and the address given with the    *)
(* target (<<>> for none), the command and the words after it.             *)
(***************************************************************************)
EXTENDS Integers, Sequences, TLC

-----------------------------------------------------------------------------
(* The table of targets.                                                    *)

BL_BASE == 0       \* bootloader at the bottom
BL_TOP == 1        \* at the top, part of the stated size
BL_EXTRA == 2      \* above the stated size
BL_SPECIFIC == 3   \* greater values are its address

Target(d, size, boot, place, page, eeprom, eepromPage) ==
  [device_type |-> d, memory_size |-> size, bootloader_size |-> boot,
   bootloader_location |-> place, flash_page_size |-> page,
   eeprom_memory_size |-> eeprom, eeprom_page_size |-> eepromPage]

K == 1024

\* Parts that differ in name and USB identifier only are one entry.
target_map ==
  {Target("8051", 64 * K, b * K, BL_TOP, 128, 0, 0) : b \in {3, 4}} \cup
  {Target("8051", m * K, 3 * K, 61 * K, 128, K, 128) : m \in {16, 32}} \cup
  {Target("AVR", 128 * K, b * K, BL_TOP, 128, 4 * K, 128) : b \in {4, 8}} \cup
  {Target("AVR", 64 * K, 8 * K, BL_TOP, 128, 2 * K, 128),
   Target("AVR", 32 * K, 4 * K, BL_TOP, 128, K, 128)} \cup
  {Target("AVR", m * K, 4 * K, BL_TOP, 128, 512, 128) : m \in {8, 16}} \cup
  {Target("AVR32", m * K, 8 * K, BL_BASE, 512, 0, 0) : m \in {64, 128, 256, 512}} \cup
  {Target("XMEGA", m * K, 4 * K, BL_EXTRA, 256, K, 32) : m \in {16, 32}} \cup
  {Target("XMEGA", 64 * K, 4 * K, BL_EXTRA, 256, 2 * K, 32),
   Target("XMEGA", 128 * K, 8 * K, BL_EXTRA, 256, 2 * K, 32)} \cup
  {Target("XMEGA", m * K, 8 * K, BL_EXTRA, 512, 2 * K, 32) : m \in {128, 192}} \cup
  {Target("XMEGA", m * K, 8 * K, BL_EXTRA, 512, 4 * K, 32) : m \in {256, 384}} \cup
  {Target("STM32", m * K, 0, BL_EXTRA, 512, 0, 0) : m \in {128, 256, 512, 1024}}

Layout(boot, bootTop, bottom, top, memoryTop) ==
  [bootloader_bottom |-> boot, bootloader_top |-> bootTop, flash_address_bottom |-> bottom,
   flash_address_top |-> top, memory_address_bottom |-> 0, memory_address_top |-> memoryTop]

\* The address space of a target, for each place of its bootloader.
assign_target(t) ==
  LET size == t.memory_size
      boot == t.bootloader_size
      place == t.bootloader_location
      above == IF place = BL_EXTRA THEN size ELSE size - boot
  IN CASE place > BL_SPECIFIC ->
            Layout(place, place + boot - 1, 0, size - 1, place + boot - 1)
       [] place = BL_BASE ->
            Layout(0, boot - 1, boot, size - 1, size - 1)
       [] OTHER ->
            Layout(above, above + boot - 1, 0, above - 1, above + boot - 1)

\* What AtmelProgram and Stm32Program ask of a unit, of every target: it starts where a
\* block of a read and one of its pages do and ends where a page does; pages do not cross
\* the end of 64 kB; only targets with a page register have more than 64 kB.
UnitFits(bottom, top, size, page) ==
  /\ bottom <= top /\ top < size /\ bottom % K = 0
  /\ page > 1 /\ (64 * K) % page = 0 /\ bottom % page = 0 /\ (top + 1) % page = 0

ASSUME TargetsAssumption ==
  \A t \in target_map :
    LET l == assign_target(t)
        size == l.memory_address_top + 1
        eeprom == t.eeprom_memory_size
    IN /\ UnitFits(l.flash_address_bottom, l.flash_address_top, size, t.flash_page_size)
       /\ eeprom > 0 => UnitFits(0, eeprom - 1, eeprom, t.eeprom_page_size)
       /\ t.device_type = "8051" => size <= 64 * K
       /\ \/ l.flash_address_top < l.bootloader_bottom
          \/ l.bootloader_top < l.flash_address_bottom

\* A host sends aborts before the first command to the parts of some classes.
initial_abort(t) == t.device_type \in {"AVR", "XMEGA"}

\* The address of one of several devices of a kind.
AddressFits(place) == place = <<>> \/ (Len(place) = 2 /\ place[1] > 0 /\ place[2] > 0)

-----------------------------------------------------------------------------
(* The words of a command line.                                             *)

FlashCommands   == {"flash", "flash-eeprom", "flash-user"}
ReadCommands    == {"read", "dump", "dump-eeprom", "dump-user"}
ConvertCommands == {"bin2hex", "hex2bin"}

command_map ==
  FlashCommands \cup ReadCommands \cup ConvertCommands \cup
  {"configure", "erase", "get", "getfuse", "launch", "reset", "setfuse", "setsecure", "start"}

\* The commands that take each option.
SegmentOptions == {"--user", "--eeprom"}
Supports ==
  [o \in {"--quiet", "--debug", "--suppress-bootloader-mem"} |-> command_map] @@
  ("--suppress-validation" :> (FlashCommands \cup {"configure", "erase"})) @@
  ("--bin" :> ReadCommands) @@
  [o \in SegmentOptions |-> {"read", "dump-user", "flash", "flash-user", "bin2hex"}] @@
  ("--force" :> (FlashCommands \cup {"read", "erase"})) @@
  ("--no-reset" :> {"launch"}) @@
  ("--serial" :> FlashCommands)

\* Only the first occurrence of an option is looked for; another one is left in its
\* place and taken for a parameter.
FirstAt(words, o) == {i \in DOMAIN words : words[i] = o /\ \A j \in 1..i - 1 : words[j] # o}
Has(words, o) == FirstAt(words, o) # {}

\* "--debug" takes the word behind it, unless an option has been found there.
DebugLevel(words) == {i + 1 : i \in FirstAt(words, "--debug")}

Numbers == {"0", "1", "255"}

\* The first "--serial" must have pairs of hexadecimal digits, a colon and a number.
Malformed == "--serial=?"
SerialWellFormed(words) ==
  \A i \in FirstAt(words, Malformed) : \E j \in 1..i - 1 : words[j] = "--serial"

assign_global_options(command, words) ==
  /\ SerialWellFormed(words)
  /\ \A o \in DOMAIN Supports : Has(words, o) => command \in Supports[o]
  /\ \A i \in DebugLevel(words) : i \in DOMAIN words /\ words[i] \in Numbers

\* What is left when the options have been taken out.
Parameters(words) ==
  LET taken == UNION {FirstAt(words, o) : o \in DOMAIN Supports} \cup DebugLevel(words)
      left  == SelectSeq([i \in DOMAIN words |-> i], LAMBDA i : i \notin taken)
  IN [k \in DOMAIN left |-> words[left[k]]]

\* A name known to the command, and a number.
Settings == [configure |-> {"BSB", "SBV", "SSB", "EB", "HSB"},
             setfuse |-> {"LOCK", "EPFL", "BOOTPROT", "BODLEVEL", "BODHYST", "BODEN",
                          "ISP_BOD_EN", "ISP_IO_COND_EN", "ISP_FORCE"}]
SettingFits(command, p) ==
  /\ Len(p) >= 1 => p[1] \in Settings[command]
  /\ Len(p) >= 2 => p[2] \in Numbers

QueryNames ==
  [get |-> Settings.configure \cup
             {"bootloader-version", "ID1", "ID2", "manufacturer", "family", "product-name",
              "product-revision"},
   getfuse |-> Settings.setfuse]

\* A command without any parameter is let through here, however many it needs.
assign_command_options(command, p) ==
  CASE command \in DOMAIN Settings -> Len(p) \in {0, 2} /\ SettingFits(command, p)
    [] command \in DOMAIN QueryNames ->
         Len(p) <= 1 /\ \A i \in DOMAIN p : p[i] \in QueryNames[command]
    [] command \in FlashCommands \cup ConvertCommands -> Len(p) <= 1
    [] OTHER -> p = <<>>

\* Only a file is missed when it is not there.
parse_arguments(line) ==
  /\ AddressFits(line.place) /\ line.command \in command_map
  /\ assign_global_options(line.command, line.words)
  /\ assign_command_options(line.command, Parameters(line.words))
  /\ line.command \in FlashCommands \cup ConvertCommands => Parameters(line.words) # <<>>

-----------------------------------------------------------------------------
(* execute_command                                                          *)

\* The last of these options in the order in which they are looked for.
Segment(words) ==
  IF Has(words, "--eeprom") THEN "eeprom" ELSE IF Has(words, "--user") THEN "user" ELSE "flash"

Operation(name, segment, force, bin) ==
  [name |-> name, segment |-> segment, force |-> force, bin |-> bin]

\* The old names are the new commands with options; dump-user reads the eeprom.
execute_command(line) ==
  LET words == line.words
      given(name, segment) == Operation(name, segment, Has(words, "--force"), Has(words, "--bin"))
  IN CASE line.command = "flash-eeprom" -> given("flash", "eeprom")
       [] line.command = "flash-user" -> given("flash", "user")
       [] line.command = "dump" -> Operation("read", Segment(words), TRUE, TRUE)
       [] line.command \in {"dump-eeprom", "dump-user"} ->
            Operation("read", "eeprom", TRUE, TRUE)
       [] line.command \in {"start", "reset"} -> given("launch", "flash")
       [] OTHER -> given(line.command, Segment(words))

\* The watchdog resets the device, except after "start" or with --no-reset.
Noreset(line) == line.command = "start" \/ Has(line.words, "--no-reset")
ValidationAsked(line) == ~Has(line.words, "--suppress-validation")

=============================================================================
