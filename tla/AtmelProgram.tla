---------------------------- MODULE AtmelProgram ----------------------------
(***************************************************************************)
(* dfu-programmer's erase, flash and read commands on an Atmel bootloader  *)
(* (atmel.c, and execute_erase, execute_flash, execute_dump of commands.c).*)
(*                                                                         *)
(* The bootloader takes addresses of 16 bits.  A memory larger than 64 kB  *)
(* is reached by selecting one 64 kB page first; on XMEGA and AVR32 parts  *)
(* flash and eeprom are told apart by selecting a memory unit first.  Both *)
(* selections are registers of the device that keep what the last command  *)
(* put in them, so each transfer depends on requests sent before it.  Any  *)
(* USB request may fail, with or without the device having obeyed it.      *)
(***************************************************************************)
EXTENDS Integers

CONSTANTS
  ATMEL_64KB_PAGE,          \* 0x10000 in the code
  ATMEL_MAX_TRANSFER_SIZE,  \* 0x400 in the code
  Size,                     \* of each memory unit, in bytes
  Bottom, Top,              \* first and last byte of a unit outside the bootloader
  PageSize,                 \* flash_page_size or eeprom_page_size
  BootBottom, BootTop,      \* the bootloader's place in flash
  Types,                    \* classes of device that may be attached
  Byte, Blank,              \* the values of a byte; 0xFF
  Unset,                    \* UINT16_MAX in an image: no byte from the hex file
  Requests,                 \* the commands the user may give
  Faults                    \* "fail": requests may fail; "short": uploads may

Units == {"flash", "eeprom"}
GRP_AVR32 == {"AVR32", "XMEGA"}
Cells(m) == 0 .. Size[m] - 1

\* The address space of each unit is laid out as arguments.c does it from the
\* table of targets: reading starts at a multiple of the transfer size, which
\* divides a 64 kB page, and a unit begins and ends where its pages of at least two
\* bytes do.  The 8051 parts have no page register and no more than 64 kB.
ASSUME LayoutAssumption ==
  /\ ATMEL_64KB_PAGE \in Nat \ {0} /\ ATMEL_MAX_TRANSFER_SIZE \in Nat \ {0}
  /\ ATMEL_64KB_PAGE % ATMEL_MAX_TRANSFER_SIZE = 0
  /\ Size \in [Units -> Nat \ {0}] /\ PageSize \in [Units -> Nat \ {0, 1}]
  /\ Bottom \in [Units -> Nat] /\ Top \in [Units -> Nat]
  /\ BootBottom \in Nat /\ BootTop \in Nat
  /\ \A m \in Units : /\ Bottom[m] <= Top[m] /\ Top[m] < Size[m]
                      /\ Bottom[m] % ATMEL_MAX_TRANSFER_SIZE = 0
                      /\ ATMEL_64KB_PAGE % PageSize[m] = 0
                      /\ Bottom[m] % PageSize[m] = 0 /\ (Top[m] + 1) % PageSize[m] = 0
                      /\ "8051" \in Types => Size[m] <= ATMEL_64KB_PAGE

Images == UNION {[Cells(m) -> Byte \cup {Unset}] : m \in Units}

ASSUME DataAssumption ==
  /\ Types \subseteq {"8051", "AVR"} \cup GRP_AVR32
  /\ Blank \in Byte /\ Unset \notin Byte
  /\ Requests \subseteq [name : {"flash", "erase", "read"}, unit : Units, image : Images,
                         force : BOOLEAN, suppress : BOOLEAN, validate : BOOLEAN]

\* An image is as long as the unit it is for; only flash is erased.
ASSUME RequestAssumption ==
  \A r \in Requests : /\ r.image \in [Cells(r.unit) -> Byte \cup {Unset}]
                      /\ r.name = "erase" => r.unit = "flash"

VARIABLES
  type, mem, page, unit,  \* the device: its class, contents and two registers
  req, pc,                \* the command being executed; the request it comes to next
  bout, buin,             \* the image to write, the bytes read
  first, last, start,     \* data_start, data_end, block_start (or blank_upto)
  memPage,                \* the 64 kB page the host takes to be selected
  erased,                 \* the erase command has been obeyed
  ret,                    \* the command's result
  sound                   \* no request fails in this behaviour

device == <<type, mem, page, unit>>
host == <<req, bout, buin, first, last, start, memPage, erased>>
vars == <<device, host, pc, ret, sound>>

Pcs == {"idle", "prepare", "blankUnit", "blankPage", "blank", "unit", "page", "write",
        "erase", "readUnit", "readPage", "read", "validate"}
Pages == {a \div ATMEL_64KB_PAGE : a \in UNION {Cells(m) : m \in Units}}

TypeOK ==
  /\ type \in Types /\ page \in Pages /\ unit \in Units
  /\ mem \in [Units -> UNION {[Cells(m) -> Byte] : m \in Units}]
  /\ \A m \in Units : mem[m] \in [Cells(m) -> Byte]
  /\ req \in Requests /\ pc \in Pcs
  /\ bout \in [Cells(req.unit) -> Byte \cup {Unset}]
  /\ buin \in [Cells(req.unit) -> Byte]
  /\ first \in Nat /\ last \in Nat /\ start \in Nat
  /\ memPage \in Pages /\ erased \in BOOLEAN
  /\ ret \in {"none", "ok", "fail"} /\ sound \in BOOLEAN

\* The device is as earlier commands have left it.
Init ==
  /\ type \in Types /\ unit \in Units
  /\ page \in IF type = "8051" THEN {0} ELSE Pages
  /\ mem \in {f \in [Units -> UNION {[Cells(m) -> Byte] : m \in Units}] :
                \A m \in Units : f[m] \in [Cells(m) -> Byte]}
  /\ req \in Requests /\ pc = "idle" /\ ret = "none"
  /\ bout = req.image /\ buin = [a \in Cells(req.unit) |-> Blank]
  /\ first = Bottom[req.unit] /\ last = Top[req.unit] /\ start = Bottom[req.unit]
  /\ memPage = 0 /\ erased = FALSE /\ sound \in BOOLEAN

-----------------------------------------------------------------------------
(* The requests the commands are made of.                                   *)

Lost  == ~sound /\ "fail" \in Faults
Short == ~sound /\ "short" \in Faults

\* The unit a transfer meant for unit m reaches, and the cell that is address a
\* there: an address in a transfer has 16 bits, the page register gives the rest.
Reached(m) == IF type \in GRP_AVR32 THEN unit ELSE m
Seen(a) == page * ATMEL_64KB_PAGE + (a % ATMEL_64KB_PAGE)

\* What the device reads at a cell; there is nothing beyond the end of a memory.
Holds(u, c) == IF c \in Cells(u) THEN mem[u][c] ELSE Blank

Goto(place) == pc' = place /\ UNCHANGED ret
End(result) == pc' = "idle" /\ ret' = result

\* Faulty variant: the unit selected for the blank check stays selected.
UnitStays(m) == unit' = unit

\* atmel_select_memory_unit: only devices of GRP_AVR32 have the register.
UnitSelected(m) == unit' = IF type \in GRP_AVR32 THEN m ELSE unit
UnitNotSelected(m) == Lost /\ type \in GRP_AVR32 /\ unit' \in {unit, m}

\* atmel_select_page: ignored on an 8051.
PageSelected(p) == page' = IF type = "8051" THEN page ELSE p
PageNotSelected(p) == Lost /\ type # "8051" /\ page' \in {page, p}

-----------------------------------------------------------------------------
(* execute_flash, up to the first request.                                  *)

Boot == BootBottom .. BootTop
Given(image) == {a \in DOMAIN image : image[a] # Unset}
FlashPage(m, a) == a \div PageSize[m]

\* intel_flash_prep_buffer: pages that hold data and begin before the last
\* usable byte are filled up with 0xFF.
Filled(m, image) ==
  [a \in DOMAIN image |->
     IF /\ image[a] = Unset
        /\ FlashPage(m, a) * PageSize[m] < Top[m]
        /\ \E b \in Given(image) : FlashPage(m, b) = FlashPage(m, a)
     THEN Blank ELSE image[a]]

\* --suppress-bootloader-mem takes the bootloader's bytes out of the image.
Stripped(r) ==
  [a \in DOMAIN r.image |->
     IF r.unit = "flash" /\ r.suppress /\ a \in Boot THEN Unset ELSE r.image[a]]

Overlap(r) == r.unit = "flash" /\ ~r.suppress /\ Given(r.image) \cap Boot # {}

\* The command line is read and the hex file converted.
Begin(r) ==
  /\ pc = "idle" /\ ~(type = "AVR32" /\ r.unit = "eeprom")
  /\ req' = r /\ bout' = r.image /\ buin' = [a \in Cells(r.unit) |-> Blank]
  /\ first' = Bottom[r.unit] /\ last' = Top[r.unit] /\ start' = Bottom[r.unit]
  /\ memPage' = 0 /\ erased' = FALSE /\ ret' = "none"
  /\ pc' = CASE r.name = "flash" -> "prepare"
             [] r.name = "read"  -> "readUnit"
             [] r.name = "erase" -> IF r.force THEN "erase" ELSE "blankUnit"
  /\ UNCHANGED device

\* The image is refused, or its limits are found and it goes to be written.
Prepare ==
  LET m     == req.unit
      image == Filled(m, Stripped(req))
      data  == Given(image)
  IN /\ pc = "prepare"
     /\ UNCHANGED <<device, req, buin, memPage, erased>>
     /\ \/ /\ Overlap(req) \/ ~(data \subseteq Bottom[m] .. Top[m]) \/ data = {}
           /\ End("fail") /\ UNCHANGED <<bout, first, last, start>>
        \/ /\ ~Overlap(req) /\ data \subseteq Bottom[m] .. Top[m]
           /\ \E f, l \in data :
                /\ \A a \in data : f <= a /\ a <= l
                /\ first' = f /\ last' = l /\ start' = f
           /\ bout' = image
           /\ Goto(IF req.force THEN "unit" ELSE "blankUnit")

-----------------------------------------------------------------------------
(* atmel_blank_check, from first to last, for flash and erase.              *)

\* To write and to have erased, the memory must be blank; to erase, it need not.
NotBlank == IF req.name = "erase" /\ ~erased THEN Goto("erase") ELSE End("fail")
IsBlank == IF req.name = "flash" THEN Goto("unit") ELSE End("ok")

\* It is always the flash that is checked.
BlankUnit ==
  /\ pc = "blankUnit"
  /\ \/ UnitSelected("flash") /\ Goto("blankPage")
     \/ UnitNotSelected("flash") /\ NotBlank
  /\ UNCHANGED <<type, mem, page, host>>

\* Faulty variant: the check goes on when the page could not be selected.
BlankPageAnyway ==
  LET p == start \div ATMEL_64KB_PAGE
  IN /\ pc = "blankPage" /\ memPage' = p
     /\ (PageSelected(p) \/ PageNotSelected(p)) /\ Goto("blank")
     /\ UNCHANGED <<type, mem, unit, req, bout, buin, first, last, start, erased>>

BlankPage ==
  LET p == start \div ATMEL_64KB_PAGE
  IN /\ pc = "blankPage" /\ memPage' = p
     /\ \/ PageSelected(p) /\ Goto("blank")
        \/ PageNotSelected(p) /\ NotBlank
     /\ UNCHANGED <<type, mem, unit, req, bout, buin, first, last, start, erased>>

CheckUntil ==
  LET end == (memPage + 1) * ATMEL_64KB_PAGE - 1 IN IF end > last THEN last ELSE end

\* __atmel_blank_page_check of the addresses up to CheckUntil.
BlankCheck ==
  LET bytes == {Holds(Reached("flash"), Seen(a)) : a \in start .. CheckUntil}
  IN /\ pc = "blank"
     /\ \/ /\ bytes \subseteq {Blank} /\ start' = CheckUntil + 1
           /\ IF start' < last THEN Goto("blankPage") ELSE IsBlank
        \/ (Lost \/ ~(bytes \subseteq {Blank})) /\ NotBlank /\ UNCHANGED start
     /\ UNCHANGED <<device, req, bout, buin, first, last, memPage, erased>>

\* atmel_erase_flash: the memory outside the bootloader is blank after it.  One
\* that is given up, after 20 s or ten lost answers, may have been obeyed too.
Erase ==
  /\ pc = "erase"
  /\ \E obeyed \in BOOLEAN :
       /\ mem' = IF obeyed
                   THEN [mem EXCEPT !["flash"] =
                          [a \in Cells("flash") |->
                             IF a \in Bottom["flash"] .. Top["flash"] THEN Blank ELSE mem["flash"][a]]]
                   ELSE mem
       /\ \/ /\ obeyed /\ erased' = TRUE
             /\ IF req.validate THEN Goto("blankUnit") ELSE End("ok")
          \/ Lost /\ End("fail") /\ UNCHANGED erased
  /\ start' = first
  /\ UNCHANGED <<type, page, unit, req, bout, buin, first, last, memPage>>

-----------------------------------------------------------------------------
(* atmel_flash, after the blank check.                                      *)

SelectUnit ==
  /\ pc = "unit"
  /\ \/ UnitSelected(req.unit) /\ Goto("page") /\ start' = first
     \/ UnitNotSelected(req.unit) /\ End("fail") /\ UNCHANGED start
  /\ UNCHANGED <<type, mem, page, req, bout, buin, first, last, memPage, erased>>

\* Faulty variant: the page's number is counted in transfer blocks.
SelectPageByBlock ==
  LET p == start \div ATMEL_MAX_TRANSFER_SIZE
  IN /\ pc = "page" /\ memPage' = start \div ATMEL_64KB_PAGE
     /\ \/ PageSelected(p) /\ Goto("write")
        \/ PageNotSelected(p) /\ End("fail")
     /\ UNCHANGED <<type, mem, unit, req, bout, buin, first, last, start, erased>>

SelectPage ==
  LET p == start \div ATMEL_64KB_PAGE
  IN /\ pc = "page" /\ memPage' = p
     /\ \/ PageSelected(p) /\ Goto("write")
        \/ PageNotSelected(p) /\ End("fail")
     /\ UNCHANGED <<type, mem, unit, req, bout, buin, first, last, start, erased>>

\* Faulty variant: a block may run on to the next 64 kB page.
BlockOverPages ==
  {a \in start .. last :
     \A b \in start .. a : bout[b] # Unset /\ b - start < ATMEL_MAX_TRANSFER_SIZE}

\* The addresses of the next block: no gap, not too many, all on the 64 kB page.
Block ==
  {a \in start .. last :
     \A b \in start .. a : /\ bout[b] # Unset
                           /\ b - start < ATMEL_MAX_TRANSFER_SIZE
                           /\ b \div ATMEL_64KB_PAGE = memPage}

\* What unit u holds when the device has taken the bytes for these addresses.
Written(u, addresses) ==
  [c \in Cells(u) |-> IF \E a \in addresses : Seen(a) = c
                        THEN bout[CHOOSE a \in addresses : Seen(a) = c]
                        ELSE mem[u][c]]

\* The next address that has data, or the end.
NextStart(s) ==
  /\ s \in start .. last + 1 /\ s \notin Block
  /\ s <= last => bout[s] # Unset
  /\ \A a \in start .. s - 1 : bout[a] # Unset => a \in Block

WriteDone == IF req.validate THEN Goto("readUnit") ELSE End("ok")

\* __atmel_flash_block, and the step to the next block.  A block whose request
\* fails may have been written up to any address.
Write ==
  LET u == Reached(req.unit)
  IN /\ pc = "write"
     /\ \/ /\ mem' = [mem EXCEPT ![u] = Written(u, Block)]
           /\ \E s \in start .. last + 1 : NextStart(s) /\ start' = s
           /\ IF start' > last THEN WriteDone
              ELSE Goto(IF start' \div ATMEL_64KB_PAGE # memPage THEN "page" ELSE "write")
        \/ /\ Lost /\ End("fail") /\ UNCHANGED start
           /\ \E s \in start .. last + 1 :
                mem' = [mem EXCEPT ![u] = Written(u, {a \in Block : a < s})]
     /\ UNCHANGED <<type, page, unit, req, bout, buin, first, last, memPage, erased>>

-----------------------------------------------------------------------------
(* atmel_read_flash, for a read and for the validation of a flash.          *)

ReadUnit ==
  /\ pc = "readUnit"
  /\ \/ UnitSelected(req.unit) /\ Goto("readPage")
     \/ UnitNotSelected(req.unit) /\ End("fail")
  /\ first' = Bottom[req.unit] /\ last' = Top[req.unit] /\ start' = Bottom[req.unit]
  /\ UNCHANGED <<type, mem, page, req, bout, buin, memPage, erased>>

\* Only the failure to select the first page ends the command.
ReadPage ==
  LET p == start \div ATMEL_64KB_PAGE
  IN /\ pc = "readPage" /\ memPage' = p
     /\ \/ PageSelected(p) /\ Goto("read")
        \/ PageNotSelected(p) /\ IF start = first THEN End("fail") ELSE Goto("read")
     /\ UNCHANGED <<type, mem, unit, req, bout, buin, first, last, start, erased>>

\* Faulty variant: the block is one byte too long.
ReadEndPast == IF start + ATMEL_MAX_TRANSFER_SIZE > last
                 THEN last ELSE start + ATMEL_MAX_TRANSFER_SIZE

\* The end of the next block; -1 is UINT32_MAX.
ReadEnd ==
  LET most == start + ATMEL_MAX_TRANSFER_SIZE - 1
      end  == IF most \div ATMEL_64KB_PAGE > memPage
                THEN ATMEL_64KB_PAGE * memPage - 1 ELSE most
  IN IF end = -1 \/ end > last THEN last ELSE end

ReadDone == IF req.name = "flash" THEN Goto("validate") ELSE End("ok")

\* Faulty variant: the page is selected once.
ReadOnePage ==
  LET u == Reached(req.unit)
  IN /\ pc = "read"
     /\ \/ /\ start' = ReadEnd + 1
           /\ buin' = [a \in DOMAIN buin |->
                         IF a \in start .. ReadEnd THEN Holds(u, Seen(a)) ELSE buin[a]]
           /\ IF start' > last THEN ReadDone ELSE Goto("read")
        \/ Lost /\ End("fail") /\ UNCHANGED <<start, buin>>
     /\ UNCHANGED <<device, req, bout, first, last, memPage, erased>>

\* __atmel_read_block: a negative result of the upload is an error, one that is
\* less than the length asked for is not.
Read ==
  LET u     == Reached(req.unit)
      legal == start <= ReadEnd /\ ReadEnd - start < ATMEL_MAX_TRANSFER_SIZE
      got   == {ReadEnd} \cup (IF Short THEN start - 1 .. ReadEnd - 1 ELSE {})
  IN /\ pc = "read"
     /\ \/ /\ legal /\ start' = ReadEnd + 1
           /\ \E g \in got :
                buin' = [a \in DOMAIN buin |->
                           IF a \in start .. g THEN Holds(u, Seen(a)) ELSE buin[a]]
           /\ IF start' > last THEN ReadDone
              ELSE Goto(IF start' \div ATMEL_64KB_PAGE # memPage THEN "readPage" ELSE "read")
        \/ (~legal \/ Lost) /\ End("fail") /\ UNCHANGED <<start, buin>>
     /\ UNCHANGED <<device, req, bout, first, last, memPage, erased>>

\* What validation expects at an address: the image's byte, or a blank one.
Expected(a) == IF bout[a] = Unset THEN Blank ELSE bout[a]

\* Faulty variant: only the image's own bytes are compared.
ValidateImageOnly ==
  /\ pc = "validate"
  /\ End(IF \A a \in Given(bout) : buin[a] = bout[a] THEN "ok" ELSE "fail")
  /\ UNCHANGED <<device, host>>

\* intel_validate_buffer
Validate ==
  /\ pc = "validate"
  /\ End(IF \A a \in Bottom[req.unit] .. Top[req.unit] : buin[a] = Expected(a)
           THEN "ok" ELSE "fail")
  /\ UNCHANGED <<device, host>>

Next ==
  /\ \/ \E r \in Requests : Begin(r)
     \/ Prepare \/ Erase
     \/ BlankUnit \/ BlankPage \/ BlankCheck
     \/ SelectUnit \/ SelectPage \/ Write
     \/ ReadUnit \/ ReadPage \/ Read \/ Validate
  /\ UNCHANGED sound

Spec == Init /\ [][Next]_vars

-----------------------------------------------------------------------------
(* Properties.                                                              *)

Succeeded(name) == pc = "idle" /\ ret = "ok" /\ req.name = name

\* A flash command that reports success has put every byte of the hex file where
\* the file says, the bootloader's bytes excepted when they are to be left out:
\* whatever gaps the file has, wherever 64 kB pages end, whichever page and unit
\* earlier commands left selected, and although the validation that follows may
\* itself have gone wrong.  (atmel_flash, execute_flash)
ImageInMemory ==
  Succeeded("flash") =>
    \A a \in Given(Stripped(req)) : mem[req.unit][a] = req.image[a]

\* No command changes a byte outside the range of the memory unit it is for: not
\* the bootloader, not the other unit.  (Units, pages and 16-bit addresses are
\* sent in three different requests.)
OnlyTargetWritten ==
  [][\A m \in Units : \A c \in Cells(m) :
       mem'[m][c] # mem[m][c] =>
         /\ c \in Bottom[m] .. Top[m]
         /\ m = IF req.name = "erase" THEN "flash" ELSE req.unit]_vars

\* An erase that reports success, be it because it finds nothing to do, leaves
\* no byte of the application's flash that is not blank.  (execute_erase)
EraseLeavesBlank ==
  Succeeded("erase") => \A a \in Bottom["flash"] .. Top["flash"] : mem["flash"][a] = Blank

\* A read that reports success returns the contents of the memory.
ReadIsTrue ==
  Succeeded("read") => \A a \in Bottom[req.unit] .. Top[req.unit] : buin[a] = mem[req.unit][a]

\* As long as no request fails it does, whatever the commands before it have left
\* selected.  (atmel_read_flash)
SoundReadIsTrue == sound => ReadIsTrue

\* As long as no request fails, a flash command that has validated with success leaves
\* the whole unit as the image says, with nothing but blank bytes around it.
\* (execute_validate)
SoundValidatedIsExact ==
  sound /\ Succeeded("flash") /\ req.validate =>
    \A a \in Bottom[req.unit] .. Top[req.unit] : mem[req.unit][a] = Expected(a)

\* As long as no request fails, a forced command fails only for its image: no block is
\* so chosen that the transfer functions or the device refuse it, and what was written
\* passes validation unless other bytes of the unit are not blank.  (atmel_flash,
\* atmel_read_flash: the choice of the blocks)
SoundCommandSucceeds ==
  sound /\ pc = "idle" /\ ret = "fail" =>
    /\ req.name = "flash"
    /\ \/ Overlap(req)
       \/ ~(Given(Stripped(req)) \subseteq Bottom[req.unit] .. Top[req.unit])
       \/ Given(Stripped(req)) = {}
       \/ ~req.force
       \/ req.validate /\ \E a \in Bottom[req.unit] .. Top[req.unit] :
                             bout[a] = Unset /\ mem[req.unit][a] # Blank

=============================================================================
