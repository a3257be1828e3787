---------------------------- MODULE Stm32Program ----------------------------
(***************************************************************************)
(* dfu-programmer's commands on an STM32: stm32.c, with execute_erase,     *)
(* execute_flash, execute_dump, execute_launch and the conversions of      *)
(* commands.c, and main.c.                                                 *)
(*                                                                         *)
(* The device computes the address of a block from the number of the       *)
(* transaction and the address pointer it has been given last, so that the *)
(* program has to set the pointer again whenever the blocks it transfers   *)
(* are not full ones that follow each other.                               *)
(***************************************************************************)
EXTENDS Dfu, HexFile

CONSTANTS
  STM32_MIN_SECTOR_BOUND,  \* 0x4000 in the code
  STM32_FLASH_OFFSET,      \* 0x08000000 in the code
  PageSize,                \* flash_page_size
  Requests,                \* the command lines the user may give
  Old                      \* what is in the flash at first

\* Lines of hex files begin at even addresses, never at the last one of 64 kB.
\* file: the hex file to flash or convert; serial: bytes of --serial; bytes: the
\* binary file to convert.
ASSUME ProgramAssumption ==
  /\ STM32_MIN_SECTOR_BOUND \in Nat \ {0} /\ PageSize \in Nat \ {0}
  /\ STM32_MIN_SECTOR_BOUND % STM32_MAX_TRANSFER_SIZE = 0 /\ Size % PageSize = 0
  /\ STM32_FLASH_OFFSET \in Nat /\ STM32_FLASH_OFFSET + Size <= AddressSpace /\ Size < AddressSpace
  /\ \A n \in {PageSize, STM32_FLASH_OFFSET, IHEX_COLS, IHEX_64KB_PAGE} : n % 2 = 0
  /\ Old \in [Cells -> Byte]
  /\ Requests \subseteq
       [name : {"erase", "flash", "read", "launch", "other", "bin2hex", "hex2bin"},
        file : Seq(Record), serial : [address : Nat, data : Seq(Byte)], bytes : Seq(Byte),
        force : BOOLEAN, validate : BOOLEAN]

LastCell == Size - 1
Images == [Cells -> Byte \cup {Unset}]

VARIABLES
  req,          \* the command line
  job,          \* what the address pointer is set for
  image, buin,  \* the image to write, the bytes read
  start,        \* block_start
  base,         \* address_offset
  final,        \* data_end
  out           \* the hex file that has been printed

dfu  == <<dev, pc, trans, tries, spare, ret>>
host == <<req, job, image, buin, start, base, final, out>>
vars == <<dfu, host>>

Blanks == [c \in Cells |-> Blank]
NoImage == [c \in Cells |-> Unset]

Places == {"idle", "open", "status", "ready", "erase", "eraseRun", "eraseDone", "ptrCheck",
           "ptrSend", "ptrRun", "ptrDone", "put", "putRun", "putDone", "getCheck", "get",
           "validate", "goCheck", "go", "goRun"}

TypeOK ==
  /\ dev \in Device /\ pc \in Places /\ trans \in Nat /\ tries \in 0..Retries
  /\ spare \in 0..MaxSpare /\ ret \in {"none", "ok", "fail"}
  /\ req \in Requests /\ job \in {"none", "write", "read", "launch"}
  /\ image \in Images /\ buin \in [Cells -> Byte]
  /\ start \in 0..Size /\ base \in 0..Size /\ final \in Cells

\* The device as other programs have left it.
Init ==
  /\ \E s \in States, l \in BOOLEAN :
       dev = [state |-> s, ok |-> s # "error", ptr |-> 0, todo |-> Nothing, mem |-> Old, locked |-> l]
  /\ pc = "idle" /\ trans = 0 /\ tries = 0 /\ spare = MaxSpare /\ ret = "none"
  /\ req \in Requests /\ job = "none" /\ image = NoImage /\ buin = Blanks
  /\ start = 0 /\ base = 0 /\ final = 0 /\ out = <<>>

-----------------------------------------------------------------------------
(* main.c and commands.c                                                    *)

\* The interface is released; only after a launch may that fail unnoticed.
Exit(result) ==
  /\ pc' = "idle"
  /\ ret' \in IF Lossy /\ req.name # "launch" THEN {result, "fail"} ELSE {result}

Conversions == {"bin2hex", "hex2bin"}

Begin(r) ==
  /\ pc = "idle" /\ r.name \notin Conversions /\ pc' = "open" /\ ret' = "none"
  /\ trans' = 0 /\ spare' = MaxSpare /\ tries' = 0
  /\ req' = r /\ job' = "none" /\ image' = NoImage /\ buin' = Blanks
  /\ start' = 0 /\ base' = 0 /\ final' = 0 /\ out' = <<>>
  /\ UNCHANGED dev

\* The buffer execute_hex2bin fills, at no offset whatever the device.
Converted(r) == ToBuffer(r.file, 0, Size)

\* What execute_bin2hex takes for a memory: the bytes it reads, blanks, and what lies
\* behind its buffer.  The last cell it prints is the one after those it has read; the
\* search for a page with data goes on from there.
BinLength(r) == IF Len(r.bytes) < Size THEN Len(r.bytes) ELSE Size
BinRead(r, behind) ==
  [c \in 0 .. Size + PageSize - 1 |->
     IF c >= Size THEN behind[c - Size + 1] ELSE IF c < BinLength(r) THEN r.bytes[c + 1] ELSE Blank]
BinPrinted(r, behind) ==
  FromBuffer(BinRead(r, behind), PageSize, 0, BinLength(r), r.force, 0)

\* No device is needed for a conversion.
Convert(r) ==
  LET good == IF r.name = "hex2bin" THEN Complete(r.file) /\ ~Outside(r.file, 0, Size)
              ELSE r.bytes # <<>>
  IN /\ pc = "idle" /\ r.name \in Conversions /\ pc' = "idle"
     /\ ret' = IF good THEN "ok" ELSE "fail"
     /\ trans' = 0 /\ spare' = MaxSpare /\ tries' = 0
     /\ req' = r /\ job' = "none" /\ start' = 0 /\ base' = 0 /\ final' = 0
     /\ image' = IF good /\ r.name = "hex2bin" THEN Converted(r) ELSE NoImage
     /\ buin' = Blanks
     /\ IF good /\ r.name = "bin2hex"
        THEN \E behind \in [1 .. PageSize -> Byte] : out' = BinPrinted(r, behind)
        ELSE out' = <<>>
     /\ UNCHANGED dev

\* execute_flash's image, before and after the pages are filled up.
Wanted(r) ==
  WithSerial(ToBuffer(r.file, STM32_FLASH_OFFSET, Size), r.serial, STM32_FLASH_OFFSET, Size)
Image(r) == Filled(Wanted(r), PageSize, LastCell)

Usable(r) ==
  /\ Complete(r.file) /\ SerialFits(r.serial, STM32_FLASH_OFFSET, Size)
  /\ Given(Wanted(r)) # {}

StartFlash ==
  LET data == Given(Image(req))
  IN /\ pc = "ready" /\ req.name = "flash"
     /\ \/ /\ ~Usable(req) /\ Exit("fail") /\ UNCHANGED <<job, image, start, final>>
        \/ /\ Usable(req) /\ Goto("ptrCheck") /\ job' = "write" /\ image' = Image(req)
           /\ \E f \in data : (\A c \in data : f <= c) /\ start' = f
           /\ \E l \in data : (\A c \in data : c <= l) /\ final' = l
     /\ UNCHANGED <<dev, trans, tries, spare, req, buin, base, out>>

\* Faulty variant: the last byte to be read is the size of the memory.
StartReadPast ==
  /\ pc = "ready" /\ req.name = "read"
  /\ Goto("getCheck") /\ job' = "read" /\ start' = 0 /\ base' = 0 /\ final' = Size
  /\ UNCHANGED <<dev, trans, tries, spare, req, image, buin, out>>

StartRead ==
  /\ pc = "ready" /\ req.name = "read"
  /\ Goto("getCheck") /\ job' = "read" /\ start' = 0 /\ base' = 0 /\ final' = LastCell
  /\ UNCHANGED <<dev, trans, tries, spare, req, image, buin, out>>

\* stm32_start_app sets the pointer to the start of the flash.
StartLaunch ==
  /\ pc = "ready" /\ req.name = "launch"
  /\ Goto("ptrCheck") /\ job' = "launch" /\ start' = 0
  /\ UNCHANGED <<dev, trans, tries, spare, req, image, buin, base, final, out>>

StartErase ==
  /\ pc = "ready" /\ req.name = "erase" /\ Goto("erase")
  /\ UNCHANGED <<dev, trans, tries, spare, host>>

\* get, getfuse, setfuse, configure and setsecure are not for an STM32.
NotSupported ==
  /\ pc = "ready" /\ req.name = "other" /\ Exit("fail")
  /\ UNCHANGED <<dev, trans, tries, spare, host>>

-----------------------------------------------------------------------------
(* stm32.c                                                                  *)

\* Faulty variant: a request that has failed is no reason to stop.
StatusTrusted ==
  {[good |-> s.ok \/ ~s.short, dev |-> s.dev, spare |-> IF s.short THEN spare - 1 ELSE spare]
   : s \in GetStatus}

\* stm32_get_status: a bad status is cleared, but the answer stays bad.
StatusChecked ==
  UNION {IF s.short \/ s.ok
           THEN {[good |-> s.ok, dev |-> s.dev, spare |-> IF s.short THEN spare - 1 ELSE spare]}
           ELSE {[good |-> FALSE, dev |-> d, spare |-> spare] : d \in Anyhow(s.dev, Cleared(s.dev))}
         : s \in GetStatus}

\* One status request and what is done next.
Check(here, there) ==
  /\ pc = here
  /\ \E s \in StatusChecked :
       /\ dev' = s.dev /\ spare' = s.spare
       /\ IF s.good THEN Goto(there) ELSE Exit("fail")
  /\ UNCHANGED <<trans, tries, host>>

\* The last one of a command.
CheckLast(here) ==
  /\ pc = here
  /\ \E s \in StatusChecked :
       /\ dev' = s.dev /\ spare' = s.spare
       /\ Exit(IF s.good THEN "ok" ELSE "fail")
  /\ UNCHANGED <<trans, tries, host>>

Command(op, at) == [bytes |-> <<>>, op |-> op, at |-> at]

\* A command is sent as transaction 0.
Send(here, todo, there) ==
  /\ pc = here /\ trans' = 1
  /\ \E o \in Download(todo) :
       dev' = o.dev /\ IF o.good THEN Goto(there) ELSE Exit("fail")
  /\ UNCHANGED <<tries, spare, host>>

\* stm32_erase, stm32_erase_flash
Erase ==
  \/ Send("erase", Command("erase", 0), "eraseRun")
  \/ Check("eraseRun", "eraseDone")
  \/ CheckLast("eraseDone")

\* stm32_set_address_ptr; the transfer that follows begins with transaction 2.
PtrDone ==
  /\ pc = "ptrDone"
  /\ \E s \in StatusChecked :
       /\ dev' = s.dev /\ spare' = s.spare
       /\ IF s.good THEN Goto([write |-> "put", read |-> "getCheck", launch |-> "goCheck"][job])
          ELSE Exit("fail")
  /\ trans' = 2 /\ base' = start
  /\ UNCHANGED <<tries, req, job, image, buin, start, final, out>>

\* Faulty variant: the pointer is set to where it was set before.
SetAddressPtrAgain ==
  \/ Check("ptrCheck", "ptrSend")
  \/ Send("ptrSend", Command("ptr", base), "ptrRun")
  \/ Check("ptrRun", "ptrDone")
  \/ PtrDone

SetAddressPtr ==
  \/ Check("ptrCheck", "ptrSend")
  \/ Send("ptrSend", Command("ptr", start), "ptrRun")
  \/ Check("ptrRun", "ptrDone")
  \/ PtrDone

\* stm32_start_app
StartApp ==
  \/ Check("goCheck", "go")
  \/ Send("go", Command("leave", 0), "goRun")
  \/ CheckLast("goRun")

\* The cells of the next block to write: no gap, not too many, all in one sector.
Block ==
  {c \in start .. final :
     \A d \in start .. c :
       /\ image[d] # Unset /\ d - start < STM32_MAX_TRANSFER_SIZE
       /\ d \div STM32_MIN_SECTOR_BOUND = start \div STM32_MIN_SECTOR_BOUND}

BlockEnd == CHOOSE c \in Block : c + 1 \notin Block

\* stm32_write_block
Put ==
  /\ pc = "put" /\ trans' = trans + 1
  /\ \E o \in Download([bytes |-> [k \in 1 .. BlockEnd - start + 1 |-> image[start + k - 1]],
                        op |-> "write", at |-> trans]) :
       dev' = o.dev /\ IF o.good THEN Goto("putRun") ELSE Exit("fail")
  /\ UNCHANGED <<tries, spare, host>>

\* Faulty variant: gaps between full blocks are overlooked.
InStepFull(next) == BlockEnd - start + 1 = STM32_MAX_TRANSFER_SIZE

\* The next transaction is for the next cell to be written, so that the address
\* pointer may stay.
InStep(next) ==
  /\ BlockEnd - start + 1 = STM32_MAX_TRANSFER_SIZE
  /\ next = STM32_MAX_TRANSFER_SIZE * (trans - 2) + base

NextStart(s) ==
  /\ s \in BlockEnd + 1 .. final + 1
  /\ s <= final => image[s] # Unset
  /\ \A c \in BlockEnd + 1 .. s - 1 : image[c] = Unset

\* The end of stm32_write_flash's loop; execute_validate comes after the last block.
PutDone ==
  /\ pc = "putDone"
  /\ \E s \in StatusChecked, n \in 0..Size :
       /\ dev' = s.dev /\ spare' = s.spare /\ NextStart(n)
       /\ IF ~s.good THEN Exit("fail") /\ UNCHANGED <<job, start, base, final>>
          ELSE IF n <= final
          THEN /\ Goto(IF InStep(n) THEN "put" ELSE "ptrCheck")
               /\ start' = n /\ UNCHANGED <<job, base, final>>
          ELSE IF req.validate
          THEN /\ Goto("getCheck") /\ job' = "read"
               /\ start' = 0 /\ base' = 0 /\ final' = LastCell
          ELSE Exit("ok") /\ UNCHANGED <<job, start, base, final>>
  /\ UNCHANGED <<trans, tries, req, image, buin, out>>

WriteBlock == Put \/ Check("putRun", "putDone") \/ PutDone

\* The last cell of the next block to read: the blocks begin at multiples of the
\* transfer size, so that none reaches over the end of a sector.
GetEnd ==
  IF start + STM32_MAX_TRANSFER_SIZE - 1 > final THEN final ELSE start + STM32_MAX_TRANSFER_SIZE - 1

\* The numbers are unsigned, so that with no pointer set the difference is never right.
ReadInStep ==
  /\ GetEnd - start + 1 = STM32_MAX_TRANSFER_SIZE
  /\ GetEnd + 1 = STM32_MAX_TRANSFER_SIZE * (trans' - 2) + base

\* stm32_read_flash's loop and stm32_read_block.  The first block is asked for
\* whatever the pointer and the transaction are.  An answer shorter than the block
\* is no error.
Get ==
  /\ pc = "get" /\ trans' = trans + 1
  /\ \E o \in Upload(GetEnd - start + 1) :
       /\ o.good /\ dev' = o.dev
       /\ LET bytes == Uploaded(dev, trans, GetEnd - start + 1)
          IN buin' = [c \in Cells |-> IF c \in start .. start + Len(bytes) - 1
                                        THEN bytes[c - start + 1] ELSE buin[c]]
       /\ start' = GetEnd + 1
       /\ IF start' <= final THEN Goto(IF ReadInStep THEN "getCheck" ELSE "ptrCheck")
          ELSE IF req.name = "flash" THEN Goto("validate") ELSE Exit("ok")
       /\ out' = IF start' > final /\ req.name = "read"
                   THEN Dumped(buin', PageSize, 0, LastCell, req.force, STM32_FLASH_OFFSET)
                   ELSE out
  /\ UNCHANGED <<tries, spare, req, job, image, base, final>>

\* The status is asked for and cleared, but not that of a protected device.
GetFails ==
  /\ pc = "get" /\ trans' = trans + 1
  /\ \E o \in Upload(GetEnd - start + 1) :
       ~o.good /\ dev' \in {o.dev} \cup Cleared(o.dev)
  /\ Exit("fail")
  /\ UNCHANGED <<tries, spare, host>>

ReadBlock == Check("getCheck", "get") \/ Get \/ GetFails

\* execute_validate, after the read
Validate ==
  /\ pc = "validate"
  /\ Exit(IF Validates(buin, image, 0, LastCell) THEN "ok" ELSE "fail")
  /\ UNCHANGED <<dev, trans, tries, spare, host>>

-----------------------------------------------------------------------------
GetsIdle == MakeIdle /\ UNCHANGED host

Process ==
  \/ GetsIdle
  \/ StartErase \/ StartFlash \/ StartRead \/ StartLaunch \/ NotSupported
  \/ Erase \/ SetAddressPtr \/ StartApp \/ WriteBlock \/ ReadBlock \/ Validate

\* The user starts the bootloader again.
Replug ==
  /\ pc = "idle" /\ dev.state = "app"
  /\ dev' = Restarted(dev, "idle") /\ ret' = "none"
  /\ UNCHANGED <<pc, trans, tries, spare, host>>

Next == Process \/ Replug \/ \E r \in Requests : Begin(r) \/ Convert(r)

\* A process goes on by itself.
Spec == Init /\ [][Next]_vars /\ WF_vars(GetsIdle)

-----------------------------------------------------------------------------
(* Properties.                                                              *)

Succeeded(name) == pc = "idle" /\ ret = "ok" /\ req.name = name

\* What a run of data says that begins at an address: for each address the last of its
\* bytes there.  (The program does not look at the top bit of an address.)
RunSays(from, data) ==
  LET bytesOf(a) == {k \in DOMAIN data : (from + k - 1) % AddressSpace = a}
  IN [a \in {(from + k - 1) % AddressSpace : k \in DOMAIN data} |-> data[Max(bytesOf(a))]]

\* The offset that holds at record i, and what the record says.
OffsetAt(file, i) ==
  LET offsets == {j \in 1 .. i - 1 : file[j].type \in OffsetTypes}
  IN IF offsets = {} THEN 0 ELSE file[Max(offsets)].base

RecordSays(file, i) ==
  IF file[i].type = 0 THEN RunSays(OffsetAt(file, i) + file[i].address, file[i].data) ELSE <<>>

\* What a hex file says: for each address what the last record that has it says.
Said(file) ==
  LET saying(a) == {i \in Body(file) : a \in DOMAIN RecordSays(file, i)}
  IN [a \in UNION {DOMAIN RecordSays(file, i) : i \in Body(file)} |->
        RecordSays(file, Max(saying(a)))[a]]

\* What a flash command is asked to put into the flash, by address.
Meant(r) ==
  LET said   == Said(r.file)
      serial == RunSays(r.serial.address, r.serial.data)
  IN [a \in DOMAIN serial \cup DOMAIN said |-> IF a \in DOMAIN serial THEN serial[a] ELSE said[a]]

\* All that may be written, as pairs of an address and a byte.
MeantBytes ==
  UNION {LET m == Meant(r) IN {<<a, m[a]>> : a \in DOMAIN m} : r \in {q \in Requests : q.name = "flash"}}

\* A flash that reports success has put every byte of the hex file and of --serial
\* where it belongs, however the data lies to the blocks, sectors and pages and
\* whatever became of the requests; an erase has left nothing, a launch has started
\* the application.  (stm32_write_flash, stm32_erase, stm32_start_app)
SuccessIsTrue ==
  /\ Succeeded("flash") =>
       LET m == Meant(req)
       IN \A a \in DOMAIN m :
            a - STM32_FLASH_OFFSET \in Cells => dev.mem[a - STM32_FLASH_OFFSET] = m[a]
  /\ Succeeded("erase") => dev.mem = Blanks
  /\ Succeeded("launch") => dev.state = "app"

\* Whatever fails, whenever processes give up and others follow: no step ever puts
\* anything into a cell but a blank byte or one that a hex file or --serial has for
\* just this address.  (The address of a block is made of a pointer and a number of
\* which the program has its own idea.)
NoByteMisplaced ==
  [][\A c \in Cells :
       dev'.mem[c] # dev.mem[c] =>
         dev'.mem[c] = Blank \/ <<c + STM32_FLASH_OFFSET, dev'.mem[c]>> \in MeantBytes]_vars

\* A process that reports success leaves nothing in the device for the first status
\* request of the next process to execute.  (dfu_make_idle asks for the status
\* before it aborts anything; a conversion does not talk to the device)
NothingPending ==
  pc = "idle" /\ ret = "ok" /\ req.name \notin Conversions => dev.todo = Nothing

\* A read that reports success returns the flash from the second block on; the
\* first block is asked for without its address.  (stm32_read_flash)
TailIsTrue ==
  Succeeded("read") => \A c \in Cells : c >= STM32_MAX_TRANSFER_SIZE => buin[c] = dev.mem[c]

Reads(file, target) == [c \in Cells |-> Expected(ToBuffer(file, target, Size)[c])]

\* The hex file that is printed for a memory or a binary file is one the program
\* reads back as the same bytes, whether blank pages are left out or not and
\* wherever its lines meet 64 kB pages; only a last byte with nothing but blanks
\* before it is lost by a dump.  A file converted to binary has each byte at its
\* address.  (execute_dump, execute_bin2hex, execute_hex2bin, intel_hex.c)
FilesAreTrue ==
  /\ out \in Seq(Record)
  /\ Succeeded("read") =>
       /\ Complete(out) /\ ~Outside(out, STM32_FLASH_OFFSET, Size)
       /\ \/ Reads(out, STM32_FLASH_OFFSET) = buin
          \/ ~req.force /\ \A c \in Cells \ {LastCell} : buin[c] = Blank
  /\ Succeeded("bin2hex") =>
       /\ Complete(out)
       /\ \A k \in DOMAIN req.bytes : k <= Size => Reads(out, 0)[k - 1] = req.bytes[k]
  /\ Succeeded("hex2bin") =>
       \A c \in Cells : image[c] = IF c \in DOMAIN Said(req.file) THEN Said(req.file)[c] ELSE Unset

\* dfu_device_init ends, whatever state the device is found in and however often it
\* does not do what it is told, as long as there are no more short answers and
\* vain resets than the bound: only the retries see to that.
InitEnds == pc \in {"open", "status"} ~> pc \in {"ready", "idle"}
=============================================================================
