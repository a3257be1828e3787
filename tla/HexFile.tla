------------------------------- MODULE HexFile -------------------------------
(***************************************************************************)
(* dfu-programmer's Intel hex files (intel_hex.c): what image of a memory  *)
(* a file stands for, and what file is printed for the contents of one.    *)
(*                                                                         *)
(* A file is a sequence of records.  The 16-bit address of a data record   *)
(* is relative to the offset that the last record of type 2, 4 or 5 before *)
(* it has set, and the buffer begins at an address of its own, the target  *)
(* offset: 0x80000000 for the flash of an AVR32, 0x08000000 on an STM32.   *)
(***************************************************************************)
EXTENDS Integers, SequencesExt, MemoryBytes

CONSTANTS
  IHEX_COLS,       \* bytes in a line, 16
  IHEX_64KB_PAGE,  \* 0x10000, what 16 bits of an address reach
  AddressSpace,    \* addresses are taken modulo this, 0x80000000
  Unset            \* UINT16_MAX in an image: no byte from the file

ASSUME HexAssumption ==
  /\ IHEX_COLS \in Nat \ {0} /\ IHEX_64KB_PAGE \in Nat \ {0, 1}
  /\ AddressSpace \in Nat \ {0}
  /\ Unset \notin Byte

\* struct intel_record: base is the offset the data bytes of types 2, 4 and 5 stand
\* for, bad says that the line cannot be read or its checksum is wrong.
Record == [base : Nat, address : 0 .. IHEX_64KB_PAGE - 1, data : Seq(Byte),
           type : 0..6, bad : BOOLEAN]

OffsetTypes == {2, 4, 5}

-----------------------------------------------------------------------------
(* Reading a file.                                                          *)

\* intel_validate_line, and intel_read_data before it
ValidLine(r) ==
  /\ ~r.bad /\ r.type \in 0..5
  /\ r.type = 1 => r.data = <<>>
  /\ r.type \in OffsetTypes => r.address = 0

\* The loop of intel_hex_to_buffer ends with the first end record, and with an
\* error at a line that is not valid or at the end of a file without end record.
Complete(file) ==
  \E e \in DOMAIN file : file[e].type = 1 /\ \A i \in 1..e : ValidLine(file[i])

\* The records before the end record.
Body(file) == {i \in DOMAIN file : \A j \in 1..i : file[j].type # 1}

\* Faulty variant: the offset of the line before.
OffsetOfLast(file, i) ==
  IF i > 1 /\ file[i - 1].type \in OffsetTypes THEN file[i - 1].base % AddressSpace ELSE 0

\* address_offset at record i
AddressOffset(file, i) ==
  LET set == {j \in 1 .. i - 1 : file[j].type \in OffsetTypes}
  IN IF set = {} THEN 0 ELSE file[Max(set)].base % AddressSpace

\* intel_process_data: the cell of a buffer of this size, or -1.
CellOf(address, target, size) ==
  LET a == address % AddressSpace
      t == target % AddressSpace
  IN IF a \in t .. t + size - 1 THEN a - t ELSE -1

\* The bytes of record i that go to cell c.  (A record is no longer than the
\* address space.)
BytesFor(file, i, c, target, size) ==
  IF file[i].type # 0 THEN {}
  ELSE {k \in DOMAIN file[i].data :
          CellOf(AddressOffset(file, i) + file[i].address + k - 1, target, size) = c}

\* intel_hex_to_buffer into a buffer made by intel_init_buffer_out: a later byte
\* for the same cell wins, one for no cell is left out with a warning.
ToBuffer(file, target, size) ==
  [c \in 0 .. size - 1 |->
     LET from == {i \in Body(file) : BytesFor(file, i, c, target, size) # {}}
     IN IF from = {} THEN Unset
        ELSE file[Max(from)].data[Max(BytesFor(file, Max(from), c, target, size))]]

\* serialize_memory_image: bytes given on the command line win over the file's.
\* They have absolute addresses; one outside the buffer makes the command fail.
SerialFits(serial, target, size) ==
  \A k \in DOMAIN serial.data : CellOf(serial.address + k - 1, target, size) # -1

WithSerial(image, serial, target, size) ==
  [c \in DOMAIN image |->
     LET b == {k \in DOMAIN serial.data : CellOf(serial.address + k - 1, target, size) = c}
     IN IF b = {} THEN image[c] ELSE serial.data[Max(b)]]

\* What intel_hex_to_buffer returns instead of 0: bytes of the file have no cell.
Outside(file, target, size) ==
  \E i \in Body(file) : BytesFor(file, i, -1, target, size) # {}

Given(image) == {c \in DOMAIN image : image[c] # Unset}

\* intel_flash_prep_buffer: each page with data is filled up with 0xFF, if it begins
\* before the last usable byte.
Filled(image, page, last) ==
  [c \in DOMAIN image |->
     IF /\ image[c] = Unset
        /\ (c \div page) * page < last
        /\ \E d \in Given(image) : d \div page = c \div page
     THEN Blank ELSE image[c]]

\* What intel_validate_buffer expects to read where the image has this.
Expected(x) == IF x = Unset THEN Blank ELSE x

\* intel_validate_buffer, from the first to the last usable byte
Validates(read, image, first, last) ==
  \A c \in first .. last : read[c] = Expected(image[c])

-----------------------------------------------------------------------------
(* Printing a file.                                                         *)

\* Faulty variant: the last byte of a page is not looked at.
ShownShort(buffer, page, first, last, all) ==
  {c \in first .. last :
     LET start == (c \div page) * page
     IN \/ all \/ start < first
        \/ \E d \in start .. start + page - 2 : d \in DOMAIN buffer /\ buffer[d] # Blank}

\* The cells that intel_hex_from_buffer prints: no pages that are blank from the
\* start, unless it is told to print all.  A page that begins before the first
\* cell is not looked at.
Shown(buffer, page, first, last, all) ==
  {c \in first .. last :
     LET start == (c \div page) * page
     IN \/ all \/ start < first
        \/ \E d \in start .. start + page - 1 : d \in DOMAIN buffer /\ buffer[d] # Blank}

DataRecord(address, data) ==
  [address |-> address, data |-> data, base |-> 0, type |-> 0, bad |-> FALSE]
OffsetRecord(base) ==
  [address |-> 0, data |-> <<>>, base |-> base, type |-> 4, bad |-> FALSE]
EndRecord ==
  [address |-> 0, data |-> <<>>, base |-> 0, type |-> 1, bad |-> FALSE]

\* While a file is printed: the records that are printed, the offset the last record of
\* type 4 has set, and the line that is not full yet.
Unprinted == [file |-> <<>>, offset |-> 0, address |-> 0, data |-> <<>>]

\* ihex_make_line: a line without data is not printed.
Printed(s) == IF s.data = <<>> THEN s.file ELSE Append(s.file, DataRecord(s.address, s.data))

\* ihex_clear_record, whose modulus is 0xffff, and the first byte of the new line.
NewLine(file, offset, address, byte) ==
  [file |-> file, offset |-> offset, data |-> <<byte>>,
   address |-> ((address - offset) % (IHEX_64KB_PAGE - 1)) % IHEX_64KB_PAGE]

\* The next byte begins a line after an extended linear address record
\* (ihex_make_record_04_offset) if 16 bits do not reach it, or else if there is no line
\* or a full one.
PutByte(s, address, byte) ==
  IF address - s.offset >= IHEX_64KB_PAGE
  THEN LET offset == (address \div IHEX_64KB_PAGE) * IHEX_64KB_PAGE
       IN NewLine(Append(Printed(s), OffsetRecord(offset)), offset, address, byte)
  ELSE IF Len(s.data) \in {0, IHEX_COLS} THEN NewLine(Printed(s), s.offset, address, byte)
  ELSE [s EXCEPT !.data = Append(s.data, byte)]

\* A page that is left out ends the line.
EndLine(s) == [s EXCEPT !.file = Printed(s), !.data = <<>>]

\* intel_hex_from_buffer: cell by cell, and the end record.
FromBuffer(buffer, page, first, last, all, target) ==
  LET shown == Shown(buffer, page, first, last, all)
      after[c \in first - 1 .. last] ==
        IF c < first THEN Unprinted
        ELSE IF c \in shown THEN PutByte(after[c - 1], c + target, buffer[c])
        ELSE EndLine(after[c - 1])
  IN Append(Printed(after[last]), EndRecord)

\* The part of a memory execute_dump prints: about from the first page with data to
\* the last.  Each search stops at a byte that is not blank before it comes to note
\* that this is on another page; the first one does not look at the last byte.
FirstShown(buffer, page, first, last) ==
  LET data == {c \in first .. last - 1 : buffer[c] # Blank}
      d    == CHOOSE c \in data : \A e \in data : c <= e
      s    == ((d - 1) \div page) * page
  IN IF d = first \/ s < first THEN first ELSE s

LastShown(buffer, page, first, last) ==
  LET data == {c \in first + 1 .. last : buffer[c] # Blank} \cup {first}
      d    == CHOOSE c \in data : \A e \in data : e <= c
  IN IF (d + 1) \div page < last \div page THEN ((d + 1) \div page) * page + page - 1
     ELSE last

\* A memory taken for blank is printed as one page.
DumpRange(buffer, page, first, last, force) ==
  IF force THEN <<0, last>>
  ELSE IF \A c \in first .. last - 1 : buffer[c] = Blank THEN <<0, page - 1>>
  ELSE LET f == FirstShown(buffer, page, first, last)
       IN <<f, LastShown(buffer, page, f, last)>>

\* The file execute_dump prints.
Dumped(buffer, page, first, last, force, target) ==
  LET r == DumpRange(buffer, page, first, last, force)
  IN FromBuffer(buffer, page, r[1], r[2], force, target)
=============================================================================
