------------------------- MODULE AtmelProgramProofs -------------------------
(***************************************************************************)
(* That a flash command which reports success has written the whole image, *)
(* that an erase which does has left the flash blank, and that no command  *)
(* ever writes anywhere else; and, when no request fails, that what has    *)
(* been read is what the memory holds and that only the image makes a      *)
(* command fail.  All for every size of page, block and memory, every      *)
(* image and every class of device.                                        *)
(*                                                                         *)
(* ImageInMemory speaks of the end of a command only.  The invariant IInv  *)
(* says what holds on the way: which part of the image has been written    *)
(* (Progress), and that the page and the unit the device has selected are  *)
(* those of the block about to be sent (OnPage, OnUnit).  EInv adds what   *)
(* the blank checks of an erase have seen (Checking, Checked), SInv what   *)
(* has been read (Reading, ReadSoFar).                                     *)
(***************************************************************************)
EXTENDS AtmelProgram, TLAPS

Names ==
  /\ pc \in {"prepare", "unit", "page", "write", "validate"} => req.name = "flash"
  /\ pc = "erase" => req.name = "erase"

Ranges ==
  /\ first \in Bottom[req.unit] .. Top[req.unit]
  /\ last \in Bottom[req.unit] .. Top[req.unit]
  /\ first <= last
  /\ pc \in {"blankUnit", "blankPage", "blank", "page", "write", "readPage", "read"} =>
       start \in first .. last

\* The image to write is the one given, its pages filled up.
Kept ==
  pc \notin {"idle", "prepare"} /\ req.name = "flash" =>
    \A a \in Given(Stripped(req)) : bout[a] = req.image[a]

Within ==
  pc \in {"blankUnit", "blankPage", "blank", "unit", "page", "write"} /\ req.name = "flash" =>
    Given(bout) \subseteq first .. last

OnUnit == pc \in {"page", "write"} => Reached(req.unit) = req.unit

OnPage ==
  /\ type = "8051" => page = 0
  /\ pc \in {"blank", "write"} => memPage = start \div ATMEL_64KB_PAGE
  /\ pc = "write" => page = memPage

Progress ==
  pc \in {"page", "write"} =>
    \A a \in first .. start - 1 : bout[a] # Unset => mem[req.unit][a] = bout[a]

AllWritten ==
  pc \in {"readUnit", "readPage", "read", "validate"} /\ req.name = "flash" =>
    \A a \in Given(bout) : mem[req.unit][a] = bout[a]

IInv ==
  /\ TypeOK /\ Names /\ Ranges /\ Kept /\ Within
  /\ OnUnit /\ OnPage /\ Progress /\ AllWritten /\ ImageInMemory

-----------------------------------------------------------------------------
(* Arithmetic of pages.                                                     *)

\* Page number and 16-bit address together give the address back.
LEMMA DivMod ==
  ASSUME NEW P \in Nat \ {0}, NEW a \in Nat
  PROVE  /\ a \div P \in Nat
         /\ (a \div P) * P + (a % P) = a
  OBVIOUS

\* An address is not beyond the end of its page.
LEMMA DivNext ==
  ASSUME NEW P \in Nat \ {0}, NEW a \in Nat
  PROVE  /\ a <= ((a \div P) + 1) * P - 1
         /\ ((a \div P) + 1) * P - 1 \in Nat
  OBVIOUS

LEMMA DivSmall ==
  ASSUME NEW P \in Nat \ {0}, NEW a \in Nat, a < P
  PROVE  a \div P = 0
  OBVIOUS

\* The pages of an address within a memory are among the device's pages.
LEMMA PageOfCell ==
  ASSUME NEW m \in Units, NEW a \in Cells(m)
  PROVE  /\ a \div ATMEL_64KB_PAGE \in Pages
         /\ a \div ATMEL_64KB_PAGE \in Nat
         /\ "8051" \in Types => a \div ATMEL_64KB_PAGE = 0
<1>1. a \in Nat
  BY LayoutAssumption DEF Cells
<1>2. a \div ATMEL_64KB_PAGE \in Pages
  BY DEF Pages
<1>3. a \div ATMEL_64KB_PAGE \in Nat
  BY <1>1, DivMod, LayoutAssumption
<1>4. ASSUME "8051" \in Types PROVE a < ATMEL_64KB_PAGE
  BY <1>1, <1>4, LayoutAssumption DEF Cells
<1> QED
  BY <1>1, <1>2, <1>3, <1>4, DivSmall, LayoutAssumption

LEMMA PagesAreNumbers == Pages \subseteq Nat
<1> SUFFICES ASSUME NEW p \in Pages PROVE p \in Nat
  OBVIOUS
<1>1. PICK m \in Units : \E a \in Cells(m) : p = a \div ATMEL_64KB_PAGE
  BY DEF Pages
<1> QED
  BY <1>1, PageOfCell

\* The addresses in the range of a command are cells of its unit.
LEMMA RangeInUnit ==
  ASSUME NEW m \in Units
  PROVE  Bottom[m] .. Top[m] \subseteq Cells(m) /\ Cells(m) \subseteq Nat
  BY LayoutAssumption DEF Cells

LEMMA RequestType ==
  ASSUME NEW q \in Requests
  PROVE  /\ q.unit \in Units /\ q.name \in {"flash", "erase", "read"}
         /\ q.image \in [Cells(q.unit) -> Byte \cup {Unset}]
         /\ q.name = "erase" => q.unit = "flash"
<1>1. q.unit \in Units /\ q.name \in {"flash", "erase", "read"}
  BY DataAssumption
<1>2. /\ q.image \in [Cells(q.unit) -> Byte \cup {Unset}]
      /\ q.name = "erase" => q.unit = "flash"
  BY RequestAssumption
<1> QED
  BY <1>1, <1>2

-----------------------------------------------------------------------------
(* A write.                                                                 *)

\* On the right page, the cells a write reaches are those with its addresses.
LEMMA SeenIsAddress ==
  ASSUME TypeOK, Ranges, OnPage, pc = "write", NEW a \in Block
  PROVE  Seen(a) = a /\ a \in Bottom[req.unit] .. Top[req.unit] /\ a \in start .. last
<1>1. req.unit \in Units
  BY DataAssumption DEF TypeOK
<1>2. a \in Bottom[req.unit] .. Top[req.unit] /\ a \in start .. last
  BY <1>1, LayoutAssumption DEF Block, Ranges, TypeOK
<1>3. a \in Nat
  BY <1>1, <1>2, RangeInUnit
<1>4. a \div ATMEL_64KB_PAGE = page
  BY <1>2 DEF Block, OnPage, TypeOK
<1> QED
  BY <1>2, <1>3, <1>4, DivMod, LayoutAssumption DEF Seen

\* What a write of a part of the block leaves in the unit.
LEMMA WrittenCells ==
  ASSUME TypeOK, Ranges, OnPage, pc = "write",
         NEW part \in SUBSET Block, NEW c \in Cells(req.unit)
  PROVE  Written(req.unit, part)[c] = IF c \in part THEN bout[c] ELSE mem[req.unit][c]
<1>1. \A a \in part : Seen(a) = a
  BY SeenIsAddress
<1>2. CASE c \in part
  <2>1. (CHOOSE a \in part : Seen(a) = c) = c
    BY <1>1, <1>2
  <2> QED
    BY <1>1, <1>2, <2>1 DEF Written
<1>3. CASE c \notin part
  BY <1>1, <1>3 DEF Written
<1> QED
  BY <1>2, <1>3

LEMMA WrittenType ==
  ASSUME TypeOK, Ranges, OnPage, pc = "write", NEW part \in SUBSET Block
  PROVE  Written(req.unit, part) \in [Cells(req.unit) -> Byte]
<1>1. req.unit \in Units
  BY DataAssumption DEF TypeOK
<1>2. \A c \in Cells(req.unit) : mem[req.unit][c] \in Byte
  BY <1>1 DEF TypeOK
<1>3. \A c \in part : bout[c] \in Byte
  <2> SUFFICES ASSUME NEW c \in part PROVE bout[c] \in Byte
    OBVIOUS
  <2>1. c \in Cells(req.unit) /\ c \in start .. c
    BY <1>1, SeenIsAddress, RangeInUnit, LayoutAssumption DEF TypeOK
  <2>2. bout[c] # Unset
    BY <2>1 DEF Block
  <2> QED
    BY <2>1, <2>2 DEF TypeOK
<1>4. Written(req.unit, part) = [c \in Cells(req.unit) |-> Written(req.unit, part)[c]]
  BY DEF Written
<1> QED
  BY <1>2, <1>3, <1>4, WrittenCells

-----------------------------------------------------------------------------
(* The parts of the invariant.                                              *)

LEMMA InitInv == Init => IInv
<1> SUFFICES ASSUME Init PROVE IInv
  OBVIOUS
<1>0. req \in Requests
  BY DEF Init
<1>1. req.unit \in Units /\ req.image \in [Cells(req.unit) -> Byte \cup {Unset}]
  BY <1>0, RequestType
<1>2. 0 \in Pages
  <2>1. "flash" \in Units /\ 0 \in Cells("flash")
    BY LayoutAssumption DEF Cells, Units
  <2>2. 0 \div ATMEL_64KB_PAGE = 0
    BY DivSmall, LayoutAssumption
  <2> QED
    BY <2>1, <2>2, PageOfCell
<1>3. mem \in [Units -> UNION {[Cells(m) -> Byte] : m \in Units}]
  BY DEF Init
<1>4. Bottom[req.unit] \in Nat /\ Top[req.unit] \in Nat /\ Bottom[req.unit] <= Top[req.unit]
  BY <1>1, LayoutAssumption
<1>5. TypeOK
  BY <1>1, <1>2, <1>3, <1>4, DataAssumption DEF Init, TypeOK, Pcs
<1>6. Ranges
  BY <1>4 DEF Init, Ranges
<1> QED
  BY <1>5, <1>6 DEF Init, IInv, Names, Kept, Within, OnUnit, OnPage, Progress, AllWritten,
                    ImageInMemory, Succeeded

LEMMA NamesNext == IInv /\ [Next]_vars => Names'
<1> SUFFICES ASSUME IInv, [Next]_vars PROVE Names'
  OBVIOUS
<1> USE DEF IInv, Names, host, device, Goto, End
<1>1. ASSUME NEW r \in Requests, Begin(r) PROVE Names'
  BY <1>1, DataAssumption DEF Begin
<1>2. CASE Prepare
  BY <1>2 DEF Prepare
<1>3. CASE Erase
  BY <1>3 DEF Erase
<1>4. CASE BlankUnit \/ BlankPage \/ BlankCheck
  BY <1>4, DataAssumption DEF TypeOK, BlankUnit, BlankPage, BlankCheck, NotBlank, IsBlank
<1>5. CASE SelectUnit \/ SelectPage
  BY <1>5 DEF SelectUnit, SelectPage
<1>6. CASE Write
  BY <1>6 DEF Write, WriteDone
<1>7. CASE ReadUnit \/ ReadPage \/ Read
  BY <1>7 DEF ReadUnit, ReadPage, Read, ReadDone
<1>8. CASE Validate \/ UNCHANGED vars
  BY <1>8 DEF Validate, vars
<1> QED
  BY <1>1, <1>2, <1>3, <1>4, <1>5, <1>6, <1>7, <1>8 DEF Next

\* A block check or a read moves forward, and not beyond the end.
LEMMA RangesNext == IInv /\ [Next]_vars => Ranges'
<1> SUFFICES ASSUME IInv, [Next]_vars PROVE Ranges'
  OBVIOUS
<1> USE DEF IInv, Ranges, host, device, Goto, End
<1>0. /\ req.unit \in Units /\ start \in Nat /\ first \in Nat /\ last \in Nat
      /\ Bottom[req.unit] \in Nat /\ Top[req.unit] \in Nat /\ Bottom[req.unit] <= Top[req.unit]
  BY DataAssumption, LayoutAssumption DEF TypeOK
<1>1. ASSUME NEW r \in Requests, Begin(r) PROVE Ranges'
  <2>1. r.unit \in Units
    BY DataAssumption
  <2> QED
    BY <1>1, <2>1, LayoutAssumption DEF Begin
<1>2. CASE Prepare
  <2>1. ASSUME NEW f \in Bottom[req.unit] .. Top[req.unit], NEW l \in Bottom[req.unit] .. Top[req.unit],
               f <= l, first' = f, last' = l, start' = f
        PROVE  Ranges'
    BY <1>0, <1>2, <2>1 DEF Prepare
  <2>2. CASE UNCHANGED <<first, last, start>> /\ pc' = "idle"
    BY <1>2, <2>2 DEF Prepare
  <2> QED
    BY <1>2, <2>1, <2>2 DEF Prepare
<1>3. CASE Erase
  BY <1>0, <1>3 DEF Erase
<1>4. CASE BlankUnit \/ BlankPage
  BY <1>4 DEF BlankUnit, BlankPage, NotBlank
<1>5. CASE BlankCheck
  <2>1. CASE UNCHANGED start
    BY <1>5, <2>1 DEF BlankCheck, NotBlank
  <2>2. CASE start' = CheckUntil + 1 /\ pc' # "blankPage"
    BY <1>5, <2>2 DEF BlankCheck, IsBlank
  <2>3. CASE start' = CheckUntil + 1 /\ start' < last
    <3>1. pc = "blank" /\ memPage = start \div ATMEL_64KB_PAGE
      BY <1>5 DEF OnPage, BlankCheck
    <3>2. start <= (memPage + 1) * ATMEL_64KB_PAGE - 1
      BY <1>0, <3>1, DivNext, LayoutAssumption
    <3>3. (memPage + 1) * ATMEL_64KB_PAGE - 1 \in Nat
      BY <1>0, <3>1, DivNext, LayoutAssumption
    <3> DEFINE end == (memPage + 1) * ATMEL_64KB_PAGE - 1
    <3>4. CheckUntil = IF end > last THEN last ELSE end
      BY DEF CheckUntil
    <3>5. CheckUntil \in Nat /\ CheckUntil >= start
      BY <1>0, <3>1, <3>2, <3>3, <3>4
    <3> QED
      BY <1>0, <1>5, <2>3, <3>5 DEF BlankCheck
  <2> QED
    BY <1>5, <2>1, <2>2, <2>3 DEF BlankCheck, IsBlank
<1>6. CASE SelectUnit \/ SelectPage
  BY <1>0, <1>6 DEF SelectUnit, SelectPage
<1>7. CASE Write
  BY <1>0, <1>7 DEF Write, WriteDone
<1>8. CASE ReadUnit \/ ReadPage
  BY <1>0, <1>8 DEF ReadUnit, ReadPage
<1>9. CASE Read
  <2>1. CASE UNCHANGED start
    BY <1>9, <2>1 DEF Read
  <2>2. CASE start' = ReadEnd + 1 /\ start <= ReadEnd
    <3>1. memPage \in Nat /\ ATMEL_64KB_PAGE \in Nat /\ ATMEL_MAX_TRANSFER_SIZE \in Nat
      BY PagesAreNumbers, LayoutAssumption DEF TypeOK
    <3>2. ReadEnd \in Int
      BY <1>0, <3>1 DEF ReadEnd
    <3> QED
      BY <1>0, <1>9, <2>2, <3>2 DEF Read, ReadDone
  <2> QED
    BY <1>9, <2>1, <2>2 DEF Read
<1>10. CASE Validate \/ UNCHANGED vars
  BY <1>10 DEF Validate, vars
<1> QED
  BY <1>1, <1>2, <1>3, <1>4, <1>5, <1>6, <1>7, <1>8, <1>9, <1>10 DEF Next

LEMMA TypeNext == IInv /\ [Next]_vars => TypeOK'
<1> SUFFICES ASSUME IInv, [Next]_vars PROVE TypeOK'
  OBVIOUS
<1>0. /\ TypeOK /\ req.unit \in Units
      /\ first \in Nat /\ last \in Nat /\ start \in Nat
      /\ Bottom[req.unit] \in Nat /\ Top[req.unit] \in Nat
      /\ req.image \in [Cells(req.unit) -> Byte \cup {Unset}]
  BY RequestType, LayoutAssumption DEF TypeOK, IInv
\* The selected page is that of a cell.
<1>a. pc \in {"blankPage", "page", "readPage"} => start \div ATMEL_64KB_PAGE \in Pages
  <2> SUFFICES ASSUME pc \in {"blankPage", "page", "readPage"}
               PROVE  start \div ATMEL_64KB_PAGE \in Pages
    OBVIOUS
  <2>1. start \in Bottom[req.unit] .. Top[req.unit]
    BY <1>0 DEF IInv, Ranges
  <2> QED
    BY <1>0, <2>1, PageOfCell, RangeInUnit
\* What the device gives when it reads is bytes.
<1>b. \A u \in Units, c \in Int : Holds(u, c) \in Byte
  BY <1>0, DataAssumption DEF Holds, TypeOK
<1>c. \A u \in Units : Reached(u) \in Units
  BY <1>0 DEF Reached, TypeOK
<1>d. sound' \in BOOLEAN
  BY <1>0 DEF Next, vars, TypeOK
<1> USE DEF host, device, Goto, End, Pcs
<1>1. ASSUME NEW r \in Requests, Begin(r) PROVE TypeOK'
  <2>1. r.unit \in Units /\ r.image \in [Cells(r.unit) -> Byte \cup {Unset}]
        /\ r.name \in {"flash", "erase", "read"}
    BY RequestType
  <2>2. Bottom[r.unit] \in Nat /\ Top[r.unit] \in Nat
    BY <2>1, LayoutAssumption
  <2>3. 0 \in Pages
    <3>1. "flash" \in Units /\ 0 \in Cells("flash")
      BY LayoutAssumption DEF Cells, Units
    <3>2. 0 \div ATMEL_64KB_PAGE = 0
      BY DivSmall, LayoutAssumption
    <3> QED
      BY <3>1, <3>2, PageOfCell
  <2> QED
    BY <1>0, <1>d, <1>1, <2>1, <2>2, <2>3, DataAssumption DEF Begin, TypeOK
<1>2. CASE Prepare
  <2>1. Stripped(req) \in [Cells(req.unit) -> Byte \cup {Unset}]
    BY <1>0 DEF Stripped
  <2>2. Filled(req.unit, Stripped(req)) \in [Cells(req.unit) -> Byte \cup {Unset}]
    BY <2>1, DataAssumption DEF Filled
  <2>3. bout' \in [Cells(req.unit) -> Byte \cup {Unset}]
    BY <1>0, <1>2, <2>2 DEF Prepare, TypeOK
  <2>4. first' \in Nat /\ last' \in Nat /\ start' \in Nat
    BY <1>0, <1>2 DEF Prepare
  <2> QED
    BY <1>0, <1>d, <1>2, <2>3, <2>4 DEF Prepare, TypeOK
<1>3. CASE Erase
  <2> DEFINE blank == [a \in Cells("flash") |->
                        IF a \in Bottom["flash"] .. Top["flash"] THEN Blank ELSE mem["flash"][a]]
  <2>1. "flash" \in Units /\ blank \in [Cells("flash") -> Byte]
    BY <1>0, DataAssumption DEF TypeOK, Units
  <2>2. mem' = mem \/ mem' = [mem EXCEPT !["flash"] = blank]
    BY <1>3 DEF Erase
  <2> HIDE DEF blank
  <2>3. /\ mem' \in [Units -> UNION {[Cells(m) -> Byte] : m \in Units}]
        /\ \A m \in Units : mem'[m] \in [Cells(m) -> Byte]
    <3>1. CASE mem' = mem
      BY <1>0, <3>1 DEF TypeOK
    <3>2. CASE mem' = [mem EXCEPT !["flash"] = blank]
      BY <1>0, <2>1, <3>2 DEF TypeOK
    <3> QED
      BY <2>2, <3>1, <3>2
  <2>4. UNCHANGED <<type, page, unit, req, bout, buin, first, last, memPage>> /\ start' = first
    BY <1>3 DEF Erase
  <2>5. pc' \in Pcs /\ ret' \in {"none", "ok", "fail"} /\ erased' \in BOOLEAN
    BY <1>0, <1>3 DEF Erase, TypeOK
  <2> QED
    BY <1>0, <1>d, <2>3, <2>4, <2>5 DEF TypeOK
<1>4. CASE BlankUnit \/ BlankPage
  BY <1>0, <1>d, <1>a, <1>4 DEF BlankUnit, BlankPage, UnitSelected, UnitNotSelected, PageSelected,
                          PageNotSelected, NotBlank, TypeOK, Units
<1>5. CASE BlankCheck
  <2>1. start' \in Nat
    <3>1. memPage = start \div ATMEL_64KB_PAGE
      BY <1>5 DEF IInv, OnPage, BlankCheck
    <3>2. (memPage + 1) * ATMEL_64KB_PAGE - 1 \in Nat
      BY <1>0, <3>1, DivNext, LayoutAssumption
    <3>3. CheckUntil \in Nat
      BY <1>0, <3>2 DEF CheckUntil
    <3> QED
      BY <1>0, <1>5, <3>3 DEF BlankCheck
  <2> QED
    BY <1>0, <1>d, <1>5, <2>1 DEF BlankCheck, NotBlank, IsBlank, TypeOK
<1>6. CASE SelectUnit \/ SelectPage
  BY <1>0, <1>d, <1>a, <1>6 DEF SelectUnit, SelectPage, UnitSelected, UnitNotSelected, PageSelected,
                          PageNotSelected, TypeOK, Units
<1>7. CASE Write
  <2>1. PICK part \in SUBSET Block : mem' = [mem EXCEPT ![req.unit] = Written(req.unit, part)]
    <3>1. Reached(req.unit) = req.unit
      BY <1>7 DEF IInv, OnUnit, Write
    <3> QED
      BY <1>7, <3>1 DEF Write
  <2>2. Written(req.unit, part) \in [Cells(req.unit) -> Byte]
    BY <1>7, WrittenType DEF IInv, Write
  <2>3. /\ mem' \in [Units -> UNION {[Cells(m) -> Byte] : m \in Units}]
        /\ \A m \in Units : mem'[m] \in [Cells(m) -> Byte]
    BY <1>0, <2>1, <2>2 DEF TypeOK
  <2>4. start' \in Nat
    BY <1>0, <1>7 DEF Write
  <2> QED
    BY <1>0, <1>d, <1>7, <2>3, <2>4 DEF Write, WriteDone, TypeOK
<1>8. CASE ReadUnit \/ ReadPage
  BY <1>0, <1>d, <1>a, <1>8 DEF ReadUnit, ReadPage, UnitSelected, UnitNotSelected, PageSelected,
                          PageNotSelected, TypeOK, Units
<1>9. CASE Read
  <2>1. memPage \in Nat /\ ATMEL_64KB_PAGE \in Nat /\ ATMEL_MAX_TRANSFER_SIZE \in Nat /\ page \in Nat
    BY <1>0, PagesAreNumbers, LayoutAssumption DEF TypeOK
  <2>2. ReadEnd \in Int
    BY <1>0, <2>1 DEF ReadEnd
  <2>3. start' \in Nat
    BY <1>0, <1>9, <2>2 DEF Read
  <2>4. \A a \in Nat : Seen(a) \in Int
    BY <2>1, LayoutAssumption DEF Seen
  <2>5. \A a \in Cells(req.unit) : Holds(Reached(req.unit), Seen(a)) \in Byte
    BY <1>0, <1>b, <1>c, <2>4, RangeInUnit
  <2>6. buin' \in [Cells(req.unit) -> Byte]
    BY <1>0, <1>9, <2>5 DEF Read, TypeOK
  <2> QED
    BY <1>0, <1>d, <1>9, <2>3, <2>6 DEF Read, ReadDone, TypeOK
<1>10. CASE Validate \/ UNCHANGED vars
  BY <1>0, <1>d, <1>10 DEF Validate, vars, TypeOK
<1> QED
  BY <1>1, <1>2, <1>3, <1>4, <1>5, <1>6, <1>7, <1>8, <1>9, <1>10 DEF Next

\* What is written is the image that was given, with its pages filled up: a byte
\* that the file has is left alone, and all bytes are within the range found.
LEMMA KeptNext == IInv /\ [Next]_vars => Kept'
<1> SUFFICES ASSUME IInv, [Next]_vars PROVE Kept'
  OBVIOUS
<1> USE DEF IInv, Kept, host, device, Goto, End, Given, Stripped
<1>1. ASSUME NEW r \in Requests, Begin(r) PROVE Kept'
  BY <1>1, RequestType DEF Begin
<1>2. CASE Prepare
  <2>1. CASE pc' = "idle"
    BY <2>1
  <2>2. CASE bout' = Filled(req.unit, Stripped(req)) /\ UNCHANGED req
    BY <2>2 DEF Filled
  <2> QED
    BY <1>2, <2>1, <2>2 DEF Prepare
<1>3. CASE pc \notin {"idle", "prepare"} /\ UNCHANGED <<req, bout>>
  BY <1>3
<1>4. CASE ~(\E r \in Requests : Begin(r)) /\ ~Prepare
  <2>1. UNCHANGED vars \/ (pc \notin {"idle", "prepare"} /\ UNCHANGED <<req, bout>>)
    BY <1>4 DEF Next, Erase, BlankUnit, BlankPage, BlankCheck, SelectUnit, SelectPage, Write,
                ReadUnit, ReadPage, Read, Validate
  <2> QED
    BY <1>3, <2>1 DEF vars
<1> QED
  BY <1>1, <1>2, <1>4

LEMMA WithinNext == IInv /\ [Next]_vars => Within'
<1> SUFFICES ASSUME IInv, [Next]_vars PROVE Within'
  OBVIOUS
<1> USE DEF IInv, Within, Names, host, device, Goto, End
<1>1. ASSUME NEW r \in Requests, Begin(r) PROVE Within'
  BY <1>1, RequestType DEF Begin
<1>2. CASE Prepare
  <2>1. CASE pc' = "idle"
    BY <2>1
  <2>2. CASE pc' # "idle"
    <3> DEFINE data == Given(Filled(req.unit, Stripped(req)))
    <3>1. data \subseteq Bottom[req.unit] .. Top[req.unit] /\ Given(bout') = data
      BY <1>2, <2>2 DEF Prepare
    <3>2. PICK f, l \in data : first' = f /\ last' = l /\ \A a \in data : f <= a /\ a <= l
      BY <1>2, <2>2 DEF Prepare
    <3>3. Bottom[req.unit] \in Nat /\ Top[req.unit] \in Nat
      BY RequestType, LayoutAssumption DEF TypeOK
    <3> HIDE DEF data
    <3> QED
      BY <3>1, <3>2, <3>3
  <2> QED
    BY <1>2, <2>1, <2>2 DEF Prepare
<1>3. CASE Erase
  BY <1>3 DEF Erase
<1>4. CASE BlankUnit \/ BlankPage \/ BlankCheck
  BY <1>4 DEF BlankUnit, BlankPage, BlankCheck, NotBlank, IsBlank, Given
<1>5. CASE SelectUnit \/ SelectPage
  BY <1>5 DEF SelectUnit, SelectPage, Given
<1>6. CASE Write
  BY <1>6 DEF Write, WriteDone, Given
<1>7. CASE ReadUnit \/ ReadPage \/ Read \/ Validate
  BY <1>7 DEF ReadUnit, ReadPage, Read, ReadDone, Validate
<1>8. CASE UNCHANGED vars
  BY <1>8 DEF vars, Given
<1> QED
  BY <1>1, <1>2, <1>3, <1>4, <1>5, <1>6, <1>7, <1>8 DEF Next

LEMMA OnUnitNext == IInv /\ [Next]_vars => OnUnit'
<1> SUFFICES ASSUME IInv, [Next]_vars PROVE OnUnit'
  OBVIOUS
<1> USE DEF IInv, OnUnit, Reached, host, device, Goto, End
<1>1. ASSUME NEW r \in Requests, Begin(r) PROVE OnUnit'
  BY <1>1, RequestType DEF Begin
<1>2. CASE Prepare \/ Erase
  BY <1>2 DEF Prepare, Erase
<1>3. CASE BlankUnit \/ BlankPage \/ BlankCheck
  BY <1>3 DEF BlankUnit, BlankPage, BlankCheck, NotBlank, IsBlank
<1>4. CASE SelectUnit \/ SelectPage
  BY <1>4 DEF SelectUnit, SelectPage, UnitSelected
<1>5. CASE Write
  BY <1>5 DEF Write, WriteDone
<1>6. CASE ReadUnit \/ ReadPage \/ Read \/ Validate \/ UNCHANGED vars
  BY <1>6 DEF ReadUnit, ReadPage, Read, ReadDone, Validate, vars
<1> QED
  BY <1>1, <1>2, <1>3, <1>4, <1>5, <1>6 DEF Next

\* An address within a range is one of the unit.
LEMMA StartInUnit ==
  ASSUME TypeOK, Ranges, start \in first .. last
  PROVE  start \in Cells(req.unit)
<1>1. req.unit \in Units
  BY RequestType DEF TypeOK
<1>2. Bottom[req.unit] \in Nat /\ Top[req.unit] \in Nat
  BY <1>1, LayoutAssumption
<1>3. start \in Bottom[req.unit] .. Top[req.unit]
  BY <1>2 DEF Ranges, TypeOK
<1> QED
  BY <1>1, <1>3, RangeInUnit

LEMMA OnPageNext == IInv /\ [Next]_vars => OnPage'
<1> SUFFICES ASSUME IInv, [Next]_vars PROVE OnPage'
  OBVIOUS
<1> USE DEF IInv, OnPage, host, device, Goto, End
<1>1. ASSUME NEW r \in Requests, Begin(r) PROVE OnPage'
  BY <1>1, RequestType DEF Begin
<1>2. CASE Prepare \/ Erase
  BY <1>2 DEF Prepare, Erase
<1>3. CASE BlankUnit \/ BlankPage \/ BlankCheck
  BY <1>3 DEF BlankUnit, BlankPage, BlankCheck, PageSelected, PageNotSelected, NotBlank, IsBlank
<1>4. CASE SelectUnit
  BY <1>4 DEF SelectUnit
<1>5. CASE SelectPage
  <2>1. type = "8051" => start \div ATMEL_64KB_PAGE = 0
    <3>1. req.unit \in Units /\ type \in Types
      BY RequestType DEF TypeOK
    <3>2. start \in Cells(req.unit)
      BY <1>5, StartInUnit DEF SelectPage, Ranges
    <3> QED
      BY <3>1, <3>2, PageOfCell
  <2> QED
    BY <1>5, <2>1 DEF SelectPage, PageSelected, PageNotSelected
<1>6. CASE Write
  <2>1. pc' = "write" => start' \div ATMEL_64KB_PAGE = memPage
    BY <1>6 DEF Write, WriteDone
  <2> QED
    BY <1>6, <2>1 DEF Write, WriteDone
<1>7. CASE ReadUnit \/ ReadPage \/ Read \/ Validate \/ UNCHANGED vars
  BY <1>7 DEF ReadUnit, ReadPage, PageSelected, PageNotSelected, Read, ReadDone, Validate, vars
<1> QED
  BY <1>1, <1>2, <1>3, <1>4, <1>5, <1>6, <1>7 DEF Next

\* After a block has been sent, its bytes and those before it are written.
LEMMA BlockWritten ==
  ASSUME IInv, pc = "write", NEW s \in start .. last + 1, NextStart(s),
         mem' = [mem EXCEPT ![req.unit] = Written(req.unit, Block)]
  PROVE  \A a \in first .. s - 1 : bout[a] # Unset => mem'[req.unit][a] = bout[a]
<1> SUFFICES ASSUME NEW a \in first .. s - 1, bout[a] # Unset
             PROVE  mem'[req.unit][a] = bout[a]
  OBVIOUS
<1>1. req.unit \in Units /\ mem'[req.unit] = Written(req.unit, Block)
  BY RequestType DEF IInv, TypeOK
<1>2. start \in Nat /\ first \in Nat /\ last \in Nat /\ start <= last
  BY DEF IInv, TypeOK, Ranges
<1>3. a \in Cells(req.unit)
  <2>1. a \in Bottom[req.unit] .. Top[req.unit]
    BY <1>1, <1>2, LayoutAssumption DEF IInv, Ranges
  <2> QED
    BY <1>1, <2>1, RangeInUnit
<1>4. mem'[req.unit][a] = IF a \in Block THEN bout[a] ELSE mem[req.unit][a]
  BY <1>1, <1>3, WrittenCells DEF IInv
<1>5. CASE a < start
  BY <1>2, <1>4, <1>5 DEF IInv, Progress
<1>6. CASE a >= start
  <2>1. a \in start .. s - 1
    BY <1>2, <1>6
  <2> QED
    BY <1>4, <2>1 DEF NextStart
<1> QED
  BY <1>2, <1>5, <1>6

LEMMA ProgressNext == IInv /\ [Next]_vars => Progress'
<1> SUFFICES ASSUME IInv, [Next]_vars PROVE Progress'
  OBVIOUS
<1> USE DEF Progress, host, device, Goto, End
<1>1. ASSUME NEW r \in Requests, Begin(r) PROVE Progress'
  BY <1>1, RequestType DEF Begin
<1>2. CASE Prepare \/ Erase
  BY <1>2 DEF Prepare, Erase
<1>3. CASE BlankUnit \/ BlankPage \/ BlankCheck
  BY <1>3 DEF BlankUnit, BlankPage, BlankCheck, NotBlank, IsBlank
<1>4. CASE SelectUnit
  <2>1. first \in Nat
    BY DEF IInv, TypeOK
  <2> QED
    BY <1>4, <2>1 DEF SelectUnit
<1>5. CASE SelectPage
  BY <1>5 DEF IInv, SelectPage
<1>6. CASE Write
  <2>1. CASE pc' \in {"idle", "readUnit"}
    BY <2>1
  <2>2. CASE pc' \notin {"idle", "readUnit"}
    <3>1. Reached(req.unit) = req.unit
      BY <1>6 DEF IInv, OnUnit, Write
    <3>2. PICK s \in start .. last + 1 : NextStart(s) /\ start' = s
      BY <1>6, <2>2 DEF Write
    <3>3. mem' = [mem EXCEPT ![req.unit] = Written(req.unit, Block)]
      BY <1>6, <2>2, <3>1 DEF Write
    <3> QED
      BY <1>6, <3>2, <3>3, BlockWritten DEF Write
  <2> QED
    BY <2>1, <2>2
<1>7. CASE ReadUnit \/ ReadPage \/ Read \/ Validate
  BY <1>7 DEF ReadUnit, ReadPage, Read, ReadDone, Validate
<1>8. CASE UNCHANGED vars
  BY <1>8 DEF IInv, vars
<1> QED
  BY <1>1, <1>2, <1>3, <1>4, <1>5, <1>6, <1>7, <1>8 DEF Next

LEMMA AllWrittenNext == IInv /\ [Next]_vars => AllWritten'
<1> SUFFICES ASSUME IInv, [Next]_vars PROVE AllWritten'
  OBVIOUS
<1> USE DEF AllWritten, host, device, Goto, End, Given
<1>1. ASSUME NEW r \in Requests, Begin(r) PROVE AllWritten'
  BY <1>1, RequestType DEF Begin
<1>2. CASE Prepare \/ Erase
  BY <1>2 DEF Prepare, Erase
<1>3. CASE BlankUnit \/ BlankPage \/ BlankCheck
  BY <1>3 DEF BlankUnit, BlankPage, BlankCheck, NotBlank, IsBlank
<1>4. CASE SelectUnit \/ SelectPage
  BY <1>4 DEF SelectUnit, SelectPage
<1>5. CASE Write
  <2>1. CASE pc' # "readUnit"
    BY <1>5, <2>1 DEF Write, WriteDone
  <2>2. CASE pc' = "readUnit"
    <3>1. Reached(req.unit) = req.unit
      BY <1>5 DEF IInv, OnUnit, Write
    <3>2. PICK s \in start .. last + 1 : NextStart(s) /\ start' = s
      BY <1>5, <2>2 DEF Write
    <3>3. mem' = [mem EXCEPT ![req.unit] = Written(req.unit, Block)] /\ s > last
      BY <1>5, <2>2, <3>1, <3>2 DEF Write
    <3>4. Given(bout) \subseteq first .. last /\ first \in Nat /\ last \in Nat /\ start \in Nat
      BY <1>5 DEF IInv, Within, Names, TypeOK, Write
    <3>5. Given(bout) \subseteq first .. s - 1
      BY <3>2, <3>3, <3>4
    <3> QED
      BY <1>5, <3>2, <3>3, <3>5, BlockWritten DEF Write
  <2> QED
    BY <2>1, <2>2
<1>6. CASE ReadUnit \/ ReadPage \/ Read
  BY <1>6 DEF IInv, ReadUnit, ReadPage, Read, ReadDone
<1>7. CASE Validate
  BY <1>7 DEF Validate
<1>8. CASE UNCHANGED vars
  BY <1>8 DEF IInv, vars
<1> QED
  BY <1>1, <1>2, <1>3, <1>4, <1>5, <1>6, <1>7, <1>8 DEF Next

LEMMA ImageInMemoryNext == IInv /\ [Next]_vars => ImageInMemory'
<1> SUFFICES ASSUME IInv, [Next]_vars PROVE ImageInMemory'
  OBVIOUS
<1> USE DEF ImageInMemory, Succeeded, host, device, Goto, End
\* The bytes the file has are given in the image and are those of the file.
<1>0. ASSUME pc \notin {"idle", "prepare"}, req.name = "flash", UNCHANGED <<req, mem>>,
             \A a \in Given(bout) : mem[req.unit][a] = bout[a]
      PROVE  ImageInMemory'
  <2>1. \A a \in Given(Stripped(req)) : bout[a] = req.image[a]
    BY <1>0 DEF IInv, Kept
  <2>2. \A a \in Given(Stripped(req)) : a \in DOMAIN bout /\ req.image[a] # Unset
    BY RequestType DEF IInv, TypeOK, Given, Stripped
  <2> QED
    BY <1>0, <2>1, <2>2 DEF Given
<1>1. ASSUME NEW r \in Requests, Begin(r) PROVE ImageInMemory'
  BY <1>1 DEF Begin
<1>2. CASE Prepare \/ Erase
  BY <1>2 DEF Prepare, Erase, IInv, Names
<1>3. CASE BlankUnit \/ BlankPage \/ BlankCheck
  BY <1>3 DEF BlankUnit, BlankPage, BlankCheck, NotBlank, IsBlank
<1>4. CASE SelectUnit \/ SelectPage
  BY <1>4 DEF SelectUnit, SelectPage
<1>5. CASE Write
  <2>1. CASE ret' # "ok" \/ pc' # "idle"
    BY <2>1
  <2>2. CASE ret' = "ok" /\ pc' = "idle"
    <3>1. Reached(req.unit) = req.unit
      BY <1>5 DEF IInv, OnUnit, Write
    <3>2. PICK s \in start .. last + 1 : NextStart(s) /\ start' = s
      BY <1>5, <2>2 DEF Write
    <3>3. mem' = [mem EXCEPT ![req.unit] = Written(req.unit, Block)] /\ s > last
      BY <1>5, <2>2, <3>1, <3>2 DEF Write
    <3>4. Given(bout) \subseteq first .. last /\ first \in Nat /\ last \in Nat /\ start \in Nat
      BY <1>5 DEF IInv, Within, Names, TypeOK, Write
    <3>5. Given(bout) \subseteq first .. s - 1
      BY <3>2, <3>3, <3>4
    <3>6. \A a \in Given(bout) : mem'[req.unit][a] = bout[a]
      BY <1>5, <3>2, <3>3, <3>5, BlockWritten DEF Write, Given
    <3>7. \A a \in Given(Stripped(req)) : bout[a] = req.image[a]
      BY <1>5 DEF IInv, Kept, Names, Write
    <3>8. \A a \in Given(Stripped(req)) : a \in DOMAIN bout /\ req.image[a] # Unset
      BY RequestType DEF IInv, TypeOK, Given, Stripped
    <3>9. UNCHANGED req
      BY <1>5 DEF Write
    <3> QED
      BY <3>6, <3>7, <3>8, <3>9 DEF Given
  <2> QED
    BY <2>1, <2>2
<1>6. CASE ReadUnit \/ ReadPage
  BY <1>6 DEF ReadUnit, ReadPage
<1>7. CASE Read
  BY <1>7 DEF Read, ReadDone
<1>8. CASE Validate
  BY <1>0, <1>8 DEF IInv, AllWritten, Names, Validate
<1>9. CASE UNCHANGED vars
  BY <1>9 DEF IInv, vars
<1> QED
  BY <1>1, <1>2, <1>3, <1>4, <1>5, <1>6, <1>7, <1>8, <1>9 DEF Next

-----------------------------------------------------------------------------
(* The theorems.                                                            *)

LEMMA Inductive == Spec => []IInv
<1>1. IInv /\ [Next]_vars => IInv'
  BY TypeNext, NamesNext, RangesNext, KeptNext, WithinNext, OnUnitNext, OnPageNext,
     ProgressNext, AllWrittenNext, ImageInMemoryNext DEF IInv
<1> QED
  BY InitInv, <1>1, PTL DEF Spec

\* Buffers, registers and positions keep their types: no address computed for a
\* transfer leaves the memory.
THEOREM TypeCorrect == Spec => []TypeOK
<1>1. IInv => TypeOK
  BY DEF IInv
<1> QED
  BY Inductive, <1>1, PTL

\* A flash command that reports success has put every byte of the hex file where
\* the file says, whatever was lost on the way, whatever the layout of the device
\* and whatever earlier commands had left selected.
THEOREM FlashIsComplete == Spec => []ImageInMemory
<1>1. IInv => ImageInMemory
  BY DEF IInv
<1> QED
  BY Inductive, <1>1, PTL

\* No command changes a byte outside the range of the memory unit it is for.
THEOREM NothingElseWritten == Spec => OnlyTargetWritten
<1>1. ASSUME IInv, [Next]_vars, NEW m \in Units, NEW c \in Cells(m), mem'[m][c] # mem[m][c]
      PROVE  /\ c \in Bottom[m] .. Top[m]
             /\ m = IF req.name = "erase" THEN "flash" ELSE req.unit
  <2>1. Next
    BY <1>1 DEF vars, device
  <2>2. CASE Erase
    BY <1>1, <2>2 DEF Erase, IInv, Names, TypeOK
  <2>3. CASE Write
    <3>1. Reached(req.unit) = req.unit /\ req.name = "flash"
      BY <1>1, <2>3 DEF IInv, OnUnit, Names, Write
    <3>2. PICK part \in SUBSET Block : mem' = [mem EXCEPT ![req.unit] = Written(req.unit, part)]
      BY <2>3, <3>1 DEF Write
    <3>3. m = req.unit /\ mem'[m] = Written(m, part)
      BY <1>1, <3>2 DEF IInv, TypeOK
    <3>4. c \in part
      BY <1>1, <2>3, <3>3, WrittenCells DEF IInv, Write
    <3> QED
      BY <1>1, <2>3, <3>1, <3>3, <3>4, SeenIsAddress DEF IInv, Write
  <2>4. CASE ~Erase /\ ~Write
    <3>1. UNCHANGED mem
      BY <2>1, <2>4 DEF Next, Begin, Prepare, BlankUnit, BlankPage, BlankCheck, SelectUnit,
                        SelectPage, ReadUnit, ReadPage, Read, Validate, device
    <3> QED
      BY <1>1, <3>1
  <2> QED
    BY <2>2, <2>3, <2>4
<1>2. IInv /\ [Next]_vars =>
        [\A m \in Units : \A c \in Cells(m) :
           mem'[m][c] # mem[m][c] =>
             /\ c \in Bottom[m] .. Top[m]
             /\ m = IF req.name = "erase" THEN "flash" ELSE req.unit]_vars
  BY <1>1
<1> QED
  BY Inductive, <1>2, PTL DEF Spec, OnlyTargetWritten

-----------------------------------------------------------------------------
(* Erasing: what the blank check has seen is what the flash holds.          *)

\* The check of an erase goes through the whole range, and asks the flash and the
\* right page of it.
Checking ==
  /\ pc \in {"blankUnit", "blankPage", "blank", "erase"} /\ req.name = "erase" =>
       first = Bottom["flash"] /\ last = Top["flash"]
  /\ pc = "blankUnit" /\ req.name = "erase" => start = first
  /\ pc \in {"readUnit", "readPage", "read"} => req.name # "erase"
  /\ pc \in {"blankPage", "blank"} => Reached("flash") = "flash"
  /\ pc = "blank" => page = memPage

Checked ==
  pc \in {"blankPage", "blank"} /\ req.name = "erase" =>
    \A a \in first .. start - 1 : mem["flash"][a] = Blank

EInv == IInv /\ Checking /\ Checked /\ EraseLeavesBlank

\* Addresses from one on the page up to the page's last are on the page.
LEMMA SamePage ==
  ASSUME NEW P \in Nat \ {0}, NEW a \in Nat, NEW b \in Nat,
         a <= b, b <= ((a \div P) + 1) * P - 1
  PROVE  (a \div P) * P + (b % P) = b
<1>1. (a \div P) * P <= a
  BY DivMod
<1>2. PICK d \in Nat : b = (a \div P) * P + d /\ d < P
  <2>1. b - (a \div P) * P \in Nat
    BY <1>1, DivMod
  <2>2. ((a \div P) + 1) * P = (a \div P) * P + P
    BY DivMod
  <2>3. b - (a \div P) * P < P
    BY <2>1, <2>2, DivMod
  <2>4. b = (a \div P) * P + (b - (a \div P) * P)
    BY <2>1, DivMod
  <2> QED
    BY <2>1, <2>3, <2>4
<1>3. b % P = d
  <2>1. a \div P \in Nat
    BY DivMod
  <2> QED
    BY <1>2, <2>1
<1> QED
  BY <1>2, <1>3

\* A range that ends where one of its pages does, pages that do not cross 64 kB and
\* have two bytes at least: no 64 kB page begins at the last byte.
LEMMA NoByteLeft ==
  ASSUME NEW P \in Nat \ {0}, NEW g \in Nat \ {0, 1}, NEW n \in Nat, NEW l \in Nat,
         P % g = 0, (l + 1) % g = 0
  PROVE  n * P # l
<1> SUFFICES ASSUME n * P = l PROVE FALSE
  OBVIOUS
<1>1. P = (P \div g) * g /\ P \div g \in Nat
  BY DivMod
<1>2. l + 1 = ((l + 1) \div g) * g /\ (l + 1) \div g \in Nat
  BY DivMod
<1> DEFINE d == (l + 1) \div g - n * (P \div g)
<1>3. d \in Int
  BY <1>1, <1>2
<1>4. d * g = 1
  <2>1. (n * (P \div g)) * g = n * P
    BY <1>1
  <2>2. d * g = ((l + 1) \div g) * g - (n * (P \div g)) * g
    BY <1>1, <1>2
  <2> QED
    BY <1>2, <2>1, <2>2
<1> HIDE DEF d
<1>5. CASE d <= 0
  BY <1>3, <1>4, <1>5
<1>6. CASE d >= 1
  BY <1>3, <1>4, <1>6
<1> QED
  BY <1>3, <1>5, <1>6

LEMMA CheckingInit == Init => Checking /\ Checked /\ EraseLeavesBlank
  BY DEF Init, Checking, Checked, EraseLeavesBlank, Succeeded

LEMMA CheckingNext == IInv /\ Checking /\ [Next]_vars => Checking'
<1> SUFFICES ASSUME IInv, Checking, [Next]_vars PROVE Checking'
  OBVIOUS
<1> USE DEF Checking, Reached, host, device, Goto, End
<1>1. ASSUME NEW r \in Requests, Begin(r) PROVE Checking'
  BY <1>1, RequestType DEF Begin
<1>2. CASE Prepare
  BY <1>2 DEF Prepare, IInv, Names
<1>3. CASE Erase
  BY <1>3 DEF Erase, IInv, Names
<1>4. CASE BlankUnit
  BY <1>4 DEF BlankUnit, UnitSelected, NotBlank, IsBlank
<1>5. CASE BlankPage
  <2>1. type = "8051" => start \div ATMEL_64KB_PAGE = 0
    <3>1. req.unit \in Units /\ type \in Types
      BY RequestType DEF IInv, TypeOK
    <3>2. start \in Cells(req.unit)
      BY <1>5, StartInUnit DEF BlankPage, IInv, Ranges
    <3> QED
      BY <3>1, <3>2, PageOfCell
  <2>2. pc' = "blank" => page' = memPage'
    BY <1>5, <2>1 DEF BlankPage, PageSelected, NotBlank, IInv, OnPage
  <2> QED
    BY <1>5, <2>2 DEF BlankPage, NotBlank
<1>6. CASE BlankCheck
  BY <1>6 DEF BlankCheck, NotBlank, IsBlank
<1>7. CASE SelectUnit \/ SelectPage \/ Write
  BY <1>7 DEF SelectUnit, SelectPage, Write, WriteDone, IInv, Names
<1>8. CASE ReadUnit \/ ReadPage \/ Read \/ Validate \/ UNCHANGED vars
  BY <1>8 DEF ReadUnit, ReadPage, Read, ReadDone, Validate, vars
<1> QED
  BY <1>1, <1>2, <1>3, <1>4, <1>5, <1>6, <1>7, <1>8 DEF Next

\* When the bytes of a step of the check are blank, so are the cells of its addresses.
LEMMA StepChecked ==
  ASSUME IInv, Checking, pc = "blank", req.name = "erase",
         {Holds(Reached("flash"), Seen(a)) : a \in start .. CheckUntil} \subseteq {Blank},
         NEW a \in start .. CheckUntil
  PROVE  mem["flash"][a] = Blank
<1>1. /\ req.unit = "flash" /\ "flash" \in Units
      /\ start \in Nat /\ last \in Nat /\ memPage \in Nat /\ a \in Nat /\ first \in Nat
  <2>1. memPage \in Nat
    BY PagesAreNumbers DEF IInv, TypeOK
  <2> QED
    BY <2>1, RequestType DEF IInv, TypeOK, Units, CheckUntil
<1>2. ATMEL_64KB_PAGE \in Nat \ {0} /\ memPage = start \div ATMEL_64KB_PAGE /\ page = memPage
  BY LayoutAssumption DEF IInv, OnPage, Checking
<1>3. (memPage + 1) * ATMEL_64KB_PAGE - 1 \in Nat
  BY <1>1, <1>2, DivNext
<1>4. a <= last /\ a <= (memPage + 1) * ATMEL_64KB_PAGE - 1 /\ start <= a
  BY <1>1, <1>3 DEF CheckUntil
<1>5. Seen(a) = a
  BY <1>1, <1>2, <1>4, SamePage DEF Seen
<1>6. a \in Cells("flash")
  <2>1. a \in Bottom["flash"] .. Top["flash"]
    BY <1>1, <1>4, LayoutAssumption DEF IInv, Ranges
  <2> QED
    BY <1>1, <2>1, RangeInUnit
<1> QED
  BY <1>5, <1>6 DEF Checking, Holds

\* A check does not stop before the last byte with that byte left over.
LEMMA EndOfCheck ==
  ASSUME IInv, Checking, pc = "blank"
  PROVE  /\ CheckUntil \in Int
         /\ req.name = "erase" => CheckUntil + 1 # last
<1>1. memPage \in Nat /\ last \in Nat /\ ATMEL_64KB_PAGE \in Nat \ {0} /\ "flash" \in Units
  BY PagesAreNumbers, LayoutAssumption DEF IInv, TypeOK, Units
<1>2. memPage + 1 \in Nat
  BY <1>1
<1>3. (memPage + 1) * ATMEL_64KB_PAGE \in Nat
  BY <1>1, <1>2
<1>4. ASSUME req.name = "erase" PROVE (memPage + 1) * ATMEL_64KB_PAGE # last
  <2>1. /\ PageSize["flash"] \in Nat \ {0, 1} /\ ATMEL_64KB_PAGE % PageSize["flash"] = 0
        /\ (last + 1) % PageSize["flash"] = 0
    BY <1>1, <1>4, LayoutAssumption DEF Checking
  <2> QED
    BY <1>1, <1>2, <2>1, NoByteLeft
<1> QED
  BY <1>1, <1>3, <1>4 DEF CheckUntil

LEMMA CheckedNext == EInv /\ [Next]_vars => Checked' /\ EraseLeavesBlank'
<1> SUFFICES ASSUME EInv, [Next]_vars PROVE Checked' /\ EraseLeavesBlank'
  OBVIOUS
<1> USE DEF Checked, EraseLeavesBlank, Succeeded, host, device, Goto, End
<1>1. ASSUME NEW r \in Requests, Begin(r) PROVE Checked' /\ EraseLeavesBlank'
  BY <1>1, RequestType DEF Begin
<1>2. CASE Prepare
  BY <1>2 DEF Prepare, EInv, IInv, Names
<1>3. CASE Erase
  <2>1. ASSUME ret' = "ok", pc' = "idle", NEW a \in Bottom["flash"] .. Top["flash"]
        PROVE  mem'["flash"][a] = Blank
    <3>1. "flash" \in Units /\ a \in Cells("flash")
      BY RangeInUnit DEF Units
    <3>2. mem'["flash"] = [c \in Cells("flash") |->
             IF c \in Bottom["flash"] .. Top["flash"] THEN Blank ELSE mem["flash"][c]]
      BY <1>3, <2>1, <3>1 DEF Erase, EInv, IInv, TypeOK
    <3> QED
      BY <3>1, <3>2
  <2>2. pc' \in {"blankUnit", "idle"}
    BY <1>3 DEF Erase
  <2> QED
    BY <2>1, <2>2
<1>4. CASE BlankUnit
  <2>1. first \in Nat
    BY DEF EInv, IInv, TypeOK
  <2> QED
    BY <1>4, <2>1 DEF BlankUnit, NotBlank, EInv, Checking
<1>5. CASE BlankPage
  BY <1>5 DEF BlankPage, NotBlank, EInv
<1>6. CASE BlankCheck
  <2> DEFINE bytes == {Holds(Reached("flash"), Seen(a)) : a \in start .. CheckUntil}
  <2>1. CASE NotBlank /\ UNCHANGED start
    BY <1>6, <2>1 DEF BlankCheck, NotBlank
  <2>2. CASE req.name # "erase"
    BY <1>6, <2>2 DEF BlankCheck, NotBlank, IsBlank
  <2>3. CASE req.name = "erase" /\ bytes \subseteq {Blank} /\ start' = CheckUntil + 1
    <3>1. \A a \in start .. CheckUntil : mem["flash"][a] = Blank
      BY <1>6, <2>3, StepChecked DEF BlankCheck, EInv
    <3>2. first \in Nat /\ last \in Nat /\ start \in Nat /\ CheckUntil \in Int
      BY <1>6, EndOfCheck DEF BlankCheck, EInv, IInv, TypeOK
    <3>3. \A a \in first .. start' - 1 : mem["flash"][a] = Blank
      BY <1>6, <2>3, <3>1, <3>2 DEF BlankCheck, EInv
    <3>4. ~(start' < last) => start' > last
      BY <1>6, <2>3, <3>2, EndOfCheck DEF BlankCheck, EInv
    <3>5. first = Bottom["flash"] /\ last = Top["flash"]
      BY <1>6, <2>3 DEF BlankCheck, EInv, Checking
    <3>6. CASE start' < last
      BY <1>6, <3>3, <3>6 DEF BlankCheck, IsBlank, NotBlank
    <3>7. CASE start' > last
      <4>1. \A a \in Bottom["flash"] .. Top["flash"] : mem["flash"][a] = Blank
        BY <2>3, <3>2, <3>3, <3>5, <3>7
      <4> QED
        BY <1>6, <2>3, <3>2, <3>7, <4>1 DEF BlankCheck, IsBlank, NotBlank
    <3> QED
      BY <2>3, <3>2, <3>4, <3>6, <3>7
  <2> QED
    BY <1>6, <2>1, <2>2, <2>3 DEF BlankCheck
<1>7. CASE SelectUnit \/ SelectPage \/ Write
  BY <1>7 DEF SelectUnit, SelectPage, Write, WriteDone, EInv, IInv, Names
<1>8. CASE ReadUnit \/ ReadPage \/ Read \/ Validate
  BY <1>8 DEF ReadUnit, ReadPage, Read, ReadDone, Validate, EInv, IInv, Names, Checking
<1>9. CASE UNCHANGED vars
  BY <1>9 DEF vars, EInv
<1> QED
  BY <1>1, <1>2, <1>3, <1>4, <1>5, <1>6, <1>7, <1>8, <1>9 DEF Next

\* An erase that reports success, be it because it finds nothing to do, leaves no byte
\* of the application's flash that is not blank, whatever was lost on the way.
THEOREM ErasedIsBlank == Spec => []EraseLeavesBlank
<1>1. Init => EInv
  BY InitInv, CheckingInit DEF EInv
<1>2. EInv /\ [Next]_vars => EInv'
  <2> SUFFICES ASSUME EInv, [Next]_vars PROVE EInv'
    OBVIOUS
  <2>1. IInv'
    BY TypeNext, NamesNext, RangesNext, KeptNext, WithinNext, OnUnitNext, OnPageNext,
       ProgressNext, AllWrittenNext, ImageInMemoryNext DEF EInv, IInv
  <2>2. Checking'
    BY CheckingNext DEF EInv
  <2> QED
    BY <2>1, <2>2, CheckedNext DEF EInv
<1>3. EInv => EraseLeavesBlank
  BY DEF EInv
<1> QED
  BY <1>1, <1>2, <1>3, PTL DEF Spec

-----------------------------------------------------------------------------
(* Without failures: what has been read is what the memory holds, and nothing *)
(* but the image makes a command fail.                                        *)

\* What leads to a place.
Origins ==
  /\ pc \in {"blankUnit", "blankPage", "blank"} =>
       req.name = "erase" \/ (req.name = "flash" /\ ~req.force)
  /\ pc \in {"readUnit", "readPage", "read", "validate"} /\ req.name = "flash" => req.validate
  /\ pc = "erase" => ~erased
  /\ erased => req.name = "erase"

\* After the erase the blank check finds blank bytes.
Erased ==
  erased /\ pc \in {"blankUnit", "blankPage", "blank"} =>
    \A a \in Bottom["flash"] .. Top["flash"] : mem["flash"][a] = Blank

\* Blocks are read one after another from the unit, and from the right page of it.
Reading ==
  /\ pc \in {"readPage", "read"} =>
       Reached(req.unit) = req.unit /\ start % ATMEL_MAX_TRANSFER_SIZE = 0
  /\ pc \in {"readPage", "read", "validate"} =>
       first = Bottom[req.unit] /\ last = Top[req.unit]
  /\ pc = "read" => memPage = start \div ATMEL_64KB_PAGE /\ (sound => page = memPage)

ReadSoFar ==
  sound /\ pc \in {"readPage", "read"} =>
    \A a \in first .. start - 1 : buin[a] = mem[req.unit][a]

ReadAll ==
  sound /\ pc = "validate" =>
    \A a \in Bottom[req.unit] .. Top[req.unit] : buin[a] = mem[req.unit][a]

SInv ==
  /\ IInv /\ Checking /\ Origins /\ Erased /\ Reading /\ ReadSoFar /\ ReadAll
  /\ SoundReadIsTrue /\ SoundValidatedIsExact /\ SoundCommandSucceeds

\* A block that begins at a multiple of its size does not cross the end of a page
\* that is one too.
LEMMA BlockOnPage ==
  ASSUME NEW P \in Nat \ {0}, NEW M \in Nat \ {0}, NEW s \in Nat, P % M = 0, s % M = 0
  PROVE  s + M - 1 <= ((s \div P) + 1) * P - 1
<1> DEFINE q == s \div P
           c == P \div M
           k == s \div M
<1>1. P = c * M /\ c \in Nat
  BY DivMod
<1>2. s = k * M /\ k \in Nat
  BY DivMod
<1>3. q \in Nat /\ s <= (q + 1) * P - 1 /\ (q + 1) * P - 1 \in Nat
  BY DivMod, DivNext
<1> HIDE DEF q, c, k
<1> DEFINE e == (q + 1) * c - k
<1>4. e \in Int
  BY <1>1, <1>2, <1>3
<1>5. e * M = (q + 1) * P - s
  <2>1. ((q + 1) * c) * M = (q + 1) * P
    BY <1>1, <1>3
  <2>2. e * M = ((q + 1) * c) * M - k * M
    BY <1>1, <1>2, <1>3
  <2> QED
    BY <1>2, <2>1, <2>2
<1> HIDE DEF e
<1>6. CASE e <= 0
  BY <1>3, <1>4, <1>5, <1>6
<1>7. CASE e >= 1
  <2>1. e * M >= M
    BY <1>4, <1>7
  <2> QED
    BY <1>3, <1>4, <1>5, <2>1 DEF q
<1> QED
  BY <1>4, <1>6, <1>7

LEMMA SameQuotient ==
  ASSUME NEW P \in Nat \ {0}, NEW x \in Int, NEW y \in Int, x * P = y * P
  PROVE  x = y
<1>1. (x - y) * P = 0
  OBVIOUS
<1>2. x - y \in Int
  OBVIOUS
<1> QED
  BY <1>1, <1>2

\* Addresses from one on the page up to the page's last have its number.
LEMMA SameNumber ==
  ASSUME NEW P \in Nat \ {0}, NEW a \in Nat, NEW b \in Nat,
         a <= b, b <= ((a \div P) + 1) * P - 1
  PROVE  b \div P = a \div P
<1>1. (a \div P) * P + (b % P) = b /\ (b \div P) * P + (b % P) = b
  BY SamePage, DivMod
<1>2. a \div P \in Nat /\ b \div P \in Nat /\ b % P \in Nat
  BY DivMod
<1>3. (a \div P) * P = (b \div P) * P
  <2>1. (a \div P) * P \in Int /\ (b \div P) * P \in Int
    BY <1>2
  <2> QED
    BY <1>1, <1>2, <2>1
<1> QED
  BY <1>2, <1>3, SameQuotient

LEMMA NextBlock ==
  ASSUME NEW M \in Nat \ {0}, NEW s \in Nat, s % M = 0
  PROVE  (s + M) % M = 0
<1>1. PICK k \in Nat : s = k * M
  BY DivMod
<1>2. s + M = (k + 1) * M
  BY <1>1
<1> QED
  BY <1>1, <1>2

\* A block of a read has the size the device takes and is on the page selected.
LEMMA ReadBlock ==
  ASSUME IInv, Reading, pc = "read"
  PROVE  /\ ReadEnd \in start .. last /\ ReadEnd - start < ATMEL_MAX_TRANSFER_SIZE
         /\ ReadEnd <= (memPage + 1) * ATMEL_64KB_PAGE - 1
         /\ ReadEnd < last => (ReadEnd + 1) % ATMEL_MAX_TRANSFER_SIZE = 0
<1> DEFINE M == ATMEL_MAX_TRANSFER_SIZE
           P == ATMEL_64KB_PAGE
<1>1. /\ start \in Nat /\ last \in Nat /\ start <= last
      /\ M \in Nat \ {0} /\ P \in Nat \ {0} /\ P % M = 0 /\ start % M = 0
      /\ memPage = start \div P /\ memPage \in Nat
  BY LayoutAssumption, PagesAreNumbers DEF IInv, TypeOK, Ranges, Reading
<1>2. start + M - 1 <= (memPage + 1) * P - 1
  BY <1>1, BlockOnPage
<1>3. (start + M - 1) \div P = memPage
  <2>1. start + M - 1 \in Nat /\ start <= start + M - 1
    BY <1>1
  <2> QED
    BY <1>1, <1>2, <2>1, SameNumber
<1>4. ReadEnd = IF start + M - 1 > last THEN last ELSE start + M - 1
  BY <1>1, <1>3 DEF ReadEnd
<1>5. (start + M) % M = 0
  BY <1>1, NextBlock
<1>6. (memPage + 1) * P - 1 \in Int
  BY <1>1
<1>7. ReadEnd < last => ReadEnd + 1 = start + M
  BY <1>1, <1>4
<1> QED
  BY <1>1, <1>2, <1>4, <1>5, <1>6, <1>7

\* The device is asked for the cells with the addresses of the block.
LEMMA ReadCells ==
  ASSUME IInv, Reading, sound, pc = "read", NEW a \in start .. ReadEnd
  PROVE  a \in Cells(req.unit) /\ Holds(Reached(req.unit), Seen(a)) = mem[req.unit][a]
<1>1. /\ start \in Nat /\ last \in Nat /\ ATMEL_64KB_PAGE \in Nat \ {0}
      /\ ReadEnd \in start .. last /\ ReadEnd <= (memPage + 1) * ATMEL_64KB_PAGE - 1
      /\ memPage = start \div ATMEL_64KB_PAGE /\ page = memPage /\ memPage \in Nat
      /\ Reached(req.unit) = req.unit
  BY ReadBlock, LayoutAssumption, PagesAreNumbers DEF IInv, TypeOK, Reading
<1>2. a \in Nat /\ start <= a /\ a <= (memPage + 1) * ATMEL_64KB_PAGE - 1
  <2>1. (memPage + 1) * ATMEL_64KB_PAGE - 1 \in Int
    BY <1>1
  <2> QED
    BY <1>1, <2>1
<1>3. Seen(a) = a
  BY <1>1, <1>2, SamePage DEF Seen
<1>4. a \in Cells(req.unit)
  <2>1. req.unit \in Units
    BY RequestType DEF IInv, TypeOK
  <2>2. Bottom[req.unit] \in Nat /\ Top[req.unit] \in Nat
    BY <2>1, LayoutAssumption
  <2>3. a \in Bottom[req.unit] .. Top[req.unit]
    BY <1>1, <1>2, <2>2 DEF IInv, Ranges
  <2> QED
    BY <2>1, <2>3, RangeInUnit
<1> QED
  BY <1>1, <1>3, <1>4 DEF Holds

\* Bytes on the page of a byte of the range are in the range, whose ends are ends of
\* pages.
LEMMA PageInRange ==
  ASSUME NEW g \in Nat \ {0}, NEW lo \in Nat, NEW hi \in Nat, NEW a \in Nat, NEW b \in lo .. hi,
         lo % g = 0, (hi + 1) % g = 0, a \div g = b \div g
  PROVE  a \in lo .. hi
<1> DEFINE n == b \div g
           i == lo \div g
           j == (hi + 1) \div g
<1>1. lo = i * g /\ hi + 1 = j * g /\ i \in Nat /\ j \in Nat /\ n \in Nat
  BY DivMod
<1>2. n * g <= b /\ b <= (n + 1) * g - 1 /\ n * g <= a /\ a <= (n + 1) * g - 1
  <2>1. n * g + (b % g) = b /\ n * g + (a % g) = a /\ b % g \in Nat /\ a % g \in Nat
    BY DivMod
  <2>2. n * g \in Nat
    BY <1>1
  <2> QED
    BY <2>1, <2>2, DivNext
<1> HIDE DEF n, i, j
<1>3. i <= n
  <2>1. CASE i >= n + 1
    <3>1. i * g >= (n + 1) * g
      BY <1>1, <2>1
    <3> QED
      BY <1>1, <1>2, <3>1
  <2> QED
    BY <1>1, <2>1
<1>4. n + 1 <= j
  <2>1. CASE j <= n
    <3>1. j * g <= n * g
      BY <1>1, <2>1
    <3> QED
      BY <1>1, <1>2, <3>1
  <2> QED
    BY <1>1, <2>1
<1>5. lo <= n * g /\ (n + 1) * g <= hi + 1
  BY <1>1, <1>3, <1>4
<1>6. n * g \in Nat /\ (n + 1) * g \in Nat
  BY <1>1
<1> QED
  BY <1>2, <1>5, <1>6

\* The pages filled up are within the range if the image is, and not empty.
LEMMA FilledFits ==
  ASSUME NEW q \in Requests,
         Given(Stripped(q)) \subseteq Bottom[q.unit] .. Top[q.unit]
  PROVE  /\ Given(Filled(q.unit, Stripped(q))) \subseteq Bottom[q.unit] .. Top[q.unit]
         /\ Given(Stripped(q)) \subseteq Given(Filled(q.unit, Stripped(q)))
<1> DEFINE m == q.unit
           image == Stripped(q)
<1>1. /\ m \in Units /\ image \in [Cells(m) -> Byte \cup {Unset}]
      /\ Cells(m) \subseteq Nat
  BY RequestType, RangeInUnit DEF Stripped
<1>2. /\ Bottom[m] \in Nat /\ Top[m] \in Nat /\ PageSize[m] \in Nat \ {0}
      /\ Bottom[m] % PageSize[m] = 0 /\ (Top[m] + 1) % PageSize[m] = 0
  BY <1>1, LayoutAssumption
<1> HIDE DEF m, image
<1>3. \A a \in Cells(m) : Filled(m, image)[a] # Unset =>
        image[a] # Unset \/ \E b \in Given(image) : FlashPage(m, b) = FlashPage(m, a)
  BY <1>1 DEF Filled
<1>4. DOMAIN Filled(m, image) = Cells(m) /\ DOMAIN image = Cells(m)
  BY <1>1 DEF Filled
<1>5. ASSUME NEW a \in Given(Filled(m, image)), Given(image) \subseteq Bottom[m] .. Top[m]
      PROVE  a \in Bottom[m] .. Top[m]
  <2>1. a \in Cells(m) /\ Filled(m, image)[a] # Unset
    BY <1>4, <1>5 DEF Given
  <2>2. CASE image[a] # Unset
    BY <1>4, <1>5, <2>1, <2>2 DEF Given
  <2>3. CASE \E b \in Given(image) : FlashPage(m, b) = FlashPage(m, a)
    <3>1. PICK b \in Bottom[m] .. Top[m] : a \div PageSize[m] = b \div PageSize[m]
      BY <1>5, <2>3 DEF FlashPage
    <3>2. a \in Nat
      BY <1>1, <2>1
    <3> QED
      BY <1>2, <3>1, <3>2, PageInRange
  <2> QED
    BY <1>3, <2>1, <2>2, <2>3
<1>6. Given(image) \subseteq Given(Filled(m, image))
  <2> SUFFICES ASSUME NEW a \in Given(image) PROVE a \in Given(Filled(m, image))
    OBVIOUS
  <2>1. a \in Cells(m) /\ image[a] # Unset
    BY <1>4 DEF Given
  <2>2. Filled(m, image)[a] = image[a]
    BY <1>4, <2>1 DEF Filled
  <2> QED
    BY <1>4, <2>1, <2>2 DEF Given
<1> QED
  BY <1>5, <1>6 DEF m, image

LEMMA SoundInit == Init => SInv
<1> SUFFICES ASSUME Init PROVE SInv
  OBVIOUS
<1>1. IInv /\ Checking
  BY InitInv, CheckingInit
<1>2. Origins /\ Erased /\ Reading /\ ReadSoFar /\ ReadAll
  BY DEF Init, Origins, Erased, Reading, ReadSoFar, ReadAll
<1>3. SoundReadIsTrue /\ SoundValidatedIsExact /\ SoundCommandSucceeds
  BY DEF Init, SoundReadIsTrue, ReadIsTrue, SoundValidatedIsExact, SoundCommandSucceeds, Succeeded
<1> QED
  BY <1>1, <1>2, <1>3 DEF SInv

LEMMA OriginsNext == SInv /\ [Next]_vars => Origins'
<1> SUFFICES ASSUME SInv, [Next]_vars PROVE Origins'
  OBVIOUS
<1>1. Origins /\ Names
  BY DEF SInv, IInv
<1> USE DEF Origins, Names, host, device, Goto, End
<1>2. ASSUME NEW r \in Requests, Begin(r) PROVE Origins'
  BY <1>2, RequestType DEF Begin
<1>3. CASE Prepare
  BY <1>1, <1>3 DEF Prepare
<1>4. CASE Erase
  BY <1>1, <1>4 DEF Erase
<1>5. CASE BlankUnit \/ BlankPage \/ BlankCheck
  BY <1>1, <1>5 DEF BlankUnit, BlankPage, BlankCheck, NotBlank, IsBlank
<1>6. CASE SelectUnit \/ SelectPage
  BY <1>1, <1>6 DEF SelectUnit, SelectPage
<1>7. CASE Write
  BY <1>1, <1>7 DEF Write, WriteDone
<1>8. CASE ReadUnit \/ ReadPage \/ Read \/ Validate
  BY <1>1, <1>8 DEF ReadUnit, ReadPage, Read, ReadDone, Validate
<1>9. CASE UNCHANGED vars
  BY <1>1, <1>9 DEF vars
<1> QED
  BY <1>2, <1>3, <1>4, <1>5, <1>6, <1>7, <1>8, <1>9 DEF Next

LEMMA ErasedNext == SInv /\ [Next]_vars => Erased'
<1> SUFFICES ASSUME SInv, [Next]_vars PROVE Erased'
  OBVIOUS
<1>1. Erased /\ TypeOK /\ Names /\ Origins
  BY DEF SInv, IInv
<1> USE DEF Erased, host, device, Goto, End
<1>2. ASSUME NEW r \in Requests, Begin(r) PROVE Erased'
  BY <1>2 DEF Begin
<1>3. CASE Prepare
  BY <1>1, <1>3 DEF Prepare, Names, Origins
<1>4. CASE Erase
  <2> SUFFICES ASSUME erased', pc' = "blankUnit", NEW a \in Bottom["flash"] .. Top["flash"]
               PROVE  mem'["flash"][a] = Blank
    BY <1>4 DEF Erase
  <2>1. "flash" \in Units /\ a \in Cells("flash")
    BY RangeInUnit DEF Units
  <2>2. mem'["flash"] = [c \in Cells("flash") |->
           IF c \in Bottom["flash"] .. Top["flash"] THEN Blank ELSE mem["flash"][c]]
    BY <1>1, <1>4, <2>1 DEF Erase, TypeOK
  <2> QED
    BY <2>1, <2>2
<1>5. CASE BlankUnit \/ BlankPage \/ BlankCheck
  BY <1>1, <1>5 DEF BlankUnit, BlankPage, BlankCheck, NotBlank, IsBlank
<1>6. CASE SelectUnit \/ SelectPage
  BY <1>1, <1>6 DEF SelectUnit, SelectPage
<1>7. CASE Write
  BY <1>1, <1>7 DEF Write, WriteDone
<1>8. CASE ReadUnit \/ ReadPage \/ Read \/ Validate
  BY <1>1, <1>8 DEF ReadUnit, ReadPage, Read, ReadDone, Validate
<1>9. CASE UNCHANGED vars
  BY <1>1, <1>9 DEF vars
<1> QED
  BY <1>2, <1>3, <1>4, <1>5, <1>6, <1>7, <1>8, <1>9 DEF Next

LEMMA ReadingNext == SInv /\ [Next]_vars => Reading'
<1> SUFFICES ASSUME SInv, [Next]_vars PROVE Reading'
  OBVIOUS
<1>1. Reading /\ TypeOK /\ IInv
  BY DEF SInv, IInv
<1> USE DEF host, device, Goto, End
<1>2. ASSUME NEW r \in Requests, Begin(r) PROVE Reading'
  <2>1. pc' \notin {"readPage", "read", "validate"}
    BY <1>2, RequestType DEF Begin
  <2> QED
    BY <2>1 DEF Reading
<1>3. CASE Prepare \/ Erase
  BY <1>3 DEF Prepare, Erase, Reading
<1>4. CASE BlankUnit \/ BlankPage \/ BlankCheck
  BY <1>4 DEF BlankUnit, BlankPage, BlankCheck, NotBlank, IsBlank, Reading
<1>5. CASE SelectUnit \/ SelectPage
  BY <1>5 DEF SelectUnit, SelectPage, Reading
<1>6. CASE Write
  BY <1>6 DEF Write, WriteDone, Reading
<1>7. CASE ReadUnit
  <2>1. Bottom[req.unit] % ATMEL_MAX_TRANSFER_SIZE = 0
    BY <1>1, RequestType, LayoutAssumption DEF TypeOK
  <2> QED
    BY <1>7, <2>1 DEF ReadUnit, UnitSelected, Reached, Reading
<1>8. CASE ReadPage
  <2>1. type = "8051" => start \div ATMEL_64KB_PAGE = 0 /\ page = 0
    <3>1. req.unit \in Units /\ type \in Types
      BY <1>1, RequestType DEF TypeOK
    <3>2. start \in Cells(req.unit)
      BY <1>1, <1>8, StartInUnit DEF ReadPage, IInv, Ranges
    <3> QED
      BY <1>1, <3>1, <3>2, PageOfCell DEF IInv, OnPage
  <2>2. pc' = "read" => memPage' = start \div ATMEL_64KB_PAGE /\ (sound => page' = memPage')
    BY <1>8, <2>1 DEF ReadPage, PageSelected, PageNotSelected, Lost
  <2>3. UNCHANGED <<type, unit, req, first, last, start>> /\ pc = "readPage"
        /\ pc' \in {"read", "idle"} /\ UNCHANGED sound
    BY <1>8 DEF ReadPage, Next, vars
  <2> QED
    BY <1>1, <2>2, <2>3 DEF Reading, Reached
<1>9. CASE Read
  <2>1. pc' = "read" => start' \div ATMEL_64KB_PAGE = memPage
    BY <1>9 DEF Read, ReadDone
  <2>2. pc' \in {"read", "readPage"} => start' % ATMEL_MAX_TRANSFER_SIZE = 0
    <3> SUFFICES ASSUME pc' \in {"read", "readPage"}
                 PROVE  start' % ATMEL_MAX_TRANSFER_SIZE = 0
      OBVIOUS
    <3>1. start' = ReadEnd + 1 /\ ~(start' > last) /\ pc = "read"
      BY <1>9 DEF Read, ReadDone
    <3>2. ReadEnd \in start .. last /\ start \in Nat /\ last \in Nat
      BY <1>1, <3>1, ReadBlock DEF TypeOK
    <3>3. ReadEnd < last
      BY <3>1, <3>2
    <3> QED
      BY <1>1, <3>1, <3>3, ReadBlock
  <2>3. UNCHANGED <<type, page, unit, req, first, last, memPage>> /\ pc = "read" /\ UNCHANGED sound
    BY <1>9 DEF Read, Next, vars
  <2> QED
    BY <1>1, <2>1, <2>2, <2>3 DEF Reading, Reached
<1>10. CASE Validate
  BY <1>10 DEF Validate, Reading
<1>11. CASE UNCHANGED vars
  BY <1>1, <1>11 DEF vars, Reading, Reached
<1> QED
  BY <1>2, <1>3, <1>4, <1>5, <1>6, <1>7, <1>8, <1>9, <1>10, <1>11 DEF Next

\* What a step of a read adds to the buffer.
LEMMA ReadStep ==
  ASSUME SInv, sound, Read, ReadSoFar
  PROVE  /\ pc' = "idle" => ret' = "ok"
         /\ UNCHANGED <<mem, req, first, last>>
         /\ ReadEnd \in start .. last /\ start' = ReadEnd + 1
         /\ \A a \in first .. ReadEnd : buin'[a] = mem[req.unit][a]
<1>1. /\ IInv /\ Reading /\ TypeOK /\ pc = "read" /\ req.unit \in Units
  BY RequestType DEF SInv, IInv, TypeOK, Read
<1>2. ReadEnd \in start .. last /\ ReadEnd - start < ATMEL_MAX_TRANSFER_SIZE
  BY <1>1, ReadBlock
<1>3. start \in Nat /\ last \in Nat /\ first \in Nat
  BY <1>1 DEF TypeOK
<1>4. ~Lost /\ ~Short
  BY DEF Lost, Short
<1> DEFINE Got(g) == [a \in DOMAIN buin |->
                       IF a \in start .. g THEN Holds(Reached(req.unit), Seen(a)) ELSE buin[a]]
<1>5. /\ start' = ReadEnd + 1 /\ (pc' = "idle" => ret' = "ok") /\ UNCHANGED <<mem, req, first, last>>
      /\ buin' = Got(ReadEnd)
  <2>1. start <= ReadEnd
    BY <1>2, <1>3
  <2>2. /\ start' = ReadEnd + 1
        /\ \E g \in {ReadEnd} \cup {} : buin' = Got(g)
        /\ IF start' > last THEN ReadDone
           ELSE Goto(IF start' \div ATMEL_64KB_PAGE # memPage THEN "readPage" ELSE "read")
    BY <1>2, <1>4, <2>1 DEF Read
  <2>3. UNCHANGED <<mem, req, first, last>>
    BY DEF Read, device
  <2>4. pc' = "idle" => ret' = "ok"
    BY <2>2 DEF ReadDone, Goto, End
  <2> QED
    BY <2>2, <2>3, <2>4
<1>6. ASSUME NEW a \in first .. ReadEnd PROVE buin'[a] = mem[req.unit][a]
  <2>1. a \in Cells(req.unit)
    <3>1. Bottom[req.unit] \in Nat /\ Top[req.unit] \in Nat
      BY <1>1, LayoutAssumption
    <3>2. a \in Bottom[req.unit] .. Top[req.unit]
      BY <1>1, <1>2, <1>3, <1>6, <3>1 DEF IInv, Ranges
    <3> QED
      BY <1>1, <3>2, RangeInUnit
  <2>2. a \in DOMAIN buin
    BY <1>1, <2>1 DEF TypeOK
  <2>3. CASE a \in start .. ReadEnd
    BY <1>1, <1>5, <2>2, <2>3, ReadCells
  <2>4. CASE a \notin start .. ReadEnd
    <3>1. a \in first .. start - 1
      BY <1>2, <1>3, <1>6, <2>4
    <3> QED
      BY <1>1, <1>5, <2>2, <2>4, <3>1 DEF ReadSoFar
  <2> QED
    BY <2>3, <2>4
<1> QED
  BY <1>2, <1>5, <1>6

LEMMA ReadNext == SInv /\ [Next]_vars => ReadSoFar' /\ ReadAll'
<1> SUFFICES ASSUME SInv, [Next]_vars PROVE ReadSoFar' /\ ReadAll'
  OBVIOUS
<1>1. Reading /\ TypeOK /\ ReadSoFar /\ ReadAll
  BY DEF SInv, IInv
<1> USE DEF host, device, Goto, End
<1>2. ASSUME NEW r \in Requests, Begin(r) PROVE ReadSoFar' /\ ReadAll'
  <2>1. pc' \notin {"readPage", "read", "validate"}
    BY <1>2, RequestType DEF Begin
  <2> QED
    BY <2>1 DEF ReadSoFar, ReadAll
<1>3. CASE Prepare \/ Erase
  BY <1>3 DEF Prepare, Erase, ReadSoFar, ReadAll
<1>4. CASE BlankUnit \/ BlankPage \/ BlankCheck
  BY <1>4 DEF BlankUnit, BlankPage, BlankCheck, NotBlank, IsBlank, ReadSoFar, ReadAll
<1>5. CASE SelectUnit \/ SelectPage
  BY <1>5 DEF SelectUnit, SelectPage, ReadSoFar, ReadAll
<1>6. CASE Write
  BY <1>6 DEF Write, WriteDone, ReadSoFar, ReadAll
<1>7. CASE ReadUnit
  <2>1. Bottom[req.unit] \in Nat
    BY <1>1, RequestType, LayoutAssumption DEF TypeOK
  <2> QED
    BY <1>7, <2>1 DEF ReadUnit, ReadSoFar, ReadAll
<1>8. CASE ReadPage
  <2>1. UNCHANGED <<mem, req, buin, first, start, sound>> /\ pc = "readPage"
        /\ pc' \in {"read", "idle"}
    BY <1>8 DEF ReadPage, Next, vars
  <2> QED
    BY <1>1, <2>1 DEF ReadSoFar, ReadAll
<1>9. CASE Read
  <2>1. UNCHANGED sound /\ pc = "read" /\ first \in Nat /\ last \in Nat /\ start \in Nat
    BY <1>1, <1>9 DEF Read, Next, vars, TypeOK
  <2> SUFFICES ASSUME sound PROVE ReadSoFar' /\ ReadAll'
    BY <2>1 DEF ReadSoFar, ReadAll
  <2>2. /\ UNCHANGED <<mem, req, first, last>> /\ ReadEnd \in start .. last /\ start' = ReadEnd + 1
        /\ \A a \in first .. ReadEnd : buin'[a] = mem[req.unit][a]
    BY <1>1, <1>9, ReadStep
  <2>3. \A a \in first' .. start' - 1 : buin'[a] = mem'[req'.unit][a]
    BY <2>1, <2>2
  <2>4. ASSUME pc' = "validate"
        PROVE  \A a \in Bottom[req.unit] .. Top[req.unit] : buin'[a] = mem[req.unit][a]
    <3>1. start' > last
      BY <1>9, <2>4 DEF Read
    <3>2. first = Bottom[req.unit] /\ last = Top[req.unit] /\ ReadEnd = last
      BY <1>1, <2>1, <2>2, <3>1 DEF Reading
    <3> QED
      BY <2>2, <3>2
  <2> QED
    BY <2>2, <2>3, <2>4 DEF ReadSoFar, ReadAll
<1>10. CASE Validate
  BY <1>10 DEF Validate, ReadSoFar, ReadAll
<1>11. CASE UNCHANGED vars
  BY <1>1, <1>11 DEF vars, ReadSoFar, ReadAll
<1> QED
  BY <1>2, <1>3, <1>4, <1>5, <1>6, <1>7, <1>8, <1>9, <1>10, <1>11 DEF Next

\* A read ends with the last block, a validation with the comparison.
LEMMA SoundReadNext == SInv /\ [Next]_vars => SoundReadIsTrue' /\ SoundValidatedIsExact'
<1> SUFFICES ASSUME SInv, [Next]_vars PROVE SoundReadIsTrue' /\ SoundValidatedIsExact'
  OBVIOUS
<1>1. /\ Names /\ Origins /\ Reading /\ ReadSoFar /\ ReadAll /\ Checking /\ TypeOK
      /\ SoundReadIsTrue /\ SoundValidatedIsExact
  BY DEF SInv, IInv
<1> USE DEF Succeeded, host, device, Goto, End
<1>2. CASE pc' # "idle" \/ ret' # "ok"
  BY <1>2 DEF SoundReadIsTrue, ReadIsTrue, SoundValidatedIsExact
<1>3. ASSUME NEW r \in Requests, Begin(r) PROVE ret' # "ok"
  BY <1>3 DEF Begin
<1>4. CASE Prepare
  <2>1. ret' # "ok" \/ pc' # "idle"
    BY <1>4 DEF Prepare
  <2> QED
    BY <1>2, <2>1
<1>5. CASE Erase \/ BlankUnit \/ BlankPage \/ BlankCheck
  <2>1. pc' = "idle" /\ ret' = "ok" => req'.name = "erase" \/ pc' # "idle"
    BY <1>1, <1>5, RequestType DEF Erase, BlankUnit, BlankPage, BlankCheck, NotBlank, IsBlank,
       Names, Origins
  <2> QED
    BY <1>2, <2>1 DEF SoundReadIsTrue, ReadIsTrue, SoundValidatedIsExact
<1>6. CASE SelectUnit \/ SelectPage
  <2>1. ret' # "ok" \/ pc' # "idle"
    BY <1>6 DEF SelectUnit, SelectPage
  <2> QED
    BY <1>2, <2>1
<1>7. CASE Write
  <2>1. pc' = "idle" /\ ret' = "ok" => ~req'.validate /\ req'.name = "flash"
    BY <1>1, <1>7 DEF Write, WriteDone, Names
  <2> QED
    BY <1>2, <2>1 DEF SoundReadIsTrue, ReadIsTrue, SoundValidatedIsExact
<1>8. CASE ReadUnit \/ ReadPage
  <2>1. ret' # "ok" \/ pc' # "idle"
    BY <1>8 DEF ReadUnit, ReadPage
  <2> QED
    BY <1>2, <2>1
<1>9. CASE Read
  <2>0. UNCHANGED sound /\ pc = "read"
    BY <1>9 DEF Read, Next, vars
  <2> SUFFICES ASSUME sound, pc' = "idle", ret' = "ok"
               PROVE  SoundReadIsTrue' /\ SoundValidatedIsExact'
    BY <1>2, <2>0 DEF SoundReadIsTrue, SoundValidatedIsExact
  <2>1. /\ UNCHANGED <<mem, req, first, last>> /\ ReadEnd \in start .. last /\ start' = ReadEnd + 1
        /\ \A a \in first .. ReadEnd : buin'[a] = mem[req.unit][a]
    BY <1>1, <1>9, ReadStep
  <2>2. start' > last /\ req.name # "flash"
    BY <1>9, <2>1 DEF Read, ReadDone, Lost, Short
  <2>3. first = Bottom[req.unit] /\ last = Top[req.unit] /\ ReadEnd = last
    BY <1>1, <2>0, <2>1, <2>2 DEF Reading, TypeOK
  <2> QED
    BY <2>1, <2>2, <2>3 DEF SoundReadIsTrue, ReadIsTrue, SoundValidatedIsExact
<1>10. CASE Validate
  <2>0. UNCHANGED <<sound, mem, req, bout, buin>> /\ pc = "validate" /\ req.name = "flash"
    BY <1>1, <1>10 DEF Validate, Next, vars, Names
  <2> SUFFICES ASSUME sound, pc' = "idle", ret' = "ok"
               PROVE  SoundReadIsTrue' /\ SoundValidatedIsExact'
    BY <1>2, <2>0 DEF SoundReadIsTrue, SoundValidatedIsExact
  <2>1. \A a \in Bottom[req.unit] .. Top[req.unit] : buin[a] = Expected(a)
    BY <1>10 DEF Validate
  <2>2. \A a \in Bottom[req.unit] .. Top[req.unit] : mem[req.unit][a] = Expected(a)
    BY <1>1, <2>0, <2>1 DEF ReadAll
  <2> QED
    BY <2>0, <2>2 DEF SoundReadIsTrue, ReadIsTrue, SoundValidatedIsExact, Expected
<1>11. CASE UNCHANGED vars
  BY <1>1, <1>11 DEF vars, SoundReadIsTrue, ReadIsTrue, SoundValidatedIsExact, Expected
<1> QED
  BY <1>2, <1>3, <1>4, <1>5, <1>6, <1>7, <1>8, <1>9, <1>10, <1>11 DEF Next

\* After the erase, what a step of the check reads is blank.
LEMMA ErasedReadsBlank ==
  ASSUME IInv, Checking, Origins, Erased, pc = "blank", erased,
         NEW a \in start .. CheckUntil
  PROVE  Holds(Reached("flash"), Seen(a)) = Blank
<1>1. /\ req.unit = "flash" /\ req.name = "erase" /\ "flash" \in Units
      /\ start \in Nat /\ last \in Nat /\ memPage \in Nat /\ first \in Nat
  <2>1. memPage \in Nat
    BY PagesAreNumbers DEF IInv, TypeOK
  <2> QED
    BY <2>1, RequestType DEF IInv, TypeOK, Units, Origins
<1>2. ATMEL_64KB_PAGE \in Nat \ {0} /\ memPage = start \div ATMEL_64KB_PAGE /\ page = memPage
  BY LayoutAssumption DEF IInv, OnPage, Checking
<1>3. (memPage + 1) * ATMEL_64KB_PAGE - 1 \in Nat
  BY <1>1, <1>2, DivNext
<1>4. a <= last /\ a <= (memPage + 1) * ATMEL_64KB_PAGE - 1 /\ start <= a /\ a \in Nat
  BY <1>1, <1>3 DEF CheckUntil
<1>5. Seen(a) = a
  BY <1>1, <1>2, <1>4, SamePage DEF Seen
<1>6. a \in Bottom["flash"] .. Top["flash"]
  BY <1>1, <1>4, LayoutAssumption DEF IInv, Ranges
<1>7. a \in Cells("flash")
  BY <1>1, <1>6, RangeInUnit
<1>8. mem["flash"][a] = Blank
  BY <1>6 DEF Erased
<1> QED
  BY <1>5, <1>7, <1>8 DEF Checking, Holds

LEMMA SoundSucceedsNext == SInv /\ [Next]_vars => SoundCommandSucceeds'
<1> SUFFICES ASSUME SInv, [Next]_vars PROVE SoundCommandSucceeds'
  OBVIOUS
<1>1. /\ IInv /\ TypeOK /\ Names /\ Origins /\ Erased /\ Reading /\ ReadSoFar /\ ReadAll /\ Checking
      /\ AllWritten /\ SoundCommandSucceeds
  BY DEF SInv, IInv
<1> USE DEF host, device, Goto, End
<1>2. CASE pc' # "idle" \/ ret' # "fail"
  BY <1>2 DEF SoundCommandSucceeds
<1>3. ASSUME NEW r \in Requests, Begin(r) PROVE ret' # "fail"
  BY <1>3 DEF Begin
<1>4. CASE UNCHANGED vars
  BY <1>1, <1>4 DEF vars, SoundCommandSucceeds, Overlap
<1>5. CASE Next /\ sound /\ pc' = "idle" /\ ret' = "fail"
  <2>0. ~Lost /\ ~Short /\ UNCHANGED sound
    BY <1>5 DEF Lost, Short, Next
  <2>1. CASE Prepare
    <3>1. UNCHANGED req /\ req.name = "flash" /\ req \in Requests
      BY <1>1, <2>1 DEF Prepare, Names, TypeOK
    <3> DEFINE data == Given(Filled(req.unit, Stripped(req)))
    <3>2. Overlap(req) \/ ~(data \subseteq Bottom[req.unit] .. Top[req.unit]) \/ data = {}
      BY <1>5, <2>1 DEF Prepare
    <3>3. \/ Overlap(req) \/ ~(Given(Stripped(req)) \subseteq Bottom[req.unit] .. Top[req.unit])
          \/ Given(Stripped(req)) = {}
      BY <3>1, <3>2, FilledFits
    <3> QED
      BY <3>1, <3>3 DEF SoundCommandSucceeds, Overlap
  <2>2. CASE Erase
    BY <1>5, <2>0, <2>2 DEF Erase
  <2>3. CASE BlankUnit \/ BlankPage
    BY <1>5, <2>0, <2>3 DEF BlankUnit, BlankPage, UnitNotSelected, PageNotSelected
  <2>4. CASE BlankCheck
    <3>1. UNCHANGED req /\ pc = "blank"
      BY <2>4 DEF BlankCheck
    <3>2. NotBlank /\ \E a \in start .. CheckUntil : Holds(Reached("flash"), Seen(a)) # Blank
      BY <1>5, <2>0, <2>4 DEF BlankCheck, IsBlank
    <3>3. ~erased
      BY <1>1, <3>1, <3>2, ErasedReadsBlank
    <3>4. req.name = "flash" /\ ~req.force
      <4>1. req.name # "erase"
        BY <1>5, <3>2, <3>3 DEF NotBlank
      <4> QED
        BY <1>1, <3>1, <4>1 DEF Origins
    <3> QED
      BY <3>1, <3>4 DEF SoundCommandSucceeds
  <2>5. CASE SelectUnit \/ SelectPage
    BY <1>5, <2>0, <2>5 DEF SelectUnit, SelectPage, UnitNotSelected, PageNotSelected
  <2>6. CASE Write
    BY <1>5, <2>0, <2>6 DEF Write, WriteDone
  <2>7. CASE ReadUnit \/ ReadPage
    BY <1>5, <2>0, <2>7 DEF ReadUnit, ReadPage, UnitNotSelected, PageNotSelected
  <2>8. CASE Read
    BY <1>1, <1>5, <2>8, ReadStep
  <2>9. CASE Validate
    <3>1. /\ UNCHANGED <<req, mem, bout>> /\ pc = "validate" /\ req.name = "flash"
          /\ req.validate /\ req.unit \in Units
      BY <1>1, <2>9, RequestType DEF Validate, Names, Origins, TypeOK
    <3>2. PICK a \in Bottom[req.unit] .. Top[req.unit] : buin[a] # Expected(a)
      BY <1>5, <2>9 DEF Validate
    <3>3. a \in DOMAIN bout
      BY <1>1, <3>1, RangeInUnit DEF TypeOK
    <3>4. mem[req.unit][a] # Expected(a)
      BY <1>1, <1>5, <3>1, <3>2 DEF ReadAll
    <3>5. bout[a] = Unset
      BY <1>1, <3>1, <3>3, <3>4 DEF AllWritten, Given, Expected
    <3> QED
      BY <3>1, <3>4, <3>5 DEF SoundCommandSucceeds, Expected
  <2>10. ASSUME NEW r \in Requests, Begin(r) PROVE FALSE
    BY <1>5, <1>3, <2>10
  <2> QED
    BY <1>5, <2>1, <2>2, <2>3, <2>4, <2>5, <2>6, <2>7, <2>8, <2>9, <2>10 DEF Next
<1>6. CASE ~sound /\ Next
  BY <1>6 DEF Next, SoundCommandSucceeds
<1> QED
  BY <1>2, <1>4, <1>5, <1>6, <1>1 DEF TypeOK

LEMMA SoundInductive == Spec => []SInv
<1>1. SInv /\ [Next]_vars => SInv'
  <2> SUFFICES ASSUME SInv, [Next]_vars PROVE SInv'
    OBVIOUS
  <2>1. IInv'
    BY TypeNext, NamesNext, RangesNext, KeptNext, WithinNext, OnUnitNext, OnPageNext,
       ProgressNext, AllWrittenNext, ImageInMemoryNext DEF SInv, IInv
  <2>2. Checking'
    BY CheckingNext DEF SInv
  <2> QED
    BY <2>1, <2>2, OriginsNext, ErasedNext, ReadingNext, ReadNext, SoundReadNext, SoundSucceedsNext
       DEF SInv
<1> QED
  BY SoundInit, <1>1, PTL DEF Spec

\* As long as no request fails, a read that reports success returns the contents of the
\* memory, block after block and page after page, whatever was left selected before it.
THEOREM ReadTrue == Spec => []SoundReadIsTrue
<1>1. SInv => SoundReadIsTrue
  BY DEF SInv
<1> QED
  BY SoundInductive, <1>1, PTL

\* As long as no request fails, a flash command that has validated with success leaves
\* the whole unit as the image says, blank where it says nothing.
THEOREM ValidatedExact == Spec => []SoundValidatedIsExact
<1>1. SInv => SoundValidatedIsExact
  BY DEF SInv
<1> QED
  BY SoundInductive, <1>1, PTL

\* As long as no request fails, a forced command fails only for its image: the blocks of
\* a read fit the device and the pages filled up stay within the range for any layout,
\* an erased flash passes its check, and what was written passes validation.
THEOREM CommandSucceeds == Spec => []SoundCommandSucceeds
<1>1. SInv => SoundCommandSucceeds
  BY DEF SInv
<1> QED
  BY SoundInductive, <1>1, PTL

=============================================================================
