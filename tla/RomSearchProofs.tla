---------------------------- MODULE RomSearchProofs ----------------------------
(***************************************************************************)
(* RomSearch implements DeviceList: for ROM codes of any length and any    *)
(* set of devices.                                                         *)
(***************************************************************************)
EXTENDS RomSearch, WellFoundedInduction, TLAPS

USE DEF Code, Bit

-----------------------------------------------------------------------------
(* The order of the ROM codes.                                              *)

LEMMA BitsNat == Bits \in Nat /\ Bits >= 3 /\ Bits <= 254
BY RomAssumption

\* A set of bit numbers has a least and a greatest element.
LEMMA LeastBit ==
  ASSUME NEW S \in SUBSET Nat, S # {}
  PROVE  \E i \in S : \A j \in S : i <= j
<1> DEFINE R == {p \in Nat \X Nat : p[1] < p[2]}
<1>1. IsWellFoundedOn(R, Nat)
  BY NatLessThanWellFounded DEF OpToRel
<1> HIDE DEF R
<1>2. PICK x \in S : \A y \in S : ~(<<y, x>> \in R)
  BY <1>1, WFMin
<1>3. ASSUME NEW y \in S, y < x PROVE FALSE
  <2>1. <<y, x>> \in Nat \X Nat /\ <<y, x>>[1] < <<y, x>>[2]
    BY <1>3
  <2> QED
    BY <1>2, <1>3, <2>1 DEF R
<1> QED
  BY <1>3

LEMMA GreatestBit ==
  ASSUME NEW S \in SUBSET (1..Bits), S # {}
  PROVE  \E i \in S : \A j \in S : j <= i
<1> DEFINE T == {Bits - i : i \in S}
<1>0. \A i \in S : Bits - i \in Nat
  BY BitsNat
<1> HIDE DEF T
<1>1. T \in SUBSET Nat /\ T # {}
  BY <1>0 DEF T
<1>2. PICK t \in T : \A u \in T : t <= u
  BY <1>1, LeastBit
<1>3. PICK i \in S : t = Bits - i
  BY DEF T
<1>4. ASSUME NEW j \in S PROVE j <= i
  BY BitsNat, <1>2, <1>3 DEF T
<1> QED
  BY <1>4

\* Codes that differ part somewhere.
LEMMA FirstDifference ==
  ASSUME NEW r \in Code, NEW s \in Code, r # s
  PROVE  \E i \in 1..Bits : Agree(r, s, i - 1) /\ r[i] # s[i]
<1> DEFINE D == {i \in 1..Bits : r[i] # s[i]}
<1>1. D \in SUBSET Nat /\ D # {}
  BY BitsNat
<1>2. PICK i \in D : \A j \in D : i <= j
  BY <1>1, LeastBit
<1> QED
  BY BitsNat, <1>2 DEF Agree

LEMMA Total ==
  ASSUME NEW r \in Code, NEW s \in Code, r # s
  PROVE  Before(r, s) \/ Before(s, r)
<1>1. PICK i \in 1..Bits : Agree(r, s, i - 1) /\ r[i] # s[i]
  BY FirstDifference
<1>2. Agree(s, r, i - 1)
  BY <1>1 DEF Agree
<1> QED
  BY <1>1, <1>2 DEF Before, Parts

LEMMA Irreflexive ==
  ASSUME NEW r \in Code
  PROVE  ~Before(r, r)
BY DEF Before, Parts

LEMMA Transitive ==
  ASSUME NEW r \in Code, NEW s \in Code, NEW t \in Code, Before(r, s), Before(s, t)
  PROVE  Before(r, t)
<1>1. PICK i \in 1..Bits : Parts(r, s, i)
  BY DEF Before
<1>2. PICK j \in 1..Bits : Parts(s, t, j)
  BY DEF Before
<1>3. CASE i < j
  BY BitsNat, <1>1, <1>2, <1>3 DEF Before, Parts, Agree
<1>4. CASE j < i
  BY BitsNat, <1>1, <1>2, <1>4 DEF Before, Parts, Agree
<1>5. CASE i = j
  BY <1>1, <1>2, <1>5 DEF Parts
<1> QED
  BY BitsNat, <1>3, <1>4, <1>5

-----------------------------------------------------------------------------
(* The invariant, which speaks of walks over a net that does not change.     *)

\* A device agrees with c up to bit i and takes 1 there where c takes 0.
Forks(c, i) == \E r \in net : Parts(c, r, i)

\* Between two searches: the devices up to the last one found are those found, and
\* the last discrepancy is the last bit at which it leaves others behind.
Known ==
  /\ SerialNum \in net
  /\ found = {r \in net : r = SerialNum \/ Before(r, SerialNum)}
  /\ \A i \in 1..Bits :
       Forks(SerialNum, i) => LastDiscrepancy # None /\ i <= LastDiscrepancy
  /\ LastDiscrepancy # None => Forks(SerialNum, LastDiscrepancy)
  /\ LastDevice <=> LastDiscrepancy = None

\* In a search: the devices still in are those like the path so far, and at each
\* bit passed the adapter has taken the direction if those then in disagreed, and
\* their bit if not.
Passed ==
  /\ on = {r \in net : Agree(r, path, bit - 1)}
  /\ net # {} => on # {}
  /\ \A j \in choices :
       /\ j \in 1..(bit - 1) /\ path[j] = dir[j]
       /\ \E r \in net : Agree(r, path, j - 1) /\ r[j] = 0
       /\ \E r \in net : Agree(r, path, j - 1) /\ r[j] = 1
  /\ \A j \in 1..(bit - 1) :
       j \notin choices => \A r \in net : Agree(r, path, j - 1) => r[j] = path[j]
  /\ net = {} => \A j \in 1..(bit - 1) : path[j] = 1

Places ==
  /\ pc = "reset" => bit = 1
  /\ pc = "search" => bit <= Bits
  /\ pc = "reply" /\ steady => bit = Bits + 1

Searching == pc \in {"reset", "search", "reply"}

IInv ==
  /\ TypeOK
  /\ Places
  /\ LastDiscrepancy = 0 => ~LastDevice
  /\ Searching => ~LastDevice /\ dir = Directions
  /\ steady /\ LastDiscrepancy # 0 => Known
  /\ steady /\ Searching => Passed /\ (LastDiscrepancy = 0 => found = {})

LEMMA InitInv == Init => IInv
<1> SUFFICES ASSUME Init PROVE IInv
  OBVIOUS
<1>1. Zero \in Code
  BY DEF Zero
<1>2. 0 \in 0..MaxChanges /\ 1 \in 1..(Bits + 1) /\ 0 \in 0..Bits
  BY BitsNat, SearchAssumption
<1>3. TypeOK
  BY <1>1, <1>2 DEF Init, TypeOK, Answers
<1> QED
  BY <1>3 DEF Init, IInv, Places, Searching

-----------------------------------------------------------------------------
(* What is known when the reply to a search is there.                       *)

Replied == IInv /\ pc = "reply" /\ steady /\ net # {}

LEMMA RepliedFacts ==
  ASSUME Replied
  PROVE  /\ TypeOK /\ ~LastDevice /\ dir = Directions /\ Passed /\ bit = Bits + 1
         /\ LastDiscrepancy # 0 => Known
         /\ LastDiscrepancy = 0 => found = {}
         /\ net \subseteq Code /\ path \in Code /\ SerialNum \in Code
         /\ choices \subseteq 1..Bits
BY RomAssumption DEF Replied, IInv, Searching, Places, TypeOK

LEMMA PathConnected ==
  ASSUME Replied
  PROVE  path \in net
<1>1. PICK r \in on : TRUE
  BY RepliedFacts DEF Passed, Replied
<1>2. r \in net /\ Agree(r, path, Bits)
  BY <1>1, RepliedFacts, BitsNat DEF Passed
<1>3. r \in Code /\ path \in Code /\ \A i \in 1..Bits : r[i] = path[i]
  BY <1>2, RepliedFacts DEF Agree
<1>4. r = path
  BY <1>3, FirstDifference
<1> QED
  BY <1>2, <1>4

\* Where two devices that agree with the path disagree, there was a choice.
LEMMA Choice ==
  ASSUME Replied, NEW j \in 1..Bits, NEW r \in net, NEW q \in net,
         Agree(r, path, j - 1), Agree(q, path, j - 1), r[j] # q[j]
  PROVE  j \in choices /\ path[j] = dir[j]
<1>1. j \in 1..(bit - 1)
  BY RepliedFacts, BitsNat
<1> QED
  BY <1>1, RepliedFacts DEF Passed

\* The path leaves that of the last search at its last discrepancy.
LEMMA PathLeaves ==
  ASSUME Replied, LastDiscrepancy # 0
  PROVE  /\ LastDiscrepancy \in 1..Bits
         /\ Agree(path, SerialNum, LastDiscrepancy - 1)
         /\ path[LastDiscrepancy] = 1 /\ SerialNum[LastDiscrepancy] = 0
<1> DEFINE LD == LastDiscrepancy
<1>1. /\ Known /\ TypeOK /\ LD # None /\ LD \in 1..Bits
  BY RepliedFacts, BitsNat DEF Known, TypeOK
<1>2. PICK r \in net : Parts(SerialNum, r, LD)
  BY <1>1 DEF Known, Forks
<1>3. SerialNum \in net
  BY <1>1 DEF Known
<1>4. dir[LD] = 1 /\ \A j \in 1..(LD - 1) : dir[j] = SerialNum[j]
  BY <1>1, RepliedFacts, BitsNat DEF Directions
<1>5. ASSUME NEW i \in 1..Bits, Agree(path, SerialNum, i - 1), path[i] # SerialNum[i]
      PROVE  i >= LD
  <2>1. CASE i \in choices
    BY <1>1, <1>4, <1>5, <2>1, RepliedFacts, BitsNat DEF Passed
  <2>2. CASE i \notin choices
    BY <1>3, <1>5, <2>2, RepliedFacts, BitsNat DEF Passed, Agree
  <2> QED
    BY <2>1, <2>2
<1>6. Agree(path, SerialNum, LD - 1)
  <2>1. CASE path = SerialNum
    BY <2>1 DEF Agree
  <2>2. CASE path # SerialNum
    <3>1. PICK i \in 1..Bits : Agree(path, SerialNum, i - 1) /\ path[i] # SerialNum[i]
      BY <2>2, RepliedFacts, FirstDifference
    <3> QED
      BY <1>1, <1>5, <3>1, BitsNat DEF Agree
  <2> QED
    BY <2>1, <2>2
<1>7. Agree(SerialNum, path, LD - 1) /\ Agree(r, path, LD - 1)
  BY <1>2, <1>6 DEF Parts, Agree
<1>8. path[LD] = 1
  BY <1>1, <1>2, <1>3, <1>4, <1>7, Choice DEF Parts
<1> QED
  BY <1>1, <1>2, <1>6, <1>8 DEF Parts

LEMMA Sensible ==
  ASSUME Replied
  PROVE  ~Senseless
<1>1. path \in Roms
  BY PathConnected, RepliedFacts DEF TypeOK
<1>2. path \in Valid /\ ~NoFamily(path)
  BY <1>1, RomAssumption, SearchAssumption
<1>3. ASSUME LastDiscrepancy = Bits - 1 PROVE FALSE
  <2>1. Agree(path, SerialNum, Bits - 2) /\ path # SerialNum /\ Known
    BY <1>3, PathLeaves, RepliedFacts, BitsNat
  <2>2. SerialNum \in Roms
    BY <2>1, RepliedFacts DEF Known, TypeOK
  <2> QED
    BY <1>1, <2>1, <2>2, RomAssumption DEF Agree
<1> QED
  BY <1>2, <1>3 DEF Senseless

-----------------------------------------------------------------------------
(* The device found is the least of those not yet found.                    *)

LEMMA FoundBefore ==
  ASSUME Replied, NEW r \in found
  PROVE  r \in net /\ Before(r, path)
<1>1. LastDiscrepancy # 0 /\ Known
  BY RepliedFacts
<1>2. r \in net /\ SerialNum \in net /\ (r = SerialNum \/ Before(r, SerialNum))
  BY <1>1 DEF Known
<1>3. Before(SerialNum, path)
  BY <1>1, PathLeaves DEF Before, Parts, Agree
<1>4. r \in Code /\ SerialNum \in Code /\ path \in Code
  BY <1>2, RepliedFacts
<1> QED
  BY <1>2, <1>3, <1>4, Transitive

\* A device before the path was there when the path left it, and took 0 where the
\* directions said 1.
LEMMA BeforeFound ==
  ASSUME Replied, NEW r \in net, Before(r, path)
  PROVE  r \in found
<1>1. PICK i \in 1..Bits : Parts(r, path, i)
  BY DEF Before
<1>2. path \in net /\ Agree(path, path, i - 1) /\ r[i] = 0 /\ path[i] = 1
  BY <1>1, PathConnected DEF Parts, Agree
<1>3. dir[i] = 1
  BY <1>1, <1>2, Choice DEF Parts
<1>4. LastDiscrepancy \in 1..Bits /\ i <= LastDiscrepancy
  BY <1>3, RepliedFacts, BitsNat DEF Directions, TypeOK, None
<1>5. Known /\ Agree(path, SerialNum, LastDiscrepancy - 1) /\ SerialNum[LastDiscrepancy] = 0
  BY <1>4, PathLeaves, RepliedFacts, BitsNat
<1>6. CASE i < LastDiscrepancy
  <2>1. Parts(r, SerialNum, i)
    BY <1>1, <1>4, <1>5, <1>6, BitsNat DEF Parts, Agree
  <2> QED
    BY <1>5, <2>1 DEF Known, Before
<1>7. CASE i = LastDiscrepancy
  <2>1. Agree(r, SerialNum, i - 1) /\ r[i] = SerialNum[i]
    BY <1>1, <1>4, <1>5, <1>7, BitsNat DEF Parts, Agree
  <2>2. CASE r = SerialNum
    BY <1>5, <2>2 DEF Known
  <2>3. CASE Before(r, SerialNum)
    BY <1>5, <2>3 DEF Known
  <2>4. CASE Before(SerialNum, r)
    <3>1. PICK k \in 1..Bits : Parts(SerialNum, r, k)
      BY <2>4 DEF Before
    <3>2. k <= LastDiscrepancy
      BY <1>5, <3>1 DEF Known, Forks
    <3>3. k = i
      BY <1>4, <1>7, <2>1, <3>1, <3>2, BitsNat DEF Parts, Agree
    <3> QED
      BY <2>1, <3>1, <3>3 DEF Parts
  <2> QED
    BY <2>2, <2>3, <2>4, Total, RepliedFacts
<1> QED
  BY <1>4, <1>6, <1>7, BitsNat

LEMMA FoundNext ==
  ASSUME Replied
  PROVE  /\ path \in net \ found
         /\ \A q \in net \ found : q = path \/ Before(path, q)
         /\ found \cup {path} = {r \in net : r = path \/ Before(r, path)}
<1>1. path \in net /\ path \notin found
  BY PathConnected, FoundBefore, Irreflexive, RepliedFacts
<1>2. ASSUME NEW q \in net \ found PROVE q = path \/ Before(path, q)
  BY <1>2, BeforeFound, Total, RepliedFacts
<1>3. found \cup {path} = {r \in net : r = path \/ Before(r, path)}
  BY <1>1, FoundBefore, BeforeFound
<1> QED
  BY <1>1, <1>2, <1>3

-----------------------------------------------------------------------------
(* The last discrepancy of a search.                                        *)

LEMMA ForksOfPath ==
  ASSUME Replied, NEW i \in 1..Bits
  PROVE  Forks(path, i) <=> i \in choices /\ path[i] = 0
<1>1. ASSUME Forks(path, i) PROVE i \in choices /\ path[i] = 0
  <2>1. PICK r \in net : Parts(path, r, i)
    BY <1>1 DEF Forks
  <2>2. Agree(r, path, i - 1) /\ Agree(path, path, i - 1) /\ path[i] = 0 /\ r[i] = 1
    BY <2>1 DEF Parts, Agree
  <2> QED
    BY <2>2, PathConnected, Choice
<1>2. ASSUME i \in choices, path[i] = 0 PROVE Forks(path, i)
  <2>1. PICK r \in net : Agree(r, path, i - 1) /\ r[i] = 1
    BY <1>2, RepliedFacts DEF Passed
  <2>2. Parts(path, r, i)
    BY <1>2, <2>1 DEF Parts, Agree
  <2> QED
    BY <2>2 DEF Forks
<1> QED
  BY <1>1, <1>2

LEMMA LastZeroFacts ==
  ASSUME Replied
  PROVE  /\ LastZero \in 1..Bits \cup {None}
         /\ LastZero # None => LastZero \in choices /\ path[LastZero] = 0
         /\ \A i \in choices : path[i] = 0 => LastZero # None /\ i <= LastZero
<1> DEFINE zeros == {i \in choices : path[i] = 0}
<1>1. zeros \in SUBSET (1..Bits)
  BY RepliedFacts
<1>2. CASE zeros = {}
  BY <1>2 DEF LastZero
<1>3. CASE zeros # {}
  <2>1. \E i \in zeros : \A j \in zeros : j <= i
    BY <1>1, <1>3, GreatestBit
  <2>2. LastZero = CHOOSE i \in zeros : \A j \in zeros : j <= i
    BY <1>3 DEF LastZero
  <2>3. LastZero \in zeros /\ \A j \in zeros : j <= LastZero
    BY <2>1, <2>2
  <2>4. LastZero # None
    BY <1>1, <2>3, BitsNat DEF None
  <2> QED
    BY <1>1, <2>3, <2>4
<1> QED
  BY <1>2, <1>3

\* The device found is known, with what Reply puts into the search state.
LEMMA KnownNext ==
  ASSUME Replied, Reply
  PROVE  Known' /\ LastDiscrepancy' # 0 /\ TypeOK'
<1>1. /\ LastDevice' = IsLast /\ SerialNum' = path /\ LastDiscrepancy' = LastZero
      /\ found' = found \cup {path} /\ pc' = "idle" /\ ret' = "found"
      /\ UNCHANGED <<net, dir, adapter, steady, changes>>
  BY Sensible DEF Reply, Return
<1>2. LastZero \in 1..Bits \cup {None} /\ LastZero # 0
  BY LastZeroFacts, BitsNat DEF None
<1>3. ASSUME NEW i \in 1..Bits PROVE Forks(SerialNum, i)' <=> Forks(path, i)
  BY <1>1 DEF Forks, Parts, Agree
<1>4. IsLast <=> LastZero = None
  <2>1. CASE LastDiscrepancy = 0
    BY <1>2, <2>1 DEF IsLast
  <2>2. CASE LastDiscrepancy # 0
    BY <1>2, <2>2, PathLeaves, LastZeroFacts DEF IsLast
  <2> QED
    BY <2>1, <2>2
<1>5. found' = {r \in net' : r = SerialNum' \/ Before(r, SerialNum')}
  BY <1>1, FoundNext
<1>6. path \in net
  BY FoundNext
<1>7. \A i \in 1..Bits : Forks(path, i) => LastZero # None /\ i <= LastZero
  BY ForksOfPath, LastZeroFacts
<1>8. LastZero # None => Forks(path, LastZero)
  BY <1>2, ForksOfPath, LastZeroFacts
<1>9. Known'
  <2>1. \A i \in 1..Bits :
          Forks(SerialNum, i)' => LastDiscrepancy' # None /\ i <= LastDiscrepancy'
    BY <1>1, <1>3, <1>7
  <2>2. LastDiscrepancy' # None => Forks(SerialNum, LastDiscrepancy)'
    BY <1>1, <1>2, <1>3, <1>8
  <2> QED
    BY <1>1, <1>4, <1>5, <1>6, <2>1, <2>2 DEF Known, Before, Parts, Agree
<1>10. TypeOK'
  <2>1. path \in Code /\ path \in Valid /\ ~NoFamily(path) /\ TypeOK
    BY Sensible, RepliedFacts DEF Senseless
  <2>2. found' \in SUBSET {c \in Valid : ~NoFamily(c)}
    BY <1>1, <2>1 DEF TypeOK
  <2>3. LastDiscrepancy' \in 0..Bits \cup {None} /\ LastDevice' \in BOOLEAN
    BY <1>1, <1>2, BitsNat DEF IsLast
  <2> QED
    BY <1>1, <2>1, <2>2, <2>3 DEF TypeOK, adapter, Answers
<1> QED
  BY <1>1, <1>2, <1>9, <1>10

\* With no device on the net all bits read 1, which makes no sense.
LEMMA EmptyNet ==
  ASSUME IInv, pc = "reply", steady, net = {}
  PROVE  Senseless
<1>1. \A j \in 1..Bits : path[j] = 1
  BY BitsNat DEF IInv, Places, Searching, Passed
<1>2. path = [i \in 1..Bits |-> 1]
  BY <1>1 DEF IInv, TypeOK
<1> QED
  BY <1>2, SearchAssumption DEF Senseless

-----------------------------------------------------------------------------
(* The invariant is inductive.                                              *)

LEMMA StartInv ==
  ASSUME IInv, owFirst \/ owNext \/ AtEnd \/ NoPresence
  PROVE  IInv'
<1>0. TypeOK /\ 0 \in 0..Bits /\ "end" \in Answers
  BY BitsNat DEF IInv, Answers
<1>1. TypeOK'
  <2>1. UNCHANGED <<net, dir, bit, on, path, choices, found, steady, changes, SerialNum>>
    BY DEF owFirst, owNext, AtEnd, NoPresence, ResetSearch, state, adapter, history
  <2>2. LastDiscrepancy' \in {0, LastDiscrepancy} /\ LastDevice' \in {FALSE, LastDevice}
    BY DEF owFirst, owNext, AtEnd, NoPresence, ResetSearch, state
  <2>3. pc' \in {"next", "idle"} /\ ret' \in {"end", ret}
    BY DEF owFirst, owNext, AtEnd, NoPresence, Return
  <2> QED
    BY <1>0, <2>1, <2>2, <2>3 DEF TypeOK
<1>2. CASE owFirst
  BY <1>1, <1>2 DEF IInv, Places, Searching, owFirst, ResetSearch, state, adapter, history
<1>3. CASE owNext
  <2>1. Known <=> Known'
    BY <1>3 DEF owNext, state, history, Known, Forks, Parts, Agree, Before
  <2> QED
    BY <1>1, <1>3, <2>1 DEF IInv, Places, Searching, owNext, state, adapter, history
<1>4. CASE AtEnd
  BY <1>1, <1>4 DEF IInv, Places, Searching, AtEnd, ResetSearch, Return, adapter, history
<1>5. CASE NoPresence
  BY <1>1, <1>5 DEF IInv, Places, Searching, NoPresence, Return, adapter, history
<1> QED
  BY <1>2, <1>3, <1>4, <1>5

LEMMA GoInv ==
  ASSUME IInv, Go
  PROVE  IInv'
<1>1. /\ UNCHANGED <<net, state, changes, ret>>
      /\ pc' \in {"reset", "search"} /\ ~LastDevice
      /\ dir' = Directions /\ bit' = 1 /\ on' = net /\ path' = Zero /\ choices' = {}
      /\ LastDiscrepancy = 0 => found' = {} /\ steady' = TRUE
      /\ LastDiscrepancy # 0 => UNCHANGED history
  BY DEF Go
<1>2. Zero \in Code /\ Directions \in Code /\ 1 \in 1..(Bits + 1) /\ 1 <= Bits
  <2>1. ASSUME NEW i \in 1..Bits
        PROVE  Directions[i] \in Bit
    BY <2>1 DEF Directions, IInv, TypeOK
  <2> QED
    BY <2>1, BitsNat DEF Zero, Directions
<1>3. TypeOK'
  BY <1>1, <1>2 DEF IInv, TypeOK, state, history
<1>4. Directions' = dir'
  BY <1>1 DEF Directions, state
<1>5. LastDiscrepancy # 0 => (Known <=> Known')
  BY <1>1 DEF state, history, Known, Forks, Parts, Agree, Before
<1>6. Passed'
  <2>1. 1 - 1 = 0 /\ 1..0 = {}
    OBVIOUS
  <2>2. \A r \in net : Agree(r, Zero, 0)
    BY DEF Agree
  <2>3. on' = {r \in net' : Agree(r, path', bit' - 1)}
    BY <1>1, <2>1, <2>2
  <2> QED
    BY <1>1, <2>1, <2>3 DEF Passed, Agree
<1> QED
  BY <1>1, <1>2, <1>3, <1>4, <1>5, <1>6 DEF IInv, Places, Searching, state, history

LEMMA PresenceInv ==
  ASSUME IInv, Presence
  PROVE  IInv'
<1>1. /\ UNCHANGED <<net, state, dir, bit, path, choices, ret, history, changes>>
      /\ pc = "reset" /\ pc' = "search" /\ on' = net /\ net # {} /\ bit = 1
  BY DEF Presence, IInv, Places
<1>2. TypeOK' /\ 1 <= Bits
  BY <1>1, BitsNat DEF IInv, TypeOK, state, history
<1>3. Known <=> Known'
  BY <1>1 DEF state, history, Known, Forks, Parts, Agree, Before
<1>4. Directions' = Directions
  BY <1>1 DEF Directions, state
<1>5. steady => Passed'
  <2>1. on' = {r \in net' : Agree(r, path', bit' - 1)}
    BY <1>1 DEF Agree
  <2> QED
    BY <1>1, <2>1 DEF IInv, Searching, Passed, Agree
<1> QED
  BY <1>1, <1>2, <1>3, <1>4, <1>5 DEF IInv, Places, Searching, state, history

\* The adapter's step keeps what is known of the bits passed.
LEMMA SearchBitPassed ==
  ASSUME TypeOK, Passed, SearchBit
  PROVE  Passed' /\ TypeOK'
<1> DEFINE sent   == {r[bit] : r \in on}
           chosen == IF sent = Bit THEN dir[bit] ELSE IF sent = {0} THEN 0 ELSE 1
<1>1. /\ path' = [path EXCEPT ![bit] = chosen]
      /\ choices' = IF sent = Bit THEN choices \cup {bit} ELSE choices
      /\ on' = {r \in on : r[bit] = chosen}
      /\ bit' = bit + 1 /\ pc' \in {"reply", "search"}
      /\ UNCHANGED <<net, state, dir, ret, history, changes>>
  BY DEF SearchBit
<1>2. /\ bit \in 1..Bits /\ bit \in Nat /\ on \subseteq net /\ net \subseteq Code
      /\ dir \in Code /\ path \in Code /\ choices \subseteq 1..Bits
  BY RomAssumption, BitsNat DEF TypeOK, Passed, SearchBit
<1>3. sent \subseteq Bit /\ chosen \in Bit
  <2>1. \A r \in on : r[bit] \in Bit
    BY <1>2
  <2> QED
    BY <1>2, <2>1
<1>4. ASSUME on # {} PROVE \E r \in on : r[bit] = chosen
  <2>1. PICK q \in on : TRUE
    BY <1>4
  <2>2. q[bit] \in sent
    OBVIOUS
  <2>3. chosen \in sent
    <3>1. CASE sent = Bit
      BY <1>3, <3>1
    <3>2. CASE sent # Bit
      BY <1>3, <2>2, <3>2
    <3> QED
      BY <3>1, <3>2
  <2> QED
    BY <2>3
<1>5. sent # Bit => \A r \in on : r[bit] = chosen
  BY <1>2, <1>3
<1>6. sent = Bit => /\ chosen = dir[bit]
                    /\ \E r \in on : r[bit] = 0
                    /\ \E r \in on : r[bit] = 1
  <2>1. 0 \in Bit /\ 1 \in Bit
    OBVIOUS
  <2> QED
    BY <2>1
<1>7. on = {} => chosen = 1
  BY <1>5
<1> HIDE DEF sent, chosen
<1>8. /\ path' \in Code /\ path'[bit] = chosen
      /\ \A j \in 1..(bit - 1) : path'[j] = path[j]
  BY <1>1, <1>2, <1>3
<1>9. ASSUME NEW r \in net, NEW j \in 1..bit
      PROVE  Agree(r, path', j - 1) <=> Agree(r, path, j - 1)
  BY <1>2, <1>8 DEF Agree
<1>10. ASSUME NEW r \in net
       PROVE  Agree(r, path', bit) <=> Agree(r, path, bit - 1) /\ r[bit] = chosen
  BY <1>2, <1>8 DEF Agree
<1>11. TypeOK'
  <2>1. bit' \in 1..(Bits + 1) /\ on' \in SUBSET Roms /\ choices' \in SUBSET (1..Bits)
    BY <1>1, <1>2, BitsNat DEF TypeOK
  <2> QED
    BY <1>1, <1>8, <2>1 DEF TypeOK, state, history
<1>12. on = {r \in net : Agree(r, path, bit - 1)}
  BY DEF Passed
<1>13. on' = {r \in net' : Agree(r, path', bit' - 1)}
  <2>1. bit' - 1 = bit
    BY <1>1, <1>2
  <2> QED
    BY <1>1, <1>10, <1>12, <2>1
<1>14. net' # {} => on' # {}
  BY <1>1, <1>4 DEF Passed
<1>15. ASSUME NEW j \in choices'
       PROVE  /\ j \in 1..(bit' - 1) /\ path'[j] = dir'[j]
              /\ \E r \in net' : Agree(r, path', j - 1) /\ r[j] = 0
              /\ \E r \in net' : Agree(r, path', j - 1) /\ r[j] = 1
  <2>1. CASE j \in choices
    <3>1. j \in 1..(bit - 1) /\ path[j] = dir[j]
      BY <2>1 DEF Passed
    <3>2. PICK r \in net : Agree(r, path, j - 1) /\ r[j] = 0
      BY <2>1 DEF Passed
    <3>3. PICK q \in net : Agree(q, path, j - 1) /\ q[j] = 1
      BY <2>1 DEF Passed
    <3>4. j \in 1..bit /\ j \in 1..(bit' - 1)
      BY <1>1, <1>2, <3>1
    <3> QED
      BY <1>1, <1>8, <1>9, <3>1, <3>2, <3>3, <3>4
  <2>2. CASE j \notin choices
    <3>1. j = bit /\ sent = Bit
      BY <1>1, <2>2
    <3>2. j \in 1..bit /\ j \in 1..(bit' - 1)
      BY <1>1, <1>2, <3>1
    <3> QED
      BY <1>1, <1>6, <1>8, <1>9, <1>12, <3>1, <3>2
  <2> QED
    BY <2>1, <2>2
<1>16. ASSUME NEW j \in 1..(bit' - 1), j \notin choices', NEW r \in net',
              Agree(r, path', j - 1)
       PROVE  r[j] = path'[j]
  <2>1. j \in 1..bit /\ j \notin choices
    BY <1>1, <1>2, <1>16
  <2>2. r \in net /\ Agree(r, path, j - 1)
    BY <1>1, <1>9, <1>16, <2>1
  <2>3. CASE j = bit
    BY <1>1, <1>5, <1>8, <1>12, <1>16, <2>2, <2>3
  <2>4. CASE j # bit
    <3>1. j \in 1..(bit - 1)
      BY <1>2, <2>1, <2>4
    <3> QED
      BY <1>8, <2>1, <2>2, <3>1 DEF Passed
  <2> QED
    BY <2>3, <2>4
<1>17. ASSUME net' = {}, NEW j \in 1..(bit' - 1) PROVE path'[j] = 1
  <2>1. j \in 1..(bit - 1) \/ j = bit
    BY <1>1, <1>2
  <2> QED
    BY <1>1, <1>2, <1>7, <1>8, <1>17, <2>1 DEF Passed
<1> QED
  BY <1>11, <1>13, <1>14, <1>15, <1>16, <1>17 DEF Passed

LEMMA SearchBitInv ==
  ASSUME IInv, SearchBit
  PROVE  IInv'
<1>1. /\ UNCHANGED <<net, state, dir, ret, history, changes>>
      /\ pc = "search" /\ bit \in Nat /\ bit' = bit + 1 /\ TypeOK
      /\ pc' = IF bit = Bits THEN "reply" ELSE "search"
  BY BitsNat DEF SearchBit, IInv, TypeOK
<1>2. TypeOK'
  <2>1. CASE steady
    BY <1>1, <2>1, SearchBitPassed DEF IInv, Searching
  <2>2. CASE ~steady
    <3> DEFINE sent   == {r[bit] : r \in on}
               chosen == IF sent = Bit THEN dir[bit] ELSE IF sent = {0} THEN 0 ELSE 1
    <3>1. bit \in 1..Bits /\ bit' \in 1..(Bits + 1)
      BY <1>1, BitsNat DEF TypeOK, SearchBit
    <3>2. chosen \in Bit
      BY <1>1, <3>1 DEF TypeOK
    <3>3. path' = [path EXCEPT ![bit] = chosen]
      BY DEF SearchBit
    <3> HIDE DEF chosen
    <3>4. path' \in Code
      BY <1>1, <3>1, <3>2, <3>3 DEF TypeOK
    <3>5. on' \in SUBSET Roms /\ choices' \in SUBSET (1..Bits)
      BY <1>1, <3>1 DEF TypeOK, SearchBit
    <3> QED
      BY <1>1, <3>1, <3>4, <3>5 DEF TypeOK, state, history
  <2> QED
    BY <2>1, <2>2
<1>3. Known <=> Known'
  BY <1>1 DEF state, history, Known, Forks, Parts, Agree, Before
<1>4. Directions' = Directions
  BY <1>1 DEF Directions, state
<1>5. steady => Passed'
  BY <1>1, SearchBitPassed DEF IInv, Searching
<1>6. Places'
  <2>1. bit <= Bits
    BY DEF SearchBit
  <2> QED
    BY <1>1, <2>1, BitsNat DEF Places
<1> QED
  BY <1>1, <1>2, <1>3, <1>4, <1>5, <1>6 DEF IInv, Searching, state, history

LEMMA ReplyInv ==
  ASSUME IInv, Reply
  PROVE  IInv'
<1>1. /\ TypeOK /\ pc = "reply" /\ pc' = "idle" /\ 0 \in 0..Bits
      /\ UNCHANGED <<net, dir, adapter, steady, changes>>
  BY BitsNat DEF Reply, Return, IInv
<1>2. CASE Senseless
  <2>1. LastDiscrepancy' = 0 /\ LastDevice' = FALSE /\ UNCHANGED <<SerialNum, found>>
        /\ ret' = "error"
    BY <1>2 DEF Reply, ResetSearch, Return
  <2>2. TypeOK'
    BY <1>1, <2>1 DEF TypeOK, adapter, Answers
  <2> QED
    BY <1>1, <2>1, <2>2 DEF IInv, Places, Searching
<1>3. CASE ~Senseless /\ steady
  <2>1. Replied
    BY <1>1, <1>3, EmptyNet DEF Replied
  <2> QED
    BY <1>1, <2>1, KnownNext DEF IInv, Places, Searching
<1>4. CASE ~Senseless /\ ~steady
  <2>1. /\ LastDevice' = IsLast /\ SerialNum' = path /\ LastDiscrepancy' = LastZero
        /\ ret' = "found" /\ found' = found \cup {path}
    BY <1>4 DEF Reply, Return
  <2>2. LastZero \in 1..Bits \cup {None}
    <3> DEFINE zeros == {i \in choices : path[i] = 0}
    <3>1. CASE zeros = {}
      BY <3>1 DEF LastZero
    <3>2. CASE zeros # {}
      <4>1. zeros \in SUBSET (1..Bits)
        BY <1>1 DEF TypeOK
      <4>2. \E i \in zeros : \A j \in zeros : j <= i
        BY <3>2, <4>1, GreatestBit
      <4>3. LastZero = CHOOSE i \in zeros : \A j \in zeros : j <= i
        BY <3>2 DEF LastZero
      <4> QED
        BY <4>1, <4>2, <4>3
    <3> QED
      BY <3>1, <3>2
  <2>3. path \in Code /\ found' \in SUBSET {c \in Valid : ~NoFamily(c)}
    BY <1>1, <1>4, <2>1 DEF TypeOK, Senseless
  <2>4. LastDiscrepancy' \in 0..Bits \cup {None} /\ LastDevice' \in BOOLEAN
        /\ LastDiscrepancy' # 0
    BY <2>1, <2>2, BitsNat DEF IsLast, None
  <2>5. TypeOK'
    BY <1>1, <2>1, <2>3, <2>4 DEF TypeOK, adapter, Answers
  <2> QED
    BY <1>1, <1>4, <2>4, <2>5 DEF IInv, Places, Searching
<1> QED
  BY <1>2, <1>3, <1>4

LEMMA LostInv ==
  ASSUME IInv, Lost
  PROVE  IInv'
<1>1. /\ TypeOK /\ pc' = "idle" /\ ret' = "lost" /\ 0 \in 0..Bits
      /\ LastDiscrepancy' = 0 /\ UNCHANGED SerialNum /\ LastDevice' = FALSE
      /\ UNCHANGED <<net, dir, adapter, history, changes>>
  BY BitsNat DEF Lost, ResetSearch, Return, IInv, Searching
<1>2. TypeOK'
  BY <1>1 DEF TypeOK, adapter, history, Answers
<1> QED
  BY <1>1, <1>2 DEF IInv, Places, Searching

LEMMA ChangeInv ==
  ASSUME IInv, Change \/ Short
  PROVE  IInv'
<1>1. /\ TypeOK /\ steady' = FALSE /\ UNCHANGED <<state, dir, ret, found>>
      /\ changes' \in 0..MaxChanges /\ Zero \in Code
  BY SearchAssumption DEF Change, Short, IInv, TypeOK, Zero
<1>2. net' \in SUBSET Roms /\ on' \in SUBSET Roms
  BY <1>1 DEF Change, Short, TypeOK
<1>3. path' \in Code /\ choices' \in SUBSET (1..Bits) /\ bit' = bit
  BY <1>1 DEF Change, Short, TypeOK
<1>4. pc' = pc \/ (pc' = "reply" /\ pc = "search")
  BY DEF Change, Short
<1>5. TypeOK'
  BY <1>1, <1>2, <1>3, <1>4 DEF TypeOK, state
<1>6. Directions' = Directions
  BY <1>1 DEF Directions, state
<1> QED
  BY <1>1, <1>3, <1>4, <1>5, <1>6 DEF IInv, Places, Searching, state

LEMMA StepInv ==
  ASSUME IInv, [Next]_vars
  PROVE  IInv'
<1>1. CASE Next
  BY <1>1, StartInv, GoInv, PresenceInv, SearchBitInv, ReplyInv, LostInv, ChangeInv
  DEF Next, Search
<1>2. CASE UNCHANGED vars
  BY <1>2 DEF vars, state, adapter, history, IInv, TypeOK, Places, Searching, Directions,
     Known, Passed, Forks, Parts, Agree, Before
<1> QED
  BY <1>1, <1>2

\* The types hold in every state, for codes of any length.
THEOREM TypeCorrect == Spec => []TypeOK
<1>1. IInv => TypeOK
  BY DEF IInv
<1> QED
  BY InitInv, StepInv, <1>1, PTL DEF Spec

-----------------------------------------------------------------------------
(* The search is a walk over the list of the devices.                       *)

\* No device comes after the last.
LEMMA EndComplete ==
  ASSUME IInv, steady, LastDevice
  PROVE  found = net
<1>1. Known /\ LastDiscrepancy = None /\ net \subseteq Code
  BY RomAssumption DEF IInv, Known, TypeOK
<1>2. ASSUME NEW r \in net, r # SerialNum PROVE Before(r, SerialNum)
  <2>1. r \in Code /\ SerialNum \in Code
    BY <1>1 DEF Known
  <2>2. CASE Before(SerialNum, r)
    <3>1. PICK i \in 1..Bits : Parts(SerialNum, r, i)
      BY <2>2 DEF Before
    <3> QED
      BY <1>1, <3>1 DEF Known, Forks
  <2> QED
    BY <1>2, <2>1, <2>2, Total
<1> QED
  BY <1>1, <1>2 DEF Known

LEMMA NoneFound ==
  ASSUME IInv, Searching, steady, net = {}
  PROVE  found = {}
BY DEF IInv, Known

LEMMA SameOrder ==
  ASSUME NEW r, NEW s
  PROVE  List!Before(r, s) <=> Before(r, s)
BY DEF List!Before, List!Parts, List!Agree, Before, Parts, Agree

LEMMA StepImplements ==
  ASSUME IInv, [Next]_vars
  PROVE  [List!Next]_List!vars
<1>0. TypeOK /\ found' \in SUBSET Code /\ net' \in SUBSET Roms
  BY StepInv, SearchAssumption DEF IInv, TypeOK
<1>1. CASE UNCHANGED <<net, found, ret, steady>>
  BY <1>1 DEF List!vars
<1>2. CASE ~steady /\ ret' \in Answers /\ UNCHANGED <<net, steady>>
  BY <1>0, <1>2 DEF List!Next, List!Confused, List!Answers, Answers, List!Code, List!Bit
<1>3. CASE owFirst \/ owNext \/ Presence \/ SearchBit
  <2>1. UNCHANGED <<net, found, ret, steady>>
    BY <1>3 DEF owFirst, owNext, Presence, SearchBit, history
  <2> QED
    BY <1>1, <2>1
<1>4. CASE AtEnd
  <2>1. ret' = "end" /\ UNCHANGED <<net, found, steady>> /\ LastDevice
    BY <1>4 DEF AtEnd, Return, history
  <2>2. CASE steady
    BY <2>1, <2>2, EndComplete DEF List!Next, List!End
  <2> QED
    BY <1>2, <2>1, <2>2 DEF Answers
<1>5. CASE Go
  <2>1. CASE LastDiscrepancy = 0
    BY <1>5, <2>1 DEF Go, List!Next, List!Start
  <2> QED
    BY <1>1, <1>5, <2>1 DEF Go, history
<1>6. CASE NoPresence
  <2>1. ret' = "end" /\ UNCHANGED <<net, found, steady>> /\ net = {} /\ Searching
    BY <1>6 DEF NoPresence, Return, history, Searching
  <2>2. CASE steady
    BY <2>1, <2>2, NoneFound DEF List!Next, List!End
  <2> QED
    BY <1>2, <2>1, <2>2 DEF Answers
<1>7. CASE Reply
  <2>1. /\ pc = "reply" /\ UNCHANGED <<net, steady>>
        /\ IF Senseless THEN ret' = "error" /\ UNCHANGED found
                        ELSE ret' = "found" /\ found' = found \cup {path}
    BY <1>7 DEF Reply, Return
  <2>2. CASE steady /\ Senseless
    <3>1. net = {} /\ Searching
      BY <2>1, <2>2, Sensible DEF Replied, Searching
    <3> QED
      BY <2>1, <2>2, <3>1, NoneFound DEF List!Next, List!End
  <2>3. CASE steady /\ ~Senseless
    <3>1. Replied
      BY <2>1, <2>3, EmptyNet DEF Replied
    <3>2. path \in net \ found /\ \A q \in net \ found : q = path \/ List!Before(path, q)
      BY <3>1, FoundNext, SameOrder
    <3>3. List!Report
      BY <2>1, <2>3, <3>2 DEF List!Report
    <3> QED
      BY <3>3 DEF List!Next
  <2>4. CASE ~steady
    BY <1>2, <2>1, <2>4 DEF Answers
  <2> QED
    BY <2>2, <2>3, <2>4
<1>8. CASE Lost
  BY <1>8 DEF Lost, Return, history, List!Next, List!Lose
<1>9. CASE Change \/ Short
  BY <1>0, <1>9 DEF Change, Short, List!Next, List!Change
<1> QED
  BY <1>1, <1>3, <1>4, <1>5, <1>6, <1>7, <1>8, <1>9 DEF Next, Search, vars, history

\* Whatever devices are connected, a search through the adapter is a walk as
\* DeviceList promises it: each device once, in order, and none left out.
THEOREM ImplementsDeviceList == Spec => ImplementsList
<1>1. Init => List!Init
  BY DEF Init, List!Init
<1>2. IInv /\ [Next]_vars => [List!Next]_List!vars
  BY StepImplements
<1> QED
  BY InitInv, StepInv, <1>1, <1>2, PTL DEF Spec, ImplementsList, List!Spec

=============================================================================
