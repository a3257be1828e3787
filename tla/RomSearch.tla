------------------------------- MODULE RomSearch -------------------------------
(***************************************************************************)
(* src/digitemp/userial/ds9097u/ownetu.c: the search for the devices on a  *)
(* 1-Wire net through a DS2480 adapter.                                    *)
(*                                                                         *)
(* owNext sends the adapter the direction to take at each bit of the ROM   *)
(* code should devices disagree there.  The adapter goes through the bits: *)
(* the devices still in send theirs, the adapter answers with the bit they *)
(* agree on or the direction, devices with another bit drop out.  The      *)
(* reply says for each bit which way it went and whether there was a       *)
(* choice.  The last bit at which the way 0 was chosen is where the next   *)
(* search takes the way 1.                                                 *)
(***************************************************************************)
EXTENDS RomOrder

CONSTANTS
  Valid,       \* the codes with a correct CRC
  MaxChanges   \* bound on the changes of the net

ASSUME SearchAssumption ==
  /\ Roms \subseteq Valid /\ Valid \subseteq Code
  /\ Zero \in Valid /\ [i \in 1..Bits |-> 1] \notin Valid
  /\ MaxChanges \in Nat

None == 255    \* 0xFF in place of a bit number

VARIABLES
  net,              \* the devices connected
  LastDiscrepancy, LastDevice, SerialNum,
  pc,               \* place in owNext
  dir,              \* directions in the packet sent
  bit, on,          \* adapter: the bit it is at, the devices still in
  path, choices,    \* its reply: the way taken, the bits with a choice
  ret,              \* what the last call has returned, see Answers
  found, steady,    \* history: devices reported by this walk; net has not changed in it
  changes           \* changes so far

state   == <<LastDiscrepancy, LastDevice, SerialNum>>
adapter == <<bit, on, path, choices>>
history == <<found, steady>>
vars    == <<net, state, pc, dir, adapter, ret, history, changes>>

\* owNext returns TRUE for "found" and FALSE for the others: the last device has
\* been reported before or no device is there, the reply makes no sense, or the
\* adapter did not answer.
Answers == {"none", "found", "end", "error", "lost"}

\* A code may be found that no device has, when devices go in the middle of a
\* search; but it has a checksum that is right and a family.
TypeOK ==
  /\ net \in SUBSET Roms
  /\ LastDiscrepancy \in 0..Bits \cup {None} /\ LastDevice \in BOOLEAN
  /\ SerialNum \in Code
  /\ pc \in {"idle", "next", "reset", "search", "reply"}
  /\ dir \in Code
  /\ bit \in 1..(Bits + 1) /\ on \in SUBSET Roms
  /\ path \in Code /\ choices \in SUBSET (1..Bits)
  /\ ret \in Answers
  /\ found \in SUBSET {c \in Valid : ~NoFamily(c)} /\ steady \in BOOLEAN
  /\ changes \in 0..MaxChanges

Init ==
  /\ net \in SUBSET Roms
  /\ LastDiscrepancy = 0 /\ LastDevice = FALSE /\ SerialNum = Zero
  /\ pc = "idle" /\ dir = Zero
  /\ bit = 1 /\ on = {} /\ path = Zero /\ choices = {}
  /\ ret = "none" /\ found = {} /\ steady = TRUE /\ changes = 0

Return(answer) == pc' = "idle" /\ ret' = answer

\* The search is reset, so that the next call is like a first one.
ResetSearch == LastDiscrepancy' = 0 /\ LastDevice' = FALSE /\ UNCHANGED SerialNum

-----------------------------------------------------------------------------
owFirst ==
  /\ pc = "idle" /\ ret # "found" /\ pc' = "next"
  /\ ResetSearch
  /\ UNCHANGED <<net, dir, adapter, ret, history, changes>>

\* The callers go on as long as devices are found.
owNext ==
  /\ pc = "idle" /\ ret = "found" /\ pc' = "next"
  /\ UNCHANGED <<net, state, dir, adapter, ret, history, changes>>

\* if (LastDevice[portnum])
AtEnd ==
  /\ pc = "next" /\ LastDevice
  /\ ResetSearch /\ Return("end")
  /\ UNCHANGED <<net, dir, adapter, history, changes>>

\* Faulty variant: the way of the last search is kept to the end.
KeptDirections ==
  [i \in 1..Bits |-> IF i = LastDiscrepancy THEN 1 ELSE SerialNum[i]]

\* The way of the last search up to the last discrepancy, which is taken the other
\* way, and 0 from there on.
Directions ==
  [i \in 1..Bits |->
     IF LastDiscrepancy = None \/ i > LastDiscrepancy THEN 0
     ELSE IF i < LastDiscrepancy THEN SerialNum[i] ELSE 1]

\* A reset comes first if do_reset says so.
Go ==
  /\ pc = "next" /\ ~LastDevice
  /\ pc' \in {"reset", "search"}
  /\ dir' = Directions
  /\ bit' = 1 /\ on' = net /\ path' = Zero /\ choices' = {}
  /\ IF LastDiscrepancy = 0 THEN found' = {} /\ steady' = TRUE ELSE UNCHANGED history
  /\ UNCHANGED <<net, state, ret, changes>>

\* owTouchReset returns FALSE when no device answers.
NoPresence ==
  /\ pc = "reset" /\ net = {}
  /\ LastDiscrepancy' = 0 /\ UNCHANGED <<LastDevice, SerialNum>>
  /\ Return("end")
  /\ UNCHANGED <<net, dir, adapter, history, changes>>

Presence ==
  /\ pc = "reset" /\ net # {} /\ pc' = "search"
  /\ on' = net
  /\ UNCHANGED <<net, state, dir, bit, path, choices, ret, history, changes>>

\* One bit of the adapter's search.  A silent line reads as 1.
SearchBit ==
  /\ pc = "search" /\ bit <= Bits
  /\ LET sent   == {r[bit] : r \in on}
         chosen == IF sent = Bit THEN dir[bit] ELSE IF sent = {0} THEN 0 ELSE 1
     IN /\ path' = [path EXCEPT ![bit] = chosen]
        /\ choices' = IF sent = Bit THEN choices \cup {bit} ELSE choices
        /\ on' = {r \in on : r[bit] = chosen}
  /\ bit' = bit + 1
  /\ pc' = IF bit = Bits THEN "reply" ELSE "search"
  /\ UNCHANGED <<net, state, dir, ret, history, changes>>

\* tmp_last_desc: the last bit at which there was a choice and 0 was taken.
LastZero ==
  LET zeros == {i \in choices : path[i] = 0} IN
  IF zeros = {} THEN None ELSE CHOOSE i \in zeros : \A j \in zeros : j <= i

\* Faulty variant: no look at the family.
SenselessSum == path \notin Valid \/ LastDiscrepancy = Bits - 1

\* The results are checked: CRC and family, which a shorted line has none of.
Senseless == path \notin Valid \/ LastDiscrepancy = Bits - 1 \/ NoFamily(path)

\* Faulty variant: a search without any choice is not taken for the last.
IsLastOnRepeat == LastZero = LastDiscrepancy

IsLast == LastZero \in {LastDiscrepancy, None}

Reply ==
  /\ pc = "reply"
  /\ IF Senseless
       THEN ResetSearch /\ Return("error") /\ UNCHANGED found
       ELSE /\ LastDevice' = IsLast
            /\ SerialNum' = path /\ LastDiscrepancy' = LastZero
            /\ Return("found") /\ found' = found \cup {path}
  /\ UNCHANGED <<net, dir, adapter, steady, changes>>

\* Writing to the adapter or reading from it fails, in owTouchReset or after it.
Lost ==
  /\ pc \in {"reset", "search", "reply"}
  /\ IF pc = "reset" THEN LastDiscrepancy' = 0 /\ UNCHANGED <<LastDevice, SerialNum>>
                     ELSE ResetSearch
  /\ Return("lost")
  /\ UNCHANGED <<net, dir, adapter, history, changes>>

-----------------------------------------------------------------------------
\* Devices come or go; a device that comes while a search is on waits for the
\* next reset, and one that goes sends nothing more.
Change ==
  /\ changes < MaxChanges /\ changes' = changes + 1
  /\ net' \in SUBSET Roms /\ on' = on \cap net' /\ steady' = FALSE
  /\ UNCHANGED <<state, pc, dir, bit, path, choices, ret, found>>

\* The line is shorted while a search is on: all bits read 0.
Short ==
  /\ changes < MaxChanges /\ changes' = changes + 1
  /\ pc = "search" /\ pc' = "reply"
  /\ path' = Zero /\ choices' = {} /\ steady' = FALSE
  /\ UNCHANGED <<net, state, dir, bit, on, ret, found>>

Search == AtEnd \/ Go \/ NoPresence \/ Presence \/ SearchBit \/ Reply

Next == owFirst \/ owNext \/ Search \/ Lost \/ Change \/ Short

\* The callers go on while they are told TRUE, and calls return.
Spec == Init /\ [][Next]_vars /\ WF_vars(owNext) /\ WF_vars(Search)

-----------------------------------------------------------------------------
(* Properties.                                                              *)

\* The walk is what DeviceList promises: each device once, in order, none left out
\* when it says that it is at the end; and no search fails but for a disturbance.
List == INSTANCE DeviceList WITH net <- net, found <- found, ret <- ret, steady <- steady
ImplementsList == List!Spec

\* A caller's loop ends, also when devices come and go while it runs and when a
\* search starts over a part of the net that is no longer what it was.
WalkEnds == ret = "found" ~> ret # "found"

=============================================================================
