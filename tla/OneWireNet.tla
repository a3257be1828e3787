----------------------------- MODULE OneWireNet -----------------------------
(***************************************************************************)
(* A 1-Wire net as digitemp takes it to be: sensors, and DS2409 couplers   *)
(* that connect one of their two branches, main and auxiliary, or none.    *)
(* Couplers on a branch of another one are not supported.                  *)
(***************************************************************************)
EXTENDS RomOrder, Sequences

CONSTANTS
  Valid,   \* the codes with a correct CRC
  Kind     \* what a code's family says

Kinds == {"DS1820", "DS28EA00", "DS2413", "DS1923", "DS2423", "DS2438", "DS2406", "DS2409", "other"}
Couplers == {r \in Roms : Kind[r] = "DS2409"}
Batteries == {r \in Roms : Kind[r] = "DS2438"}

\* What a silent line reads as has a wrong CRC.  The family of the couplers, 0x1F, sends
\* five ones first: in a search they come after all other devices, supported or not.
\* (Only a family that ends in five ones, 0x3F to 0xFF, would come after them; the table
\* of device_name.c has none.)
ASSUME NetAssumption ==
  /\ Roms \subseteq Valid /\ Valid \subseteq Code
  /\ [i \in 1..Bits |-> 1] \notin Valid
  /\ Kind \in [Roms -> Kinds]
  /\ \A c \in Couplers : \A r \in Roms \ Couplers : Before(r, c)

\* Where a device is: on the main LAN, on a branch of a coupler, or nowhere.
Nowhere == [hub |-> Zero, line |-> "none"]
Lan     == [hub |-> Zero, line |-> "lan"]
Branches == [hub : Couplers, line : {"main", "aux"}]
Places  == {Nowhere, Lan} \cup Branches

VARIABLES
  place,   \* where each device is
  branch,  \* the branch each coupler has connected, "off" when none
  chip     \* of each DS2438 the source of voltage that is set and that its scratchpad says

net == <<place, branch, chip>>

Sources == {"vdd", "vad"}

NetTypeOK ==
  /\ place \in [Roms -> Places] /\ branch \in [Couplers -> {"off", "main", "aux"}]
  /\ chip \in [Batteries -> [cfg : Sources, pad : Sources]]

\* As anything may have left it.
NetInit ==
  /\ branch \in [Couplers -> {"off", "main", "aux"}]
  /\ \A c \in Couplers : place[c] = Nowhere => branch[c] = "off"
  /\ chip \in [Batteries -> [cfg : Sources, pad : Sources]]
  /\ \A b \in Batteries : place[b] = Nowhere => chip[b] = [pad |-> "vdd", cfg |-> "vdd"]

On(c) == place[c] = Lan

\* The devices on a branch, and all those the master reaches.
Behind(c, line) == {r \in Roms : On(c) /\ place[r] = [hub |-> c, line |-> line]}
Visible ==
  {r \in Roms : place[r] = Lan} \cup
  UNION {Behind(c, branch[c]) : c \in {d \in Couplers : branch[d] # "off"}}

-----------------------------------------------------------------------------
(* One search among some devices: for each bit the way given where they     *)
(* disagree, a silent line reading as 1 (see RomSearch).                    *)

Still(devices, way) == {r \in devices : \A i \in DOMAIN way : r[i] = way[i]}
SentAt(devices, way) == {r[Len(way) + 1] : r \in Still(devices, way)}

\* The code at the end of the way.
Ways == UNION {[1..n -> Bit] : n \in 0..Bits}
Path(devices, dir) ==
  LET end[way \in Ways] ==
        IF Len(way) = Bits THEN way
        ELSE LET sent == SentAt(devices, way)
                 i == Len(way) + 1
             IN end[Append(way, IF sent = Bit THEN dir[i] ELSE IF sent = {0} THEN 0 ELSE 1)]
  IN end[<<>>]

\* The last bit at which there was a choice and 0 was taken; 255 if none.
LastZero(devices, path) ==
  LET zeros == {i \in 1..Bits : path[i] = 0 /\ SentAt(devices, SubSeq(path, 1, i - 1)) = Bit}
  IN IF zeros = {} THEN 255 ELSE CHOOSE i \in zeros : \A j \in zeros : j <= i

\* owNext: the search state before it is [last, done], the code found last is code.
Again == [ok |-> FALSE, last |-> 0, done |-> FALSE, code |-> Zero]
Found(devices, search, path) ==
  LET last == LastZero(devices, path)
  IN IF search.done \/ path \notin Valid \/ NoFamily(path) \/ search.last = Bits - 1 THEN Again
     ELSE [ok |-> TRUE, last |-> last, done |-> last \in {search.last, 255}, code |-> path]
Searched(devices, search, code) ==
  LET dir == [i \in 1..Bits |-> IF search.last = 255 \/ i > search.last THEN 0
                                ELSE IF i < search.last THEN code[i] ELSE 1]
      result[d \in SUBSET Roms] == CHOOSE s \in {Found(d, search, path) : path \in {Path(d, dir)}} : TRUE
  IN result[devices]
=============================================================================
