------------------------------ MODULE Digitemp ------------------------------
(***************************************************************************)
(* digitemp: processes that walk over the net, initialise the list of the  *)
(* sensors in the rc file, or sample them, one process after another.      *)
(*                                                                         *)
(* A sensor behind a coupler is reached only while its branch is           *)
(* connected.  The program remembers in Last2409 which branch it has       *)
(* connected last, so as not to do it again; the couplers keep what they   *)
(* were told, whatever becomes of the process or of their answers.         *)
(***************************************************************************)
EXTENDS OneWireNet, SequencesExt

CONSTANTS
  Options,    \* the command lines the user may give
  Files,      \* rc files there may be at first
  Layouts,    \* nets there may be
  MaxFaults   \* bound: requests that fail, or losses of power, in a behaviour

MAX_READ_TRIES == 3

\* The sensors of the main LAN and, for each coupler, those of its branches.
Coupler == [rom : Couplers, main : Seq(Roms), aux : Seq(Roms)]
Lists   == [direct : Seq(Roms), couplers : Seq(Coupler)]
NoList  == [couplers |-> <<>>, direct |-> <<>>]

\* The rc file: ROM lines, COUPLER lines, and CROM lines with the place of their coupler
\* among these.
Crom   == [at : Nat, line : {"main", "aux"}, rom : Roms]
Rcfile == [roms : Seq(Roms), couplers : Seq(Couplers), croms : Seq(Crom)]
NoFile == [roms |-> <<>>, couplers |-> <<>>, croms |-> <<>>]

write_rcfile(l) ==
  LET Lines(i, way, s) == [k \in DOMAIN s |-> [line |-> way, at |-> i, rom |-> s[k]]]
  IN [roms |-> l.direct, couplers |-> [i \in DOMAIN l.couplers |-> l.couplers[i].rom],
      croms |-> FlattenSeq([i \in DOMAIN l.couplers |->
                  Lines(i, "main", l.couplers[i].main) \o Lines(i, "aux", l.couplers[i].aux)])]

\* The elements of s at some of its places, in their order.
Picked(s, places) ==
  LET upTo[n \in 0..Len(s)] ==
        IF n = 0 THEN <<>>
        ELSE IF n \in places THEN Append(upTo[n - 1], s[n]) ELSE upTo[n - 1]
  IN upTo[Len(s)]

read_rcfile(f) ==
  LET Sensors(i, way) ==
        LET s == Picked(f.croms, {k \in DOMAIN f.croms : f.croms[k].at = i /\ f.croms[k].line = way})
        IN [k \in DOMAIN s |-> s[k].rom]
  IN [couplers |-> [i \in DOMAIN f.couplers |->
        [rom |-> f.couplers[i], main |-> Sensors(i, "main"), aux |-> Sensors(i, "aux")]],
      direct |-> f.roms]

\* -w, -i, -a, -t n, -A, -o 2 or 3, -n samples (0: for ever).  No coupler is on a branch
\* of another one.
ASSUME OptionAssumption ==
  /\ Options # {}
  /\ Options \subseteq [walk : BOOLEAN, init : BOOLEAN, all : BOOLEAN, one : BOOLEAN, sensor : Nat,
                        ad : BOOLEAN, columns : BOOLEAN, samples : Nat]
  /\ Files \subseteq Rcfile /\ MaxFaults \in Nat
  /\ Layouts \subseteq {p \in [Roms -> Places] : \A c \in Couplers : p[c] \in {Nowhere, Lan}}

VARIABLES
  file,             \* the rc file
  opt, list,        \* the command line; sensor_list and the list of couplers
  pc, search, serial,   \* place in the process; the search; SerialNum
  walked, shown,    \* coupler_list of Walk1Wire; what a walk has printed
  ci, line, first,  \* the coupler and the branch of a loop, and whether it begins
  Last2409,         \* the coupler and the branch connected last
  round, next,      \* samples taken; the place in the sensors of this one
  try, seen, got,   \* tries; the error conditions seen; what the steps of a reading gave
  row,              \* history: readings logged in this sample
  faults, calm, bad, dark  \* bound; whole samples since a fault, 0 to 3;
                    \* history: a request, the power has failed in this process

disk == file
lists == <<opt, list>>
walk  == <<walked, shown, ci, line, first>>
sample == <<Last2409, round, next, row>>
reading == <<try, seen, got>>
fault == <<faults, calm, bad, dark>>
vars == <<net, disk, lists, pc, search, serial, walk, sample, reading, fault>>

Start0 == [last |-> 0, done |-> FALSE]
Unknown == [hub |-> Zero, line |-> "none"]
Entry(c, l, r) == [hub |-> c, line |-> l, rom |-> r]

\* The sensors in the order of their numbers.
Flat(l) ==
  [i \in DOMAIN l.direct |-> Entry(Zero, "lan", l.direct[i])] \o
  FlattenSeq([i \in DOMAIN l.couplers |->
    LET c == l.couplers[i]
    IN [k \in DOMAIN c.main |-> Entry(c.rom, "main", c.main[k])] \o
       [k \in DOMAIN c.aux  |-> Entry(c.rom, "aux", c.aux[k])]])

\* The numbers of the sensors to read in a sample: read_device(sensor), then read_all.
Wanted ==
  (IF opt.one THEN <<opt.sensor>> ELSE <<>>) \o
  (IF opt.all THEN [i \in DOMAIN Flat(list) |-> i - 1] ELSE <<>>)

Pcs == {"idle", "acquire", "forget", "sweep", "sweepOff", "list", "listOff", "branch", "branchNext",
        "write", "close", "round", "select", "convert", "scratch", "logger", "count", "volts",
        "temperature", "pio", "rowEnd", "leave"}

Logged == [n : Nat, rom : Roms \cup {Zero}, what : {"fresh", "none"}]

TypeOK ==
  /\ NetTypeOK /\ file \in Rcfile /\ list \in Lists /\ opt \in Options
  /\ pc \in Pcs /\ search \in [last : 0..Bits \cup {255}, done : BOOLEAN] /\ serial \in Roms \cup {Zero}
  /\ walked \in Seq(Couplers) /\ shown \in Seq([hub : Code, line : {"lan", "main", "aux"}, rom : Roms])
  /\ ci \in Nat /\ line \in {"main", "aux"} /\ first \in BOOLEAN
  /\ Last2409 \in Branches \cup {Unknown}
  /\ round \in Nat /\ next \in Nat
  /\ try \in 0 .. MAX_READ_TRIES - 1 /\ seen \subseteq {"glitch", "start"}
  /\ got \in Seq(Sources \cup {"error", "fresh", "none"}) /\ row \in Seq(Logged)
  /\ faults \in 0..MaxFaults /\ calm \in 0..3 /\ bad \in BOOLEAN /\ dark \in BOOLEAN

\* While no process runs.
NoOption == CHOOSE o \in Options : TRUE

\* The net is as other processes have left it.
Init ==
  /\ place \in Layouts /\ NetInit
  /\ file \in Files /\ opt = NoOption /\ list = NoList
  /\ pc = "idle" /\ search = Start0 /\ serial = Zero
  /\ walked = <<>> /\ shown = <<>> /\ ci = 1 /\ line = "main" /\ first = TRUE
  /\ Last2409 = Unknown /\ round = 0 /\ next = 1 /\ row = <<>>
  /\ try = 0 /\ seen = {} /\ got = <<>>
  /\ faults = 0 /\ calm = 0 /\ bad = FALSE /\ dark = FALSE

-----------------------------------------------------------------------------
(* Requests.                                                                *)

Goto(there) == pc' = there

\* A request gets through, or it fails although nothing is wrong with the net.
Fine == UNCHANGED fault
Fails == /\ faults < MaxFaults /\ faults' = faults + 1
         /\ calm' = 0 /\ bad' = TRUE /\ UNCHANGED dark

Reached(c) == c \in Couplers /\ On(c)

\* SetSwitch1F: the confirmation tells that the coupler has obeyed.  The reset that
\* comes before it is answered by the coupler, too.
Switched(c, to) ==
  Fine /\ Reached(c) /\ branch' = [branch EXCEPT ![c] = to] /\ UNCHANGED <<place, chip>>
NotSwitched(c, to) ==
  /\ UNCHANGED <<place, chip>>
  /\ \/ Fine /\ ~Reached(c) /\ UNCHANGED branch
     \/ Fails /\ branch' \in {branch} \cup
                 (IF Reached(c) THEN {[branch EXCEPT ![c] = to]} ELSE {})

\* owFirst, owNext among some devices: found or not, be it for an error.
Finds(devices) ==
  \E s \in {Searched(devices, search, serial)} :
     /\ Fine /\ s.ok
     /\ serial' = s.code /\ search' = [last |-> s.last, done |-> s.done]
FindsNone(devices) ==
  /\ search' = Start0 /\ UNCHANGED serial
  /\ Fails \/ (Fine /\ ~Searched(devices, search, serial).ok)
-----------------------------------------------------------------------------
(* main, and free_coupler(0).                                               *)

Supported == {r \in Roms : Kind[r] \notin {"DS2409", "other"}}

ClearWalk == walked' = <<>> /\ shown' = <<>> /\ ci' = 1 /\ line' = "main" /\ first' = TRUE
ClearReading == try' = 0 /\ seen' = {} /\ got' = <<>>
ClearProcess ==
  /\ search' = Start0 /\ serial' = Zero /\ ClearWalk /\ ClearReading
  /\ Last2409' = Unknown /\ round' = 0 /\ next' = 1 /\ row' = <<>>
  /\ calm' = 0 /\ bad' = FALSE /\ dark' = FALSE

Begin(o) ==
  /\ pc = "idle" /\ Goto("acquire")
  /\ opt' = o /\ list' = read_rcfile(file) /\ ClearProcess
  /\ UNCHANGED <<net, disk, faults>>

\* Whatever ends a process: the couplers and the file stay as they are.
Ended ==
  /\ Goto("idle") /\ opt' = NoOption /\ list' = NoList /\ ClearProcess
  /\ UNCHANGED <<net, disk>>
Kill == pc # "idle" /\ Ended /\ UNCHANGED faults

\* owAcquire.
Acquire ==
  /\ pc = "acquire" /\ Fine
  /\ Goto(IF opt.walk THEN "sweep" ELSE IF opt.init THEN "forget" ELSE "round")
  /\ UNCHANGED <<net, disk, lists, search, serial, walk, sample, reading>>
\* There is no port, it may not be used, another process has locked it, or owAcquire
\* fails: the process ends, and nothing it may still ask for gets through.
NoAdapter ==
  /\ pc = "acquire" /\ Ended /\ faults < MaxFaults /\ faults' = faults + 1

\* Nobody looks whether the couplers obey.
TurnOff ==
  /\ pc \in {"forget", "leave"} /\ ci \in DOMAIN list.couplers
  /\ LET c == list.couplers[ci].rom IN Switched(c, "off") \/ NotSwitched(c, "off")
  /\ ci' = ci + 1
  /\ UNCHANGED <<disk, lists, pc, search, serial, walked, shown, line, first, sample, reading>>

\* What had been read from the rc file is forgotten.
Forgotten ==
  /\ pc = "forget" /\ ci \notin DOMAIN list.couplers /\ Goto("sweep")
  /\ list' = NoList /\ search' = Start0
  /\ UNCHANGED <<net, disk, opt, serial, walk, sample, reading, fault>>

Exit == pc = "leave" /\ ci \notin DOMAIN list.couplers /\ Ended /\ UNCHANGED faults

-----------------------------------------------------------------------------
(* Walk1Wire and Init1WireLan: all couplers are turned off, the main LAN is *)
(* searched, then each branch.                                              *)

\* Faulty variant: the devices of a net with connected branches are listed.
SweepNot ==
  /\ pc = "sweep" /\ Goto("list") /\ Fine
  /\ UNCHANGED <<net, disk, lists, search, serial, walk, sample, reading>>

\* An error in the search ends it as its end does.
Sweep ==
  /\ pc = "sweep"
  /\ \/ Finds(Visible) /\ Goto(IF Kind[serial'] = "DS2409" THEN "sweepOff" ELSE "sweep")
     \/ FindsNone(Visible) /\ Goto("list")
  /\ UNCHANGED <<net, disk, lists, walk, sample, reading>>

\* The coupler just found is turned off; Init1WireLan frees what it has found.
CouplerOff(here, there) ==
  /\ pc = here
  /\ \/ Switched(serial, "off") /\ Goto(there) /\ UNCHANGED list
     \/ NotSwitched(serial, "off") /\ Goto("leave")
        /\ list' = IF opt.walk THEN list ELSE NoList
  /\ ci' = 1
  /\ UNCHANGED <<disk, opt, search, serial, walked, shown, line, first, sample, reading>>

\* A device on the main LAN.
Listed(r) ==
  IF Kind[r] = "DS2409"
  THEN [list EXCEPT !.couplers = Append(@, [rom |-> r, main |-> <<>>, aux |-> <<>>])]
  ELSE IF r \in Supported THEN [list EXCEPT !.direct = Append(@, r)] ELSE list

ListLan ==
  /\ pc = "list"
  /\ \/ /\ Finds(Visible)
        /\ LET r == serial' IN
             IF opt.walk
             THEN /\ shown' = Append(shown, Entry(Zero, "lan", r)) /\ UNCHANGED list
                  /\ IF Kind[r] = "DS2409"
                     THEN walked' = Append(walked, r) /\ Goto("listOff")
                     ELSE UNCHANGED walked /\ Goto("list")
             ELSE list' = Listed(r) /\ Goto("list") /\ UNCHANGED <<walked, shown>>
     \/ FindsNone(Visible) /\ Goto("branch") /\ UNCHANGED <<list, walked, shown>>
  /\ UNCHANGED <<net, disk, opt, ci, line, first, sample, reading>>

Hubs == IF opt.walk THEN walked ELSE [i \in DOMAIN list.couplers |-> list.couplers[i].rom]

\* Faulty variant: after its second branch the same coupler comes once more.
SameCoupler ==
  /\ first' = TRUE /\ Goto("branch") /\ search' = Start0
  /\ line' = IF line = "main" THEN "aux" ELSE "main"
  /\ UNCHANGED ci

\* FALSE from owBranchFirst or owBranchNext.
NextBranch ==
  /\ first' = TRUE /\ Goto("branch") /\ search' = Start0
  /\ line' = IF line = "main" THEN "aux" ELSE "main"
  /\ ci' = IF line = "main" THEN ci ELSE ci + 1

\* owBranchFirst and owBranchNext: the branch is connected again before each search,
\* which only the devices behind it take part in.  The first asks for a presence.
ConnectBranch ==
  /\ pc = "branch" /\ ci \in DOMAIN Hubs
  /\ LET c == Hubs[ci] IN
     \/ /\ Switched(c, line)
        /\ IF first /\ Behind(c, line) = {} THEN NextBranch
           ELSE Goto("branchNext") /\ UNCHANGED <<ci, line, first, search>>
     \/ NotSwitched(c, line) /\ NextBranch
  /\ UNCHANGED <<disk, lists, serial, walked, shown, sample, reading>>

ListedBehind(r) ==
  IF r \notin Supported THEN list
  ELSE IF line = "main" THEN [list EXCEPT !.couplers[ci].main = Append(@, r)]
  ELSE [list EXCEPT !.couplers[ci].aux = Append(@, r)]

SearchBranch ==
  LET c == Hubs[ci]
      devices == IF branch[c] = line THEN Behind(c, line) ELSE {}
  IN /\ pc = "branchNext"
     /\ \/ /\ Finds(devices) /\ first' = FALSE /\ Goto("branch") /\ UNCHANGED <<ci, line>>
           /\ IF opt.walk THEN shown' = Append(shown, Entry(c, line, serial')) /\ UNCHANGED list
              ELSE list' = ListedBehind(serial') /\ UNCHANGED shown
        \/ FindsNone(devices) /\ NextBranch /\ UNCHANGED <<list, shown>>
     /\ UNCHANGED <<net, disk, opt, walked, sample, reading>>

\* Without any sensor the old file stays.
BranchesDone ==
  /\ pc = "branch" /\ ci \notin DOMAIN Hubs
  /\ Goto(IF opt.walk THEN "leave" ELSE IF Flat(list) # <<>> THEN "write" ELSE "round")
  /\ ci' = 1
  /\ UNCHANGED <<net, disk, lists, search, serial, walked, shown, line, first, sample, reading, fault>>

\* The file is truncated first and filled when it is closed; that it
\* cannot be opened goes unnoticed.
OpenFile ==
  /\ pc = "write"
  /\ \/ Fine /\ file' = NoFile /\ Goto("close")
     \/ Fails /\ UNCHANGED file /\ Goto("round")
  /\ UNCHANGED <<net, lists, search, serial, walk, sample, reading>>

CloseFile ==
  /\ pc = "close" /\ file' = write_rcfile(list) /\ Goto("round")
  /\ UNCHANGED <<net, lists, search, serial, walk, sample, reading, fault>>

InitLan == \/ Forgotten \/ Sweep \/ CouplerOff("sweepOff", "sweep") \/ CouplerOff("listOff", "list")
           \/ ListLan \/ ConnectBranch \/ SearchBranch \/ BranchesDone \/ OpenFile \/ CloseFile

-----------------------------------------------------------------------------
(* Sampling: the loop of main, read_all and read_device.                    *)

NewRound ==
  /\ pc = "round" /\ Goto("select")
  /\ next' = 1 /\ row' = <<>> /\ ClearReading
  /\ calm' = (IF calm < 3 THEN calm + 1 ELSE 3) /\ UNCHANGED <<faults, bad, dark>>
  /\ UNCHANGED <<net, disk, lists, search, serial, walk, Last2409, round>>

\* The sensor with this number, as read_device finds it; none beyond the end.
Before0(i) ==
  LET sum[j \in 1..i] ==
        IF j = 1 THEN Len(list.direct)
        ELSE sum[j - 1] + Len(list.couplers[j - 1].main) + Len(list.couplers[j - 1].aux)
  IN sum[i]

Chosen(n) ==
  IF n < Len(list.direct) THEN {Entry(Zero, "lan", list.direct[n + 1])}
  ELSE UNION {LET c == list.couplers[i]
                  s == n - Before0(i)
                  a == s - Len(c.main)
              IN (IF s \in 0 .. Len(c.main) - 1 THEN {Entry(c.rom, "main", c.main[s + 1])} ELSE {}) \cup
                 (IF a \in 0 .. Len(c.aux) - 1 THEN {Entry(c.rom, "aux", c.aux[a + 1])} ELSE {})
              : i \in DOMAIN list.couplers}

NextSensor == next' = next + 1 /\ Goto("select") /\ ClearReading

\* The switch by family.  There is no case for a DS2406, although it is listed.  The five
\* calls of get_ibl_type before a DS2438 is read are left out: they recall and read its
\* pages 3 to 7, each with a scratchpad of its own, while the source of voltage is in page
\* 0, and nobody looks at what they return.
FirstStep(r) ==
  LET k == IF r \in Roms THEN Kind[r] ELSE "other"
  IN CASE k = "DS1820" \/ (k = "DS28EA00" /\ ~opt.ad) -> "convert"
       [] k = "DS2413" \/ (k = "DS28EA00" /\ opt.ad) -> "pio"
       [] k = "DS1923" -> "logger"
       [] k = "DS2423" -> "count"
       [] k = "DS2438" -> IF opt.ad THEN "temperature" ELSE "volts"
       [] OTHER -> "select"

Read(r) ==
  IF FirstStep(r) = "select" THEN NextSensor
  ELSE Goto(FirstStep(r)) /\ UNCHANGED <<next, reading>>

\* Faulty variant: only the coupler is compared, not the branch.
ConnectedHub(e) == e.line = "lan" \/ Last2409.hub = e.hub

Connected(e) == e.line = "lan" \/ Last2409 = [hub |-> e.hub, line |-> e.line]

Select ==
  /\ pc = "select" /\ next \in DOMAIN Wanted
  /\ LET n == Wanted[next] IN
     \/ \E e \in Chosen(n) : /\ Connected(e) /\ serial' = e.rom /\ Read(e.rom)
                             /\ UNCHANGED <<net, Last2409, fault>>
     \/ Chosen(n) = {} /\ Read(serial) /\ UNCHANGED <<net, serial, Last2409, fault>>
     \/ \E e \in Chosen(n) :
          /\ ~Connected(e)
          /\ \/ /\ Switched(e.hub, e.line) /\ Last2409' = [hub |-> e.hub, line |-> e.line]
                /\ serial' = e.rom /\ Read(e.rom)
             \/ NotSwitched(e.hub, e.line) /\ NextSensor /\ UNCHANGED <<serial, Last2409>>
  /\ UNCHANGED <<disk, lists, search, walk, round, row>>

RowDone ==
  /\ pc = "select" /\ next \notin DOMAIN Wanted /\ Goto("rowEnd")
  /\ UNCHANGED <<net, disk, lists, search, serial, walk, sample, reading, fault>>

NextSample ==
  /\ pc = "rowEnd"
  /\ round' = IF opt.samples = 0 THEN 0 ELSE round + 1
  /\ Goto(IF opt.samples = 0 \/ round' < opt.samples THEN "round" ELSE "leave")
  /\ ci' = 1
  /\ UNCHANGED <<net, disk, lists, search, serial, walked, shown, line, first, Last2409, next, row,
                 reading, fault>>

-----------------------------------------------------------------------------
(* Reading one sensor.                                                      *)

\* A reading that comes from this device, or from no device, is logged.
Log(r, what) == row' = Append(row, [rom |-> r, n |-> Wanted[next], what |-> what])

Here == serial \in Visible

\* owAccess only finds out whether there is any device.
NoAccess == Fails \/ (Fine /\ Visible = {})

\* Faulty variant: one try too many.
RetryOnceMore(step) ==
  IF try < MAX_READ_TRIES
  THEN try' = try + 1 /\ got' = <<>> /\ Goto(step) /\ UNCHANGED <<seen, next>>
  ELSE NextSensor

\* The next try, with or without a reset before it.
Retry(step) ==
  IF try + 1 < MAX_READ_TRIES
  THEN try' = try + 1 /\ got' = <<>> /\ Goto(step) /\ UNCHANGED <<seen, next>>
  ELSE NextSensor

\* read_temperature, up to the delay
Convert ==
  /\ pc = "convert"
  /\ \/ /\ Fine /\ Visible # {} /\ Goto("scratch")
        /\ got' = <<IF Here THEN "fresh" ELSE "none">> /\ UNCHANGED <<next, try, seen>>
     \/ NoAccess /\ Retry("convert")
     \/ Fails /\ NextSensor
  /\ UNCHANGED <<net, disk, lists, search, serial, walk, Last2409, round, row>>

\* Conditions that make read_temperature try once more: the values of a DS1820 that
\* differ by one, and bytes that are taken for those of a DS18S20 after power on.
Suspect(c) == Kind[serial] = "DS1820" /\ c \notin seen

\* Only a failed checksum in the last try keeps the columns in step.
Scratch ==
  /\ pc = "scratch"
  /\ \/ Fine /\ Here /\ Log(serial, got[1]) /\ NextSensor
     \/ \E c \in {"glitch", "start"} :
          /\ Fine /\ Here /\ Suspect(c) /\ UNCHANGED row
          /\ IF try + 1 < MAX_READ_TRIES
             THEN /\ seen' = seen \cup {c} /\ try' = try + 1 /\ got' = <<>>
                  /\ Goto("convert") /\ UNCHANGED next
             ELSE NextSensor
     \/ NoAccess /\ Retry("convert") /\ UNCHANGED row
     \/ /\ Fails \/ (Fine /\ Visible # {} /\ ~Here)
        /\ Retry("convert")
        /\ IF opt.columns /\ try = MAX_READ_TRIES - 1 THEN Log(Zero, "none") ELSE UNCHANGED row
  /\ UNCHANGED <<net, disk, lists, search, serial, walk, Last2409, round>>

\* read_temperature_DS1923: no checksum, so that what is read from nobody is logged.
ReadLogger ==
  /\ pc = "logger"
  /\ \/ Fine /\ Here /\ Log(serial, "fresh") /\ NextSensor
     \/ (Fails \/ (Fine /\ Visible # {} /\ ~Here)) /\ Log(Zero, "none") /\ NextSensor
     \/ NoAccess /\ Retry("logger") /\ UNCHANGED row
     \/ Fails /\ NextSensor /\ UNCHANGED row
  /\ UNCHANGED <<net, disk, lists, search, serial, walk, Last2409, round>>

\* ReadCounter: a page, with a checksum.
ReadCounter(ok) == IF ok THEN Fine /\ Here ELSE Fails \/ (Fine /\ ~Here)

\* read_counter: two pages, each of them tried once.
Count ==
  /\ pc = "count"
  /\ \E ok \in BOOLEAN : ReadCounter(ok) /\ IF ok THEN Log(serial, "fresh") ELSE UNCHANGED row
  /\ IF try = 0 THEN try' = 1 /\ UNCHANGED <<pc, next, seen, got>> ELSE NextSensor
  /\ UNCHANGED <<net, disk, lists, search, serial, walk, Last2409, round>>

\* Get_2800_Pio: half of the byte has to be the complement of the other half.
Get_2800_Pio(ok) == IF ok THEN Fine /\ Here ELSE Fails \/ (Fine /\ ~Here)

\* read_pio_ds28ea00
Pio ==
  /\ pc = "pio" /\ NextSensor
  /\ \E ok \in BOOLEAN : Get_2800_Pio(ok) /\ IF ok THEN Log(serial, "fresh") ELSE UNCHANGED row
  /\ UNCHANGED <<net, disk, lists, search, serial, walk, Last2409, round>>

-----------------------------------------------------------------------------
(* A DS2438: with -A its temperature and both voltages, which are logged    *)
(* whether or not they are errors; otherwise the voltages, then the         *)
(* temperature, of which only the voltages are tried again.                 *)

\* What is read next: the supply voltage, then the sensor's.
Source == IF Len(got) = (IF opt.ad THEN 1 ELSE 0) THEN "vdd" ELSE "vad"

\* Volt_AD: the source is set unless the scratchpad says that it is.
SetTo(d, src) == IF d.pad = src THEN d.cfg ELSE src

\* Volt_Reading: the conversion goes by what is set, and afterwards the scratchpad says
\* that, too.  Only when the sensor's voltage is wanted the answer is compared with it.
\* A request that fails may leave the source written but not copied, or no conversion,
\* so that the voltage is an older one.  The two loops while(busybyte == 0), in Volt_AD
\* and here, are taken to end.  They do not when a zero is read for ever, which is what
\* owReadByte returns for a shorted line and, after every failure of the link, for an
\* adapter that has died.
Volt(d, src) == IF src = "vad" /\ SetTo(d, src) = "vdd" THEN "error" ELSE SetTo(d, src)

VoltReading(answer) ==
  LET d == chip[serial]
      src == Source
  IN /\ UNCHANGED <<place, branch>>
     /\ \/ /\ Fine /\ Here /\ answer = Volt(d, src)
           /\ chip' = [chip EXCEPT ![serial] = [pad |-> SetTo(d, src), cfg |-> SetTo(d, src)]]
        \/ /\ Fails /\ Here
           /\ \E cfg \in {d.cfg, src}, pad \in {d.cfg, d.pad, src} :
                chip' = [chip EXCEPT ![serial] = [pad |-> pad, cfg |-> cfg]]
        \/ (Fine \/ Fails) /\ ~Here /\ answer = "error" /\ UNCHANGED chip

\* Get_Temperature: the scratchpad says afterwards what is set.
GetTemperature(answer) ==
  LET recalled == [chip EXCEPT ![serial].pad = chip[serial].cfg]
  IN /\ UNCHANGED <<place, branch>>
     /\ \/ Fine /\ Here /\ answer = "fresh" /\ chip' = recalled
        \/ Fails /\ Here /\ answer = "none" /\ chip' \in {chip, recalled}
        \/ (Fine \/ Fails) /\ ~Here /\ answer = "none" /\ UNCHANGED chip

\* Logged is what the readings were, if they were of this device.
BatteryEnd(readings) ==
  /\ Log(IF Here THEN serial ELSE Zero,
         IF readings \in {<<"vdd", "vad", "fresh">>, <<"fresh", "vdd", "vad">>} THEN "fresh" ELSE "none")
  /\ NextSensor

\* read_humidity and the voltages of read_ds2438
Volts ==
  /\ pc = "volts"
  /\ \E answer \in Sources \cup {"error"} :
       /\ VoltReading(answer)
       /\ IF answer = "error" /\ ~opt.ad THEN Retry("volts") /\ UNCHANGED row
          ELSE IF Len(got) = 2 THEN BatteryEnd(Append(got, answer))
          ELSE /\ got' = Append(got, answer) /\ UNCHANGED <<next, try, seen, row>>
               /\ Goto(IF Len(got) = 1 /\ ~opt.ad THEN "temperature" ELSE "volts")
  /\ UNCHANGED <<disk, lists, search, serial, walk, Last2409, round>>

Temperature ==
  /\ pc = "temperature"
  /\ \E answer \in {"fresh", "none"} :
       /\ GetTemperature(answer)
       /\ IF opt.ad THEN got' = <<answer>> /\ Goto("volts") /\ UNCHANGED <<next, try, seen, row>>
          ELSE BatteryEnd(Append(got, answer))
  /\ UNCHANGED <<disk, lists, search, serial, walk, Last2409, round>>

Sampling == \/ NewRound \/ Select \/ RowDone \/ NextSample
            \/ Convert \/ Scratch \/ ReadLogger \/ Count \/ Pio \/ Volts \/ Temperature

-----------------------------------------------------------------------------

\* Couplers forget their branch when the power fails.
Brownout ==
  /\ pc # "idle" /\ faults < MaxFaults /\ faults' = faults + 1
  /\ branch' = [c \in Couplers |-> "off"]
  /\ calm' = 0 /\ bad' = TRUE /\ dark' = TRUE
  /\ UNCHANGED <<place, chip, disk, lists, pc, search, serial, walk, sample, reading>>

Process == Acquire \/ NoAdapter \/ TurnOff \/ InitLan \/ Sampling \/ Exit

Next == (\E o \in Options : Begin(o)) \/ Kill \/ Process \/ Brownout

Spec == Init /\ [][Next]_vars /\ WF_vars(Process)

-----------------------------------------------------------------------------

InOrder(s, S) == Range(s) = S /\ \A i, j \in DOMAIN s : i < j => Before(s[i], s[j])

OnLan == {r \in Roms : On(r)}
ShouldShow ==
  {Entry(Zero, "lan", r) : r \in OnLan} \cup
  UNION {{Entry(c, l, r) : r \in Behind(c, l)} : c \in Couplers, l \in {"main", "aux"}}

\* However earlier processes have left the couplers: the list that -i makes and writes
\* has each supported device once, in the order of the search, at the place where it is,
\* unless a request fails; and -w shows each device once at its place.
ListIsTrue ==
  /\ pc = "round" /\ round = 0 /\ opt.init /\ ~opt.walk /\ ~bad =>
       /\ InOrder(list.direct, OnLan \cap Supported)
       /\ InOrder([i \in DOMAIN list.couplers |-> list.couplers[i].rom], OnLan \cap Couplers)
       /\ \A i \in DOMAIN list.couplers :
            LET c == list.couplers[i]
            IN /\ InOrder(c.main, Behind(c.rom, "main") \cap Supported)
               /\ InOrder(c.aux, Behind(c.rom, "aux") \cap Supported)
       /\ Flat(list) # <<>> => read_rcfile(file) = list
  /\ pc = "leave" /\ opt.walk /\ ~bad =>
       Range(shown) = ShouldShow /\ Len(shown) = Cardinality(ShouldShow)

\* Samples since the last one after which a coupler may not be what Last2409 says.
Sure == IF bad THEN calm - 1 ELSE calm

\* Sensors that the list names at the place where they are, and what each sample has to
\* say of them: two counters of a DS2423, nothing of a DS2406.  A coupler whose answer is
\* lost is right again one sample later.  A DS2438 of which the source is half set, be it
\* by an earlier process, is right one sample after that.
There(e) == IF e.line = "lan" THEN On(e.rom) ELSE e.rom \in Behind(e.hub, e.line)
Times(k) == IF k = "DS2423" THEN 2 ELSE IF k \in {"DS2406", "DS2409", "other"} THEN 0 ELSE 1
Due(n) ==
  IF n >= Len(Flat(list)) THEN <<>>
  ELSE LET e == Flat(list)[n + 1]
           k == Kind[e.rom]
       IN IF There(e) /\ Sure >= (IF k = "DS2438" THEN 2 ELSE 1)
          THEN [i \in 1..Times(k) |-> [rom |-> e.rom, n |-> n, what |-> "fresh"]]
          ELSE <<>>

\* What is logged under a number comes from the sensor with that number in the list, or
\* is no reading at all, whatever fails; and from a family that says its data twice, by a
\* checksum or a complement, it is fresh.
\* Unless the power has failed, a sample without failed requests has the readings
\* of all wanted sensors, one sample after the last failure or, for a DS2438, two.
RowsAreTrue ==
  /\ \A i \in DOMAIN row :
       LET e == row[i] IN
       e.n < Len(Flat(list)) /\ e.rom # Zero =>
         /\ e.rom = Flat(list)[e.n + 1].rom
         /\ Kind[e.rom] \in {"DS1820", "DS28EA00", "DS2413", "DS2423"} => e.what = "fresh"
  /\ pc = "rowEnd" /\ calm > 0 /\ ~dark =>
       Picked(row, {i \in DOMAIN row : Due(row[i].n) # <<>>})
         = FlattenSeq([i \in DOMAIN Wanted |-> Due(Wanted[i])])

\* Searches, tries and samples come to an end: so does a process that is to take a number
\* of samples.
ProcessEnds == (pc # "idle" /\ opt.samples > 0) ~> pc = "idle"
=============================================================================
