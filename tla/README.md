# A verification of CUxD's scripts and tools

CUxD is an add-on for the HomeMatic CCU. Its daemon is distributed as a binary; what the
repository holds in source are the scripts that install and run it, the scripts that CCU
programs call, and the tools shipped with it: dfu-programmer, digitemp, update_addon,
logfilter, ether-wake. This directory holds TLA+ models of the parts that keep state across
steps, runs of TLC that check them on small instances, and proofs checked by TLAPS that hold
for every instance. Paths below are relative to `src/`.

## 1. Inventory

| part | state it keeps | operations | what is hard | what makes it correct |
|---|---|---|---|---|
| `common/cuxd/extra/pty2tcp` | pid file, device link, processes | start, stop; a loop that runs socat; a watcher | all processes share the pid file without a lock; pids are given again; three signals with pauses | nothing runs unowned; stop takes the bridge down; a lost link comes back |
| `common/cuxd/extra/dim.tcl`, `toggle.tcl` | pid file and its time, state file, level of the device, value the CCU knows | ramp, stop, take over, toggle | many runs at once, times in whole seconds, values that lag | ramps end; a ramp taken over is silent; toggling alternates |
| `ccu3/rc.d/cuxdaemon`, `ccu3/update_script` | installed files, links, menu, InterfacesList.xml, processes | start, stop, restart, uninstall, update | a reboot between any two commands; a process looked up once | one daemon; no page of what is not there; an update repairs |
| the same of `ccu1`, `ccu2`, `ccux86` | the same | the same | the same | variants of the above |
| `src/dfu-programmer/src/atmel.c`, `commands.c` | memory, page and unit registers of the device; image, block and range of the host | erase, blank check, flash, read, validate | a transfer depends on registers set by earlier requests; any request may be lost, obeyed or not; blocks end at gaps, at 1 kB and at 64 kB | success means that the memory is as asked for, and nothing else changes |
| `src/dfu-programmer/src/intel_hex.c` | image | parse, fill up, compare, print | address offsets and widths, line and page ends, an end taken one too far | a file and the image it stands for say the same |
| `src/dfu-programmer/src/dfu.c`, `stm32.c` | DFU state of the device, a download it has not executed yet, address pointer; transaction number | make idle, status, erase, write, read, launch | the device executes a download at the next status request; block numbers counted across requests; failed status requests that return success | success means that the bytes are where the file says; no byte lands elsewhere; nothing is left for the next process |
| `src/dfu-programmer/src/arguments.c`, `commands.c` | table of targets, the command line | parse, assign a layout, dispatch | the options each command takes, old command names | every target has a layout the transfers can deal with |
| `src/digitemp/userial/ds9097u/ownetu.c` | last discrepancy, last device, serial number; the adapter's reply | first, next | a search goes on from the one before; devices come and go; answers get lost | every device once, in order |
| `src/digitemp/userial/ds9097u/owllu.c`, `ds2480ut.c`, `owtrnu.c` | mode, speed, level the host believes in; those of the adapter | reset, touch, level, block, speed | beliefs and adapter disagree after an error; a byte for the line may be a command | success means the slots were on the line; the strong pullup is never on unnoticed; the two find back to each other |
| `src/digitemp/src/digitemp.c`, `userial/ad26.c`, `swt1f.c` | couplers, list of sensors, rc file, branch connected last; registers of the devices | walk, list, sample | couplers keep their branch across processes; FALSE means both end and error; what the host remembers of a coupler or a DS2438 may be wrong | each sensor is listed once at its place; a reading belongs to its number, and is new |
| `src/update_addon`, `src/logfilter` | a file, a line | add and remove a menu entry, filter | truncated files, chunk ends | |
| `ctl_startup`, `timer.tcl`, `blind.tcl`, `*.cgi` ... | none of their own | one command each | | |
| cuxd, `*.ccc` | binaries only | | | |

The parts interact little: update_script calls rc.d/cuxdaemon and update_addon (modelled
together in DaemonControl); cuxd starts pty2tcp, dfu-programmer and digitemp as programs of
their own; CCU programs start dim.tcl and toggle.tcl, which share the state file (modelled
together in DimToggle). Within dfu-programmer the command line chooses a target and an
operation, which uses hex files and the protocol of the target's bootloader; within digitemp
the program asks for searches, blocks and bytes, which are packets on the link to the DS2480.

## 2. Modules

**PtyBridge** — pty2tcp for one device. A command is a process with a place in the script
(`mpc`) and its variable `pid` (`mpid`); each start leaves a loop (`lpc`, `lsock`); each
socat has a watcher (`cpc`). One action is one access to the pid file (test, open, write,
remove), to a process (a signal, `kill -0`, `wait`) or to the link. `echo >file` is two
actions, open and write; a writer whose file has been removed writes to a file without a
name (`opened`). Pids of socats are given again once nothing names them.

**DimToggle** — dim.tcl and toggle.tcl for one device, with any number of runs of each; the
clock counts seconds, levels are multiples of a step, and the value the CCU reports lags.

**DaemonControl** — the ccu3 scripts. Files of the package are missing, old, new or cut off;
`pspid` is what the script found when it began; a reboot may come between any two commands
and ends all processes; the boot runs the start script if the firmware or the link says so.
InterfacesList.xml may be missing, as may ReGaHss be down: then update_script restarts nothing.

**AtmelProgram** — one DFU device and the commands erase, flash and read as sequences of
requests. The device has its two registers and both memories; a request that fails may have
been obeyed, a write that fails may have been done up to any byte. Addresses in transfers
have 16 bits (`Seen`), so that the code's page arithmetic is what is checked. `sound`, chosen
at the start, says that in this behaviour no request fails.

**CommandLine** — the table of targets with the layout that assign_target gives each, the
options and parameters each command accepts, and the operation a command stands for, as
operators. Two assumptions tie it to the other modules: every target's layout satisfies what
AtmelProgram and Stm32Program assume of theirs (`TargetsAssumption`), and every request of
the two MC modules is what some accepted command line means (`Asked`).

**MemoryBytes, HexFile** — bytes of memory, and intel_hex.c on sequences of records: reading
a file into a buffer that begins at a target offset, the bytes of `--serial`, filling up
pages, comparing, and printing a memory for read, dump and bin2hex: cell by cell, with a line
that is not full yet, the offset the last record has set, and blank pages left out
(`FromBuffer`). A line is good or bad; its characters and its checksum are left out.

**DfuDevice, Dfu, Stm32Program** — an STM32's bootloader as a DFU state machine with an
address pointer, external and taken from dfu-device.h and from what the code relies on; dfu.c's
requests and dfu_make_idle; and the commands erase, flash, read and launch of stm32.c and
commands.c as sequences of requests, one process after another. A request that fails may have
been obeyed. A download is kept by the device (`todo`) until a status request makes it
execute it, be it one of the next process. The conversions bin2hex and hex2bin are here too;
bin2hex takes from a longer file what the memory has room for, and its search for a page with
data may go on behind its buffer, where anything may lie (`BinRead`).

**RomOrder, DeviceList, RomSearch** — `DeviceList` is what owFirst and owNext promise: a walk
reports the devices one by one in order and says when none is left. `RomSearch` is
ownetu.c's search through the DS2480 adapter: the directions sent, the adapter's progress
bit by bit, the reply, the checks on it, and devices that come, go or short the line in the
meantime. The search is shown to implement the list: RomSearch has the instance
`List == INSTANCE DeviceList WITH ...`, whose variables are the devices
connected, what this walk has reported, the answer to the last call and whether the net has
stayed as it was (`found` and `steady` are history), and ImplementsList is its specification.

**Ds2480** — the link below that. A packet is a sequence of bytes with their values of
`ds2480.h`, `out`, which the adapter takes one by one and answers in `in`; `pc` is the packet
the host is at, `back` where it goes on after the level has been set or the adapter detected
again. All packets are written by one action (`Send`), and each answer is judged by an action
named after its function. The adapter keeps its own `mode`, `baud` and `level`, so that a
byte sent in the wrong mode does what it then does: a reset command becomes a byte on the
line, whose echo looks like a presence pulse. The link may cut off a packet and its answer
anywhere, lose one byte, or not reach the adapter at all; the program may be killed and
started again with the adapter left as it is. `doubt` remembers that DS2480Detect has failed
or a single byte was lost and the adapter has not been detected since: the code has no means
to notice either, and what it claims then may be wrong. How the adapter answers is external,
taken from what the code sends and accepts; an answer that is not read in time never comes
later. A block without a reset does not look at the level, so its bytes are lost on an adapter
that still holds the power on, and one that looks like the end of a pulse (241) is taken for it
without the host knowing; digitemp calls one only after it has ended the power or addressed a
device (`digitemp.c:867`, `:883`), and so does the model (`LeftOn`).

**OneWireNet, Digitemp** — digitemp's processes, one after another, on a net with sensors and
DS2409 couplers. OneWireNet has where each device is, the branch each coupler has connected,
which voltage each DS2438 is set to, and a whole search as one step (`Searched`; RomSearch
is about its bits). Digitemp has the rc file, the walk of `-w`, the listing of `-i` with its
three passes, and sampling: choosing the sensor by its number, connecting its branch unless it
is the one connected last, and the readings by family with their retries. A request fails
with or without effect on a coupler or a DS2438; the power of the net may fail; a process may
be killed at any step. Of a reading the model keeps whether it is new, missing, or of the wrong
source.

Constants are declared with named assumptions. The assumptions of AtmelProgram are the layouts
that the table of targets in `arguments.c` yields (checked by CommandLine); those of OneWireNet,
that couplers come last in the order of a search, which their family sees to (of all families
in `device_name.c`, not only of those digitemp reads), and that all ones
are no valid code, which the CRC sees to; those of RomOrder,
that a CRC tells codes apart before their last bits and that there is no family 0. Stm32Program
assumes that pages, lines and 64 kB are even, and so is the start of the flash: 16 bytes, 0x10000,
0x08000000, and pages that TargetsAssumption makes powers of two. With odd ones a line could begin
at the last byte of 64 kB, for which ihex_clear_record (modulo 0xffff) prints 0.

Definitions called "Faulty variant" in a comment are altered copies of the definition after
them. They are not part of the specification; they serve to see that each property notices
the kind of mistake it is there for.

## 3. Runs

| run | question | bounds |
|---|---|---|
| pty_safe | any commands at once: is every socat owned, is no watcher left over? | 2 starts, 1 stop, 3 pids; two loops and a stop already meet each other at every place |
| pty_live | does a stop end a resting bridge, does a lost link come back? | 1 start, 1 stop, 3 pids |
| pty_stop | (violation) does a stop given to a bridge always end it, as the script's head says? | the same, one command at a time |
| dim_ramps | do ramps end, is one that was taken over silent? | 2 runs with steps that divide the range and steps that do not, 3 seconds |
| toggle_serial | does toggling alternate while the CCU lags? | 3 presses in 8 seconds; the lag stays below the 4 s the note is trusted |
| daemon_init | one daemon, no dangling page, updates repair, boots heal | 2 pids, 2 reboots: one may cut an update or uninstall, another its repair |
| atmel_commands | with any request failing, is what a command reports true, and what it writes in range? without failures, do commands one after another do what they should? | 3 blocks over two pages, gaps at every place in a block; one command on a device left in any state, or any sequence of six commands without failures (`sound`) |
| atmel_readpage | (violation) does a read that reports success return the memory? | the same |
| stm32_program | what commands report, where bytes land, what they leave behind, what files say, whether making idle ends | 3 blocks of 4 in one and a half sectors, over a "64 kB" boundary of the hex file; gaps between full blocks, data over a sector end; any DFU state at first; 4 retries as in the code, one short answer or vain reset |
| ds2480_link | does the host know the adapter's mode, rate and level, is what calls report true, do they find back to each other? | bytes with and without a meaning as a command, blocks of one and two, one that looks like the end of a pulse, 2 bits in a byte written with power, 2 tries instead of 10: one that fails and one more |
| rom_search | does the search implement the list, does every walk end? | codes of 5 bits, any subset of 6 devices, one change of the net or short at any moment, answers lost at any call |
| digitemp | is the list true, are the readings those of their numbers and new, do processes end? | codes of 6 bits, each kind of sensor, one and two couplers with sensors on either branch or none, couplers left in any state, a current and a stale rc file; 2 failures or losses of power |

Deadlock is checked in daemon_init, rom_search, ds2480_link, stm32_program and digitemp; in the
other models the system may really stop, when all commands have been given or the one command
has ended.

Some properties hold only while no request fails, and are checked for such behaviours:
SoundReadIsTrue, SoundValidatedIsExact and SoundCommandSucceeds of AtmelProgram (`sound`).
ReadIsTrue fails otherwise, as the run atmel_readpage shows. Where the code keeps less than one would wish the
property says what it keeps, with the exception by name: TailIsTrue (STM32) leaves out the
first block, which stm32_read_flash asks for without having set the address; FilesAreTrue, a
last byte with nothing but blank bytes before it, which a dump without `--force` overlooks;
UpdateRepairs, an update that finds no ReGaHss or no InterfacesList.xml, which leaves the old
daemon running, and a start that still sees the daemon that has just been killed, which starts
none; RowsAreTrue, a coupler that has lost its power behind the program's back, the first sample
after a lost answer and, of a DS2438, the second: its source may have been left half set by an
earlier failure, and if the answer of its coupler was lost too, the first sample only gets as
far as that.

The two runs that end in a violation:

- *pty_stop*: `pty2tcp:4` and `:8` say that stop deletes the pseudo TTY. Between a socat's end
  and the write of the next one's pid (`:107`–`:116`) the pid file names a process that has
  gone, or nothing; a stop then removes the file and kills nothing (`:83`–`:94`), and the loop
  that has passed its test goes on.
- *atmel_readpage*: `atmel.h:127` says that atmel_read_flash reads the range into the buffer.
  When the selection of a later 64 kB page fails (`atmel.c:696`), the reading goes on with the
  page before and reports success.

Fairness. PtyBridge: a process that can take a step takes it, and a socat started again and
again makes its link once (strong fairness, since a kill may come before it each time);
nobody has to give a command. DimToggle: scripts run, time passes, the device answers.
RomSearch: calls return and the callers' loops (`do ... while (result)`) call again; nothing
is assumed of the devices. Ds2480: the host and the adapter go on, the program is started again after it has ended, and
now and then addresses a device by a reset and a block, as owAccess does. Without such blocks
host and adapter may stay apart: resets alone are answered by their own echo. Failures may go
on for ever; what is shown is what happens once they stop. Stm32Program: a process goes on while it
makes the device idle; short answers and vain resets are bounded, since the code counts neither.
Digitemp: a process goes on by itself, unless it is killed. The other specifications have no
fairness and only safety properties.

## 4. Proofs

All proofs are for every value of the constants under the named assumptions.

**PtyBridgeProofs**: TypeOK, NoStaleWatch and EverySocatHasItsLoop. EverySocatHasItsLoop
needs that a loop that runs holds the pid of its socat (`LoopHasPid`) and that a loop is
forked as the last thing a start does (`ForksLast`); NoStaleWatch, that a watcher belongs to
a loop that waits or is about to end it (`WatchOwned`).

**AtmelProgramProofs**: TypeOK, ImageInMemory, OnlyTargetWritten and EraseLeavesBlank, and
without failures SoundReadIsTrue, SoundValidatedIsExact and SoundCommandSucceeds. The
invariant follows the write through its phases: the range is that of the data (`Ranges`), the
unit and the page selected are those of the address (`OnUnit`, `OnPage`), all data below the
position is in memory (`Progress`) and stays there through validation (`AllWritten`). That a
write reaches the cells with its addresses rests on the arithmetic of `Seen` (lemmas DivMod,
DivNext). For the erase, `EInv` says what the blank check has looked at so far (`Checking`,
`Checked`), block after block and page after page, whatever range an earlier command had left.
For what is read, `SInv` keeps that reading goes in blocks from multiples of the block's size
(`Reading`), so that none crosses a page (`BlockOnPage`) and all that was read up to the position
is the memory's (`ReadSoFar`). That only the image makes a command fail needs, beside that, that
filling up pages adds no byte outside the range (`FilledFits`): a unit begins and ends where its
pages do, which CommandLine checks of every target.

**DaemonControlProofs**: TypeOK, OneDaemon, NoDanglingPage, UpdateRepairs and BootHeals, on
either kind of firmware. What a script does rests on what it, or the script that called it, has
done before, so the invariant says what each place has behind it: which script returns where
(`Returns`), that whatever runs was there when the script looked, and nothing does when a
restart launches (`Known`), what is on the disk (`OnDisk`), what an update has copied and put
right (`Copied`, `Repaired`). One daemon then means: a start launches only if PSPID is empty,
and PSPID has in it all that is there. That the new daemon runs after an update rests on the
same: if PSPID is empty nothing is there, and start launches (`LaunchServes`). The theorem leaves
out what the code leaves out: an update without ReGaHss or InterfacesList.xml restarts nothing
(`update_script:66`, `:68`), and a start that still sees a killed daemon launches none.

**RomSearchProofs**: TypeOK, and `Spec => ImplementsList`. First, codes are totally ordered
(`Total`, `Transitive`). The invariant, for walks over an unchanged net, has two parts:
between searches, the devices found are those up to the last one, and the last discrepancy is
the last bit at which that one leaves others behind (`Known`); in a search, the devices still
in are those like the path, and at each bit passed the adapter took the direction if they
disagreed and their bit if not (`Passed`). From them follow that the path leaves the last one
found exactly at its last discrepancy (`PathLeaves`), that the device found is the least not
found before (`FoundNext`), and that the walk is at its end only when all are found
(`EndComplete`). Every step then is a step of DeviceList or none.

**Ds2480Proofs**: TypeOK, SpeedFitsBaud, InStepUnlessInDoubt, NoHiddenPower and SuccessIsTrue,
for bytes and blocks of any content and length, with failures wherever the model has them. The
invariant has a part for each party. Of the host, that the baud rate changes first and the speed
only when the adapter has confirmed it (`SpeedInv`), and which call leads to which place
(`CallInv`). Of DS2480Detect, that five bytes come back only from an adapter that has taken the
whole of its setup (`DetectInv`). And of the link (`LinkInv`), what may have become of the packet
at each place: cut off, its answer cut off, swallowed by an adapter in a pulse, not heard at
another baud rate, waiting for the byte that changes the mode, or taken up to some byte, with
exactly those bytes on the line. An answer of the right length rules out all but the last. Before
a packet, host and adapter agree on the mode, or the adapter is about to be told; a block is sent
with bytes that look like MODE_COMMAND doubled, so the adapter may be in the middle of a pair.
What is left of a doubled block when its first byte has been taken would be an induction over its
length; it is had from a set of numbers having a least one, as below.

**Stm32ProgramProofs**: TypeOK, NothingPending, SuccessIsTrue, TailIsTrue, NoByteMisplaced and
FilesAreTrue, for memories, blocks, sectors and pages of any size, any hex files and requests and any
failures. A download waits in the device only while that is in dfuDNLOAD-SYNC (`Waits`), a
status request that is answered makes the device execute it whatever comes of it
(`ExecuteClean`), and a device that takes an upload has nothing to execute; so a good status,
or the last block read, is all that success needs. A command goes on from the address pointer
only with what that has been set for (`JobKnown`). The exception is a conversion, which has no
word with the device.

The memory needs more, since a block that a process has given up may be executed by a later
one. So whatever waits is safe for the memory it would meet (`Safe`): a block that waits carries
only what the image has for the places which pointer and number make up, or blanks. While
writing, pointer and number fit the position and all blocks below it are in memory, but for the
one that still waits (`WriteInv`); while reading, all but the first block is the memory's
(`ReadInv`); while erasing, a good last status means a blank memory (`EraseInv`). The other
half is about the data: `Meant` says of each address what the last record that covers it, or
`--serial`, has there, while intel_hex.c fills a buffer record by record. `ImageIs` shows the
two to agree: over the offset in force at a record (`OffsetsAgree`), the bytes of one record
(`RecordIs`), the last record that covers a cell (`BufferIs`) and the filling up to whole blocks.
That there is a last one is an induction; it is had from a set of numbers having a least one
(`LeastNumber`), which needs no operator as a parameter.

That printed files are true is a proof about intel_hex_from_buffer. Up to each cell the records
printed say of the cells that have been passed what the memory has there, and of no other (`Says`);
the line that is not full has the bytes before that cell, one after another, and begins at an even
address within reach of the offset in force (`LineInv`). What is shown of a page is all or nothing,
so a line that begins after a gap begins with a page and is even too, and full lines are even in
length; so the address is never the one that ihex_clear_record would spoil (`NewLineInv`). A new
line, a longer one and the end of one keep this (`PutInv`, `EndLineInv`), hence the whole file says
it (`PrintedIs`), and intel_hex_to_buffer, which knows nothing of how the file came about, puts the
same bytes into the same cells (`ReadBack`). `DumpIs` adds that execute_dump's two searches leave
out no byte that is not blank, but for the last one after blanks only. In the state machine only
the last upload of a read and the two conversions end with a file (`FilesInv`).

**DimToggleProofs**: TypeOK and TakenOverEnds, for any number of scripts, and ToggleAlternates
for scripts that run one after another without ramps, with a CCU that reports a level before
the note is given up (`LagAssumption`, what toggle_serial has too). The first rests on times
that only grow: a ramp compares the file's time with the one it has read, which is never newer
than any file's since (`TimesInv`). The second, on what the note says while nobody is writing
it (`NoteTrue`) and what a script takes the device for (`Believed`). Of a ramp that is taken over
in the same second, or whose file is deleted and made again within it, TakenOverEnds says nothing:
times in whole seconds do not tell these apart, and such a ramp goes on.

**DigitempProofs**: TypeOK, ListIsTrue and RowsAreTrue, for any ROM codes and nets, rc files,
command lines and numbers of failures; the assumptions are that couplers come last in the order
of a search, that a line nobody answers on does not read as a valid code, and that no coupler is
on a branch of another. TypeOK is part of `Placed`, what each place of the program takes for
granted; what is read, for one, is a wanted sensor of a kind that is read in that way.

The list is made in three passes over nets that change while they are searched, so the invariant
(`ListInv`, as long as no request has failed) says of each pass what has been seen and what of it
is listed. While the couplers are turned off (`Swept`), only those still to be found may have a
branch connected: couplers are found last, so what turning one off hides or shows has been
passed already. On the main LAN and on each branch (`LanListed`, `BranchListed`) what is listed
is what the search has passed (`Seen`), in its order. The file holds the branches' sensors as
lines one after another; that reading it gives the list back (`Done`) rests on what flattening
lists and picking places from them do, which are inductions over their lengths (`Induction`, had
from the least number as above).

A reading belongs to its number because the sensor that is selected stays the one named by the
number through all its tries (`NameInv`). That it is there and new (`SampleInv`) needs to know
where a failure may still be felt: unless the coupler remembered is on the branch remembered,
some sensor still to come is on its other branch and will have it told again (`LastInv`), so a
sample later what is selected answers (`HereInv`); from then on a DS2438 that has been selected
in a sample without failures is set to what it says (`SettledInv`), and each reading is as far as
it should be (`GotInv`) and all before it are logged (`KeptInv`). That a DS2438 may need a second
sample was seen in the proof: RowsAreTrue had promised it after one, and with four failures
instead of the run's two TLC shows the case described in section 3.

Only model-checked: the liveness properties (SteadyStopEndsBridge, LostLinkComesBack,
RampsEnd, WalkEnds, FindsBack, InitEnds, ProcessEnds; the prover does not do fairness).
Every other property of the passing runs is proved. The layouts of targets are finite and TLC
evaluates them.

## 5. Not modelled

- Binaries (cuxd, redir, index.ccc): no source. Third-party ether-wake. Documentation,
  packaging, graphical and database front ends of digitemp, its builds for other adapters.
- The scripts of ccu1, ccu2 and ccux86, which are variants of those of ccu3; update_addon and
  logfilter, short sequential programs about text; one-shot tcl and cgi scripts.
- dfu-programmer on Atmel parts: user page, security bit, fuses, configuration bytes, single
  values (get), start of the application, and the aborts sent before the first command. Of
  stm32.c: stm32_page_erase, stm32_read_unprotect and stm32_get_commands, which nothing calls.
  How the device is found among others on the bus.
- What digitemp computes from a reading, its log formats, alarms; a short of the line in the
  middle of a DS2438's conversion, or an adapter that goes dead there: `owTouchByte` returns 0
  after every failure of the link (`owllu.c:295`), and the loops at `ad26.c:156` and `:198` then
  wait for ever. Both are modelled as ending, so ProcessEnds does not cover this.
- The five calls of get_ibl_type before a DS2438 is read (`digitemp.c:1504-1508`): they touch
  other pages of the device than the one with its source of voltage, and their results are unused.
- The checksum and the characters of a line of a hex file.
- Short uploads (`Faults = {"short"}` is in the model but in no run: the code takes them for
  whole ones, `atmel.c:606`, and no source says whether devices send them).
- The 12 V programming pulse and the packets for memory devices (owProgramPulse,
  owReadPacketStd and what follows it in `owtrnu.c`), unused by digitemp; answers that come
  after the host has stopped waiting for them.
- owSkipFamily, owFamilySearchSetup, owVerify and alarm searches, unused by digitemp.
- The rewriting of cuxd.ini at start, options of the scripts, RAMP_TIME and ON_TIME.
- What is planned, below.

## 6. Plan

Done, in this order: PtyBridge, DimToggle, DaemonControl, AtmelProgram, RomSearch, Ds2480
(concurrency without locks, crash and repair, device state behind lossy requests, a stateful
algorithm, two parties that must keep in step); Stm32Program with Dfu and HexFile, CommandLine,
Digitemp; the proofs about DaemonControl, the erase of AtmelProgram, DimToggle, the link to the
DS2480, all that an STM32 is left with, Digitemp's list and rows, and the files that are printed
of a memory.

Next, in order of what they would add:

1. The remaining commands of Atmel parts (user page, fuses, configuration).
2. Digitemp on the calls of Ds2480 instead of requests that fail or not: the two places where a
   call may succeed without effect (`doubt`) would then reach the list and the rows.
