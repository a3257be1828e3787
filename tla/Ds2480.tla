-------------------------------- MODULE Ds2480 --------------------------------
(***************************************************************************)
(* src/digitemp/userial/ds9097u: the link to the DS2480 1-Wire adapter.    *)
(*                                                                         *)
(* The adapter takes bytes either as commands or as data for the 1-Wire    *)
(* line, at one of several baud rates.  The host keeps in UMode, UBaud,    *)
(* USpeed and ULevel what it believes of the adapter, and sends a byte     *)
(* that changes the mode only when it believes it has to.  A call is one   *)
(* packet or two; when one is not answered as it should be, DS2480Detect   *)
(* breaks the adapter off and sets it up again.                            *)
(*                                                                         *)
(* A packet is taken by the adapter byte by byte; the link may fail at any *)
(* byte of a packet or of its answer, and then drops the rest of both.     *)
(***************************************************************************)
EXTENDS Integers, Sequences, SequencesExt

CONSTANTS
  Bytes, Blocks,  \* the bytes and the blocks of bytes that callers send
  Width,          \* number of bits in a byte sent with power
  Tries           \* number of tries in DS2480Detect

ASSUME LinkAssumption ==
  /\ Bytes \subseteq 0..255 /\ Blocks \subseteq Seq(0..255) \ {<<>>}
  /\ Width \in 1..8 /\ Tries \in Nat \ {0}

MODE_DATA == 225
MODE_COMMAND == 227
MODE_STOP_PULSE == 241

MODE_NORMAL == 0
MODE_OVERDRIVE == 1
MODE_STRONG5 == 2
MODSEL_DATA == 0
MODSEL_COMMAND == 2
SPEEDSEL_FLEX == 4
SPEEDSEL_OD == 8
PARMSET_9600 == 0
PARMSET_115200 == 6

\* Commands are odd; those to the 1-Wire line have bit 7 set.
Comm(function, detail, speed) == 129 + 32 * function + 16 * detail + speed
Config(parameter, value)      == 1 + 16 * parameter + value

Bit        == 0     \* functions
SearchOff  == 1
Reset      == 2
Chmod      == 3
ParmRead   == 0     \* parameters
Pulse5V    == 3
BaudRate   == 7
Infinite   == 14    \* a time
Prime5V    == 2     \* strong pullup after the bit

VARIABLES
  UMode, UBaud, USpeed, ULevel,   \* host: what it believes of the adapter
  open,                           \* host: the port is open and usable
  pc, back,                       \* host: packet it is at; where to go on afterwards
  sent,                           \* host: the packet at pc has been written
  op, arg, tran_buf,              \* host: call and arguments
  tries,                          \* host: tries left in DS2480Detect
  ret,                            \* host: value the last call has returned
  out, in,                        \* bytes on their way to the adapter, and its answer
  mode, baud, level,              \* adapter
  seen,                           \* history: what this packet has put on the 1-Wire line
  doubt, quiet                     \* history: see Drop and NotDetected; no faults any more

host    == <<UMode, UBaud, USpeed, ULevel>>
call    == <<op, arg, tran_buf, ret>>
adapter == <<mode, baud, level>>
wire    == <<out, in>>
vars    == <<host, open, pc, back, sent, call, tries, wire, adapter, seen, doubt, quiet>>

\* Where the host is: between calls, out of the program, or at a packet.
Commands == {"normal", "reset", "bit", "strong", "power", "sample", "baud", "readbaud", "speed"}
Packets  == Commands \cup {"byte", "block", "detect"}

TypeOK ==
  /\ UMode \in {MODSEL_DATA, MODSEL_COMMAND} /\ UBaud \in {PARMSET_9600, PARMSET_115200}
  /\ USpeed \in {0, SPEEDSEL_FLEX, SPEEDSEL_OD} /\ ULevel \in {MODE_NORMAL, MODE_STRONG5}
  /\ open \in BOOLEAN /\ sent \in BOOLEAN
  /\ pc \in Packets \cup {"idle", "exit"} /\ back \in Packets \cup {"return", "exit"}
  /\ tries \in 0..Tries /\ ret \in 0..255
  /\ out \in Seq(0..255) /\ in \in Seq(0..255)
  /\ mode \in {"timing", "command", "data", "check"} /\ baud \in 0..14
  /\ level \in {MODE_NORMAL, MODE_STRONG5}
  /\ doubt \in BOOLEAN /\ quiet \in BOOLEAN

\* digitemp has not been started, the adapter has just been switched on.
Init ==
  /\ UMode = MODSEL_DATA /\ UBaud = PARMSET_9600 /\ USpeed = 0 /\ ULevel = MODE_NORMAL
  /\ open = FALSE /\ pc = "exit" /\ back = "return" /\ sent = FALSE
  /\ op = "none" /\ arg = 0 /\ tran_buf = <<>> /\ ret = 0 /\ tries = 0
  /\ out = <<>> /\ in = <<>> /\ seen = <<>>
  /\ mode = "timing" /\ baud = PARMSET_9600 /\ level = MODE_NORMAL
  /\ doubt = FALSE /\ quiet = FALSE

\* The program has ended; its variables will be those of a new one.
Exit ==
  /\ UMode' = MODSEL_DATA /\ UBaud' = PARMSET_9600 /\ USpeed' = 0 /\ ULevel' = MODE_NORMAL
  /\ open' = FALSE /\ pc' = "exit" /\ back' = "return" /\ sent' = FALSE
  /\ op' = "none" /\ arg' = 0 /\ tran_buf' = <<>> /\ ret' = 0 /\ tries' = 0
  /\ in' = <<>> /\ seen' = <<>>

-----------------------------------------------------------------------------
(* Packets *)

\* Bits of a byte, the lowest first.
Bits(b) == [i \in 1..Width |-> (b \div 2^(i - 1)) % 2]

\* A byte that looks like MODE_COMMAND is sent twice.
Doubled(block) ==
  FlattenSeq([i \in DOMAIN block |->
                IF block[i] = MODE_COMMAND THEN <<block[i], block[i]>> ELSE <<block[i]>>])

\* The byte that changes the mode, if need be.
SwitchTo(m) ==
  IF UMode = m THEN <<>>
  ELSE IF m = MODSEL_DATA THEN <<MODE_DATA>> ELSE <<MODE_COMMAND>>

PowerBits ==
  [i \in 1..Width |-> Comm(Bit, Bits(arg)[i], USpeed) + IF i = Width THEN Prime5V ELSE 0]

TimeLimit == Config(Pulse5V, Infinite)

\* The timing byte and the configuration that DS2480Try sends after the break; the
\* last two commands read the baud rate and a bit.
Setup == <<193, Config(1, 6), Config(4, 4), Config(5, 10),
           Config(ParmRead, BaudRate * 2), Comm(Bit, 1, PARMSET_9600)>>

NewBaud == IF arg = MODE_OVERDRIVE THEN PARMSET_115200 ELSE PARMSET_9600

Packet ==
  CASE pc = "normal"   -> <<MODE_STOP_PULSE>>
    [] pc = "reset"    -> <<Comm(Reset, 0, USpeed)>>
    [] pc = "bit"      -> <<Comm(Bit, arg, USpeed)>>
    [] pc = "byte"     -> Doubled(<<arg>>)
    [] pc = "block"    -> Doubled(tran_buf)
    [] pc = "strong"   -> <<TimeLimit, Comm(Chmod, 0, 12)>>
    [] pc = "power"    -> <<TimeLimit>> \o PowerBits
    [] pc = "sample"   -> <<TimeLimit, Comm(Bit, 1, USpeed) + Prime5V>>
    [] pc = "baud"     -> <<Config(BaudRate, NewBaud)>>
    [] pc = "readbaud" -> <<Config(ParmRead, BaudRate * 2)>>
    [] pc = "speed"    -> <<Comm(SearchOff, 0, USpeed)>>

\* Bytes read back.
Need ==
  CASE pc \in {"baud", "speed"} -> 0
    [] pc = "block"  -> Len(tran_buf)
    [] pc = "power"  -> 1 + Width
    [] pc = "sample" -> 2
    [] pc = "detect" -> 5
    [] OTHER         -> 1

-----------------------------------------------------------------------------
(* The adapter *)

ModeOf(m) == IF m = MODSEL_DATA THEN "data" ELSE "command"

Echo(b) == in' = Append(in, b)

\* A slot on the line: the devices pull a 1 down or not.
Slot(kind, v, r) == seen' = Append(seen, <<kind, v, r>>)

DataByte(b) ==
  \E r \in {b, 0} : Slot("byte", b, r) /\ Echo(r) /\ UNCHANGED <<baud, level>>

BitCommand(b) ==
  \E r \in {(b \div 16) % 2, 0} :
    /\ Slot("bit", (b \div 16) % 2, r)
    /\ Echo((b - (b % 4)) + 3 * r)
    /\ level' = IF (b \div 2) % 2 = 1 THEN MODE_STRONG5 ELSE level
    /\ UNCHANGED baud

ResetCommand(b) ==
  \E presence \in 0..3 :      \* short, presence, alarm, nobody
    /\ Slot("reset", 0, presence)
    /\ Echo(204 + presence)
    /\ UNCHANGED <<baud, level>>

\* The strong pullup stays on until it is stopped, and is answered only then.
PulseCommand(b) ==
  /\ level' = IF (b \div 16) % 2 = 0 THEN MODE_STRONG5 ELSE level
  /\ UNCHANGED <<baud, seen, in>>

LineCommand(b) ==
  LET function == (b \div 32) % 4
  IN \/ function = Bit /\ BitCommand(b)
     \/ function = SearchOff /\ UNCHANGED <<baud, level, seen, in>>
     \/ function = Reset /\ ResetCommand(b)
     \/ function = Chmod /\ PulseCommand(b)

ConfigCommand(b) ==
  /\ UNCHANGED <<level, seen>>
  /\ IF b \div 16 = ParmRead THEN Echo(IF b % 16 = 15 THEN baud ELSE 0) /\ UNCHANGED baud
     ELSE Echo(b - 1) /\ baud' = IF b \div 16 = BaudRate THEN (b % 16) - 1 ELSE baud

\* Whether a stop without a pulse is answered, the code does not tell.
Command(b) ==
  /\ mode' = IF b = MODE_DATA THEN "data" ELSE "command"
  /\ \/ /\ b \in {MODE_DATA, MODE_COMMAND, MODE_STOP_PULSE} \/ b % 2 = 0
        /\ UNCHANGED <<baud, level, seen, in>>
     \/ b = MODE_STOP_PULSE /\ Echo(236) /\ UNCHANGED <<baud, level, seen>>
     \/ /\ b \notin {MODE_DATA, MODE_COMMAND, MODE_STOP_PULSE} /\ b % 2 = 1
        /\ IF b >= 128 THEN LineCommand(b) ELSE ConfigCommand(b)

\* In a pulse it only listens to the stop.
InPulse(b) ==
  /\ IF b = MODE_STOP_PULSE THEN level' = MODE_NORMAL /\ Echo(236) ELSE UNCHANGED <<level, in>>
  /\ UNCHANGED <<mode, baud, seen>>

Take ==
  /\ out # <<>> /\ out' = Tail(out)
  /\ LET b == Head(out)
     IN IF baud # UBaud THEN UNCHANGED <<adapter, seen, in>>
        ELSE IF level # MODE_NORMAL THEN InPulse(b)
        ELSE \/ mode = "timing" /\ mode' = "command" /\ UNCHANGED <<baud, level, seen, in>>
             \/ /\ mode = "command" \/ (mode = "check" /\ b # MODE_COMMAND)
                /\ Command(b)
             \/ /\ mode \in {"data", "check"} /\ (mode = "check" <=> b = MODE_COMMAND)
                /\ mode' = "data" /\ DataByte(b)
             \/ mode = "data" /\ b = MODE_COMMAND /\ mode' = "check"
                /\ UNCHANGED <<baud, level, seen, in>>
  /\ UNCHANGED <<host, open, pc, back, sent, call, tries, doubt, quiet>>

\* The link fails: what is on the way is gone, and the answer from some byte on.
Cut ==
  /\ ~quiet /\ sent
  /\ out' = <<>> /\ \E n \in 0..Len(in) : in' = SubSeq(in, 1, n)
  /\ <<out', in'>> # wire
  /\ UNCHANGED <<host, open, pc, back, sent, call, tries, adapter, seen, doubt, quiet>>

\* A byte is lost by itself, which the host cannot tell unless the answer lacks one.
Drop ==
  /\ ~quiet /\ sent /\ out # <<>> /\ out' = Tail(out) /\ doubt' = TRUE
  /\ UNCHANGED <<host, open, pc, back, sent, call, tries, in, adapter, seen, quiet>>

Quiet == ~quiet /\ quiet' = TRUE
  /\ UNCHANGED <<host, open, pc, back, sent, call, tries, wire, adapter, seen, doubt>>

-----------------------------------------------------------------------------
(* The host: packets *)

Value == CASE op = "level" -> ULevel'
           [] op = "speed" -> IF USpeed' = SPEEDSEL_OD THEN MODE_OVERDRIVE ELSE MODE_NORMAL
           [] OTHER        -> 0

GoTo(place) == pc' = place /\ sent' = FALSE

Return(value) == GoTo("idle") /\ ret' = value

\* Where a call goes on after a packet of its own or DS2480Detect.
GoOn == IF back = "return" THEN Return(Value) ELSE GoTo(back) /\ UNCHANGED ret

Resync(place) ==
  /\ GoTo("detect") /\ tries' = Tries /\ back' = place /\ UNCHANGED ret

\* The mode is taken for changed before the packet is written.
Mode == IF pc \in Commands THEN MODSEL_COMMAND ELSE MODSEL_DATA

Send ==
  /\ pc \in Packets \ {"detect"} /\ ~sent /\ open /\ sent' = TRUE
  /\ UMode' = Mode
  /\ out' = SwitchTo(Mode) \o Packet /\ in' = <<>> /\ seen' = <<>>
  /\ UNCHANGED <<UBaud, USpeed, ULevel, open, pc, back, call, tries, adapter, doubt, quiet>>

\* WriteCOM fails: not all bytes have been written, or none as the port is closed.
\* owSpeed, back at 9600 baud after DS2480Detect, goes on with the speed; the other
\* calls return, but the level is set by the way in the calls that begin with it.
AfterFailure == CASE pc = "normal" -> back
                  [] pc \in {"baud", "readbaud"} /\ arg = MODE_NORMAL -> "speed"
                  [] OTHER -> "return"

WriteFails ==
  /\ pc \in Packets \ {"detect"} /\ ~sent /\ (open => ~quiet)
  /\ UMode' = Mode
  /\ \E n \in 0..Len(SwitchTo(Mode) \o Packet) - 1 :
       out' = IF open THEN SubSeq(SwitchTo(Mode) \o Packet, 1, n) ELSE <<>>
  /\ in' = <<>> /\ seen' = <<>> /\ Resync(AfterFailure)
  /\ UNCHANGED <<UBaud, USpeed, ULevel, open, op, arg, tran_buf, adapter, doubt, quiet>>

Answered == sent /\ out = <<>> /\ Len(in) >= Need

\* ReadCOM gets too few bytes, waiting for each until global_msec exceeds its bound.
NoAnswer ==
  /\ pc # "detect" /\ sent /\ out = <<>> /\ Len(in) < Need
  /\ Resync(AfterFailure)
  /\ UNCHANGED <<host, open, op, arg, tran_buf, wire, adapter, seen, doubt, quiet>>

owLevelNormal ==
  /\ pc = "normal" /\ Answered
  /\ IF in[1] \div 32 = 7
     THEN ULevel' = MODE_NORMAL /\ GoOn /\ UNCHANGED <<tries, back>>
     ELSE Resync(back) /\ UNCHANGED ULevel
  /\ UNCHANGED <<UMode, UBaud, USpeed, open, op, arg, tran_buf, wire, adapter, seen, doubt, quiet>>

\* owBlock goes on to the block.
owTouchReset ==
  /\ pc = "reset" /\ Answered
  /\ IF in[1] % 4 \in {1, 2}
     THEN /\ IF op = "reset" THEN Return(1) ELSE GoTo("block") /\ UNCHANGED ret
          /\ UNCHANGED <<tries, back>>
     ELSE Resync("return")
  /\ UNCHANGED <<host, open, op, arg, tran_buf, wire, adapter, seen, doubt, quiet>>

\* The value read, or TRUE.
OneValue ==
  CASE pc = "bit" -> IF in[1] \div 32 = 4 /\ in[1] % 4 = 3 THEN 1 ELSE 0
    [] pc = "byte" -> in[1]
    [] pc = "block" -> 1

Touch ==
  /\ pc \in {"bit", "byte", "block"} /\ Answered
  /\ Return(OneValue)
  /\ UNCHANGED <<host, open, back, op, arg, tran_buf, tries, wire, adapter, seen, doubt, quiet>>

TimeSet == in[1] < 128 /\ in[1] % 2 = 0

\* Only the first of the two commands is answered before the pullup ends.
owLevelStrong ==
  /\ pc = "strong" /\ Answered
  /\ IF TimeSet
     THEN ULevel' = MODE_STRONG5 /\ Return(MODE_STRONG5) /\ UNCHANGED <<tries, back>>
     ELSE Resync("return") /\ UNCHANGED ULevel
  /\ UNCHANGED <<UMode, UBaud, USpeed, open, op, arg, tran_buf, wire, adapter, seen, doubt, quiet>>

\* Faulty variant of EchoRight: only the last bit is compared.
LastEchoRight == in[Width + 1] % 2 = Bits(arg)[Width]

EchoRight == \A i \in 1..Width : in[i + 1] % 2 = Bits(arg)[i]

owWriteBytePower ==
  /\ pc = "power" /\ Answered
  /\ ULevel' = IF TimeSet THEN MODE_STRONG5 ELSE ULevel
  /\ IF TimeSet /\ EchoRight
     THEN Return(1) /\ UNCHANGED <<tries, back>>
     ELSE Resync("return")
  /\ UNCHANGED <<UMode, UBaud, USpeed, open, op, arg, tran_buf, wire, adapter, seen, doubt, quiet>>

\* Faulty variant of owReadBitPower: a wrong bit is reported and the level forgotten.
SampleForgetsPower ==
  /\ pc = "sample" /\ Answered
  /\ \/ TimeSet /\ in[2] % 2 = arg /\ ULevel' = MODE_STRONG5 /\ Return(1)
     \/ TimeSet /\ in[2] % 2 # arg /\ Return(0) /\ UNCHANGED ULevel
  /\ UNCHANGED <<UMode, UBaud, USpeed, open, back, tries, op, arg, tran_buf, wire, adapter, seen, doubt, quiet>>

owReadBitPower ==
  /\ pc = "sample" /\ Answered
  /\ ULevel' = IF TimeSet THEN MODE_STRONG5 ELSE ULevel
  /\ \/ TimeSet /\ in[2] % 2 = arg /\ Return(1) /\ UNCHANGED <<tries, back>>
     \/ /\ TimeSet /\ in[2] % 2 # arg
        /\ GoTo("normal") /\ back' = "return" /\ UNCHANGED <<tries, ret>>
     \/ ~TimeSet /\ Resync("return")
  /\ UNCHANGED <<UMode, UBaud, USpeed, open, op, arg, tran_buf, wire, adapter, seen, doubt, quiet>>

\* SetBaudCOM closes the port when it cannot read its attributes.
SetBaudCOM(new) ==
  UBaud' = new /\ \E works \in {TRUE, quiet} : open' = (open /\ works)

DS2480ChangeBaud ==
  /\ pc = "baud" /\ Answered
  /\ SetBaudCOM(NewBaud) /\ GoTo("readbaud")
  /\ UNCHANGED <<UMode, USpeed, ULevel, back, call, tries, wire, adapter, seen, doubt, quiet>>

\* Faulty variant of BaudRead: the code of the baud rate is taken for that of the speed.
BaudReadAsSpeed ==
  /\ pc = "readbaud" /\ Answered
  /\ USpeed' = NewBaud /\ GoTo("speed")
  /\ UNCHANGED <<UMode, UBaud, ULevel, open, back, tries, call, wire, adapter, seen, doubt, quiet>>

BaudRead ==
  /\ pc = "readbaud" /\ Answered
  /\ IF (in[1] % 16) - (in[1] % 2) = NewBaud
     THEN /\ GoTo("speed") /\ UNCHANGED <<tries, back, ret>>
          /\ USpeed' = IF arg = MODE_OVERDRIVE THEN SPEEDSEL_OD ELSE SPEEDSEL_FLEX
     ELSE Resync(AfterFailure) /\ UNCHANGED USpeed
  /\ UNCHANGED <<UMode, UBaud, ULevel, open, op, arg, tran_buf, wire, adapter, seen, doubt, quiet>>

SpeedSent ==
  /\ pc = "speed" /\ Answered
  /\ UNCHANGED <<host, open, back, op, arg, tran_buf, tries, wire, adapter, seen, doubt, quiet>>
  /\ Return(Value)

-----------------------------------------------------------------------------
(* The host: DS2480Detect *)

\* Faulty variants of ResetModes and Break.
ResetSpeedOnly == USpeed' = SPEEDSEL_FLEX /\ UNCHANGED <<UMode, ULevel>>
ResetModeOnly  == UMode' = MODSEL_COMMAND /\ UNCHANGED <<USpeed, ULevel>>
BreakLevelStays == mode' = "timing" /\ baud' = PARMSET_9600 /\ UNCHANGED level

\* The break brings the adapter back to commands, 9600 baud and the normal level.
Break == mode' = "timing" /\ baud' = PARMSET_9600 /\ level' = MODE_NORMAL

\* Before each try the host's variables are set to what the adapter will be in; ULevel
\* stays as it is.
ResetModes == UMode' = MODSEL_COMMAND /\ USpeed' = SPEEDSEL_FLEX /\ UNCHANGED ULevel

\* The break and the bytes after it reach the adapter or do not.
DS2480Try ==
  /\ pc = "detect" /\ ~sent /\ tries > 0 /\ tries' = tries - 1 /\ sent' = TRUE
  /\ ResetModes /\ SetBaudCOM(PARMSET_9600)
  /\ in' = <<>> /\ seen' = <<>>
  /\ \/ open' /\ Break /\ out' = Setup
     \/ (open' => ~quiet) /\ out' = <<>> /\ UNCHANGED adapter
  /\ UNCHANGED <<pc, back, call, doubt, quiet>>

Sensible ==
  /\ Len(in) >= Need
  /\ in[4] = UBaud /\ in[5] \div 16 = 9 /\ (in[5] \div 4) % 4 = UBaud \div 4

Tried == pc = "detect" /\ sent /\ out = <<>>

\* owAcquire closes the port when there is no adapter; nobody else looks.
Detected ==
  /\ Tried /\ Sensible /\ doubt' = FALSE /\ UNCHANGED host
  /\ IF op = "acquire" THEN Return(1) ELSE GoOn
  /\ UNCHANGED <<open, back, op, arg, tran_buf, tries, wire, adapter, seen, quiet>>

TryAgain ==
  /\ Tried /\ ~Sensible /\ tries > 0 /\ GoTo("detect")
  /\ UNCHANGED <<host, open, back, call, tries, wire, adapter, seen, doubt, quiet>>

NotDetected ==
  /\ Tried /\ ~Sensible /\ tries = 0 /\ doubt' = TRUE
  /\ IF op = "acquire" THEN Exit
     ELSE UNCHANGED host /\ GoOn /\ UNCHANGED <<open, back, op, arg, tran_buf, tries, in, seen>>
  /\ UNCHANGED <<out, adapter, quiet>>

-----------------------------------------------------------------------------
(* The host: calls *)

Begin(o, a, b, place, after) ==
  /\ pc = "idle" /\ op' = o /\ arg' = a /\ tran_buf' = b /\ seen' = <<>>
  /\ GoTo(place) /\ back' = after
  /\ ret' = 0 /\ tries' = 0 /\ in' = <<>>
  /\ UNCHANGED <<UMode, UBaud, ULevel, open, out, adapter, doubt, quiet>>

\* Most calls make sure of the normal level first, and go on whatever comes of it.
FromNormal(o, a, b, place) ==
  /\ IF ULevel = MODE_NORMAL THEN Begin(o, a, b, place, "return")
                             ELSE Begin(o, a, b, "normal", place)
  /\ UNCHANGED USpeed

FromAnyLevel(o, a, b, place) == Begin(o, a, b, place, "return") /\ UNCHANGED USpeed

\* The last call has switched the power on, and said so.
LeftOn == (op \in {"power", "sample"} /\ ret = 1) \/ (op = "level" /\ ret = MODE_STRONG5)

\* owBlock begins with a reset or not; without one the level is not looked at, and all
\* who call it so have seen to the power before.
CallAccess == \E b \in Blocks : FromNormal("access", 0, b, "reset")
CallBlock  == ~LeftOn /\ \E b \in Blocks : FromAnyLevel("block", 0, b, "block")

CallTouch ==
  \/ FromNormal("reset", 0, <<>>, "reset")
  \/ \E v \in {0, 1} : FromNormal("bit", v, <<>>, "bit")
  \/ \E b \in Bytes : FromNormal("byte", b, <<>>, "byte")

CallPower ==
  \/ \E b \in Bytes : FromAnyLevel("power", b, <<>>, "power")
  \/ \E v \in {0, 1} : FromAnyLevel("sample", v, <<>>, "sample")

CallLevel ==
  /\ \/ ULevel # MODE_NORMAL /\ Begin("level", MODE_NORMAL, <<>>, "normal", "return")
     \/ ULevel # MODE_STRONG5 /\ Begin("level", MODE_STRONG5, <<>>, "strong", "return")
  /\ UNCHANGED USpeed

CallSpeed ==
  \E new \in {MODE_NORMAL, MODE_OVERDRIVE} :
    LET speed == IF new = MODE_OVERDRIVE THEN SPEEDSEL_OD ELSE SPEEDSEL_FLEX
        rate  == IF new = MODE_OVERDRIVE THEN PARMSET_115200 ELSE PARMSET_9600
    IN /\ USpeed # speed
       /\ Begin("speed", new, <<>>, IF UBaud = rate THEN "speed" ELSE "baud", "return")
       /\ USpeed' = IF UBaud = rate THEN speed ELSE USpeed

owAcquire ==
  /\ pc = "exit" /\ open' = TRUE /\ op' = "acquire" /\ out' = <<>>
  /\ GoTo("detect") /\ tries' = Tries
  /\ UNCHANGED <<host, back, arg, tran_buf, ret, in, adapter, seen, doubt, quiet>>

owRelease == pc = "idle" /\ Exit /\ out' = <<>> /\ UNCHANGED <<adapter, doubt, quiet>>

\* The program is killed; what is in the port's buffer still goes out.
Killed == pc # "exit" /\ ~quiet /\ Exit /\ UNCHANGED <<out, adapter, doubt, quiet>>

Call == CallAccess \/ CallBlock \/ CallTouch \/ CallPower \/ CallLevel \/ CallSpeed

Host ==
  \/ Send \/ WriteFails \/ NoAnswer
  \/ owLevelNormal \/ owTouchReset \/ Touch \/ owLevelStrong
  \/ owWriteBytePower \/ owReadBitPower
  \/ DS2480ChangeBaud \/ BaudRead \/ SpeedSent
  \/ DS2480Try \/ Detected \/ TryAgain \/ NotDetected

Next == Call \/ Host \/ Take \/ owAcquire \/ owRelease \/ Killed \/ Cut \/ Drop \/ Quiet

\* Calls and the adapter get on, the program is started again when it has ended, and
\* addresses devices now and then, by a reset and a block.
Fairness == WF_vars(Host) /\ WF_vars(Take) /\ WF_vars(owAcquire) /\ SF_vars(CallAccess)

Spec == Init /\ [][Next]_vars /\ Fairness

-----------------------------------------------------------------------------
(* Properties *)

InStep ==
  /\ mode = IF UMode = MODSEL_DATA THEN "data" ELSE "command"
  /\ baud = UBaud

\* Between calls, whatever has failed in them, the host knows the mode and the baud
\* rate of the adapter, unless DS2480Detect has given up.
InStepUnlessInDoubt == pc = "idle" /\ ~doubt => InStep

PowerKnown == level = MODE_STRONG5 => ULevel = MODE_STRONG5

\* The strong pullup is never on without the host knowing: it would talk to an adapter
\* that does not listen, and the devices would be kept from answering.
NoHiddenPower == pc = "idle" /\ ~doubt => PowerKnown

\* Overdrive is believed on only at 115200 baud, which is what it needs, and 115200 baud
\* is not left on without it, however owSpeed and DS2480Detect cut into each other.
SpeedFitsBaud == pc = "idle" => (USpeed = SPEEDSEL_OD <=> UBaud = PARMSET_115200)

\* What a call reports has happened: the slots it asked for, and no others, were put on
\* the line in order, with the answers it returned, and the power is on if it says so.
SuccessIsTrue ==
  pc = "idle" /\ ~doubt =>
    /\ op = "reset" /\ ret = 1 => \E r \in {1, 2} : seen = <<<<"reset", 0, r>>>>
    /\ op = "bit" /\ ret = 1 => seen = <<<<"bit", arg, 1>>>>
    /\ op = "byte" /\ ret # 0 => seen = <<<<"byte", arg, ret>>>>
    /\ op \in {"access", "block"} /\ ret = 1 =>
         seen = [i \in DOMAIN tran_buf |-> <<"byte", tran_buf[i], in[i]>>]
    /\ op = "power" /\ ret = 1 =>
         level = MODE_STRONG5 /\ seen = [i \in 1..Width |-> <<"bit", Bits(arg)[i], Bits(arg)[i]>>]
    /\ op = "sample" /\ ret = 1 => level = MODE_STRONG5 /\ seen = <<<<"bit", 1, arg>>>>
    /\ op = "level" /\ ret = MODE_NORMAL => level = MODE_NORMAL

\* Once the link is good again, host and adapter find to each other in whatever state
\* the failures have left them, though nobody looks at what DS2480Detect returns.
FindsBack == <>(quiet /\ open) => <>[](pc = "idle" => InStep /\ PowerKnown)
================================================================================
