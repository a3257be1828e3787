----------------------------- MODULE Ds2480Proofs -----------------------------
(***************************************************************************)
(* Proofs that host and adapter stay in step: what the host believes of    *)
(* mode, baud rate and power is so between calls, and a call that reports  *)
(* success has put on the line what it says.                               *)
(*                                                                         *)
(* SpeedInv, CallInv and DetectInv are about the host: the speed and the   *)
(* baud rate, the place in a call, and what DS2480Detect may be answered.  *)
(* LinkInv says, for each place, what may have become of the packet: not   *)
(* yet taken, taken up to some byte, cut off, swallowed by an adapter in a *)
(* pulse or not heard by one at another baud rate.  A block is taken byte  *)
(* by byte, each that looks like MODE_COMMAND doubled, so the proof first  *)
(* shows what is left of a flattened sequence when its head is taken.      *)
(***************************************************************************)
EXTENDS Ds2480, SequenceTheorems, WellFoundedInduction, TLAPS

-----------------------------------------------------------------------------
(* The speed and the baud rate.                                             *)

Fits == USpeed = SPEEDSEL_OD <=> UBaud = PARMSET_115200

\* The two differ only while owSpeed is at it, which then knows the baud rate, and
\* before the first try of DS2480Detect.
SpeedInv ==
  /\ pc \notin {"readbaud", "detect"} => Fits
  /\ pc = "readbaud" => UBaud = NewBaud
  /\ pc = "detect" /\ (sent \/ tries # Tries) => Fits
  /\ back \notin {"readbaud", "detect"}

LEMMA SpeedInit == Init => SpeedInv
BY DEF Init, SpeedInv, Fits, SPEEDSEL_OD, PARMSET_9600, PARMSET_115200

\* The host's actions, one by one.
LEMMA SpeedNext == SpeedInv /\ [Next]_vars => SpeedInv'
<1> SUFFICES ASSUME SpeedInv, [Next]_vars PROVE SpeedInv'
    OBVIOUS
<1> Tries \in Nat \ {0}
    BY LinkAssumption
<1> USE DEF SpeedInv, Fits, SPEEDSEL_OD, SPEEDSEL_FLEX, PARMSET_9600, PARMSET_115200
<1>1. CASE Call
  <2>1. CASE CallAccess \/ CallBlock \/ CallTouch \/ CallPower \/ CallLevel
        BY <2>1 DEF CallAccess, CallBlock, CallTouch, CallPower, CallLevel, FromNormal,
                    FromAnyLevel, Begin, GoTo
  <2>2. CASE CallSpeed
        BY <2>2 DEF CallSpeed, Begin, GoTo, MODE_NORMAL, MODE_OVERDRIVE
  <2> QED BY <1>1, <2>1, <2>2 DEF Call
<1>2. CASE Send
      BY <1>2 DEF Send, NewBaud, call
<1>3. CASE WriteFails \/ NoAnswer
      BY <1>3 DEF WriteFails, NoAnswer, AfterFailure, Resync, GoTo, host
<1>4. CASE owLevelNormal
      BY <1>4 DEF owLevelNormal, GoOn, Return, Resync, GoTo
<1>5. CASE owTouchReset \/ Touch
      BY <1>5 DEF owTouchReset, Touch, Return, Resync, GoTo, host
<1>6. CASE owLevelStrong \/ owWriteBytePower \/ owReadBitPower
      BY <1>6 DEF owLevelStrong, owWriteBytePower, owReadBitPower, Return, Resync, GoTo
<1>7. CASE DS2480ChangeBaud
      BY <1>7 DEF DS2480ChangeBaud, SetBaudCOM, GoTo, NewBaud, call
<1>8. CASE BaudRead
      BY <1>8 DEF BaudRead, AfterFailure, Resync, GoTo, NewBaud
<1>9. CASE SpeedSent
      BY <1>9 DEF SpeedSent, Return, GoTo, host
<1>10. CASE DS2480Try
       BY <1>10 DEF DS2480Try, ResetModes, SetBaudCOM
<1>11. CASE Detected \/ TryAgain
       BY <1>11 DEF Detected, TryAgain, Tried, GoOn, Return, GoTo, host
<1>12. CASE NotDetected
       BY <1>12 DEF NotDetected, Tried, GoOn, Return, GoTo, host, Exit
<1>13. CASE owAcquire
       BY <1>13 DEF owAcquire, GoTo, host
<1>14. CASE owRelease \/ Killed
       BY <1>14 DEF owRelease, Killed, Exit
<1>15. CASE Take \/ Cut \/ Drop \/ Quiet \/ UNCHANGED vars
       BY <1>15 DEF Take, Cut, Drop, Quiet, vars, host, call, NewBaud
<1> QED
  BY <1>1, <1>2, <1>3, <1>4, <1>5, <1>6, <1>7, <1>8, <1>9, <1>10, <1>11, <1>12, <1>13,
     <1>14, <1>15 DEF Next, Host

\* Overdrive is believed on only at 115200 baud and the other way round, in whatever
\* order owSpeed, failures and DS2480Detect come.
THEOREM SpeedFits == Spec => []SpeedFitsBaud
<1>1. SpeedInv => SpeedFitsBaud
      BY DEF SpeedInv, SpeedFitsBaud, Fits
<1> QED BY SpeedInit, SpeedNext, <1>1, PTL DEF Spec

-----------------------------------------------------------------------------
(* Bytes, and what the adapter does with them in command mode.              *)

Byte == 0..255

\* The bits of a command to the 1-Wire line that puts a bit on it.
LEMMA BitBytes ==
  ASSUME NEW v \in {0, 1}, NEW p \in {0, Prime5V}, NEW s \in {SPEEDSEL_FLEX, SPEEDSEL_OD},
         NEW b, b = Comm(Bit, v, s) + p
  PROVE  /\ b \in Byte \ {MODE_DATA, MODE_COMMAND, MODE_STOP_PULSE} /\ b % 2 = 1 /\ b >= 128
         /\ (b \div 32) % 4 = Bit /\ (b \div 16) % 2 = v
         /\ b - (b % 4) = 128 + 16 * v + s
         /\ ((b \div 2) % 2 = 1 <=> p = Prime5V)
<1> USE DEF Comm, Bit, Prime5V, SPEEDSEL_FLEX, SPEEDSEL_OD, Byte, MODE_DATA, MODE_COMMAND,
            MODE_STOP_PULSE
<1>1. v = 0 \/ v = 1
  OBVIOUS
<1>2. p = 0 \/ p = 2
  OBVIOUS
<1>3. s = 4 \/ s = 8
  OBVIOUS
<1>4. b \in Int
  BY <1>1, <1>2, <1>3
<1>5. b \in {133, 137, 149, 153, 135, 139, 151, 155}
  BY <1>1, <1>2, <1>3
<1> QED
  BY <1>1, <1>2, <1>3, <1>5

\* The other commands.
LEMMA OtherBytes ==
  ASSUME NEW s \in {SPEEDSEL_FLEX, SPEEDSEL_OD}
  PROVE  /\ Comm(Reset, 0, s) \in {197, 201} /\ Comm(SearchOff, 0, s) \in {165, 169}
         /\ Comm(Chmod, 0, 12) = 237 /\ TimeLimit = 63
         /\ Config(BaudRate, PARMSET_9600) = 113 /\ Config(BaudRate, PARMSET_115200) = 119
         /\ Config(ParmRead, BaudRate * 2) = 15
  BY DEF Comm, Config, Reset, SearchOff, Chmod, TimeLimit, Pulse5V, Infinite, BaudRate, ParmRead,
         PARMSET_9600, PARMSET_115200, SPEEDSEL_FLEX, SPEEDSEL_OD

LEMMA SetupIs == Setup = <<193, 23, 69, 91, 15, 145>>
  BY DEF Comm, Config, BaudRate, ParmRead, PARMSET_9600, Setup, Bit

LEMMA CommandBitAt ==
  ASSUME NEW v \in {0, 1}, NEW p \in {0, Prime5V}, NEW s \in {SPEEDSEL_FLEX, SPEEDSEL_OD},
         NEW b, b = Comm(Bit, v, s) + p, Command(b)
  PROVE  /\ mode' = "command" /\ UNCHANGED baud
         /\ level' = (IF p = Prime5V THEN MODE_STRONG5 ELSE level)
         /\ \E r \in {v, 0} : /\ in' = Append(in, 128 + 16 * v + s + 3 * r)
                              /\ seen' = Append(seen, <<"bit", v, r>>)
<1>1. /\ b \in Byte \ {MODE_DATA, MODE_COMMAND, MODE_STOP_PULSE} /\ b % 2 = 1 /\ b >= 128
      /\ (b \div 32) % 4 = Bit /\ (b \div 16) % 2 = v
      /\ b - (b % 4) = 128 + 16 * v + s
      /\ ((b \div 2) % 2 = 1 <=> p = Prime5V)
  BY BitBytes
<1>2. mode' = "command" /\ LineCommand(b)
  BY <1>1 DEF Command
<1>3. BitCommand(b)
  BY <1>1, <1>2 DEF LineCommand, Bit, SearchOff, Reset, Chmod
<1> QED
  BY <1>1, <1>2, <1>3 DEF BitCommand, Slot, Echo

LEMMA CommandBit ==
  ASSUME NEW v \in {0, 1}, NEW p \in {0, Prime5V}, NEW s \in {SPEEDSEL_FLEX, SPEEDSEL_OD},
         Command(Comm(Bit, v, s) + p)
  PROVE  /\ mode' = "command" /\ UNCHANGED baud
         /\ level' = (IF p = Prime5V THEN MODE_STRONG5 ELSE level)
         /\ \E r \in {v, 0} : /\ in' = Append(in, 128 + 16 * v + s + 3 * r)
                              /\ seen' = Append(seen, <<"bit", v, r>>)
<1> DEFINE b == Comm(Bit, v, s) + p
<1>1. b = Comm(Bit, v, s) + p /\ Command(b)
  OBVIOUS
<1> HIDE DEF b
<1> QED
  BY <1>1, CommandBitAt, SMTT(30)

LEMMA CommandReset ==
  ASSUME NEW s \in {SPEEDSEL_FLEX, SPEEDSEL_OD}, Command(Comm(Reset, 0, s))
  PROVE  /\ mode' = "command" /\ UNCHANGED <<baud, level>>
         /\ \E r \in 0..3 : in' = Append(in, 204 + r) /\ seen' = Append(seen, <<"reset", 0, r>>)
<1>1. PICK b \in {197, 201} : Command(b)
  BY OtherBytes
<1>2. mode' = "command" /\ LineCommand(b)
  BY <1>1 DEF Command, MODE_DATA, MODE_COMMAND, MODE_STOP_PULSE
<1>3. (b \div 32) % 4 = 2
  BY <1>1
<1>4. ResetCommand(b)
  BY <1>2, <1>3 DEF LineCommand, Bit, SearchOff, Reset, Chmod
<1> QED
  BY <1>2, <1>4 DEF ResetCommand, Slot, Echo

LEMMA CommandSearchOff ==
  ASSUME NEW s \in {SPEEDSEL_FLEX, SPEEDSEL_OD}, Command(Comm(SearchOff, 0, s))
  PROVE  mode' = "command" /\ UNCHANGED <<baud, level, seen, in>>
<1>1. PICK b \in {165, 169} : Command(b)
  BY OtherBytes
<1>2. mode' = "command" /\ LineCommand(b)
  BY <1>1 DEF Command, MODE_DATA, MODE_COMMAND, MODE_STOP_PULSE
<1>3. (b \div 32) % 4 = 1
  BY <1>1
<1> QED
  BY <1>2, <1>3 DEF LineCommand, Bit, SearchOff, Reset, Chmod

LEMMA CommandPulse ==
  ASSUME Command(Comm(Chmod, 0, 12))
  PROVE  mode' = "command" /\ level' = MODE_STRONG5 /\ UNCHANGED <<baud, seen, in>>
<1>1. Command(237)
  BY OtherBytes
<1>2. mode' = "command" /\ LineCommand(237)
  BY <1>1 DEF Command, MODE_DATA, MODE_COMMAND, MODE_STOP_PULSE
<1>3. PulseCommand(237)
  BY <1>2 DEF LineCommand, Bit, SearchOff, Reset, Chmod
<1> QED
  BY <1>2, <1>3 DEF PulseCommand

\* A byte that sets or reads a parameter.
LEMMA CommandConfig ==
  ASSUME NEW b \in {15, 23, 63, 69, 91, 113, 119}, Command(b)
  PROVE  /\ mode' = "command" /\ UNCHANGED <<level, seen>>
         /\ in' = Append(in, IF b = 15 THEN baud ELSE b - 1)
         /\ baud' = (IF b = 113 THEN PARMSET_9600 ELSE IF b = 119 THEN PARMSET_115200 ELSE baud)
<1>1. mode' = "command" /\ ConfigCommand(b)
  BY DEF Command, MODE_DATA, MODE_COMMAND, MODE_STOP_PULSE
<1>2. /\ b \div 16 = ParmRead <=> b = 15
      /\ b = 15 => b % 16 = 15
      /\ b \div 16 = BaudRate <=> b \in {113, 119}
      /\ b = 113 => (b % 16) - 1 = 0
      /\ b = 119 => (b % 16) - 1 = 6
  BY DEF ParmRead, BaudRate
<1> QED
  BY <1>1, <1>2 DEF ConfigCommand, Echo, PARMSET_9600, PARMSET_115200

LEMMA CommandStop ==
  ASSUME Command(MODE_STOP_PULSE)
  PROVE  /\ mode' = "command" /\ UNCHANGED <<baud, level, seen>>
         /\ in' = in \/ in' = Append(in, 236)
  BY DEF Command, MODE_DATA, MODE_COMMAND, MODE_STOP_PULSE, Echo

LEMMA CommandData ==
  ASSUME Command(MODE_DATA)
  PROVE  mode' = "data" /\ UNCHANGED <<baud, level, seen, in>>
  BY DEF Command, MODE_DATA, MODE_COMMAND, MODE_STOP_PULSE

LEMMA Remainders ==
  ASSUME NEW b \in 0..255
  PROVE  /\ b % 4 \in 0..3 /\ b - (b % 4) \in 0..252
         /\ b % 2 = 1 => b - 1 \in 0..255 /\ (b % 16) - 1 \in 0..14
<1>1. b = 4 * (b \div 4) + (b % 4) /\ b % 4 \in 0..3 /\ b \div 4 \in 0..63
  OBVIOUS
<1>2. ASSUME b % 2 = 1 PROVE b % 16 # 0 /\ b # 0
  <2>1. b = 16 * (b \div 16) + (b % 16)
    OBVIOUS
  <2>2. b = 2 * (b \div 2) + 1
    BY <1>2
  <2> QED
    BY <2>1, <2>2
<1>3. b % 16 \in 0..15
  OBVIOUS
<1> QED
  BY <1>1, <1>2, <1>3

\* What any byte does, at most.
LEMMA CommandAny ==
  ASSUME TypeOK, NEW b \in Byte, Command(b)
  PROVE  /\ mode' \in {"command", "data"} /\ baud' \in 0..14
         /\ level' \in {MODE_NORMAL, MODE_STRONG5}
         /\ in' = in \/ \E a \in Byte : in' = Append(in, a)
<1>1. mode' \in {"command", "data"}
  BY DEF Command
<1>2. level \in {MODE_NORMAL, MODE_STRONG5} /\ baud \in 0..14
  BY DEF TypeOK
<1>3. b \in 0..255
  BY DEF Byte
<1>4. /\ b % 4 \in 0..3 /\ b - (b % 4) \in 0..252
      /\ b % 2 = 1 => b - 1 \in 0..255 /\ (b % 16) - 1 \in 0..14
  BY <1>3, Remainders
<1>5. \/ UNCHANGED <<baud, level, seen, in>>
      \/ Echo(236) /\ UNCHANGED <<baud, level, seen>>
      \/ LineCommand(b)
      \/ ConfigCommand(b) /\ b % 2 = 1
  BY DEF Command
<1>6. CASE UNCHANGED <<baud, level, seen, in>>
  BY <1>1, <1>2, <1>6
<1>7. CASE Echo(236) /\ UNCHANGED <<baud, level, seen>>
  BY <1>1, <1>2, <1>7 DEF Echo, Byte
<1>8. CASE BitCommand(b)
  <2>1. PICK r \in {(b \div 16) % 2, 0} : in' = Append(in, (b - (b % 4)) + 3 * r)
    BY <1>8 DEF BitCommand, Echo
  <2>2. r \in {0, 1}
    BY <1>3
  <2>3. (b - (b % 4)) + 3 * r \in Byte
    BY <1>4, <2>2 DEF Byte
  <2>4. baud' = baud /\ level' \in {level, MODE_STRONG5}
    BY <1>8 DEF BitCommand
  <2> QED
    BY <1>1, <1>2, <2>1, <2>3, <2>4
<1>9. CASE ResetCommand(b)
  <2>1. \A r \in 0..3 : 204 + r \in Byte
    BY DEF Byte
  <2> QED
    BY <1>1, <1>2, <1>9, <2>1 DEF ResetCommand, Echo
<1>10. CASE PulseCommand(b)
  BY <1>1, <1>2, <1>10 DEF PulseCommand
<1>11. CASE ConfigCommand(b) /\ b % 2 = 1
  <2>1. \E a \in Byte : in' = Append(in, a)
    <3>1. b - 1 \in Byte /\ baud \in Byte /\ 0 \in Byte
      BY <1>2, <1>4, <1>11 DEF Byte
    <3> QED
      BY <1>11, <3>1 DEF ConfigCommand, Echo
  <2>2. baud' \in {baud, (b % 16) - 1} /\ level' = level
    BY <1>11 DEF ConfigCommand
  <2> QED
    BY <1>1, <1>2, <1>4, <1>11, <2>1, <2>2
<1> QED
  BY <1>5, <1>6, <1>7, <1>8, <1>9, <1>10, <1>11 DEF LineCommand

-----------------------------------------------------------------------------
(* Sequences of sequences in one, and the doubling of bytes.                *)

LEMMA LeastNumber ==
  ASSUME NEW S \in SUBSET Nat, S # {}
  PROVE  \E i \in S : \A j \in S : i <= j
<1> DEFINE R == {p \in Nat \X Nat : p[1] < p[2]}
<1>1. IsWellFoundedOn(R, Nat)
  BY NatLessThanWellFounded DEF OpToRel
<1> HIDE DEF R
<1>2. PICK x \in S : \A y \in S : ~(<<y, x>> \in R)
  BY <1>1, WFMin
<1>3. ASSUME NEW y \in S, y < x PROVE FALSE
  <2>1. <<y, x>> \in Nat \X Nat /\ <<y, x>>[1] < <<y, x>>[2]
    BY <1>3
  <2> QED
    BY <1>2, <1>3, <2>1 DEF R
<1> QED
  BY <1>3

\* f[i] has the first i of the sequences s one after another.
Flattens(f, s, n) == f = [i \in 1..n |-> IF i = 1 THEN s[i] ELSE f[i - 1] \o s[i]]

LEMMA FlattenExists ==
  ASSUME NEW s, NEW n \in Nat
  PROVE  \E f : Flattens(f, s, n)
<1> DEFINE bad == {m \in 0..n : ~\E f : Flattens(f, s, m)}
<1> SUFFICES ASSUME bad # {} PROVE FALSE
  OBVIOUS
<1>1. bad \in SUBSET Nat
  OBVIOUS
<1>2. PICK m \in bad : \A j \in bad : m <= j
  <2> HIDE DEF bad
  <2> QED
    BY <1>1, LeastNumber
<1>3. m \in 0..n /\ ~\E f : Flattens(f, s, m)
  OBVIOUS
<1>4. m # 0
  <2>1. Flattens([i \in 1..0 |-> 0], s, 0)
    BY DEF Flattens
  <2> QED
    BY <1>3, <2>1
<1>5. PICK g : Flattens(g, s, m - 1)
  <2>1. m - 1 \in 0..n /\ ~(m <= m - 1)
    BY <1>3, <1>4
  <2>2. m - 1 \notin bad
    <3> HIDE DEF bad
    <3> QED
      BY <1>2, <2>1
  <2> QED
    BY <2>1, <2>2
<1> DEFINE f == [i \in 1..m |-> IF i = m THEN IF m = 1 THEN s[1] ELSE g[m - 1] \o s[m] ELSE g[i]]
<1>6. ASSUME NEW i \in 1..m PROVE f[i] = IF i = 1 THEN s[i] ELSE f[i - 1] \o s[i]
  <2>1. CASE i = m
    BY <1>3, <1>4, <2>1
  <2>2. CASE i # m
    <3>1. i \in 1..m - 1 /\ (i # 1 => i - 1 \in 1..m - 1 /\ i - 1 # m)
      BY <1>3, <1>4, <2>2
    <3>2. g[i] = IF i = 1 THEN s[i] ELSE g[i - 1] \o s[i]
      BY <1>5, <3>1 DEF Flattens
    <3> QED
      BY <1>3, <2>2, <3>1, <3>2
  <2> QED
    BY <2>1, <2>2
<1>7. Flattens(f, s, m)
  <2>1. f = [i \in 1..m |-> f[i]]
    OBVIOUS
  <2> HIDE DEF f
  <2> QED
    BY <1>6, <2>1 DEF Flattens
<1> QED
  BY <1>3, <1>7

LEMMA FlattenIs ==
  ASSUME NEW T, NEW s \in Seq(T), s # <<>>
  PROVE  \E f : Flattens(f, s, Len(s)) /\ FlattenSeq(s) = f[Len(s)]
<1> DEFINE f == CHOOSE f : Flattens(f, s, Len(s))
<1>1. Flattens(f, s, Len(s))
  <2>1. Len(s) \in Nat
    OBVIOUS
  <2>2. \E g : Flattens(g, s, Len(s))
    BY <2>1, FlattenExists
  <2> QED
    BY <2>2
<1>2. FlattenSeq(s) = f[Len(s)]
  BY DEF FlattenSeq, Flattens
<1> QED
  BY <1>1, <1>2

LEMMA Regroup ==
  \A T : \A u, v, w \in Seq(T) : (u \o v) \o w = u \o (v \o w) /\ v \o w \in Seq(T)
<1> SUFFICES ASSUME NEW T, NEW u \in Seq(T), NEW v \in Seq(T), NEW w \in Seq(T)
             PROVE  (u \o v) \o w = u \o (v \o w) /\ v \o w \in Seq(T)
  OBVIOUS
<1>1. (u \o v) \o w = u \o (v \o w)
  BY ConcatAssociative, SMTT(30)
<1>2. v \o w \in Seq(T)
  BY ConcatProperties
<1> QED
  BY <1>1, <1>2

\* Flattening goes on from its first sequence.
LEMMA FlattenHead ==
  ASSUME NEW T, NEW s \in Seq(Seq(T)), s # <<>>
  PROVE  FlattenSeq(s) \in Seq(T) /\ FlattenSeq(s) = s[1] \o FlattenSeq(Tail(s))
<1> DEFINE n == Len(s)
           t == Tail(s)
<1>1. n \in Nat \ {0} /\ \A i \in 1..n : s[i] \in Seq(T)
  OBVIOUS
<1>2. t \in Seq(Seq(T)) /\ Len(t) = n - 1 /\ \A i \in 1..n - 1 : t[i] = s[i + 1]
  BY HeadTailProperties
<1> HIDE DEF n, t
<1>3. PICK f : Flattens(f, s, n) /\ FlattenSeq(s) = f[n]
  BY FlattenIs DEF n
<1>4. PICK g : Flattens(g, t, n - 1) /\ (t # <<>> => FlattenSeq(t) = g[n - 1])
  <2>1. CASE t = <<>>
    <3>1. n - 1 \in Nat
      BY <1>1
    <3>2. \E g : Flattens(g, t, n - 1)
      BY <3>1, FlattenExists
    <3> QED
      BY <2>1, <3>2
  <2>2. CASE t # <<>>
    <3>1. \E g : Flattens(g, t, Len(t)) /\ FlattenSeq(t) = g[Len(t)]
      BY <1>2, <2>2, FlattenIs
    <3> QED
      BY <1>2, <3>1
  <2> QED
    BY <2>1, <2>2
<1>5. f[1] = s[1]
  BY <1>1, <1>3 DEF Flattens
<1>6. ASSUME NEW i \in 1..n - 1 PROVE f[i + 1] = f[i] \o s[i + 1]
  <2>1. i + 1 \in 1..n /\ i + 1 # 1 /\ (i + 1) - 1 = i
    BY <1>1, <1>6
  <2>2. \A j \in 1..n : f[j] = IF j = 1 THEN s[j] ELSE f[j - 1] \o s[j]
    BY <1>3 DEF Flattens
  <2>3. f[i + 1] = f[(i + 1) - 1] \o s[i + 1]
    BY <2>1, <2>2
  <2> QED
    BY <2>1, <2>3
<1>7. ASSUME NEW i \in 1..n - 1
      PROVE  g[i] = IF i = 1 THEN s[2] ELSE g[i - 1] \o s[i + 1]
  <2>1. \A j \in 1..n - 1 : g[j] = IF j = 1 THEN t[j] ELSE g[j - 1] \o t[j]
    BY <1>4 DEF Flattens
  <2>2. g[i] = IF i = 1 THEN t[i] ELSE g[i - 1] \o t[i]
    BY <1>7, <2>1
  <2> QED
    BY <1>1, <1>2, <1>7, <2>2
<1> DEFINE bad == {i \in 1..n - 1 : ~(g[i] \in Seq(T) /\ f[i + 1] = s[1] \o g[i])}
<1>8. bad = {}
  <2> SUFFICES ASSUME bad # {} PROVE FALSE
    OBVIOUS
  <2>1. bad \in SUBSET Nat
    <3>1. \A i \in 1..n - 1 : i \in Nat
      BY <1>1
    <3>2. \A i \in bad : i \in 1..n - 1
      OBVIOUS
    <3> HIDE DEF bad
    <3> QED
      BY <3>1, <3>2
  <2>2. PICK i \in bad : \A j \in bad : i <= j
    <3> HIDE DEF bad
    <3> QED
      BY <2>1, LeastNumber
  <2>3. i \in 1..n - 1 /\ ~(g[i] \in Seq(T) /\ f[i + 1] = s[1] \o g[i])
    OBVIOUS
  <2>4. s[i + 1] \in Seq(T) /\ s[1] \in Seq(T)
    BY <1>1, <2>3
  <2>5. CASE i = 1
    <3>1. g[i] = s[2] /\ s[i + 1] = s[2]
      BY <1>7, <2>3, <2>5
    <3>2. f[i + 1] = f[i] \o s[i + 1]
      BY <1>6, <2>3
    <3> QED
      BY <1>5, <2>3, <2>4, <2>5, <3>1, <3>2
  <2>6. CASE i # 1
    <3>1. i - 1 \in 1..n - 1 /\ ~(i <= i - 1) /\ (i - 1) + 1 = i
      BY <1>1, <2>3, <2>6
    <3>2. i - 1 \notin bad
      <4> HIDE DEF bad
      <4> QED
        BY <2>2, <3>1
    <3>3. g[i - 1] \in Seq(T) /\ f[i] = s[1] \o g[i - 1]
      <4>1. g[i - 1] \in Seq(T) /\ f[(i - 1) + 1] = s[1] \o g[i - 1]
        BY <3>1, <3>2
      <4> QED
        BY <3>1, <4>1
    <3>4. g[i] = g[i - 1] \o s[i + 1] /\ f[i + 1] = f[i] \o s[i + 1]
      BY <1>6, <1>7, <2>3, <2>6
    <3>5. \A u, v, w \in Seq(T) : (u \o v) \o w = u \o (v \o w) /\ v \o w \in Seq(T)
      BY Regroup
    <3>6. /\ (s[1] \o g[i - 1]) \o s[i + 1] = s[1] \o (g[i - 1] \o s[i + 1])
          /\ g[i - 1] \o s[i + 1] \in Seq(T)
      BY <2>4, <3>3, <3>5
    <3> QED
      BY <2>3, <3>3, <3>4, <3>6
  <2> QED
    BY <2>5, <2>6
<1>9. CASE n = 1
  <2>1. t = <<>>
    BY <1>2, <1>9, EmptySeq
  <2>2. FlattenSeq(t) = <<>>
    BY <2>1 DEF FlattenSeq
  <2>3. s[1] \in Seq(T) /\ s[1] \o <<>> = s[1]
    BY <1>1, ConcatEmptySeq
  <2> QED
    BY <1>3, <1>5, <1>9, <2>2, <2>3 DEF t
<1>10. CASE n # 1
  <2>1. n - 1 \in 1..n - 1 /\ (n - 1) + 1 = n /\ t # <<>>
    BY <1>1, <1>2, <1>10
  <2>2. g[n - 1] \in Seq(T) /\ f[(n - 1) + 1] = s[1] \o g[n - 1]
    BY <1>8, <2>1
  <2>3. s[1] \o g[n - 1] \in Seq(T)
    BY <1>1, <2>2, ConcatProperties
  <2> QED
    BY <1>3, <1>4, <2>1, <2>2, <2>3 DEF t
<1> QED
  BY <1>9, <1>10

LEMMA FlattenEmpty == FlattenSeq(<<>>) = <<>>
  BY DEF FlattenSeq

\* A byte on its way to the adapter in data mode.
AsData(x) == IF x = MODE_COMMAND THEN <<x, x>> ELSE <<x>>

LEMMA DoubledHead ==
  ASSUME NEW b \in Seq(Byte), b # <<>>
  PROVE  Doubled(b) \in Seq(Byte) /\ Doubled(b) = AsData(b[1]) \o Doubled(Tail(b))
<1> DEFINE s == [i \in DOMAIN b |-> AsData(b[i])]
           t == Tail(b)
           st == [i \in DOMAIN t |-> AsData(t[i])]
<1>1. Doubled(b) = FlattenSeq(s) /\ Doubled(t) = FlattenSeq(st)
  BY DEF Doubled, AsData
<1>2. DOMAIN b = 1..Len(b) /\ Len(b) \in Nat \ {0} /\ \A i \in 1..Len(b) : b[i] \in Byte
  OBVIOUS
<1>3. /\ t \in Seq(Byte) /\ Len(t) = Len(b) - 1 /\ DOMAIN t = 1..Len(t)
      /\ \A i \in 1..Len(t) : t[i] = b[i + 1]
  BY HeadTailProperties
<1>4. s \in Seq(Seq(Byte)) /\ Len(s) = Len(b) /\ s # <<>> /\ \A i \in 1..Len(b) : s[i] = AsData(b[i])
  <2>1. \A i \in 1..Len(b) : AsData(b[i]) \in Seq(Byte)
    BY <1>2 DEF AsData
  <2> QED
    BY <1>2, <2>1
<1>5. Tail(s) = st
  <2>1. st \in Seq(Seq(Byte)) /\ Len(st) = Len(t)
    <3>1. \A i \in 1..Len(t) : AsData(t[i]) \in Seq(Byte)
      BY <1>2, <1>3 DEF AsData
    <3> QED
      BY <1>3, <3>1
  <2>2. Tail(s) \in Seq(Seq(Byte)) /\ Len(Tail(s)) = Len(s) - 1
        /\ \A i \in 1..Len(Tail(s)) : Tail(s)[i] = s[i + 1]
    <3> HIDE DEF s
    <3> QED
      BY <1>4, HeadTailProperties
  <2>3. ASSUME NEW i \in 1..Len(t) PROVE Tail(s)[i] = st[i]
    <3>1. Tail(s)[i] = s[i + 1] /\ i + 1 \in 1..Len(b)
      BY <1>2, <1>3, <1>4, <2>2
    <3>2. s[i + 1] = AsData(b[i + 1]) /\ b[i + 1] = t[i] /\ st[i] = AsData(t[i])
      BY <1>3, <1>4, <3>1
    <3> QED
      BY <3>1, <3>2
  <2> HIDE DEF s, st, t
  <2> QED
    BY <1>3, <1>4, <2>1, <2>2, <2>3, SeqEqual
<1> HIDE DEF s, st
<1>6. FlattenSeq(s) \in Seq(Byte) /\ FlattenSeq(s) = s[1] \o FlattenSeq(Tail(s))
  BY <1>4, FlattenHead
<1>7. s[1] = AsData(b[1])
  BY <1>2, <1>4
<1> HIDE DEF t
<1>8. Doubled(b) \in Seq(Byte) /\ Doubled(b) = AsData(b[1]) \o Doubled(t)
  BY <1>1, <1>5, <1>6, <1>7
<1> QED
  BY <1>8 DEF t

LEMMA DoubledEmpty == Doubled(<<>>) = <<>>
  BY FlattenEmpty DEF Doubled

LEMMA DoubledTyped == ASSUME NEW b \in Seq(Byte) PROVE Doubled(b) \in Seq(Byte)
  BY DoubledHead, DoubledEmpty

\* What is left after k bytes begins with the next one.
LEMMA DoubledRest ==
  ASSUME NEW b \in Seq(Byte), NEW k \in 0..Len(b)
  PROVE  /\ Doubled(SubSeq(b, k + 1, Len(b))) \in Seq(Byte)
         /\ k = Len(b) => Doubled(SubSeq(b, k + 1, Len(b))) = <<>>
         /\ k # Len(b) => /\ b[k + 1] \in Byte
                          /\ Doubled(SubSeq(b, k + 1, Len(b))) =
                               AsData(b[k + 1]) \o Doubled(SubSeq(b, k + 2, Len(b)))
<1> DEFINE r == SubSeq(b, k + 1, Len(b))
<1>1. Len(b) \in Nat /\ \A i \in k + 1 .. Len(b) : b[i] \in Byte
  OBVIOUS
<1>2. r \in Seq(Byte)
  BY <1>1, SubSeqProperties
<1>3. CASE k = Len(b)
  <2>1. r = <<>>
    BY <1>1, <1>3, SubSeqEmpty
  <2> QED
    BY <1>2, <1>3, <2>1, DoubledEmpty, DoubledTyped
<1>4. CASE k # Len(b)
  <2>1. k + 1 \in 1..Len(b) /\ Len(b) \in k + 1 .. Len(b) /\ (k + 1) + 1 = k + 2
    BY <1>1, <1>4
  <2>2. Head(r) = b[k + 1] /\ Tail(r) = SubSeq(b, (k + 1) + 1, Len(b))
    BY <2>1, HeadTailOfSubSeq
  <2>3. Len(r) # 0
    BY <1>1, <2>1, SubSeqProperties
  <2> HIDE DEF r
  <2>4. r # <<>> /\ Head(r) = r[1]
    BY <1>2, <2>3
  <2>5. Doubled(r) \in Seq(Byte) /\ Doubled(r) = AsData(r[1]) \o Doubled(Tail(r))
    BY <1>2, <2>4, DoubledHead
  <2>6. b[k + 1] \in Byte
    BY <1>1, <2>1
  <2> QED
    BY <1>4, <2>1, <2>2, <2>4, <2>5, <2>6 DEF r
<1> QED
  BY <1>3, <1>4
-----------------------------------------------------------------------------
(* The invariant.                                                           *)

PlacesOf(o) ==
  CASE o = "access" -> {"normal", "reset", "block"}
    [] o = "block"  -> {"block"}
    [] o = "reset"  -> {"normal", "reset"}
    [] o = "bit"    -> {"normal", "bit"}
    [] o = "byte"   -> {"normal", "byte"}
    [] o = "power"  -> {"power"}
    [] o = "sample" -> {"normal", "sample"}
    [] o = "level"  -> {"normal", "strong"}
    [] o = "speed"  -> {"baud", "readbaud", "speed"}
    [] OTHER        -> {}

\* Where a call may go on after the level has been set or the adapter detected.
BackOf(o) ==
  CASE o = "access" -> {"return", "reset"}
    [] o = "reset"  -> {"return", "reset"}
    [] o = "bit"    -> {"return", "bit"}
    [] o = "byte"   -> {"return", "byte"}
    [] o = "speed"  -> {"return", "speed"}
    [] OTHER        -> {"return"}

AtPacket == pc \in Packets \ {"detect"}

\* The host's side: what the place says of the call.
CallInv ==
  /\ arg \in 0..255 /\ tran_buf \in Seq(0..255)
  /\ AtPacket => pc \in PlacesOf(op)
  /\ pc \in {"normal", "detect"} => back \in BackOf(op)
  /\ pc = "exit" => op = "none" /\ back = "return"
  /\ op \in {"access", "block"} => tran_buf # <<>>
  /\ op \in {"bit", "sample", "speed"} => arg \in {0, 1}
  /\ pc # "exit" /\ ~(pc = "detect" /\ ~sent /\ op = "acquire") =>
       USpeed \in {SPEEDSEL_FLEX, SPEEDSEL_OD}
  /\ pc = "baud" => UBaud # NewBaud
  /\ AtPacket /\ sent => UMode = Mode
  /\ AtPacket /\ ~sent => out = <<>>
  /\ pc = "idle" => out = <<>> /\ ~sent
  /\ pc = "exit" => ~sent

\* DS2480Detect is answered with five bytes only by an adapter that it has set up.
SetUp(k) ==
  /\ baud = PARMSET_9600 /\ level = MODE_NORMAL
  /\ IF k = 0 THEN mode = "timing" /\ in = <<>> ELSE mode = "command" /\ Len(in) = k - 1
  /\ out = SubSeq(Setup, k + 1, 6)

TooFew ==
  \/ Len(in) + Len(out) <= 4
  \/ mode = "timing" /\ level = MODE_NORMAL /\ in = <<>> /\ Len(out) = 5

DetectInv ==
  pc = "detect" /\ sent =>
    /\ UMode = MODSEL_COMMAND /\ UBaud = PARMSET_9600 /\ USpeed = SPEEDSEL_FLEX
    /\ TooFew \/ \E k \in 0..6 : SetUp(k)

Listens == baud = UBaud /\ level = MODE_NORMAL

\* Between calls; the power is on only if the last call said so.
Rested ==
  /\ InStep
  /\ level = MODE_STRONG5 => LeftOn /\ ULevel = MODE_STRONG5 /\ mode = "command"

\* Before a packet is written.
Ready ==
  /\ pc # "readbaud" => InStep /\ (level = MODE_STRONG5 => ULevel = MODE_STRONG5 /\ mode = "command")
  /\ pc = "readbaud" => baud # UBaud \/ (InStep /\ level = MODE_NORMAL)
  /\ pc \in {"reset", "bit", "byte", "block", "strong", "speed"} => level = MODE_NORMAL
  /\ pc = "speed" => mode = "command"

\* What may have become of a packet.

\* It was cut off, or its answer.
Lost == out = <<>> /\ Len(in) < Need

\* The adapter is still at the old baud rate.
Deaf  == pc = "readbaud" /\ baud # UBaud /\ in = <<>>
Unset == pc = "baud" /\ out = <<>> /\ baud = UBaud

\* It meets an adapter in a pulse.
Swallowed ==
  /\ pc \in {"power", "sample", "baud"} /\ baud = UBaud /\ level = MODE_STRONG5 /\ mode = "command"
  /\ in = <<>> /\ \A i \in DOMAIN out : out[i] # MODE_STOP_PULSE

Stopping ==
  /\ pc = "normal" /\ baud = UBaud /\ level = MODE_STRONG5 /\ mode = "command"
  /\ in = <<>> /\ out = <<MODE_STOP_PULSE>>

\* The adapter has yet to take the byte that changes the mode.
Prefixed ==
  /\ pc # "speed" /\ Listens /\ in = <<>> /\ seen = <<>>
  /\ IF UMode = MODSEL_DATA THEN mode = "command" /\ out = <<MODE_DATA>> \o Packet
                            ELSE mode = "data" /\ out = <<MODE_COMMAND>> \o Packet

\* It has yet to take the packet.
Begun ==
  /\ pc # "speed" /\ UMode = MODSEL_COMMAND /\ Listens /\ in = <<>> /\ seen = <<>>
  /\ mode \in {"command", "check"} /\ out = Packet

\* It has taken k bytes of the block.
Taken(b, k) ==
  /\ Listens /\ UMode = MODSEL_DATA /\ Len(in) = k
  /\ seen = [i \in 1..k |-> <<"byte", b[i], in[i]>>]
  /\ \/ mode = "data" /\ out = Doubled(SubSeq(b, k + 1, Len(b)))
     \/ /\ k < Len(b) /\ b[k + 1] = MODE_COMMAND
        /\ mode = "check" /\ out = <<MODE_COMMAND>> \o Doubled(SubSeq(b, k + 2, Len(b)))

Block == IF pc = "byte" THEN <<arg>> ELSE tran_buf

TakenData == pc \in {"byte", "block"} /\ \E k \in 0..Len(Block) : Taken(Block, k)

\* It has taken commands.
Obeyed == mode = "command" /\ UMode = MODSEL_COMMAND /\ (pc # "baud" => baud = UBaud)

TakenOne ==
  /\ Obeyed /\ level = MODE_NORMAL /\ out = <<>>
  /\ \/ pc = "normal" /\ in = <<236>>
     \/ pc = "reset" /\ \E r \in 0..3 : in = <<204 + r>> /\ seen = <<<<"reset", 0, r>>>>
     \/ /\ pc = "bit"
        /\ \E r \in {arg, 0} :
             in = <<128 + 16 * arg + USpeed + 3 * r>> /\ seen = <<<<"bit", arg, r>>>>
     \/ pc = "baud" /\ baud = NewBaud
     \/ pc = "readbaud" /\ in = <<baud>>

TakenStrong ==
  /\ pc = "strong" /\ Obeyed
  /\ \/ Listens /\ out = <<Comm(Chmod, 0, 12)>> /\ in = <<62>>
     \/ out = <<>> /\ Len(in) = 1

TakenSample ==
  /\ pc = "sample" /\ Obeyed
  /\ \/ Listens /\ in = <<62>> /\ seen = <<>> /\ out = <<Comm(Bit, 1, USpeed) + Prime5V>>
     \/ /\ level = MODE_STRONG5 /\ out = <<>> /\ Len(in) = 2
        /\ seen = <<<<"bit", 1, in[2] % 2>>>>

TakenPower ==
  /\ pc = "power" /\ Obeyed
  /\ \E k \in 0..Width :
       /\ out = SubSeq(PowerBits, k + 1, Width)
       /\ level = IF k = Width THEN MODE_STRONG5 ELSE MODE_NORMAL
       /\ Len(in) = k + 1 /\ seen = [i \in 1..k |-> <<"bit", Bits(arg)[i], in[i + 1] % 2>>]

\* The packet with which owSpeed ends has no effect.
Speeding ==
  /\ pc = "speed" /\ Listens /\ Obeyed
  /\ out \in {<<>>, <<Comm(SearchOff, 0, USpeed)>>}

Underway ==
  \/ Lost \/ Deaf \/ Unset \/ Swallowed \/ Stopping \/ Prefixed \/ Begun
  \/ TakenData \/ TakenOne \/ TakenStrong \/ TakenSample \/ TakenPower \/ Speeding

LinkInv ==
  ~doubt =>
    /\ pc = "idle" => Rested /\ SuccessIsTrue
    /\ AtPacket => IF sent THEN Underway ELSE Ready

-----------------------------------------------------------------------------
(* Types, and the host's side of a call.                                    *)

LEMMA Link ==
  /\ Tries \in Nat \ {0} /\ Width \in 1..8 /\ Width \in Nat
  /\ Bytes \subseteq Byte /\ Blocks \subseteq Seq(Byte) \ {<<>>}
  BY LinkAssumption DEF Byte

LEMMA BitsAre == ASSUME NEW b \in Byte, NEW i \in 1..Width PROVE Bits(b)[i] \in {0, 1}
  BY Link DEF Bits, Byte

LEMMA PowerBitsTyped ==
  ASSUME arg \in Byte, USpeed \in {SPEEDSEL_FLEX, SPEEDSEL_OD}
  PROVE  PowerBits \in Seq(Byte) /\ Len(PowerBits) = Width
<1>1. ASSUME NEW i \in 1..Width
      PROVE  Comm(Bit, Bits(arg)[i], USpeed) + (IF i = Width THEN Prime5V ELSE 0) \in Byte
  <2>1. Bits(arg)[i] \in {0, 1}
    BY BitsAre
  <2> QED
    BY <2>1, BitBytes
<1> QED
  BY <1>1, Link DEF PowerBits

LEMMA PacketTyped ==
  ASSUME TypeOK, CallInv, AtPacket
  PROVE  Packet \in Seq(Byte) /\ SwitchTo(Mode) \o Packet \in Seq(Byte)
<1>1. USpeed \in {SPEEDSEL_FLEX, SPEEDSEL_OD} /\ arg \in Byte /\ tran_buf \in Seq(Byte)
  BY DEF CallInv, AtPacket, Packets, Commands, Byte
<1>2. /\ Comm(Reset, 0, USpeed) \in Byte /\ Comm(SearchOff, 0, USpeed) \in Byte
      /\ Comm(Chmod, 0, 12) \in Byte /\ TimeLimit \in Byte
      /\ Config(BaudRate, NewBaud) \in Byte /\ Config(ParmRead, BaudRate * 2) \in Byte
      /\ MODE_STOP_PULSE \in Byte /\ MODE_DATA \in Byte /\ MODE_COMMAND \in Byte
  <2>1. NewBaud = PARMSET_9600 \/ NewBaud = PARMSET_115200
    BY DEF NewBaud
  <2>2. /\ Comm(Reset, 0, USpeed) \in {197, 201} /\ Comm(SearchOff, 0, USpeed) \in {165, 169}
        /\ Comm(Chmod, 0, 12) = 237 /\ TimeLimit = 63 /\ Config(ParmRead, BaudRate * 2) = 15
        /\ Config(BaudRate, NewBaud) \in {113, 119}
    BY <1>1, <2>1, OtherBytes
  <2> QED
    BY <2>2 DEF Byte, MODE_STOP_PULSE, MODE_DATA, MODE_COMMAND
<1>3. Packet \in Seq(Byte)
  <2>1. CASE pc = "bit"
    <3>1. arg \in {0, 1}
      BY <2>1 DEF CallInv, PlacesOf, AtPacket, Packets, Commands
    <3>2. Comm(Bit, arg, USpeed) + 0 \in Byte
      BY <1>1, <3>1, BitBytes
    <3>3. Comm(Bit, arg, USpeed) \in Byte
      BY <3>1, <3>2, <1>1 DEF Comm, Bit, SPEEDSEL_FLEX, SPEEDSEL_OD
    <3> QED
      BY <2>1, <3>3 DEF Packet
  <2>2. CASE pc = "byte"
    <3>1. <<arg>> \in Seq(Byte)
      BY <1>1
    <3> QED
      BY <2>2, <3>1, DoubledTyped DEF Packet
  <2>3. CASE pc = "block"
    BY <1>1, <2>3, DoubledTyped DEF Packet
  <2>4. CASE pc = "power"
    <3>1. PowerBits \in Seq(Byte)
      BY <1>1, PowerBitsTyped
    <3> QED
      BY <1>2, <2>4, <3>1 DEF Packet
  <2>5. CASE pc = "sample"
    <3>1. Comm(Bit, 1, USpeed) + Prime5V \in Byte
      BY <1>1, BitBytes
    <3> QED
      BY <1>2, <2>5, <3>1 DEF Packet
  <2>6. CASE pc \in {"normal", "reset", "strong", "baud", "readbaud", "speed"}
    BY <1>2, <2>6 DEF Packet
  <2> QED
    BY <2>1, <2>2, <2>3, <2>4, <2>5, <2>6 DEF AtPacket, Packets, Commands
<1>4. SwitchTo(Mode) \in Seq(Byte)
  BY <1>2 DEF SwitchTo
<1> QED
  BY <1>3, <1>4

\* The parts of the invariant that a step to a place has to do with.
LEMMA Places ==
  /\ "detect" \in Packets /\ "idle" \notin Packets /\ "exit" \notin Packets /\ "idle" # "exit"
  /\ Packets \ {"detect"} =
       {"normal", "reset", "bit", "strong", "power", "sample", "baud", "readbaud", "speed",
        "byte", "block"}
  BY DEF Packets, Commands

\* Going back to DS2480Detect, from any place of a call.
LEMMA ResyncHost ==
  ASSUME TypeOK, CallInv, AtPacket, NEW place \in BackOf(op), Resync(place),
         UNCHANGED <<UBaud, USpeed, open, op, arg, tran_buf, adapter, doubt, quiet>>,
         UMode' \in {MODSEL_DATA, MODSEL_COMMAND}, ULevel' \in {MODE_NORMAL, MODE_STRONG5},
         out' \in Seq(Byte), in' \in Seq(Byte)
  PROVE  (TypeOK /\ CallInv)'
<1>1. /\ pc' = "detect" /\ sent' = FALSE /\ tries' = Tries /\ back' = place /\ ret' = ret
  BY DEF Resync, GoTo
<1>2. place \in Packets \cup {"return", "exit"}
  BY DEF BackOf, Packets, Commands
<1>3. Tries \in 0..Tries
  BY Link
<1>4. TypeOK'
  <2>1. pc' \in Packets \cup {"idle", "exit"} /\ back' \in Packets \cup {"return", "exit"}
    BY <1>1, <1>2, Places
  <2>2. tries' \in 0..Tries /\ ret' \in 0..255 /\ sent' \in BOOLEAN
    BY <1>1, <1>3 DEF TypeOK
  <2>3. out' \in Seq(0..255) /\ in' \in Seq(0..255)
    BY DEF Byte
  <2> QED
    BY <2>1, <2>2, <2>3 DEF TypeOK, adapter
<1>5. CallInv'
  BY <1>1 DEF CallInv, AtPacket, Packets, Commands
<1> QED
  BY <1>4, <1>5

\* Going on after a packet to idle or to another packet of the call.
LEMMA GoToHost ==
  ASSUME TypeOK, CallInv, AtPacket \/ (pc = "detect" /\ sent), NEW place,
         GoTo(place), place \in (PlacesOf(op) \ {"baud"}) \cup {"idle"},
         place = "normal" => back' = "return",
         back' \in {back, "return"}, ret' \in Byte, out = <<>>,
         UNCHANGED <<UMode, op, arg, tran_buf, tries, wire, adapter, seen, quiet>>,
         USpeed' \in {USpeed, SPEEDSEL_FLEX, SPEEDSEL_OD},
         UBaud' \in {PARMSET_9600, PARMSET_115200}, open' \in BOOLEAN, doubt' \in BOOLEAN,
         ULevel' \in {MODE_NORMAL, MODE_STRONG5}
  PROVE  (TypeOK /\ CallInv)'
<1>1. place \in (Packets \ {"detect", "baud"}) \cup {"idle"}
  BY DEF PlacesOf, Packets, Commands
<1>2. pc' = place /\ sent' = FALSE
  BY DEF GoTo
<1>3. TypeOK'
  <2>1. USpeed' \in {0, SPEEDSEL_FLEX, SPEEDSEL_OD} /\ back' \in Packets \cup {"return", "exit"}
    BY DEF TypeOK
  <2>2. pc' \in Packets \cup {"idle", "exit"} /\ sent' \in BOOLEAN
    BY <1>1, <1>2
  <2> QED
    BY <2>1, <2>2 DEF TypeOK, adapter, wire, Byte
<1>4. "return" \in BackOf(op)
  BY DEF BackOf
<1>5. CallInv'
  BY <1>1, <1>2, <1>4, Places DEF CallInv, AtPacket, wire
<1> QED
  BY <1>3, <1>5

LEMMA AfterFailureIs ==
  ASSUME CallInv, AtPacket
  PROVE  AfterFailure \in BackOf(op)
<1>1. pc \in {"baud", "readbaud"} => op = "speed"
  BY DEF CallInv, PlacesOf, AtPacket, Packets, Commands
<1> QED
  BY <1>1 DEF AfterFailure, CallInv, BackOf

LEMMA ReturnHost ==
  ASSUME TypeOK, CallInv, AtPacket \/ (pc = "detect" /\ sent), NEW value \in Byte,
         Return(value), out = <<>>, doubt' \in BOOLEAN,
         UNCHANGED <<UMode, UBaud, USpeed, open, back, op, arg, tran_buf, tries, wire, adapter,
                     seen, quiet>>,
         ULevel' \in {MODE_NORMAL, MODE_STRONG5}
  PROVE  (TypeOK /\ CallInv)'
<1>1. GoTo("idle") /\ ret' = value
  BY DEF Return
<1>2. UBaud \in {PARMSET_9600, PARMSET_115200} /\ open \in BOOLEAN
  BY DEF TypeOK
<1> QED
  BY <1>1, <1>2, GoToHost

LEMMA ValueIs ==
  ASSUME ULevel' \in {MODE_NORMAL, MODE_STRONG5}
  PROVE  Value \in Byte
  BY DEF Value, Byte, MODE_NORMAL, MODE_STRONG5, MODE_OVERDRIVE

LEMMA LevelsAre == {MODE_NORMAL, MODE_STRONG5, MODE_OVERDRIVE, 0, 1} \subseteq Byte
  BY DEF Byte, MODE_NORMAL, MODE_STRONG5, MODE_OVERDRIVE

LEMMA SendHost == ASSUME TypeOK, CallInv, Send PROVE (TypeOK /\ CallInv)'
<1>1. AtPacket
  BY DEF Send, AtPacket
<1>2. out' \in Seq(Byte)
  BY <1>1, PacketTyped DEF Send
<1>3. Mode \in {MODSEL_DATA, MODSEL_COMMAND}
  BY DEF Mode
<1>4. TypeOK'
  BY <1>2, <1>3 DEF Send, TypeOK, adapter, call, Byte
<1>5. CallInv'
  BY <1>1, Places DEF Send, CallInv, AtPacket, call, NewBaud, Mode
<1> QED
  BY <1>4, <1>5

LEMMA WriteFailsHost == ASSUME TypeOK, CallInv, WriteFails PROVE (TypeOK /\ CallInv)'
<1>1. AtPacket
  BY DEF WriteFails, AtPacket
<1>2. Mode \in {MODSEL_DATA, MODSEL_COMMAND}
  BY DEF Mode
<1>3. out' \in Seq(Byte)
  <2> DEFINE p == SwitchTo(Mode) \o Packet
  <2>1. p \in Seq(Byte)
    BY <1>1, PacketTyped
  <2>2. PICK n \in 0..Len(p) - 1 : out' = IF open THEN SubSeq(p, 1, n) ELSE <<>>
    BY DEF WriteFails
  <2> HIDE DEF p
  <2> QED
    BY <2>1, <2>2
<1>4. AfterFailure \in BackOf(op)
  BY <1>1, AfterFailureIs
<1>5. in' \in Seq(Byte) /\ ULevel' \in {MODE_NORMAL, MODE_STRONG5} /\ Resync(AfterFailure)
  BY DEF WriteFails, TypeOK
<1> QED
  BY <1>1, <1>2, <1>3, <1>4, <1>5, ResyncHost DEF WriteFails

LEMMA NoAnswerHost == ASSUME TypeOK, CallInv, NoAnswer PROVE (TypeOK /\ CallInv)'
<1>1. AtPacket
  BY DEF NoAnswer, AtPacket, CallInv, TypeOK
<1>2. AfterFailure \in BackOf(op)
  BY <1>1, AfterFailureIs
<1>3. /\ in' \in Seq(Byte) /\ out' \in Seq(Byte) /\ ULevel' \in {MODE_NORMAL, MODE_STRONG5}
      /\ UMode' \in {MODSEL_DATA, MODSEL_COMMAND} /\ Resync(AfterFailure)
  BY DEF NoAnswer, TypeOK, wire, host, Byte
<1> QED
  BY <1>1, <1>2, <1>3, ResyncHost DEF NoAnswer, host

\* An answer is judged.
LEMMA AnsweredAt ==
  ASSUME TypeOK, CallInv, Answered, pc \in Packets \ {"detect"}
  PROVE  AtPacket /\ out = <<>> /\ (pc \notin {"baud", "speed"} => in[1] \in Byte)
<1>1. pc \notin {"baud", "speed"} => Need \in Nat /\ Need > 0
  <2>1. tran_buf # <<>> /\ tran_buf \in Seq(0..255) => Len(tran_buf) \in Nat /\ Len(tran_buf) > 0
    OBVIOUS
  <2>2. pc = "block" => op \in {"access", "block"}
    BY DEF CallInv, PlacesOf, AtPacket, Packets, Commands
  <2>3. pc = "block" => Len(tran_buf) \in Nat /\ Len(tran_buf) > 0
    BY <2>1, <2>2 DEF CallInv
  <2> QED
    BY <2>3, Link DEF Need
<1>2. in \in Seq(Byte) /\ Len(in) >= Need
  BY DEF TypeOK, Byte, Answered
<1> QED
  BY <1>1, <1>2 DEF AtPacket, Answered

LEMMA LevelNormalHost == ASSUME TypeOK, CallInv, owLevelNormal PROVE (TypeOK /\ CallInv)'
<1>1. AtPacket /\ out = <<>> /\ pc = "normal"
  BY AnsweredAt, Places DEF owLevelNormal
<1>2. ULevel' \in {MODE_NORMAL, MODE_STRONG5}
  BY DEF owLevelNormal, TypeOK
<1>3. back \in BackOf(op)
  BY <1>1 DEF CallInv
<1>4. CASE GoOn /\ UNCHANGED <<tries, back>>
  <2>1. CASE back = "return"
    <3>1. Return(Value) /\ Value \in Byte /\ doubt \in BOOLEAN
      BY <1>2, <1>4, <2>1, ValueIs DEF GoOn, TypeOK
    <3> QED
      BY <1>1, <1>2, <1>4, <3>1, ReturnHost DEF owLevelNormal
  <2>2. CASE back # "return"
    <3>1. back \in PlacesOf(op) \ {"baud", "normal"}
      BY <1>3, <2>2 DEF BackOf, PlacesOf
    <3>2. GoTo(back) /\ ret' = ret
      BY <1>4, <2>2 DEF GoOn
    <3>3. ret' \in Byte /\ UBaud \in {PARMSET_9600, PARMSET_115200} /\ open \in BOOLEAN
          /\ doubt \in BOOLEAN
      BY <3>2 DEF TypeOK, Byte
    <3> QED
      BY <1>1, <1>2, <1>4, <3>1, <3>2, <3>3, GoToHost DEF owLevelNormal
  <2> QED
    BY <2>1, <2>2
<1>5. CASE Resync(back)
  <2>1. out' \in Seq(Byte) /\ in' \in Seq(Byte) /\ UMode' \in {MODSEL_DATA, MODSEL_COMMAND}
    BY DEF owLevelNormal, TypeOK, wire, Byte
  <2> QED
    BY <1>1, <1>2, <1>3, <1>5, <2>1, ResyncHost DEF owLevelNormal
<1> QED
  BY <1>4, <1>5 DEF owLevelNormal

LEMMA TouchResetHost == ASSUME TypeOK, CallInv, owTouchReset PROVE (TypeOK /\ CallInv)'
<1>1. AtPacket /\ out = <<>> /\ pc = "reset" /\ op \in {"access", "reset"}
  <2>1. AtPacket /\ out = <<>> /\ pc = "reset"
    BY AnsweredAt, Places DEF owTouchReset
  <2> QED
    BY <2>1 DEF CallInv, PlacesOf
<1>2. /\ out' \in Seq(Byte) /\ in' \in Seq(Byte) /\ UMode' \in {MODSEL_DATA, MODSEL_COMMAND}
      /\ ULevel' \in {MODE_NORMAL, MODE_STRONG5} /\ UBaud' \in {PARMSET_9600, PARMSET_115200}
      /\ open' \in BOOLEAN /\ doubt' \in BOOLEAN /\ ret \in Byte /\ "return" \in BackOf(op)
  BY DEF owTouchReset, TypeOK, wire, host, Byte, BackOf
<1>3. CASE Return(1) /\ UNCHANGED <<tries, back>>
  BY <1>1, <1>2, <1>3, LevelsAre, ReturnHost DEF owTouchReset, host
<1>4. CASE GoTo("block") /\ UNCHANGED ret /\ UNCHANGED <<tries, back>> /\ op # "reset"
  <2>1. "block" \in PlacesOf(op) \ {"baud"}
    BY <1>1, <1>4 DEF PlacesOf
  <2> QED
    BY <1>1, <1>2, <1>4, <2>1, GoToHost DEF owTouchReset, host
<1>5. CASE Resync("return")
  BY <1>1, <1>2, <1>5, ResyncHost DEF owTouchReset, host
<1> QED
  BY <1>3, <1>4, <1>5 DEF owTouchReset

LEMMA TouchHost == ASSUME TypeOK, CallInv, Touch PROVE (TypeOK /\ CallInv)'
<1>1. AtPacket /\ out = <<>> /\ in[1] \in Byte
  BY AnsweredAt, Places DEF Touch
<1>2. OneValue \in Byte
  BY <1>1, LevelsAre DEF OneValue, Touch
<1>3. ULevel' \in {MODE_NORMAL, MODE_STRONG5} /\ doubt \in BOOLEAN
  BY DEF Touch, TypeOK, host
<1> QED
  BY <1>1, <1>2, <1>3, ReturnHost DEF Touch, host

LEMMA PowerHost ==
  ASSUME TypeOK, CallInv, owLevelStrong \/ owWriteBytePower \/ owReadBitPower
  PROVE  (TypeOK /\ CallInv)'
<1>1. AtPacket /\ out = <<>> /\ (owReadBitPower => op = "sample")
  <2>1. AtPacket /\ out = <<>>
    BY AnsweredAt, Places DEF owLevelStrong, owWriteBytePower, owReadBitPower
  <2> QED
    BY <2>1 DEF CallInv, PlacesOf, owReadBitPower
<1>2. /\ UNCHANGED <<UMode, UBaud, USpeed, open, op, arg, tran_buf, wire, adapter, seen, doubt, quiet>>
      /\ ULevel' \in {MODE_NORMAL, MODE_STRONG5}
      /\ \/ /\ Return(1) \/ Return(MODE_STRONG5)
            /\ UNCHANGED <<tries, back>>
         \/ Resync("return")
         \/ owReadBitPower /\ GoTo("normal") /\ back' = "return" /\ UNCHANGED <<tries, ret>>
  BY DEF owLevelStrong, owWriteBytePower, owReadBitPower, TypeOK
<1>3. /\ out' \in Seq(Byte) /\ in' \in Seq(Byte) /\ UMode' \in {MODSEL_DATA, MODSEL_COMMAND}
      /\ UBaud' \in {PARMSET_9600, PARMSET_115200}
      /\ open' \in BOOLEAN /\ doubt' \in BOOLEAN /\ ret \in Byte /\ "return" \in BackOf(op)
  BY <1>2 DEF TypeOK, wire, Byte, BackOf
<1>4. CASE (Return(1) \/ Return(MODE_STRONG5)) /\ UNCHANGED <<tries, back>>
  <2>1. PICK value \in {1, MODE_STRONG5} : Return(value)
    BY <1>4
  <2>2. value \in Byte
    BY LevelsAre
  <2> QED
    BY <1>1, <1>2, <1>3, <1>4, <2>1, <2>2, ReturnHost
<1>5. CASE Resync("return")
  BY <1>1, <1>2, <1>3, <1>5, ResyncHost
<1>6. CASE owReadBitPower /\ GoTo("normal") /\ back' = "return" /\ UNCHANGED <<tries, ret>>
  <2>1. "normal" \in PlacesOf(op) \ {"baud"}
    BY <1>1, <1>6 DEF PlacesOf
  <2> QED
    BY <1>1, <1>2, <1>3, <1>6, <2>1, GoToHost
<1> QED
  BY <1>2, <1>4, <1>5, <1>6

LEMMA SpeedHost ==
  ASSUME TypeOK, CallInv, DS2480ChangeBaud \/ BaudRead \/ SpeedSent
  PROVE  (TypeOK /\ CallInv)'
<1>1. AtPacket /\ out = <<>> /\ op = "speed"
  <2>1. AtPacket /\ out = <<>> /\ pc \in {"baud", "readbaud", "speed"}
    BY AnsweredAt, Places DEF DS2480ChangeBaud, BaudRead, SpeedSent
  <2> QED
    BY <2>1 DEF CallInv, PlacesOf
<1>2. {"readbaud", "speed"} \subseteq PlacesOf(op) \ {"baud", "normal"}
  BY <1>1 DEF PlacesOf
<1>3. /\ ret \in Byte /\ doubt \in BOOLEAN /\ ULevel \in {MODE_NORMAL, MODE_STRONG5}
      /\ open \in BOOLEAN /\ UBaud \in {PARMSET_9600, PARMSET_115200}
      /\ out \in Seq(Byte) /\ in \in Seq(Byte) /\ UMode \in {MODSEL_DATA, MODSEL_COMMAND}
  BY DEF TypeOK, Byte
<1>4. CASE DS2480ChangeBaud
  <2>1. UBaud' \in {PARMSET_9600, PARMSET_115200} /\ open' \in BOOLEAN
    BY <1>4 DEF DS2480ChangeBaud, SetBaudCOM, NewBaud, TypeOK
  <2> QED
    BY <1>1, <1>2, <1>3, <1>4, <2>1, GoToHost DEF DS2480ChangeBaud, call
<1>5. CASE BaudRead /\ GoTo("speed") /\ UNCHANGED <<tries, back, ret>>
  <2>1. USpeed' \in {USpeed, SPEEDSEL_FLEX, SPEEDSEL_OD}
    BY <1>5 DEF BaudRead
  <2> QED
    BY <1>1, <1>2, <1>3, <1>5, <2>1, GoToHost DEF BaudRead
<1>6. CASE BaudRead /\ Resync(AfterFailure) /\ UNCHANGED USpeed
  <2>1. AfterFailure \in BackOf(op)
    BY <1>1, AfterFailureIs
  <2> QED
    BY <1>1, <1>3, <1>6, <2>1, ResyncHost DEF BaudRead, wire
<1>7. CASE SpeedSent
  <2>1. ULevel' \in {MODE_NORMAL, MODE_STRONG5}
    BY <1>3, <1>7 DEF SpeedSent, host
  <2>2. Value \in Byte
    BY <2>1, ValueIs
  <2> QED
    BY <1>1, <1>3, <1>7, <2>1, <2>2, ReturnHost DEF SpeedSent, host
<1>8. BaudRead => \/ GoTo("speed") /\ UNCHANGED <<tries, back, ret>>
                  \/ Resync(AfterFailure) /\ UNCHANGED USpeed
  BY DEF BaudRead
<1> QED
  BY <1>4, <1>5, <1>6, <1>7, <1>8

LEMMA TryHost == ASSUME TypeOK, CallInv, DS2480Try PROVE (TypeOK /\ CallInv)'
<1>1. out' \in Seq(Byte) /\ in' = <<>>
  <2>1. Setup \in Seq(Byte) /\ <<>> \in Seq(Byte)
    BY SetupIs DEF Byte
  <2>2. in' = <<>> /\ (out' = Setup \/ out' = <<>>)
    BY DEF DS2480Try
  <2> QED
    BY <2>1, <2>2
<1>2. tries' \in 0..Tries /\ UBaud' \in {PARMSET_9600, PARMSET_115200} /\ open' \in BOOLEAN
  BY Link DEF DS2480Try, TypeOK, SetBaudCOM
<1>3. mode' \in {"timing", mode} /\ baud' \in {0, baud} /\ level' \in {MODE_NORMAL, level}
  BY DEF DS2480Try, Break, adapter, PARMSET_9600
<1>4. /\ UMode' = MODSEL_COMMAND /\ USpeed' = SPEEDSEL_FLEX /\ sent' = TRUE
      /\ UNCHANGED <<ULevel, pc, back, call, doubt, quiet>> /\ pc = "detect"
  BY DEF DS2480Try, ResetModes
<1>5. TypeOK'
  BY <1>1, <1>2, <1>3, <1>4 DEF TypeOK, call, Byte
<1>6. CallInv'
  BY <1>4 DEF CallInv, AtPacket, call
<1> QED
  BY <1>5, <1>6

LEMMA ExitTyped ==
  ASSUME Exit
  PROVE  /\ UMode' \in {MODSEL_DATA, MODSEL_COMMAND} /\ UBaud' \in {PARMSET_9600, PARMSET_115200}
         /\ USpeed' \in {0, SPEEDSEL_FLEX, SPEEDSEL_OD} /\ ULevel' \in {MODE_NORMAL, MODE_STRONG5}
         /\ open' \in BOOLEAN /\ sent' \in BOOLEAN
         /\ pc' \in Packets \cup {"idle", "exit"} /\ back' \in Packets \cup {"return", "exit"}
         /\ tries' \in 0..Tries /\ ret' \in 0..255 /\ in' \in Seq(0..255)
<1>1. 0 \in 0..Tries /\ 0 \in 0..255 /\ <<>> \in Seq(0..255)
  BY Link
<1> QED
  BY <1>1 DEF Exit

LEMMA DetectedHost ==
  ASSUME TypeOK, CallInv, Detected \/ TryAgain \/ NotDetected
  PROVE  (TypeOK /\ CallInv)'
<1>1. pc = "detect" /\ sent /\ out = <<>>
  BY DEF Detected, TryAgain, NotDetected, Tried
<1>2. back \in BackOf(op) /\ back # "baud"
  BY <1>1 DEF CallInv, BackOf
<1>3. /\ ret \in Byte /\ ULevel \in {MODE_NORMAL, MODE_STRONG5}
      /\ open \in BOOLEAN /\ UBaud \in {PARMSET_9600, PARMSET_115200}
  BY DEF TypeOK, Byte
<1>4. ASSUME GoOn, doubt' \in BOOLEAN,
             UNCHANGED <<host, open, back, op, arg, tran_buf, tries, wire, adapter, seen, quiet>>
      PROVE  (TypeOK /\ CallInv)'
  <2>1. CASE back = "return"
    <3>1. Return(Value) /\ Value \in Byte
      BY <1>3, <1>4, <2>1, ValueIs DEF GoOn, host
    <3> QED
      BY <1>1, <1>3, <1>4, <3>1, ReturnHost DEF host
  <2>2. CASE back # "return"
    <3>1. back \in PlacesOf(op) \ {"baud", "normal"}
      BY <1>2, <2>2 DEF BackOf, PlacesOf
    <3>2. GoTo(back) /\ ret' = ret
      BY <1>4, <2>2 DEF GoOn
    <3> QED
      BY <1>1, <1>3, <1>4, <3>1, <3>2, GoToHost DEF host
  <2> QED
    BY <2>1, <2>2
<1>5. CASE Detected
  <2>1. doubt' \in BOOLEAN /\ 1 \in Byte
    BY <1>5, LevelsAre DEF Detected
  <2>2. CASE op = "acquire"
    BY <1>1, <1>3, <1>5, <2>1, <2>2, ReturnHost DEF Detected, host
  <2>3. CASE op # "acquire"
    BY <1>4, <1>5, <2>1, <2>3 DEF Detected
  <2> QED
    BY <2>2, <2>3
<1>6. CASE TryAgain
  <2>1. pc' = "detect" /\ sent' = FALSE
        /\ UNCHANGED <<host, open, back, call, tries, wire, adapter, seen, doubt, quiet>>
    BY <1>6 DEF TryAgain, GoTo
  <2>2. TypeOK'
    <3>1. pc' \in Packets \cup {"idle", "exit"} /\ sent' \in BOOLEAN
      BY <2>1, Places
    <3> QED
      BY <2>1, <3>1 DEF TypeOK, host, call, wire, adapter
  <2>3. CallInv'
    BY <1>1, <2>1 DEF CallInv, AtPacket, host, call, wire
  <2> QED
    BY <2>2, <2>3
<1>7. CASE NotDetected
  <2>1. CASE op = "acquire"
    <3>1. Exit /\ UNCHANGED <<out, adapter, quiet>> /\ doubt' = TRUE
      BY <1>7, <2>1 DEF NotDetected
    <3>2. TypeOK'
      BY <3>1, ExitTyped DEF TypeOK, adapter
    <3>3. CallInv'
      BY <3>1, Places DEF CallInv, AtPacket, Exit
    <3> QED
      BY <3>2, <3>3
  <2>2. CASE op # "acquire"
    BY <1>1, <1>4, <1>7, <2>2 DEF NotDetected, wire
  <2> QED
    BY <2>1, <2>2
<1> QED
  BY <1>5, <1>6, <1>7

LEMMA BeginHost ==
  ASSUME TypeOK, CallInv, NEW o, NEW a \in Byte, NEW b \in Seq(Byte), NEW place \in PlacesOf(o),
         NEW after \in BackOf(o), Begin(o, a, b, place, after),
         o \in {"access", "block"} => b # <<>>,
         o \in {"bit", "sample", "speed"} => a \in {0, 1},
         place = "baud" => UBaud # (IF a = MODE_OVERDRIVE THEN PARMSET_115200 ELSE PARMSET_9600),
         USpeed' \in {USpeed, SPEEDSEL_FLEX, SPEEDSEL_OD}
  PROVE  (TypeOK /\ CallInv)'
<1>1. place \in Packets \ {"detect"}
  BY DEF PlacesOf, Packets, Commands
<1>2. after \in Packets \cup {"return", "exit"}
  BY DEF BackOf, Packets, Commands
<1>3. /\ pc = "idle" /\ pc' = place /\ sent' = FALSE /\ back' = after
      /\ op' = o /\ arg' = a /\ tran_buf' = b /\ ret' = 0 /\ tries' = 0 /\ in' = <<>>
      /\ UNCHANGED <<UMode, UBaud, ULevel, open, out, adapter, doubt, quiet>>
  BY DEF Begin, GoTo
<1>4. TypeOK'
  <2>1. 0 \in 0..Tries /\ 0 \in 0..255 /\ <<>> \in Seq(0..255)
    BY Link
  <2>2. USpeed' \in {0, SPEEDSEL_FLEX, SPEEDSEL_OD}
    BY DEF TypeOK
  <2>3. pc' \in Packets \cup {"idle", "exit"} /\ back' \in Packets \cup {"return", "exit"}
    BY <1>1, <1>2, <1>3
  <2>4. tries' \in 0..Tries /\ ret' \in 0..255 /\ sent' \in BOOLEAN /\ in' \in Seq(0..255)
    BY <1>3, <2>1
  <2>5. UNCHANGED <<UMode, UBaud, ULevel, open, out, mode, baud, level, doubt, quiet>>
    BY <1>3 DEF adapter
  <2> QED
    BY <2>2, <2>3, <2>4, <2>5 DEF TypeOK
<1>5. CallInv'
  <2>1. USpeed' \in {SPEEDSEL_FLEX, SPEEDSEL_OD} /\ out' = <<>>
    BY <1>3, Places DEF CallInv
  <2>2. arg' \in 0..255 /\ tran_buf' \in Seq(0..255)
    BY <1>3 DEF Byte
  <2>3. pc' # "idle" /\ pc' # "exit" /\ pc' # "detect"
    BY <1>1, <1>3, Places
  <2> QED
    BY <1>3, <2>1, <2>2, <2>3 DEF CallInv, AtPacket, NewBaud
<1> QED
  BY <1>4, <1>5

LEMMA CallHost == ASSUME TypeOK, CallInv, Call PROVE (TypeOK /\ CallInv)'
<1>1. 0 \in Byte /\ 1 \in Byte /\ <<>> \in Seq(Byte) /\ MODE_STRONG5 \in Byte /\ MODE_NORMAL \in Byte
  BY LevelsAre
<1>2. ASSUME NEW o \in {"access", "reset", "bit", "byte"}, NEW a \in Byte, NEW b \in Seq(Byte),
             NEW place \in PlacesOf(o) \cap BackOf(o), FromNormal(o, a, b, place),
             o = "access" => b # <<>>, o = "bit" => a \in {0, 1}
      PROVE  (TypeOK /\ CallInv)'
  <2>1. "return" \in BackOf(o) /\ "normal" \in PlacesOf(o) /\ place # "baud"
    BY <1>2 DEF BackOf, PlacesOf
  <2>2. CASE Begin(o, a, b, place, "return") /\ UNCHANGED USpeed
    BY <1>2, <2>1, <2>2, BeginHost
  <2>3. CASE Begin(o, a, b, "normal", place) /\ UNCHANGED USpeed
    BY <1>2, <2>1, <2>3, BeginHost
  <2> QED
    BY <1>2, <2>2, <2>3 DEF FromNormal
<1>3. CASE CallAccess
  <2>1. PICK b \in Blocks : FromNormal("access", 0, b, "reset")
    BY <1>3 DEF CallAccess
  <2>2. "reset" \in PlacesOf("access") \cap BackOf("access")
    BY DEF PlacesOf, BackOf
  <2> QED
    BY <1>1, <1>2, <2>1, <2>2, Link
<1>4. CASE CallBlock
  <2>1. PICK b \in Blocks : FromAnyLevel("block", 0, b, "block")
    BY <1>4 DEF CallBlock
  <2>2. "block" \in PlacesOf("block") /\ "return" \in BackOf("block")
    BY DEF PlacesOf, BackOf
  <2> QED
    BY <1>1, <2>1, <2>2, Link, BeginHost DEF FromAnyLevel
<1>5. CASE CallTouch
  <2>1. /\ "reset" \in PlacesOf("reset") \cap BackOf("reset")
        /\ "bit" \in PlacesOf("bit") \cap BackOf("bit")
        /\ "byte" \in PlacesOf("byte") \cap BackOf("byte")
    BY DEF PlacesOf, BackOf
  <2>2. CASE FromNormal("reset", 0, <<>>, "reset")
    BY <1>1, <1>2, <2>1, <2>2
  <2>3. ASSUME NEW v \in {0, 1}, FromNormal("bit", v, <<>>, "bit") PROVE (TypeOK /\ CallInv)'
    BY <1>1, <1>2, <2>1, <2>3
  <2>4. ASSUME NEW b \in Bytes, FromNormal("byte", b, <<>>, "byte") PROVE (TypeOK /\ CallInv)'
    BY <1>1, <1>2, <2>1, <2>4, Link
  <2> QED
    BY <1>5, <2>2, <2>3, <2>4 DEF CallTouch
<1>6. CASE CallPower
  <2>1. /\ "power" \in PlacesOf("power") /\ "return" \in BackOf("power")
        /\ "sample" \in PlacesOf("sample") /\ "return" \in BackOf("sample")
    BY DEF PlacesOf, BackOf
  <2>2. ASSUME NEW b \in Bytes, FromAnyLevel("power", b, <<>>, "power") PROVE (TypeOK /\ CallInv)'
    BY <1>1, <2>1, <2>2, Link, BeginHost DEF FromAnyLevel
  <2>3. ASSUME NEW v \in {0, 1}, FromAnyLevel("sample", v, <<>>, "sample")
        PROVE  (TypeOK /\ CallInv)'
    BY <1>1, <2>1, <2>3, Link, BeginHost DEF FromAnyLevel
  <2> QED
    BY <1>6, <2>2, <2>3 DEF CallPower
<1>7. CASE CallLevel
  <2>1. {"normal", "strong"} \subseteq PlacesOf("level") /\ "return" \in BackOf("level")
    BY DEF PlacesOf, BackOf
  <2>2. CASE Begin("level", MODE_NORMAL, <<>>, "normal", "return") /\ UNCHANGED USpeed
    BY <1>1, <2>1, <2>2, BeginHost
  <2>3. CASE Begin("level", MODE_STRONG5, <<>>, "strong", "return") /\ UNCHANGED USpeed
    BY <1>1, <2>1, <2>3, BeginHost
  <2> QED
    BY <1>7, <2>2, <2>3 DEF CallLevel
<1>8. CASE CallSpeed
  <2>1. {"baud", "speed"} \subseteq PlacesOf("speed") /\ "return" \in BackOf("speed")
    BY DEF PlacesOf, BackOf
  <2>2. PICK new \in {MODE_NORMAL, MODE_OVERDRIVE} :
          LET speed == IF new = MODE_OVERDRIVE THEN SPEEDSEL_OD ELSE SPEEDSEL_FLEX
              rate  == IF new = MODE_OVERDRIVE THEN PARMSET_115200 ELSE PARMSET_9600
          IN /\ Begin("speed", new, <<>>, IF UBaud = rate THEN "speed" ELSE "baud", "return")
             /\ USpeed' = IF UBaud = rate THEN speed ELSE USpeed
    BY <1>8 DEF CallSpeed
  <2>3. new \in {0, 1} /\ new \in Byte
    BY LevelsAre DEF MODE_NORMAL, MODE_OVERDRIVE
  <2> DEFINE rate == IF new = MODE_OVERDRIVE THEN PARMSET_115200 ELSE PARMSET_9600
             place == IF UBaud = rate THEN "speed" ELSE "baud"
  <2>4. /\ Begin("speed", new, <<>>, place, "return")
        /\ USpeed' \in {USpeed, SPEEDSEL_FLEX, SPEEDSEL_OD}
    BY <2>2
  <2>5. place \in {"baud", "speed"} /\ (place = "baud" => UBaud # rate)
    OBVIOUS
  <2> HIDE DEF place
  <2> QED
    BY <1>1, <2>1, <2>3, <2>4, <2>5, BeginHost
<1> QED
  BY <1>3, <1>4, <1>5, <1>6, <1>7, <1>8 DEF Call

\* What the adapter does with a byte, whatever it is: it answers with one byte at most.
LEMMA TakeAny ==
  ASSUME TypeOK, Take
  PROVE  /\ out # <<>> /\ out' = Tail(out)
         /\ in' = in \/ \E a \in Byte : in' = Append(in, a)
         /\ mode' \in {"timing", "command", "data", "check"} /\ baud' \in 0..14
         /\ level' \in {MODE_NORMAL, MODE_STRONG5}
         /\ UNCHANGED <<host, open, pc, back, sent, call, tries, doubt, quiet>>
         /\ mode' = "timing" => mode = "timing"
         /\ mode = "timing" /\ level = MODE_NORMAL =>
              UNCHANGED <<baud, level, seen, in>> /\ mode' \in {"timing", "command"}
         /\ mode = "timing" /\ level = MODE_NORMAL /\ baud = UBaud => mode' = "command"
<1>1. out # <<>> /\ out' = Tail(out)
      /\ UNCHANGED <<host, open, pc, back, sent, call, tries, doubt, quiet>>
  BY DEF Take
<1>2. Head(out) \in Byte
  <2>1. out \in Seq(Byte)
    BY DEF TypeOK, Byte
  <2> QED
    BY <1>1, <2>1, HeadTailProperties
<1>3. CASE baud # UBaud
  BY <1>1, <1>3 DEF Take, TypeOK, adapter
<1>4. CASE baud = UBaud /\ level # MODE_NORMAL
  <2>1. InPulse(Head(out))
    BY <1>4 DEF Take
  <2>2. /\ level' \in {MODE_NORMAL, level} /\ UNCHANGED <<mode, baud>>
        /\ in' \in {in, Append(in, 236)}
    BY <2>1 DEF InPulse, Echo
  <2>3. 236 \in Byte
    BY DEF Byte
  <2> QED
    BY <1>1, <1>4, <2>2, <2>3 DEF TypeOK
<1>5. CASE baud = UBaud /\ level = MODE_NORMAL /\ mode = "timing"
  BY <1>1, <1>5 DEF Take, TypeOK
<1>6. CASE baud = UBaud /\ level = MODE_NORMAL /\ mode # "timing"
  <2>1. CASE Command(Head(out))
    BY <1>1, <1>2, <1>6, <2>1, CommandAny
  <2>2. CASE mode' = "data" /\ DataByte(Head(out))
    <3>1. PICK r \in {Head(out), 0} : in' = Append(in, r) /\ UNCHANGED <<baud, level>>
      BY <2>2 DEF DataByte, Echo
    <3>2. 0 \in Byte
      BY DEF Byte
    <3>3. r \in Byte
      BY <1>2, <3>1, <3>2
    <3> QED
      BY <1>1, <1>6, <2>2, <3>1, <3>3 DEF TypeOK
  <2>3. CASE mode' = "check" /\ UNCHANGED <<baud, level, seen, in>>
    BY <1>1, <1>6, <2>3 DEF TypeOK
  <2> QED
    BY <1>6, <2>1, <2>2, <2>3 DEF Take
<1> QED
  BY <1>3, <1>4, <1>5, <1>6 DEF TypeOK

LEMMA WireHost ==
  ASSUME TypeOK, CallInv, Take \/ Cut \/ Drop \/ Quiet
  PROVE  (TypeOK /\ CallInv)'
<1>1. /\ UNCHANGED <<host, open, pc, back, sent, call, tries>>
      /\ out = <<>> => out' = <<>>
  BY DEF Take, Cut, Drop, Quiet, wire
<1>2. /\ out' \in Seq(Byte) /\ in' \in Seq(Byte)
      /\ mode' \in {"timing", "command", "data", "check"} /\ baud' \in 0..14
      /\ level' \in {MODE_NORMAL, MODE_STRONG5} /\ doubt' \in BOOLEAN /\ quiet' \in BOOLEAN
  <2>1. out \in Seq(Byte) /\ in \in Seq(Byte)
    BY DEF TypeOK, Byte
  <2>2. CASE Take
    <3>1. in' = in \/ \E a \in Byte : in' = Append(in, a)
      BY <2>2, TakeAny
    <3>2. in' \in Seq(Byte)
      BY <2>1, <3>1
    <3>3. out # <<>> /\ out' = Tail(out)
      BY <2>2, TakeAny
    <3>4. out' \in Seq(Byte)
      BY <2>1, <3>3, HeadTailProperties
    <3> QED
      BY <2>2, <3>2, <3>4, TakeAny DEF TypeOK
  <2>3. CASE Cut
    <3>1. PICK n \in 0..Len(in) : in' = SubSeq(in, 1, n)
      BY <2>3 DEF Cut
    <3>2. in' \in Seq(Byte)
      BY <2>1, <3>1
    <3> QED
      BY <2>3, <3>2 DEF Cut, TypeOK, adapter
  <2>4. CASE Drop
    <3>1. out # <<>> /\ out' = Tail(out)
      BY <2>4 DEF Drop
    <3>2. out' \in Seq(Byte)
      BY <2>1, <3>1, HeadTailProperties
    <3> QED
      BY <2>1, <2>4, <3>2 DEF Drop, TypeOK, adapter
  <2>5. CASE Quiet
    BY <2>1, <2>5 DEF Quiet, TypeOK, adapter, wire
  <2> QED
    BY <2>2, <2>3, <2>4, <2>5
<1>3. TypeOK'
  BY <1>1, <1>2 DEF TypeOK, host, call, Byte
<1>4. CallInv'
  BY <1>1 DEF CallInv, AtPacket, host, call, NewBaud, Mode
<1> QED
  BY <1>3, <1>4

LEMMA ProgramHost ==
  ASSUME TypeOK, CallInv, owAcquire \/ owRelease \/ Killed
  PROVE  (TypeOK /\ CallInv)'
<1>1. CASE owAcquire
  <2>1. "return" \in BackOf("acquire") /\ Tries \in 0..Tries /\ TRUE \in BOOLEAN
    BY Link DEF BackOf
  <2>2. /\ pc = "exit" /\ pc' = "detect" /\ sent' = FALSE /\ op' = "acquire" /\ open' = TRUE
        /\ tries' = Tries /\ out' = <<>>
        /\ UNCHANGED <<host, back, arg, tran_buf, ret, in, adapter, seen, doubt, quiet>>
    BY <1>1 DEF owAcquire, GoTo
  <2>3. TypeOK'
    <3>1. /\ pc' \in Packets \cup {"idle", "exit"} /\ back' \in Packets \cup {"return", "exit"}
          /\ tries' \in 0..Tries /\ open' \in BOOLEAN /\ sent' \in BOOLEAN
      BY <2>1, <2>2, Places DEF TypeOK
    <3>2. out' \in Seq(0..255) /\ in' \in Seq(0..255) /\ ret' \in 0..255
      BY <2>2 DEF TypeOK
    <3> QED
      BY <2>2, <3>1, <3>2 DEF TypeOK, host, adapter
  <2>4. CallInv'
    BY <2>1, <2>2, Places DEF CallInv, AtPacket, host
  <2> QED
    BY <2>3, <2>4
<1>2. CASE owRelease \/ Killed
  <2>1. Exit /\ out' \in {<<>>, out} /\ UNCHANGED <<adapter, doubt, quiet>>
    BY <1>2 DEF owRelease, Killed
  <2>2. TypeOK'
    <3>1. out \in Seq(0..255) /\ <<>> \in Seq(0..255)
      BY DEF TypeOK
    <3>2. out' \in Seq(0..255)
      BY <2>1, <3>1
    <3>3. /\ mode' \in {"timing", "command", "data", "check"} /\ baud' \in 0..14
          /\ level' \in {MODE_NORMAL, MODE_STRONG5} /\ doubt' \in BOOLEAN /\ quiet' \in BOOLEAN
      BY <2>1 DEF TypeOK, adapter
    <3> QED
      BY <2>1, <3>2, <3>3, ExitTyped DEF TypeOK
  <2>3. CallInv'
    BY <2>1, Places DEF CallInv, AtPacket, Exit
  <2> QED
    BY <2>2, <2>3
<1> QED
  BY <1>1, <1>2

LEMMA HostInit == Init => TypeOK /\ CallInv
<1>1. 0 \in 0..Tries /\ 0 \in 0..255 /\ <<>> \in Seq(0..255) /\ 0 \in 0..14
  BY Link
<1>2. ASSUME Init PROVE TypeOK
  <2>1. pc \in Packets \cup {"idle", "exit"} /\ back \in Packets \cup {"return", "exit"}
    BY <1>2 DEF Init
  <2>2. out \in Seq(0..255) /\ in \in Seq(0..255) /\ tries \in 0..Tries /\ ret \in 0..255
    BY <1>1, <1>2 DEF Init
  <2>3. baud \in 0..14 /\ mode \in {"timing", "command", "data", "check"}
    BY <1>1, <1>2 DEF Init, PARMSET_9600
  <2> QED
    BY <1>2, <2>1, <2>2, <2>3 DEF Init, TypeOK
<1>3. Init => CallInv
  BY <1>1, Places DEF Init, CallInv, AtPacket
<1> QED
  BY <1>2, <1>3

LEMMA HostNext == ASSUME TypeOK, CallInv, [Next]_vars PROVE (TypeOK /\ CallInv)'
<1>1. CASE UNCHANGED vars
  <2>1. TypeOK'
    BY <1>1 DEF vars, TypeOK, host, wire, adapter, call
  <2>2. CallInv'
    BY <1>1 DEF vars, CallInv, AtPacket, host, wire, adapter, call, NewBaud, Mode
  <2> QED
    BY <2>1, <2>2
<1>2. CASE Host
  BY <1>2, SendHost, WriteFailsHost, NoAnswerHost, LevelNormalHost, TouchResetHost, TouchHost,
     PowerHost, SpeedHost, TryHost, DetectedHost DEF Host
<1> QED
  BY <1>1, <1>2, CallHost, WireHost, ProgramHost DEF Next

\* The variables keep their types: no answer, however garbled, and no byte in the wrong
\* mode makes the adapter's rate or the host's level anything else.
THEOREM TypeCorrect == Spec => []TypeOK
<1>1. TypeOK /\ CallInv /\ [Next]_vars => (TypeOK /\ CallInv)'
  BY HostNext
<1> QED
  BY <1>1, HostInit, PTL DEF Spec

-----------------------------------------------------------------------------
(* DS2480Detect.                                                            *)

\* A read of a bit at the speed that the bytes after a break are for.
LEMMA CommandLast ==
  ASSUME TypeOK, Command(145)
  PROVE  /\ mode' = "command" /\ UNCHANGED <<baud, level>>
         /\ \E a \in Byte : in' = Append(in, a)
<1>1. mode' = "command" /\ LineCommand(145)
  BY DEF Command, MODE_DATA, MODE_COMMAND, MODE_STOP_PULSE
<1>2. BitCommand(145)
  BY <1>1 DEF LineCommand, Bit, SearchOff, Reset, Chmod
<1>3. (145 \div 16) % 2 = 1 /\ (145 \div 2) % 2 = 0 /\ 145 - (145 % 4) = 144
  OBVIOUS
<1>4. \A r \in {1, 0} : 144 + 3 * r \in Byte
  BY DEF Byte
<1> QED
  BY <1>1, <1>2, <1>3, <1>4 DEF BitCommand, Echo

\* Each byte of the set-up after the first is a command that is answered.
LEMMA CommandSetup ==
  ASSUME TypeOK, NEW b \in {23, 69, 91, 15, 145}, Command(b)
  PROVE  /\ mode' = "command" /\ UNCHANGED <<baud, level>>
         /\ \E a \in Byte : in' = Append(in, a)
<1>1. CASE b = 145
  BY <1>1, CommandLast
<1>2. CASE b # 145
  <2>1. b \in {15, 23, 63, 69, 91, 113, 119} /\ b \notin {113, 119}
    BY <1>2
  <2>2. /\ mode' = "command" /\ UNCHANGED <<level, seen>>
        /\ in' = Append(in, IF b = 15 THEN baud ELSE b - 1)
        /\ baud' = (IF b = 113 THEN PARMSET_9600 ELSE IF b = 119 THEN PARMSET_115200 ELSE baud)
    BY <2>1, CommandConfig
  <2>3. (IF b = 15 THEN baud ELSE b - 1) \in Byte
    BY <1>2 DEF TypeOK, Byte
  <2> QED
    BY <2>1, <2>2, <2>3
<1> QED
  BY <1>1, <1>2

LEMMA SetupRest ==
  ASSUME NEW k \in 0..5
  PROVE  /\ Setup[k + 1] \in (IF k = 0 THEN {193} ELSE {23, 69, 91, 15, 145})
         /\ SubSeq(Setup, k + 1, 6) # <<>> /\ Head(SubSeq(Setup, k + 1, 6)) = Setup[k + 1]
         /\ Tail(SubSeq(Setup, k + 1, 6)) = SubSeq(Setup, (k + 1) + 1, 6)
         /\ SubSeq(Setup, k + 1, 6) \in Seq(Byte) /\ Len(SubSeq(Setup, k + 1, 6)) = 6 - k
<1>1. Setup \in Seq(Byte) /\ Len(Setup) = 6
  BY SetupIs DEF Byte
<1>2. k = 0 \/ k = 1 \/ k = 2 \/ k = 3 \/ k = 4 \/ k = 5
  OBVIOUS
<1>3. Setup[k + 1] \in (IF k = 0 THEN {193} ELSE {23, 69, 91, 15, 145})
  BY <1>2, SetupIs
<1>4. k + 1 \in 1..Len(Setup) /\ 6 \in k + 1 .. Len(Setup) /\ k + 1 \in 1..Len(Setup) + 1
  BY <1>1
<1>5. /\ Head(SubSeq(Setup, k + 1, 6)) = Setup[k + 1]
      /\ Tail(SubSeq(Setup, k + 1, 6)) = SubSeq(Setup, (k + 1) + 1, 6)
  BY <1>1, <1>4, HeadTailOfSubSeq
<1>6. \A i \in k + 1 .. 6 : Setup[i] \in Byte
  <2>1. \A i \in 1..6 : Setup[i] \in Byte
    BY <1>1, ElementOfSeq
  <2>2. \A i \in k + 1 .. 6 : i \in 1..6
    OBVIOUS
  <2> QED
    BY <2>1, <2>2
<1>7. SubSeq(Setup, k + 1, 6) \in Seq(Byte) /\ Len(SubSeq(Setup, k + 1, 6)) = 6 - k
  BY <1>1, <1>6, SubSeqProperties
<1>8. SubSeq(Setup, k + 1, 6) # <<>>
  <2>1. Len(<<>>) = 0 /\ 6 - k # 0
    OBVIOUS
  <2> QED
    BY <1>7, <2>1
<1> QED
  BY <1>3, <1>5, <1>7, <1>8

LEMMA SetupDone == SubSeq(Setup, 7, 6) = <<>>
<1>1. Setup \in Seq(Byte)
  BY SetupIs DEF Byte
<1> QED
  BY <1>1, SubSeqEmpty

LEMMA Lengths ==
  ASSUME TypeOK
  PROVE  /\ out \in Seq(Byte) /\ in \in Seq(Byte) /\ Len(out) \in Nat /\ Len(in) \in Nat
         /\ out # <<>> => /\ Tail(out) \in Seq(Byte) /\ Len(Tail(out)) = Len(out) - 1
                          /\ Head(out) \in Byte
         /\ \A a \in Byte : Append(in, a) \in Seq(Byte) /\ Len(Append(in, a)) = Len(in) + 1
<1>1. out \in Seq(Byte) /\ in \in Seq(Byte)
  BY DEF TypeOK, Byte
<1>2. out # <<>> => Tail(out) \in Seq(Byte) /\ Len(Tail(out)) = Len(out) - 1 /\ Head(out) \in Byte
  BY <1>1, HeadTailProperties
<1> QED
  BY <1>1, <1>2

LEMMA DetectTake ==
  ASSUME TypeOK, DetectInv, pc = "detect" /\ sent, Take
  PROVE  DetectInv'
<1>1. /\ UNCHANGED <<host, open, pc, back, sent, call, tries, doubt, quiet>>
      /\ UNCHANGED <<UMode, UBaud, USpeed>>
  BY TakeAny DEF host
<1>2. UMode = MODSEL_COMMAND /\ UBaud = PARMSET_9600 /\ USpeed = SPEEDSEL_FLEX
  BY DEF DetectInv
<1>3. out # <<>> /\ out' = Tail(out) /\ (in' = in \/ \E a \in Byte : in' = Append(in, a))
  BY TakeAny
<1>4. CASE Len(in) + Len(out) <= 4
  <2>1. Len(in') <= Len(in) + 1 /\ Len(in') \in Nat /\ Len(out') = Len(out) - 1
    BY <1>3, Lengths
  <2>2. Len(in') + Len(out') <= 4
    BY <1>4, <2>1, Lengths
  <2> QED
    BY <1>1, <1>2, <2>2 DEF DetectInv, TooFew
<1>5. CASE mode = "timing" /\ level = MODE_NORMAL /\ in = <<>> /\ Len(out) = 5
  <2>1. in' = <<>> /\ Len(out') = 4
    BY <1>3, <1>5, TakeAny, Lengths
  <2>2. Len(in') + Len(out') <= 4
    BY <2>1
  <2> QED
    BY <1>1, <1>2, <2>2 DEF DetectInv, TooFew
<1>6. ASSUME NEW k \in 0..6, SetUp(k) PROVE DetectInv'
  <2>1. baud = PARMSET_9600 /\ level = MODE_NORMAL /\ out = SubSeq(Setup, k + 1, 6)
    BY <1>6 DEF SetUp
  <2>2. k \in 0..5
    BY <1>3, <1>6, <2>1, SetupDone
  <2>3. /\ Head(out) = Setup[k + 1] /\ out' = SubSeq(Setup, (k + 1) + 1, 6)
        /\ Setup[k + 1] \in (IF k = 0 THEN {193} ELSE {23, 69, 91, 15, 145})
    BY <1>3, <2>1, <2>2, SetupRest
  <2>4. CASE k = 0
    <3>1. mode = "timing" /\ in = <<>>
      BY <1>6, <2>4 DEF SetUp
    <3>2. mode' = "command" /\ UNCHANGED <<baud, level, in>>
      BY <1>2, <2>1, <3>1, TakeAny
    <3>3. SetUp(1)'
      BY <2>1, <2>3, <2>4, <3>1, <3>2 DEF SetUp
    <3> QED
      BY <1>1, <1>2, <3>3 DEF DetectInv
  <2>5. CASE k # 0
    <3>1. mode = "command" /\ Len(in) = k - 1
      BY <1>6, <2>5 DEF SetUp
    <3>2. Command(Head(out))
      BY <1>2, <2>1, <3>1 DEF Take
    <3>3. /\ mode' = "command" /\ UNCHANGED <<baud, level>>
          /\ \E a \in Byte : in' = Append(in, a)
      BY <2>3, <2>5, <3>2, CommandSetup
    <3>4. Len(in') = k
      BY <3>1, <3>3, Lengths, <2>2
    <3>5. SetUp(k + 1)' /\ k + 1 \in 0..6
      BY <2>1, <2>2, <2>3, <2>5, <3>3, <3>4 DEF SetUp
    <3> QED
      BY <1>1, <1>2, <3>5 DEF DetectInv
  <2> QED
    BY <2>4, <2>5
<1> QED
  BY <1>4, <1>5, <1>6 DEF DetectInv, TooFew

LEMMA DetectFault ==
  ASSUME TypeOK, DetectInv, pc = "detect" /\ sent, Cut \/ Drop
  PROVE  DetectInv'
<1>1. UNCHANGED <<host, open, pc, back, sent, call, tries, adapter, UMode, UBaud, USpeed>>
  BY DEF Cut, Drop, host
<1>2. UMode = MODSEL_COMMAND /\ UBaud = PARMSET_9600 /\ USpeed = SPEEDSEL_FLEX
  BY DEF DetectInv
<1>3. SUFFICES TooFew'
  BY <1>1, <1>2 DEF DetectInv
<1>4. CASE Cut
  <2>1. PICK n \in 0..Len(in) : in' = SubSeq(in, 1, n)
    BY <1>4 DEF Cut
  <2>2. out' = <<>> /\ in' \in Seq(Byte) /\ Len(in') = n /\ Len(out') = 0
    BY <1>4, <2>1, Lengths DEF Cut
  <2>3. n = Len(in) => in' = in
    <3>1. ASSUME n = Len(in) PROVE \A i \in 1..Len(in) : in'[i] = in[i]
      BY <2>1, <2>2, <3>1, Lengths
    <3> QED
      BY <2>2, <3>1, Lengths, SeqEqual
  <2>4. CASE Len(in) <= 4
    BY <2>2, <2>4, Lengths DEF TooFew
  <2>5. ASSUME NEW k \in 0..6, SetUp(k), ~(Len(in) <= 4) PROVE n # Len(in) /\ Len(in) = 5
    <3>1. k # 0 /\ Len(in) = k - 1
      BY <2>5 DEF SetUp
    <3>2. k = 6 /\ Len(in) = 5
      BY <2>5, <3>1
    <3>3. out = <<>>
      BY <2>5, <3>2, SetupDone DEF SetUp
    <3> QED
      BY <1>4, <2>2, <2>3, <3>2, <3>3 DEF Cut, wire
  <2>6. CASE ~(Len(in) <= 4)
    <3>1. ~TooFew
      BY <2>6, Lengths DEF TooFew
    <3>2. n # Len(in) /\ Len(in) = 5
      BY <2>5, <2>6, <3>1 DEF DetectInv
    <3> QED
      BY <2>2, <3>2 DEF TooFew
  <2> QED
    BY <2>4, <2>6
<1>5. CASE Drop
  <2>1. out # <<>> /\ out' = Tail(out) /\ in' = in /\ Len(out') = Len(out) - 1
    BY <1>5, Lengths DEF Drop
  <2>2. CASE Len(in) + Len(out) <= 5
    BY <2>1, <2>2, Lengths DEF TooFew
  <2>3. ASSUME NEW k \in 0..6, SetUp(k), ~(Len(in) + Len(out) <= 5)
        PROVE mode = "timing" /\ level = MODE_NORMAL /\ in = <<>> /\ Len(out) = 6
    <3>1. out = SubSeq(Setup, k + 1, 6)
      BY <2>3 DEF SetUp
    <3>2. k \in 0..5
      BY <2>1, <2>3, <3>1, SetupDone
    <3>3. Len(out) = 6 - k
      BY <3>1, <3>2, SetupRest
    <3>4. k = 0
      BY <2>3, <3>2, <3>3 DEF SetUp
    <3> QED
      BY <2>3, <3>3, <3>4 DEF SetUp
  <2>4. CASE ~(Len(in) + Len(out) <= 5)
    <3>1. ~TooFew
      <4>1. in = <<>> /\ Len(out) = 5 => Len(in) + Len(out) = 5
        BY Lengths
      <4>2. ~(Len(in) + Len(out) <= 4)
        BY <2>4, Lengths
      <4> QED
        BY <2>4, <4>1, <4>2 DEF TooFew
    <3>2. mode = "timing" /\ level = MODE_NORMAL /\ in = <<>> /\ Len(out) = 6
      BY <2>3, <2>4, <3>1 DEF DetectInv
    <3> QED
      BY <1>1, <2>1, <3>2 DEF TooFew, adapter
  <2> QED
    BY <2>2, <2>4
<1> QED
  BY <1>4, <1>5

LEMMA DetectTry == ASSUME DS2480Try PROVE DetectInv'
<1>1. UMode' = MODSEL_COMMAND /\ UBaud' = PARMSET_9600 /\ USpeed' = SPEEDSEL_FLEX /\ in' = <<>>
  BY DEF DS2480Try, ResetModes, SetBaudCOM
<1>2. CASE Break /\ out' = Setup
  <2>1. Setup = SubSeq(Setup, 0 + 1, 6)
    <3>1. Setup \in Seq(Byte) /\ Len(Setup) = 6
      BY SetupIs DEF Byte
    <3>2. SubSeq(Setup, 1, 6) \in Seq(Byte) /\ Len(SubSeq(Setup, 1, 6)) = 6
          /\ \A i \in 1..6 : SubSeq(Setup, 1, 6)[i] = Setup[i]
      BY <3>1, SetupIs
    <3> QED
      BY <3>1, <3>2, SeqEqual
  <2>2. SetUp(0)'
    BY <1>1, <1>2, <2>1 DEF SetUp, Break
  <2> QED
    BY <1>1, <2>2 DEF DetectInv
<1>3. CASE out' = <<>>
  <2>1. TooFew'
    BY <1>1, <1>3 DEF TooFew
  <2> QED
    BY <1>1, <2>1 DEF DetectInv
<1> QED
  BY <1>2, <1>3 DEF DS2480Try

LEMMA DetectNext == ASSUME TypeOK, CallInv, DetectInv, [Next]_vars PROVE DetectInv'
<1>1. CASE UNCHANGED vars \/ Quiet
  BY <1>1 DEF vars, Quiet, DetectInv, TooFew, SetUp, host, wire, adapter
<1>2. CASE Take \/ Cut \/ Drop
  <2>1. CASE pc = "detect" /\ sent
    BY <1>2, <2>1, DetectTake, DetectFault
  <2>2. CASE ~(pc = "detect" /\ sent)
    BY <1>2, <2>2 DEF DetectInv, Take, Cut, Drop
  <2> QED
    BY <2>1, <2>2
<1>3. CASE DS2480Try
  BY <1>3, DetectTry
<1>5. CASE Call
  BY <1>5 DEF Call, CallAccess, CallBlock, CallTouch, CallPower, CallLevel, CallSpeed,
     FromNormal, FromAnyLevel, Begin, GoTo, DetectInv
<1>6. CASE Send
  BY <1>6, Places DEF Send, DetectInv
<1>7. CASE \/ WriteFails \/ NoAnswer \/ owLevelNormal \/ owTouchReset \/ Touch \/ owLevelStrong
           \/ owWriteBytePower \/ owReadBitPower \/ DS2480ChangeBaud \/ BaudRead \/ SpeedSent
  BY <1>7 DEF WriteFails, NoAnswer, owLevelNormal, owTouchReset, Touch, owLevelStrong,
     owWriteBytePower, owReadBitPower, DS2480ChangeBaud, BaudRead, SpeedSent,
     Return, GoOn, Resync, GoTo, DetectInv
<1>8. CASE Detected \/ TryAgain \/ NotDetected \/ owAcquire \/ owRelease \/ Killed
  BY <1>8 DEF Detected, TryAgain, NotDetected, owAcquire, owRelease, Killed, Return, GoOn,
     Exit, GoTo, DetectInv
<1> QED
  BY <1>1, <1>2, <1>3, <1>5, <1>6, <1>7, <1>8 DEF Next, Host

-----------------------------------------------------------------------------
(* From a packet that is written to one that the adapter has taken.         *)

\* What a packet is depends on the call and the speed only.
LEMMA Same ==
  ASSUME UNCHANGED <<pc, arg, tran_buf, USpeed>>
  PROVE  /\ Packet' = Packet /\ Need' = Need /\ PowerBits' = PowerBits /\ Block' = Block
         /\ Mode' = Mode /\ NewBaud' = NewBaud /\ (AtPacket <=> AtPacket')
<1>1. PowerBits' = PowerBits
  BY DEF PowerBits, Bits
<1>2. NewBaud' = NewBaud
  BY DEF NewBaud
<1>3. Packet' = Packet
  BY <1>1, <1>2 DEF Packet
<1> QED
  BY <1>1, <1>2, <1>3 DEF Need, Block, Mode, AtPacket

LEMMA OneMore ==
  ASSUME NEW a \in Byte, NEW s \in Seq(Byte)
  PROVE  <<a>> \o s # <<>> /\ Head(<<a>> \o s) = a /\ Tail(<<a>> \o s) = s
<1>1. <<a>> \in Seq(Byte) /\ Len(<<a>>) = 1 /\ <<a>>[1] = a
  OBVIOUS
<1>2. /\ <<a>> \o s \in Seq(Byte) /\ Len(<<a>> \o s) = 1 + Len(s) /\ (<<a>> \o s)[1] = a
      /\ \A i \in 1..Len(s) : (<<a>> \o s)[i + 1] = s[i]
  <2>1. /\ <<a>> \o s \in Seq(Byte) /\ Len(<<a>> \o s) = Len(<<a>>) + Len(s)
        /\ \A i \in 1..Len(<<a>>) + Len(s) :
             (<<a>> \o s)[i] = IF i <= Len(<<a>>) THEN <<a>>[i] ELSE s[i - Len(<<a>>)]
    BY <1>1, ConcatProperties
  <2>2. Len(s) \in Nat
    OBVIOUS
  <2>3. \A i \in 1..1 + Len(s) : (<<a>> \o s)[i] = IF i <= 1 THEN <<a>>[i] ELSE s[i - 1]
    BY <1>1, <2>1
  <2>4. (<<a>> \o s)[1] = a
    <3>1. 1 \in 1..1 + Len(s)
      BY <2>2
    <3> QED
      BY <1>1, <2>3, <3>1
  <2>5. ASSUME NEW i \in 1..Len(s) PROVE (<<a>> \o s)[i + 1] = s[i]
    <3>1. i + 1 \in 1..1 + Len(s) /\ ~(i + 1 <= 1) /\ (i + 1) - 1 = i
      BY <2>2
    <3> QED
      BY <2>3, <3>1
  <2> QED
    BY <1>1, <2>1, <2>4, <2>5
<1> DEFINE c == <<a>> \o s
<1>3. c \in Seq(Byte) /\ Len(c) = 1 + Len(s) /\ c[1] = a /\ \A i \in 1..Len(s) : c[i + 1] = s[i]
  BY <1>2
<1> HIDE DEF c
<1>4. c # <<>>
  BY <1>3
<1>5. /\ Head(c) = c[1] /\ Tail(c) \in Seq(Byte) /\ Len(Tail(c)) = Len(c) - 1
      /\ \A i \in 1..Len(Tail(c)) : Tail(c)[i] = c[i + 1]
  BY <1>3, <1>4, HeadTailProperties
<1>6. Tail(c) = s
  <2>1. Len(Tail(c)) = Len(s)
    BY <1>3, <1>5
  <2> QED
    BY <1>3, <1>5, <2>1, SeqEqual
<1>7. c # <<>> /\ Head(c) = a /\ Tail(c) = s
  BY <1>3, <1>4, <1>5, <1>6
<1> QED
  BY <1>7 DEF c

LEMMA ModeBytes == {MODE_DATA, MODE_COMMAND, MODE_STOP_PULSE} \subseteq Byte
  BY DEF Byte, MODE_DATA, MODE_COMMAND, MODE_STOP_PULSE

\* The call that is at a packet has the arguments it needs.
LEMMA AtPlace ==
  ASSUME TypeOK, CallInv, AtPacket
  PROVE  /\ arg \in Byte /\ tran_buf \in Seq(Byte) /\ USpeed \in {SPEEDSEL_FLEX, SPEEDSEL_OD}
         /\ Block \in Seq(Byte) /\ (pc \in {"byte", "block"} => Len(Block) \in Nat \ {0})
         /\ pc \in {"bit", "sample", "baud", "readbaud"} => arg \in {0, 1}
         /\ pc \in Commands \/ pc \in {"byte", "block"}
         /\ pc = "byte" => Need = 1 /\ Len(Block) = 1
         /\ pc = "block" => Need = Len(tran_buf)
         /\ Need \in Nat /\ (pc \notin {"baud", "speed"} => Need > 0)
<1>1. arg \in Byte /\ tran_buf \in Seq(Byte) /\ USpeed \in {SPEEDSEL_FLEX, SPEEDSEL_OD}
  BY DEF CallInv, Byte, AtPacket, Packets, Commands
<1>2. /\ pc = "block" => op \in {"access", "block"}
      /\ pc \in {"bit", "sample", "baud", "readbaud"} => op \in {"bit", "sample", "speed"}
  BY DEF CallInv, PlacesOf, AtPacket, Packets, Commands
<1>3. pc = "block" => tran_buf # <<>>
  BY <1>2 DEF CallInv
<1>4. tran_buf # <<>> => Len(tran_buf) \in Nat \ {0}
  BY <1>1
<1>5. Block \in Seq(Byte) /\ (pc \in {"byte", "block"} => Len(Block) \in Nat \ {0})
  BY <1>1, <1>3, <1>4 DEF Block
<1>6. pc \in Commands \/ pc \in {"byte", "block"}
  BY DEF AtPacket, Packets
<1>7. Need \in Nat /\ (pc \notin {"baud", "speed"} => Need > 0)
  BY <1>3, <1>4, Link DEF Need, AtPacket
<1>8. pc = "byte" => Need = 1 /\ Len(Block) = 1
  BY DEF Need, Block
<1> QED
  BY <1>1, <1>2, <1>5, <1>6, <1>7, <1>8 DEF CallInv, Need

\* No byte of these packets stops a pulse.
LEMMA NoStop ==
  ASSUME TypeOK, CallInv, AtPacket, pc \in {"power", "sample", "baud"}
  PROVE  \A i \in DOMAIN Packet : Packet[i] # MODE_STOP_PULSE
<1>1. arg \in Byte /\ USpeed \in {SPEEDSEL_FLEX, SPEEDSEL_OD}
  BY AtPlace
<1>2. TimeLimit # MODE_STOP_PULSE
  BY <1>1, OtherBytes DEF MODE_STOP_PULSE
<1>3. CASE pc = "power"
  <2>1. PowerBits \in Seq(Byte) /\ Len(PowerBits) = Width
    BY <1>1, PowerBitsTyped
  <2>2. ASSUME NEW i \in 1..Width PROVE PowerBits[i] # MODE_STOP_PULSE
    <3>1. Bits(arg)[i] \in {0, 1}
      BY <1>1, BitsAre
    <3>2. Comm(Bit, Bits(arg)[i], USpeed) + (IF i = Width THEN Prime5V ELSE 0)
            \notin {MODE_DATA, MODE_COMMAND, MODE_STOP_PULSE}
      BY <1>1, <3>1, BitBytes
    <3> QED
      BY <3>2 DEF PowerBits
  <2>3. <<TimeLimit>> \in Seq(Byte) /\ Len(<<TimeLimit>>) = 1
    BY <1>1, OtherBytes DEF Byte
  <2>4. /\ Len(<<TimeLimit>> \o PowerBits) = 1 + Width /\ <<TimeLimit>> \o PowerBits \in Seq(Byte)
        /\ \A i \in 1..1 + Width :
             (<<TimeLimit>> \o PowerBits)[i] = IF i <= 1 THEN TimeLimit ELSE PowerBits[i - 1]
    BY <2>1, <2>3, ConcatProperties
  <2>5. ASSUME NEW i \in 1..1 + Width PROVE (<<TimeLimit>> \o PowerBits)[i] # MODE_STOP_PULSE
    <3>1. i <= 1 \/ i - 1 \in 1..Width
      BY Link
    <3> QED
      BY <1>2, <2>2, <2>4, <3>1
  <2>6. DOMAIN (<<TimeLimit>> \o PowerBits) = 1..1 + Width
    BY <2>4
  <2> QED
    BY <1>3, <2>5, <2>6 DEF Packet
<1>4. CASE pc = "sample"
  <2>1. Comm(Bit, 1, USpeed) + Prime5V # MODE_STOP_PULSE
    BY <1>1, BitBytes
  <2> QED
    BY <1>2, <1>4, <2>1 DEF Packet
<1>5. CASE pc = "baud"
  <2>1. Config(BaudRate, NewBaud) # MODE_STOP_PULSE
    BY <1>1, OtherBytes DEF MODE_STOP_PULSE, NewBaud
  <2> QED
    BY <1>5, <2>1 DEF Packet
<1> QED
  BY <1>3, <1>4, <1>5

\* Before anything has been taken of it.
LEMMA WholeBlock ==
  ASSUME TypeOK, CallInv, AtPacket, pc \in {"byte", "block"}
  PROVE  0 \in 0..Len(Block) /\ Packet = Doubled(SubSeq(Block, 0 + 1, Len(Block)))
<1>1. Block \in Seq(Byte) /\ Len(Block) \in Nat /\ 0 \in 0..Len(Block)
  BY AtPlace
<1>2. SubSeq(Block, 1, Len(Block)) = Block
  <2>1. \A i \in 1..Len(Block) : Block[i] \in Byte
    BY <1>1, ElementOfSeq
  <2>2. /\ SubSeq(Block, 1, Len(Block)) \in Seq(Byte)
        /\ Len(SubSeq(Block, 1, Len(Block))) = Len(Block)
        /\ \A i \in 1..Len(Block) : SubSeq(Block, 1, Len(Block))[i] = Block[i]
    BY <1>1, <2>1, SubSeqProperties
  <2> QED
    BY <1>1, <2>2, SeqEqual
<1>3. Packet = Doubled(Block)
  BY DEF Packet, Block
<1>4. 0 + 1 = 1
  OBVIOUS
<1> QED
  BY <1>1, <1>2, <1>3, <1>4

\* The block is on its way to an adapter that takes data.
LEMMA DataSent ==
  ASSUME TypeOK, CallInv, AtPacket, pc \in {"byte", "block"},
         UNCHANGED <<pc, arg, tran_buf, USpeed>>, out' = Packet, in' = <<>>, seen' = <<>>,
         mode' = "data", Listens', UMode' = MODSEL_DATA
  PROVE  TakenData'
<1>1. 0 \in 0..Len(Block) /\ Packet = Doubled(SubSeq(Block, 0 + 1, Len(Block)))
  BY WholeBlock
<1>2. Block' = Block
  BY Same
<1>3. seen' = [i \in 1..0 |-> <<"byte", Block[i], in'[i]>>] /\ Len(in') = 0
  OBVIOUS
<1>4. Taken(Block, 0)'
  BY <1>1, <1>2, <1>3 DEF Taken
<1> QED
  BY <1>1, <1>2, <1>4 DEF TakenData

LEMMA SendLink ==
  ASSUME TypeOK, CallInv, LinkInv, Send
  PROVE  LinkInv'
<1>1. /\ AtPacket /\ AtPacket' /\ ~sent /\ sent' = TRUE /\ UMode' = Mode
      /\ out' = SwitchTo(Mode) \o Packet /\ in' = <<>> /\ seen' = <<>> /\ pc # "idle"
      /\ UNCHANGED <<UBaud, USpeed, ULevel, pc, op, arg, tran_buf, mode, baud, level, doubt>>
  BY Places DEF Send, AtPacket, call, adapter
<1>2. SUFFICES ASSUME Ready PROVE Underway'
  BY <1>1 DEF LinkInv
<1>3. /\ Packet' = Packet /\ Mode' = Mode /\ Packet \in Seq(Byte) /\ (TypeOK /\ CallInv)'
      /\ Mode = (IF pc \in Commands THEN MODSEL_COMMAND ELSE MODSEL_DATA)
      /\ pc \in Commands \/ pc \in {"byte", "block"}
  BY <1>1, Same, PacketTyped, SendHost, AtPlace DEF Mode
<1>4. (SwitchTo(Mode) = <<>> /\ out' = Packet) \/ UMode # Mode
  BY <1>1, <1>3, ConcatEmptySeq DEF SwitchTo
<1>5. CASE pc = "readbaud" /\ baud # UBaud
  BY <1>1, <1>5 DEF Underway, Deaf
<1>6. ASSUME InStep, level = MODE_STRONG5, mode = "command"
      PROVE  Underway'
  <2>1. UMode = MODSEL_COMMAND /\ baud = UBaud /\ pc \in Commands
    BY <1>2, <1>3, <1>6 DEF InStep, Ready, Commands, MODSEL_DATA, MODSEL_COMMAND, TypeOK, MODE_NORMAL,
       MODE_STRONG5
  <2>2. out' = Packet
    BY <1>3, <1>4, <2>1
  <2>3. pc \in {"normal", "power", "sample", "baud"}
    BY <1>2, <1>6, <2>1 DEF Ready, Commands, MODE_NORMAL, MODE_STRONG5, InStep
  <2>4. CASE pc = "normal"
    BY <1>1, <1>6, <2>1, <2>2, <2>4 DEF Underway, Stopping, Packet
  <2>5. CASE pc # "normal"
    <3>1. \A i \in DOMAIN Packet : Packet[i] # MODE_STOP_PULSE
      BY <1>1, <2>3, <2>5, NoStop
    <3>2. Swallowed'
      BY <1>1, <1>6, <2>1, <2>2, <2>3, <2>5, <3>1 DEF Swallowed
    <3> QED
      BY <3>2 DEF Underway
  <2> QED
    BY <2>4, <2>5
<1>7. ASSUME InStep, level = MODE_NORMAL, pc # "speed" PROVE Underway'
  <2>1. Listens'
    BY <1>1, <1>7 DEF Listens, InStep
  <2>2. CASE UMode # Mode
    <3>1. CASE Mode = MODSEL_DATA
      <4>1. mode = "command" /\ SwitchTo(Mode) = <<MODE_DATA>>
        BY <1>7, <2>2, <3>1 DEF InStep, SwitchTo
      <4>2. Prefixed'
        BY <1>1, <1>3, <1>7, <2>1, <3>1, <4>1 DEF Prefixed
      <4> QED
        BY <4>2 DEF Underway
    <3>2. CASE Mode # MODSEL_DATA
      <4>1. UMode = MODSEL_DATA
        BY <1>3, <2>2, <3>2 DEF TypeOK
      <4>2. mode = "data" /\ SwitchTo(Mode) = <<MODE_COMMAND>>
        BY <1>7, <2>2, <3>2, <4>1 DEF InStep, SwitchTo
      <4>3. Prefixed'
        BY <1>1, <1>3, <1>7, <2>1, <3>2, <4>2 DEF Prefixed
      <4> QED
        BY <4>3 DEF Underway
    <3> QED
      BY <3>1, <3>2
  <2>3. CASE UMode = Mode
    <3>1. out' = Packet
      BY <1>4, <2>3
    <3>2. CASE pc \in Commands
      <4>1. UMode' = MODSEL_COMMAND /\ mode = "command"
        BY <1>1, <1>3, <1>7, <2>3, <3>2 DEF InStep, MODSEL_DATA, MODSEL_COMMAND
      <4>2. Begun'
        BY <1>1, <1>3, <1>7, <2>1, <3>1, <4>1 DEF Begun
      <4> QED
        BY <4>2 DEF Underway
    <3>3. CASE pc \in {"byte", "block"}
      <4>1. UMode' = MODSEL_DATA /\ mode = "data"
        BY <1>1, <1>3, <1>7, <2>3, <3>3 DEF InStep, MODSEL_DATA, MODSEL_COMMAND, Commands
      <4>2. TakenData'
        BY <1>1, <1>7, <2>1, <3>1, <3>3, <4>1, DataSent
      <4> QED
        BY <4>2 DEF Underway
    <3> QED
      BY <1>3, <3>2, <3>3
  <2> QED
    BY <2>2, <2>3
<1>8. CASE pc = "speed"
  <2>1. level = MODE_NORMAL /\ mode = "command" /\ UMode = MODSEL_COMMAND /\ baud = UBaud
    BY <1>2, <1>8 DEF Ready, InStep, TypeOK, MODSEL_DATA, MODSEL_COMMAND
  <2>2. out' = <<Comm(SearchOff, 0, USpeed)>> /\ UMode' = MODSEL_COMMAND
    BY <1>1, <1>3, <1>4, <1>8, <2>1 DEF Packet, Commands
  <2>3. Speeding'
    BY <1>1, <1>8, <2>1, <2>2 DEF Speeding, Listens, Obeyed
  <2> QED
    BY <2>3 DEF Underway
<1> QED
  <2>1. level = MODE_NORMAL \/ level = MODE_STRONG5
    BY DEF TypeOK
  <2> QED
    BY <1>2, <1>5, <1>6, <1>7, <1>8, <2>1 DEF Ready, MODE_NORMAL, MODE_STRONG5

\* What the adapter leaves alone when it takes a byte.
LEMMA TakeSame ==
  ASSUME TypeOK, Take
  PROVE  /\ UNCHANGED <<UMode, UBaud, USpeed, ULevel, pc, sent, op, arg, tran_buf, ret, doubt>>
         /\ Packet' = Packet /\ Need' = Need /\ PowerBits' = PowerBits /\ Block' = Block
         /\ Mode' = Mode /\ NewBaud' = NewBaud /\ (AtPacket <=> AtPacket')
         /\ out # <<>> /\ out' = Tail(out)
<1>1. /\ UNCHANGED <<UMode, UBaud, USpeed, ULevel, pc, sent, op, arg, tran_buf, ret, doubt>>
      /\ out # <<>> /\ out' = Tail(out)
  BY TakeAny DEF host, call
<1> QED
  BY <1>1, Same

\* What a byte does in each mode, at the right speed and out of a pulse.
LEMMA TakeMode ==
  ASSUME Take, Listens
  PROVE  /\ mode = "command" => Command(Head(out))
         /\ mode = "check" /\ Head(out) # MODE_COMMAND => Command(Head(out))
         /\ mode = "check" /\ Head(out) = MODE_COMMAND => mode' = "data" /\ DataByte(Head(out))
         /\ mode = "data" /\ Head(out) # MODE_COMMAND => mode' = "data" /\ DataByte(Head(out))
         /\ mode = "data" /\ Head(out) = MODE_COMMAND =>
              mode' = "check" /\ UNCHANGED <<baud, level, seen, in>>
  BY DEF Take, Listens

LEMMA TakeSwallowed ==
  ASSUME TypeOK, Take, Swallowed
  PROVE  Swallowed'
<1>1. /\ out # <<>> /\ out' = Tail(out) /\ out \in Seq(Byte)
      /\ UNCHANGED <<UBaud, pc>>
  BY TakeSame, Lengths
<1>2. Head(out) = out[1] /\ 1 \in DOMAIN out
  BY <1>1
<1>3. InPulse(Head(out)) /\ Head(out) # MODE_STOP_PULSE
  BY <1>1, <1>2 DEF Swallowed, Take, MODE_NORMAL, MODE_STRONG5
<1>4. UNCHANGED <<level, in, mode, baud>>
  BY <1>3 DEF InPulse
<1>5. \A i \in DOMAIN out' : out'[i] # MODE_STOP_PULSE
  <2>1. /\ out' \in Seq(Byte) /\ Len(out') = Len(out) - 1
        /\ \A i \in 1..Len(out') : out'[i] = out[i + 1]
    BY <1>1, HeadTailProperties
  <2>2. \A i \in DOMAIN out' : i + 1 \in DOMAIN out /\ i \in 1..Len(out')
    BY <1>1, <2>1
  <2> QED
    BY <2>1, <2>2 DEF Swallowed
<1> QED
  BY <1>1, <1>4, <1>5 DEF Swallowed

LEMMA TakeStopping ==
  ASSUME TypeOK, Take, Stopping, UMode = MODSEL_COMMAND
  PROVE  TakenOne'
<1>1. /\ out' = Tail(out) /\ UNCHANGED <<UMode, UBaud, pc>>
  BY TakeSame
<1>2. Head(out) = MODE_STOP_PULSE /\ Tail(out) = <<>>
  BY DEF Stopping
<1>3. InPulse(MODE_STOP_PULSE)
  BY <1>2 DEF Stopping, Take, MODE_NORMAL, MODE_STRONG5
<1>4. level' = MODE_NORMAL /\ in' = <<236>> /\ UNCHANGED <<mode, baud>>
  BY <1>3 DEF InPulse, Echo, Stopping
<1> QED
  BY <1>1, <1>2, <1>4 DEF TakenOne, Obeyed, Stopping

LEMMA TakePrefixed ==
  ASSUME TypeOK, CallInv, AtPacket, sent, Take, Prefixed
  PROVE  Begun' \/ TakenData'
<1>1. /\ UNCHANGED <<UMode, UBaud, USpeed, pc, arg, tran_buf>>
      /\ Packet' = Packet /\ out' = Tail(out) /\ Packet \in Seq(Byte)
      /\ UMode = Mode
  BY TakeSame, PacketTyped DEF CallInv
<1>2. CASE UMode = MODSEL_DATA
  <2>1. pc \in {"byte", "block"}
    BY <1>1, <1>2, AtPlace DEF Mode, MODSEL_DATA, MODSEL_COMMAND
  <2>2. Head(out) = MODE_DATA /\ out' = Packet /\ mode = "command" /\ Listens
    BY <1>1, <1>2, OneMore, ModeBytes DEF Prefixed
  <2>3. Command(MODE_DATA)
    BY <2>2, TakeMode
  <2>4. mode' = "data" /\ UNCHANGED <<baud, level, seen, in>>
    BY <2>3, CommandData
  <2>5. Listens' /\ in' = <<>> /\ seen' = <<>>
    BY <1>1, <2>4 DEF Prefixed, Listens
  <2> QED
    BY <1>1, <1>2, <2>1, <2>2, <2>4, <2>5, DataSent
<1>3. CASE UMode # MODSEL_DATA
  <2>1. UMode = MODSEL_COMMAND
    BY <1>3 DEF TypeOK
  <2>2. Head(out) = MODE_COMMAND /\ out' = Packet /\ mode = "data" /\ Listens
    BY <1>1, <1>3, OneMore, ModeBytes DEF Prefixed
  <2>3. mode' = "check" /\ UNCHANGED <<baud, level, seen, in>>
    BY <2>2, TakeMode
  <2> QED
    BY <1>1, <2>1, <2>2, <2>3 DEF Prefixed, Begun, Listens
<1> QED
  BY <1>2, <1>3

\* The first byte of each command.
LEMMA FirstOf ==
  ASSUME TypeOK, CallInv, AtPacket, pc \in Commands
  PROVE  /\ Packet # <<>> /\ Head(Packet) # MODE_COMMAND
         /\ Head(Packet) = CASE pc = "normal"   -> MODE_STOP_PULSE
                             [] pc = "reset"    -> Comm(Reset, 0, USpeed)
                             [] pc = "bit"      -> Comm(Bit, arg, USpeed) + 0
                             [] pc \in {"strong", "power", "sample"} -> 63
                             [] pc = "baud"     -> IF NewBaud = PARMSET_9600 THEN 113 ELSE 119
                             [] pc = "readbaud" -> 15
                             [] pc = "speed"    -> Comm(SearchOff, 0, USpeed)
         /\ Tail(Packet) = CASE pc = "strong" -> <<Comm(Chmod, 0, 12)>>
                             [] pc = "power"  -> PowerBits
                             [] pc = "sample" -> <<Comm(Bit, 1, USpeed) + Prime5V>>
                             [] OTHER         -> <<>>
<1>1. arg \in Byte /\ USpeed \in {SPEEDSEL_FLEX, SPEEDSEL_OD} /\ (pc = "bit" => arg \in {0, 1})
  BY AtPlace
<1>2. /\ Comm(Reset, 0, USpeed) \in {197, 201} /\ Comm(SearchOff, 0, USpeed) \in {165, 169}
      /\ TimeLimit = 63 /\ Config(ParmRead, BaudRate * 2) = 15
      /\ Config(BaudRate, PARMSET_9600) = 113 /\ Config(BaudRate, PARMSET_115200) = 119
  BY <1>1, OtherBytes
<1>3. CASE pc = "bit"
  <2>1. Comm(Bit, arg, USpeed) + 0 # MODE_COMMAND /\ Comm(Bit, arg, USpeed) + 0 = Comm(Bit, arg, USpeed)
    <3>1. Comm(Bit, arg, USpeed) + 0 # MODE_COMMAND
      BY <1>1, <1>3, BitBytes
    <3>2. Comm(Bit, arg, USpeed) \in Int
      BY <1>1, <1>3 DEF Comm, Bit, SPEEDSEL_FLEX, SPEEDSEL_OD
    <3> QED
      BY <3>1, <3>2
  <2> QED
    BY <1>3, <2>1 DEF Packet
<1>4. CASE pc = "power"
  <2>1. PowerBits \in Seq(Byte) /\ TimeLimit \in Byte
    BY <1>1, <1>2, PowerBitsTyped DEF Byte
  <2>2. Packet = <<TimeLimit>> \o PowerBits
    BY <1>4 DEF Packet
  <2> QED
    BY <1>2, <1>4, <2>1, <2>2, OneMore DEF MODE_COMMAND
<1>5. CASE pc = "baud"
  <2>1. Config(BaudRate, NewBaud) = IF NewBaud = PARMSET_9600 THEN 113 ELSE 119
    BY <1>2 DEF NewBaud
  <2> QED
    BY <1>5, <2>1 DEF Packet, MODE_COMMAND
<1>6. CASE pc \in {"normal", "reset", "strong", "sample", "readbaud", "speed"}
  <2> USE DEF Packet, MODE_COMMAND, MODE_STOP_PULSE
  <2>1. CASE pc = "normal"
    BY <2>1
  <2>2. CASE pc = "reset"
    BY <1>2, <2>2
  <2>3. CASE pc = "strong"
    <3>1. Packet = <<TimeLimit, Comm(Chmod, 0, 12)>>
      BY <2>3
    <3> QED
      BY <1>2, <2>3, <3>1
  <2>4. CASE pc = "sample"
    <3>1. Packet = <<TimeLimit, Comm(Bit, 1, USpeed) + Prime5V>>
      BY <2>4
    <3> QED
      BY <1>2, <2>4, <3>1
  <2>5. CASE pc = "readbaud"
    BY <1>2, <2>5
  <2>6. CASE pc = "speed"
    BY <1>2, <2>6
  <2> QED
    BY <1>6, <2>1, <2>2, <2>3, <2>4, <2>5, <2>6
<1> QED
  BY <1>3, <1>4, <1>5, <1>6 DEF Commands

LEMMA OneLonger ==
  ASSUME NEW k \in Nat, NEW s, s = [i \in 1..k |-> s[i]], NEW e
  PROVE  Append(s, e) = [i \in 1..k + 1 |-> IF i = k + 1 THEN e ELSE s[i]]
<1> DEFINE T == {s[i] : i \in 1..k} \cup {e}
<1>1. s \in Seq(T) /\ e \in T /\ Len(s) = k
  <2>1. \A i \in 1..k : s[i] \in T
    OBVIOUS
  <2> HIDE DEF T
  <2>2. s \in [1..k -> T]
    BY <2>1
  <2>3. s \in Seq(T) /\ Len(s) = k
    BY <2>2
  <2> QED
    BY <2>3 DEF T
<1> HIDE DEF T
<1>2. /\ Append(s, e) \in Seq(T) /\ Len(Append(s, e)) = k + 1
      /\ Append(s, e)[k + 1] = e /\ \A i \in 1..k : Append(s, e)[i] = s[i]
  BY <1>1
<1> DEFINE a == Append(s, e)
<1>3. a = [i \in 1..k + 1 |-> a[i]]
  BY <1>2
<1>4. \A i \in 1..k + 1 : a[i] = IF i = k + 1 THEN e ELSE s[i]
  BY <1>2
<1> HIDE DEF a
<1>5. a = [i \in 1..k + 1 |-> IF i = k + 1 THEN e ELSE s[i]]
  BY <1>3, <1>4
<1> QED
  BY <1>5 DEF a

LEMMA OnlyOne == \A x : Append(<<>>, x) = <<x>> /\ Len(<<x>>) = 1
  OBVIOUS

LEMMA TakeBegun ==
  ASSUME TypeOK, CallInv, AtPacket, sent, Take, Begun
  PROVE  Lost' \/ TakenOne' \/ TakenStrong' \/ TakenSample' \/ TakenPower'
<1>1. /\ UNCHANGED <<UMode, UBaud, USpeed, ULevel, pc, sent, op, arg, tran_buf, ret, doubt>>
      /\ PowerBits' = PowerBits /\ NewBaud' = NewBaud /\ Need' = Need
      /\ out' = Tail(Packet)
  BY TakeSame DEF Begun
<1>2. pc \in Commands /\ pc # "speed"
  BY AtPlace DEF Begun, CallInv, Mode, MODSEL_DATA, MODSEL_COMMAND
<1>3. /\ arg \in Byte /\ USpeed \in {SPEEDSEL_FLEX, SPEEDSEL_OD}
      /\ pc = "bit" => arg \in {0, 1}
  BY AtPlace
<1>4. Command(Head(Packet))
  BY <1>2, FirstOf, TakeMode DEF Begun
<1>5. in = <<>> /\ seen = <<>> /\ baud = UBaud /\ level = MODE_NORMAL /\ UMode' = MODSEL_COMMAND
  BY <1>1 DEF Begun, Listens
<1>6. CASE pc = "normal"
  <2>1. Command(MODE_STOP_PULSE) /\ out' = <<>>
    BY <1>1, <1>2, <1>4, <1>6, FirstOf
  <2>2. mode' = "command" /\ UNCHANGED <<baud, level, seen>> /\ (in' = in \/ in' = Append(in, 236))
    BY <2>1, CommandStop
  <2>3. CASE in' = <<>>
    BY <1>1, <1>6, <2>1, <2>3 DEF Lost, Need
  <2>4. CASE in' = Append(in, 236)
    <3>1. in' = <<236>>
      BY <1>5, <2>4, OnlyOne
    <3> QED
      BY <1>1, <1>5, <1>6, <2>1, <2>2, <3>1 DEF TakenOne, Obeyed
  <2> QED
    BY <1>5, <2>2, <2>3, <2>4
<1>7. CASE pc = "reset"
  <2>1. Command(Comm(Reset, 0, USpeed)) /\ out' = <<>>
    BY <1>1, <1>2, <1>4, <1>7, FirstOf
  <2>2. mode' = "command" /\ UNCHANGED <<baud, level>>
        /\ \E r \in 0..3 : in' = Append(in, 204 + r) /\ seen' = Append(seen, <<"reset", 0, r>>)
    BY <1>3, <2>1, CommandReset
  <2>3. PICK r \in 0..3 : in' = <<204 + r>> /\ seen' = <<<<"reset", 0, r>>>>
    BY <1>5, <2>2, OnlyOne
  <2>4. (\E q \in 0..3 : in = <<204 + q>> /\ seen = <<<<"reset", 0, q>>>>)'
    BY <2>3
  <2> QED
    BY <1>1, <1>5, <1>7, <2>1, <2>2, <2>4 DEF TakenOne, Obeyed
<1>8. CASE pc = "bit"
  <2>1. Command(Comm(Bit, arg, USpeed) + 0) /\ out' = <<>>
    BY <1>1, <1>2, <1>4, <1>8, FirstOf
  <2>2. 0 \in {0, Prime5V} /\ 0 # Prime5V
    BY DEF Prime5V
  <2>3. /\ mode' = "command" /\ UNCHANGED baud
        /\ level' = (IF 0 = Prime5V THEN MODE_STRONG5 ELSE level)
        /\ \E r \in {arg, 0} : /\ in' = Append(in, 128 + 16 * arg + USpeed + 3 * r)
                               /\ seen' = Append(seen, <<"bit", arg, r>>)
    BY <1>3, <1>8, <2>1, <2>2, CommandBit
  <2>4. PICK r \in {arg, 0} : /\ in' = <<128 + 16 * arg + USpeed + 3 * r>>
                              /\ seen' = <<<<"bit", arg, r>>>>
    BY <1>5, <2>3, OnlyOne
  <2>5. (\E q \in {arg, 0} :
           in = <<128 + 16 * arg + USpeed + 3 * q>> /\ seen = <<<<"bit", arg, q>>>>)'
    BY <1>1, <2>4
  <2> QED
    BY <1>1, <1>5, <1>8, <2>1, <2>2, <2>3, <2>5 DEF TakenOne, Obeyed
<1>9. CASE pc \in {"strong", "power", "sample"}
  <2>1. Command(63)
    BY <1>2, <1>4, <1>9, FirstOf
  <2>2. /\ mode' = "command" /\ UNCHANGED <<level, seen>> /\ in' = Append(in, 62) /\ baud' = baud
    BY <2>1, CommandConfig
  <2>3. in' = <<62>> /\ seen' = <<>> /\ level' = MODE_NORMAL /\ baud' = UBaud'
    BY <1>1, <1>5, <2>2, OnlyOne
  <2>4. CASE pc = "strong"
    <3>1. out' = <<Comm(Chmod, 0, 12)>>
      BY <1>1, <1>2, <2>4, FirstOf
    <3> QED
      BY <1>1, <1>5, <2>2, <2>3, <2>4, <3>1 DEF TakenStrong, Obeyed, Listens
  <2>5. CASE pc = "sample"
    <3>1. out' = <<Comm(Bit, 1, USpeed) + Prime5V>>
      BY <1>1, <1>2, <2>5, FirstOf
    <3> QED
      BY <1>1, <1>5, <2>2, <2>3, <2>5, <3>1 DEF TakenSample, Obeyed, Listens
  <2>6. CASE pc = "power"
    <3>1. out' = PowerBits
      BY <1>1, <1>2, <2>6, FirstOf
    <3>2. PowerBits = SubSeq(PowerBits, 0 + 1, Width)
      <4>1. PowerBits \in Seq(Byte) /\ Len(PowerBits) = Width
        BY <1>3, PowerBitsTyped
      <4>2. \A i \in 1..Width : PowerBits[i] \in Byte
        BY <4>1, ElementOfSeq
      <4>3. /\ SubSeq(PowerBits, 1, Width) \in Seq(Byte) /\ Len(SubSeq(PowerBits, 1, Width)) = Width
            /\ \A i \in 1..Width : SubSeq(PowerBits, 1, Width)[i] = PowerBits[i]
        BY <4>1, <4>2, Link, SubSeqProperties
      <4> QED
        BY <4>1, <4>3, SeqEqual
    <3>3. 0 \in 0..Width /\ 0 # Width
      BY Link
    <3>4. seen' = [i \in 1..0 |-> <<"bit", Bits(arg')[i], in'[i + 1] % 2>>] /\ Len(in') = 0 + 1
      BY <2>3
    <3>5. (/\ out = SubSeq(PowerBits, 0 + 1, Width)
           /\ level = (IF 0 = Width THEN MODE_STRONG5 ELSE MODE_NORMAL)
           /\ Len(in) = 0 + 1 /\ seen = [i \in 1..0 |-> <<"bit", Bits(arg)[i], in[i + 1] % 2>>])'
      BY <1>1, <2>3, <3>1, <3>2, <3>3, <3>4 DEF Bits
    <3>6. Obeyed' /\ pc' = "power"
      BY <1>1, <1>5, <2>2, <2>3, <2>6 DEF Obeyed
    <3> QED
      BY <3>3, <3>5, <3>6 DEF TakenPower
  <2> QED
    BY <1>9, <2>4, <2>5, <2>6
<1>10. CASE pc = "baud"
  <2>1. Command(IF NewBaud = PARMSET_9600 THEN 113 ELSE 119) /\ out' = <<>>
    BY <1>1, <1>2, <1>4, <1>10, FirstOf
  <2>2. PICK b \in {113, 119} : Command(b) /\ (b = 113 <=> NewBaud = PARMSET_9600)
    BY <2>1
  <2>3. /\ mode' = "command" /\ UNCHANGED <<level, seen>>
        /\ baud' = (IF b = 113 THEN PARMSET_9600 ELSE IF b = 119 THEN PARMSET_115200 ELSE baud)
    BY <2>2, CommandConfig
  <2>4. baud' = NewBaud
    BY <2>2, <2>3 DEF NewBaud
  <2> QED
    BY <1>1, <1>5, <1>10, <2>1, <2>3, <2>4 DEF TakenOne, Obeyed
<1>11. CASE pc = "readbaud"
  <2>1. Command(15) /\ out' = <<>>
    BY <1>1, <1>2, <1>4, <1>11, FirstOf
  <2>2. mode' = "command" /\ UNCHANGED <<level, seen>> /\ in' = Append(in, baud) /\ baud' = baud
    BY <2>1, CommandConfig
  <2>3. in' = <<baud'>>
    BY <1>5, <2>2, OnlyOne
  <2> QED
    BY <1>1, <1>5, <1>11, <2>1, <2>2, <2>3 DEF TakenOne, Obeyed
<1> QED
  BY <1>2, <1>6, <1>7, <1>8, <1>9, <1>10, <1>11 DEF Commands

LEMMA TakeData ==
  ASSUME TypeOK, CallInv, AtPacket, Take, TakenData
  PROVE  TakenData'
<1>1. /\ UNCHANGED <<UMode, UBaud, pc>> /\ Block' = Block
      /\ out # <<>> /\ out' = Tail(out)
      /\ Block \in Seq(Byte) /\ pc \in {"byte", "block"}
  BY TakeSame, AtPlace DEF TakenData
<1>2. PICK k \in 0..Len(Block) : Taken(Block, k)
  BY DEF TakenData
<1>3. /\ Listens /\ UMode = MODSEL_DATA /\ Len(in) = k /\ k \in Nat /\ Len(Block) \in Nat
      /\ seen = [i \in 1..k |-> <<"byte", Block[i], in[i]>>]
  BY <1>1, <1>2 DEF Taken
<1>4. /\ k # Len(Block) /\ Block[k + 1] \in Byte
      /\ Doubled(SubSeq(Block, k + 1, Len(Block))) =
           AsData(Block[k + 1]) \o Doubled(SubSeq(Block, k + 2, Len(Block)))
  <2>1. k # Len(Block)
    BY <1>1, <1>2, DoubledRest DEF Taken
  <2> QED
    BY <1>1, <2>1, DoubledRest
<1> DEFINE rest == Doubled(SubSeq(Block, k + 2, Len(Block)))
<1>5. rest \in Seq(Byte) /\ k + 1 \in 0..Len(Block) /\ (k + 1) + 1 = k + 2
  <2>1. k + 1 \in 0..Len(Block) /\ (k + 1) + 1 = k + 2
    BY <1>3, <1>4
  <2> QED
    BY <1>1, <2>1, DoubledRest
<1> HIDE DEF rest
<1>6. \/ mode = "data" /\ out = AsData(Block[k + 1]) \o rest
      \/ Block[k + 1] = MODE_COMMAND /\ mode = "check" /\ out = <<MODE_COMMAND>> \o rest
  BY <1>2, <1>4 DEF Taken, rest
\* A slot on the line, and its answer.
<1>7. ASSUME mode' = "data", DataByte(Block[k + 1]), out' = rest
      PROVE  TakenData'
  <2>1. PICK r : /\ r \in {Block[k + 1], 0} /\ seen' = Append(seen, <<"byte", Block[k + 1], r>>)
                 /\ in' = Append(in, r) /\ UNCHANGED <<baud, level>>
    BY <1>7 DEF DataByte, Slot, Echo
  <2>2. r \in Byte /\ in \in Seq(Byte)
    <3>1. 0 \in Byte
      BY DEF Byte
    <3> QED
      BY <1>4, <2>1, <3>1, Lengths
  <2>3. Len(in') = k + 1 /\ in'[k + 1] = r /\ \A i \in 1..k : in'[i] = in[i]
    BY <1>3, <2>1, <2>2
  <2>4. seen' = [i \in 1..k + 1 |-> IF i = k + 1 THEN <<"byte", Block[k + 1], r>> ELSE seen[i]]
    <3>1. seen = [i \in 1..k |-> seen[i]]
      BY <1>3
    <3> QED
      BY <1>3, <2>1, <3>1, OneLonger
  <2>5. seen' = [i \in 1..k + 1 |-> <<"byte", Block[i], in'[i]>>]
    <3>1. ASSUME NEW i \in 1..k + 1
          PROVE  (IF i = k + 1 THEN <<"byte", Block[k + 1], r>> ELSE seen[i])
                   = <<"byte", Block[i], in'[i]>>
      <4>1. CASE i = k + 1
        BY <2>3, <4>1
      <4>2. CASE i # k + 1
        <5>1. i \in 1..k
          BY <1>3, <4>2
        <5> QED
          BY <1>3, <2>3, <4>2, <5>1
      <4> QED
        BY <4>1, <4>2
    <3> QED
      BY <2>4, <3>1
  <2>6. Listens'
    BY <1>1, <1>3, <2>1 DEF Listens
  <2>7. out' = Doubled(SubSeq(Block, (k + 1) + 1, Len(Block)))
    BY <1>5, <1>7 DEF rest
  <2>8. Taken(Block, k + 1)'
    BY <1>1, <1>3, <1>7, <2>3, <2>5, <2>6, <2>7 DEF Taken
  <2> QED
    BY <1>1, <1>5, <2>8 DEF TakenData
<1>8. CASE mode = "data" /\ Block[k + 1] = MODE_COMMAND
  <2>1. out = <<MODE_COMMAND, MODE_COMMAND>> \o rest
    BY <1>6, <1>8 DEF AsData
  <2>2. /\ <<MODE_COMMAND, MODE_COMMAND>> \o rest = <<MODE_COMMAND>> \o (<<MODE_COMMAND>> \o rest)
        /\ <<MODE_COMMAND>> \o rest \in Seq(Byte)
    <3>1. <<MODE_COMMAND>> \in Seq(Byte)
      BY ModeBytes
    <3>2. <<MODE_COMMAND, MODE_COMMAND>> = <<MODE_COMMAND>> \o <<MODE_COMMAND>>
      OBVIOUS
    <3>3. (<<MODE_COMMAND>> \o <<MODE_COMMAND>>) \o rest = <<MODE_COMMAND>> \o (<<MODE_COMMAND>> \o rest)
          /\ <<MODE_COMMAND>> \o rest \in Seq(Byte)
      BY <1>5, <3>1, Regroup
    <3> QED
      BY <3>2, <3>3
  <2>3. Head(out) = MODE_COMMAND /\ out' = <<MODE_COMMAND>> \o rest
    BY <1>1, <2>1, <2>2, ModeBytes, OneMore
  <2>4. mode' = "check" /\ UNCHANGED <<baud, level, seen, in>>
    BY <1>3, <1>8, <2>3, TakeMode
  <2>5. Taken(Block, k)'
    <3>1. k < Len(Block)
      BY <1>3, <1>4
    <3>2. Listens'
      BY <1>1, <1>3, <2>4 DEF Listens
    <3> QED
      BY <1>1, <1>3, <1>8, <2>3, <2>4, <3>1, <3>2 DEF Taken, rest
  <2> QED
    BY <1>1, <1>3, <2>5 DEF TakenData
<1>9. CASE mode = "data" /\ Block[k + 1] # MODE_COMMAND
  <2>1. out = <<Block[k + 1]>> \o rest
    BY <1>6, <1>9 DEF AsData
  <2>2. Head(out) = Block[k + 1] /\ out' = rest
    BY <1>1, <1>4, <1>5, <2>1, OneMore
  <2>3. mode' = "data" /\ DataByte(Block[k + 1])
    BY <1>3, <1>9, <2>2, TakeMode
  <2> QED
    BY <1>7, <2>2, <2>3
<1>10. CASE mode = "check"
  <2>1. Block[k + 1] = MODE_COMMAND /\ out = <<MODE_COMMAND>> \o rest
    BY <1>6, <1>10
  <2>2. Head(out) = MODE_COMMAND /\ out' = rest
    BY <1>1, <1>5, <2>1, ModeBytes, OneMore
  <2>3. mode' = "data" /\ DataByte(Block[k + 1])
    BY <1>3, <1>10, <2>1, <2>2, TakeMode
  <2> QED
    BY <1>7, <2>2, <2>3
<1> QED
  BY <1>6, <1>8, <1>9, <1>10

LEMMA TakeStrong ==
  ASSUME TypeOK, CallInv, AtPacket, Take, TakenStrong
  PROVE  TakenStrong'
<1>1. UNCHANGED <<UMode, UBaud, pc>> /\ out # <<>> /\ out' = Tail(out)
  BY TakeSame
<1>2. Listens /\ out = <<Comm(Chmod, 0, 12)>> /\ in = <<62>> /\ mode = "command"
  BY <1>1 DEF TakenStrong, Obeyed
<1>3. Command(Comm(Chmod, 0, 12)) /\ out' = <<>>
  BY <1>1, <1>2, TakeMode
<1>4. mode' = "command" /\ UNCHANGED <<baud, seen, in>>
  BY <1>3, CommandPulse
<1>5. Obeyed' /\ Len(in') = 1
  BY <1>1, <1>2, <1>4 DEF TakenStrong, Obeyed
<1> QED
  BY <1>1, <1>3, <1>5 DEF TakenStrong

LEMMA LowBit ==
  ASSUME NEW v \in {0, 1}, NEW s \in {SPEEDSEL_FLEX, SPEEDSEL_OD}, NEW r \in {v, 0}
  PROVE  (128 + 16 * v + s + 3 * r) % 2 = r /\ 128 + 16 * v + s + 3 * r \in Byte
<1>1. (v = 0 \/ v = 1) /\ (s = 4 \/ s = 8) /\ (r = 0 \/ r = 1)
  BY DEF SPEEDSEL_FLEX, SPEEDSEL_OD
<1> QED
  BY <1>1 DEF Byte

LEMMA OnlyTwo == \A x, y : Append(<<x>>, y) = <<x, y>>
<1> SUFFICES ASSUME NEW x, NEW y PROVE Append(<<x>>, y) = <<x, y>>
  OBVIOUS
<1>1. <<x>> \in Seq({x, y}) /\ Len(<<x>>) = 1 /\ <<x>>[1] = x
  OBVIOUS
<1>2. /\ Append(<<x>>, y) \in Seq({x, y}) /\ Len(Append(<<x>>, y)) = 2
      /\ Append(<<x>>, y)[1] = x /\ Append(<<x>>, y)[2] = y
  BY <1>1
<1>3. <<x, y>> \in Seq({x, y}) /\ Len(<<x, y>>) = 2 /\ <<x, y>>[1] = x /\ <<x, y>>[2] = y
  OBVIOUS
<1>4. \A i \in 1..2 : i = 1 \/ i = 2
  OBVIOUS
<1> QED
  BY <1>2, <1>3, <1>4, SeqEqual

LEMMA TakeSample ==
  ASSUME TypeOK, CallInv, AtPacket, Take, TakenSample
  PROVE  TakenSample'
<1>1. UNCHANGED <<UMode, UBaud, pc>> /\ out # <<>> /\ out' = Tail(out)
      /\ USpeed \in {SPEEDSEL_FLEX, SPEEDSEL_OD}
  BY TakeSame, AtPlace
<1>2. /\ Listens /\ out = <<Comm(Bit, 1, USpeed) + Prime5V>> /\ in = <<62>> /\ seen = <<>>
      /\ mode = "command"
  BY <1>1 DEF TakenSample, Obeyed
<1>3. Command(Comm(Bit, 1, USpeed) + Prime5V) /\ out' = <<>>
  BY <1>1, <1>2, TakeMode
<1>4. 1 \in {0, 1} /\ Prime5V \in {0, Prime5V}
  OBVIOUS
<1>5. /\ mode' = "command" /\ UNCHANGED baud
      /\ level' = (IF Prime5V = Prime5V THEN MODE_STRONG5 ELSE level)
      /\ \E r \in {1, 0} : /\ in' = Append(in, 128 + 16 * 1 + USpeed + 3 * r)
                           /\ seen' = Append(seen, <<"bit", 1, r>>)
  BY <1>1, <1>3, <1>4, CommandBit
<1>6. PICK r \in {1, 0} : /\ in' = Append(in, 128 + 16 * 1 + USpeed + 3 * r)
                          /\ seen' = Append(seen, <<"bit", 1, r>>)
  BY <1>5
<1>7. (128 + 16 * 1 + USpeed + 3 * r) % 2 = r
  BY <1>1, <1>4, <1>6, LowBit
<1>8. in' = <<62, 128 + 16 * 1 + USpeed + 3 * r>> /\ seen' = <<<<"bit", 1, r>>>>
  BY <1>2, <1>6, OnlyOne, OnlyTwo
<1>9. Len(in') = 2 /\ in'[2] % 2 = r
  BY <1>7, <1>8
<1>10. Obeyed'
  BY <1>1, <1>2, <1>5 DEF TakenSample, Obeyed
<1> QED
  BY <1>1, <1>3, <1>5, <1>8, <1>9, <1>10 DEF TakenSample

LEMMA TakePower ==
  ASSUME TypeOK, CallInv, AtPacket, Take, TakenPower
  PROVE  TakenPower'
<1>1. UNCHANGED <<UMode, UBaud, USpeed, arg, pc>> /\ out # <<>> /\ out' = Tail(out)
      /\ USpeed \in {SPEEDSEL_FLEX, SPEEDSEL_OD} /\ arg \in Byte /\ PowerBits' = PowerBits
  BY TakeSame, AtPlace
<1>2. PICK k \in 0..Width :
        /\ out = SubSeq(PowerBits, k + 1, Width)
        /\ level = IF k = Width THEN MODE_STRONG5 ELSE MODE_NORMAL
        /\ Len(in) = k + 1 /\ seen = [i \in 1..k |-> <<"bit", Bits(arg)[i], in[i + 1] % 2>>]
  BY DEF TakenPower
<1>3. PowerBits \in Seq(Byte) /\ Len(PowerBits) = Width /\ Width \in Nat /\ k \in Nat
  BY <1>1, PowerBitsTyped, Link
<1>4. k # Width
  <2>1. k = Width => SubSeq(PowerBits, k + 1, Width) = <<>>
    BY <1>3, SubSeqEmpty
  <2> QED
    BY <1>1, <1>2, <2>1
<1>5. k + 1 \in 1..Width /\ Width \in k + 1 .. Width /\ k + 1 \in 0..Width
  BY <1>3, <1>4
<1>6. Head(out) = PowerBits[k + 1] /\ out' = SubSeq(PowerBits, (k + 1) + 1, Width)
  BY <1>1, <1>2, <1>3, <1>5, HeadTailOfSubSeq
<1>7. PICK v \in {0, 1}, p \in {0, Prime5V} :
        /\ v = Bits(arg)[k + 1] /\ (p = Prime5V <=> k + 1 = Width)
        /\ PowerBits[k + 1] = Comm(Bit, v, USpeed) + p
  <2>1. Bits(arg)[k + 1] \in {0, 1}
    BY <1>1, <1>5, BitsAre
  <2>2. PowerBits[k + 1] = Comm(Bit, Bits(arg)[k + 1], USpeed)
                             + (IF k + 1 = Width THEN Prime5V ELSE 0)
    BY <1>5 DEF PowerBits
  <2>3. (IF k + 1 = Width THEN Prime5V ELSE 0) = Prime5V <=> k + 1 = Width
    BY DEF Prime5V
  <2> QED
    BY <2>1, <2>2, <2>3
<1>9. Listens /\ mode = "command" /\ UMode = MODSEL_COMMAND /\ pc = "power"
  BY <1>2, <1>4 DEF Listens, TakenPower, Obeyed
<1>10. Command(PowerBits[k + 1])
  BY <1>6, <1>9, TakeMode
<1>11. /\ mode' = "command" /\ UNCHANGED baud
       /\ level' = (IF p = Prime5V THEN MODE_STRONG5 ELSE level)
       /\ \E r \in {v, 0} : /\ in' = Append(in, 128 + 16 * v + USpeed + 3 * r)
                            /\ seen' = Append(seen, <<"bit", v, r>>)
  <2>1. USpeed \in {SPEEDSEL_FLEX, SPEEDSEL_OD}
    BY <1>1
  <2> DEFINE b == PowerBits[k + 1]
  <2>2. b = Comm(Bit, v, USpeed) + p /\ Command(b)
    BY <1>7, <1>10
  <2> HIDE DEF b
  <2> QED
    BY <2>1, <2>2, CommandBitAt, SMTT(30)
<1>12. PICK r \in {v, 0} : /\ in' = Append(in, 128 + 16 * v + USpeed + 3 * r)
                           /\ seen' = Append(seen, <<"bit", v, r>>)
  BY <1>11
<1> DEFINE a == 128 + 16 * v + USpeed + 3 * r
<1>13. a % 2 = r /\ a \in Byte
  <2>1. USpeed \in {SPEEDSEL_FLEX, SPEEDSEL_OD}
    BY <1>1
  <2> QED
    BY <2>1, LowBit
<1> HIDE DEF a
<1>14. Len(in') = k + 2 /\ in'[k + 2] = a /\ \A i \in 1..k + 1 : in'[i] = in[i]
  <2>1. in' = Append(in, a) /\ in \in Seq(Byte)
    BY <1>12, Lengths DEF a
  <2> QED
    BY <1>2, <1>3, <1>13, <2>1
<1>15. seen' = [i \in 1..k + 1 |-> IF i = k + 1 THEN <<"bit", v, r>> ELSE seen[i]]
  <2>1. seen = [i \in 1..k |-> seen[i]]
    BY <1>2
  <2> QED
    BY <1>3, <1>12, <2>1, OneLonger
<1>16. seen' = [i \in 1..k + 1 |-> <<"bit", Bits(arg)[i], in'[i + 1] % 2>>]
  <2>1. ASSUME NEW i \in 1..k + 1
        PROVE  (IF i = k + 1 THEN <<"bit", v, r>> ELSE seen[i])
                 = <<"bit", Bits(arg)[i], in'[i + 1] % 2>>
    <3>1. CASE i = k + 1
      <4>1. i + 1 = k + 2
        BY <1>3, <3>1
      <4> QED
        BY <1>7, <1>13, <1>14, <3>1, <4>1
    <3>2. CASE i # k + 1
      <4>1. i \in 1..k /\ i + 1 \in 1..k + 1
        BY <1>3, <3>2
      <4> QED
        BY <1>2, <1>14, <3>2, <4>1
    <3> QED
      BY <3>1, <3>2
  <2> QED
    BY <1>15, <2>1
<1>17. level' = IF k + 1 = Width THEN MODE_STRONG5 ELSE MODE_NORMAL
  BY <1>2, <1>4, <1>7, <1>11
<1>18. Len(in') = (k + 1) + 1
  BY <1>3, <1>14
<1>19. (/\ out = SubSeq(PowerBits, (k + 1) + 1, Width)
        /\ level = (IF k + 1 = Width THEN MODE_STRONG5 ELSE MODE_NORMAL)
        /\ Len(in) = (k + 1) + 1
        /\ seen = [i \in 1..k + 1 |-> <<"bit", Bits(arg)[i], in[i + 1] % 2>>])'
  <2>1. Bits(arg)' = Bits(arg)
    BY <1>1 DEF Bits
  <2> QED
    BY <1>1, <1>6, <1>16, <1>17, <1>18, <2>1
<1>20. Obeyed' /\ pc' = "power"
  BY <1>1, <1>9, <1>11 DEF Obeyed, Listens
<1> QED
  BY <1>5, <1>19, <1>20 DEF TakenPower

LEMMA TakeSpeeding ==
  ASSUME TypeOK, CallInv, AtPacket, Take, Speeding
  PROVE  Speeding'
<1>1. UNCHANGED <<UMode, UBaud, USpeed, pc>> /\ out # <<>> /\ out' = Tail(out)
      /\ USpeed \in {SPEEDSEL_FLEX, SPEEDSEL_OD}
  BY TakeSame, AtPlace
<1>2. out = <<Comm(SearchOff, 0, USpeed)>> /\ Listens /\ mode = "command"
  BY <1>1 DEF Speeding, Obeyed
<1>3. Command(Comm(SearchOff, 0, USpeed)) /\ out' = <<>>
  BY <1>1, <1>2, TakeMode
<1>4. mode' = "command" /\ UNCHANGED <<baud, level>>
  BY <1>1, <1>3, CommandSearchOff
<1> QED
  BY <1>1, <1>2, <1>3, <1>4 DEF Speeding, Listens, Obeyed

LEMMA TakeLink ==
  ASSUME TypeOK, CallInv, LinkInv, Take
  PROVE  LinkInv'
<1>1. /\ UNCHANGED <<UMode, UBaud, pc, sent, doubt>> /\ out # <<>> /\ out' = Tail(out)
      /\ (AtPacket <=> AtPacket')
  BY TakeSame
<1>2. pc # "idle" /\ (AtPacket => sent /\ UMode = Mode)
  BY <1>1 DEF CallInv
<1>3. SUFFICES ASSUME AtPacket, Underway PROVE Underway'
  BY <1>1, <1>2 DEF LinkInv
<1>4. ~Lost /\ ~Unset /\ ~TakenOne
  BY <1>1 DEF Lost, Unset, TakenOne
<1>5. Deaf => Deaf'
  BY <1>1 DEF Deaf, Take, adapter
<1>6. Stopping => TakenOne'
  <2>1. Stopping => UMode = MODSEL_COMMAND
    BY <1>2, <1>3 DEF Stopping, Mode, Commands
  <2> QED
    BY <2>1, TakeStopping
<1> QED
  BY <1>2, <1>3, <1>4, <1>5, <1>6, TakeSwallowed, TakePrefixed, TakeBegun, TakeData, TakeStrong,
     TakeSample, TakePower, TakeSpeeding DEF Underway

-----------------------------------------------------------------------------
(* A link that fails on the way.                                            *)

LEMMA CutLink ==
  ASSUME TypeOK, CallInv, LinkInv, Cut
  PROVE  LinkInv'
<1>1. /\ UNCHANGED <<UMode, UBaud, USpeed, ULevel, pc, sent, op, arg, tran_buf, doubt>>
      /\ UNCHANGED <<mode, baud, level, seen>> /\ sent /\ out' = <<>>
      /\ Need' = Need /\ NewBaud' = NewBaud /\ (AtPacket <=> AtPacket')
  <2>1. /\ UNCHANGED <<UMode, UBaud, USpeed, ULevel, pc, sent, op, arg, tran_buf, doubt>>
        /\ UNCHANGED <<mode, baud, level, seen>> /\ sent /\ out' = <<>>
    BY DEF Cut, host, call, adapter
  <2> QED
    BY <2>1, Same
<1>2. PICK n \in 0..Len(in) : in' = SubSeq(in, 1, n)
  BY DEF Cut
<1>3. Len(in) \in Nat /\ n \in Nat /\ Len(in') = n /\ (n = Len(in) => in' = in)
  <2>1. in \in Seq(Byte) /\ in' \in Seq(Byte) /\ Len(in') = n
    BY <1>2, Lengths
  <2>2. ASSUME n = Len(in) PROVE in' = in
    <3>1. \A i \in 1..Len(in) : in'[i] = in[i]
      BY <1>2, <2>1, <2>2
    <3> QED
      BY <2>1, <2>2, <3>1, SeqEqual
  <2> QED
    BY <2>1, <2>2, Lengths
<1>4. in = <<>> => in' = <<>>
  <2>1. in = <<>> => n = Len(in)
    BY <1>3
  <2> QED
    BY <1>3, <2>1
<1>5. out # <<>> \/ n < Len(in)
  BY <1>1, <1>3 DEF Cut, wire
<1>6. pc # "idle"
  BY <1>1 DEF CallInv
<1>7. SUFFICES ASSUME AtPacket, Underway PROVE Underway'
  BY <1>1, <1>6 DEF LinkInv
<1>8. Need \in Nat /\ (pc \notin {"baud", "speed"} => Need > 0) /\ UMode = Mode
  BY <1>1, <1>7, AtPlace DEF CallInv
<1>9. CASE n < Need
  BY <1>1, <1>3, <1>9 DEF Underway, Lost
<1>10. CASE n >= Need
  <2>1. CASE Lost
    BY <1>3, <1>8, <1>10, <2>1 DEF Lost
  <2>2. CASE Deaf \/ Unset \/ Swallowed
    <3>1. Deaf => Deaf'
      BY <1>1, <1>4 DEF Deaf
    <3>2. Unset => Unset'
      BY <1>1 DEF Unset
    <3>3. Swallowed => Swallowed'
      BY <1>1, <1>4 DEF Swallowed
    <3> QED
      BY <2>2, <3>1, <3>2, <3>3 DEF Underway
  <2>3. CASE Stopping \/ Prefixed \/ Begun
    <3>1. n = 0 /\ baud = UBaud /\ pc # "speed"
      BY <1>3, <1>4, <2>3 DEF Stopping, Prefixed, Begun, Listens
    <3>2. pc = "baud"
      BY <1>8, <1>10, <3>1
    <3>3. Unset'
      BY <1>1, <3>1, <3>2 DEF Unset
    <3> QED
      BY <3>3 DEF Underway
  <2>4. CASE TakenData
    <3>1. PICK k \in 0..Len(Block) : Taken(Block, k)
      BY <2>4 DEF TakenData
    <3>2. Block \in Seq(Byte) /\ Len(Block) \in Nat /\ Len(in) = k /\ Need = Len(Block)
      BY <1>7, <2>4, <3>1, AtPlace DEF Taken, TakenData, Block
    <3>3. k = Len(Block) /\ n = Len(in)
      BY <1>3, <1>10, <3>2
    <3>4. out = <<>>
      BY <3>1, <3>2, <3>3, DoubledRest DEF Taken
    <3> QED
      BY <1>5, <3>3, <3>4
  <2>5. CASE TakenOne
    <3>1. n < Len(in) /\ out = <<>>
      BY <1>5, <2>5 DEF TakenOne
    <3>2. CASE pc = "baud"
      <4>1. TakenOne'
        BY <1>1, <2>5, <3>2 DEF TakenOne, Obeyed
      <4> QED
        BY <4>1 DEF Underway
    <3>3. CASE pc # "baud"
      <4>1. Len(in) = 1 /\ pc # "speed"
        BY <2>5, <3>3 DEF TakenOne
      <4> QED
        BY <1>3, <1>8, <1>10, <3>1, <3>3, <4>1
    <3> QED
      BY <3>2, <3>3
  <2>6. CASE TakenStrong
    <3>1. Len(in) = 1
      BY <2>6 DEF TakenStrong
    <3>2. Len(in') = 1
      BY <1>3, <1>8, <1>10, <2>6, <3>1 DEF TakenStrong
    <3>3. TakenStrong'
      BY <1>1, <2>6, <3>2 DEF TakenStrong, Obeyed
    <3> QED
      BY <3>3 DEF Underway
  <2>7. CASE TakenSample
    <3>1. Len(in) = 1 \/ (out = <<>> /\ Len(in) = 2)
      <4>1. Len(<<62>>) = 1
        OBVIOUS
      <4> QED
        BY <2>7, <4>1 DEF TakenSample
    <3>2. Need = 2
      <4>1. pc = "sample"
        BY <2>7 DEF TakenSample
      <4> QED
        BY <4>1 DEF Need
    <3>3. \A m, l \in Nat : m >= 2 /\ m <= l /\ (l = 1 \/ l = 2) => m = l /\ l # 1
      OBVIOUS
    <3>4. n >= 2 /\ n <= Len(in)
      BY <1>3, <1>10, <3>2
    <3>5. n = Len(in) /\ Len(in) # 1
      BY <1>3, <3>1, <3>3, <3>4
    <3>6. out = <<>>
      BY <3>1, <3>5
    <3> QED
      BY <1>5, <1>3, <3>5, <3>6
  <2>8. CASE TakenPower
    <3>1. PICK k \in 0..Width : out = SubSeq(PowerBits, k + 1, Width) /\ Len(in) = k + 1
      BY <2>8 DEF TakenPower
    <3>2. Need = 1 + Width /\ Width \in Nat /\ k \in Nat
      BY <2>8, Link DEF TakenPower, Need
    <3>3. k = Width /\ n = Len(in)
      BY <1>3, <1>10, <3>1, <3>2
    <3>4. PowerBits \in Seq(Byte)
      BY <1>7, AtPlace, PowerBitsTyped
    <3>5. out = <<>>
      BY <3>1, <3>2, <3>3, <3>4, SubSeqEmpty
    <3> QED
      BY <1>5, <3>3, <3>5
  <2>9. CASE Speeding
    <3>1. Speeding'
      BY <1>1, <2>9 DEF Speeding, Listens, Obeyed
    <3> QED
      BY <3>1 DEF Underway
  <2> QED
    BY <1>7, <2>1, <2>2, <2>3, <2>4, <2>5, <2>6, <2>7, <2>8, <2>9 DEF Underway
<1> QED
  BY <1>3, <1>8, <1>9, <1>10

-----------------------------------------------------------------------------
(* The host's answers.                                                      *)

\* What an answered packet has done.
LEMMA AnsweredLink ==
  ASSUME TypeOK, CallInv, Underway, AtPacket, Answered
  PROVE  /\ out = <<>> /\ UMode = Mode
         /\ pc \in {"normal", "reset", "bit", "readbaud"} => TakenOne
         /\ pc \in {"byte", "block"} => TakenData
         /\ pc = "strong" => TakenStrong
         /\ pc = "power"  => TakenPower
         /\ pc = "sample" => TakenSample
         /\ pc = "baud"   => Unset \/ Swallowed \/ TakenOne
         /\ pc = "speed"  => Speeding
<1>1. out = <<>> /\ Len(in) >= Need /\ UMode = Mode
  BY DEF Answered, CallInv
<1>2. Need \in Nat /\ (pc \notin {"baud", "speed"} => Need > 0) /\ Len(in) \in Nat
  BY AtPlace, Lengths
<1>3. ~Lost
  BY <1>1, <1>2 DEF Lost
<1>4. pc \notin {"baud", "speed"} => in # <<>>
  <2>1. Len(<<>>) = 0
    OBVIOUS
  <2> QED
    BY <1>1, <1>2, <2>1
<1>5. ~Deaf /\ (Swallowed => pc = "baud") /\ ~Stopping
  BY <1>1, <1>4 DEF Deaf, Swallowed, Stopping
<1>6. ~Prefixed
  <2>1. Packet \in Seq(Byte)
    BY PacketTyped
  <2>2. <<MODE_DATA>> \o Packet # <<>> /\ <<MODE_COMMAND>> \o Packet # <<>>
    BY <2>1, OneMore, ModeBytes
  <2> QED
    BY <1>1, <2>2 DEF Prefixed
<1>7. ~Begun
  <2>1. Begun => pc \in Commands
    BY <1>1, AtPlace DEF Begun, Mode, MODSEL_DATA, MODSEL_COMMAND
  <2> QED
    BY <1>1, <2>1, FirstOf DEF Begun
<1>8. Lost \/ Deaf \/ Unset \/ Swallowed \/ Stopping \/ Prefixed \/ Begun \/ TakenData \/ TakenOne
        \/ TakenStrong \/ TakenSample \/ TakenPower \/ Speeding
  BY DEF Underway
<1>9. /\ TakenOne => pc \in {"normal", "reset", "bit", "baud", "readbaud"}
      /\ Unset => pc = "baud"
      /\ TakenData => pc \in {"byte", "block"}
      /\ TakenStrong => pc = "strong"
      /\ TakenPower => pc = "power"
      /\ TakenSample => pc = "sample"
      /\ Speeding => pc = "speed"
  BY DEF TakenOne, Unset, TakenData, TakenStrong, TakenPower, TakenSample, Speeding
<1> QED
  BY <1>1, <1>3, <1>5, <1>6, <1>7, <1>8, <1>9

\* An adapter that has obeyed is in step.
LEMMA ObeyedInStep == Obeyed /\ pc # "baud" => InStep
  BY DEF Obeyed, InStep, MODSEL_DATA, MODSEL_COMMAND

\* The places a call may come from.
LEMMA CallerOf ==
  ASSUME CallInv, AtPacket
  PROVE  /\ pc = "normal" => op \in {"access", "reset", "bit", "byte", "sample", "level"}
         /\ pc = "reset" => op \in {"access", "reset"}
         /\ pc = "bit" => op = "bit"
         /\ pc = "byte" => op = "byte"
         /\ pc = "block" => op \in {"access", "block"}
         /\ pc = "strong" => op = "level"
         /\ pc = "power" => op = "power"
         /\ pc = "sample" => op = "sample"
         /\ pc \in {"baud", "readbaud", "speed"} => op = "speed"
<1>1. pc \in PlacesOf(op)
  BY DEF CallInv
<1> QED
  BY <1>1 DEF PlacesOf

LEMMA LevelNormalLink ==
  ASSUME TypeOK, CallInv, LinkInv, owLevelNormal
  PROVE  LinkInv'
<1>1. /\ AtPacket /\ sent /\ Answered /\ pc = "normal" /\ pc # "idle"
      /\ UNCHANGED <<UMode, UBaud, USpeed, op, arg, tran_buf, in, mode, baud, level, seen, doubt>>
  BY AnsweredAt, Places DEF owLevelNormal, Answered, wire, adapter
<1>2. CASE Resync(back)
  BY <1>2, Places DEF Resync, GoTo, LinkInv, AtPacket
<1>3. CASE ULevel' = MODE_NORMAL /\ GoOn /\ back' = back
  <2>1. SUFFICES ASSUME Underway
                 PROVE  (/\ pc = "idle" => Rested /\ SuccessIsTrue
                         /\ AtPacket => IF sent THEN Underway ELSE Ready)'
    BY <1>1 DEF LinkInv
  <2>2. TakenOne
    BY <1>1, <2>1, AnsweredLink
  <2>3. level = MODE_NORMAL /\ InStep
    BY <1>1, <2>2, ObeyedInStep DEF TakenOne
  <2>4. InStep'
    BY <1>1, <2>3 DEF InStep
  <2>5. CASE back = "return"
    <3>1. pc' = "idle" /\ ret' = Value /\ op' \in {"access", "reset", "bit", "byte", "sample", "level"}
      BY <1>1, <1>3, <2>5, CallerOf DEF GoOn, Return, GoTo
    <3>2. ret' = 0
      BY <1>1, <1>3, <3>1 DEF Value, MODE_NORMAL
    <3>3. Rested'
      BY <1>1, <2>3, <2>4 DEF Rested, MODE_NORMAL, MODE_STRONG5
    <3>4. SuccessIsTrue'
      BY <1>1, <2>3, <3>1, <3>2 DEF SuccessIsTrue
    <3> QED
      BY <3>1, <3>3, <3>4, Places DEF AtPacket
  <2>6. CASE back # "return"
    <3>1. pc' = back /\ sent' = FALSE /\ back \in {"reset", "bit", "byte", "speed"}
      BY <1>1, <1>3, <2>6 DEF GoOn, GoTo, CallInv, BackOf
    <3>2. pc' # "speed"
      BY <1>1, <2>6, <3>1, CallerOf DEF CallInv, BackOf
    <3>3. Ready'
      BY <1>1, <2>3, <2>4, <3>1, <3>2 DEF Ready, MODE_NORMAL, MODE_STRONG5
    <3> QED
      BY <3>1, <3>3
  <2> QED
    BY <2>5, <2>6
<1> QED
  BY <1>2, <1>3 DEF owLevelNormal

LEMMA TouchResetLink ==
  ASSUME TypeOK, CallInv, LinkInv, owTouchReset
  PROVE  LinkInv'
<1>1. /\ AtPacket /\ sent /\ Answered /\ pc = "reset" /\ pc # "idle"
      /\ UNCHANGED <<UMode, UBaud, USpeed, ULevel, op, arg, tran_buf, in, mode, baud, level, seen,
                     doubt>>
  BY AnsweredAt, Places DEF owTouchReset, Answered, wire, adapter, host
<1>2. CASE Resync("return")
  BY <1>2, Places DEF Resync, GoTo, LinkInv, AtPacket
<1>3. CASE in[1] % 4 \in {1, 2} /\ (IF op = "reset" THEN Return(1) ELSE GoTo("block"))
  <2>1. SUFFICES ASSUME Underway
                 PROVE  (/\ pc = "idle" => Rested /\ SuccessIsTrue
                         /\ AtPacket => IF sent THEN Underway ELSE Ready)'
    BY <1>1 DEF LinkInv
  <2>2. TakenOne
    BY <1>1, <2>1, AnsweredLink
  <2>3. level = MODE_NORMAL /\ InStep
    BY <1>1, <2>2, ObeyedInStep DEF TakenOne
  <2>4. InStep'
    BY <1>1, <2>3 DEF InStep
  <2>5. PICK r \in 0..3 : in = <<204 + r>> /\ seen = <<<<"reset", 0, r>>>>
    BY <1>1, <2>2 DEF TakenOne
  <2>6. in[1] % 4 = r
    BY <2>5
  <2>7. CASE op = "reset"
    <3>1. pc' = "idle" /\ ret' = 1 /\ op' = "reset"
      BY <1>1, <1>3, <2>7 DEF Return, GoTo
    <3>2. SuccessIsTrue'
      BY <1>1, <1>3, <2>5, <2>6, <3>1 DEF SuccessIsTrue
    <3>3. Rested'
      BY <1>1, <2>3, <2>4 DEF Rested, MODE_NORMAL, MODE_STRONG5
    <3> QED
      BY <3>1, <3>2, <3>3, Places DEF AtPacket
  <2>8. CASE op # "reset"
    <3>1. pc' = "block" /\ sent' = FALSE
      BY <1>3, <2>8 DEF GoTo
    <3>2. Ready'
      BY <1>1, <2>3, <2>4, <3>1 DEF Ready, MODE_NORMAL, MODE_STRONG5
    <3> QED
      BY <3>1, <3>2
  <2> QED
    BY <2>7, <2>8
<1> QED
  BY <1>2, <1>3 DEF owTouchReset

LEMMA TouchLink ==
  ASSUME TypeOK, CallInv, LinkInv, Touch
  PROVE  LinkInv'
<1>1. /\ AtPacket /\ sent /\ Answered /\ pc \in {"bit", "byte", "block"} /\ pc # "idle"
      /\ UNCHANGED <<UMode, UBaud, USpeed, ULevel, op, arg, tran_buf, in, mode, baud, level, seen,
                     doubt>>
      /\ pc' = "idle" /\ ret' = OneValue
  BY AnsweredAt, Places DEF Touch, Answered, wire, adapter, host, Return, GoTo
<1>2. SUFFICES ASSUME Underway PROVE (Rested /\ SuccessIsTrue)'
  BY <1>1, Places DEF LinkInv, AtPacket
<1>3. CASE pc = "bit"
  <2>1. TakenOne /\ op = "bit"
    BY <1>1, <1>2, <1>3, AnsweredLink, CallerOf
  <2>2. level = MODE_NORMAL /\ InStep
    BY <1>3, <2>1, ObeyedInStep DEF TakenOne
  <2>3. PICK r \in {arg, 0} : /\ in = <<128 + 16 * arg + USpeed + 3 * r>>
                              /\ seen = <<<<"bit", arg, r>>>>
    BY <1>3, <2>1 DEF TakenOne
  <2>4. arg \in {0, 1} /\ USpeed \in {4, 8}
    BY <1>1, <1>3, AtPlace DEF SPEEDSEL_FLEX, SPEEDSEL_OD
  <2>5. in[1] % 4 = 3 => r = 1 /\ arg = 1
    <3>1. (arg = 0 \/ arg = 1) /\ (USpeed = 4 \/ USpeed = 8) /\ (r = 0 \/ r = 1)
      BY <2>3, <2>4
    <3>2. in[1] = 128 + 16 * arg + USpeed + 3 * r
      BY <2>3
    <3> QED
      BY <2>3, <3>1, <3>2
  <2>6. ret' = 1 => r = 1 /\ arg = 1
    BY <1>1, <1>3, <2>5 DEF OneValue
  <2>7. SuccessIsTrue'
    BY <1>1, <2>1, <2>3, <2>6 DEF SuccessIsTrue
  <2>8. Rested'
    BY <1>1, <2>2 DEF Rested, InStep, MODE_NORMAL, MODE_STRONG5
  <2> QED
    BY <2>7, <2>8
<1>4. CASE pc \in {"byte", "block"}
  <2>1. TakenData /\ op \in {"byte", "access", "block"} /\ out = <<>>
        /\ (pc = "byte" <=> op = "byte")
    BY <1>1, <1>2, <1>4, AnsweredLink, CallerOf
  <2>2. PICK k \in 0..Len(Block) : Taken(Block, k)
    BY <2>1 DEF TakenData
  <2>3. /\ Block \in Seq(Byte) /\ Len(Block) \in Nat /\ Need = Len(Block) /\ Len(in) = k
        /\ Len(in) >= Need
    BY <1>1, <1>4, <2>2, AtPlace DEF Taken, Block, Answered
  <2>4. k = Len(Block)
    BY <2>3
  <2>5. /\ Listens /\ UMode = MODSEL_DATA /\ mode = "data"
        /\ seen = [i \in 1..Len(Block) |-> <<"byte", Block[i], in[i]>>]
    BY <2>2, <2>3, <2>4 DEF Taken
  <2>6. Rested'
    BY <1>1, <2>5 DEF Rested, InStep, Listens, MODE_NORMAL, MODE_STRONG5
  <2>7. CASE pc = "byte"
    <3>1. seen = <<<<"byte", arg, in[1]>>>> /\ ret' = in[1]
      <4>1. Block = <<arg>> /\ Len(<<arg>>) = 1
        BY <2>7 DEF Block
      <4>2. seen = [i \in 1..1 |-> <<"byte", <<arg>>[i], in[i]>>]
        BY <2>5, <4>1
      <4>3. [i \in 1..1 |-> <<"byte", <<arg>>[i], in[i]>>] = <<<<"byte", arg, in[1]>>>>
        OBVIOUS
      <4> QED
        BY <1>1, <2>7, <4>2, <4>3 DEF OneValue
    <3>2. SuccessIsTrue'
      BY <1>1, <2>1, <2>7, <3>1 DEF SuccessIsTrue
    <3> QED
      BY <2>6, <3>2
  <2>8. CASE pc = "block"
    <3>1. seen = [i \in DOMAIN tran_buf |-> <<"byte", tran_buf[i], in[i]>>]
      BY <2>3, <2>5, <2>8 DEF Block
    <3>2. SuccessIsTrue'
      BY <1>1, <2>1, <2>8, <3>1 DEF SuccessIsTrue
    <3> QED
      BY <2>6, <3>2
  <2> QED
    BY <1>4, <2>7, <2>8
<1> QED
  BY <1>1, <1>3, <1>4

LEMMA LevelStrongLink ==
  ASSUME TypeOK, CallInv, LinkInv, owLevelStrong
  PROVE  LinkInv'
<1>1. /\ AtPacket /\ sent /\ Answered /\ pc = "strong" /\ pc # "idle"
      /\ UNCHANGED <<UMode, UBaud, USpeed, op, arg, tran_buf, in, mode, baud, level, seen, doubt>>
  BY AnsweredAt, Places DEF owLevelStrong, Answered, wire, adapter
<1>2. CASE Resync("return")
  BY <1>2, Places DEF Resync, GoTo, LinkInv, AtPacket
<1>3. CASE ULevel' = MODE_STRONG5 /\ Return(MODE_STRONG5)
  <2>1. SUFFICES ASSUME Underway PROVE (Rested /\ SuccessIsTrue)'
    BY <1>1, <1>3, Places DEF LinkInv, AtPacket, Return, GoTo
  <2>2. TakenStrong /\ op = "level"
    BY <1>1, <2>1, AnsweredLink, CallerOf
  <2>3. InStep /\ mode = "command"
    BY <1>1, <2>2, ObeyedInStep DEF TakenStrong, Obeyed
  <2>4. ret' = MODE_STRONG5 /\ op' = "level" /\ ret' # MODE_NORMAL
    BY <1>1, <1>3, <2>2 DEF Return, MODE_NORMAL, MODE_STRONG5
  <2>5. Rested'
    BY <1>1, <1>3, <2>3, <2>4 DEF Rested, InStep, LeftOn
  <2>6. SuccessIsTrue'
    BY <2>4 DEF SuccessIsTrue
  <2> QED
    BY <2>5, <2>6
<1> QED
  BY <1>2, <1>3 DEF owLevelStrong

LEMMA WritePowerLink ==
  ASSUME TypeOK, CallInv, LinkInv, owWriteBytePower
  PROVE  LinkInv'
<1>1. /\ AtPacket /\ sent /\ Answered /\ pc = "power" /\ pc # "idle"
      /\ UNCHANGED <<UMode, UBaud, USpeed, op, arg, tran_buf, in, mode, baud, level, seen, doubt>>
  BY AnsweredAt, Places DEF owWriteBytePower, Answered, wire, adapter
<1>2. CASE Resync("return")
  BY <1>2, Places DEF Resync, GoTo, LinkInv, AtPacket
<1>3. CASE TimeSet /\ EchoRight /\ Return(1)
  <2>1. SUFFICES ASSUME Underway PROVE (Rested /\ SuccessIsTrue)'
    BY <1>1, <1>3, Places DEF LinkInv, AtPacket, Return, GoTo
  <2>2. TakenPower /\ op = "power" /\ out = <<>>
    BY <1>1, <2>1, AnsweredLink, CallerOf
  <2>3. InStep /\ mode = "command"
    BY <1>1, <2>2, ObeyedInStep DEF TakenPower, Obeyed
  <2>4. PICK k \in 0..Width :
          /\ level = IF k = Width THEN MODE_STRONG5 ELSE MODE_NORMAL
          /\ Len(in) = k + 1 /\ seen = [i \in 1..k |-> <<"bit", Bits(arg)[i], in[i + 1] % 2>>]
    BY <2>2 DEF TakenPower
  <2>5. k = Width
    <3>1. Len(in) >= 1 + Width
      BY <1>1 DEF Answered, Need
    <3> QED
      BY <2>4, <3>1, Link
  <2>6. seen = [i \in 1..Width |-> <<"bit", Bits(arg)[i], Bits(arg)[i]>>]
    <3>1. \A i \in 1..Width : in[i + 1] % 2 = Bits(arg)[i]
      BY <1>3 DEF EchoRight
    <3> QED
      BY <2>4, <2>5, <3>1
  <2>7. ret' = 1 /\ op' = "power" /\ ULevel' = MODE_STRONG5 /\ level = MODE_STRONG5
    BY <1>1, <1>3, <2>2, <2>4, <2>5 DEF Return, owWriteBytePower
  <2>8. Rested'
    BY <1>1, <2>3, <2>7 DEF Rested, InStep, LeftOn
  <2>9. SuccessIsTrue'
    <3>1. Bits(arg)' = Bits(arg)
      BY <1>1 DEF Bits
    <3>2. (level = MODE_STRONG5 /\ seen = [i \in 1..Width |-> <<"bit", Bits(arg)[i], Bits(arg)[i]>>])'
      BY <1>1, <2>6, <2>7, <3>1
    <3> QED
      BY <2>7, <3>2 DEF SuccessIsTrue
  <2> QED
    BY <2>8, <2>9
<1> QED
  BY <1>2, <1>3 DEF owWriteBytePower

LEMMA ReadPowerLink ==
  ASSUME TypeOK, CallInv, LinkInv, owReadBitPower
  PROVE  LinkInv'
<1>1. /\ AtPacket /\ sent /\ Answered /\ pc = "sample" /\ pc # "idle"
      /\ UNCHANGED <<UMode, UBaud, USpeed, op, arg, tran_buf, in, mode, baud, level, seen, doubt>>
  BY AnsweredAt, Places DEF owReadBitPower, Answered, wire, adapter
<1>2. CASE Resync("return")
  BY <1>2, Places DEF Resync, GoTo, LinkInv, AtPacket
<1>3. CASE TimeSet /\ ULevel' = MODE_STRONG5
           /\ ((in[2] % 2 = arg /\ Return(1)) \/ GoTo("normal"))
  <2>1. SUFFICES ASSUME Underway
                 PROVE  (/\ pc = "idle" => Rested /\ SuccessIsTrue
                         /\ AtPacket => IF sent THEN Underway ELSE Ready)'
    BY <1>1 DEF LinkInv
  <2>2. TakenSample /\ op = "sample" /\ out = <<>>
    BY <1>1, <2>1, AnsweredLink, CallerOf
  <2>3. InStep /\ mode = "command" /\ InStep'
    <3>1. InStep /\ mode = "command"
      BY <1>1, <2>2, ObeyedInStep DEF TakenSample, Obeyed
    <3> QED
      BY <1>1, <3>1 DEF InStep
  <2>4. level = MODE_STRONG5 /\ seen = <<<<"bit", 1, in[2] % 2>>>>
    BY <2>2 DEF TakenSample
  <2>5. CASE in[2] % 2 = arg /\ Return(1)
    <3>1. pc' = "idle" /\ ret' = 1 /\ op' = "sample"
      BY <1>1, <2>2, <2>5 DEF Return, GoTo
    <3>2. Rested'
      BY <1>1, <1>3, <2>3, <3>1 DEF Rested, LeftOn
    <3>3. SuccessIsTrue'
      BY <1>1, <2>4, <2>5, <3>1 DEF SuccessIsTrue
    <3> QED
      BY <3>1, <3>2, <3>3, Places DEF AtPacket
  <2>6. CASE GoTo("normal")
    <3>1. pc' = "normal" /\ sent' = FALSE
      BY <2>6 DEF GoTo
    <3>2. Ready'
      BY <1>1, <1>3, <2>3, <3>1 DEF Ready
    <3> QED
      BY <3>1, <3>2
  <2> QED
    BY <1>3, <2>5, <2>6
<1> QED
  BY <1>2, <1>3 DEF owReadBitPower

LEMMA ChangeBaudLink ==
  ASSUME TypeOK, CallInv, LinkInv, DS2480ChangeBaud
  PROVE  LinkInv'
<1>1. /\ AtPacket /\ sent /\ Answered /\ pc = "baud" /\ pc # "idle" /\ pc' = "readbaud" /\ ~sent'
      /\ UNCHANGED <<UMode, USpeed, ULevel, arg, mode, baud, level, doubt>> /\ UBaud' = NewBaud
  BY AnsweredAt, Places
     DEF DS2480ChangeBaud, Answered, wire, adapter, call, GoTo, SetBaudCOM
<1>2. SUFFICES ASSUME Underway PROVE Ready'
  BY <1>1 DEF LinkInv
<1>3. (Unset \/ Swallowed \/ TakenOne) /\ UMode = Mode
  BY <1>1, <1>2, AnsweredLink
<1>4. CASE Unset \/ Swallowed
  <2>1. baud = UBaud /\ UBaud # NewBaud
    BY <1>1, <1>4 DEF Unset, Swallowed, CallInv
  <2>2. baud' # UBaud'
    BY <1>1, <2>1
  <2> QED
    BY <1>1, <2>2 DEF Ready
<1>5. CASE TakenOne
  <2>1. baud = NewBaud /\ level = MODE_NORMAL /\ mode = "command" /\ UMode = MODSEL_COMMAND
    BY <1>1, <1>5 DEF TakenOne, Obeyed
  <2>2. InStep'
    BY <1>1, <2>1 DEF InStep, MODSEL_DATA, MODSEL_COMMAND
  <2> QED
    BY <1>1, <2>1, <2>2 DEF Ready
<1> QED
  BY <1>3, <1>4, <1>5

LEMMA BaudReadLink ==
  ASSUME TypeOK, CallInv, LinkInv, BaudRead
  PROVE  LinkInv'
<1>1. /\ AtPacket /\ sent /\ Answered /\ pc = "readbaud" /\ pc # "idle"
      /\ UNCHANGED <<UMode, UBaud, ULevel, mode, baud, level, doubt>>
  BY AnsweredAt, Places DEF BaudRead, Answered, adapter
<1>2. CASE Resync(AfterFailure)
  BY <1>2, Places DEF Resync, GoTo, LinkInv, AtPacket
<1>3. CASE GoTo("speed")
  <2>1. pc' = "speed" /\ ~sent'
    BY <1>3 DEF GoTo
  <2>2. SUFFICES ASSUME Underway PROVE Ready'
    BY <1>1, <2>1 DEF LinkInv
  <2>3. TakenOne
    BY <1>1, <2>2, AnsweredLink
  <2>4. level = MODE_NORMAL /\ mode = "command" /\ InStep
    BY <1>1, <2>3, ObeyedInStep DEF TakenOne, Obeyed
  <2>5. InStep'
    BY <1>1, <2>4 DEF InStep
  <2> QED
    BY <1>1, <2>1, <2>4, <2>5 DEF Ready, MODE_NORMAL, MODE_STRONG5
<1> QED
  BY <1>2, <1>3 DEF BaudRead

LEMMA SpeedSentLink ==
  ASSUME TypeOK, CallInv, LinkInv, SpeedSent
  PROVE  LinkInv'
<1>1. /\ AtPacket /\ sent /\ Answered /\ pc = "speed" /\ pc # "idle" /\ pc' = "idle"
      /\ UNCHANGED <<UMode, UBaud, ULevel, op, mode, baud, level, doubt>>
  BY AnsweredAt, Places DEF SpeedSent, Answered, adapter, host, Return, GoTo
<1>2. SUFFICES ASSUME Underway PROVE (Rested /\ SuccessIsTrue)'
  BY <1>1, Places DEF LinkInv, AtPacket
<1>3. Speeding /\ op' = "speed"
  BY <1>1, <1>2, AnsweredLink, CallerOf
<1>4. level = MODE_NORMAL /\ InStep
  BY <1>1, <1>3, ObeyedInStep DEF Speeding, Listens
<1>5. Rested'
  BY <1>1, <1>4 DEF Rested, InStep, MODE_NORMAL, MODE_STRONG5
<1> QED
  BY <1>3, <1>5 DEF SuccessIsTrue

\* An answer of DS2480Detect that makes sense comes from an adapter that has been set up.
LEMMA DetectedLink ==
  ASSUME TypeOK, CallInv, DetectInv, Detected
  PROVE  LinkInv'
<1>1. /\ pc = "detect" /\ sent /\ out = <<>> /\ Len(in) >= 5
      /\ UNCHANGED <<UMode, UBaud, USpeed, ULevel, mode, baud, level, op>>
  BY DEF Detected, Tried, Sensible, Need, host, adapter
<1>2. PICK k \in 0..6 : SetUp(k)
  <2>1. ~TooFew
    <3>1. Len(<<>>) = 0
      OBVIOUS
    <3>2. ~(Len(in) + Len(out) <= 4) /\ in # <<>>
      BY <1>1, <3>1, Lengths
    <3> QED
      BY <3>2 DEF TooFew
  <2> QED
    BY <1>1, <2>1 DEF DetectInv
<1>3. k = 6
  <2>1. out = SubSeq(Setup, k + 1, 6)
    BY <1>2 DEF SetUp
  <2>2. k \notin 0..5
    BY <1>1, <2>1, SetupRest
  <2> QED
    BY <2>2
<1>4. /\ baud = PARMSET_9600 /\ UBaud = PARMSET_9600 /\ level = MODE_NORMAL
      /\ mode = "command" /\ UMode = MODSEL_COMMAND
  BY <1>1, <1>2, <1>3 DEF SetUp, DetectInv
<1>5. InStep' /\ level' = MODE_NORMAL /\ mode' = "command" /\ Rested'
  BY <1>1, <1>4 DEF InStep, Rested, MODSEL_DATA, MODSEL_COMMAND, MODE_NORMAL, MODE_STRONG5
<1>6. CASE op = "acquire"
  <2>1. pc' = "idle" /\ op' = "acquire"
    BY <1>1, <1>6 DEF Detected, Return, GoTo
  <2>2. SuccessIsTrue'
    BY <2>1 DEF SuccessIsTrue
  <2> QED
    BY <1>5, <2>1, <2>2, Places DEF LinkInv, AtPacket
<1>7. CASE op # "acquire" /\ back = "return"
  <2>1. pc' = "idle" /\ op' = op /\ ret' = Value
    BY <1>1, <1>7 DEF Detected, GoOn, Return, GoTo
  <2>2. op \notin {"level", "speed"} => ret' = 0
    BY <2>1 DEF Value
  <2>3. SuccessIsTrue'
    BY <1>5, <2>1, <2>2 DEF SuccessIsTrue
  <2> QED
    BY <1>5, <2>1, <2>3, Places DEF LinkInv, AtPacket
<1>8. CASE op # "acquire" /\ back # "return"
  <2>1. pc' = back /\ ~sent' /\ back \in {"reset", "bit", "byte", "speed"}
    BY <1>1, <1>8 DEF Detected, GoOn, GoTo, CallInv, BackOf
  <2>2. Ready'
    BY <1>5, <2>1 DEF Ready, MODE_NORMAL, MODE_STRONG5
  <2> QED
    BY <2>1, <2>2 DEF LinkInv
<1> QED
  BY <1>6, <1>7, <1>8

-----------------------------------------------------------------------------
(* Calls.                                                                   *)

\* A call begins with a packet that the adapter is ready for.
LEMMA BeginLink ==
  ASSUME TypeOK, CallInv, LinkInv, NEW o, NEW a, NEW b, NEW place, NEW after,
         Begin(o, a, b, place, after), place \notin {"idle", "readbaud", "speed"},
         place \in {"reset", "bit", "byte", "block", "strong"} => doubt \/ level = MODE_NORMAL
  PROVE  LinkInv'
<1>1. /\ pc = "idle" /\ pc' = place /\ ~sent'
      /\ UNCHANGED <<UMode, UBaud, ULevel, mode, baud, level, doubt>>
  BY DEF Begin, GoTo, adapter
<1>2. SUFFICES ASSUME ~doubt, Rested PROVE Ready'
  BY <1>1 DEF LinkInv
<1>3. InStep'
  BY <1>1, <1>2 DEF Rested, InStep
<1> QED
  BY <1>1, <1>2, <1>3 DEF Rested, Ready

LEMMA NormalKnown ==
  ASSUME TypeOK, LinkInv, pc = "idle", ULevel = MODE_NORMAL \/ ~LeftOn
  PROVE  doubt \/ level = MODE_NORMAL
  BY DEF LinkInv, Rested, TypeOK, MODE_NORMAL, MODE_STRONG5

LEMMA CallLink ==
  ASSUME TypeOK, CallInv, LinkInv, SpeedInv, Call
  PROVE  LinkInv'
<1>1. ASSUME NEW o, NEW a, NEW b, NEW place \in {"reset", "bit", "byte"},
             FromNormal(o, a, b, place)
      PROVE  LinkInv'
  <2>1. CASE ULevel = MODE_NORMAL /\ Begin(o, a, b, place, "return")
    <3>1. doubt \/ level = MODE_NORMAL
      BY <2>1, NormalKnown DEF Begin
    <3> QED
      BY <2>1, <3>1, BeginLink
  <2>2. CASE Begin(o, a, b, "normal", place)
    BY <2>2, BeginLink
  <2> QED
    BY <1>1, <2>1, <2>2 DEF FromNormal
<1>2. CASE CallAccess \/ CallTouch
  BY <1>1, <1>2 DEF CallAccess, CallTouch
<1>3. CASE CallBlock
  <2>1. PICK b \in Blocks : Begin("block", 0, b, "block", "return") /\ ~LeftOn
    BY <1>3 DEF CallBlock, FromAnyLevel
  <2>2. doubt \/ level = MODE_NORMAL
    BY <2>1, NormalKnown DEF Begin
  <2> QED
    BY <2>1, <2>2, BeginLink
<1>4. CASE CallPower
  <2>1. PICK o, a, place : Begin(o, a, <<>>, place, "return") /\ place \in {"power", "sample"}
    BY <1>4 DEF CallPower, FromAnyLevel
  <2> QED
    BY <2>1, BeginLink
<1>5. CASE CallLevel
  <2>1. CASE Begin("level", MODE_NORMAL, <<>>, "normal", "return")
    BY <2>1, BeginLink
  <2>2. CASE ULevel # MODE_STRONG5 /\ Begin("level", MODE_STRONG5, <<>>, "strong", "return")
    <3>1. ULevel = MODE_NORMAL
      BY <2>2 DEF TypeOK
    <3>2. doubt \/ level = MODE_NORMAL
      BY <2>2, <3>1, NormalKnown DEF Begin
    <3> QED
      BY <2>2, <3>2, BeginLink
  <2> QED
    BY <1>5, <2>1, <2>2 DEF CallLevel
\* The baud rate is the other one when the speed is.
<1>6. CASE CallSpeed
  <2>1. PICK new \in {MODE_NORMAL, MODE_OVERDRIVE} :
          LET speed == IF new = MODE_OVERDRIVE THEN SPEEDSEL_OD ELSE SPEEDSEL_FLEX
              rate  == IF new = MODE_OVERDRIVE THEN PARMSET_115200 ELSE PARMSET_9600
          IN /\ USpeed # speed
             /\ Begin("speed", new, <<>>, IF UBaud = rate THEN "speed" ELSE "baud", "return")
             /\ USpeed' = IF UBaud = rate THEN speed ELSE USpeed
    BY <1>6 DEF CallSpeed
  <2>2. pc = "idle"
    BY <2>1 DEF Begin
  <2>3. USpeed \in {SPEEDSEL_FLEX, SPEEDSEL_OD} /\ UBaud \in {PARMSET_9600, PARMSET_115200}
        /\ (USpeed = SPEEDSEL_OD <=> UBaud = PARMSET_115200)
    BY <2>2 DEF CallInv, SpeedInv, Fits, TypeOK
  <2>4. Begin("speed", new, <<>>, "baud", "return")
    BY <2>1, <2>3 DEF SPEEDSEL_FLEX, SPEEDSEL_OD, PARMSET_9600, PARMSET_115200
  <2> QED
    BY <2>4, BeginLink
<1> QED
  BY <1>2, <1>3, <1>4, <1>5, <1>6 DEF Call

-----------------------------------------------------------------------------

IInv == TypeOK /\ SpeedInv /\ CallInv /\ DetectInv /\ LinkInv

LEMMA LinkNext == ASSUME IInv, [Next]_vars PROVE LinkInv'
<1> USE DEF IInv
<1>1. CASE UNCHANGED vars \/ Quiet
  <2>1. UNCHANGED <<host, pc, back, sent, call, wire, adapter, seen, doubt>>
    BY <1>1 DEF vars, Quiet
  <2>2. UNCHANGED <<UMode, UBaud, USpeed, ULevel, pc, back, sent, op, arg, tran_buf, ret, out, in,
                    mode, baud, level, seen, doubt>>
    BY <2>1 DEF host, call, wire, adapter
  <2>3. /\ Packet' = Packet /\ Need' = Need /\ PowerBits' = PowerBits /\ Block' = Block
        /\ Mode' = Mode /\ NewBaud' = NewBaud /\ (AtPacket <=> AtPacket')
    BY <2>2, Same
  <2>4. InStep' = InStep /\ LeftOn' = LeftOn /\ Listens' = Listens /\ Obeyed' = Obeyed
    BY <2>2 DEF InStep, LeftOn, Listens, Obeyed
  <2>5. Ready' = Ready /\ Rested' = Rested
    BY <2>2, <2>4 DEF Ready, Rested
  <2>6. Bits(arg)' = Bits(arg)
    BY <2>2 DEF Bits
  <2>7. SuccessIsTrue' = SuccessIsTrue
    BY <2>2, <2>6 DEF SuccessIsTrue
  <2>8. /\ Lost' = Lost /\ Deaf' = Deaf /\ Unset' = Unset /\ Swallowed' = Swallowed
        /\ Stopping' = Stopping /\ Prefixed' = Prefixed /\ Begun' = Begun
    BY <2>2, <2>3, <2>4 DEF Lost, Deaf, Unset, Swallowed, Stopping, Prefixed, Begun
  <2>9. TakenData' = TakenData
    BY <2>2, <2>3, <2>4 DEF TakenData, Taken
  <2>10. TakenOne' = TakenOne
    BY <2>2, <2>3, <2>4 DEF TakenOne
  <2>11. TakenStrong' = TakenStrong /\ TakenSample' = TakenSample /\ Speeding' = Speeding
    BY <2>2, <2>3, <2>4 DEF TakenStrong, TakenSample, Speeding
  <2>12. TakenPower' = TakenPower
    BY <2>2, <2>3, <2>4, <2>6 DEF TakenPower
  <2>13. Underway' = Underway
    BY <2>8, <2>9, <2>10, <2>11, <2>12 DEF Underway
  <2> QED
    BY <2>2, <2>3, <2>5, <2>7, <2>13 DEF LinkInv
<1>2. CASE Drop
  BY <1>2 DEF Drop, LinkInv
<1>3. CASE WriteFails \/ NoAnswer
  BY <1>3, Places DEF WriteFails, NoAnswer, Resync, GoTo, LinkInv, AtPacket
<1>4. CASE DS2480Try \/ TryAgain
  BY <1>4, Places DEF DS2480Try, TryAgain, Tried, GoTo, LinkInv, AtPacket
<1>5. CASE NotDetected
  BY <1>5 DEF NotDetected, LinkInv
<1>6. CASE owAcquire \/ owRelease \/ Killed
  BY <1>6, Places DEF owAcquire, owRelease, Killed, Exit, GoTo, LinkInv, AtPacket
<1> QED
  BY <1>1, <1>2, <1>3, <1>4, <1>5, <1>6, CallLink, SendLink, TakeLink, CutLink, LevelNormalLink,
     TouchResetLink, TouchLink, LevelStrongLink, WritePowerLink, ReadPowerLink, ChangeBaudLink,
     BaudReadLink, SpeedSentLink, DetectedLink DEF Next, Host

LEMMA Inductive == Spec => []IInv
<1>1. Init => IInv
  <2>1. Init => DetectInv /\ LinkInv
    BY Places DEF Init, DetectInv, LinkInv, AtPacket
  <2> QED
    BY <2>1, HostInit, SpeedInit DEF IInv
<1>2. IInv /\ [Next]_vars => IInv'
  BY HostNext, SpeedNext, DetectNext, LinkNext DEF IInv
<1> QED
  BY <1>1, <1>2, PTL DEF Spec

\* Between calls the host knows the mode and the baud rate of the adapter, whatever has
\* been cut off, lost or answered wrongly in the calls before, unless it has given up.
THEOREM StaysInStep == Spec => []InStepUnlessInDoubt
<1>1. IInv => InStepUnlessInDoubt
  BY DEF IInv, LinkInv, Rested, InStepUnlessInDoubt
<1> QED
  BY <1>1, Inductive, PTL

\* The strong pullup is not left on by a call that has not said so, nor forgotten.
THEOREM PowerIsKnown == Spec => []NoHiddenPower
<1>1. IInv => NoHiddenPower
  BY DEF IInv, LinkInv, Rested, NoHiddenPower, PowerKnown
<1> QED
  BY <1>1, Inductive, PTL

\* What a call reports has been on the line, bit by bit, for blocks of any length and
\* content: the bytes that change the mode are never taken for data, nor data for them.
THEOREM SuccessTrue == Spec => []SuccessIsTrue
<1>1. IInv => SuccessIsTrue
  BY DEF IInv, LinkInv, SuccessIsTrue
<1> QED
  BY <1>1, Inductive, PTL
===============================================================================
