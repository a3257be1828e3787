------------------------- MODULE Stm32ProgramProofs -------------------------
(***************************************************************************)
(* That dfu-programmer writes to an STM32 what it is asked to, where it    *)
(* belongs, that what it reports is so, and that it leaves no download in  *)
(* the device for the next process: for memories, blocks, sectors and      *)
(* pages of any size, any requests and hex files, and any failures.        *)
(*                                                                         *)
(* A download waits in the device only in the state dfuDNLOAD-SYNC, and a  *)
(* status request that is answered makes the device execute it, whether it *)
(* then succeeds or not (IInv).  A block that waits is safe: pointer and   *)
(* transaction make up the address its bytes are meant for (FlashInv).     *)
(* That the image has the bytes of the hex file where the file says is     *)
(* shown of intel_hex_to_buffer first (ImageIs).                           *)
(***************************************************************************)
EXTENDS Stm32Program, WellFoundedInduction, TLAPS

Ops == {"none", "ptr", "erase", "write", "leave"}

\* A device as a record of which only these fields matter here.
Shaped(d) == {"state", "ok", "ptr", "todo", "mem"} \subseteq DOMAIN d /\ d.state \in States
Clean(d)  == Shaped(d) /\ d.todo = Nothing
Waits(d)  ==
  /\ Shaped(d) /\ d.todo.op \in Ops
  /\ d.state # "dnSync" => d.todo = Nothing

-----------------------------------------------------------------------------
(* What the requests do to a device.                                        *)

LEMMA FailedClean == ASSUME NEW d, Shaped(d) PROVE Clean(Failed(d))
  BY DEF Failed, Clean, Shaped, States

LEMMA ToClean == ASSUME NEW d, NEW s \in States, Clean(d) PROVE Clean(To(d, s))
  BY DEF To, Clean, Shaped

LEMMA CleanWaits == ASSUME NEW d, Clean(d) PROVE Waits(d)
  BY DEF Clean, Waits, Nothing, Ops

LEMMA RestartedClean == ASSUME NEW d, NEW s \in States, Shaped(d) PROVE Clean(Restarted(d, s))
  BY DEF Restarted, Clean, Shaped

\* A download is forgotten once it has been executed, also when the device refuses it.
LEMMA ExecuteClean == ASSUME NEW d, Shaped(d), d.todo.op \in Ops PROVE Clean(Execute(d))
<1> DEFINE done == [d EXCEPT !.state = "dnBusy", !.ok = TRUE, !.todo = Nothing]
           not  == [d EXCEPT !.state = "dnBusy", !.ok = FALSE, !.todo = Nothing]
<1>1. Clean(done) /\ Clean(not)
  BY DEF Clean, Shaped, States
<1>2. /\ \A x : Clean([done EXCEPT !.ptr = x]) /\ Clean([done EXCEPT !.mem = x])
      /\ Clean([done EXCEPT !.state = "app"])
  <2> HIDE DEF done
  <2> QED
    BY <1>1 DEF Clean, Shaped, States
<1>3. CASE d.todo.op = "none"
  BY <1>1, <1>3 DEF Execute
<1>4. CASE d.todo.op = "ptr"
  BY <1>2, <1>4 DEF Execute
<1>5. CASE d.todo.op = "leave"
  BY <1>2, <1>5 DEF Execute
<1>6. CASE d.todo.op = "erase"
  BY <1>1, <1>2, <1>6 DEF Execute
<1>7. CASE d.todo.op = "write"
  BY <1>1, <1>2, <1>7 DEF Execute
<1> QED
  BY <1>3, <1>4, <1>5, <1>6, <1>7 DEF Ops

LEMMA PolledClean == ASSUME NEW d, Waits(d) PROVE Clean(Polled(d))
  BY ExecuteClean, FailedClean, ToClean DEF Polled, Clean, Waits, States

LEMMA RefusesWaits == ASSUME NEW d, Waits(d) PROVE \A e \in Refuses(d) : Waits(e)
  BY FailedClean, CleanWaits DEF Refuses, Waits

LEMMA ClearedWaits == ASSUME NEW d, Waits(d) PROVE \A e \in Cleared(d) : Waits(e)
<1>1. CASE d.state = "error"
  BY <1>1 DEF Cleared, Waits, Shaped, States
<1>2. CASE d.state # "error"
  BY <1>2, RefusesWaits DEF Cleared
<1> QED
  BY <1>1, <1>2

LEMMA ClearedClean == ASSUME NEW d, Clean(d) PROVE \A e \in Cleared(d) : Clean(e)
<1>1. CASE d.state = "error"
  BY <1>1 DEF Cleared, Clean, Shaped, States
<1>2. CASE d.state # "error"
  BY <1>2, FailedClean DEF Cleared, Refuses, Clean
<1> QED
  BY <1>1, <1>2

LEMMA AbortedWaits == ASSUME NEW d, Waits(d) PROVE \A e \in Aborted(d) : Waits(e)
<1>1. CASE d.state \in {"dnSync", "dnIdle", "upIdle", "manSync"}
  <2>1. Aborted(d) = {[d EXCEPT !.state = "idle", !.todo = Nothing]}
    BY <1>1 DEF Aborted
  <2>2. Clean([d EXCEPT !.state = "idle", !.todo = Nothing])
    BY DEF Waits, Clean, Shaped, States
  <2> QED
    BY <2>1, <2>2, CleanWaits
<1>2. CASE d.state \in {"dnBusy", "manifest"}
  BY <1>2, FailedClean, CleanWaits DEF Aborted, Waits
<1>3. CASE d.state \notin {"dnSync", "dnIdle", "upIdle", "manSync", "dnBusy", "manifest"}
  BY <1>3, RefusesWaits DEF Aborted
<1> QED
  BY <1>1, <1>2, <1>3

LEMMA DetachedWaits == ASSUME NEW d, Waits(d) PROVE \A e \in Detached(d) : Waits(e)
<1>1. CASE d.state = "appIdle"
  BY <1>1, ToClean, CleanWaits DEF Detached, Waits, Clean, States
<1>2. CASE d.state # "appIdle"
  BY <1>2, RefusesWaits DEF Detached
<1> QED
  BY <1>1, <1>2

-----------------------------------------------------------------------------
(* What comes back from a request.                                          *)

\* The states an answer may name: never that of a device that has left DFU mode.
Told(s) ==
  /\ Waits(s.dev)
  /\ s.ok => Clean(s.dev)
  /\ s.state \in States \ {"app"}

LEMMA StatusTold == ASSUME Waits(dev) PROVE \A s \in GetStatus : Told(s)
<1>1. Clean(Polled(dev)) /\ Waits(Polled(dev))
  BY PolledClean, CleanWaits
<1>2. dev.state # "app" => ToldState(dev) \in States \ {"app"}
  <2>1. dev.state \in States
    BY DEF Waits, Shaped
  <2>2. CASE dev.state = "dnSync"
    BY <2>2 DEF ToldState, States
  <2>3. CASE dev.state = "dnBusy"
    <3>1. Polled(dev) = To(dev, "dnIdle") \/ Polled(dev) = Failed(dev)
      BY <2>3 DEF Polled
    <3>2. To(dev, "dnIdle").state = "dnIdle" /\ Failed(dev).state = "error"
      BY DEF To, Failed, Waits, Shaped
    <3> QED
      BY <2>3, <3>1, <3>2 DEF ToldState, States
  <2>4. CASE dev.state \in {"manSync", "manifest"}
    <3>1. Polled(dev) = To(dev, "manifest") \/ Polled(dev) = To(dev, "waitReset")
      BY <2>4 DEF Polled
    <3>2. To(dev, "manifest").state = "manifest" /\ To(dev, "waitReset").state = "waitReset"
      BY DEF To, Waits, Shaped
    <3> QED
      BY <2>4, <3>1, <3>2 DEF ToldState, States
  <2>5. CASE dev.state \notin {"dnSync", "dnBusy", "manSync", "manifest"}
    BY <2>1, <2>5 DEF ToldState, Polled
  <2> QED
    BY <2>2, <2>3, <2>4, <2>5
<1> QED
  BY <1>1, <1>2 DEF GetStatus, Told, States

\* A status that is good is that of a device that has executed its download.
LEMMA CheckedWaits ==
  ASSUME Waits(dev)
  PROVE  \A s \in StatusChecked : Waits(s.dev) /\ (s.good => Clean(s.dev))
<1> SUFFICES ASSUME NEW s \in GetStatus
             PROVE  /\ Waits(s.dev) /\ (s.ok => Clean(s.dev))
                    /\ \A d \in Anyhow(s.dev, Cleared(s.dev)) : Waits(d)
  BY DEF StatusChecked
<1>1. Told(s)
  BY StatusTold
<1> QED
  BY <1>1, ClearedWaits DEF Told, Anyhow

LEMMA DownloadWaits ==
  ASSUME Waits(dev), NEW t, t.op \in Ops
  PROVE  \A o \in Download(t) : Waits(o.dev)
<1>1. Waits(Dnload(dev, t))
  BY DEF Dnload, Waits, Shaped, States
<1>2. \A d \in Refuses(dev) : Waits(d)
  BY RefusesWaits
<1> QED
  BY <1>1, <1>2 DEF Download, Accepted, Refused

\* Nothing waits in a device that accepts an upload.
LEMMA UploadWaits ==
  ASSUME Waits(dev), NEW n
  PROVE  \A o \in Upload(n) : Waits(o.dev) /\ (o.good => Clean(o.dev))
<1>1. CASE MayUpload(dev, trans, n)
  <2>1. Clean(dev)
    BY <1>1 DEF MayUpload, Ready, Waits, Clean
  <2>2. Clean(To(dev, "upIdle"))
    BY <2>1, ToClean DEF States
  <2> QED
    BY <1>1, <2>1, <2>2, CleanWaits DEF Upload, Accepted
<1>2. CASE ~MayUpload(dev, trans, n)
  BY <1>2, FailedClean, CleanWaits DEF Upload, Waits
<1> QED
  BY <1>1, <1>2

LEMMA NudgedWaits ==
  ASSUME NEW s, Told(s), s.state \notin {"appDetach", "waitReset"}
  PROVE  \A d \in Anyhow(s.dev, Nudged(s)) : Waits(d)
<1>1. Waits(s.dev)
  BY DEF Told
<1>2. /\ \A d \in Aborted(s.dev) : Waits(d)
      /\ \A d \in Cleared(s.dev) : Waits(d)
      /\ \A d \in Detached(s.dev) : Waits(d)
  BY <1>1, AbortedWaits, ClearedWaits, DetachedWaits
<1>3. \A d \in Nudged(s) : Waits(d)
  BY <1>2 DEF Nudged, Told, States
<1> QED
  BY <1>1, <1>3 DEF Anyhow

-----------------------------------------------------------------------------
(* The invariant.                                                           *)

\* What comes after the address pointer depends on what it has been set for.
Jobs == {"write", "read", "launch"}
Transfers == {"ptrCheck", "ptrSend", "ptrRun", "ptrDone", "put", "putRun", "putDone",
              "getCheck", "get"}
JobKnown == pc \in Transfers => job \in Jobs

\* Before it compares what it has read, a process has nothing in the device.
IInv ==
  /\ Waits(dev)
  /\ JobKnown
  /\ pc = "validate" => dev.todo = Nothing
  /\ NothingPending

\* What a step of a process does to keep it.
Keeps ==
  /\ Waits(dev')
  /\ pc' = "validate" \/ (pc' = "idle" /\ ret' = "ok") => Clean(dev')

LEMMA InitInv == Init => IInv
  BY DEF Init, IInv, JobKnown, Transfers, NothingPending, Waits, Shaped, Nothing, Ops

LEMMA KeepsInv == Keeps /\ JobKnown' => IInv'
  BY DEF Keeps, IInv, NothingPending, Clean

\* An end without success, or none at all, needs nothing but the device.
LEMMA FailKeeps == Waits(dev') /\ Exit("fail") => Keeps
  BY DEF Keeps, Exit

LEMMA GotoKeeps ==
  ASSUME NEW place, place \notin {"idle", "validate"}, Waits(dev'), Goto(place)
  PROVE  Keeps
  BY DEF Keeps, Goto

LEMMA CheckKeeps ==
  ASSUME NEW here, NEW there, there \notin {"idle", "validate"}, Waits(dev), Check(here, there)
  PROVE  Keeps
<1>1. PICK s \in StatusChecked : dev' = s.dev /\ IF s.good THEN Goto(there) ELSE Exit("fail")
  BY DEF Check
<1>2. Waits(dev')
  BY <1>1, CheckedWaits
<1> QED
  BY <1>1, <1>2, GotoKeeps, FailKeeps

LEMMA CheckLastKeeps == ASSUME NEW here, Waits(dev), CheckLast(here) PROVE Keeps
<1>1. PICK s \in StatusChecked : dev' = s.dev /\ Exit(IF s.good THEN "ok" ELSE "fail")
  BY DEF CheckLast
<1>2. Waits(dev') /\ (s.good => Clean(dev'))
  BY <1>1, CheckedWaits
<1>3. CASE s.good
  BY <1>1, <1>2, <1>3 DEF Exit, Keeps
<1>4. CASE ~s.good
  BY <1>1, <1>2, <1>4, FailKeeps
<1> QED
  BY <1>3, <1>4

LEMMA SendKeeps ==
  ASSUME NEW here, NEW t, t.op \in Ops, NEW there, there \notin {"idle", "validate"},
         Waits(dev), Send(here, t, there)
  PROVE  Keeps
<1>1. PICK o \in Download(t) : dev' = o.dev /\ IF o.good THEN Goto(there) ELSE Exit("fail")
  BY DEF Send
<1>2. Waits(dev')
  BY <1>1, DownloadWaits
<1> QED
  BY <1>1, <1>2, GotoKeeps, FailKeeps

-----------------------------------------------------------------------------
(* The steps of a process.                                                  *)

LEMMA MakeIdleKeeps == ASSUME Waits(dev), MakeIdle PROVE Keeps
<1>1. CASE NotFound \/ Found \/ NotIdle
  BY <1>1 DEF NotFound, Found, NotIdle, Goto, Keeps
<1>2. CASE AskAgain
  <2>1. PICK s \in GetStatus : dev' \in Anyhow(s.dev, Cleared(s.dev))
    BY <1>2 DEF AskAgain
  <2>2. Waits(s.dev)
    BY StatusTold DEF Told
  <2>3. Waits(dev')
    BY <2>1, <2>2, ClearedWaits DEF Anyhow
  <2> QED
    BY <1>2, <2>3, GotoKeeps DEF AskAgain
<1>3. CASE MakeIdleDone
  <2>1. Waits(dev')
    BY <1>3, StatusTold DEF MakeIdleDone, Told
  <2> QED
    BY <1>3, <2>1, GotoKeeps DEF MakeIdleDone
<1>4. CASE Nudge
  <2>1. PICK s \in GetStatus :
          s.state \notin {"appDetach", "waitReset"} /\ dev' \in Anyhow(s.dev, Nudged(s))
    BY <1>4 DEF Nudge
  <2>2. Waits(dev')
    BY <2>1, StatusTold, NudgedWaits
  <2> QED
    BY <1>4, <2>2, GotoKeeps DEF Nudge
<1>5. CASE Reset
  <2>1. PICK s \in GetStatus :
          (\E t \in ResetStates(s.dev) : dev' = Restarted(s.dev, t)) \/ dev' = s.dev
    BY <1>5 DEF Reset
  <2>2. Waits(s.dev)
    BY StatusTold DEF Told
  <2>3. Waits(dev')
    BY <2>1, <2>2, RestartedClean, CleanWaits DEF ResetStates, States, Waits
  <2> QED
    BY <1>5, <2>3, GotoKeeps DEF Reset
<1> QED
  BY <1>1, <1>2, <1>3, <1>4, <1>5 DEF MakeIdle

\* The commands begin without a word to the device.
LEMMA StartKeeps ==
  ASSUME Waits(dev),
         StartErase \/ StartFlash \/ StartRead \/ StartLaunch \/ NotSupported
  PROVE  Keeps
<1>1. Waits(dev')
  BY DEF StartErase, StartFlash, StartRead, StartLaunch, NotSupported
<1>2. Exit("fail") \/ \E place \in {"ptrCheck", "getCheck", "erase"} : Goto(place)
  BY DEF StartErase, StartFlash, StartRead, StartLaunch, NotSupported
<1> QED
  BY <1>1, <1>2, GotoKeeps, FailKeeps

LEMMA CommandOps == \A op \in Ops : \A at : Command(op, at).op \in Ops
  BY DEF Command

LEMMA EraseKeeps == ASSUME Waits(dev), Erase PROVE Keeps
<1>1. Command("erase", 0).op \in Ops
  BY CommandOps DEF Ops
<1> QED
  BY <1>1, SendKeeps, CheckKeeps, CheckLastKeeps DEF Erase

LEMMA SetAddressPtrKeeps == ASSUME Waits(dev), JobKnown, SetAddressPtr PROVE Keeps
<1>1. Command("ptr", start).op \in Ops
  BY CommandOps DEF Ops
<1>2. CASE Check("ptrCheck", "ptrSend") \/ Check("ptrRun", "ptrDone")
  BY <1>2, CheckKeeps
<1>3. CASE Send("ptrSend", Command("ptr", start), "ptrRun")
  BY <1>1, <1>3, SendKeeps
<1>4. CASE PtrDone
  <2>1. PICK s \in StatusChecked :
          /\ dev' = s.dev
          /\ \/ Goto([write |-> "put", read |-> "getCheck", launch |-> "goCheck"][job])
             \/ Exit("fail")
    BY <1>4 DEF PtrDone
  <2>2. Waits(dev')
    BY <2>1, CheckedWaits
  <2>3. job \in Jobs
    BY <1>4 DEF PtrDone, JobKnown, Transfers
  <2> QED
    BY <2>1, <2>2, <2>3, GotoKeeps, FailKeeps DEF Jobs
<1> QED
  BY <1>2, <1>3, <1>4 DEF SetAddressPtr

LEMMA StartAppKeeps == ASSUME Waits(dev), StartApp PROVE Keeps
<1>1. Command("leave", 0).op \in Ops
  BY CommandOps DEF Ops
<1> QED
  BY <1>1, SendKeeps, CheckKeeps, CheckLastKeeps DEF StartApp

LEMMA WriteBlockKeeps == ASSUME Waits(dev), WriteBlock PROVE Keeps
<1>1. CASE Put
  <2>1. PICK bytes : \E o \in Download([bytes |-> bytes, op |-> "write", at |-> trans]) :
                       dev' = o.dev /\ IF o.good THEN Goto("putRun") ELSE Exit("fail")
    BY <1>1 DEF Put
  <2>2. [bytes |-> bytes, op |-> "write", at |-> trans].op \in Ops
    BY DEF Ops
  <2>3. Waits(dev')
    BY <2>1, <2>2, DownloadWaits
  <2> QED
    BY <2>1, <2>3, GotoKeeps, FailKeeps
<1>2. CASE Check("putRun", "putDone")
  BY <1>2, CheckKeeps
<1>3. CASE PutDone
  <2>1. PICK s \in StatusChecked :
          /\ dev' = s.dev
          /\ \/ Exit("fail")
             \/ s.good /\ Exit("ok")
             \/ \E place \in {"put", "ptrCheck", "getCheck"} : Goto(place)
    BY <1>3 DEF PutDone
  <2>2. Waits(dev') /\ (s.good => Clean(dev'))
    BY <2>1, CheckedWaits
  <2>3. CASE s.good /\ Exit("ok")
    BY <2>2, <2>3 DEF Keeps, Exit
  <2> QED
    BY <2>1, <2>2, <2>3, GotoKeeps, FailKeeps
<1> QED
  BY <1>1, <1>2, <1>3 DEF WriteBlock

LEMMA ReadBlockKeeps == ASSUME Waits(dev), ReadBlock PROVE Keeps
<1>1. CASE Check("getCheck", "get")
  BY <1>1, CheckKeeps
<1>2. CASE Get
  <2>1. PICK o \in Upload(GetEnd - start + 1) : o.good /\ dev' = o.dev
    BY <1>2 DEF Get
  <2> QED
    BY <2>1, UploadWaits DEF Keeps
<1>3. CASE GetFails
  <2>1. PICK o \in Upload(GetEnd - start + 1) : dev' \in {o.dev} \cup Cleared(o.dev)
    BY <1>3 DEF GetFails
  <2>2. Waits(o.dev)
    BY UploadWaits
  <2>3. Waits(dev')
    BY <2>1, <2>2, ClearedWaits
  <2> QED
    BY <1>3, <2>3, FailKeeps DEF GetFails
<1> QED
  BY <1>1, <1>2, <1>3 DEF ReadBlock

LEMMA ValidateKeeps == ASSUME IInv, Validate PROVE Keeps
<1>1. Clean(dev) /\ dev' = dev
  BY DEF IInv, Validate, Waits, Clean
<1> QED
  BY <1>1, CleanWaits DEF Keeps

-----------------------------------------------------------------------------
(* The theorem.                                                             *)

LEMMA JobStays ==
  ASSUME JobKnown, Process
  PROVE  JobKnown'
<1> USE DEF JobKnown, Transfers, Jobs
<1>1. CASE GetsIdle
  BY <1>1 DEF GetsIdle, host, MakeIdle, NotFound, Found, NotIdle, AskAgain, MakeIdleDone, Nudge,
              Reset, Goto
<1>2. CASE StartErase \/ StartFlash \/ StartRead \/ StartLaunch \/ NotSupported
  BY <1>2 DEF StartErase, StartFlash, StartRead, StartLaunch, NotSupported, Goto, Exit, host
<1>3. CASE Erase
  BY <1>3 DEF Erase, Send, Check, CheckLast, Goto, Exit, host
<1>4. CASE SetAddressPtr
  BY <1>4 DEF SetAddressPtr, Send, Check, PtrDone, Goto, Exit, host
<1>5. CASE StartApp
  BY <1>5 DEF StartApp, Send, Check, CheckLast, Goto, Exit, host
<1>6. CASE WriteBlock
  <2>1. CASE Put \/ Check("putRun", "putDone")
    BY <1>6, <2>1 DEF Put, Check, Goto, Exit, host
  <2>2. CASE PutDone
    BY <2>2 DEF PutDone, Goto, Exit
  <2> QED
    BY <1>6, <2>1, <2>2 DEF WriteBlock
<1>7. CASE ReadBlock
  BY <1>7 DEF ReadBlock, Check, Get, GetFails, Goto, Exit, host
<1>8. CASE Validate
  BY <1>8 DEF Validate, Exit, host
<1> QED
  BY <1>1, <1>2, <1>3, <1>4, <1>5, <1>6, <1>7, <1>8 DEF Process

LEMMA ProcessKeeps == ASSUME IInv, Process PROVE Keeps
  BY MakeIdleKeeps, StartKeeps, EraseKeeps, SetAddressPtrKeeps, StartAppKeeps, WriteBlockKeeps,
     ReadBlockKeeps, ValidateKeeps
  DEF Process, GetsIdle, IInv

\* Every step keeps the invariant: a conversion leaves the device to the process
\* before, whatever that has come to.
THEOREM Inductive == IInv /\ [Next]_vars => IInv'
<1> SUFFICES ASSUME IInv, [Next]_vars PROVE IInv'
  OBVIOUS
<1>1. CASE Process
  BY <1>1, ProcessKeeps, JobStays, KeepsInv DEF IInv
<1>2. CASE Replug
  <2>1. Waits(dev')
    BY <1>2, RestartedClean, CleanWaits DEF Replug, IInv, Waits, States
  <2> QED
    BY <1>2, <2>1 DEF Replug, IInv, JobKnown, Transfers, NothingPending
<1>3. ASSUME NEW r \in Requests, Begin(r) PROVE IInv'
  BY <1>3 DEF Begin, IInv, JobKnown, Transfers, NothingPending
<1>4. ASSUME NEW r \in Requests, Convert(r) PROVE IInv'
  BY <1>4 DEF Convert, IInv, JobKnown, Transfers, NothingPending
<1>5. CASE UNCHANGED vars
  BY <1>5 DEF vars, dfu, host, IInv, JobKnown, NothingPending
<1> QED
  BY <1>1, <1>2, <1>3, <1>4, <1>5 DEF Next

\* A process that reports success leaves nothing in the device for the first status
\* request of the next process to execute, whatever was found in the device, whatever
\* requests failed or were answered short in this process or in those before it, and
\* in whatever order the commands came.
THEOREM NothingIsPending == Spec => []NothingPending
<1>1. IInv => NothingPending
  BY DEF IInv
<1> QED
  BY <1>1, InitInv, Inductive, PTL DEF Spec
-----------------------------------------------------------------------------
(* Numbers.                                                                 *)

LEMMA LeastNumber ==
  ASSUME NEW S \in SUBSET Nat, S # {}
  PROVE  \E i \in S : \A j \in S : i <= j
<1> DEFINE R == {p \in Nat \X Nat : p[1] < p[2]}
<1>1. IsWellFoundedOn(R, Nat)
  BY NatLessThanWellFounded DEF OpToRel
<1> HIDE DEF R
<1>2. PICK x \in S : \A y \in S : ~(<<y, x>> \in R)
  BY <1>1, WFMin
<1>3. ASSUME NEW y \in S, y < x PROVE FALSE
  <2>1. <<y, x>> \in Nat \X Nat /\ <<y, x>>[1] < <<y, x>>[2]
    BY <1>3
  <2> QED
    BY <1>2, <1>3, <2>1 DEF R
<1> QED
  BY <1>3

\* A set of numbers up to some n has a greatest one.
LEMMA MaxIs ==
  ASSUME NEW n \in Nat, NEW S \in SUBSET (0..n), S # {}
  PROVE  Max(S) \in S /\ \A x \in S : Max(S) >= x
<1> DEFINE T == {n - x : x \in S}
<1>0. \A x \in S : x \in Nat /\ n - x \in Nat
  OBVIOUS
<1> HIDE DEF T
<1>1. T \in SUBSET Nat /\ T # {}
  BY <1>0 DEF T
<1>2. PICK t \in T : \A u \in T : t <= u
  BY <1>1, LeastNumber
<1>3. PICK x \in S : t = n - x
  BY DEF T
<1>4. ASSUME NEW y \in S PROVE x >= y
  <2>1. n - y \in T
    BY DEF T
  <2> QED
    BY <1>0, <1>2, <1>3, <2>1
<1> QED
  BY <1>4 DEF Max

\* A number is divided in one way only.
LEMMA Division ==
  ASSUME NEW m \in Nat \ {0}, NEW q \in Int, NEW r \in 0 .. m - 1
  PROVE  (m * q + r) % m = r
<1> DEFINE y == m * q + r
           p == y \div m
           s == y % m
<1>0. m * q \in Int
  OBVIOUS
<1>1. y \in Int
  BY <1>0
<1> HIDE DEF y
<1>2. p \in Int /\ s \in 0 .. m - 1
  BY <1>1
<1>3. y = m * p + s
  BY <1>1
<1> HIDE DEF p, s
<1>4. m * (q - p) = s - r
  BY <1>2, <1>3 DEF y
<1> DEFINE w == q - p
<1>5. w \in Int /\ m * w = s - r
  BY <1>2, <1>4
<1> HIDE DEF w
<1>6. m * w < m /\ -m < m * w
  BY <1>2, <1>5
<1>7. w = 0
  <2>1. CASE w >= 1
    BY <1>5, <1>6, <2>1
  <2>2. CASE w <= -1
    BY <1>5, <1>6, <2>2
  <2> QED
    BY <1>5, <2>1, <2>2
<1>8. s = r
  BY <1>2, <1>5, <1>7
<1> QED
  BY <1>8 DEF s, y

\* The remainder of a sum does not change when that of a part is taken first.
LEMMA ModSum ==
  ASSUME NEW a \in Nat, NEW b \in Nat, NEW m \in Nat \ {0}
  PROVE  ((a % m) + b) % m = (a + b) % m
<1> DEFINE q == a \div m
           s == (a % m) + b
           p == s \div m
           r == s % m
<1>1. a % m \in 0 .. m - 1
  OBVIOUS
<1>2. q \in Nat
  OBVIOUS
<1>3. a = m * q + (a % m)
  OBVIOUS
<1>4. s \in Nat
  BY <1>1
<1>5. a + b = m * q + s
  BY <1>1, <1>2, <1>3
<1> HIDE DEF q, s
<1>6. r \in 0 .. m - 1 /\ p \in Nat /\ s = m * p + r
  BY <1>4
<1> HIDE DEF p, r
<1>7. a + b = m * (q + p) + r
  BY <1>2, <1>5, <1>6
<1> DEFINE u == q + p
<1>8. (m * u + r) % m = r
  <2>1. u \in Int
    BY <1>2, <1>6
  <2> HIDE DEF u
  <2> QED
    BY <1>6, <2>1, Division
<1> QED
  BY <1>7, <1>8 DEF r, s

-----------------------------------------------------------------------------
(* What the image of a hex file has to do with what the file says.          *)

LEMMA Sizes ==
  /\ Size \in Nat \ {0} /\ STM32_MAX_TRANSFER_SIZE \in Nat \ {0} /\ PageSize \in Nat \ {0}
  /\ STM32_FLASH_OFFSET \in Nat /\ AddressSpace \in Nat \ {0}
  /\ STM32_FLASH_OFFSET + Size <= AddressSpace /\ IHEX_64KB_PAGE \in Nat
  /\ Blank \in Byte /\ Unset \notin Byte
  BY ProgramAssumption, DeviceAssumption, HexAssumption, ByteAssumption

LEMMA FlashRequest ==
  ASSUME NEW r \in Requests
  PROVE  /\ r.file \in Seq(Record) /\ r.serial.address \in Nat /\ r.serial.data \in Seq(Byte)
         /\ r.validate \in BOOLEAN /\ r.force \in BOOLEAN
         /\ r.name \in {"erase", "flash", "read", "launch", "other", "bin2hex", "hex2bin"}
  BY ProgramAssumption

\* Cell c holds the bytes for the address c after the start of a memory.
LEMMA CellIs ==
  ASSUME NEW target \in Nat, target + Size <= AddressSpace, NEW x \in Nat, NEW c \in Cells
  PROVE  CellOf(x, target, Size) = c <=> x % AddressSpace = c + target
<1>1. target % AddressSpace = target
  BY Sizes
<1>2. x % AddressSpace \in Nat
  BY Sizes
<1> QED
  BY <1>1, <1>2, Sizes DEF CellOf, Cells

\* The bytes of one run of data for a cell are those it says for the address.
LEMMA RunIs ==
  ASSUME NEW f \in Nat, NEW data \in Seq(Byte), NEW a \in Nat
  PROVE  LET b == {k \in DOMAIN data : (f + k - 1) % AddressSpace = a}
         IN /\ a \in DOMAIN RunSays(f, data) <=> b # {}
            /\ b # {} => RunSays(f, data)[a] = data[Max(b)] /\ data[Max(b)] \in Byte
<1> DEFINE b == {k \in DOMAIN data : (f + k - 1) % AddressSpace = a}
           d == {(f + k - 1) % AddressSpace : k \in DOMAIN data}
<1>1. DOMAIN RunSays(f, data) = d
  BY DEF RunSays
<1>2. a \in d <=> b # {}
  OBVIOUS
<1>3. ASSUME b # {} PROVE RunSays(f, data)[a] = data[Max(b)] /\ data[Max(b)] \in Byte
  <2>1. b \in SUBSET (0 .. Len(data)) /\ Len(data) \in Nat
    OBVIOUS
  <2>2. Max(b) \in b
    BY <1>3, <2>1, MaxIs
  <2> QED
    BY <1>2, <1>3, <2>2 DEF RunSays
<1> QED
  BY <1>1, <1>2, <1>3

\* The offset that holds at a record, with and without the top bit.
LEMMA OffsetsAgree ==
  ASSUME NEW file \in Seq(Record), NEW i \in DOMAIN file, NEW m \in Nat
  PROVE  /\ OffsetAt(file, i) \in Nat /\ AddressOffset(file, i) \in Nat
         /\ (AddressOffset(file, i) + m) % AddressSpace = (OffsetAt(file, i) + m) % AddressSpace
<1> DEFINE set == {j \in 1 .. i - 1 : file[j].type \in OffsetTypes}
<1>1. CASE set = {}
  BY <1>1 DEF OffsetAt, AddressOffset
<1>2. CASE set # {}
  <2>1. set \in SUBSET (0 .. Len(file)) /\ Len(file) \in Nat
    OBVIOUS
  <2>2. Max(set) \in set
    BY <1>2, <2>1, MaxIs
  <2>3. file[Max(set)].base \in Nat
    <3>1. file[Max(set)] \in Record
      BY <2>2
    <3> QED
      BY <3>1 DEF Record
  <2>4. OffsetAt(file, i) = file[Max(set)].base
    BY <1>2 DEF OffsetAt
  <2>5. AddressOffset(file, i) = file[Max(set)].base % AddressSpace
    BY <1>2 DEF AddressOffset
  <2> HIDE DEF set
  <2> DEFINE b == file[Max(set)].base
  <2>6. b % AddressSpace \in Nat
    BY <2>3, Sizes
  <2>7. ((b % AddressSpace) + m) % AddressSpace = (b + m) % AddressSpace
    <3> HIDE DEF b
    <3> QED
      BY <2>3, Sizes, ModSum DEF b
  <2> QED
    BY <2>3, <2>4, <2>5, <2>6, <2>7
<1> QED
  BY <1>1, <1>2

\* The bytes of a record for a cell are those it says for the address.
LEMMA RecordIs ==
  ASSUME NEW target \in Nat, target + Size <= AddressSpace, NEW file \in Seq(Record),
         NEW i \in DOMAIN file, NEW c \in Cells
  PROVE  LET b == BytesFor(file, i, c, target, Size)
             a == c + target
         IN /\ a \in DOMAIN RecordSays(file, i) <=> b # {}
            /\ b # {} => /\ RecordSays(file, i)[a] = file[i].data[Max(b)]
                         /\ file[i].data[Max(b)] \in Byte
<1> DEFINE a == c + target
           data == file[i].data
           f == OffsetAt(file, i) + file[i].address
           b == {k \in DOMAIN data : (f + k - 1) % AddressSpace = a}
<1>1. file[i] \in Record
  OBVIOUS
<1>2. data \in Seq(Byte) /\ file[i].address \in Nat
  BY <1>1, Sizes DEF Record
<1>3. a \in Nat
  BY Sizes DEF Cells
<1>4. f \in Nat
  <2>1. OffsetAt(file, i) \in Nat
    <3>1. 0 \in Nat
      OBVIOUS
    <3> QED
      BY <3>1, OffsetsAgree
  <2> QED
    BY <1>2, <2>1
<1>5. CASE file[i].type # 0
  BY <1>5 DEF RecordSays, BytesFor
<1>6. CASE file[i].type = 0
  <2>1. BytesFor(file, i, c, target, Size) = b
    <3>1. ASSUME NEW k \in DOMAIN data
          PROVE  CellOf(AddressOffset(file, i) + file[i].address + k - 1, target, Size) = c
                 <=> (f + k - 1) % AddressSpace = a
      <4> DEFINE m == file[i].address + (k - 1)
      <4>1. m \in Nat
        BY <1>2
      <4> HIDE DEF m
      <4>2. /\ AddressOffset(file, i) \in Nat /\ OffsetAt(file, i) \in Nat
            /\ (AddressOffset(file, i) + m) % AddressSpace = (OffsetAt(file, i) + m) % AddressSpace
        BY <4>1, OffsetsAgree
      <4>3. CellOf(AddressOffset(file, i) + m, target, Size) = c
            <=> (AddressOffset(file, i) + m) % AddressSpace = a
        <5>1. AddressOffset(file, i) + m \in Nat
          BY <4>1, <4>2
        <5> QED
          BY <5>1, CellIs
      <4>4. /\ AddressOffset(file, i) + file[i].address + k - 1 = AddressOffset(file, i) + m
            /\ f + k - 1 = OffsetAt(file, i) + m
        BY <1>2, <4>2 DEF m
      <4> QED
        BY <4>2, <4>3, <4>4
    <3> HIDE DEF f, a
    <3> QED
      BY <1>6, <3>1 DEF BytesFor
  <2>2. RecordSays(file, i) = RunSays(f, data)
    BY <1>6 DEF RecordSays
  <2> HIDE DEF f, a, data
  <2>3. /\ a \in DOMAIN RunSays(f, data) <=> b # {}
        /\ b # {} => RunSays(f, data)[a] = data[Max(b)] /\ data[Max(b)] \in Byte
    BY <1>2, <1>3, <1>4, RunIs
  <2> HIDE DEF b
  <2> QED
    BY <2>1, <2>2, <2>3 DEF a, data
<1> QED
  BY <1>5, <1>6

\* The buffer has at a cell what the file says for its address.
LEMMA BufferIs ==
  ASSUME NEW target \in Nat, target + Size <= AddressSpace, NEW file \in Seq(Record), NEW c \in Cells
  PROVE  LET a == c + target
             x == ToBuffer(file, target, Size)[c]
         IN IF a \in DOMAIN Said(file) THEN x = Said(file)[a] /\ x \in Byte ELSE x = Unset
<1> DEFINE a == c + target
           x == ToBuffer(file, target, Size)[c]
           saying == {i \in Body(file) : a \in DOMAIN RecordSays(file, i)}
           set == {i \in Body(file) : BytesFor(file, i, c, target, Size) # {}}
<1>1. Body(file) \subseteq DOMAIN file
  BY DEF Body
<1>2. saying = set
  BY <1>1, RecordIs
<1>3. a \in DOMAIN Said(file) <=> saying # {}
  BY DEF Said
<1>4. x = IF set = {} THEN Unset
          ELSE file[Max(set)].data[Max(BytesFor(file, Max(set), c, target, Size))]
  BY DEF ToBuffer, Cells
<1>5. CASE saying = {}
  BY <1>2, <1>3, <1>4, <1>5
<1>6. CASE saying # {}
  <2>1. set \in SUBSET (0 .. Len(file)) /\ Len(file) \in Nat
    BY <1>1
  <2>2. Max(set) \in set
    BY <1>2, <1>6, <2>1, MaxIs
  <2>3. Said(file)[a] = RecordSays(file, Max(saying))[a]
    BY <1>3, <1>6 DEF Said
  <2>4. x = RecordSays(file, Max(set))[a] /\ x \in Byte
    <3>1. Max(set) \in DOMAIN file /\ BytesFor(file, Max(set), c, target, Size) # {}
      BY <1>1, <2>2
    <3> HIDE DEF x, a, set
    <3>2. /\ RecordSays(file, Max(set))[a] =
               file[Max(set)].data[Max(BytesFor(file, Max(set), c, target, Size))]
          /\ file[Max(set)].data[Max(BytesFor(file, Max(set), c, target, Size))] \in Byte
      BY <3>1, RecordIs DEF a
    <3> QED
      BY <1>2, <1>4, <1>6, <3>2
  <2> HIDE DEF x, a, set, saying
  <2> QED
    BY <1>2, <1>3, <1>6, <2>3, <2>4 DEF x, a
<1> QED
  BY <1>5, <1>6

\* A cell holds what the request has for its address.
LEMMA WantedIs ==
  ASSUME NEW r \in Requests, NEW c \in Cells
  PROVE  LET a == c + STM32_FLASH_OFFSET
             x == Wanted(r)[c]
         IN IF a \in DOMAIN Meant(r) THEN x = Meant(r)[a] /\ x \in Byte ELSE x = Unset
<1> DEFINE a == c + STM32_FLASH_OFFSET
           buffer == ToBuffer(r.file, STM32_FLASH_OFFSET, Size)
           f == r.serial.address
           data == r.serial.data
           b == {k \in DOMAIN data : (f + k - 1) % AddressSpace = a}
           own == {k \in DOMAIN data : CellOf(f + k - 1, STM32_FLASH_OFFSET, Size) = c}
<1>1. r.file \in Seq(Record) /\ f \in Nat /\ data \in Seq(Byte)
  BY FlashRequest
<1>2. IF a \in DOMAIN Said(r.file) THEN buffer[c] = Said(r.file)[a] /\ buffer[c] \in Byte
      ELSE buffer[c] = Unset
  BY <1>1, Sizes, BufferIs
<1>3. c \in DOMAIN buffer
  BY DEF ToBuffer, Cells
<1>4. own = b
  <2>1. ASSUME NEW k \in DOMAIN data
        PROVE  CellOf(f + k - 1, STM32_FLASH_OFFSET, Size) = c <=> (f + k - 1) % AddressSpace = a
    <3>1. f + k - 1 \in Nat
      BY <1>1
    <3> QED
      BY <3>1, Sizes, CellIs
  <2> QED
    BY <2>1
<1>5. Wanted(r)[c] = IF own = {} THEN buffer[c] ELSE data[Max(own)]
  BY <1>3 DEF Wanted, WithSerial
<1>6. /\ a \in DOMAIN RunSays(f, data) <=> b # {}
      /\ b # {} => RunSays(f, data)[a] = data[Max(b)] /\ data[Max(b)] \in Byte
  <2>1. a \in Nat
    BY Sizes DEF Cells
  <2> HIDE DEF a, f, data
  <2> QED
    BY <1>1, <2>1, RunIs
<1>7. /\ DOMAIN Meant(r) = DOMAIN RunSays(f, data) \cup DOMAIN Said(r.file)
      /\ \A x \in DOMAIN Meant(r) : Meant(r)[x] = IF x \in DOMAIN RunSays(f, data)
                                                   THEN RunSays(f, data)[x] ELSE Said(r.file)[x]
  BY DEF Meant
<1> HIDE DEF a, b, f, data, own, buffer
<1> QED
  BY <1>2, <1>4, <1>5, <1>6, <1>7 DEF a

\* What is meant has addresses that are numbers.
LEMMA MeantNumbers == ASSUME NEW r \in Requests PROVE DOMAIN Meant(r) \subseteq Int
<1>1. ASSUME NEW f \in Nat, NEW data \in Seq(Byte) PROVE DOMAIN RunSays(f, data) \subseteq Int
  BY Sizes DEF RunSays
<1>2. r.file \in Seq(Record) /\ r.serial.address \in Nat /\ r.serial.data \in Seq(Byte)
  BY FlashRequest
<1>3. ASSUME NEW i \in DOMAIN r.file PROVE DOMAIN RecordSays(r.file, i) \subseteq Int
  <2>1. r.file[i] \in Record
    BY <1>2
  <2>2. r.file[i].data \in Seq(Byte) /\ r.file[i].address \in Nat
    BY <2>1, Sizes DEF Record
  <2>3. OffsetAt(r.file, i) \in Nat
    <3>1. 0 \in Nat
      OBVIOUS
    <3> QED
      BY <1>2, <3>1, OffsetsAgree
  <2>4. OffsetAt(r.file, i) + r.file[i].address \in Nat
    BY <2>2, <2>3
  <2>5. DOMAIN RunSays(OffsetAt(r.file, i) + r.file[i].address, r.file[i].data) \subseteq Int
    BY <1>1, <2>2, <2>4
  <2> QED
    BY <2>5 DEF RecordSays
<1>4. DOMAIN Said(r.file) \subseteq Int
  BY <1>3 DEF Said, Body
<1>5. DOMAIN RunSays(r.serial.address, r.serial.data) \subseteq Int
  BY <1>1, <1>2
<1> QED
  BY <1>4, <1>5 DEF Meant

LEMMA BufferTyped ==
  ASSUME NEW file \in Seq(Record), NEW target
  PROVE  ToBuffer(file, target, Size) \in Images
<1> SUFFICES ASSUME NEW c \in Cells
             PROVE  ToBuffer(file, target, Size)[c] \in Byte \cup {Unset}
  BY DEF Images, ToBuffer, Cells
<1> DEFINE set == {i \in Body(file) : BytesFor(file, i, c, target, Size) # {}}
           i == Max(set)
           b == BytesFor(file, i, c, target, Size)
<1>1. CASE set = {}
  BY <1>1 DEF ToBuffer, Cells
<1>2. CASE set # {}
  <2>1. set \in SUBSET (0 .. Len(file)) /\ Len(file) \in Nat /\ set \subseteq DOMAIN file
    BY DEF Body
  <2>2. i \in set
    BY <1>2, <2>1, MaxIs
  <2>3. i \in DOMAIN file /\ b # {}
    <3> HIDE DEF i
    <3> QED
      BY <2>1, <2>2 DEF i
  <2>4. b \subseteq DOMAIN file[i].data
    BY DEF BytesFor
  <2>5. file[i].data \in Seq(Byte)
    <3> HIDE DEF i
    <3>1. file[i] \in Record
      BY <2>3
    <3> QED
      BY <3>1 DEF Record
  <2>6. ToBuffer(file, target, Size)[c] = file[i].data[Max(b)]
    BY <1>2 DEF ToBuffer, Cells
  <2> HIDE DEF i, b
  <2>7. b \in SUBSET (0 .. Len(file[i].data)) /\ Len(file[i].data) \in Nat
    BY <2>4, <2>5
  <2>8. Max(b) \in b
    BY <2>3, <2>7, MaxIs
  <2> QED
    BY <2>4, <2>5, <2>6, <2>8
<1> QED
  BY <1>1, <1>2

\* The image has what is meant for a cell, and besides only blank bytes.
LEMMA ImageIs ==
  ASSUME NEW r \in Requests
  PROVE  /\ Image(r) \in Images
         /\ \A c \in Cells :
              LET a == c + STM32_FLASH_OFFSET
              IN IF a \in DOMAIN Meant(r) THEN Image(r)[c] = Meant(r)[a] /\ c \in Given(Image(r))
                 ELSE Image(r)[c] \in {Blank, Unset}
<1>1. DOMAIN Wanted(r) = Cells
  BY DEF Wanted, WithSerial, ToBuffer, Cells
<1>2. DOMAIN Image(r) = Cells
  BY <1>1 DEF Image, Filled
<1>3. ASSUME NEW c \in Cells
      PROVE  Image(r)[c] = Wanted(r)[c] \/ (Wanted(r)[c] = Unset /\ Image(r)[c] = Blank)
  BY <1>1 DEF Image, Filled
<1>4. ASSUME NEW c \in Cells
      PROVE  LET a == c + STM32_FLASH_OFFSET
             IN IF a \in DOMAIN Meant(r)
                THEN Image(r)[c] = Meant(r)[a] /\ c \in Given(Image(r)) /\ Image(r)[c] \in Byte
                ELSE Image(r)[c] \in {Blank, Unset}
  <2> DEFINE a == c + STM32_FLASH_OFFSET
  <2>1. IF a \in DOMAIN Meant(r) THEN Wanted(r)[c] = Meant(r)[a] /\ Wanted(r)[c] \in Byte
        ELSE Wanted(r)[c] = Unset
    BY WantedIs
  <2> HIDE DEF a
  <2> QED
    BY <1>2, <1>3, <2>1, Sizes DEF Given, a
<1>5. Image(r) \in Images
  <2>1. \A c \in Cells : Image(r)[c] \in Byte \cup {Unset}
    BY <1>4, Sizes
  <2>2. Image(r) = [c \in Cells |-> Image(r)[c]]
    BY <1>1 DEF Image, Filled
  <2> QED
    BY <2>1, <2>2 DEF Images
<1> QED
  BY <1>4, <1>5

-----------------------------------------------------------------------------
(* The invariant of what is written and read.                               *)

\* A cell may be given this byte.
Allowed(c, x) == x = Blank \/ <<c + STM32_FLASH_OFFSET, x>> \in MeantBytes

\* The block that waits in a device will put every byte where it may be.
Safe(d) ==
  d.todo.op = "write" =>
    \A k \in DOMAIN d.todo.bytes : Allowed(BlockAddress(d, d.todo.at) + k - 1, d.todo.bytes[k])

\* Transaction w is for the block at start.
Aimed(w) == dev.ptr = base /\ w >= 2 /\ base + (w - 2) * STM32_MAX_TRANSFER_SIZE = start

BlockTodo(w) ==
  [bytes |-> [k \in 1 .. BlockEnd - start + 1 |-> image[start + k - 1]], op |-> "write", at |-> w]

Waiting(todo) == dev.state = "dnSync" /\ dev.todo = todo
InMem(c) == dev.mem[c] = image[c]

PtrPlaces == {"ptrCheck", "ptrSend", "ptrRun", "ptrDone"}
Writing == pc \in {"put", "putRun", "putDone"} \/ (pc \in PtrPlaces /\ job = "write")
Reading == pc \in {"getCheck", "get", "validate"} \/ (pc \in PtrPlaces /\ job = "read")

\* Where nothing is on its way to the device.
NothingSent ==
  pc \in {"ready", "erase", "eraseDone", "ptrCheck", "ptrSend", "ptrDone", "put", "putDone",
          "getCheck", "get", "validate", "goCheck", "go"} => dev.todo = Nothing

EraseInv ==
  /\ pc \in {"erase", "eraseRun", "eraseDone"} => req.name = "erase"
  /\ pc = "eraseRun" => Waiting(Command("erase", 0))
  /\ pc = "eraseDone" => dev.state = "dnBusy" /\ (dev.ok => dev.mem = Blanks)

LaunchInv ==
  /\ pc \in {"goCheck", "go", "goRun"} \/ (pc \in PtrPlaces /\ job = "launch") =>
       req.name = "launch"
  /\ pc = "goRun" => Waiting(Command("leave", 0))

PtrInv ==
  /\ pc = "ptrRun" => Waiting(Command("ptr", start))
  /\ pc = "ptrDone" => dev.ptr = start

\* What lies before the block to be written is in the flash.
WriteInv ==
  /\ Writing =>
       /\ job = "write" /\ req.name = "flash" /\ image = Image(req)
       /\ start \in Given(image) /\ \A c \in Given(image) : c <= final /\ (c < start => InMem(c))
  /\ pc = "put" => Aimed(trans)
  /\ pc = "putRun" => Aimed(trans - 1) /\ Waiting(BlockTodo(trans - 1))
  /\ pc = "putDone" =>
       /\ Aimed(trans - 1) /\ dev.state = "dnBusy"
       /\ dev.ok => \A c \in start .. BlockEnd : InMem(c)

\* What has been written stays; what has been read behind the first block is true.
ReadInv ==
  /\ pc \in {"open", "status", "ready"} => trans = 0
  /\ Reading =>
       /\ job = "read" /\ final = LastCell
       /\ \/ req.name = "flash" /\ \A c \in Given(Image(req)) : dev.mem[c] = Image(req)[c]
          \/ /\ req.name = "read"
             /\ \A c \in STM32_MAX_TRANSFER_SIZE .. start - 1 : c \in Cells => buin[c] = dev.mem[c]
  /\ pc \in {"getCheck", "get"} => Aimed(trans) \/ (start = 0 /\ base = 0 /\ trans # 2)
  /\ pc = "validate" => req.name = "flash"

FlashInv ==
  /\ TypeOK /\ Safe(dev)
  /\ NothingSent /\ EraseInv /\ LaunchInv /\ PtrInv /\ WriteInv /\ ReadInv
  /\ SuccessIsTrue /\ TailIsTrue

-----------------------------------------------------------------------------
(* What the requests do to the memory.                                      *)

\* The memory stays; what waits is forgotten or stays, with the pointer it is meant for.
Still(d, e) ==
  /\ e \in Device /\ e.mem = d.mem
  /\ e.todo = Nothing \/ (e.todo = d.todo /\ e.ptr = d.ptr)

\* At most what waits in the device has been executed.
Went(d, e) == Still(d, e) \/ (d.state = "dnSync" /\ Still(Execute(d), e))

LEMMA StillItself == ASSUME NEW d \in Device PROVE Still(d, d)
  BY DEF Still

LEMMA StillStill == ASSUME NEW d, NEW e, NEW f, Still(d, e), Still(e, f) PROVE Still(d, f)
  BY DEF Still

LEMMA WentStill == ASSUME NEW d, NEW e, NEW f, Went(d, e), Still(e, f) PROVE Went(d, f)
  BY StillStill DEF Went

LEMMA NothingIsTodo == Nothing \in Todo
  BY DEF Nothing, Todo

LEMMA StillFailed == ASSUME NEW d \in Device PROVE Still(d, Failed(d))
  BY NothingIsTodo DEF Still, Failed, Device, States

LEMMA StillTo == ASSUME NEW d \in Device, NEW s \in States PROVE Still(d, To(d, s))
  BY DEF Still, To, Device

LEMMA StillRestarted == ASSUME NEW d \in Device, NEW s \in States PROVE Still(d, Restarted(d, s))
  BY NothingIsTodo DEF Still, Restarted, Device

LEMMA StillRefuses == ASSUME NEW d \in Device PROVE \A e \in Refuses(d) : Still(d, e)
  BY StillItself, StillFailed DEF Refuses

LEMMA StillCleared == ASSUME NEW d \in Device PROVE \A e \in Cleared(d) : Still(d, e)
<1>1. CASE d.state = "error"
  <2>1. Still(d, [d EXCEPT !.state = "idle", !.ok = TRUE])
    BY DEF Still, Device, States
  <2> QED
    BY <1>1, <2>1 DEF Cleared
<1>2. CASE d.state # "error"
  BY <1>2, StillRefuses DEF Cleared
<1> QED
  BY <1>1, <1>2

LEMMA StillAborted == ASSUME NEW d \in Device PROVE \A e \in Aborted(d) : Still(d, e)
<1>1. CASE d.state \in {"dnSync", "dnIdle", "upIdle", "manSync"}
  <2>1. Still(d, [d EXCEPT !.state = "idle", !.todo = Nothing])
    BY NothingIsTodo DEF Still, Device, States
  <2> QED
    BY <1>1, <2>1 DEF Aborted
<1>2. CASE d.state \notin {"dnSync", "dnIdle", "upIdle", "manSync"}
  BY <1>2, StillItself, StillFailed, StillRefuses DEF Aborted
<1> QED
  BY <1>1, <1>2

LEMMA StillDetached == ASSUME NEW d \in Device PROVE \A e \in Detached(d) : Still(d, e)
  BY StillTo, StillRefuses DEF Detached, States

\* What each download does.
LEMMA ExecuteIs ==
  ASSUME NEW d \in Device
  PROVE  LET e == Execute(d)
             a == BlockAddress(d, d.todo.at)
             n == Len(d.todo.bytes)
         IN /\ e \in Device /\ e.todo = Nothing
            /\ d.todo.op # "leave" => e.state = "dnBusy"
            /\ d.todo.op = "leave" => e.state = "app"
            /\ d.todo.op = "ptr" => e.ptr = d.todo.at
            /\ d.todo.op # "ptr" => e.ptr = d.ptr
            /\ d.todo.op \notin {"erase", "write"} => e.mem = d.mem
            /\ d.todo.op = "erase" => e.mem = Blanks \/ (e.mem = d.mem /\ ~e.ok)
            /\ d.todo.op = "write" =>
                 \/ e.mem = d.mem /\ ~e.ok
                 \/ /\ BlockFits(d, d.todo.at, n)
                    /\ e.mem = [c \in Cells |-> IF c \in a .. a + n - 1 THEN d.todo.bytes[c - a + 1]
                                                ELSE d.mem[c]]
<1> DEFINE done == [d EXCEPT !.state = "dnBusy", !.ok = TRUE, !.todo = Nothing]
           not  == [d EXCEPT !.state = "dnBusy", !.ok = FALSE, !.todo = Nothing]
           a == BlockAddress(d, d.todo.at)
           n == Len(d.todo.bytes)
           written == [c \in Cells |-> IF c \in a .. a + n - 1 THEN d.todo.bytes[c - a + 1]
                                       ELSE d.mem[c]]
<1>0. d.todo \in Todo /\ d.mem \in [Cells -> Byte] /\ d.ptr \in Nat
  BY DEF Device
<1>1. /\ done \in Device /\ done.state = "dnBusy" /\ done.ok /\ done.todo = Nothing
      /\ done.ptr = d.ptr /\ done.mem = d.mem
  BY NothingIsTodo DEF Device, States
<1>2. /\ not \in Device /\ not.state = "dnBusy" /\ ~not.ok /\ not.todo = Nothing
      /\ not.ptr = d.ptr /\ not.mem = d.mem
  BY NothingIsTodo DEF Device, States
<1>3. CASE d.todo.op = "none"
  BY <1>1, <1>3 DEF Execute
<1>4. CASE d.todo.op = "ptr"
  <2>1. d.todo.at \in Nat
    BY <1>0 DEF Todo
  <2>2. Execute(d) = [done EXCEPT !.ptr = d.todo.at]
    BY <1>4 DEF Execute
  <2> HIDE DEF done
  <2> QED
    BY <1>1, <1>4, <2>1, <2>2 DEF Device
<1>5. CASE d.todo.op = "leave"
  <2>1. Execute(d) = [done EXCEPT !.state = "app"]
    BY <1>5 DEF Execute
  <2> HIDE DEF done
  <2> QED
    BY <1>1, <1>5, <2>1 DEF Device, States
<1>6. CASE d.todo.op = "erase"
  <2>1. Execute(d) = not \/ Execute(d) = [done EXCEPT !.mem = Blanks]
    BY <1>6 DEF Execute, Blanks
  <2>2. Blanks \in [Cells -> Byte]
    BY ByteAssumption DEF Blanks
  <2> HIDE DEF done, not
  <2> QED
    BY <1>1, <1>2, <1>6, <2>1, <2>2 DEF Device
<1>7. CASE d.todo.op = "write"
  <2>1. Execute(d) = not \/ (BlockFits(d, d.todo.at, n) /\ Execute(d) = [done EXCEPT !.mem = written])
    BY <1>7 DEF Execute
  <2>2. written \in [Cells -> Byte]
    <3>1. d.todo.bytes \in Seq(Byte) /\ d.todo.at \in Nat
      BY <1>0 DEF Todo
    <3>2. a \in Int
      BY <1>0, <3>1, Sizes DEF BlockAddress
    <3>3. ASSUME NEW c \in Cells, c \in a .. a + n - 1 PROVE d.todo.bytes[c - a + 1] \in Byte
      <4> HIDE DEF a
      <4>1. c - a + 1 \in 1 .. n
        BY <3>1, <3>2, <3>3 DEF Cells
      <4> QED
        BY <3>1, <4>1
    <3> HIDE DEF a, n
    <3> QED
      BY <1>0, <3>3
  <2> HIDE DEF done, not, written
  <2>3. [done EXCEPT !.mem = written] \in Device
    BY <1>1, <2>2 DEF Device
  <2>4. LET e == [done EXCEPT !.mem = written]
        IN e.todo = Nothing /\ e.state = "dnBusy" /\ e.ptr = d.ptr /\ e.mem = written
    BY <1>1 DEF Device
  <2> QED
    BY <1>2, <1>7, <2>1, <2>3, <2>4 DEF written
<1> QED
  BY <1>0, <1>3, <1>4, <1>5, <1>6, <1>7 DEF Todo

LEMMA WentPolled == ASSUME NEW d \in Device PROVE Went(d, Polled(d))
<1>1. CASE d.state = "dnSync"
  BY <1>1, ExecuteIs, StillItself DEF Polled, Went
<1>2. CASE d.state # "dnSync"
  BY <1>2, StillItself, StillFailed, StillTo DEF Polled, Went, States
<1> QED
  BY <1>1, <1>2

LEMMA WentTyped == ASSUME NEW d, NEW e, Went(d, e) PROVE e \in Device
  BY DEF Went, Still

LEMMA StatusWent ==
  ASSUME dev \in Device
  PROVE  \A s \in GetStatus : Went(dev, s.dev)
  BY WentPolled, StillItself DEF GetStatus, Went

LEMMA CheckedWent ==
  ASSUME dev \in Device, spare \in 0 .. MaxSpare
  PROVE  \A s \in StatusChecked :
           /\ Went(dev, s.dev) /\ s.spare \in 0 .. MaxSpare
           /\ s.good => s.dev = Polled(dev) /\ ToldOk(dev) /\ dev.state # "app"
<1> SUFFICES ASSUME NEW s \in GetStatus
             PROVE  /\ Went(dev, s.dev)
                    /\ \A d \in Anyhow(s.dev, Cleared(s.dev)) : Went(dev, d)
                    /\ s.short => spare - 1 \in 0 .. MaxSpare
                    /\ s.ok => s.dev = Polled(dev) /\ ToldOk(dev) /\ dev.state # "app"
  BY DEF StatusChecked
<1>1. Went(dev, s.dev)
  BY StatusWent
<1>2. ASSUME NEW d \in Anyhow(s.dev, Cleared(s.dev)) PROVE Went(dev, d)
  BY <1>1, WentTyped, StillCleared, WentStill DEF Anyhow
<1>3. s.short => spare - 1 \in 0 .. MaxSpare
  BY DfuAssumption DEF GetStatus
<1>4. s.ok => s.dev = Polled(dev) /\ ToldOk(dev) /\ dev.state # "app"
  BY DEF GetStatus
<1> QED
  BY <1>1, <1>2, <1>3, <1>4

-----------------------------------------------------------------------------
(* That no byte is misplaced.                                               *)

\* What changes in the memory is allowed, and so is what may change later.
Moves(d, e) ==
  /\ e \in Device /\ Safe(e)
  /\ \A c \in Cells : e.mem[c] # d.mem[c] => Allowed(c, e.mem[c])

LEMMA StillMoves == ASSUME NEW d \in Device, NEW e, Safe(d), Still(d, e) PROVE Moves(d, e)
<1>1. CASE e.todo = Nothing
  BY <1>1 DEF Still, Moves, Safe, Nothing
<1>2. CASE e.todo = d.todo /\ e.ptr = d.ptr
  BY <1>2 DEF Still, Moves, Safe, BlockAddress
<1> QED
  BY <1>1, <1>2 DEF Still

\* A block that is safe puts nothing where it may not be.
LEMMA ExecuteAllowed ==
  ASSUME NEW d \in Device, Safe(d), NEW c \in Cells, Execute(d).mem[c] # d.mem[c]
  PROVE  Allowed(c, Execute(d).mem[c])
<1> DEFINE a == BlockAddress(d, d.todo.at)
           n == Len(d.todo.bytes)
<1>1. Execute(d).mem # d.mem
  OBVIOUS
<1>2. d.todo \in Todo /\ d.ptr \in Nat
  BY DEF Device
<1>3. CASE d.todo.op = "erase"
  <2>1. Execute(d).mem = Blanks
    BY <1>1, <1>3, ExecuteIs
  <2> QED
    BY <2>1 DEF Allowed, Blanks
<1>4. CASE d.todo.op = "write"
  <2>1. Execute(d).mem = [x \in Cells |-> IF x \in a .. a + n - 1 THEN d.todo.bytes[x - a + 1]
                                          ELSE d.mem[x]]
    BY <1>1, <1>4, ExecuteIs
  <2> HIDE DEF a, n
  <2>2. c \in a .. a + n - 1 /\ Execute(d).mem[c] = d.todo.bytes[c - a + 1]
    BY <2>1
  <2>3. d.todo.at \in Nat /\ d.todo.bytes \in Seq(Byte)
    BY <1>2 DEF Todo
  <2>4. a \in Int /\ n \in Nat
    <3>1. a \in Int
      BY <1>2, <2>3, Sizes DEF a, BlockAddress
    <3> QED
      BY <2>3, <3>1 DEF n
  <2>5. c - a + 1 \in DOMAIN d.todo.bytes /\ a + (c - a + 1) - 1 = c
    BY <2>2, <2>3, <2>4 DEF n, Cells
  <2>6. Allowed(a + (c - a + 1) - 1, d.todo.bytes[c - a + 1])
    BY <1>4, <2>5 DEF Safe, a
  <2> QED
    BY <2>2, <2>5, <2>6
<1>5. CASE d.todo.op \notin {"erase", "write"}
  BY <1>1, <1>5, ExecuteIs
<1> QED
  BY <1>3, <1>4, <1>5

LEMMA WentMoves == ASSUME NEW d \in Device, NEW e, Safe(d), Went(d, e) PROVE Moves(d, e)
<1>1. CASE Still(d, e)
  BY <1>1, StillMoves
<1>2. CASE Still(Execute(d), e)
  <2>1. e \in Device /\ e.mem = Execute(d).mem /\ e.todo = Nothing
    BY <1>2, ExecuteIs DEF Still
  <2>2. Safe(e)
    BY <2>1 DEF Safe, Nothing
  <2> QED
    BY <2>1, <2>2, ExecuteAllowed DEF Moves
<1> QED
  BY <1>1, <1>2 DEF Went

LEMMA DownloadMoves ==
  ASSUME dev \in Device, Safe(dev), NEW t \in Todo, Safe(Dnload(dev, t))
  PROVE  \A o \in Download(t) :
           Moves(dev, o.dev) /\ (o.good => o.dev = Dnload(dev, t))
<1>1. /\ Dnload(dev, t) \in Device /\ Dnload(dev, t).mem = dev.mem
  BY DEF Dnload, Device, States
<1>2. Moves(dev, Dnload(dev, t)) /\ Moves(dev, dev)
  BY <1>1, StillItself, StillMoves DEF Moves
<1>3. \A d \in Refuses(dev) : Moves(dev, d)
  BY StillRefuses, StillMoves
<1> QED
  BY <1>2, <1>3 DEF Download, Accepted, Refused

LEMMA UploadStill ==
  ASSUME dev \in Device, NEW n
  PROVE  \A o \in Upload(n) :
           /\ Still(dev, o.dev)
           /\ o.good => MayUpload(dev, trans, n) /\ o.dev = To(dev, "upIdle")
<1>1. Still(dev, dev) /\ Still(dev, Failed(dev)) /\ Still(dev, To(dev, "upIdle"))
  BY StillItself, StillFailed, StillTo DEF States
<1> QED
  BY <1>1 DEF Upload, Accepted

\* After a good status nothing waits: it has been executed.
LEMMA PolledNothing ==
  ASSUME NEW d \in Device, d.todo = Nothing
  PROVE  LET e == Polled(d) IN e \in Device /\ e.todo = Nothing /\ e.mem = d.mem /\ e.ptr = d.ptr
<1>1. CASE d.state = "dnSync"
  <2>1. d.todo.op = "none"
    BY DEF Nothing
  <2> QED
    BY <1>1, <2>1, ExecuteIs DEF Polled
<1>2. CASE d.state # "dnSync"
  <2>1. Polled(d) = d \/ Polled(d) = Failed(d) \/ \E s \in States : Polled(d) = To(d, s)
    BY <1>2 DEF Polled, States
  <2>2. LET e == Failed(d) IN e.todo = Nothing /\ e.mem = d.mem /\ e.ptr = d.ptr
    BY DEF Failed, Device
  <2>3. \A s \in States :
          LET e == To(d, s) IN e.todo = Nothing /\ e.mem = d.mem /\ e.ptr = d.ptr
    BY DEF To, Device
  <2>4. Polled(d) \in Device
    BY WentPolled, WentTyped
  <2> QED
    BY <2>1, <2>2, <2>3, <2>4
<1> QED
  BY <1>1, <1>2

LEMMA PolledBusy ==
  ASSUME NEW d \in Device, d.state = "dnBusy", ToldOk(d)
  PROVE  d.ok
  BY DEF ToldOk, Polled, Failed, Device

\* The end of the block that begins at a cell with data.
LEMMA BlockEndIs ==
  ASSUME TypeOK, start \in Given(image), start <= final
  PROVE  /\ BlockEnd \in start .. final /\ BlockEnd - start < STM32_MAX_TRANSFER_SIZE
         /\ \A c \in start .. BlockEnd : c \in Given(image)
<1>1. start \in Nat /\ final \in Cells /\ image \in Images
  BY DEF TypeOK
<1>2. start \in Block
  <2>1. \A d \in start .. start : d = start
    BY <1>1
  <2> QED
    BY <1>1, <2>1, Sizes DEF Block, Given, Images, Cells
<1>3. Block \in SUBSET (0 .. final) /\ final \in Nat
  BY <1>1 DEF Block, Cells
<1>4. Max(Block) \in Block /\ \A x \in Block : Max(Block) >= x
  BY <1>2, <1>3, MaxIs
<1>5. Max(Block) + 1 \notin Block
  <2> DEFINE m == Max(Block)
  <2>1. m \in 0 .. final /\ \A x \in Block : m >= x
    BY <1>3, <1>4
  <2> HIDE DEF m
  <2>2. m + 1 \notin Block
    BY <1>3, <2>1
  <2> QED
    BY <2>2 DEF m
<1>6. BlockEnd \in Block
  BY <1>4, <1>5 DEF BlockEnd
<1>7. \A d \in start .. BlockEnd : image[d] # Unset /\ d - start < STM32_MAX_TRANSFER_SIZE
  BY <1>6 DEF Block
<1>8. BlockEnd \in start .. final
  BY <1>6 DEF Block
<1>9. \A d \in start .. BlockEnd : d \in DOMAIN image
  <2>1. DOMAIN image = 0 .. Size - 1 /\ final \in 0 .. Size - 1
    BY <1>1 DEF Images, Cells
  <2> QED
    BY <1>1, <1>3, <1>8, <2>1, Sizes
<1> QED
  BY <1>1, <1>7, <1>8, <1>9 DEF Given, Cells

-----------------------------------------------------------------------------
(* The steps of a process keep the invariant.                               *)

Right == FlashInv' /\ Moves(dev, dev')

\* The variables that are not of the device and not of the command.
Counts == trans' \in Nat /\ tries' \in 0 .. Retries /\ spare' \in 0 .. MaxSpare

\* A command that fails leaves nothing to be shown but that the memory is safe.
LEMMA FailRight ==
  ASSUME TypeOK, Moves(dev, dev'), pc' = "idle", ret' = "fail", Counts, UNCHANGED host
  PROVE  Right
<1>1. TypeOK'
  BY DEF TypeOK, host, Counts, Moves, Places
<1>2. /\ NothingSent' /\ EraseInv' /\ LaunchInv' /\ PtrInv' /\ WriteInv' /\ ReadInv'
      /\ SuccessIsTrue' /\ TailIsTrue'
  BY DEF NothingSent, EraseInv, LaunchInv, PtrInv, WriteInv, ReadInv, SuccessIsTrue, TailIsTrue,
         Writing, Reading, PtrPlaces, Succeeded
<1> QED
  BY <1>1, <1>2 DEF Right, FlashInv, Moves

\* The device after a status request, and where a good one leads.
LEMMA CheckIs ==
  ASSUME FlashInv, NEW here, NEW there, there \in Places, Check(here, there)
  PROVE  /\ Moves(dev, dev') /\ Counts /\ UNCHANGED <<trans, host>>
         /\ \/ pc' = "idle" /\ ret' = "fail"
            \/ /\ pc' = there /\ UNCHANGED ret
               /\ dev' = Polled(dev) /\ ToldOk(dev) /\ dev.state # "app" /\ TypeOK'
<1>1. PICK s \in StatusChecked :
        /\ dev' = s.dev /\ spare' = s.spare
        /\ IF s.good THEN Goto(there) ELSE Exit("fail")
  BY DEF Check
<1>2. dev \in Device /\ spare \in 0 .. MaxSpare
  BY DEF FlashInv, TypeOK
<1>3. Went(dev, dev') /\ spare' \in 0 .. MaxSpare
  BY <1>1, <1>2, CheckedWent
<1>4. s.good => dev' = Polled(dev) /\ ToldOk(dev) /\ dev.state # "app"
  BY <1>1, <1>2, CheckedWent
<1>5. Moves(dev, dev')
  BY <1>2, <1>3, WentMoves DEF FlashInv
<1>6. Counts /\ UNCHANGED <<trans, host>>
  BY <1>3 DEF Check, Counts, FlashInv, TypeOK
<1>7. CASE s.good
  <2>1. TypeOK'
    BY <1>1, <1>5, <1>6, <1>7 DEF Goto, FlashInv, TypeOK, host, Counts, Moves
  <2> QED
    BY <1>1, <1>4, <1>5, <1>6, <1>7, <2>1 DEF Goto
<1>8. CASE ~s.good
  BY <1>1, <1>5, <1>6, <1>8 DEF Exit
<1> QED
  BY <1>7, <1>8

\* The definitions that make up the invariant at a place.
LEMMA SameBlocks ==
  UNCHANGED <<image, start, final>> => BlockEnd' = BlockEnd /\ Block' = Block
  BY DEF BlockEnd, Block

\* The device is left as it was with nothing waiting, and the process goes on to a
\* place where no more is asked of it.
LEMMA CheckCleanRight ==
  ASSUME FlashInv, NEW here, NEW there,
         <<here, there>> \in {<<"ptrCheck", "ptrSend">>, <<"goCheck", "go">>, <<"getCheck", "get">>},
         Check(here, there)
  PROVE  Right
<1>0. pc = here /\ there \in Places
  BY DEF Check, Places
<1>1. /\ Moves(dev, dev') /\ Counts /\ UNCHANGED <<trans, host>>
      /\ \/ pc' = "idle" /\ ret' = "fail"
         \/ pc' = there /\ dev' = Polled(dev) /\ TypeOK'
  BY <1>0, CheckIs
<1>2. CASE pc' = "idle" /\ ret' = "fail"
  BY <1>1, <1>2, FailRight DEF FlashInv
<1>3. CASE pc' = there /\ dev' = Polled(dev) /\ TypeOK'
  <2>1. dev'.todo = Nothing /\ dev'.mem = dev.mem /\ dev'.ptr = dev.ptr
    BY <1>0, <1>3, PolledNothing DEF FlashInv, TypeOK, NothingSent
  <2>2. NothingSent' /\ EraseInv' /\ PtrInv'
    BY <1>3, <2>1 DEF NothingSent, EraseInv, PtrInv
  <2>3. LaunchInv'
    BY <1>0, <1>1, <1>3 DEF FlashInv, LaunchInv, PtrPlaces, host
  <2>4. WriteInv'
    BY <1>0, <1>1, <1>3, <2>1 DEF FlashInv, WriteInv, Writing, PtrPlaces, host, InMem
  <2>5. ReadInv'
    <3>1. pc \in {"getCheck", "get"} <=> pc' \in {"getCheck", "get"}
      BY <1>0, <1>3
    <3>2. Reading' => Reading
      BY <1>0, <1>1, <1>3 DEF Reading, PtrPlaces, host
    <3> QED
      BY <1>0, <1>1, <1>3, <2>1, <3>1, <3>2 DEF FlashInv, ReadInv, host, Aimed
  <2>6. SuccessIsTrue' /\ TailIsTrue'
    BY <1>0, <1>3 DEF SuccessIsTrue, TailIsTrue, Succeeded
  <2> QED
    BY <1>1, <1>3, <2>2, <2>3, <2>4, <2>5, <2>6 DEF Right, FlashInv, Moves
<1> QED
  BY <1>1, <1>2, <1>3

\* The pointer has been set.
LEMMA CheckPtrRight == ASSUME FlashInv, Check("ptrRun", "ptrDone") PROVE Right
<1>0. pc = "ptrRun" /\ "ptrDone" \in Places
  BY DEF Check, Places
<1>1. /\ Moves(dev, dev') /\ Counts /\ UNCHANGED <<trans, host>>
      /\ \/ pc' = "idle" /\ ret' = "fail"
         \/ pc' = "ptrDone" /\ dev' = Polled(dev) /\ TypeOK'
  BY <1>0, CheckIs
<1>2. CASE pc' = "idle" /\ ret' = "fail"
  BY <1>1, <1>2, FailRight DEF FlashInv
<1>3. CASE pc' = "ptrDone" /\ dev' = Polled(dev) /\ TypeOK'
  <2>1. dev.state = "dnSync" /\ dev.todo = Command("ptr", start) /\ dev \in Device
    BY <1>0 DEF FlashInv, PtrInv, Waiting, TypeOK
  <2>2. dev'.todo = Nothing /\ dev'.mem = dev.mem /\ dev'.ptr = start
    <3>1. dev' = Execute(dev) /\ dev.todo.op = "ptr" /\ dev.todo.at = start
      BY <1>3, <2>1 DEF Polled, Command
    <3> QED
      BY <2>1, <3>1, ExecuteIs
  <2>3. NothingSent' /\ EraseInv' /\ PtrInv'
    BY <1>1, <1>3, <2>2 DEF NothingSent, EraseInv, PtrInv, host
  <2>4. LaunchInv' /\ WriteInv'
    BY <1>0, <1>1, <1>3, <2>2 DEF FlashInv, LaunchInv, WriteInv, Writing, PtrPlaces, host, InMem
  <2>5. ReadInv'
    BY <1>0, <1>1, <1>3, <2>2 DEF FlashInv, ReadInv, Reading, PtrPlaces, host
  <2>6. SuccessIsTrue' /\ TailIsTrue'
    BY <1>0, <1>3 DEF SuccessIsTrue, TailIsTrue, Succeeded
  <2> QED
    BY <1>1, <1>3, <2>3, <2>4, <2>5, <2>6 DEF Right, FlashInv, Moves
<1> QED
  BY <1>1, <1>2, <1>3

\* The flash has been erased, or the next status will tell.
LEMMA CheckEraseRight == ASSUME FlashInv, Check("eraseRun", "eraseDone") PROVE Right
<1>0. pc = "eraseRun" /\ "eraseDone" \in Places
  BY DEF Check, Places
<1>1. /\ Moves(dev, dev') /\ Counts /\ UNCHANGED <<trans, host>>
      /\ \/ pc' = "idle" /\ ret' = "fail"
         \/ pc' = "eraseDone" /\ dev' = Polled(dev) /\ TypeOK'
  BY <1>0, CheckIs
<1>2. CASE pc' = "idle" /\ ret' = "fail"
  BY <1>1, <1>2, FailRight DEF FlashInv
<1>3. CASE pc' = "eraseDone" /\ dev' = Polled(dev) /\ TypeOK'
  <2>1. dev.state = "dnSync" /\ dev.todo = Command("erase", 0) /\ dev \in Device
    BY <1>0 DEF FlashInv, EraseInv, Waiting, TypeOK
  <2>2. dev'.todo = Nothing /\ dev'.state = "dnBusy" /\ (dev'.ok => dev'.mem = Blanks)
    <3>1. dev' = Execute(dev) /\ dev.todo.op = "erase" /\ dev.todo.at = 0
      BY <1>3, <2>1 DEF Polled, Command
    <3> QED
      BY <2>1, <3>1, ExecuteIs
  <2>3. NothingSent' /\ EraseInv' /\ PtrInv'
    BY <1>0, <1>1, <1>3, <2>2 DEF FlashInv, NothingSent, EraseInv, PtrInv, host, Blanks
  <2>4. LaunchInv' /\ WriteInv' /\ ReadInv'
    BY <1>3 DEF LaunchInv, WriteInv, ReadInv, Writing, Reading, PtrPlaces
  <2>6. SuccessIsTrue' /\ TailIsTrue'
    BY <1>0, <1>3 DEF SuccessIsTrue, TailIsTrue, Succeeded
  <2> QED
    BY <1>1, <1>3, <2>3, <2>4, <2>6 DEF Right, FlashInv, Moves
<1> QED
  BY <1>1, <1>2, <1>3

\* The block has been written, or the next status will tell.
LEMMA CheckPutRight == ASSUME FlashInv, Check("putRun", "putDone") PROVE Right
<1>0. pc = "putRun" /\ "putDone" \in Places
  BY DEF Check, Places
<1>1. /\ Moves(dev, dev') /\ Counts /\ UNCHANGED <<trans, host>>
      /\ \/ pc' = "idle" /\ ret' = "fail"
         \/ pc' = "putDone" /\ dev' = Polled(dev) /\ TypeOK'
  BY <1>0, CheckIs
<1>2. CASE pc' = "idle" /\ ret' = "fail"
  BY <1>1, <1>2, FailRight DEF FlashInv
<1>3. CASE pc' = "putDone" /\ dev' = Polled(dev) /\ TypeOK'
  <2>1. /\ dev.state = "dnSync" /\ dev.todo = BlockTodo(trans - 1) /\ dev \in Device
        /\ Aimed(trans - 1)
    BY <1>0 DEF FlashInv, WriteInv, Waiting, TypeOK
  <2>2. /\ job = "write" /\ req.name = "flash" /\ image = Image(req) /\ start \in Given(image)
        /\ \A c \in Given(image) : c <= final /\ (c < start => InMem(c))
    BY <1>0 DEF FlashInv, WriteInv, Writing
  <2>3. /\ TypeOK /\ start \in Nat /\ final \in Cells /\ image \in Images /\ trans \in Nat
        /\ base \in 0 .. Size
    BY DEF FlashInv, TypeOK
  <2>4. BlockEnd \in start .. final
    BY <2>2, <2>3, BlockEndIs
  <2> DEFINE a == BlockAddress(dev, trans - 1)
             n == BlockEnd - start + 1
             bytes == [k \in 1 .. n |-> image[start + k - 1]]
  <2>5. a = start /\ n \in Nat
    <3>1. n \in Nat
      BY <2>3, <2>4 DEF Cells
    <3> QED
      BY <2>1, <3>1 DEF Aimed, BlockAddress
  <2>6. dev.todo.op = "write" /\ dev.todo.at = trans - 1 /\ dev.todo.bytes = bytes
    BY <2>1 DEF BlockTodo
  <2>7. Len(bytes) = n
    <3> HIDE DEF n
    <3> QED
      BY <2>5
  <2> HIDE DEF a, n, bytes
  <2>8. /\ dev'.todo = Nothing /\ dev'.state = "dnBusy" /\ dev'.ptr = dev.ptr
        /\ \/ dev'.mem = dev.mem /\ ~dev'.ok
           \/ dev'.mem = [c \in Cells |-> IF c \in a .. a + n - 1 THEN bytes[c - a + 1]
                                          ELSE dev.mem[c]]
    BY <1>3, <2>1, <2>6, <2>7, ExecuteIs DEF Polled, a
  <2>9. ASSUME NEW c \in Given(image), c < start, dev.mem[c] = image[c]
        PROVE  dev'.mem[c] = image[c]
    <3>1. c \in Cells /\ c \notin a .. a + n - 1
      BY <2>3, <2>5, <2>9 DEF Given, Images, Cells
    <3> QED
      BY <2>8, <2>9, <3>1
  <2>10. ASSUME NEW c \in start .. BlockEnd, dev'.ok PROVE dev'.mem[c] = image[c]
    <3>1. c \in Cells /\ c \in a .. a + n - 1 /\ c - a + 1 \in 1 .. n /\ start + (c - a + 1) - 1 = c
      BY <2>3, <2>4, <2>5, <2>10, Sizes DEF n, Cells
    <3> QED
      BY <2>8, <2>10, <3>1 DEF bytes
  <2>11. WriteInv'
    BY <1>1, <1>3, <2>1, <2>2, <2>8, <2>9, <2>10, SameBlocks
    DEF WriteInv, Writing, InMem, Aimed, host
  <2>12. NothingSent' /\ EraseInv' /\ PtrInv'
    BY <1>3, <2>8 DEF NothingSent, EraseInv, PtrInv
  <2>13. LaunchInv' /\ ReadInv'
    BY <1>3 DEF LaunchInv, ReadInv, Reading, PtrPlaces
  <2>14. SuccessIsTrue' /\ TailIsTrue'
    BY <1>3 DEF SuccessIsTrue, TailIsTrue, Succeeded
  <2> QED
    BY <1>1, <1>3, <2>11, <2>12, <2>13, <2>14 DEF Right, FlashInv, Moves
<1> QED
  BY <1>1, <1>2, <1>3

\* A download has been put into the device, or the request has failed.
LEMMA PutIs ==
  ASSUME FlashInv, NEW t \in Todo, Safe(Dnload(dev, t)), NEW there \in Places,
         UNCHANGED <<tries, spare, host>>, trans' \in Nat,
         \E o \in Download(t) : dev' = o.dev /\ IF o.good THEN Goto(there) ELSE Exit("fail")
  PROVE  /\ Moves(dev, dev') /\ Counts
         /\ \/ pc' = "idle" /\ ret' = "fail"
            \/ /\ pc' = there /\ TypeOK'
               /\ dev'.state = "dnSync" /\ dev'.todo = t /\ dev'.mem = dev.mem /\ dev'.ptr = dev.ptr
<1>1. PICK o \in Download(t) : dev' = o.dev /\ IF o.good THEN Goto(there) ELSE Exit("fail")
  OBVIOUS
<1>2. dev \in Device
  BY DEF FlashInv, TypeOK
<1>3. Moves(dev, dev') /\ (o.good => dev' = Dnload(dev, t))
  BY <1>1, <1>2, DownloadMoves DEF FlashInv
<1>4. Counts
  BY DEF Counts, FlashInv, TypeOK
<1>5. CASE o.good
  <2>1. TypeOK'
    BY <1>1, <1>3, <1>5 DEF Goto, FlashInv, TypeOK, host, Moves
  <2>2. dev'.state = "dnSync" /\ dev'.todo = t /\ dev'.mem = dev.mem /\ dev'.ptr = dev.ptr
    BY <1>2, <1>3, <1>5 DEF Dnload, Device
  <2> QED
    BY <1>1, <1>3, <1>4, <1>5, <2>1, <2>2 DEF Goto
<1>6. CASE ~o.good
  BY <1>1, <1>3, <1>4, <1>6 DEF Exit
<1> QED
  BY <1>5, <1>6

LEMMA SendRight ==
  ASSUME FlashInv, NEW here, NEW t, NEW there,
         \/ here = "ptrSend" /\ t = Command("ptr", start) /\ there = "ptrRun"
         \/ here = "erase" /\ t = Command("erase", 0) /\ there = "eraseRun"
         \/ here = "go" /\ t = Command("leave", 0) /\ there = "goRun",
         Send(here, t, there)
  PROVE  Right
<1>1. dev \in Device /\ start \in Nat
  BY DEF FlashInv, TypeOK
<1>2. t \in Todo /\ t.op # "write"
  <2>1. \A op \in {"ptr", "erase", "leave"} : \A at \in Nat :
          Command(op, at) \in Todo /\ Command(op, at).op = op
    BY DEF Command, Todo
  <2> QED
    BY <1>1, <2>1
<1>3. Safe(Dnload(dev, t))
  BY <1>1, <1>2 DEF Safe, Dnload, Device
<1>4. /\ pc = here /\ there \in Places /\ UNCHANGED <<tries, spare, host>> /\ trans' \in Nat
      /\ \E o \in Download(t) : dev' = o.dev /\ IF o.good THEN Goto(there) ELSE Exit("fail")
  BY DEF Send, Places
<1>5. /\ Moves(dev, dev') /\ Counts
      /\ \/ pc' = "idle" /\ ret' = "fail"
         \/ /\ pc' = there /\ TypeOK'
            /\ dev'.state = "dnSync" /\ dev'.todo = t /\ dev'.mem = dev.mem /\ dev'.ptr = dev.ptr
  BY <1>2, <1>3, <1>4, PutIs
<1>6. CASE pc' = "idle" /\ ret' = "fail"
  BY <1>4, <1>5, <1>6, FailRight DEF FlashInv
<1>7. CASE /\ pc' = there /\ TypeOK'
           /\ dev'.state = "dnSync" /\ dev'.todo = t /\ dev'.mem = dev.mem /\ dev'.ptr = dev.ptr
  <2>1. NothingSent'
    BY <1>7 DEF NothingSent
  <2>2. EraseInv' /\ PtrInv'
    BY <1>4, <1>7 DEF FlashInv, EraseInv, PtrInv, Waiting, Command, host
  <2>3. LaunchInv'
    BY <1>4, <1>7 DEF FlashInv, LaunchInv, PtrPlaces, Waiting, Command, host
  <2>4. WriteInv'
    BY <1>4, <1>7 DEF FlashInv, WriteInv, Writing, PtrPlaces, host, InMem
  <2>5. ReadInv'
    BY <1>4, <1>7 DEF FlashInv, ReadInv, Reading, PtrPlaces, host
  <2>6. SuccessIsTrue' /\ TailIsTrue'
    BY <1>7 DEF SuccessIsTrue, TailIsTrue, Succeeded
  <2> QED
    BY <1>5, <1>7, <2>1, <2>2, <2>3, <2>4, <2>5, <2>6 DEF Right, FlashInv, Moves
<1> QED
  BY <1>5, <1>6, <1>7

\* Every byte of an image may be written to its cell.
LEMMA ImageAllowed ==
  ASSUME NEW r \in Requests, r.name = "flash", NEW c \in Given(Image(r))
  PROVE  c \in Cells /\ Image(r)[c] \in Byte /\ Allowed(c, Image(r)[c])
<1>1. c \in Cells /\ Image(r)[c] # Unset /\ Image(r) \in Images
  BY ImageIs DEF Given, Images
<1> DEFINE a == c + STM32_FLASH_OFFSET
<1>2. IF a \in DOMAIN Meant(r) THEN Image(r)[c] = Meant(r)[a] ELSE Image(r)[c] = Blank
  BY <1>1, ImageIs
<1> HIDE DEF a
<1>3. a \in DOMAIN Meant(r) => <<a, Meant(r)[a]>> \in MeantBytes
  BY DEF MeantBytes
<1> QED
  BY <1>1, <1>2, <1>3 DEF Allowed, Images, a

LEMMA BlockSafe ==
  ASSUME FlashInv, pc = "put"
  PROVE  BlockTodo(trans) \in Todo /\ Safe(Dnload(dev, BlockTodo(trans)))
<1>1. /\ req.name = "flash" /\ image = Image(req) /\ start \in Given(image) /\ start <= final
      /\ Aimed(trans)
  BY DEF FlashInv, WriteInv, Writing
<1>2. /\ TypeOK /\ dev \in Device /\ req \in Requests /\ start \in Nat /\ final \in Cells
      /\ trans \in Nat
  BY DEF FlashInv, TypeOK
<1>3. BlockEnd \in start .. final /\ \A c \in start .. BlockEnd : c \in Given(image)
  BY <1>1, <1>2, BlockEndIs
<1> DEFINE n == BlockEnd - start + 1
           bytes == [k \in 1 .. n |-> image[start + k - 1]]
<1>4. n \in Nat
  BY <1>2, <1>3, Sizes DEF Cells
<1>5. ASSUME NEW k \in 1 .. n
      PROVE  start + k - 1 \in start .. BlockEnd
  BY <1>2, <1>3, <1>5, Sizes DEF Cells
<1>6. ASSUME NEW k \in 1 .. n
      PROVE  image[start + k - 1] \in Byte /\ Allowed(start + k - 1, image[start + k - 1])
  BY <1>1, <1>2, <1>3, <1>5, ImageAllowed
<1>7. bytes \in Seq(Byte)
  <2> HIDE DEF n
  <2> QED
    BY <1>4, <1>6
<1>8. BlockTodo(trans) \in Todo
  BY <1>2, <1>7 DEF BlockTodo, Todo
<1> DEFINE e == Dnload(dev, BlockTodo(trans))
<1>9. e.todo = BlockTodo(trans) /\ e.ptr = dev.ptr
  BY <1>2 DEF Dnload, Device
<1>10. BlockAddress(e, trans) = start
  BY <1>1, <1>9 DEF BlockAddress, Aimed
<1> HIDE DEF e
<1>11. e.todo.bytes = bytes /\ e.todo.at = trans
  BY <1>9 DEF BlockTodo
<1>12. Safe(e)
  <2> HIDE DEF n
  <2> QED
    BY <1>6, <1>10, <1>11 DEF Safe
<1> QED
  BY <1>8, <1>12 DEF e

\* stm32_write_block
LEMMA PutRight == ASSUME FlashInv, Put PROVE Right
<1>0. pc = "put" /\ "putRun" \in Places /\ UNCHANGED <<tries, spare, host>> /\ trans' = trans + 1
  BY DEF Put, Places
<1>1. /\ dev \in Device /\ trans \in Nat /\ Aimed(trans)
      /\ BlockTodo(trans) \in Todo /\ Safe(Dnload(dev, BlockTodo(trans)))
  BY <1>0, BlockSafe DEF FlashInv, TypeOK, WriteInv
<1>2. \E o \in Download(BlockTodo(trans)) :
        dev' = o.dev /\ IF o.good THEN Goto("putRun") ELSE Exit("fail")
  BY DEF Put, BlockTodo
<1>3. /\ Moves(dev, dev') /\ Counts
      /\ \/ pc' = "idle" /\ ret' = "fail"
         \/ /\ pc' = "putRun" /\ TypeOK'
            /\ dev'.state = "dnSync" /\ dev'.todo = BlockTodo(trans)
            /\ dev'.mem = dev.mem /\ dev'.ptr = dev.ptr
  BY <1>0, <1>1, <1>2, PutIs
<1>4. CASE pc' = "idle" /\ ret' = "fail"
  BY <1>0, <1>3, <1>4, FailRight DEF FlashInv
<1>5. CASE /\ pc' = "putRun" /\ TypeOK'
           /\ dev'.state = "dnSync" /\ dev'.todo = BlockTodo(trans)
           /\ dev'.mem = dev.mem /\ dev'.ptr = dev.ptr
  <2>1. trans' - 1 = trans /\ BlockEnd' = BlockEnd
    BY <1>0, <1>1, SameBlocks DEF host
  <2>2. Aimed(trans - 1)'
    BY <1>0, <1>1, <1>5, <2>1 DEF Aimed, host
  <2>3. Waiting(BlockTodo(trans - 1))'
    BY <1>0, <1>5, <2>1 DEF Waiting, BlockTodo, host
  <2>4. WriteInv'
    BY <1>0, <1>1, <1>5, <2>2, <2>3 DEF FlashInv, WriteInv, Writing, PtrPlaces, host, InMem, Aimed
  <2>5. NothingSent' /\ EraseInv' /\ PtrInv'
    BY <1>5 DEF NothingSent, EraseInv, PtrInv
  <2>6. LaunchInv' /\ ReadInv'
    BY <1>5 DEF LaunchInv, ReadInv, Reading, PtrPlaces
  <2>7. SuccessIsTrue' /\ TailIsTrue'
    BY <1>5 DEF SuccessIsTrue, TailIsTrue, Succeeded
  <2> QED
    BY <1>3, <1>5, <2>4, <2>5, <2>6, <2>7 DEF Right, FlashInv, Moves
<1> QED
  BY <1>3, <1>4, <1>5

\* The process has the status it acts on.
LEMMA StatusIs ==
  ASSUME FlashInv, NEW s \in StatusChecked, dev' = s.dev, spare' = s.spare
  PROVE  /\ Moves(dev, dev') /\ spare' \in 0 .. MaxSpare
         /\ s.good => dev' = Polled(dev) /\ ToldOk(dev) /\ dev.state # "app"
         /\ s.good /\ dev.todo = Nothing =>
              dev'.todo = Nothing /\ dev'.mem = dev.mem /\ dev'.ptr = dev.ptr
<1>1. dev \in Device /\ spare \in 0 .. MaxSpare /\ Safe(dev)
  BY DEF FlashInv, TypeOK
<1>2. Went(dev, dev') /\ spare' \in 0 .. MaxSpare
  BY <1>1, CheckedWent
<1>3. s.good => dev' = Polled(dev) /\ ToldOk(dev) /\ dev.state # "app"
  BY <1>1, CheckedWent
<1>4. Moves(dev, dev')
  BY <1>1, <1>2, WentMoves
<1> QED
  BY <1>1, <1>2, <1>3, <1>4, PolledNothing

\* The rest of stm32_set_address_ptr
LEMMA PtrDoneRight == ASSUME FlashInv, JobKnown, PtrDone PROVE Right
<1>1. PICK s \in StatusChecked :
        /\ dev' = s.dev /\ spare' = s.spare
        /\ IF s.good THEN Goto([write |-> "put", read |-> "getCheck", launch |-> "goCheck"][job])
           ELSE Exit("fail")
  BY DEF PtrDone
<1>2. /\ pc = "ptrDone" /\ dev.todo = Nothing /\ dev.ptr = start /\ job \in Jobs
      /\ start \in 0 .. Size
  BY DEF PtrDone, FlashInv, NothingSent, PtrInv, JobKnown, Transfers, TypeOK
<1>3. /\ Moves(dev, dev') /\ spare' \in 0 .. MaxSpare
      /\ s.good => dev'.todo = Nothing /\ dev'.mem = dev.mem /\ dev'.ptr = dev.ptr
  BY <1>1, <1>2, StatusIs
<1>4. /\ trans' = 2 /\ base' = start
      /\ UNCHANGED <<tries, req, job, image, buin, start, final, out>>
  BY DEF PtrDone
<1>5. pc' \in Places /\ ret' \in {"none", "ok", "fail"}
  BY <1>1, <1>2 DEF Goto, Exit, Places, Jobs, FlashInv, TypeOK
<1>6. TypeOK'
  BY <1>2, <1>3, <1>4, <1>5 DEF FlashInv, TypeOK, Moves
<1>7. CASE s.good
  <2>1. \/ job = "write" /\ pc' = "put"
        \/ job = "read" /\ pc' = "getCheck"
        \/ job = "launch" /\ pc' = "goCheck"
    <3>1. pc' = [write |-> "put", read |-> "getCheck", launch |-> "goCheck"][job]
      BY <1>1, <1>7 DEF Goto
    <3>2. /\ job = "write" => pc' = "put"
          /\ job = "read" => pc' = "getCheck"
          /\ job = "launch" => pc' = "goCheck"
      BY <3>1
    <3> QED
      BY <1>2, <3>2 DEF Jobs
  <2>2. Aimed(trans)'
    BY <1>2, <1>3, <1>4, <1>7, Sizes DEF Aimed
  <2>3. NothingSent' /\ EraseInv' /\ PtrInv'
    BY <1>3, <1>7, <2>1 DEF NothingSent, EraseInv, PtrInv
  <2>4. LaunchInv'
    BY <1>2, <1>4, <2>1 DEF FlashInv, LaunchInv, PtrPlaces
  <2>5. WriteInv'
    BY <1>2, <1>3, <1>4, <1>7, <2>1, <2>2 DEF FlashInv, WriteInv, Writing, PtrPlaces, InMem
  <2>6. ReadInv'
    BY <1>2, <1>3, <1>4, <1>7, <2>1, <2>2 DEF FlashInv, ReadInv, Reading, PtrPlaces
  <2>7. SuccessIsTrue' /\ TailIsTrue'
    BY <2>1 DEF SuccessIsTrue, TailIsTrue, Succeeded
  <2> QED
    BY <1>3, <1>6, <2>3, <2>4, <2>5, <2>6, <2>7 DEF Right, FlashInv, Moves
<1>8. CASE ~s.good
  <2>1. pc' = "idle" /\ ret' = "fail"
    BY <1>1, <1>8 DEF Exit
  <2>2. /\ NothingSent' /\ EraseInv' /\ LaunchInv' /\ PtrInv' /\ WriteInv' /\ ReadInv'
        /\ SuccessIsTrue' /\ TailIsTrue'
    BY <2>1 DEF NothingSent, EraseInv, LaunchInv, PtrInv, WriteInv, ReadInv, SuccessIsTrue,
                TailIsTrue, Writing, Reading, PtrPlaces, Succeeded
  <2> QED
    BY <1>3, <1>6, <2>2 DEF Right, FlashInv, Moves
<1> QED
  BY <1>7, <1>8

\* At rest only the properties count.
LEMMA IdleRight ==
  ASSUME pc' = "idle", TypeOK', Moves(dev, dev'), (SuccessIsTrue /\ TailIsTrue)'
  PROVE  Right
<1>1. NothingSent' /\ EraseInv' /\ LaunchInv' /\ PtrInv' /\ WriteInv' /\ ReadInv'
  BY DEF NothingSent, EraseInv, LaunchInv, PtrInv, WriteInv, ReadInv, Writing, Reading, PtrPlaces
<1> QED
  BY <1>1 DEF Right, FlashInv, Moves

\* The end of an erase and of a launch
LEMMA CheckLastRight ==
  ASSUME FlashInv, NEW here \in {"eraseDone", "goRun"}, CheckLast(here)
  PROVE  Right
<1>1. PICK s \in StatusChecked :
        dev' = s.dev /\ spare' = s.spare /\ Exit(IF s.good THEN "ok" ELSE "fail")
  BY DEF CheckLast
<1>2. pc = here /\ UNCHANGED <<trans, tries, host>> /\ dev \in Device
  BY DEF CheckLast, FlashInv, TypeOK
<1>3. /\ Moves(dev, dev') /\ spare' \in 0 .. MaxSpare
      /\ s.good => dev' = Polled(dev) /\ ToldOk(dev)
      /\ s.good /\ dev.todo = Nothing => dev'.mem = dev.mem
  BY <1>1, StatusIs
<1>4. pc' = "idle" /\ ret' \in {"ok", "fail"} /\ (ret' = "ok" => s.good)
  BY <1>1 DEF Exit
<1>5. TypeOK'
  BY <1>2, <1>3, <1>4 DEF FlashInv, TypeOK, host, Moves, Places
<1>6. CASE here = "eraseDone"
  <2>1. req'.name = "erase"
    BY <1>2, <1>6 DEF FlashInv, EraseInv, host
  <2>2. s.good => dev'.mem = Blanks
    BY <1>2, <1>3, <1>6, PolledBusy DEF FlashInv, EraseInv, NothingSent
  <2>3. (SuccessIsTrue /\ TailIsTrue)'
    BY <1>4, <2>1, <2>2 DEF SuccessIsTrue, TailIsTrue, Succeeded, Blanks
  <2> QED
    BY <1>3, <1>4, <1>5, <2>3, IdleRight
<1>7. CASE here = "goRun"
  <2>1. req'.name = "launch" /\ dev.state = "dnSync" /\ dev.todo.op = "leave"
    BY <1>2, <1>7 DEF FlashInv, LaunchInv, host, Waiting, Command
  <2>2. s.good => dev'.state = "app"
    <3>1. Execute(dev).state = "app"
      BY <1>2, <2>1, ExecuteIs
    <3> QED
      BY <1>3, <2>1, <3>1 DEF Polled
  <2>3. (SuccessIsTrue /\ TailIsTrue)'
    BY <1>4, <2>1, <2>2 DEF SuccessIsTrue, TailIsTrue, Succeeded
  <2> QED
    BY <1>3, <1>4, <1>5, <2>3, IdleRight
<1> QED
  BY <1>6, <1>7

\* With all given cells of the image in the flash, what is meant is in it.
LEMMA FlashedIs ==
  ASSUME NEW r \in Requests, NEW mem, \A c \in Given(Image(r)) : mem[c] = Image(r)[c]
  PROVE  \A a \in DOMAIN Meant(r) :
           a - STM32_FLASH_OFFSET \in Cells => mem[a - STM32_FLASH_OFFSET] = Meant(r)[a]
<1> SUFFICES ASSUME NEW a \in DOMAIN Meant(r), a - STM32_FLASH_OFFSET \in Cells
             PROVE  mem[a - STM32_FLASH_OFFSET] = Meant(r)[a]
  OBVIOUS
<1> DEFINE c == a - STM32_FLASH_OFFSET
<1>1. a \in Int
  <2>1. \A x \in DOMAIN Meant(r) : x \in Int
    BY MeantNumbers
  <2> QED
    BY <2>1
<1>2. c \in Cells /\ c + STM32_FLASH_OFFSET = a
  BY <1>1, Sizes
<1> HIDE DEF c
<1>3. Image(r)[c] = Meant(r)[a] /\ c \in Given(Image(r))
  BY <1>2, ImageIs
<1> QED
  BY <1>3 DEF c

LEMMA ValidateRight == ASSUME FlashInv, Validate PROVE Right
<1>1. /\ pc = "validate" /\ pc' = "idle" /\ ret' \in {"ok", "fail"}
      /\ UNCHANGED <<dev, trans, tries, spare, host>>
  BY DEF Validate, Exit
<1>2. TypeOK' /\ Moves(dev, dev')
  BY <1>1, StillItself, StillMoves DEF FlashInv, TypeOK, host, Places, Moves
<1>3. req.name = "flash" /\ \A c \in Given(Image(req)) : dev.mem[c] = Image(req)[c]
  BY <1>1 DEF FlashInv, ReadInv, Reading
<1>4. \A a \in DOMAIN Meant(req) :
        a - STM32_FLASH_OFFSET \in Cells => dev.mem[a - STM32_FLASH_OFFSET] = Meant(req)[a]
  BY <1>3, FlashedIs DEF FlashInv, TypeOK
<1>5. (SuccessIsTrue /\ TailIsTrue)'
  BY <1>1, <1>3, <1>4 DEF SuccessIsTrue, TailIsTrue, Succeeded, host
<1> QED
  BY <1>1, <1>2, <1>5, IdleRight

\* The next block, or the end of writing.
LEMMA PutDoneRight == ASSUME FlashInv, PutDone PROVE Right
<1>1. PICK s \in StatusChecked, n \in 0 .. Size :
        /\ dev' = s.dev /\ spare' = s.spare /\ NextStart(n)
        /\ IF ~s.good THEN Exit("fail") /\ UNCHANGED <<job, start, base, final>>
           ELSE IF n <= final
           THEN /\ Goto(IF InStep(n) THEN "put" ELSE "ptrCheck")
                /\ start' = n /\ UNCHANGED <<job, base, final>>
           ELSE IF req.validate
           THEN /\ Goto("getCheck") /\ job' = "read"
                /\ start' = 0 /\ base' = 0 /\ final' = LastCell
           ELSE Exit("ok") /\ UNCHANGED <<job, start, base, final>>
  BY DEF PutDone
<1>2. pc = "putDone" /\ UNCHANGED <<trans, tries, req, image, buin, out>>
  BY DEF PutDone
<1>3. /\ job = "write" /\ req.name = "flash" /\ image = Image(req) /\ start \in Given(image)
      /\ \A c \in Given(image) : c <= final /\ (c < start => InMem(c))
      /\ Aimed(trans - 1) /\ dev.state = "dnBusy"
      /\ dev.ok => \A c \in start .. BlockEnd : InMem(c)
      /\ dev.todo = Nothing
  BY <1>2 DEF FlashInv, WriteInv, Writing, NothingSent
<1>4. /\ TypeOK /\ dev \in Device /\ req \in Requests /\ start \in Nat /\ final \in Cells
      /\ trans \in Nat /\ image \in Images /\ base \in Nat
  BY DEF FlashInv, TypeOK
<1>5. BlockEnd \in start .. final
  BY <1>3, <1>4, BlockEndIs
<1>6. /\ Moves(dev, dev') /\ spare' \in 0 .. MaxSpare
      /\ s.good => /\ ToldOk(dev)
                   /\ dev'.todo = Nothing /\ dev'.mem = dev.mem /\ dev'.ptr = dev.ptr
  BY <1>1, <1>3, StatusIs
<1>7. TypeOK'
  <2>1. /\ pc' \in Places /\ ret' \in {"none", "ok", "fail"} /\ job' \in {"none", "write", "read", "launch"}
        /\ start' \in 0 .. Size /\ base' \in 0 .. Size /\ final' \in Cells
    <3>1. 0 \in 0 .. Size /\ LastCell \in Cells
      BY Sizes DEF LastCell, Cells
    <3> QED
      BY <1>1, <1>2, <3>1 DEF FlashInv, TypeOK, Goto, Exit, Places
  <2> QED
    BY <1>2, <1>6, <2>1 DEF FlashInv, TypeOK, Moves
\* The given cells before the next block are in the flash.
<1>8. ASSUME s.good, NEW c \in Given(image), c < n
      PROVE  dev'.mem[c] = image[c]
  <2>1. c \in Nat /\ n \in BlockEnd + 1 .. final + 1
    BY <1>1, <1>4 DEF NextStart, Given, Images, Cells
  <2>2. CASE c < start
    BY <1>3, <1>6, <1>8, <2>2 DEF InMem
  <2>3. CASE c \in start .. BlockEnd
    BY <1>3, <1>4, <1>6, <1>8, <2>3, PolledBusy DEF InMem
  <2>4. CASE c \in BlockEnd + 1 .. n - 1
    BY <1>1, <2>4 DEF NextStart, Given
  <2> QED
    BY <1>4, <1>5, <1>8, <2>1, <2>2, <2>3, <2>4, Sizes DEF Cells
<1>9. CASE ~s.good
  <2>1. pc' = "idle" /\ ret' = "fail"
    BY <1>1, <1>9 DEF Exit
  <2> QED
    BY <1>6, <1>7, <2>1, IdleRight DEF SuccessIsTrue, TailIsTrue, Succeeded
<1>10. CASE s.good /\ n <= final
  <2>1. /\ pc' = (IF InStep(n) THEN "put" ELSE "ptrCheck") /\ start' = n
        /\ UNCHANGED <<job, base, final>>
    BY <1>1, <1>10 DEF Goto
  <2>2. n \in Given(image)
    <3>1. image[n] # Unset
      BY <1>1, <1>10 DEF NextStart
    <3>2. n \in Cells /\ DOMAIN image = Cells
      BY <1>4, <1>10, Sizes DEF Cells, Images
    <3> QED
      BY <3>1, <3>2 DEF Given
  <2>3. pc' = "put" => Aimed(trans)'
    <3>1. InStep(n) => base + (trans - 2) * STM32_MAX_TRANSFER_SIZE = n
      BY <1>4, Sizes DEF InStep
    <3>2. dev.ptr = base /\ trans - 1 >= 2
      BY <1>3 DEF Aimed
    <3> QED
      BY <1>2, <1>4, <1>6, <1>10, <2>1, <3>1, <3>2 DEF Aimed
  <2>4. WriteInv'
    BY <1>2, <1>3, <1>8, <1>10, <2>1, <2>2, <2>3 DEF WriteInv, Writing, PtrPlaces, InMem
  <2>5. NothingSent' /\ EraseInv' /\ PtrInv' /\ LaunchInv' /\ ReadInv'
    BY <1>3, <1>6, <1>10, <2>1
    DEF NothingSent, EraseInv, PtrInv, LaunchInv, ReadInv, Reading, PtrPlaces
  <2>6. SuccessIsTrue' /\ TailIsTrue'
    BY <2>1 DEF SuccessIsTrue, TailIsTrue, Succeeded
  <2> QED
    BY <1>6, <1>7, <2>4, <2>5, <2>6 DEF Right, FlashInv, Moves
<1>11. CASE s.good /\ ~(n <= final)
  <2>1. \A c \in Given(Image(req)) : dev'.mem[c] = Image(req)[c]
    <3>1. \A c \in Given(image) : c \in Int
      BY <1>4 DEF Given, Images, Cells
    <3>2. \A c \in Given(image) : c < n
      BY <1>3, <1>4, <1>11, <3>1, Sizes DEF Cells
    <3> QED
      BY <1>3, <1>8, <1>11, <3>2
  <2>2. CASE req.validate
    <3>1. /\ pc' = "getCheck" /\ job' = "read" /\ start' = 0 /\ base' = 0 /\ final' = LastCell
      BY <1>1, <1>11, <2>2 DEF Goto
    <3>2. trans - 1 >= 2
      BY <1>3 DEF Aimed
    <3>3. ReadInv'
      BY <1>2, <1>3, <1>4, <2>1, <3>1, <3>2 DEF ReadInv, Reading, PtrPlaces
    <3>4. NothingSent' /\ EraseInv' /\ PtrInv' /\ LaunchInv' /\ WriteInv'
      BY <1>6, <1>11, <3>1
      DEF NothingSent, EraseInv, PtrInv, LaunchInv, WriteInv, Writing, PtrPlaces
    <3>5. SuccessIsTrue' /\ TailIsTrue'
      BY <3>1 DEF SuccessIsTrue, TailIsTrue, Succeeded
    <3> QED
      BY <1>6, <1>7, <3>3, <3>4, <3>5 DEF Right, FlashInv, Moves
  <2>3. CASE ~req.validate
    <3>1. pc' = "idle"
      BY <1>1, <1>11, <2>3 DEF Exit
    <3>2. \A a \in DOMAIN Meant(req) :
            a - STM32_FLASH_OFFSET \in Cells => dev'.mem[a - STM32_FLASH_OFFSET] = Meant(req)[a]
      BY <1>4, <2>1, FlashedIs
    <3>3. (SuccessIsTrue /\ TailIsTrue)'
      BY <1>2, <1>3, <3>2 DEF SuccessIsTrue, TailIsTrue, Succeeded
    <3> QED
      BY <1>6, <1>7, <3>1, <3>3, IdleRight
  <2> QED
    BY <2>2, <2>3
<1> QED
  BY <1>9, <1>10, <1>11

\* The end of the block to be read, and what an answer holds.
LEMMA GetEndIs ==
  ASSUME TypeOK
  PROVE  /\ GetEnd \in Int /\ GetEnd <= final /\ GetEnd <= start + STM32_MAX_TRANSFER_SIZE - 1
         /\ start <= final => GetEnd >= start
  BY Sizes DEF GetEnd, TypeOK, Cells

LEMMA UploadedIs ==
  ASSUME NEW d \in Device, NEW w \in Nat, NEW n \in Int, MayUpload(d, w, n)
  PROVE  LET bytes == Uploaded(d, w, n)
         IN /\ bytes \in Seq(Byte)
            /\ n <= STM32_MAX_TRANSFER_SIZE => Len(bytes) <= STM32_MAX_TRANSFER_SIZE
            /\ w # 0 => \A k \in 1 .. n : /\ BlockAddress(d, w) + k - 1 \in Cells
                                          /\ k \in 1 .. Len(bytes)
                                          /\ bytes[k] = d.mem[BlockAddress(d, w) + k - 1]
<1>1. d.mem \in [Cells -> Byte] /\ d.ptr \in Nat
  BY DEF Device
<1>2. CASE w = 0
  <2> DEFINE m == IF n < Len(Commands) THEN n ELSE Len(Commands)
  <2>1. Commands \in Seq(Byte) /\ m \in Int /\ m <= Len(Commands) /\ m <= n
    BY DeviceAssumption
  <2>2. Uploaded(d, w, n) = SubSeq(Commands, 1, m)
    BY <1>2 DEF Uploaded
  <2> HIDE DEF m
  <2>3. SubSeq(Commands, 1, m) \in Seq(Byte)
    BY <2>1
  <2>4. Len(SubSeq(Commands, 1, m)) = IF 1 <= m THEN m ELSE 0
    BY <2>1
  <2> QED
    BY <1>2, <2>1, <2>2, <2>3, <2>4, Sizes
<1>3. CASE w # 0
  <2> DEFINE a == BlockAddress(d, w)
             bytes == [k \in 1 .. n |-> d.mem[a + k - 1]]
             z == IF n >= 0 THEN n ELSE 0
  <2>1. w >= 2 /\ a + n <= Size
    BY <1>3 DEF MayUpload, BlockFits
  <2>2. a \in Nat
    BY <1>1, <2>1, Sizes DEF BlockAddress
  <2> HIDE DEF a
  <2>3. \A k \in 1 .. n : a + k - 1 \in Cells
    BY <2>1, <2>2, Sizes DEF Cells
  <2>4. 1 .. n = 1 .. z /\ z \in Nat
    OBVIOUS
  <2>5. bytes = [k \in 1 .. z |-> d.mem[a + k - 1]] /\ \A k \in 1 .. z : d.mem[a + k - 1] \in Byte
    BY <1>1, <2>3, <2>4
  <2> HIDE DEF z, bytes
  <2>6. bytes \in Seq(Byte) /\ Len(bytes) = z
    BY <2>4, <2>5
  <2>7. Uploaded(d, w, n) = bytes
    BY <1>3 DEF Uploaded, bytes, a
  <2>8. \A k \in 1 .. n : k \in 1 .. Len(bytes) /\ bytes[k] = d.mem[a + k - 1]
    BY <2>4, <2>5, <2>6
  <2> QED
    BY <2>3, <2>4, <2>6, <2>7, <2>8, Sizes DEF z, a
<1> QED
  BY <1>2, <1>3

\* stm32_read_block
LEMMA GetRight == ASSUME FlashInv, Get PROVE Right
<1> DEFINE n == GetEnd - start + 1
           bytes == Uploaded(dev, trans, n)
<1>1. PICK o \in Upload(n) : o.good /\ dev' = o.dev
  BY DEF Get
<1>2. /\ pc = "get" /\ trans' = trans + 1 /\ start' = GetEnd + 1
      /\ buin' = [c \in Cells |-> IF c \in start .. start + Len(bytes) - 1
                                    THEN bytes[c - start + 1] ELSE buin[c]]
      /\ IF start' <= final THEN Goto(IF ReadInStep THEN "getCheck" ELSE "ptrCheck")
         ELSE IF req.name = "flash" THEN Goto("validate") ELSE Exit("ok")
      /\ UNCHANGED <<tries, spare, req, job, image, base, final>>
  BY DEF Get
<1>3. /\ TypeOK /\ dev \in Device /\ trans \in Nat /\ start \in Nat /\ final \in Cells
      /\ base \in Nat /\ buin \in [Cells -> Byte]
  BY DEF FlashInv, TypeOK
<1>4. /\ GetEnd \in Int /\ GetEnd <= final /\ GetEnd <= start + STM32_MAX_TRANSFER_SIZE - 1
  BY <1>3, GetEndIs
<1>5. n \in Int /\ n <= STM32_MAX_TRANSFER_SIZE
  BY <1>3, <1>4, Sizes
<1> HIDE DEF n
<1>6. MayUpload(dev, trans, n) /\ dev' = To(dev, "upIdle") /\ Still(dev, dev')
  BY <1>1, <1>3, UploadStill
<1>7. dev'.mem = dev.mem /\ dev'.ptr = dev.ptr /\ dev'.todo = Nothing /\ dev' \in Device
  BY <1>2, <1>3, <1>6 DEF To, Device, FlashInv, NothingSent, Still
<1>8. Moves(dev, dev')
  BY <1>3, <1>6, StillMoves DEF FlashInv
<1>9. /\ bytes \in Seq(Byte) /\ Len(bytes) <= STM32_MAX_TRANSFER_SIZE
      /\ trans # 0 => \A k \in 1 .. n : /\ BlockAddress(dev, trans) + k - 1 \in Cells
                                        /\ k \in 1 .. Len(bytes)
                                        /\ bytes[k] = dev.mem[BlockAddress(dev, trans) + k - 1]
  BY <1>3, <1>5, <1>6, UploadedIs
<1> HIDE DEF bytes
<1>10. buin' \in [Cells -> Byte]
  <2>1. ASSUME NEW c \in Cells, c \in start .. start + Len(bytes) - 1
        PROVE  bytes[c - start + 1] \in Byte
    <3>1. c - start + 1 \in 1 .. Len(bytes)
      BY <1>3, <1>9, <2>1 DEF Cells
    <3> QED
      BY <1>9, <3>1
  <2> QED
    BY <1>2, <1>3, <2>1
<1>11. TypeOK'
  <2>1. start' \in 0 .. Size
    BY <1>2, <1>3, <1>4, Sizes DEF Cells, GetEnd
  <2>2. pc' \in Places /\ ret' \in {"none", "ok", "fail"}
    BY <1>2, <1>3 DEF TypeOK, Goto, Exit, Places
  <2> QED
    BY <1>2, <1>3, <1>7, <1>10, <2>1, <2>2 DEF TypeOK
<1>12. /\ job = "read" /\ final = LastCell
       /\ \/ req.name = "flash" /\ \A c \in Given(Image(req)) : dev.mem[c] = Image(req)[c]
          \/ /\ req.name = "read"
             /\ \A c \in STM32_MAX_TRANSFER_SIZE .. start - 1 : c \in Cells => buin[c] = dev.mem[c]
       /\ Aimed(trans) \/ (start = 0 /\ base = 0 /\ trans # 2)
  BY <1>2 DEF FlashInv, ReadInv, Reading
\* What has been read is true from the second block on.
<1>13. ASSUME req.name = "read",
              NEW c \in STM32_MAX_TRANSFER_SIZE .. start' - 1, c \in Cells
       PROVE  buin'[c] = dev'.mem[c]
  <2>0. c \in Nat /\ c >= STM32_MAX_TRANSFER_SIZE /\ c <= GetEnd
    BY <1>2, <1>4, <1>13, Sizes
  <2>1. CASE c < start
    <3>1. buin[c] = dev.mem[c]
      BY <1>3, <1>12, <1>13, <2>0, <2>1, Sizes
    <3>2. c \notin start .. start + Len(bytes) - 1
      BY <1>3, <2>0, <2>1
    <3> QED
      BY <1>2, <1>7, <1>13, <3>1, <3>2
  <2>2. CASE c >= start
    <3>1. start # 0
      BY <1>4, <2>0, Sizes
    <3>2. Aimed(trans)
      BY <1>12, <3>1
    <3> DEFINE k == c - start + 1
    <3>3. k \in 1 .. n
      BY <1>3, <1>4, <2>0, <2>2 DEF n
    <3>4. trans # 0 /\ BlockAddress(dev, trans) = start
      BY <3>2 DEF Aimed, BlockAddress
    <3>5. k \in 1 .. Len(bytes) /\ bytes[k] = dev.mem[start + k - 1]
      BY <1>9, <3>3, <3>4
    <3>6. start + k - 1 = c /\ c \in start .. start + Len(bytes) - 1
      BY <1>3, <1>9, <2>0, <2>2, <3>5
    <3> QED
      BY <1>2, <1>7, <1>13, <3>5, <3>6
  <2> QED
    BY <1>3, <2>0, <2>1, <2>2
<1>14. CASE start' <= final
  <2>1. pc' = IF ReadInStep THEN "getCheck" ELSE "ptrCheck"
    BY <1>2, <1>14 DEF Goto
  <2>2. ReadInStep => Aimed(trans)'
    <3> SUFFICES ASSUME ReadInStep PROVE Aimed(trans)'
      OBVIOUS
    <3>1. GetEnd + 1 = STM32_MAX_TRANSFER_SIZE * (trans - 1) + base
      <4>1. trans' - 2 = trans - 1
        BY <1>2, <1>3
      <4> QED
        BY <4>1 DEF ReadInStep
    <3>2. GetEnd - start + 1 = STM32_MAX_TRANSFER_SIZE
      BY DEF ReadInStep
    <3>3. CASE Aimed(trans)
      <4>1. base + (trans + 1 - 2) * STM32_MAX_TRANSFER_SIZE = GetEnd + 1
        BY <1>3, <1>4, <3>1, Sizes
      <4> QED
        BY <1>2, <1>3, <1>7, <3>3, <4>1 DEF Aimed
    <3>4. CASE start = 0 /\ base = 0 /\ trans # 2
      <4>1. STM32_MAX_TRANSFER_SIZE * (trans - 1) = STM32_MAX_TRANSFER_SIZE
        BY <1>3, <1>4, <3>1, <3>2, <3>4, Sizes
      <4> DEFINE w == trans - 1
      <4>2. w = 1
        <5>1. w \in Int /\ STM32_MAX_TRANSFER_SIZE * w = STM32_MAX_TRANSFER_SIZE
          BY <1>3, <4>1
        <5> HIDE DEF w
        <5>2. CASE w >= 2
          BY <5>1, <5>2, Sizes
        <5>3. CASE w <= 0
          BY <5>1, <5>3, Sizes
        <5> QED
          BY <5>1, <5>2, <5>3
      <4> QED
        BY <1>3, <3>4, <4>2
    <3> QED
      BY <1>12, <3>3, <3>4
  <2>3. ReadInv'
    BY <1>2, <1>7, <1>12, <1>13, <2>1, <2>2 DEF ReadInv, Reading, PtrPlaces
  <2>4. NothingSent' /\ EraseInv' /\ PtrInv' /\ LaunchInv' /\ WriteInv'
    BY <1>2, <1>7, <1>12, <2>1
    DEF NothingSent, EraseInv, PtrInv, LaunchInv, WriteInv, Writing, PtrPlaces
  <2>5. SuccessIsTrue' /\ TailIsTrue'
    BY <2>1 DEF SuccessIsTrue, TailIsTrue, Succeeded
  <2> QED
    BY <1>8, <1>11, <2>3, <2>4, <2>5 DEF Right, FlashInv, Moves
<1>15. CASE ~(start' <= final) /\ req.name = "flash"
  <2>1. pc' = "validate"
    BY <1>2, <1>15 DEF Goto
  <2>2. ReadInv'
    BY <1>2, <1>7, <1>12, <1>15, <2>1 DEF ReadInv, Reading, PtrPlaces
  <2>3. NothingSent' /\ EraseInv' /\ PtrInv' /\ LaunchInv' /\ WriteInv'
    BY <1>7, <2>1 DEF NothingSent, EraseInv, PtrInv, LaunchInv, WriteInv, Writing, PtrPlaces
  <2>4. SuccessIsTrue' /\ TailIsTrue'
    BY <2>1 DEF SuccessIsTrue, TailIsTrue, Succeeded
  <2> QED
    BY <1>8, <1>11, <2>1, <2>2, <2>3, <2>4 DEF Right, FlashInv, Moves
<1>16. CASE ~(start' <= final) /\ req.name # "flash"
  <2>1. pc' = "idle" /\ req.name = "read"
    BY <1>2, <1>12, <1>16 DEF Exit
  <2>2. ASSUME NEW c \in Cells, c >= STM32_MAX_TRANSFER_SIZE PROVE buin'[c] = dev'.mem[c]
    <3>1. c \in STM32_MAX_TRANSFER_SIZE .. start' - 1
      BY <1>2, <1>4, <1>12, <1>16, <2>2, Sizes DEF LastCell, Cells
    <3> QED
      BY <1>13, <2>1, <3>1
  <2>3. (SuccessIsTrue /\ TailIsTrue)'
    BY <1>2, <2>1, <2>2 DEF SuccessIsTrue, TailIsTrue, Succeeded
  <2> QED
    BY <1>8, <1>11, <2>1, <2>3, IdleRight
<1> QED
  BY <1>14, <1>15, <1>16

LEMMA GetFailsRight == ASSUME FlashInv, GetFails PROVE Right
<1> DEFINE n == GetEnd - start + 1
<1>1. PICK o \in Upload(n) : dev' \in {o.dev} \cup Cleared(o.dev)
  BY DEF GetFails
<1>2. dev \in Device /\ trans \in Nat /\ Safe(dev) /\ TypeOK
  BY DEF FlashInv, TypeOK
<1>3. Still(dev, o.dev)
  BY <1>2, UploadStill
<1>4. o.dev \in Device
  BY <1>3 DEF Still
<1>5. Still(dev, dev')
  BY <1>1, <1>3, <1>4, StillCleared, StillStill
<1>6. Moves(dev, dev')
  BY <1>2, <1>5, StillMoves
<1>7. pc' = "idle" /\ ret' = "fail" /\ Counts /\ UNCHANGED host
  BY <1>2 DEF GetFails, Exit, Counts, TypeOK
<1> QED
  BY <1>2, <1>6, <1>7, FailRight

\* The least and the greatest cell with data.
LEMMA StartFlashRight == ASSUME FlashInv, StartFlash PROVE Right
<1>1. /\ pc = "ready" /\ req.name = "flash" /\ dev.todo = Nothing
      /\ UNCHANGED <<dev, trans, tries, spare, req, buin, base, out>>
  BY DEF StartFlash, FlashInv, NothingSent
<1>2. TypeOK /\ dev \in Device /\ req \in Requests /\ Moves(dev, dev')
  BY <1>1, StillItself, StillMoves DEF FlashInv, TypeOK
<1>3. CASE Exit("fail") /\ UNCHANGED <<job, image, start, final>>
  <2>1. pc' = "idle" /\ ret' = "fail" /\ Counts /\ UNCHANGED host
    BY <1>1, <1>2, <1>3 DEF Exit, Counts, TypeOK, host
  <2> QED
    BY <1>2, <2>1, FailRight
<1>4. CASE /\ Goto("ptrCheck") /\ job' = "write" /\ image' = Image(req)
           /\ \E f \in Given(Image(req)) : (\A c \in Given(Image(req)) : f <= c) /\ start' = f
           /\ \E l \in Given(Image(req)) : (\A c \in Given(Image(req)) : c <= l) /\ final' = l
  <2>1. Image(req) \in Images /\ Given(Image(req)) \subseteq Cells
    <3>1. Image(req) \in Images
      BY <1>2, ImageIs
    <3> QED
      BY <3>1 DEF Given, Images
  <2>2. /\ start' \in Given(image') /\ final' \in Given(image')
        /\ \A c \in Given(image') : start' <= c /\ c <= final'
    BY <1>4
  <2>3. start' \in Cells /\ final' \in Cells /\ start' \in 0 .. Size
    BY <1>4, <2>1, <2>2, Sizes DEF Cells
  <2>4. TypeOK'
    BY <1>1, <1>2, <1>4, <2>1, <2>3 DEF TypeOK, Goto, Places
  <2>5. \A c \in Given(image') : ~(c < start')
    BY <1>4, <2>1, <2>2, <2>3 DEF Cells
  <2>6. WriteInv'
    BY <1>1, <1>4, <2>2, <2>5 DEF WriteInv, Writing, PtrPlaces, Goto
  <2>7. NothingSent' /\ EraseInv' /\ PtrInv' /\ LaunchInv' /\ ReadInv'
    BY <1>1, <1>4
    DEF NothingSent, EraseInv, PtrInv, LaunchInv, ReadInv, Reading, PtrPlaces, Goto
  <2>8. SuccessIsTrue' /\ TailIsTrue'
    BY <1>4 DEF SuccessIsTrue, TailIsTrue, Succeeded, Goto
  <2> QED
    BY <1>2, <2>4, <2>6, <2>7, <2>8 DEF Right, FlashInv, Moves
<1> QED
  BY <1>3, <1>4 DEF StartFlash

\* The other commands begin with nothing but the place they go to.
LEMMA StartOthersRight ==
  ASSUME FlashInv, StartRead \/ StartLaunch \/ StartErase \/ NotSupported
  PROVE  Right
<1>1. pc = "ready" /\ dev.todo = Nothing /\ trans = 0
  BY DEF StartRead, StartLaunch, StartErase, NotSupported, FlashInv, NothingSent, ReadInv
<1>2. /\ TypeOK /\ dev \in Device /\ Moves(dev, dev') /\ dev' = dev
      /\ UNCHANGED <<trans, tries, spare, req, image, buin>>
  BY StillItself, StillMoves
  DEF StartRead, StartLaunch, StartErase, NotSupported, FlashInv, TypeOK, host
<1>3. CASE StartRead
  <2>1. /\ pc' = "getCheck" /\ ret' = ret /\ job' = "read" /\ start' = 0 /\ base' = 0
        /\ final' = LastCell /\ req.name = "read"
    BY <1>3 DEF StartRead, Goto
  <2>2. TypeOK'
    <3>1. 0 \in 0 .. Size /\ LastCell \in Cells
      BY Sizes DEF LastCell, Cells
    <3> QED
      BY <1>2, <2>1, <3>1 DEF TypeOK, Places
  <2>3. ReadInv'
    <3>1. \A c \in STM32_MAX_TRANSFER_SIZE .. start' - 1 : FALSE
      BY <2>1, Sizes
    <3> QED
      BY <1>1, <1>2, <2>1, <3>1 DEF ReadInv, Reading, PtrPlaces
  <2>4. NothingSent' /\ EraseInv' /\ PtrInv' /\ LaunchInv' /\ WriteInv'
    BY <1>1, <1>2, <2>1
    DEF NothingSent, EraseInv, PtrInv, LaunchInv, WriteInv, Writing, PtrPlaces
  <2>5. SuccessIsTrue' /\ TailIsTrue'
    BY <2>1 DEF SuccessIsTrue, TailIsTrue, Succeeded
  <2> QED
    BY <1>2, <2>2, <2>3, <2>4, <2>5 DEF Right, FlashInv, Moves
<1>4. CASE StartLaunch
  <2>1. /\ pc' = "ptrCheck" /\ ret' = ret /\ job' = "launch" /\ start' = 0
        /\ UNCHANGED <<base, final>> /\ req.name = "launch"
    BY <1>4 DEF StartLaunch, Goto
  <2>2. TypeOK'
    <3>1. 0 \in 0 .. Size
      BY Sizes
    <3> QED
      BY <1>2, <2>1, <3>1 DEF TypeOK, Places
  <2>3. ReadInv' /\ WriteInv'
    BY <2>1 DEF ReadInv, WriteInv, Reading, Writing, PtrPlaces
  <2>4. NothingSent' /\ EraseInv' /\ PtrInv' /\ LaunchInv'
    BY <1>1, <1>2, <2>1 DEF NothingSent, EraseInv, PtrInv, LaunchInv, PtrPlaces
  <2>5. SuccessIsTrue' /\ TailIsTrue'
    BY <2>1 DEF SuccessIsTrue, TailIsTrue, Succeeded
  <2> QED
    BY <1>2, <2>2, <2>3, <2>4, <2>5 DEF Right, FlashInv, Moves
<1>5. CASE StartErase
  <2>1. pc' = "erase" /\ ret' = ret /\ UNCHANGED host /\ req.name = "erase"
    BY <1>5 DEF StartErase, Goto
  <2>2. TypeOK'
    BY <1>2, <2>1 DEF TypeOK, host, Places
  <2>3. ReadInv' /\ WriteInv' /\ LaunchInv'
    BY <2>1 DEF ReadInv, WriteInv, LaunchInv, Reading, Writing, PtrPlaces
  <2>4. NothingSent' /\ EraseInv' /\ PtrInv'
    BY <1>1, <1>2, <2>1 DEF NothingSent, EraseInv, PtrInv
  <2>5. SuccessIsTrue' /\ TailIsTrue'
    BY <2>1 DEF SuccessIsTrue, TailIsTrue, Succeeded
  <2> QED
    BY <1>2, <2>2, <2>3, <2>4, <2>5 DEF Right, FlashInv, Moves
<1>6. CASE NotSupported
  <2>1. pc' = "idle" /\ ret' = "fail" /\ Counts /\ UNCHANGED host
    BY <1>2, <1>6 DEF NotSupported, Exit, Counts, TypeOK
  <2> QED
    BY <1>2, <2>1, FailRight
<1> QED
  BY <1>3, <1>4, <1>5, <1>6

\* On the way to the state dfuIDLE at most what another process has left is executed.
LEMMA GetsIdleMoves ==
  ASSUME FlashInv, IInv, GetsIdle
  PROVE  /\ Moves(dev, dev') /\ Counts /\ UNCHANGED <<trans, host>> /\ pc \in {"open", "status"}
         /\ \/ pc' = "idle" /\ ret' = "fail"
            \/ pc' \in {"open", "status"} /\ UNCHANGED ret
            \/ pc' = "ready" /\ UNCHANGED ret /\ dev'.todo = Nothing
<1>1. /\ TypeOK /\ dev \in Device /\ Safe(dev) /\ UNCHANGED host
      /\ trans \in Nat /\ tries \in 0 .. Retries /\ spare \in 0 .. MaxSpare
  BY DEF FlashInv, GetsIdle, TypeOK
<1>2. Moves(dev, dev)
  BY <1>1, StillItself, StillMoves
<1>3. \A s \in GetStatus : Went(dev, s.dev) /\ s.dev \in Device
  BY <1>1, StatusWent, WentTyped
<1>4. CASE NotFound \/ NotIdle
  BY <1>1, <1>2, <1>4 DEF NotFound, NotIdle, Counts
<1>5. CASE Found
  BY <1>1, <1>2, <1>5 DEF Found, Counts, Goto, Retries
<1>6. CASE AskAgain
  <2>1. PICK s \in GetStatus : s.short /\ dev' \in Anyhow(s.dev, Cleared(s.dev))
    BY <1>6 DEF AskAgain
  <2>2. Went(dev, dev')
    BY <1>1, <1>3, <2>1, StillCleared, WentStill DEF Anyhow
  <2>3. spare' \in 0 .. MaxSpare
    BY <1>1, <1>6, <2>1, DfuAssumption DEF AskAgain, GetStatus
  <2> QED
    BY <1>1, <1>6, <2>2, <2>3, WentMoves DEF AskAgain, Counts, Goto
<1>7. CASE MakeIdleDone
  <2>1. PICK s \in GetStatus : IsIdle(s) /\ dev' = s.dev
    BY <1>7 DEF MakeIdleDone
  <2>2. dev'.todo = Nothing
    <3>1. Told(s)
      BY StatusTold DEF IInv
    <3> QED
      BY <2>1, <3>1 DEF IsIdle, Told, Clean
  <2> QED
    BY <1>1, <1>3, <1>7, <2>1, <2>2, WentMoves DEF MakeIdleDone, Counts, Goto
<1>8. CASE Nudge
  <2>1. PICK s \in GetStatus :
          /\ ~s.short /\ ~IsIdle(s) /\ s.state \notin {"appDetach", "waitReset"}
          /\ dev' \in Anyhow(s.dev, Nudged(s))
    BY <1>8 DEF Nudge
  <2>2. Told(s)
    BY StatusTold DEF IInv
  <2>3. \A d \in Nudged(s) : Still(s.dev, d)
    BY <1>3, <2>1, <2>2, StillAborted, StillCleared, StillDetached DEF Nudged, Told, States
  <2>4. Went(dev, dev')
    BY <1>3, <2>1, <2>3, WentStill DEF Anyhow
  <2> QED
    BY <1>1, <1>8, <2>4, WentMoves DEF Nudge, Counts, Goto, Retries
<1>9. CASE Reset
  <2>1. PICK s \in GetStatus :
          \/ \E t \in ResetStates(s.dev) : dev' = Restarted(s.dev, t) /\ UNCHANGED spare
          \/ Lossy /\ spare > 0 /\ dev' = s.dev /\ spare' = spare - 1
    BY <1>9 DEF Reset
  <2>2. Went(dev, dev')
    BY <1>3, <2>1, StillRestarted, WentStill DEF ResetStates, States
  <2>3. spare' \in 0 .. MaxSpare
    BY <1>1, <2>1, DfuAssumption
  <2> QED
    BY <1>1, <1>9, <2>2, <2>3, WentMoves DEF Reset, Counts, Goto
<1> QED
  BY <1>4, <1>5, <1>6, <1>7, <1>8, <1>9 DEF GetsIdle, MakeIdle

LEMMA GetsIdleRight == ASSUME FlashInv, IInv, GetsIdle PROVE Right
<1>1. /\ Moves(dev, dev') /\ Counts /\ UNCHANGED <<trans, host>> /\ pc \in {"open", "status"}
      /\ \/ pc' = "idle" /\ ret' = "fail"
         \/ pc' \in {"open", "status"} /\ UNCHANGED ret
         \/ pc' = "ready" /\ UNCHANGED ret /\ dev'.todo = Nothing
  BY GetsIdleMoves
<1>2. TypeOK'
  BY <1>1 DEF FlashInv, TypeOK, host, Moves, Counts, Places
<1>3. NothingSent' /\ EraseInv' /\ PtrInv' /\ LaunchInv' /\ WriteInv'
  BY <1>1 DEF NothingSent, EraseInv, PtrInv, LaunchInv, WriteInv, Writing, PtrPlaces
<1>4. ReadInv'
  BY <1>1 DEF FlashInv, ReadInv, Reading, PtrPlaces
<1>5. SuccessIsTrue' /\ TailIsTrue'
  BY <1>1 DEF SuccessIsTrue, TailIsTrue, Succeeded
<1> QED
  BY <1>1, <1>2, <1>3, <1>4, <1>5 DEF Right, FlashInv, Moves

-----------------------------------------------------------------------------
(* The theorems.                                                            *)

LEMMA ProcessRight == ASSUME FlashInv, IInv, Process PROVE Right
<1>1. CASE GetsIdle
  BY <1>1, GetsIdleRight
<1>2. CASE StartErase \/ StartFlash \/ StartRead \/ StartLaunch \/ NotSupported
  BY <1>2, StartFlashRight, StartOthersRight
<1>3. CASE Erase
  BY <1>3, SendRight, CheckEraseRight, CheckLastRight DEF Erase
<1>4. CASE SetAddressPtr
  BY <1>4, SendRight, CheckCleanRight, CheckPtrRight, PtrDoneRight DEF SetAddressPtr, IInv
<1>5. CASE StartApp
  BY <1>5, SendRight, CheckCleanRight, CheckLastRight DEF StartApp
<1>6. CASE WriteBlock
  BY <1>6, PutRight, CheckPutRight, PutDoneRight DEF WriteBlock
<1>7. CASE ReadBlock
  BY <1>7, CheckCleanRight, GetRight, GetFailsRight DEF ReadBlock
<1>8. CASE Validate
  BY <1>8, ValidateRight
<1> QED
  BY <1>1, <1>2, <1>3, <1>4, <1>5, <1>6, <1>7, <1>8 DEF Process

LEMMA BeginRight == ASSUME FlashInv, NEW r \in Requests, Begin(r) PROVE Right
<1>1. /\ pc' = "open" /\ ret' = "none" /\ trans' = 0 /\ spare' = MaxSpare /\ tries' = 0
      /\ req' = r /\ job' = "none" /\ image' = NoImage /\ buin' = Blanks
      /\ start' = 0 /\ base' = 0 /\ final' = 0 /\ dev' = dev
  BY DEF Begin
<1>2. dev \in Device /\ Safe(dev) /\ Moves(dev, dev')
  BY <1>1, StillItself, StillMoves DEF FlashInv, TypeOK
<1>3. TypeOK'
  <2>1. NoImage \in Images /\ Blanks \in [Cells -> Byte] /\ 0 \in Cells /\ 0 \in 0 .. Size
    BY Sizes DEF NoImage, Blanks, Images, Cells
  <2>2. 0 \in 0 .. Retries /\ MaxSpare \in 0 .. MaxSpare
    BY DfuAssumption DEF Retries
  <2> QED
    BY <1>1, <1>2, <2>1, <2>2 DEF TypeOK, Places
<1>4. NothingSent' /\ EraseInv' /\ PtrInv' /\ LaunchInv' /\ WriteInv' /\ ReadInv'
  BY <1>1
  DEF NothingSent, EraseInv, PtrInv, LaunchInv, WriteInv, ReadInv, Writing, Reading, PtrPlaces
<1>5. SuccessIsTrue' /\ TailIsTrue'
  BY <1>1 DEF SuccessIsTrue, TailIsTrue, Succeeded
<1> QED
  BY <1>2, <1>3, <1>4, <1>5 DEF Right, FlashInv, Moves

\* A conversion is no command of a device.
LEMMA ConvertRight == ASSUME FlashInv, NEW r \in Requests, Convert(r) PROVE Right
<1>1. /\ pc' = "idle" /\ ret' \in {"ok", "fail"} /\ trans' = 0 /\ spare' = MaxSpare /\ tries' = 0
      /\ req' = r /\ job' = "none" /\ image' \in {NoImage, Converted(r)} /\ buin' = Blanks
      /\ start' = 0 /\ base' = 0 /\ final' = 0 /\ dev' = dev /\ r.name \in Conversions
  BY DEF Convert
<1>2. dev \in Device /\ Safe(dev) /\ Moves(dev, dev')
  BY <1>1, StillItself, StillMoves DEF FlashInv, TypeOK
<1>3. TypeOK'
  <2>1. NoImage \in Images /\ Blanks \in [Cells -> Byte] /\ 0 \in Cells /\ 0 \in 0 .. Size
    BY Sizes DEF NoImage, Blanks, Images, Cells
  <2>2. Converted(r) \in Images
    BY FlashRequest, BufferTyped DEF Converted
  <2>3. 0 \in 0 .. Retries /\ MaxSpare \in 0 .. MaxSpare
    BY DfuAssumption DEF Retries
  <2> QED
    BY <1>1, <1>2, <2>1, <2>2, <2>3 DEF TypeOK, Places
<1>4. (SuccessIsTrue /\ TailIsTrue)'
  BY <1>1 DEF SuccessIsTrue, TailIsTrue, Succeeded, Conversions
<1> QED
  BY <1>1, <1>2, <1>3, <1>4, IdleRight

LEMMA ReplugRight == ASSUME FlashInv, Replug PROVE Right
<1>1. /\ pc = "idle" /\ dev' = Restarted(dev, "idle") /\ ret' = "none"
      /\ UNCHANGED <<pc, trans, tries, spare, host>> /\ dev \in Device
  BY DEF Replug, FlashInv, TypeOK
<1>2. Moves(dev, dev')
  BY <1>1, StillRestarted, StillMoves DEF FlashInv, States
<1>3. TypeOK'
  BY <1>1, <1>2 DEF FlashInv, TypeOK, host, Moves
<1>4. (SuccessIsTrue /\ TailIsTrue)'
  BY <1>1 DEF SuccessIsTrue, TailIsTrue, Succeeded
<1> QED
  BY <1>1, <1>2, <1>3, <1>4, IdleRight

LEMMA StutterRight == ASSUME FlashInv, UNCHANGED vars PROVE Right
<1>1. dev \in Device /\ Safe(dev) /\ Moves(dev, dev')
  BY StillItself, StillMoves DEF FlashInv, TypeOK, vars, dfu
<1>2. TypeOK'
  BY DEF FlashInv, TypeOK, vars, dfu, host
<1>3. NothingSent' /\ EraseInv' /\ PtrInv' /\ LaunchInv'
  BY DEF FlashInv, NothingSent, EraseInv, PtrInv, LaunchInv, PtrPlaces, Waiting, vars, dfu, host
<1>4. WriteInv'
  BY SameBlocks
  DEF FlashInv, WriteInv, Writing, PtrPlaces, Waiting, BlockTodo, Aimed, InMem, vars, dfu, host
<1>5. ReadInv'
  BY DEF FlashInv, ReadInv, Reading, PtrPlaces, Aimed, vars, dfu, host
<1>6. SuccessIsTrue' /\ TailIsTrue'
  BY DEF FlashInv, SuccessIsTrue, TailIsTrue, Succeeded, vars, dfu, host
<1> QED
  BY <1>1, <1>2, <1>3, <1>4, <1>5, <1>6 DEF Right, FlashInv, Moves

LEMMA InitFlash == Init => FlashInv
<1> SUFFICES ASSUME Init PROVE FlashInv
  OBVIOUS
<1>1. /\ pc = "idle" /\ trans = 0 /\ tries = 0 /\ spare = MaxSpare /\ ret = "none"
      /\ req \in Requests /\ job = "none" /\ image = NoImage /\ buin = Blanks
      /\ start = 0 /\ base = 0 /\ final = 0
  BY DEF Init
<1>2. dev \in Device /\ dev.todo = Nothing
  BY NothingIsTodo, ProgramAssumption DEF Init, Device
<1>3. TypeOK
  <2>1. NoImage \in Images /\ Blanks \in [Cells -> Byte] /\ 0 \in Cells /\ 0 \in 0 .. Size
    BY Sizes DEF NoImage, Blanks, Images, Cells
  <2>2. 0 \in 0 .. Retries /\ MaxSpare \in 0 .. MaxSpare
    BY DfuAssumption DEF Retries
  <2> QED
    BY <1>1, <1>2, <2>1, <2>2 DEF TypeOK, Places
<1>4. Safe(dev)
  BY <1>2 DEF Safe, Nothing
<1>5. NothingSent /\ EraseInv /\ PtrInv /\ LaunchInv /\ WriteInv /\ ReadInv
  BY <1>1
  DEF NothingSent, EraseInv, PtrInv, LaunchInv, WriteInv, ReadInv, Writing, Reading, PtrPlaces
<1>6. SuccessIsTrue /\ TailIsTrue
  BY <1>1 DEF SuccessIsTrue, TailIsTrue, Succeeded
<1> QED
  BY <1>3, <1>4, <1>5, <1>6 DEF FlashInv

\* Every step keeps what is known of the memory and of the place of a process, and
\* changes the memory only as it may.
THEOREM FlashInductive == FlashInv /\ IInv /\ [Next]_vars => Right
<1> SUFFICES ASSUME FlashInv, IInv, [Next]_vars PROVE Right
  OBVIOUS
<1> QED
  BY ProcessRight, BeginRight, ConvertRight, ReplugRight, StutterRight DEF Next

LEMMA AlwaysFlashInv == Spec => [](FlashInv /\ IInv)
<1>1. FlashInv /\ IInv /\ [Next]_vars => (FlashInv /\ IInv)'
  BY FlashInductive, Inductive DEF Right
<1> QED
  BY <1>1, InitFlash, InitInv, PTL DEF Spec

\* The variables stay in their types: no block, pointer, transaction or image that
\* the code makes of a request, a file and a device is anything else.
THEOREM TypeCorrect == Spec => []TypeOK
<1>1. FlashInv => TypeOK
  BY DEF FlashInv
<1> QED
  BY <1>1, AlwaysFlashInv, PTL

\* A flash, an erase and a launch that report success have done it, for memories,
\* blocks, sectors, pages and files of any size and whatever requests have failed.
THEOREM SuccessTrue == Spec => []SuccessIsTrue
<1>1. FlashInv => SuccessIsTrue
  BY DEF FlashInv
<1> QED
  BY <1>1, AlwaysFlashInv, PTL

\* A read that reports success returns the flash from the second block on.
THEOREM TailTrue == Spec => []TailIsTrue
<1>1. FlashInv => TailIsTrue
  BY DEF FlashInv
<1> QED
  BY <1>1, AlwaysFlashInv, PTL

\* No step of any process, after whatever failures and processes before it, puts a
\* byte anywhere but where a hex file or --serial has it; all else that is written is
\* blank.
THEOREM NothingMisplaced == Spec => NoByteMisplaced
<1>1. FlashInv /\ IInv /\ [Next]_vars =>
        [\A c \in Cells :
           dev'.mem[c] # dev.mem[c] =>
             dev'.mem[c] = Blank \/ <<c + STM32_FLASH_OFFSET, dev'.mem[c]>> \in MeantBytes]_vars
  BY FlashInductive DEF Right, Moves, Allowed
<1> QED
  BY <1>1, AlwaysFlashInv, PTL DEF Spec, NoByteMisplaced

-----------------------------------------------------------------------------
(* What is printed of a memory.                                             *)

LEMMA HexSizes ==
  /\ IHEX_COLS \in Nat \ {0} /\ IHEX_64KB_PAGE \in Nat \ {0, 1} /\ Size < AddressSpace
  /\ PageSize % 2 = 0 /\ STM32_FLASH_OFFSET % 2 = 0 /\ IHEX_COLS % 2 = 0
  /\ IHEX_64KB_PAGE % 2 = 0 /\ Size % PageSize = 0
  BY ProgramAssumption, HexAssumption

\* Induction, for the numbers of a set.
LEMMA Induction ==
  ASSUME NEW S, 0 \in S, \A n \in Nat : n \in S => n + 1 \in S
  PROVE  \A n \in Nat : n \in S
<1> DEFINE rest == {n \in Nat : n \notin S}
<1> SUFFICES ASSUME rest # {} PROVE FALSE
  OBVIOUS
<1>1. PICK n \in rest : \A j \in rest : n <= j
  <2>1. rest \in SUBSET Nat
    OBVIOUS
  <2> HIDE DEF rest
  <2> QED
    BY <2>1, LeastNumber
<1>2. n \in Nat /\ n \notin S /\ n # 0
  OBVIOUS
<1>3. n - 1 \in Nat /\ (n - 1) + 1 = n /\ ~(n <= n - 1)
  BY <1>2
<1>4. n - 1 \in S
  <2>1. n - 1 \notin rest
    <3> HIDE DEF rest
    <3> QED
      BY <1>1, <1>3
  <2> QED
    BY <1>3, <2>1
<1> QED
  BY <1>2, <1>3, <1>4

LEMMA EvenProduct ==
  ASSUME NEW q \in Nat, NEW m \in Nat, m % 2 = 0
  PROVE  q * m \in Nat /\ (q * m) % 2 = 0
<1>1. PICK j \in Nat : m = 2 * j
  <2>1. m \div 2 \in Nat /\ m = 2 * (m \div 2)
    OBVIOUS
  <2> QED
    BY <2>1
<1>2. q * j \in Nat
  BY <1>1
<1>3. q * m = 2 * (q * j)
  BY <1>1
<1> DEFINE p == q * j
<1>4. (2 * p + 0) % 2 = 0
  <2>1. p \in Int /\ 0 \in 0 .. 2 - 1 /\ 2 \in Nat \ {0}
    BY <1>2
  <2> HIDE DEF p
  <2> QED
    BY <2>1, Division
<1>5. p \in Nat /\ q * m = 2 * p
  BY <1>2, <1>3
<1> HIDE DEF p
<1> QED
  BY <1>4, <1>5

\* What is printed up to each cell.
Prints(g, b, shown, first, last, target) ==
  g = [c \in first - 1 .. last |->
         IF c < first THEN Unprinted
         ELSE IF c \in shown THEN PutByte(g[c - 1], c + target, b[c])
         ELSE EndLine(g[c - 1])]

LEMMA PrintsExists ==
  ASSUME NEW b, NEW shown, NEW first \in Nat, NEW target
  PROVE  \A n \in Nat : \E g : Prints(g, b, shown, first, first - 1 + n, target)
<1> DEFINE S == {n \in Nat : \E g : Prints(g, b, shown, first, first - 1 + n, target)}
<1>1. 0 \in S
  <2> DEFINE g == [c \in first - 1 .. first - 1 |-> Unprinted]
  <2>1. first - 1 + 0 = first - 1 /\ \A c \in first - 1 .. first - 1 : c < first
    OBVIOUS
  <2>2. Prints(g, b, shown, first, first - 1 + 0, target)
    BY <2>1 DEF Prints
  <2> QED
    BY <2>2
<1>2. ASSUME NEW n \in Nat, n \in S PROVE n + 1 \in S
  <2> DEFINE m == first - 1 + n
  <2>1. PICK f : Prints(f, b, shown, first, m, target)
    BY <1>2
  <2>2. m \in Int /\ first - 1 + (n + 1) = m + 1 /\ first - 1 <= m
    OBVIOUS
  <2> HIDE DEF m
  <2> DEFINE Next1(h, c) == IF c < first THEN Unprinted
                            ELSE IF c \in shown THEN PutByte(h[c - 1], c + target, b[c])
                            ELSE EndLine(h[c - 1])
             g == [c \in first - 1 .. m + 1 |-> IF c = m + 1 THEN Next1(f, c) ELSE f[c]]
  <2>3. ASSUME NEW c \in first - 1 .. m + 1
        PROVE  g[c] = Next1(g, c)
    <3>1. c < first \/ (c - 1 \in first - 1 .. m /\ c - 1 \in first - 1 .. m + 1 /\ c - 1 # m + 1)
      BY <2>2
    <3>2. ~(c < first) => g[c - 1] = f[c - 1]
      BY <3>1
    <3>3. CASE c = m + 1
      BY <3>2, <3>3
    <3>4. CASE c # m + 1
      <4>1. c \in first - 1 .. m
        BY <2>2, <3>4
      <4>2. f[c] = Next1(f, c)
        BY <2>1, <4>1 DEF Prints
      <4>3. g[c] = f[c]
        BY <3>4
      <4> QED
        BY <3>2, <4>2, <4>3
    <3> QED
      BY <3>3, <3>4
  <2>4. g = [c \in first - 1 .. m + 1 |-> g[c]]
    OBVIOUS
  <2>5. Prints(g, b, shown, first, m + 1, target)
    <3> HIDE DEF g
    <3> QED
      BY <2>3, <2>4 DEF Prints
  <2> QED
    BY <2>2, <2>5
<1> HIDE DEF S
<1>3. \A n \in Nat : n \in S
  BY <1>1, <1>2, Induction
<1> QED
  BY <1>3 DEF S

LEMMA FromBufferIs ==
  ASSUME NEW b, NEW page, NEW first \in Nat, NEW last \in Nat, first <= last, NEW all, NEW target
  PROVE  \E g : /\ Prints(g, b, Shown(b, page, first, last, all), first, last, target)
                /\ FromBuffer(b, page, first, last, all, target) = Append(Printed(g[last]), EndRecord)
<1> DEFINE shown == Shown(b, page, first, last, all)
           f == CHOOSE f : Prints(f, b, shown, first, last, target)
<1>1. Prints(f, b, shown, first, last, target)
  <2>1. \E g : Prints(g, b, shown, first, last, target)
    <3> DEFINE n == last - first + 1
    <3>1. n \in Nat /\ first - 1 + n = last
      OBVIOUS
    <3> HIDE DEF n, shown
    <3>2. \E g : Prints(g, b, shown, first, first - 1 + n, target)
      BY <3>1, PrintsExists
    <3> QED
      BY <3>1, <3>2
  <2> QED
    BY <2>1
<1>2. FromBuffer(b, page, first, last, all, target) = Append(Printed(f[last]), EndRecord)
  BY DEF FromBuffer, Prints
<1> QED
  BY <1>1, <1>2

LEMMA PrintsStep ==
  ASSUME NEW g, NEW b, NEW shown, NEW first \in Nat, NEW last \in Nat, NEW target,
         Prints(g, b, shown, first, last, target), NEW c \in first - 1 .. last
  PROVE  g[c] = IF c < first THEN Unprinted
                ELSE IF c \in shown THEN PutByte(g[c - 1], c + target, b[c])
                ELSE EndLine(g[c - 1])
  BY DEF Prints

\* A page is printed as a whole, up to where the cells begin or end; and no byte is left
\* out that is not blank.
LEMMA ShownIs ==
  ASSUME NEW m \in Nat, NEW b \in [0..m -> Byte], NEW page \in Nat \ {0}, NEW first \in Nat,
         NEW last \in 0..m, NEW all \in BOOLEAN
  PROVE  LET shown == Shown(b, page, first, last, all)
         IN /\ shown \subseteq first..last
            /\ \A c \in first .. last : c + 1 \in shown /\ c \notin shown => (c + 1) % page = 0
            /\ \A c \in first .. last : b[c] # Blank => c \in shown
<1> DEFINE shown == Shown(b, page, first, last, all)
           P(at) == \/ all \/ at < first
                       \/ \E d \in at .. at + page - 1 : d \in DOMAIN b /\ b[d] # Blank
<1>1. \A c : c \in shown <=> c \in first..last /\ P((c \div page) * page)
  BY DEF Shown
<1>2. ASSUME NEW c \in first .. last, c + 1 \in shown, c \notin shown
      PROVE  (c + 1) % page = 0
  <2>1. (c \div page) # ((c + 1) \div page)
    <3> HIDE DEF P
    <3> QED
      BY <1>1, <1>2
  <2> DEFINE q == c \div page
             r == c % page
  <2>2. q \in Nat /\ r \in 0 .. page - 1 /\ c = page * q + r
    OBVIOUS
  <2> HIDE DEF q, r
  <2>3. CASE r = page - 1
    <3>1. c + 1 = page * (q + 1) + 0
      BY <2>2, <2>3
    <3> DEFINE u == q + 1
    <3>2. (page * u + 0) % page = 0
      <4>1. u \in Int /\ 0 \in 0 .. page - 1
        BY <2>2
      <4> HIDE DEF u
      <4> QED
        BY <4>1, Division
    <3> QED
      BY <3>1, <3>2
  <2>4. CASE r # page - 1
    <3>1. r + 1 \in 0 .. page - 1 /\ c + 1 = page * q + (r + 1)
      BY <2>2, <2>4
    <3> DEFINE q2 == (c + 1) \div page
               r2 == (c + 1) % page
    <3>2. q2 \in Nat /\ r2 \in 0 .. page - 1 /\ c + 1 = page * q2 + r2
      OBVIOUS
    <3>3. r2 = r + 1
      <4> DEFINE r3 == r + 1
      <4>1. (page * q + r3) % page = r3
        <5>1. q \in Int /\ r3 \in 0 .. page - 1
          BY <2>2, <3>1
        <5> HIDE DEF r3
        <5> QED
          BY <5>1, Division
      <4> QED
        BY <3>1, <4>1
    <3> HIDE DEF q2, r2
    <3>4. page * (q2 - q) = 0
      BY <2>2, <3>1, <3>2, <3>3
    <3> DEFINE w == q2 - q
    <3>5. w \in Int /\ page * w = 0
      BY <2>2, <3>2, <3>4
    <3> HIDE DEF w
    <3>6. w = 0
      BY <3>5
    <3> QED
      BY <2>1, <2>2, <3>2, <3>6 DEF w, q, q2
  <2> QED
    BY <2>3, <2>4
<1>3. ASSUME NEW c \in first .. last, b[c] # Blank
      PROVE  c \in shown
  <2> DEFINE at == (c \div page) * page
  <2>1. at <= c /\ c <= at + page - 1 /\ at \in Nat
    <3> DEFINE q == c \div page
               r == c % page
    <3>1. q \in Nat /\ r \in 0 .. page - 1 /\ c = page * q + r
      OBVIOUS
    <3>2. at = page * q /\ page * q \in Nat
      BY <3>1
    <3> HIDE DEF q, r, at
    <3> QED
      BY <3>1, <3>2
  <2>2. c \in DOMAIN b
    OBVIOUS
  <2>3. P(at)
    <3> HIDE DEF at
    <3>1. c \in at .. at + page - 1
      BY <2>1
    <3> QED
      BY <1>3, <2>2, <3>1
  <2> QED
    BY <1>1, <2>3
<1>4. shown \subseteq first..last
  BY <1>1
<1> QED
  BY <1>2, <1>3, <1>4

-----------------------------------------------------------------------------
(* What a file says of the cells of a memory that begins at target.         *)

\* The offset after the last record.
Off(file) == AddressOffset(file, Len(file) + 1)

LEMMA OffAppend ==
  ASSUME NEW file \in Seq(Record), NEW r \in Record
  PROVE  LET f == Append(file, r)
         IN /\ \A i \in DOMAIN file : AddressOffset(f, i) = AddressOffset(file, i)
            /\ AddressOffset(f, Len(file) + 1) = Off(file)
            /\ r.type \notin OffsetTypes => Off(f) = Off(file)
            /\ r.type \in OffsetTypes => Off(f) = r.base % AddressSpace
<1> DEFINE f == Append(file, r)
           n == Len(file)
           set(g, i) == {j \in 1 .. i - 1 : g[j].type \in OffsetTypes}
<1>1. /\ n \in Nat /\ DOMAIN file = 1..n /\ Len(f) = n + 1 /\ f[n + 1] = r
      /\ \A j \in 1..n : f[j] = file[j]
  OBVIOUS
<1> HIDE DEF f, n
<1>2. ASSUME NEW i \in 1 .. n + 1
      PROVE  AddressOffset(f, i) = AddressOffset(file, i)
  <2>1. set(f, i) = set(file, i)
    BY <1>1
  <2>2. CASE set(f, i) = {}
    BY <2>1, <2>2 DEF AddressOffset
  <2>3. CASE set(f, i) # {}
    <3> DEFINE S == set(f, i)
    <3>1. S \in SUBSET (1..n) /\ S \in SUBSET (0..n)
      BY <1>1
    <3>2. S # {}
      BY <2>3
    <3> HIDE DEF S
    <3>3. PICK x : x = Max(S)
      OBVIOUS
    <3>4. x \in 1..n
      BY <1>1, <3>1, <3>2, <3>3, MaxIs
    <3>6. f[Max(S)] = file[Max(S)]
      BY <1>1, <3>3, <3>4
    <3> USE DEF S
    <3>5. /\ AddressOffset(f, i) = f[Max(set(f, i))].base % AddressSpace
          /\ AddressOffset(file, i) = file[Max(set(file, i))].base % AddressSpace
      BY <2>1, <2>3 DEF AddressOffset
    <3> HIDE DEF set
    <3> QED
      BY <2>1, <3>6, <3>5 DEF S
  <2> QED
    BY <2>2, <2>3
<1>3. AddressOffset(f, n + 1) = AddressOffset(file, n + 1)
  BY <1>1, <1>2
<1>4. (n + 1) + 1 - 1 = n + 1 /\ (n + 1) - 1 = n
  BY <1>1
<1>5. ASSUME r.type \notin OffsetTypes
      PROVE  Off(f) = Off(file)
  <2>1. set(f, (n + 1) + 1) = set(f, n + 1)
    BY <1>1, <1>4, <1>5
  <2>2. AddressOffset(f, (n + 1) + 1) = AddressOffset(f, n + 1)
    BY <2>1 DEF AddressOffset
  <2> QED
    BY <1>1, <1>3, <2>2 DEF Off, n
<1>6. ASSUME r.type \in OffsetTypes
      PROVE  Off(f) = r.base % AddressSpace
  <2> DEFINE S == set(f, (n + 1) + 1)
  <2>1. n + 1 \in S /\ S \in SUBSET (0 .. n + 1) /\ n + 1 \in Nat
    BY <1>1, <1>4, <1>6
  <2>2. AddressOffset(f, (n + 1) + 1) = f[Max(S)].base % AddressSpace
    BY <2>1 DEF AddressOffset
  <2> HIDE DEF S
  <2>3. PICK x : x = Max(S)
    OBVIOUS
  <2>4. x \in 0 .. n + 1 /\ x >= n + 1
    BY <2>1, <2>3, MaxIs
  <2>5. x = n + 1
    BY <1>1, <2>4
  <2> QED
    BY <1>1, <2>2, <2>3, <2>5 DEF Off
<1>7. Off(file) = AddressOffset(file, n + 1)
  BY DEF Off, n
<1> QED
  BY <1>1, <1>2, <1>3, <1>5, <1>6, <1>7 DEF f, n

\* Byte k of record i is that of cell d.
Puts(file, i, k, d, target, b) ==
  /\ file[i].type = 0 /\ k \in DOMAIN file[i].data
  /\ AddressOffset(file, i) + file[i].address + k - 1 = target + d
  /\ file[i].data[k] = b[d]

\* The file says of the cells S what b has there, and nothing else.
Says(file, S, target, b) ==
  /\ \A i \in DOMAIN file : ValidLine(file[i]) /\ file[i].type \in {0, 4}
  /\ \A i \in DOMAIN file : file[i].type = 0 =>
       \A k \in DOMAIN file[i].data : \E d \in S : Puts(file, i, k, d, target, b)
  /\ \A d \in S : \E i \in DOMAIN file : \E k \in Nat : Puts(file, i, k, d, target, b)

LEMMA SaysStays ==
  ASSUME NEW file \in Seq(Record), NEW r \in Record, NEW S, NEW target, NEW b, Says(file, S, target, b)
  PROVE  LET f == Append(file, r)
         IN /\ \A i \in DOMAIN file : f[i] = file[i]
            /\ \A i \in DOMAIN file : \A k, d : Puts(file, i, k, d, target, b) <=> Puts(f, i, k, d, target, b)
            /\ DOMAIN f = DOMAIN file \cup {Len(file) + 1} /\ f[Len(file) + 1] = r
            /\ f \in Seq(Record)
<1> DEFINE f == Append(file, r)
<1>1. /\ \A i \in DOMAIN file : f[i] = file[i]
      /\ DOMAIN f = DOMAIN file \cup {Len(file) + 1} /\ f[Len(file) + 1] = r
      /\ f \in Seq(Record)
  OBVIOUS
<1>2. \A i \in DOMAIN file : AddressOffset(f, i) = AddressOffset(file, i)
  BY OffAppend
<1> HIDE DEF f
<1>3. \A i \in DOMAIN file : \A k, d : Puts(file, i, k, d, target, b) <=> Puts(f, i, k, d, target, b)
  BY <1>1, <1>2 DEF Puts
<1> QED
  BY <1>1, <1>3 DEF f

\* The line has the bytes of the cells from l on, which T has more than S.
LineOf(file, S, T, a, data, l, target, b) ==
  /\ a \in 0 .. IHEX_64KB_PAGE - 1 /\ T = S \cup (l .. l + Len(data) - 1)
  /\ a + Off(file) = target + l /\ Off(file) \in Nat
  /\ \A k \in DOMAIN data : data[k] = b[l + k - 1]

LEMMA SaysData ==
  ASSUME NEW file \in Seq(Record), NEW S, NEW target \in Nat, NEW b, Says(file, S, target, b),
         NEW a, NEW data \in Seq(Byte), NEW l \in Nat, NEW T, LineOf(file, S, T, a, data, l, target, b)
  PROVE  LET f == Append(file, DataRecord(a, data))
         IN f \in Seq(Record) /\ Says(f, T, target, b) /\ Off(f) = Off(file)
<1> DEFINE r == DataRecord(a, data)
           f == Append(file, r)
           n == Len(file) + 1
<1>0. /\ a \in 0 .. IHEX_64KB_PAGE - 1 /\ T = S \cup (l .. l + Len(data) - 1)
      /\ a + Off(file) = target + l /\ Off(file) \in Nat
      /\ \A k \in DOMAIN data : data[k] = b[l + k - 1]
  BY DEF LineOf
<1>1. /\ r \in Record /\ r.type = 0 /\ r.data = data /\ r.address = a /\ ValidLine(r)
      /\ 0 \notin OffsetTypes
  BY <1>0 DEF DataRecord, Record, ValidLine, OffsetTypes
<1> HIDE DEF r
<1>2. /\ \A i \in DOMAIN file : f[i] = file[i]
      /\ \A i \in DOMAIN file : \A k, d : Puts(file, i, k, d, target, b) <=> Puts(f, i, k, d, target, b)
      /\ DOMAIN f = DOMAIN file \cup {n} /\ f[n] = r
      /\ f \in Seq(Record)
  BY <1>1, SaysStays
<1>3. AddressOffset(f, n) = Off(file) /\ Off(f) = Off(file)
  BY <1>1, OffAppend
<1> HIDE DEF f, n
<1>4. DOMAIN data = 1 .. Len(data) /\ Len(data) \in Nat
  OBVIOUS
<1>5. ASSUME NEW k \in DOMAIN data
      PROVE  l + k - 1 \in T /\ Puts(f, n, k, l + k - 1, target, b)
  <2>1. k \in Nat /\ k >= 1 /\ k <= Len(data) /\ l + k - 1 \in l .. l + Len(data) - 1
    BY <1>4
  <2>3. l + k - 1 \in T
    BY <1>0, <2>1
  <2>2. Off(file) + a + k - 1 = target + (l + k - 1)
    BY <1>0, <2>1
  <2> QED
    BY <1>0, <1>1, <1>2, <1>3, <2>1, <2>2, <2>3 DEF Puts
<1>6. \A i \in DOMAIN f : ValidLine(f[i]) /\ f[i].type \in {0, 4}
  BY <1>1, <1>2 DEF Says
<1>7. ASSUME NEW i \in DOMAIN f, f[i].type = 0, NEW k \in DOMAIN f[i].data
      PROVE  \E d \in T : Puts(f, i, k, d, target, b)
  <2>1. CASE i \in DOMAIN file
    <3>1. PICK d \in S : Puts(file, i, k, d, target, b)
      BY <1>2, <1>7, <2>1 DEF Says
    <3>2. d \in T
      BY <1>0, <3>1
    <3> QED
      BY <1>2, <2>1, <3>1, <3>2
  <2>2. CASE i = n
    <3>1. k \in DOMAIN data
      BY <1>1, <1>2, <1>7, <2>2
    <3> QED
      BY <1>5, <2>2, <3>1
  <2> QED
    BY <1>2, <2>1, <2>2
<1>8. ASSUME NEW d \in T
      PROVE  \E i \in DOMAIN f : \E k \in Nat : Puts(f, i, k, d, target, b)
  <2>1. CASE d \in S
    <3>1. PICK i \in DOMAIN file, k \in Nat : Puts(file, i, k, d, target, b)
      BY <2>1 DEF Says
    <3> QED
      BY <1>2, <3>1
  <2>2. CASE d \in l .. l + Len(data) - 1
    <3>1. d - l + 1 \in DOMAIN data /\ d - l + 1 \in Nat /\ l + (d - l + 1) - 1 = d
      BY <1>4, <2>2
    <3>2. Puts(f, n, d - l + 1, l + (d - l + 1) - 1, target, b)
      BY <1>5, <3>1
    <3>3. Puts(f, n, d - l + 1, d, target, b)
      BY <3>1, <3>2
    <3> QED
      BY <1>2, <3>1, <3>3
  <2> QED
    BY <1>0, <2>1, <2>2
<1>9. Says(f, T, target, b)
  BY <1>6, <1>7, <1>8 DEF Says
<1> QED
  BY <1>2, <1>3, <1>9 DEF f, r

LEMMA SaysOffset ==
  ASSUME NEW file \in Seq(Record), NEW S, NEW target, NEW b, Says(file, S, target, b),
         NEW o \in Nat, o < AddressSpace
  PROVE  LET f == Append(file, OffsetRecord(o))
         IN f \in Seq(Record) /\ Says(f, S, target, b) /\ Off(f) = o
<1> DEFINE r == OffsetRecord(o)
           f == Append(file, r)
           n == Len(file) + 1
<1>1. /\ r \in Record /\ r.type = 4 /\ r.base = o /\ ValidLine(r)
      /\ 4 \in OffsetTypes /\ o % AddressSpace = o
  <2>1. <<>> \in Seq(Byte) /\ 0 \in 0 .. IHEX_64KB_PAGE - 1
    BY HexSizes
  <2>2. r \in Record
    BY <2>1 DEF OffsetRecord, Record
  <2> QED
    BY <2>2, Sizes DEF OffsetRecord, ValidLine, OffsetTypes
<1> HIDE DEF r
<1>2. /\ \A i \in DOMAIN file : f[i] = file[i]
      /\ \A i \in DOMAIN file : \A k, d : Puts(file, i, k, d, target, b) <=> Puts(f, i, k, d, target, b)
      /\ DOMAIN f = DOMAIN file \cup {n} /\ f[n] = r
      /\ f \in Seq(Record)
  BY <1>1, SaysStays
<1>3. Off(f) = o
  BY <1>1, OffAppend
<1> HIDE DEF f, n
<1>4. Says(f, S, target, b)
  <2>1. \A i \in DOMAIN f : ValidLine(f[i]) /\ f[i].type \in {0, 4}
    BY <1>1, <1>2 DEF Says
  <2>2. ASSUME NEW i \in DOMAIN f, f[i].type = 0, NEW k \in DOMAIN f[i].data
        PROVE  \E d \in S : Puts(f, i, k, d, target, b)
    <3>1. i \in DOMAIN file
      BY <1>1, <1>2, <2>2
    <3>2. PICK d \in S : Puts(file, i, k, d, target, b)
      BY <1>2, <2>2, <3>1 DEF Says
    <3> QED
      BY <1>2, <3>1, <3>2
  <2>3. ASSUME NEW d \in S
        PROVE  \E i \in DOMAIN f : \E k \in Nat : Puts(f, i, k, d, target, b)
    <3>1. PICK i \in DOMAIN file, k \in Nat : Puts(file, i, k, d, target, b)
      BY DEF Says
    <3> QED
      BY <1>2, <3>1
  <2> QED
    BY <2>1, <2>2, <2>3 DEF Says
<1> QED
  BY <1>2, <1>3, <1>4 DEF f, r

-----------------------------------------------------------------------------
(* While a file is printed, it says what has been printed so far.           *)

Through(S, c) == {d \in S : d <= c}

\* The line that is not full has the bytes before cell c + 1, and its address is even, so
\* that ihex_clear_record leaves it as it is.
LineInv(s, c, S, first, target, b) ==
  LET n == Len(s.data)
      l == c + 1 - n
  IN /\ s \in [file : Seq(Record), offset : Nat, address : 0 .. IHEX_64KB_PAGE - 1, data : Seq(Byte)]
     /\ Says(s.file, Through(S, l - 1), target, b) /\ Off(s.file) = s.offset
     /\ s.offset % 2 = 0 /\ s.offset <= target + c + 1
     /\ n = 0 => c + 1 = first \/ c \notin S
     /\ n # 0 => /\ n <= IHEX_COLS /\ l .. c \subseteq S /\ l \in Nat /\ l % 2 = 0
                 /\ \A k \in DOMAIN s.data : s.data[k] = b[l + k - 1]
                 /\ s.address + s.offset = target + l
                 /\ target + c < s.offset + IHEX_64KB_PAGE

LEMMA LineFlushed ==
  ASSUME NEW S \in SUBSET Nat, NEW first \in Nat, NEW target \in Nat, NEW b, NEW c \in Int, NEW s,
         LineInv(s, c, S, first, target, b)
  PROVE  /\ Printed(s) \in Seq(Record) /\ Says(Printed(s), Through(S, c), target, b)
         /\ Off(Printed(s)) = s.offset
<1> DEFINE n == Len(s.data)
           l == c + 1 - n
<1>1. /\ s.file \in Seq(Record) /\ s.offset \in Nat /\ s.address \in 0 .. IHEX_64KB_PAGE - 1
      /\ s.data \in Seq(Byte) /\ n \in Nat /\ l \in Int
      /\ Says(s.file, Through(S, l - 1), target, b) /\ Off(s.file) = s.offset
  BY DEF LineInv
<1>2. CASE n = 0
  <2>1. s.data = <<>> /\ l - 1 = c
    BY <1>1, <1>2
  <2> QED
    BY <1>1, <2>1 DEF Printed
<1>3. CASE n # 0
  <2>1. /\ l .. c \subseteq S /\ l \in Nat /\ s.address + s.offset = target + l
        /\ \A k \in DOMAIN s.data : s.data[k] = b[l + k - 1]
    BY <1>3 DEF LineInv
  <2>2. l + Len(s.data) - 1 = c
    BY <1>1
  <2>3. Through(S, c) = Through(S, l - 1) \cup (l .. l + Len(s.data) - 1)
    <3>0. n > 0 /\ l <= c
      BY <1>1, <1>3
    <3> HIDE DEF l, n
    <3>1. \A d \in Nat : d <= c <=> d <= l - 1 \/ d \in l .. c
      BY <1>1, <3>0
    <3> QED
      BY <2>1, <2>2, <3>1 DEF Through
  <2>4. s.data # <<>>
    BY <1>3
  <2>5. s.address + Off(s.file) = target + l /\ Off(s.file) \in Nat
    BY <1>1, <2>1
  <2>6. Printed(s) = Append(s.file, DataRecord(s.address, s.data))
    BY <2>4 DEF Printed
  <2>7. PICK S0 : S0 = Through(S, l - 1)
    OBVIOUS
  <2> HIDE DEF n, l
  <2>8. Says(s.file, S0, target, b) /\ Through(S, c) = S0 \cup (l .. l + Len(s.data) - 1)
    BY <1>1, <2>3, <2>7
  <2>9. /\ Append(s.file, DataRecord(s.address, s.data)) \in Seq(Record)
        /\ Says(Append(s.file, DataRecord(s.address, s.data)), Through(S, c), target, b)
        /\ Off(Append(s.file, DataRecord(s.address, s.data))) = Off(s.file)
    <3>1. PICK file, x, data, T : file = s.file /\ x = s.address /\ data = s.data /\ T = Through(S, c)
      OBVIOUS
    <3>2. file \in Seq(Record) /\ x \in 0 .. IHEX_64KB_PAGE - 1 /\ data \in Seq(Byte) /\ l \in Nat
      BY <1>1, <2>1, <3>1
    <3>3. Says(file, S0, target, b) /\ T = S0 \cup (l .. l + Len(data) - 1)
      BY <2>8, <3>1
    <3>4. LineOf(file, S0, T, x, data, l, target, b)
      <4>1. s.address \in Nat /\ Off(s.file) \in Nat
        BY <1>1, HexSizes
      <4>2. PICK y : y = Off(s.file)
        OBVIOUS
      <4>3. x + y = target + l
        BY <2>5, <3>1, <4>1, <4>2
      <4>4. \A k \in DOMAIN data : data[k] = b[l + k - 1]
        BY <2>1, <3>1
      <4>5. y = Off(file)
        BY <3>1, <4>2
      <4> QED
        BY <3>2, <3>3, <4>1, <4>2, <4>3, <4>4, <4>5 DEF LineOf
    <3>5. LET f == Append(file, DataRecord(x, data))
          IN f \in Seq(Record) /\ Says(f, T, target, b) /\ Off(f) = Off(file)
      BY <3>2, <3>3, <3>4, SaysData
    <3> QED
      BY <3>1, <3>5
  <2> QED
    BY <1>1, <2>6, <2>9
<1> QED
  BY <1>2, <1>3

LEMMA PageEven ==
  ASSUME NEW x \in Nat, NEW page \in Nat \ {0}, page % 2 = 0, x % page = 0
  PROVE  x % 2 = 0
<1> DEFINE q == x \div page
<1>1. q \in Nat /\ x = page * q
  OBVIOUS
<1> HIDE DEF q
<1>2. q * page = x
  BY <1>1
<1> QED
  BY <1>1, <1>2, EvenProduct

LEMMA NewLineInv ==
  ASSUME NEW S \in SUBSET Nat, NEW first \in Nat, NEW target \in Nat, target % 2 = 0, NEW b,
         NEW c \in Nat, c \in S, c % 2 = 0, b[c] \in Byte,
         NEW file \in Seq(Record), NEW o \in Nat,
         Says(file, Through(S, c - 1), target, b), Off(file) = o,
         o % 2 = 0, o <= target + c, target + c < o + IHEX_64KB_PAGE
  PROVE  LineInv(NewLine(file, o, c + target, b[c]), c, S, first, target, b)
<1> DEFINE s == NewLine(file, o, c + target, b[c])
           x == c + target - o
           K == IHEX_64KB_PAGE
<1>1. x \in Nat /\ x % 2 = 0 /\ x < K /\ K \in Nat \ {0, 1} /\ K % 2 = 0
  BY HexSizes
<1>2. x < K - 1
  <2> HIDE DEF x, K
  <2> QED
    BY <1>1
<1>3. (x % (K - 1)) % K = x
  <2> HIDE DEF x, K
  <2> QED
    BY <1>1, <1>2
<1>4. s = [file |-> file, offset |-> o, data |-> <<b[c]>>, address |-> x]
  BY <1>3 DEF NewLine
<1>5. /\ s.file = file /\ s.offset = o /\ s.data = <<b[c]>> /\ s.address = x
      /\ s \in [file : Seq(Record), offset : Nat, address : 0 .. K - 1, data : Seq(Byte)]
  <2>1. <<b[c]>> \in Seq(Byte) /\ x \in 0 .. K - 1
    BY <1>1
  <2> HIDE DEF s, x
  <2> QED
    BY <1>4, <2>1
<1>6. Len(s.data) = 1 /\ DOMAIN s.data = {1} /\ s.data[1] = b[c] /\ c + 1 - 1 = c
  <2>1. Len(<<b[c]>>) = 1 /\ DOMAIN <<b[c]>> = {1} /\ <<b[c]>>[1] = b[c]
    OBVIOUS
  <2> HIDE DEF s
  <2> QED
    BY <1>5, <2>1
<1>7. /\ x + o = target + c /\ c .. c \subseteq S /\ 1 <= IHEX_COLS
      /\ c + 1 - 1 - 1 = c - 1 /\ c + 1 - 1 + 1 - 1 = c
  BY HexSizes
<1>8. o <= target + c + 1
  OBVIOUS
<1>9. LineInv(s, c, S, first, target, b)
  <2> HIDE DEF s, x
  <2>1. PICK n, l : n = Len(s.data) /\ l = c + 1 - n /\ n = 1 /\ l = c
    BY <1>6
  <2>2. Says(s.file, Through(S, l - 1), target, b) /\ Off(s.file) = s.offset
    BY <1>5, <2>1
  <2>3. l .. c \subseteq S /\ l \in Nat /\ l % 2 = 0 /\ n <= IHEX_COLS
    BY <1>7, <2>1
  <2>4. \A k \in DOMAIN s.data : s.data[k] = b[l + k - 1]
    BY <1>6, <2>1
  <2>5. /\ s.address + s.offset = target + l /\ target + c < s.offset + IHEX_64KB_PAGE
        /\ s.offset <= target + c + 1
    BY <1>5, <1>7, <1>8, <2>1
  <2> QED
    BY <1>5, <2>1, <2>2, <2>3, <2>4, <2>5 DEF LineInv
<1> QED
  BY <1>9

LEMMA PutInv ==
  ASSUME NEW S \in SUBSET Nat, NEW first \in Nat, first % 2 = 0, NEW target \in Nat, target % 2 = 0,
         NEW b, NEW c \in Int, c >= first - 1, NEW s, LineInv(s, c, S, first, target, b),
         c + 1 \in S, b[c + 1] \in Byte, c \in S \/ c + 1 = first \/ (c + 1) % 2 = 0,
         target + c + 1 < AddressSpace
  PROVE  LineInv(PutByte(s, c + 1 + target, b[c + 1]), c + 1, S, first, target, b)
<1> DEFINE n == Len(s.data)
           l == c + 1 - n
           a == c + 1 + target
           K == IHEX_64KB_PAGE
<1>1. /\ s.offset \in Nat /\ s.data \in Seq(Byte) /\ n \in Nat /\ s.offset % 2 = 0
      /\ s.offset <= target + c + 1
      /\ n = 0 => c + 1 = first \/ c \notin S
      /\ Says(s.file, Through(S, l - 1), target, b) /\ Off(s.file) = s.offset
      /\ s \in [file : Seq(Record), offset : Nat, address : 0 .. IHEX_64KB_PAGE - 1, data : Seq(Byte)]
  BY DEF LineInv
<1>2. n # 0 => /\ n <= IHEX_COLS /\ l .. c \subseteq S /\ l \in Nat /\ l % 2 = 0
               /\ \A k \in DOMAIN s.data : s.data[k] = b[l + k - 1]
               /\ s.address + s.offset = target + l
               /\ target + c < s.offset + K
  BY DEF LineInv
<1>3. /\ Printed(s) \in Seq(Record) /\ Says(Printed(s), Through(S, c), target, b)
      /\ Off(Printed(s)) = s.offset
  BY LineFlushed
<1>4. K \in Nat \ {0, 1} /\ K % 2 = 0 /\ IHEX_COLS % 2 = 0 /\ IHEX_COLS \in Nat
  BY HexSizes
<1>5. /\ c + 1 \in Nat /\ (c + 1) - 1 = c /\ a = (c + 1) + target
      /\ a \in Nat /\ a < AddressSpace /\ a = target + c + 1
  OBVIOUS
<1>0. n = 0 => (c + 1) % 2 = 0
  BY <1>1
<1>9. PICK x : x = s.offset
  OBVIOUS
<1>10. x \in Nat /\ x % 2 = 0 /\ x <= target + c + 1
  BY <1>1, <1>9
<1>11. s.offset \in Nat /\ K \in Nat
  BY <1>1, <1>4
<1>6. CASE a - s.offset >= K
  <2> DEFINE q == a \div K
             o == q * K
             file == Append(Printed(s), OffsetRecord(o))
  <2>1. o \in Nat /\ o % 2 = 0 /\ o <= a /\ a < o + K
    <3>1. q \in Nat
      BY <1>4, <1>5
    <3>2. o \in Nat /\ o % 2 = 0
      <4> HIDE DEF q, K
      <4> QED
        BY <1>4, <3>1, EvenProduct
    <3>3. o <= a /\ a < o + K
      <4>1. a % K \in 0 .. K - 1 /\ a = K * q + (a % K)
        <5> HIDE DEF a, K
        <5> QED
          BY <1>4, <1>5
      <4>2. a = o + (a % K)
        BY <1>4, <1>5, <3>1, <4>1
      <4> HIDE DEF a, o, K
      <4> QED
        BY <1>4, <1>5, <3>2, <4>1, <4>2
    <3> QED
      BY <3>2, <3>3
  <2>2. (c + 1) % 2 = 0
    <3>1. CASE n = 0
      BY <1>0, <3>1
    <3>2. CASE n # 0
      <4>1. target + c < s.offset + K
        BY <1>2, <3>2
      <4>2. target + c < x + K /\ c + 1 + target - x >= K
        BY <1>6, <1>9, <1>10, <1>11, <4>1
      <4> HIDE DEF K, n, l
      <4>3. c + 1 + target = x + K
        BY <1>4, <1>10, <4>2
      <4> QED
        BY <1>4, <1>10, <4>3
    <3> QED
      BY <3>1, <3>2
  <2> HIDE DEF o
  <2>3. file \in Seq(Record) /\ Says(file, Through(S, c), target, b) /\ Off(file) = o
    <3>1. o < AddressSpace
      BY <1>5, <2>1, Sizes
    <3> QED
      BY <1>3, <2>1, <3>1, SaysOffset
  <2>4. PutByte(s, a, b[c + 1]) = NewLine(file, o, a, b[c + 1])
    BY <1>6 DEF PutByte, o
  <2> HIDE DEF file
  <2>5. PICK e : e = c + 1
    OBVIOUS
  <2>6. /\ e \in Nat /\ e \in S /\ e % 2 = 0 /\ b[e] \in Byte /\ e - 1 = c
        /\ o <= target + e /\ target + e < o + IHEX_64KB_PAGE
    BY <1>5, <2>1, <2>2, <2>5
  <2>7. LineInv(NewLine(file, o, e + target, b[e]), e, S, first, target, b)
    BY <2>1, <2>3, <2>6, NewLineInv
  <2> QED
    BY <2>4, <2>5, <2>7
<1>7. CASE ~(a - s.offset >= K) /\ n \in {0, IHEX_COLS}
  <2>1. (c + 1) % 2 = 0
    <3>1. CASE n = 0
      BY <1>0, <3>1
    <3>2. CASE n # 0
      <4>1. n = IHEX_COLS
        BY <1>7, <3>2
      <4>2. PICK z, k : z = l /\ k = IHEX_COLS
        OBVIOUS
      <4>3. z \in Nat /\ k \in Nat /\ z % 2 = 0 /\ k % 2 = 0
        BY <1>2, <1>4, <3>2, <4>2
      <4>4. c + 1 = z + k
        BY <4>1, <4>2, <4>3
      <4> QED
        BY <4>3, <4>4
    <3> QED
      BY <3>1, <3>2
  <2>2. PutByte(s, a, b[c + 1]) = NewLine(Printed(s), s.offset, a, b[c + 1])
    BY <1>7 DEF PutByte
  <2>3. PICK e : e = c + 1
    OBVIOUS
  <2>4. /\ e \in Nat /\ e \in S /\ e % 2 = 0 /\ b[e] \in Byte /\ e - 1 = c
        /\ s.offset <= target + e /\ target + e < s.offset + IHEX_64KB_PAGE
    <3>1. ~(c + 1 + target - x >= K)
      BY <1>7, <1>9, <1>10, <1>11
    <3>2. x <= target + e /\ target + e < x + K
      <4> HIDE DEF K
      <4> QED
        BY <1>4, <1>10, <2>3, <3>1
    <3> QED
      BY <1>5, <1>9, <2>1, <2>3, <3>2
  <2>5. LineInv(NewLine(Printed(s), s.offset, e + target, b[e]), e, S, first, target, b)
    BY <1>1, <1>3, <2>4, NewLineInv
  <2> QED
    BY <2>2, <2>3, <2>5
<1>8. CASE ~(a - s.offset >= K) /\ n \notin {0, IHEX_COLS}
  <2> DEFINE data == Append(s.data, b[c + 1])
             t == [s EXCEPT !.data = data]
  <2>1. PutByte(s, a, b[c + 1]) = t
    BY <1>8 DEF PutByte
  <2>2. /\ data \in Seq(Byte) /\ Len(data) = n + 1 /\ DOMAIN data = 1 .. n + 1
        /\ \A k \in 1..n : data[k] = s.data[k]
        /\ data[n + 1] = b[c + 1] /\ DOMAIN s.data = 1..n
    BY <1>1
  <2> HIDE DEF data
  <2>3. /\ t.file = s.file /\ t.offset = s.offset /\ t.address = s.address /\ t.data = data
        /\ t \in [file : Seq(Record), offset : Nat, address : 0 .. IHEX_64KB_PAGE - 1, data : Seq(Byte)]
    BY <1>1, <2>2
  <2> HIDE DEF t
  <2>4. (c + 1) + 1 - (n + 1) = l /\ l \in Nat /\ n # 0
    BY <1>1, <1>2, <1>8
  <2>5. /\ n + 1 # 0 /\ n + 1 <= IHEX_COLS /\ l % 2 = 0 /\ s.address + s.offset = target + l
        /\ target + (c + 1) < s.offset + K /\ s.offset <= target + (c + 1) + 1
    <3>1. ~(c + 1 + target - x >= K)
      BY <1>8, <1>9, <1>10, <1>11
    <3>3. target + (c + 1) < x + K /\ x <= target + (c + 1) + 1
      <4> HIDE DEF K
      <4> QED
        BY <1>4, <1>10, <3>1
    <3>4. n <= IHEX_COLS /\ n # IHEX_COLS /\ l % 2 = 0 /\ s.address + s.offset = target + l
      BY <1>2, <1>8
    <3>5. n + 1 # 0 /\ n + 1 <= IHEX_COLS
      <4> HIDE DEF n
      <4> QED
        BY <1>1, <1>4, <3>4
    <3> QED
      BY <1>9, <3>3, <3>4, <3>5
  <2>6. l .. c + 1 \subseteq S
    <3>1. \A d \in l .. c + 1 : d \in l .. c \/ d = c + 1
      BY <2>4
    <3> HIDE DEF l, n
    <3> QED
      BY <1>2, <2>4, <3>1
  <2>7. ASSUME NEW k \in DOMAIN data
        PROVE  data[k] = b[l + k - 1]
    <3>1. CASE k = n + 1
      <4>1. l + (n + 1) - 1 = c + 1
        BY <1>1
      <4> QED
        BY <2>2, <3>1, <4>1
    <3>2. CASE k # n + 1
      <4>1. k \in 1..n
        BY <1>1, <2>2, <3>2
      <4> HIDE DEF l, n
      <4> QED
        BY <1>2, <2>2, <2>4, <4>1
    <3> QED
      BY <3>1, <3>2
  <2> HIDE DEF l, n, K
  <2>8. LineInv(t, c + 1, S, first, target, b)
    BY <1>1, <2>2, <2>3, <2>4, <2>5, <2>6, <2>7 DEF LineInv, K
  <2> QED
    BY <2>1, <2>8
<1> QED
  BY <1>6, <1>7, <1>8

LEMMA EndLineInv ==
  ASSUME NEW S \in SUBSET Nat, NEW first \in Nat, NEW target \in Nat,
         NEW b, NEW c \in Int, NEW s, LineInv(s, c, S, first, target, b), c + 1 \notin S
  PROVE  LineInv(EndLine(s), c + 1, S, first, target, b)
<1> DEFINE t == EndLine(s)
<1>1. /\ s.offset \in Nat /\ s.offset % 2 = 0 /\ s.offset <= target + c + 1
      /\ s \in [file : Seq(Record), offset : Nat, address : 0 .. IHEX_64KB_PAGE - 1, data : Seq(Byte)]
  BY DEF LineInv
<1>2. /\ Printed(s) \in Seq(Record) /\ Says(Printed(s), Through(S, c), target, b)
      /\ Off(Printed(s)) = s.offset
  BY LineFlushed
<1>3. <<>> \in Seq(Byte) /\ Len(<<>>) = 0
  OBVIOUS
<1>4. /\ t.file = Printed(s) /\ t.offset = s.offset /\ t.data = <<>>
      /\ t \in [file : Seq(Record), offset : Nat, address : 0 .. IHEX_64KB_PAGE - 1, data : Seq(Byte)]
  BY <1>1, <1>2, <1>3 DEF EndLine
<1>5. Through(S, (c + 1) + 1 - 0 - 1) = Through(S, c)
  <2>1. \A d \in Nat : d <= (c + 1) + 1 - 0 - 1 <=> d <= c \/ d = c + 1
    OBVIOUS
  <2> QED
    BY <2>1 DEF Through
<1>6. s.offset <= target + (c + 1) + 1
  BY <1>1
<1> HIDE DEF t
<1>7. LineInv(t, c + 1, S, first, target, b)
  BY <1>1, <1>2, <1>3, <1>4, <1>5, <1>6 DEF LineInv
<1> QED
  BY <1>7 DEF t

\* The file that is printed of a memory says of the cells that are shown what the memory
\* has, and nothing else.
LEMMA PrintedIs ==
  ASSUME NEW m \in Nat, NEW b \in [0..m -> Byte], NEW page \in Nat \ {0}, page % 2 = 0,
         NEW first \in Nat, first % 2 = 0, NEW last \in 0..m, first <= last, NEW all \in BOOLEAN,
         NEW target \in Nat, target % 2 = 0, target + last < AddressSpace
  PROVE  \E p \in Seq(Record) : /\ FromBuffer(b, page, first, last, all, target) = Append(p, EndRecord)
                                /\ Says(p, Shown(b, page, first, last, all), target, b)
<1> DEFINE S == Shown(b, page, first, last, all)
<1>1. PICK g : /\ Prints(g, b, S, first, last, target)
               /\ FromBuffer(b, page, first, last, all, target) = Append(Printed(g[last]), EndRecord)
  <2>1. last \in Nat
    OBVIOUS
  <2> QED
    BY <2>1, FromBufferIs
<1>2. /\ S \subseteq first..last
      /\ \A c \in first .. last : c + 1 \in S /\ c \notin S => (c + 1) % page = 0
  BY ShownIs
<1> HIDE DEF S
<1>3. S \in SUBSET Nat
  BY <1>2
<1> DEFINE I(n) == first - 1 + n <= last =>
                     LineInv(g[first - 1 + n], first - 1 + n, S, first, target, b)
           N == {n \in Nat : I(n)}
<1>4. 0 \in N
  <2>1. first - 1 + 0 = first - 1 /\ first - 1 \in first - 1 .. last /\ first - 1 < first
    OBVIOUS
  <2>2. g[first - 1] = Unprinted
    <3>1. PICK e : e = first - 1
      OBVIOUS
    <3>2. last \in Nat /\ e \in first - 1 .. last /\ e < first
      BY <2>1, <3>1
    <3>3. g[e] = Unprinted
      BY <1>1, <3>2, PrintsStep
    <3> QED
      BY <3>1, <3>3
  <2>3. /\ Unprinted.file = <<>> /\ Unprinted.offset = 0 /\ Unprinted.data = <<>>
        /\ Len(<<>>) = 0 /\ DOMAIN <<>> = {}
    BY DEF Unprinted
  <2>4. Unprinted \in [file : Seq(Record), offset : Nat, address : 0 .. IHEX_64KB_PAGE - 1,
                       data : Seq(Byte)]
    <3>1. <<>> \in Seq(Record) /\ <<>> \in Seq(Byte) /\ 0 \in 0 .. IHEX_64KB_PAGE - 1
      BY HexSizes
    <3> QED
      BY <3>1 DEF Unprinted
  <2>5. Through(S, (first - 1) + 1 - 0 - 1) = {}
    <3>1. \A d \in first .. last : ~(d <= (first - 1) + 1 - 0 - 1)
      OBVIOUS
    <3> QED
      BY <1>2, <3>1 DEF Through
  <2>6. Says(<<>>, {}, target, b)
    BY <2>3 DEF Says
  <2>7. Off(<<>>) = 0
    <3>1. {j \in 1 .. Len(<<>>) + 1 - 1 : <<>>[j].type \in OffsetTypes} = {}
      OBVIOUS
    <3> QED
      BY <3>1 DEF Off, AddressOffset
  <2>8. 0 % 2 = 0 /\ 0 <= target + (first - 1) + 1 /\ (first - 1) + 1 = first
    OBVIOUS
  <2>9. LineInv(Unprinted, first - 1, S, first, target, b)
    BY <2>3, <2>4, <2>5, <2>6, <2>7, <2>8 DEF LineInv
  <2> QED
    BY <2>1, <2>2, <2>9
<1>5. ASSUME NEW n \in Nat, n \in N PROVE n + 1 \in N
  <2> SUFFICES ASSUME first - 1 + (n + 1) <= last
               PROVE  LineInv(g[first - 1 + (n + 1)], first - 1 + (n + 1), S, first, target, b)
    OBVIOUS
  <2>1. PICK c \in Int : c = first - 1 + n
    OBVIOUS
  <2>2. /\ first - 1 + (n + 1) = c + 1 /\ c <= last /\ c >= first - 1 /\ c + 1 \in first - 1 .. last
        /\ ~(c + 1 < first) /\ (c + 1) - 1 = c /\ c + 1 \in 0..m /\ target + c + 1 < AddressSpace
    BY <2>1, Sizes
  <2>3. LineInv(g[c], c, S, first, target, b)
    BY <1>5, <2>1, <2>2
  <2> HIDE DEF N
  <2>4. g[c + 1] = IF c + 1 \in S THEN PutByte(g[c], c + 1 + target, b[c + 1]) ELSE EndLine(g[c])
    <3>1. g[c + 1] = IF c + 1 < first THEN Unprinted
                     ELSE IF c + 1 \in S THEN PutByte(g[(c + 1) - 1], (c + 1) + target, b[c + 1])
                     ELSE EndLine(g[(c + 1) - 1])
      <4>1. last \in Nat
        OBVIOUS
      <4>2. PICK e : e = c + 1
        OBVIOUS
      <4>3. g[e] = IF e < first THEN Unprinted
                   ELSE IF e \in S THEN PutByte(g[e - 1], e + target, b[e])
                   ELSE EndLine(g[e - 1])
        <5>1. e \in first - 1 .. last
          BY <2>2, <4>2
        <5>2. Prints(g, b, S, first, last, target)
          BY <1>1
        <5> HIDE <1>1
        <5> QED
          BY <5>1, <5>2 DEF Prints
      <4> QED
        BY <4>2, <4>3
    <3> QED
      BY <2>2, <3>1
  <2>5. CASE c + 1 \in S
    <3>1. b[c + 1] \in Byte
      BY <2>2
    <3>2. c \in S \/ c + 1 = first \/ (c + 1) % 2 = 0
      <4>1. CASE c >= first
        <5>1. c \in first .. last
          BY <2>2, <4>1
        <5>2. c \notin S => (c + 1) % page = 0
          BY <1>2, <2>5, <5>1
        <5>3. c + 1 \in Nat
          BY <5>1
        <5> QED
          BY <5>2, <5>3, PageEven
      <4>2. CASE ~(c >= first)
        BY <2>2, <4>2
      <4> QED
        BY <4>1, <4>2
    <3>3. LineInv(PutByte(g[c], c + 1 + target, b[c + 1]), c + 1, S, first, target, b)
      BY <1>3, <2>2, <2>3, <2>5, <3>1, <3>2, PutInv
    <3> QED
      BY <2>2, <2>4, <2>5, <3>3
  <2>6. CASE c + 1 \notin S
    <3>1. LineInv(EndLine(g[c]), c + 1, S, first, target, b)
      BY <1>3, <2>3, <2>6, EndLineInv
    <3> QED
      BY <2>2, <2>4, <2>6, <3>1
  <2> QED
    BY <2>5, <2>6
<1> HIDE DEF N
<1>6. \A n \in Nat : n \in N
  BY <1>4, <1>5, Induction
<1>7. LineInv(g[last], last, S, first, target, b)
  <2> DEFINE n == last - first + 1
  <2>1. n \in Nat /\ first - 1 + n = last
    OBVIOUS
  <2> HIDE DEF n
  <2>2. I(n)
    BY <1>6, <2>1 DEF N
  <2> QED
    BY <2>1, <2>2
<1>8. Through(S, last) = S
  <2>1. \A d \in first .. last : d <= last
    OBVIOUS
  <2> QED
    BY <1>2, <2>1 DEF Through
<1>9. Printed(g[last]) \in Seq(Record) /\ Says(Printed(g[last]), S, target, b)
  BY <1>3, <1>7, <1>8, LineFlushed
<1> QED
  BY <1>1, <1>9 DEF S

-----------------------------------------------------------------------------
(* A file that has been printed is read back.                               *)

LEMMA CellAt ==
  ASSUME NEW target \in Nat, target + Size <= AddressSpace, NEW d \in Nat, target + d < AddressSpace,
         NEW x, x = target + d
  PROVE  CellOf(x, target, Size) = IF d < Size THEN d ELSE -1
<1>1. x \in Nat /\ x % AddressSpace = x /\ target % AddressSpace = target
  BY Sizes
<1>2. x \in target .. target + Size - 1 <=> d < Size
  BY Sizes
<1>3. CellOf(x, target, Size) = IF x \in target .. target + Size - 1 THEN x - target ELSE -1
  BY <1>1 DEF CellOf
<1> QED
  BY <1>2, <1>3

LEMMA ReadBack ==
  ASSUME NEW p \in Seq(Record), NEW S \in SUBSET Nat, NEW target \in Nat, NEW b,
         Says(p, S, target, b), target + Size <= AddressSpace, \A d \in S : target + d < AddressSpace
  PROVE  LET f == Append(p, EndRecord)
         IN /\ f \in Seq(Record) /\ Complete(f)
            /\ S \subseteq Cells => ~Outside(f, target, Size)
            /\ \A c \in Cells : ToBuffer(f, target, Size)[c] = IF c \in S THEN b[c] ELSE Unset
<1> DEFINE f == Append(p, EndRecord)
           n == Len(p) + 1
           at(i, k) == AddressOffset(f, i) + f[i].address + k - 1
<1>1. EndRecord \in Record /\ ValidLine(EndRecord) /\ EndRecord.type = 1
  <2>1. 0 \in 0 .. IHEX_64KB_PAGE - 1 /\ 0 \in Nat /\ 1 \in 0..6 /\ <<>> \in Seq(Byte)
    BY HexSizes
  <2>2. EndRecord \in Record
    BY <2>1 DEF EndRecord, Record
  <2>3. ValidLine(EndRecord)
    BY DEF EndRecord, ValidLine, OffsetTypes
  <2> QED
    BY <2>2, <2>3 DEF EndRecord
<1>2. /\ \A i \in DOMAIN p : f[i] = p[i]
      /\ \A i \in DOMAIN p : \A k, d : Puts(p, i, k, d, target, b) <=> Puts(f, i, k, d, target, b)
      /\ DOMAIN f = DOMAIN p \cup {n} /\ f[n] = EndRecord
      /\ f \in Seq(Record)
  BY <1>1, SaysStays
<1>3. DOMAIN p = 1 .. Len(p) /\ Len(p) \in Nat
  OBVIOUS
<1> HIDE DEF f
<1>4. \A i \in DOMAIN p : ValidLine(p[i]) /\ p[i].type \in {0, 4}
  BY DEF Says
<1>5. Complete(f)
  <2>1. n \in DOMAIN f /\ f[n].type = 1
    BY <1>1, <1>2
  <2>2. ASSUME NEW i \in 1 .. n PROVE ValidLine(f[i])
    <3>1. i = n \/ i \in DOMAIN p
      BY <1>3
    <3> QED
      BY <1>1, <1>2, <1>4, <3>1
  <2> QED
    BY <2>1, <2>2 DEF Complete
<1>6. Body(f) = DOMAIN p
  <2>1. ASSUME NEW i \in Body(f) PROVE i \in DOMAIN p
    <3>1. i \in DOMAIN f /\ \A j \in 1..i : f[j].type # 1
      BY DEF Body
    <3>2. n \in Nat \ {0}
      BY <1>3
    <3>3. i # n
      BY <1>1, <1>2, <3>1, <3>2
    <3> QED
      BY <1>2, <3>1, <3>3
  <2>2. ASSUME NEW i \in DOMAIN p PROVE i \in Body(f)
    <3>1. ASSUME NEW j \in 1..i PROVE f[j].type # 1
      <4>1. j \in DOMAIN p
        BY <1>3
      <4> QED
        BY <1>2, <1>4, <4>1
    <3> QED
      BY <1>2, <3>1 DEF Body
  <2> QED
    BY <2>1, <2>2
<1>7. ASSUME NEW i \in DOMAIN p, NEW k, NEW d \in S, Puts(f, i, k, d, target, b)
      PROVE  CellOf(at(i, k), target, Size) = IF d < Size THEN d ELSE -1
  <2>1. at(i, k) = target + d
    BY <1>7 DEF Puts
  <2> HIDE DEF at
  <2>2. d \in Nat /\ target + d < AddressSpace
    OBVIOUS
  <2> QED
    BY <2>1, <2>2, CellAt
<1>8. ASSUME NEW i \in DOMAIN p, NEW c, NEW k \in BytesFor(f, i, c, target, Size)
      PROVE  \E d \in S : Puts(f, i, k, d, target, b) /\ c = IF d < Size THEN d ELSE -1
  <2>1. f[i].type = 0 /\ k \in DOMAIN f[i].data /\ CellOf(at(i, k), target, Size) = c
    BY <1>8 DEF BytesFor
  <2>2. PICK d \in S : Puts(p, i, k, d, target, b)
    BY <1>2, <2>1 DEF Says
  <2>3. Puts(f, i, k, d, target, b)
    BY <1>2, <2>2
  <2> HIDE DEF at
  <2> QED
    BY <1>7, <2>1, <2>3
<1>9. ASSUME NEW d \in S, d < Size
      PROVE  \E i \in DOMAIN p : BytesFor(f, i, d, target, Size) # {}
  <2>1. PICK i \in DOMAIN p, k \in Nat : Puts(p, i, k, d, target, b)
    BY DEF Says
  <2>2. Puts(f, i, k, d, target, b)
    BY <1>2, <2>1
  <2>3. CellOf(at(i, k), target, Size) = d
    <3> HIDE DEF at
    <3> QED
      BY <1>7, <1>9, <2>2
  <2>4. k \in BytesFor(f, i, d, target, Size)
    BY <2>2, <2>3 DEF BytesFor, Puts
  <2> QED
    BY <2>4
<1>10. ASSUME S \subseteq Cells, Outside(f, target, Size) PROVE FALSE
  <2>1. PICK i \in DOMAIN p : BytesFor(f, i, -1, target, Size) # {}
    BY <1>6, <1>10 DEF Outside
  <2>2. PICK k \in BytesFor(f, i, -1, target, Size) : TRUE
    BY <2>1
  <2>3. PICK d \in S : -1 = IF d < Size THEN d ELSE -1
    BY <1>8
  <2> QED
    BY <1>10, <2>3, Sizes DEF Cells
<1>11. ASSUME NEW c \in Cells
       PROVE  ToBuffer(f, target, Size)[c] = IF c \in S THEN b[c] ELSE Unset
  <2> DEFINE from == {i \in Body(f) : BytesFor(f, i, c, target, Size) # {}}
  <2>1. ToBuffer(f, target, Size)[c] =
          IF from = {} THEN Unset ELSE f[Max(from)].data[Max(BytesFor(f, Max(from), c, target, Size))]
    BY DEF ToBuffer, Cells
  <2>2. c \in Nat /\ c < Size
    BY Sizes DEF Cells
  <2>3. CASE from = {}
    <3>1. c \notin S
      BY <1>6, <1>9, <2>2, <2>3
    <3> QED
      BY <2>1, <2>3, <3>1
  <2>4. CASE from # {}
    <3>1. from \in SUBSET (0 .. Len(p))
      BY <1>3, <1>6
    <3>2. Max(from) \in from
      <4> HIDE DEF from
      <4> QED
        BY <1>3, <2>4, <3>1, MaxIs
    <3>3. PICK i : i = Max(from)
      OBVIOUS
    <3>4. i \in DOMAIN p /\ BytesFor(f, i, c, target, Size) # {}
      BY <1>6, <3>2, <3>3
    <3> HIDE DEF from
    <3> DEFINE K == BytesFor(f, i, c, target, Size)
    <3>5. f[i] \in Record
      BY <1>2, <3>4
    <3>6. f[i].data \in Seq(Byte)
      BY <3>5 DEF Record
    <3>7. K \in SUBSET (0 .. Len(f[i].data)) /\ Len(f[i].data) \in Nat
      BY <3>6 DEF BytesFor
    <3>8. Max(K) \in K
      <4> HIDE DEF K
      <4> QED
        BY <3>4, <3>7, MaxIs DEF K
    <3>9. PICK d \in S : Puts(f, i, Max(K), d, target, b) /\ c = IF d < Size THEN d ELSE -1
      BY <1>8, <3>4, <3>8
    <3>10. d = c
      BY <2>2, <3>9
    <3>11. f[i].data[Max(K)] = b[c] /\ c \in S
      BY <3>9, <3>10 DEF Puts
    <3> QED
      BY <2>1, <2>4, <3>3, <3>11
  <2> QED
    BY <2>3, <2>4
<1> QED
  BY <1>2, <1>5, <1>10, <1>11 DEF f

-----------------------------------------------------------------------------
(* The part of a memory that is dumped.                                     *)

LEMMA PageOf ==
  ASSUME NEW x \in Nat
  PROVE  LET s == (x \div PageSize) * PageSize
         IN s \in Nat /\ s <= x /\ x <= s + PageSize - 1 /\ s % 2 = 0
<1> DEFINE q == x \div PageSize
           r == x % PageSize
<1>1. q \in Nat /\ r \in 0 .. PageSize - 1 /\ x = PageSize * q + r
  BY Sizes
<1>2. (x \div PageSize) * PageSize = q * PageSize
  OBVIOUS
<1> HIDE DEF q, r
<1>3. q * PageSize \in Nat /\ (q * PageSize) % 2 = 0
  BY <1>1, Sizes, HexSizes, EvenProduct
<1>4. q * PageSize = PageSize * q
  BY <1>1, Sizes
<1> QED
  BY <1>1, <1>2, <1>3, <1>4, Sizes

LEMMA PageBefore ==
  ASSUME NEW x \in Nat, NEW y \in Nat, x \div PageSize < y \div PageSize
  PROVE  (x \div PageSize) * PageSize + PageSize - 1 < y
<1> DEFINE q == x \div PageSize
           u == y \div PageSize
           r == y % PageSize
<1>1. q \in Nat /\ u \in Nat /\ r \in 0 .. PageSize - 1 /\ y = PageSize * u + r /\ q < u
  BY Sizes
<1> HIDE DEF q, u, r
<1>2. PICK w \in Nat : u = q + 1 + w
  <2>1. u - q - 1 \in Nat /\ u = q + 1 + (u - q - 1)
    BY <1>1
  <2> QED
    BY <2>1
<1>3. PageSize * w \in Nat /\ PageSize * q \in Nat
  BY <1>1, Sizes
<1>4. y = PageSize * q + PageSize + PageSize * w + r
  BY <1>1, <1>2, Sizes
<1>5. q * PageSize = PageSize * q
  BY <1>1, Sizes
<1>6. q * PageSize + PageSize - 1 < y
  BY <1>1, <1>3, <1>4, <1>5, Sizes
<1> QED
  BY <1>6 DEF q

LEMMA DumpIs ==
  ASSUME NEW b \in [Cells -> Byte], NEW force \in BOOLEAN
  PROVE  \E f, l \in Cells :
           /\ DumpRange(b, PageSize, 0, LastCell, force) = <<f, l>> /\ f <= l /\ f % 2 = 0
           /\ \/ \A c \in Cells : b[c] # Blank => c \in f .. l
              \/ ~force /\ \A c \in Cells \ {LastCell} : b[c] = Blank
<1> DEFINE L == LastCell
<1>0. Cells = 0 .. L /\ L \in Nat /\ 0 \in Cells /\ L \in Cells /\ L + 1 = Size
  BY Sizes DEF Cells, LastCell
<1> HIDE DEF L
<1>1. CASE force
  <2>1. DumpRange(b, PageSize, 0, L, force) = <<0, L>>
    BY <1>1 DEF DumpRange
  <2>2. \A c \in Cells : b[c] # Blank => c \in 0 .. L
    BY <1>0
  <2>3. 0 <= L /\ 0 % 2 = 0
    BY <1>0
  <2> QED
    BY <1>0, <2>1, <2>2, <2>3 DEF L
<1>2. CASE ~force /\ \A c \in 0 .. L - 1 : b[c] = Blank
  <2>1. DumpRange(b, PageSize, 0, L, force) = <<0, PageSize - 1>>
    <3>1. 0 .. L - 1 = 0 .. L - 1 /\ 0 - 1 = -1
      BY <1>0
    <3> QED
      BY <1>2, <3>1 DEF DumpRange
  <2>2. PageSize - 1 \in Cells /\ 0 <= PageSize - 1 /\ 0 % 2 = 0
    <3>1. PICK q \in Nat : Size = PageSize * q
      BY Sizes, HexSizes
    <3>2. q # 0
      BY <3>1, Sizes
    <3>3. PageSize <= Size
      <4>1. PICK w \in Nat : q = w + 1
        <5>1. q - 1 \in Nat /\ q = (q - 1) + 1
          BY <3>2
        <5> QED
          BY <5>1
      <4>2. PageSize * w \in Nat /\ Size = PageSize * w + PageSize
        BY <3>1, <4>1, Sizes
      <4> QED
        BY <4>2, Sizes
    <3> QED
      BY <3>3, Sizes DEF Cells
  <2>3. \A c \in Cells \ {L} : b[c] = Blank
    BY <1>0, <1>2
  <2> QED
    BY <1>0, <1>2, <2>1, <2>2, <2>3 DEF L
<1>3. CASE ~force /\ ~(\A c \in 0 .. L - 1 : b[c] = Blank)
  <2> DEFINE full == {c \in 0 .. L - 1 : b[c] # Blank}
             d == CHOOSE c \in full : \A e \in full : c <= e
             s == ((d - 1) \div PageSize) * PageSize
             f == FirstShown(b, PageSize, 0, L)
  <2>1. d \in full /\ \A e \in full : d <= e
    <3>1. full \in SUBSET Nat /\ full # {}
      BY <1>0, <1>3
    <3> HIDE DEF full
    <3> QED
      BY <3>1, LeastNumber
  <2>2. d \in Nat /\ d <= L - 1 /\ \A c \in Cells : b[c] # Blank => c = L \/ d <= c
    <3>1. \A c \in Cells : b[c] # Blank => c = L \/ c \in full
      BY <1>0
    <3>2. d \in 0 .. L - 1
      BY <2>1
    <3> HIDE DEF full, d
    <3> QED
      BY <1>0, <2>1, <3>1, <3>2
  <2>3. f = IF d = 0 \/ s < 0 THEN 0 ELSE s
    BY DEF FirstShown
  <2> HIDE DEF d, full
  <2>4. f \in Nat /\ f <= d /\ f % 2 = 0
    <3>1. CASE d = 0
      <4>1. f = 0
        BY <2>3, <3>1
      <4> QED
        BY <3>1, <4>1
    <3>2. CASE d # 0
      <4>1. PICK x \in Nat : x = d - 1
        BY <2>2, <3>2
      <4>2. s = (x \div PageSize) * PageSize
        BY <4>1
      <4>3. s \in Nat /\ s <= x /\ s % 2 = 0
        BY <4>2, PageOf
      <4>4. f = s
        <5>1. ~(d = 0 \/ s < 0)
          <6> HIDE DEF s
          <6> QED
            BY <3>2, <4>3
        <5> QED
          BY <2>3, <5>1
      <4> HIDE DEF f, s
      <4> QED
        BY <2>2, <4>1, <4>3, <4>4
    <3> QED
      BY <3>1, <3>2
  <2> DEFINE l == LastShown(b, PageSize, f, L)
  <2>5. DumpRange(b, PageSize, 0, L, force) = <<f, l>>
    BY <1>3 DEF DumpRange
  <2> HIDE DEF f
  <2> DEFINE more == {c \in f + 1 .. L : b[c] # Blank} \cup {f}
             g == CHOOSE c \in more : \A e \in more : e <= c
             t == ((g + 1) \div PageSize) * PageSize
  <2>6. g \in more /\ \A e \in more : e <= g
    <3>1. more \in SUBSET (0 .. L) /\ more # {}
      BY <1>0, <2>2, <2>4
    <3> HIDE DEF more
    <3>2. Max(more) \in more /\ \A x \in more : Max(more) >= x
      BY <1>0, <3>1, MaxIs
    <3>3. \A x \in more : x \in Nat
      BY <3>1, <1>0
    <3>4. \A e \in more : e <= Max(more)
      BY <3>2, <3>3
    <3> QED
      BY <3>2, <3>4
  <2>7. g \in Nat /\ f <= g /\ g <= L /\ \A c \in Cells : b[c] # Blank /\ f <= c => c <= g
    <3>1. \A c \in Cells : b[c] # Blank /\ f <= c => c \in more
      BY <1>0, <2>4
    <3>2. f \in more /\ g \in 0 .. L
      BY <1>0, <2>2, <2>4, <2>6
    <3> HIDE DEF more, g
    <3> QED
      BY <1>0, <2>6, <3>1, <3>2
  <2>8. l = IF (g + 1) \div PageSize < L \div PageSize THEN t + PageSize - 1 ELSE L
    BY DEF LastShown
  <2> HIDE DEF g, more
  <2>9. l \in Nat /\ g <= l /\ l <= L
    <3>1. CASE (g + 1) \div PageSize < L \div PageSize
      <4>1. PICK x \in Nat : x = g + 1
        BY <2>7
      <4>2. t = (x \div PageSize) * PageSize
        BY <4>1
      <4>3. t \in Nat /\ t <= x /\ x <= t + PageSize - 1
        BY <4>2, PageOf
      <4>4. t + PageSize - 1 < L
        <5>1. x \div PageSize < L \div PageSize
          BY <3>1, <4>1
        <5>2. (x \div PageSize) * PageSize + PageSize - 1 < L
          BY <1>0, <5>1, PageBefore
        <5> QED
          BY <4>2, <5>2
      <4>5. l = t + PageSize - 1
        BY <2>8, <3>1
      <4> HIDE DEF l, t
      <4> QED
        BY <1>0, <2>7, <4>1, <4>3, <4>4, <4>5, Sizes
    <3>2. CASE ~((g + 1) \div PageSize < L \div PageSize)
      <4>1. l = L
        BY <2>8, <3>2
      <4> HIDE DEF l
      <4> QED
        BY <1>0, <2>7, <4>1
    <3> QED
      BY <3>1, <3>2
  <2> HIDE DEF l
  <2>10. f \in Cells /\ l \in Cells /\ f <= l
    BY <1>0, <2>4, <2>7, <2>9
  <2>11. ASSUME NEW c \in Cells, b[c] # Blank PROVE c \in f .. l
    <3>1. f <= c
      BY <1>0, <2>2, <2>4, <2>11
    <3>2. c <= g
      BY <2>7, <2>11, <3>1
    <3> QED
      BY <1>0, <2>4, <2>7, <2>9, <3>1, <3>2
  <2> QED
    BY <2>4, <2>5, <2>10, <2>11 DEF L
<1> QED
  BY <1>1, <1>2, <1>3

-----------------------------------------------------------------------------
(* What the commands print is what they have read.                          *)

LEMMA DumpedTrue ==
  ASSUME NEW b \in [Cells -> Byte], NEW force \in BOOLEAN
  PROVE  LET f == Dumped(b, PageSize, 0, LastCell, force, STM32_FLASH_OFFSET)
         IN /\ f \in Seq(Record) /\ Complete(f) /\ ~Outside(f, STM32_FLASH_OFFSET, Size)
            /\ \/ Reads(f, STM32_FLASH_OFFSET) = b
               \/ ~force /\ \A c \in Cells \ {LastCell} : b[c] = Blank
<1> DEFINE file == Dumped(b, PageSize, 0, LastCell, force, STM32_FLASH_OFFSET)
           blank == ~force /\ \A c \in Cells \ {LastCell} : b[c] = Blank
<1>1. PICK f \in Cells, l \in Cells :
        /\ DumpRange(b, PageSize, 0, LastCell, force) = <<f, l>> /\ f <= l /\ f % 2 = 0
        /\ (\A c \in Cells : b[c] # Blank => c \in f .. l) \/ blank
  BY DumpIs
<1>2. file = FromBuffer(b, PageSize, f, l, force, STM32_FLASH_OFFSET)
  BY <1>1 DEF Dumped
<1>3. LastCell \in Nat /\ Cells = 0 .. LastCell /\ LastCell + 1 = Size
  BY Sizes DEF Cells, LastCell
<1> HIDE DEF file, blank
<1> DEFINE S == Shown(b, PageSize, f, l, force)
<1>4. /\ b \in [0 .. LastCell -> Byte] /\ f \in Nat /\ l \in 0 .. LastCell /\ l \in Nat
      /\ STM32_FLASH_OFFSET + l < AddressSpace
  BY <1>3, Sizes
<1>5. PICK p \in Seq(Record) : file = Append(p, EndRecord) /\ Says(p, S, STM32_FLASH_OFFSET, b)
  <2> HIDE DEF S
  <2>1. \E p \in Seq(Record) :
          /\ FromBuffer(b, PageSize, f, l, force, STM32_FLASH_OFFSET) = Append(p, EndRecord)
          /\ Says(p, S, STM32_FLASH_OFFSET, b)
    BY <1>1, <1>3, <1>4, Sizes, HexSizes, PrintedIs DEF S
  <2> QED
    BY <1>2, <2>1
<1>6. S \subseteq f .. l /\ \A c \in f .. l : b[c] # Blank => c \in S
  <2> HIDE DEF S
  <2> QED
    BY <1>3, <1>4, Sizes, ShownIs DEF S
<1> HIDE DEF S
<1>7. S \subseteq Cells /\ S \in SUBSET Nat /\ \A d \in S : STM32_FLASH_OFFSET + d < AddressSpace
  BY <1>3, <1>4, <1>6, Sizes
<1>8. /\ file \in Seq(Record) /\ Complete(file) /\ ~Outside(file, STM32_FLASH_OFFSET, Size)
      /\ \A c \in Cells : ToBuffer(file, STM32_FLASH_OFFSET, Size)[c] = IF c \in S THEN b[c] ELSE Unset
  BY <1>5, <1>7, Sizes, ReadBack
<1>9. ASSUME ~blank PROVE Reads(file, STM32_FLASH_OFFSET) = b
  <2>1. ASSUME NEW c \in Cells
        PROVE  Expected(ToBuffer(file, STM32_FLASH_OFFSET, Size)[c]) = b[c]
    <3>1. b[c] # Unset
      BY Sizes
    <3>2. c \notin S => b[c] = Blank
      BY <1>1, <1>6, <1>9
    <3> QED
      BY <1>8, <3>1, <3>2 DEF Expected
  <2> QED
    BY <2>1 DEF Reads
<1> QED
  BY <1>8, <1>9 DEF file, blank

LEMMA BinTrue ==
  ASSUME NEW r \in Requests, NEW behind \in [1 .. PageSize -> Byte]
  PROVE  LET f == BinPrinted(r, behind)
         IN /\ f \in Seq(Record) /\ Complete(f)
            /\ \A k \in DOMAIN r.bytes : k <= Size => Reads(f, 0)[k - 1] = r.bytes[k]
<1> DEFINE file == BinPrinted(r, behind)
           b == BinRead(r, behind)
           m == Size + PageSize - 1
           S == Shown(b, PageSize, 0, BinLength(r), r.force)
<1>1. r.bytes \in Seq(Byte) /\ r.force \in BOOLEAN
  BY ProgramAssumption
<1>2. BinLength(r) \in Nat /\ BinLength(r) <= Size /\ BinLength(r) <= Len(r.bytes)
  BY <1>1, Sizes DEF BinLength
<1>3. m \in Nat /\ BinLength(r) \in 0..m
  BY <1>2, Sizes
<1>4. b \in [0..m -> Byte]
  <2>1. ASSUME NEW c \in 0..m
        PROVE  (IF c >= Size THEN behind[c - Size + 1]
                ELSE IF c < BinLength(r) THEN r.bytes[c + 1] ELSE Blank) \in Byte
    <3>1. c >= Size => c - Size + 1 \in 1 .. PageSize
      BY Sizes
    <3>2. c < BinLength(r) => c + 1 \in DOMAIN r.bytes
      BY <1>1, <1>2
    <3> QED
      BY <1>1, <3>1, <3>2, Sizes
  <2> QED
    BY <2>1 DEF BinRead
<1>5. ASSUME NEW k \in DOMAIN r.bytes, k <= Size
      PROVE  k - 1 \in Cells /\ k - 1 \in 0 .. BinLength(r) /\ b[k - 1] = r.bytes[k]
  <2>1. PICK c \in Nat : k = c + 1
    <3>1. k - 1 \in Nat /\ k = (k - 1) + 1
      BY <1>1
    <3> QED
      BY <3>1
  <2>2. c < Size /\ c < BinLength(r) /\ c \in 0..m
    BY <1>1, <1>5, <2>1, Sizes DEF BinLength
  <2>3. b[c] = r.bytes[c + 1]
    BY <1>2, <2>2, Sizes DEF BinRead
  <2>4. k - 1 = c
    BY <2>1
  <2> HIDE DEF b, m
  <2> QED
    BY <1>2, <2>1, <2>2, <2>3, <2>4, Sizes DEF Cells
<1>6. file = FromBuffer(b, PageSize, 0, BinLength(r), r.force, 0)
  BY DEF BinPrinted
<1> HIDE DEF b, m, file
<1>7. 0 \in Nat /\ 0 % 2 = 0 /\ 0 <= BinLength(r) /\ 0 + BinLength(r) < AddressSpace
  BY <1>2, Sizes, HexSizes
<1>8. PICK p \in Seq(Record) : file = Append(p, EndRecord) /\ Says(p, S, 0, b)
  <2> HIDE DEF S
  <2>1. \E p \in Seq(Record) :
          /\ FromBuffer(b, PageSize, 0, BinLength(r), r.force, 0) = Append(p, EndRecord)
          /\ Says(p, S, 0, b)
    BY <1>1, <1>3, <1>4, <1>7, Sizes, HexSizes, PrintedIs DEF S
  <2> QED
    BY <1>6, <2>1
<1>9. S \subseteq 0 .. BinLength(r) /\ \A c \in 0 .. BinLength(r) : b[c] # Blank => c \in S
  <2> HIDE DEF S
  <2> QED
    BY <1>1, <1>3, <1>4, <1>7, Sizes, ShownIs DEF S
<1> HIDE DEF S
<1>10. S \in SUBSET Nat /\ \A d \in S : 0 + d < AddressSpace
  BY <1>2, <1>9, Sizes, HexSizes
<1>11. 0 + Size <= AddressSpace
  BY Sizes, HexSizes
<1>12. /\ file \in Seq(Record) /\ Complete(file)
       /\ \A c \in Cells : ToBuffer(file, 0, Size)[c] = IF c \in S THEN b[c] ELSE Unset
  BY <1>7, <1>8, <1>10, <1>11, ReadBack
<1>13. ASSUME NEW k \in DOMAIN r.bytes, k <= Size
       PROVE  Reads(file, 0)[k - 1] = r.bytes[k]
  <2>1. PICK c : c = k - 1
    OBVIOUS
  <2>2. c \in Cells /\ c \in 0 .. BinLength(r) /\ b[c] = r.bytes[k]
    BY <1>5, <1>13, <2>1
  <2>3. r.bytes[k] # Unset
    BY <1>1, Sizes
  <2>4. Reads(file, 0)[c] = Expected(ToBuffer(file, 0, Size)[c])
    BY <2>2 DEF Reads
  <2>5. Reads(file, 0)[c] = r.bytes[k]
    BY <1>9, <1>12, <2>2, <2>3, <2>4 DEF Expected
  <2> QED
    BY <2>1, <2>5
<1> QED
  BY <1>12, <1>13 DEF file

LEMMA ConvertedTrue ==
  ASSUME NEW r \in Requests, NEW c \in Cells
  PROVE  Converted(r)[c] = IF c \in DOMAIN Said(r.file) THEN Said(r.file)[c] ELSE Unset
<1>1. r.file \in Seq(Record) /\ 0 \in Nat /\ 0 + Size <= AddressSpace /\ c + 0 = c
  BY FlashRequest, Sizes, HexSizes DEF Cells
<1> QED
  BY <1>1, BufferIs DEF Converted

-----------------------------------------------------------------------------
(* A command that reports success has printed or made what it should.       *)

\* Only an idle program has printed a file; a conversion is over at once.
FilesInv ==
  /\ pc # "idle" => req.name \notin Conversions /\ out = <<>>
  /\ FilesAreTrue

\* The file that has been printed.
IsPrinted ==
  /\ out \in Seq(Record)
  /\ Succeeded("read") => out = Dumped(buin, PageSize, 0, LastCell, req.force, STM32_FLASH_OFFSET)
  /\ Succeeded("bin2hex") => \E behind \in [1 .. PageSize -> Byte] : out = BinPrinted(req, behind)
  /\ Succeeded("hex2bin") => image = Converted(req)

LEMMA PrintedTrue == ASSUME TypeOK', IsPrinted' PROVE FilesAreTrue'
<1>1. req' \in Requests /\ req'.force \in BOOLEAN /\ buin' \in [Cells -> Byte]
  <2>1. req' \in Requests /\ buin' \in [Cells -> Byte]
    BY DEF TypeOK
  <2> QED
    BY <2>1, FlashRequest
<1>2. ASSUME Succeeded("read")'
      PROVE  /\ Complete(out') /\ ~Outside(out', STM32_FLASH_OFFSET, Size)
             /\ \/ Reads(out', STM32_FLASH_OFFSET) = buin'
                \/ ~req'.force /\ \A c \in Cells \ {LastCell} : buin'[c] = Blank
  <2>1. out' = Dumped(buin', PageSize, 0, LastCell, req'.force, STM32_FLASH_OFFSET)
    BY <1>2 DEF IsPrinted
  <2> QED
    BY <1>1, <2>1, DumpedTrue
<1>3. ASSUME Succeeded("bin2hex")'
      PROVE  /\ Complete(out')
             /\ \A k \in DOMAIN req'.bytes : k <= Size => Reads(out', 0)[k - 1] = req'.bytes[k]
  <2>1. PICK behind \in [1 .. PageSize -> Byte] : out' = BinPrinted(req', behind)
    BY <1>3 DEF IsPrinted
  <2> QED
    BY <1>1, <2>1, BinTrue
<1>4. ASSUME Succeeded("hex2bin")', NEW c \in Cells
      PROVE  image'[c] = IF c \in DOMAIN Said(req'.file) THEN Said(req'.file)[c] ELSE Unset
  <2>1. image' = Converted(req')
    BY <1>4 DEF IsPrinted
  <2> QED
    BY <1>1, <2>1, ConvertedTrue
<1>5. out' \in Seq(Record)
  BY DEF IsPrinted
<1> QED
  BY <1>2, <1>3, <1>4, <1>5 DEF FilesAreTrue

\* A step that prints nothing and does not end a read or a conversion with success
\* leaves nothing to show.
LEMMA QuietFiles ==
  ASSUME FilesInv, pc # "idle", UNCHANGED <<req, out>>,
         pc' # "idle" \/ ret' = "fail" \/ req.name \in {"erase", "launch", "flash"}
  PROVE  FilesInv'
<1>1. req.name \notin Conversions /\ out = <<>>
  BY DEF FilesInv
<1>2. <<>> \in Seq(Record)
  OBVIOUS
<1>3. ~Succeeded("read")' /\ ~Succeeded("bin2hex")' /\ ~Succeeded("hex2bin")'
  BY <1>1 DEF Succeeded, Conversions
<1> QED
  BY <1>1, <1>2, <1>3 DEF FilesInv, FilesAreTrue

LEMMA CheckFiles ==
  ASSUME FilesInv, NEW here, NEW there, there # "idle", here # "idle", Check(here, there)
  PROVE  FilesInv'
<1>1. pc # "idle" /\ UNCHANGED <<req, out>> /\ (pc' # "idle" \/ ret' \in {"ok", "fail"})
  BY DEF Check, Goto, Exit, host
<1>2. pc' # "idle" \/ ret' = "fail"
  BY DEF Check, Goto, Exit
<1> QED
  BY <1>1, <1>2, QuietFiles

LEMMA CheckLastFiles ==
  ASSUME FilesInv, FlashInv, NEW here \in {"eraseDone", "goRun"}, CheckLast(here)
  PROVE  FilesInv'
<1>1. pc = here /\ UNCHANGED <<req, out>>
  BY DEF CheckLast, host
<1>2. req.name \in {"erase", "launch"}
  BY <1>1 DEF FlashInv, EraseInv, LaunchInv
<1> QED
  BY <1>1, <1>2, QuietFiles

LEMMA SendFiles ==
  ASSUME FilesInv, NEW here, NEW todo, NEW there, there # "idle", here # "idle", Send(here, todo, there)
  PROVE  FilesInv'
<1>1. pc # "idle" /\ UNCHANGED <<req, out>>
  BY DEF Send, host
<1>2. pc' # "idle" \/ ret' = "fail"
  BY DEF Send, Goto, Exit
<1> QED
  BY <1>1, <1>2, QuietFiles

LEMMA StartFiles ==
  ASSUME FilesInv,
         StartErase \/ StartFlash \/ StartRead \/ StartLaunch \/ NotSupported \/ GetsIdle
  PROVE  FilesInv'
<1>1. pc # "idle" /\ UNCHANGED <<req, out>>
  BY DEF StartErase, StartFlash, StartRead, StartLaunch, NotSupported, GetsIdle, MakeIdle, NotFound,
         Found, NotIdle, AskAgain, MakeIdleDone, Nudge, Reset, host
<1>2. pc' # "idle" \/ ret' = "fail"
  BY DEF StartErase, StartFlash, StartRead, StartLaunch, NotSupported, GetsIdle, MakeIdle, NotFound,
         Found, NotIdle, AskAgain, MakeIdleDone, Nudge, Reset, Goto, Exit
<1> QED
  BY <1>1, <1>2, QuietFiles

LEMMA PtrDoneFiles == ASSUME FilesInv, FlashInv, JobKnown, PtrDone PROVE FilesInv'
<1>1. pc = "ptrDone" /\ UNCHANGED <<req, out>> /\ job \in Jobs
  BY DEF PtrDone, JobKnown, Transfers
<1>2. pc' # "idle" \/ ret' = "fail"
  BY <1>1 DEF PtrDone, Goto, Exit, Jobs
<1> QED
  BY <1>1, <1>2, QuietFiles

LEMMA WriteFiles == ASSUME FilesInv, FlashInv, Put \/ PutDone \/ Validate \/ GetFails PROVE FilesInv'
<1>1. pc \in {"put", "putDone", "validate", "get"} /\ UNCHANGED <<req, out>>
  BY DEF Put, PutDone, Validate, GetFails, host
<1>2. pc' # "idle" \/ ret' = "fail" \/ req.name = "flash"
  <2>1. pc \in {"put", "putDone", "validate"} => req.name = "flash"
    BY DEF FlashInv, WriteInv, ReadInv, Writing
  <2>2. GetFails => ret' = "fail"
    BY DEF GetFails, Exit
  <2>3. Put \/ PutDone \/ Validate => pc \in {"put", "putDone", "validate"}
    BY DEF Put, PutDone, Validate
  <2> QED
    BY <2>1, <2>2, <2>3
<1> QED
  BY <1>1, <1>2, QuietFiles

LEMMA GetFiles == ASSUME FilesInv, FlashInv, TypeOK', Get PROVE FilesInv'
<1>1. /\ pc = "get" /\ UNCHANGED <<req, image>>
      /\ out' = IF start' > final /\ req.name = "read"
                  THEN Dumped(buin', PageSize, 0, LastCell, req.force, STM32_FLASH_OFFSET) ELSE out
      /\ IF start' <= final THEN Goto(IF ReadInStep THEN "getCheck" ELSE "ptrCheck")
         ELSE IF req.name = "flash" THEN Goto("validate") ELSE Exit("ok")
  BY DEF Get
<1>2. req.name \in {"flash", "read"} /\ final \in Cells /\ start' \in 0 .. Size
  BY <1>1 DEF FlashInv, TypeOK, ReadInv, Reading
<1>3. start' > final <=> ~(start' <= final)
  BY <1>2, Sizes DEF Cells
<1>4. CASE start' > final /\ req.name = "read"
  <2>1. pc' = "idle" /\ out' = Dumped(buin', PageSize, 0, LastCell, req'.force, STM32_FLASH_OFFSET)
    BY <1>1, <1>3, <1>4 DEF Exit
  <2>2. req' \in Requests /\ buin' \in [Cells -> Byte]
    BY DEF TypeOK
  <2>3. req'.force \in BOOLEAN
    BY <2>2, FlashRequest
  <2>4. out' \in Seq(Record)
    BY <2>1, <2>2, <2>3, DumpedTrue
  <2>5. req'.name = "read"
    BY <1>1, <1>4
  <2>6. IsPrinted'
    BY <2>1, <2>4, <2>5 DEF IsPrinted, Succeeded
  <2> QED
    BY <2>1, <2>6, PrintedTrue DEF FilesInv
<1>5. CASE ~(start' > final /\ req.name = "read")
  <2>1. out' = out /\ pc' # "idle"
    BY <1>1, <1>2, <1>3, <1>5 DEF Goto
  <2> QED
    BY <1>1, <2>1, QuietFiles
<1> QED
  BY <1>4, <1>5

LEMMA ProcessFiles == ASSUME FilesInv, FlashInv, IInv, TypeOK', Process PROVE FilesInv'
<1>1. CASE Erase
  BY <1>1, SendFiles, CheckFiles, CheckLastFiles DEF Erase
<1>2. CASE SetAddressPtr
  BY <1>2, SendFiles, CheckFiles, PtrDoneFiles DEF SetAddressPtr, IInv
<1>3. CASE StartApp
  BY <1>3, SendFiles, CheckFiles, CheckLastFiles DEF StartApp
<1>4. CASE WriteBlock
  BY <1>4, CheckFiles, WriteFiles DEF WriteBlock
<1>5. CASE ReadBlock
  BY <1>5, CheckFiles, WriteFiles, GetFiles DEF ReadBlock
<1>6. CASE Validate
  BY <1>6, WriteFiles
<1> QED
  BY <1>1, <1>2, <1>3, <1>4, <1>5, <1>6, StartFiles DEF Process

LEMMA ConvertFiles == ASSUME FilesInv, TypeOK', NEW r \in Requests, Convert(r) PROVE FilesInv'
<1> DEFINE good == IF r.name = "hex2bin" THEN Complete(r.file) /\ ~Outside(r.file, 0, Size)
                   ELSE r.bytes # <<>>
<1>1. /\ pc' = "idle" /\ r.name \in Conversions /\ req' = r
      /\ ret' = IF good THEN "ok" ELSE "fail"
      /\ image' = IF good /\ r.name = "hex2bin" THEN Converted(r) ELSE NoImage
      /\ IF good /\ r.name = "bin2hex"
         THEN \E behind \in [1 .. PageSize -> Byte] : out' = BinPrinted(r, behind)
         ELSE out' = <<>>
  BY DEF Convert
<1> HIDE DEF good
<1>2. out' \in Seq(Record)
  <2>1. <<>> \in Seq(Record)
    OBVIOUS
  <2>2. \A behind \in [1 .. PageSize -> Byte] : BinPrinted(r, behind) \in Seq(Record)
    BY BinTrue
  <2> QED
    BY <1>1, <2>1, <2>2
<1>3. ~Succeeded("read")'
  BY <1>1 DEF Succeeded, Conversions
<1>4. Succeeded("bin2hex")' => \E behind \in [1 .. PageSize -> Byte] : out' = BinPrinted(req', behind)
  BY <1>1 DEF Succeeded
<1>5. Succeeded("hex2bin")' => image' = Converted(req')
  BY <1>1 DEF Succeeded
<1>6. IsPrinted'
  BY <1>2, <1>3, <1>4, <1>5 DEF IsPrinted
<1> QED
  BY <1>1, <1>6, PrintedTrue DEF FilesInv

LEMMA OtherFiles ==
  ASSUME FilesInv, Replug \/ (\E r \in Requests : Begin(r)) \/ UNCHANGED vars
  PROVE  FilesInv'
<1>1. CASE UNCHANGED vars
  BY <1>1 DEF FilesInv, FilesAreTrue, Succeeded, vars, dfu, host
<1>2. CASE Replug
  <2>1. pc' = "idle" /\ ret' = "none" /\ out' = out
    BY <1>2 DEF Replug, host
  <2> QED
    BY <2>1 DEF FilesInv, FilesAreTrue, Succeeded
<1>3. ASSUME NEW r \in Requests, Begin(r) PROVE FilesInv'
  <2>1. pc' = "open" /\ out' = <<>> /\ req' = r /\ r.name \notin Conversions
    BY <1>3 DEF Begin
  <2> QED
    BY <2>1 DEF FilesInv, FilesAreTrue, Succeeded
<1> QED
  BY <1>1, <1>2, <1>3

\* Every file that is printed is read back as what was to be printed, and every file is
\* converted to what it says: for files, memories, pages, lines and 64 kB pages of any
\* size, as far as lines begin at even addresses.
THEOREM FilesTrue == Spec => []FilesAreTrue
<1>1. Init => FilesInv
  BY DEF Init, FilesInv, FilesAreTrue, Succeeded
<1>2. FilesInv /\ FlashInv /\ IInv /\ [Next]_vars => FilesInv'
  <2> SUFFICES ASSUME FilesInv, FlashInv, IInv, [Next]_vars PROVE FilesInv'
    OBVIOUS
  <2>1. TypeOK'
    BY FlashInductive DEF Right, FlashInv
  <2> QED
    BY <2>1, ProcessFiles, ConvertFiles, OtherFiles DEF Next
<1>3. FilesInv => FilesAreTrue
  BY DEF FilesInv
<1> QED
  BY <1>1, <1>2, <1>3, AlwaysFlashInv, PTL DEF Spec
=============================================================================
