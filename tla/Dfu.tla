--------------------------------- MODULE Dfu ---------------------------------
(***************************************************************************)
(* dfu.c: the requests of a process of dfu-programmer, any of which may    *)
(* fail with or without the device having obeyed it, and how a process     *)
(* gets the device into the state dfuIDLE before its command.              *)
(***************************************************************************)
EXTENDS DfuDevice

CONSTANTS
  Lossy,      \* TRUE: requests may fail
  MaxSpare    \* bound: short status answers and resets without effect in a process

ASSUME DfuAssumption == Lossy \in BOOLEAN /\ MaxSpare \in Nat

VARIABLES
  dev,     \* the device
  pc,      \* place in the process, "idle" when none runs
  trans,   \* transaction
  tries,   \* retries of dfu_make_idle
  spare,   \* what is left of MaxSpare
  ret      \* the exit code: "none" before there is one, "ok", "fail"

Retries == 4

Goto(place) == pc' = place /\ UNCHANGED ret

\* The ends of a request that the device accepts and that leaves it as one of the
\* given, and of one that it refuses.
Accepted(devices) ==
  [good : {TRUE}, dev : devices] \cup
  (IF Lossy THEN [good : {FALSE}, dev : devices \cup {dev}] ELSE {})
Refused(d) == [good : {FALSE}, dev : Refuses(d)]

\* dfu_download, dfu_upload: the transaction is counted, whatever becomes of it.
Download(todo) == IF dev.state \in Ready THEN Accepted({Dnload(dev, todo)}) ELSE Refused(dev)
Upload(n) == IF MayUpload(dev, trans, n) THEN Accepted({To(dev, "upIdle")})
             ELSE [good : {FALSE}, dev : {dev, Failed(dev)}]

\* A request whose result nobody looks at.
Anyhow(d, devices) == devices \cup (IF Lossy THEN {d} ELSE {})

\* dfu_get_status: a request that fails is no error here, but the defaults, state
\* dfuERROR and a bad status, are left in the result; one that is too short is.  A
\* device that has left DFU mode does not answer.
GetStatus ==
  (IF dev.state = "app" THEN {}
   ELSE {[dev |-> Polled(dev), state |-> ToldState(dev), ok |-> ToldOk(dev), short |-> FALSE]}) \cup
  (IF dev.state # "app" /\ ~Lossy THEN {}
   ELSE {[dev |-> d, state |-> "error", ok |-> FALSE, short |-> FALSE] : d \in {dev, Polled(dev)}}) \cup
  (IF dev.state = "app" \/ spare = 0 THEN {}
   ELSE {[dev |-> Polled(dev), state |-> "error", ok |-> FALSE, short |-> TRUE]})

-----------------------------------------------------------------------------
(* dfu_device_init, the matching device found, opened and claimed, and      *)
(* dfu_make_idle.                                                           *)

\* A device that has left DFU mode is not found; any of the steps up to the claim
\* may go wrong.
NotFound ==
  /\ pc = "open" /\ (dev.state = "app" \/ Lossy)
  /\ pc' = "idle" /\ ret' = "fail"
  /\ UNCHANGED <<dev, trans, tries, spare>>

\* On an STM32 initial_abort stays 0, so that the status is asked for at once.
Found ==
  /\ pc = "open" /\ dev.state # "app"
  /\ tries' = Retries /\ Goto("status")
  /\ UNCHANGED <<dev, trans, spare>>

\* while( 0 < retries ) ... return -2
NotIdle ==
  /\ pc = "status" /\ tries = 0
  /\ pc' = "idle" /\ ret' = "fail"
  /\ UNCHANGED <<dev, trans, tries, spare>>

\* A short answer: the status is cleared and the try is not counted.
AskAgain ==
  /\ pc = "status" /\ tries > 0 /\ Goto("status")
  /\ \E s \in GetStatus : s.short /\ dev' \in Anyhow(s.dev, Cleared(s.dev))
  /\ spare' = spare - 1
  /\ UNCHANGED <<trans, tries>>

IsIdle(s) == ~s.short /\ s.state = "idle" /\ s.ok

MakeIdleDone ==
  /\ pc = "status" /\ tries > 0 /\ Goto("ready")
  /\ \E s \in GetStatus : IsIdle(s) /\ dev' = s.dev
  /\ UNCHANGED <<trans, tries, spare>>

\* What is sent to a device in a state that is not idle.
Nudged(s) ==
  CASE s.state \in {"dnSync", "dnIdle", "manSync", "upIdle", "dnBusy", "manifest"} -> Aborted(s.dev)
    [] s.state \in {"idle", "error"} -> Cleared(s.dev)
    [] s.state = "appIdle" -> Detached(s.dev)

\* Faulty variant: the retries are not counted.
NudgeForever ==
  /\ pc = "status" /\ tries > 0 /\ Goto("status")
  /\ \E s \in GetStatus :
       /\ ~s.short /\ ~IsIdle(s) /\ s.state \notin {"appDetach", "waitReset"}
       /\ dev' \in Anyhow(s.dev, Nudged(s))
  /\ UNCHANGED <<tries, trans, spare>>

Nudge ==
  /\ pc = "status" /\ tries > 0 /\ Goto("status")
  /\ \E s \in GetStatus :
       /\ ~s.short /\ ~IsIdle(s) /\ s.state \notin {"appDetach", "waitReset"}
       /\ dev' \in Anyhow(s.dev, Nudged(s))
  /\ tries' = tries - 1
  /\ UNCHANGED <<trans, spare>>

\* The device is reset and looked for again, as often as that takes.
Reset ==
  /\ pc = "status" /\ tries > 0 /\ Goto("open")
  /\ \E s \in GetStatus :
       /\ ~s.short /\ s.state \in {"appDetach", "waitReset"}
       /\ \/ \E t \in ResetStates(s.dev) : dev' = Restarted(s.dev, t) /\ UNCHANGED spare
          \/ Lossy /\ spare > 0 /\ dev' = s.dev /\ spare' = spare - 1
  /\ UNCHANGED <<trans, tries>>

MakeIdle == NotFound \/ Found \/ NotIdle \/ AskAgain \/ MakeIdleDone \/ Nudge \/ Reset
=============================================================================
