------------------------------ MODULE DimToggle ------------------------------
(***************************************************************************)
(* common/cuxd/extra/dim.tcl and toggle.tcl: scripts that CCU programs and *)
(* key presses start, each press a process of its own.                     *)
(*                                                                         *)
(* dim.tcl ramps a dimmer up or down, one level at a time with a pause in  *)
(* between, until it is at an end or another dim.tcl takes over.  Taking   *)
(* over is seen from the file /tmp/dim_<address>: a ramp remembers the     *)
(* modification time it left there, in whole seconds, and stops when the   *)
(* time is another one or the file has gone.  toggle.tcl switches a device *)
(* on or off.  Since the value the CCU knows lags behind the device, it    *)
(* trusts its own note of the last switching, /var/cache/cuxd/state_<..>,  *)
(* while that is fresh; dim.tcl -toggle keeps the direction of the last    *)
(* ramp in a file of the same name.                                        *)
(*                                                                         *)
(* The module is one device with any number of both scripts running.       *)
(***************************************************************************)
EXTENDS Integers

CONSTANTS
  Dims,        \* runs of dim.tcl
  Toggles,     \* runs of toggle.tcl
  DimOps,      \* what a run of dim.tcl may be asked, see DimOp
  Top,         \* the level 1.0; levels are the multiples 0..Top of a step
  CacheSecs,   \* how long toggle.tcl trusts its note, 4 in the code
  MaxLag,      \* after how many seconds the CCU knows a new level at the latest
  MaxTime,     \* bound on the clock, in seconds
  Serial       \* TRUE: a script starts only when no other one is running

Runs == Dims \cup Toggles

\* <LEVELDIFF> (0 is STOP), <DELAYTIME> and -toggle.
DimOp == [diff : -Top..Top, delay : {"none", "ms", "s"}, toggle : BOOLEAN]

ASSUME DimAssumption ==
  /\ Dims \cap Toggles = {} /\ DimOps \subseteq DimOp
  /\ Top \in Nat \ {0} /\ CacheSecs \in Nat /\ MaxLag \in Nat /\ MaxTime \in Nat
  /\ Serial \in BOOLEAN

NoFile == -1             \* in place of a modification time
Blank == 2               \* a state file just truncated
NoNote == [note |-> Blank, mtime |-> NoFile]

VARIABLES
  now,      \* clock seconds
  level,    \* the level last sent to the device
  setAt,    \* when that was
  value,    \* what Value() returns: the level the CCU has heard of
  pidfile,  \* modification time of /tmp/dim_<address>, or NoFile
  sfile,    \* the state file: its note and modification time
  pc,       \* place of each run in its script
  op,       \* arguments of each dim.tcl
  updown,   \* dim.tcl: updown; toggle.tcl: what it takes or leaves for "on"
  new,      \* dim.tcl: new_level
  mtime,    \* dim.tcl: pidfilemtime
  until     \* dim.tcl: when its pause ends

device == <<level, setAt, value>>
files  == <<pidfile, sfile>>
locals == <<op, updown, new, mtime, until>>
vars   == <<now, device, files, pc, locals>>

TypeOK ==
  /\ now \in 0..MaxTime /\ setAt \in 0..MaxTime
  /\ level \in 0..Top /\ value \in 0..Top
  /\ pidfile \in {NoFile} \cup 0..MaxTime
  /\ sfile \in [note : {-1, 0, 1, Blank}, mtime : {NoFile} \cup 0..MaxTime]
  /\ pc \in [Runs -> {"idle", "query", "tread", "topen", "twrite", "pid", "mtime",
                      "step", "sleep", "delete", "exec", "done"}]
  /\ op \in [Dims -> DimOp]
  /\ updown \in [Runs -> {-1, 0, 1}]
  /\ new \in [Dims -> 0..Top]
  /\ mtime \in [Dims -> {NoFile} \cup 0..MaxTime]
  /\ until \in [Dims -> 0..MaxTime]

Init ==
  /\ now = 0 /\ setAt = 0
  /\ level \in 0..Top /\ value = level
  /\ pidfile = NoFile /\ sfile = NoNote
  /\ pc = [r \in Runs |-> "idle"]
  /\ op \in [Dims -> DimOps]
  /\ updown = [r \in Runs |-> 0]
  /\ new = [r \in Dims |-> 0] /\ mtime = [r \in Dims |-> NoFile]
  /\ until = [r \in Dims |-> 0]

Active(r) == pc[r] \notin {"idle", "done"}
MayStart(r) == pc[r] = "idle" /\ (Serial => \A q \in Runs : ~Active(q))
Goto(r, place) == pc' = [pc EXCEPT ![r] = place]

\* dom.GetObject(address).State(x)
Send(x) == level' = x /\ setAt' = now /\ UNCHANGED value

-----------------------------------------------------------------------------
(* dim.tcl                                                                  *)

\* A level difference of 0, or none, is STOP: the file is deleted.
DimStop(r) ==
  /\ MayStart(r) /\ op[r].diff = 0 /\ Goto(r, "done")
  /\ pidfile' = NoFile
  /\ UNCHANGED <<now, device, sfile, locals>>

DimBegin(r) ==
  /\ MayStart(r) /\ op[r].diff # 0 /\ Goto(r, "query")
  /\ UNCHANGED <<now, device, files, locals>>

\* var ret = dom.GetObject(address).Value(), which the ReGa may not answer.
DimQuery(r) ==
  /\ pc[r] = "query"
  /\ \/ Goto(r, IF op[r].toggle THEN "tread" ELSE "pid")
        /\ new' = [new EXCEPT ![r] = value]
     \/ Goto(r, "done") /\ UNCHANGED new
  /\ UNCHANGED <<now, device, files, op, updown, mtime, until>>

\* The direction: down after up unless the device is off, otherwise up.
DimDirection(r) ==
  /\ pc[r] = "tread" /\ Goto(r, "topen")
  /\ LET up == IF sfile.mtime # NoFile
                 THEN ~(sfile.note = 1 /\ new[r] > 0)
                 ELSE new[r] = 0
     IN updown' = [updown EXCEPT ![r] = IF up THEN 1 ELSE -1]
  /\ UNCHANGED <<now, device, files, op, new, mtime, until>>

\* set fp [open $state_file w] ...
StateOpen(r) ==
  /\ pc[r] = "topen" /\ Goto(r, "twrite")
  /\ sfile' = [note |-> Blank, mtime |-> now]
  /\ UNCHANGED <<now, device, pidfile, locals>>

\* ... puts -nonewline $fp $updown; close $fp
StateWrite(r) ==
  /\ pc[r] = "twrite" /\ Goto(r, IF r \in Dims THEN "pid" ELSE "done")
  /\ sfile' = [note |-> updown[r], mtime |-> now]
  /\ UNCHANGED <<now, device, pidfile, locals>>

\* The pid file is written, ...
DimWritePid(r) ==
  /\ pc[r] = "pid" /\ Goto(r, "mtime")
  /\ pidfile' = now
  /\ UNCHANGED <<now, device, sfile, locals>>

\* ... and its time read back; Tcl ends the script if the file has gone.
DimReadMtime(r) ==
  /\ pc[r] = "mtime"
  /\ Goto(r, IF pidfile = NoFile THEN "done" ELSE "step")
  /\ mtime' = [mtime EXCEPT ![r] = pidfile]
  /\ UNCHANGED <<now, device, files, op, updown, new, until>>

\* $leveldiff, with the sign -toggle gives it.
Diff(r) ==
  LET d == op[r].diff IN
  IF ~op[r].toggle THEN d
  ELSE IF (updown[r] > 0) = (d > 0) THEN d ELSE -d

\* Faulty variant: the upper end is met only when it is hit exactly.
ClipLow(x) == IF x <= 0 THEN 0 ELSE x

\* Faulty variant: a level past an end is set just before that end.
ClipShort(x) == IF x > Top THEN Top - 1 ELSE IF x < 0 THEN 1 ELSE x

Clip(x) == IF x >= Top THEN Top ELSE IF x <= 0 THEN 0 ELSE x

Later(delay) == IF delay = "s" /\ now < MaxTime THEN now + 1 ELSE now

\* One round of the loop up to its pause.
DimStep(r) ==
  LET x == Clip(new[r] + Diff(r)) IN
  /\ pc[r] = "step"
  /\ new' = [new EXCEPT ![r] = x] /\ Send(x)
  /\ IF x \in {0, Top} \/ op[r].delay = "none"
       THEN Goto(r, "delete") /\ UNCHANGED until
       ELSE Goto(r, "sleep") /\ until' = [until EXCEPT ![r] = Later(op[r].delay)]
  /\ UNCHANGED <<now, files, op, updown, mtime>>

\* Faulty variant: only the absence of the file ends a ramp.
DimWakeIfFile(r) ==
  /\ pc[r] = "sleep" /\ until[r] <= now
  /\ Goto(r, IF pidfile = NoFile THEN "done" ELSE "step")
  /\ UNCHANGED <<now, device, files, locals>>

\* After the pause: go on only if the file is there and as old as it was.
DimWake(r) ==
  /\ pc[r] = "sleep" /\ until[r] <= now
  /\ Goto(r, IF pidfile = NoFile \/ pidfile # mtime[r] THEN "done" ELSE "step")
  /\ UNCHANGED <<now, device, files, locals>>

\* file delete $pidfilename
DimDelete(r) ==
  /\ pc[r] = "delete" /\ Goto(r, "done")
  /\ pidfile' = NoFile
  /\ UNCHANGED <<now, device, sfile, locals>>

Dim(r) ==
  \/ DimQuery(r) \/ DimDirection(r) \/ StateOpen(r) \/ StateWrite(r)
  \/ DimWritePid(r) \/ DimReadMtime(r) \/ DimStep(r) \/ DimWake(r) \/ DimDelete(r)

-----------------------------------------------------------------------------
(* toggle.tcl                                                               *)

\* Faulty variant: the note is never trusted.
NeverFresh == FALSE

Fresh == sfile.mtime # NoFile /\ now - sfile.mtime < CacheSecs

\* A fresh note decides, any number but 0 standing for on; an empty one is no
\* truth value and ends the script.  Without one, Value() will decide (-1).
ToggleBegin(t) ==
  /\ MayStart(t)
  /\ Goto(t, IF Fresh /\ sfile.note = Blank THEN "done" ELSE "exec")
  /\ updown' = [updown EXCEPT ![t] =
       IF ~Fresh THEN -1 ELSE IF sfile.note \in {0, Blank} THEN 0 ELSE 1]
  /\ UNCHANGED <<now, device, files, op, new, mtime, until>>

\* The ReGa runs the script, if it answers at all; ret is kept in updown.
ToggleExec(t) ==
  LET on == IF updown[t] = -1 THEN value # 0 ELSE updown[t] = 1 IN
  /\ pc[t] = "exec"
  /\ \/ /\ Send(IF on THEN 0 ELSE Top)
        /\ updown' = [updown EXCEPT ![t] = IF on THEN 0 ELSE 1]
        /\ Goto(t, "topen")
     \/ Goto(t, "done") /\ UNCHANGED <<updown, device>>
  /\ UNCHANGED <<now, files, op, new, mtime, until>>

Toggle(t) == ToggleExec(t) \/ StateOpen(t) \/ StateWrite(t)

-----------------------------------------------------------------------------
(* The device and the clock.                                                *)

\* The CCU hears of the level.
Report ==
  /\ value # level /\ value' = level
  /\ UNCHANGED <<now, level, setAt, files, pc, locals>>

Tick ==
  /\ now < MaxTime /\ now' = now + 1
  /\ value # level => now - setAt < MaxLag
  /\ UNCHANGED <<device, files, pc, locals>>

Next ==
  \/ \E r \in Dims : DimStop(r) \/ DimBegin(r) \/ Dim(r)
  \/ \E t \in Toggles : ToggleBegin(t) \/ Toggle(t)
  \/ Report \/ Tick

\* A started script runs, time passes and the device answers; nobody has to
\* press a key.
Fairness ==
  /\ \A r \in Dims : WF_vars(Dim(r))
  /\ \A t \in Toggles : WF_vars(Toggle(t))
  /\ WF_vars(Tick) /\ WF_vars(Report)

Spec == Init /\ [][Next]_vars /\ Fairness

-----------------------------------------------------------------------------
(* Properties.                                                              *)

\* A ramp always ends, whatever size its steps have: the clipping makes the
\* test for the two end levels hit.
RampsEnd == \A r \in Dims : Active(r) ~> pc[r] = "done"

\* A ramp that a dim.tcl of a later second has taken over sends no further level
\* after its pause, even when that one has finished or been stopped meanwhile and
\* the file has come and gone.
TakenOverEnds ==
  [][\A r, q \in Dims :
       pc[r] = "sleep" /\ pc'[r] = "step" => mtime[q] <= mtime[r]]_vars

\* Switching on and off alternates, also when keys are pressed faster than the
\* CCU hears of the new level: this is what the note is kept for.
ToggleAlternates ==
  [][\A t \in Toggles : pc[t] = "exec" /\ pc'[t] = "topen" =>
       (level' = 0 <=> level # 0)]_vars

=============================================================================
