--------------------------- MODULE DimToggleProofs ---------------------------
(***************************************************************************)
(* For any number of scripts, any levels and times: a ramp that was taken  *)
(* over in a later second sends no more, and toggling alternates as long   *)
(* as the CCU hears of a level before toggle.tcl gives up its note.        *)
(***************************************************************************)
EXTENDS DimToggle, TLAPS

LEMMA Constants ==
  /\ Top \in Nat \ {0} /\ CacheSecs \in Nat /\ MaxLag \in Nat /\ MaxTime \in Nat
  /\ DimOps \subseteq DimOp /\ Dims \cap Toggles = {}
  BY DimAssumption

-----------------------------------------------------------------------------
(* Types.                                                                   *)

LEMMA DimTypes == ASSUME TypeOK, NEW r \in Dims, Dim(r) PROVE TypeOK'
<1> USE Constants DEF TypeOK, Goto, device, files, locals, Runs, NoFile, Blank
<1>1. CASE DimQuery(r)
  BY <1>1 DEF DimQuery
<1>2. CASE DimDirection(r)
  BY <1>2 DEF DimDirection
<1>3. CASE StateOpen(r) \/ StateWrite(r)
  BY <1>3 DEF StateOpen, StateWrite
<1>4. CASE DimWritePid(r) \/ DimReadMtime(r)
  BY <1>4 DEF DimWritePid, DimReadMtime
<1>5. CASE DimStep(r)
  <2>1. Diff(r) \in Int
    BY DEF Diff, DimOp
  <2>2. Clip(new[r] + Diff(r)) \in 0..Top
    BY <2>1 DEF Clip
  <2>3. Later(op[r].delay) \in 0..MaxTime
    BY DEF Later
  <2> QED
    BY <1>5, <2>2, <2>3 DEF DimStep, Send
<1>6. CASE DimWake(r) \/ DimDelete(r)
  BY <1>6 DEF DimWake, DimDelete
<1> QED
  BY <1>1, <1>2, <1>3, <1>4, <1>5, <1>6 DEF Dim

LEMMA ToggleTypes ==
  ASSUME TypeOK, NEW t \in Toggles, ToggleBegin(t) \/ Toggle(t)
  PROVE  TypeOK'
<1> USE Constants DEF TypeOK, Goto, device, files, locals, Runs, NoFile, Blank
<1>1. CASE ToggleBegin(t)
  BY <1>1 DEF ToggleBegin
<1>2. CASE ToggleExec(t)
  BY <1>2 DEF ToggleExec, Send
<1>3. CASE StateOpen(t) \/ StateWrite(t)
  BY <1>3 DEF StateOpen, StateWrite
<1> QED
  BY <1>1, <1>2, <1>3 DEF Toggle

LEMMA TypesKept == TypeOK /\ [Next]_vars => TypeOK'
<1> SUFFICES ASSUME TypeOK, [Next]_vars PROVE TypeOK'
  OBVIOUS
<1>1. ASSUME NEW r \in Dims, DimStop(r) \/ DimBegin(r) PROVE TypeOK'
  BY <1>1 DEF DimStop, DimBegin, TypeOK, Goto, device, files, locals, Runs, NoFile
<1>2. ASSUME NEW r \in Dims, Dim(r) PROVE TypeOK'
  BY <1>2, DimTypes
<1>3. ASSUME NEW t \in Toggles, ToggleBegin(t) \/ Toggle(t) PROVE TypeOK'
  BY <1>3, ToggleTypes
<1>4. CASE Report \/ Tick
  BY <1>4, Constants DEF Report, Tick, TypeOK, device, files, locals
<1>5. CASE UNCHANGED vars
  BY <1>5 DEF vars, TypeOK, device, files, locals
<1> QED
  BY <1>1, <1>2, <1>3, <1>4, <1>5 DEF Next

\* Every variable keeps its type; in particular a level stays between the two ends,
\* whatever steps are asked for.
THEOREM TypeCorrect == Spec => []TypeOK
<1>1. Init => TypeOK
  BY Constants DEF Init, TypeOK, NoNote, NoFile, Blank
<1> QED
  BY <1>1, TypesKept, PTL DEF Spec

-----------------------------------------------------------------------------
(* Taking over.                                                             *)

\* No ramp knows of a time that the file, while it is there, has not reached.
TimesInv ==
  /\ pidfile <= now
  /\ \A q \in Dims : mtime[q] <= now /\ (pidfile # NoFile => mtime[q] <= pidfile)

LEMMA TimesInit == Init => TimesInv
  BY DEF Init, TimesInv, NoFile

\* What a step may do to the file and to the times known of it.
LEMMA FileSteps ==
  ASSUME TypeOK, [Next]_vars
  PROVE  \/ UNCHANGED <<pidfile, mtime>> /\ now' \in {now, now + 1}
         \/ pidfile' \in {NoFile, now} /\ UNCHANGED <<mtime, now>>
         \/ \E r \in Dims : mtime' = [mtime EXCEPT ![r] = pidfile] /\ UNCHANGED <<pidfile, now>>
<1> USE DEF device, files, locals
<1>1. ASSUME NEW r \in Dims, DimStop(r) \/ DimBegin(r)
      PROVE  pidfile' \in {pidfile, NoFile} /\ UNCHANGED <<mtime, now>>
  BY <1>1 DEF DimStop, DimBegin
<1>2. ASSUME NEW r \in Dims, Dim(r)
      PROVE  \/ pidfile' \in {pidfile, NoFile, now} /\ UNCHANGED <<mtime, now>>
             \/ mtime' = [mtime EXCEPT ![r] = pidfile] /\ UNCHANGED <<pidfile, now>>
  BY <1>2 DEF Dim, DimQuery, DimDirection, StateOpen, StateWrite, DimWritePid, DimReadMtime,
              DimStep, DimWake, DimDelete
<1>3. ASSUME NEW t \in Toggles, ToggleBegin(t) \/ Toggle(t)
      PROVE  UNCHANGED <<pidfile, mtime, now>>
  BY <1>3 DEF ToggleBegin, Toggle, ToggleExec, StateOpen, StateWrite
<1>4. CASE Report \/ Tick
  BY <1>4 DEF Report, Tick
<1>5. CASE UNCHANGED vars
  BY <1>5 DEF vars
<1> QED
  BY <1>1, <1>2, <1>3, <1>4, <1>5 DEF Next

LEMMA TimesKept == ASSUME TypeOK, TimesInv, [Next]_vars PROVE TimesInv'
<1>0. now \in Nat /\ pidfile \in Nat \cup {-1} /\ mtime \in [Dims -> Nat \cup {-1}]
  BY Constants DEF TypeOK, NoFile
<1>1. CASE UNCHANGED <<pidfile, mtime>> /\ now' \in {now, now + 1}
  BY <1>0, <1>1 DEF TimesInv
<1>2. CASE pidfile' \in {NoFile, now} /\ UNCHANGED <<mtime, now>>
  BY <1>0, <1>2 DEF TimesInv, NoFile
<1>3. ASSUME NEW r \in Dims, mtime' = [mtime EXCEPT ![r] = pidfile], UNCHANGED <<pidfile, now>>
      PROVE  TimesInv'
  BY <1>0, <1>3 DEF TimesInv, NoFile
<1> QED
  BY <1>1, <1>2, <1>3, FileSteps

\* A ramp goes on only if the file has the time it knows.
LEMMA WakesUnchanged ==
  ASSUME TypeOK, [Next]_vars, NEW r \in Dims, pc[r] = "sleep", pc'[r] = "step"
  PROVE  pidfile # NoFile /\ pidfile = mtime[r]
<1> USE DEF TypeOK, Goto, Runs
<1>1. ASSUME NEW q \in Dims, DimStop(q) \/ DimBegin(q) PROVE FALSE
  BY <1>1 DEF DimStop, DimBegin, MayStart
<1>2. ASSUME NEW q \in Dims, Dim(q) PROVE DimWake(q) /\ q = r
  BY <1>2 DEF Dim, DimQuery, DimDirection, StateOpen, StateWrite, DimWritePid, DimReadMtime,
              DimStep, DimWake, DimDelete
<1>3. ASSUME NEW t \in Toggles, ToggleBegin(t) \/ Toggle(t) PROVE FALSE
  BY <1>3, Constants DEF ToggleBegin, Toggle, ToggleExec, StateOpen, StateWrite
<1>4. ASSUME Report \/ Tick \/ UNCHANGED vars PROVE FALSE
  BY <1>4 DEF Report, Tick, vars
<1>5. DimWake(r)
  BY <1>1, <1>2, <1>3, <1>4 DEF Next
<1> QED
  BY <1>5 DEF DimWake

\* A ramp that another one has taken over in a later second sends no further level after
\* its pause: a time that any ramp has read is never newer than that of a file, so that
\* the file cannot come back with the time the first one knows.
THEOREM TakenOverSendsNoMore == Spec => TakenOverEnds
<1>1. ASSUME TypeOK, TimesInv, [Next]_vars
      PROVE  \A r, q \in Dims : pc[r] = "sleep" /\ pc'[r] = "step" => mtime[q] <= mtime[r]
  BY <1>1, WakesUnchanged DEF TimesInv
<1>2. Init => TypeOK
  BY Constants DEF Init, TypeOK, NoNote, NoFile, Blank
<1> QED
  BY <1>1, <1>2, TimesInit, TimesKept, TypesKept, PTL DEF Spec, TakenOverEnds

-----------------------------------------------------------------------------
(* Toggling, one script after the other, on a device that nothing else      *)
(* changes, where the CCU hears of a level before the note is given up.     *)

LagAssumption == Serial /\ Dims = {} /\ MaxLag < CacheSecs

Writing(t) == pc[t] \in {"topen", "twrite"}

\* While no script is writing it, the note says how the device was left.
NoteTrue ==
  (\A t \in Toggles : ~Writing(t)) =>
    IF sfile.mtime = NoFile THEN value = level
    ELSE /\ sfile.note \in {0, 1} /\ (sfile.note = 0 <=> level = 0)
         /\ setAt <= sfile.mtime

\* What a script takes the device for is what it is.
Believed(t) ==
  /\ pc[t] \in {"idle", "done", "exec", "topen", "twrite"}
  /\ pc[t] = "exec" => IF updown[t] = -1 THEN value = level ELSE updown[t] = 0 <=> level = 0
  /\ Writing(t) => updown[t] \in {0, 1} /\ (updown[t] = 0 <=> level = 0)

ToggleInv ==
  /\ \A p, q \in Toggles : Active(p) /\ Active(q) => p = q
  /\ setAt <= now /\ (value # level => now - setAt <= MaxLag)
  /\ NoteTrue
  /\ \A t \in Toggles : Believed(t)

LEMMA ToggleInit == Init => ToggleInv
  BY Constants DEF Init, ToggleInv, Active, NoteTrue, NoNote, Believed, Writing, Runs, NoFile

LEMMA BeginKept ==
  ASSUME LagAssumption, TypeOK, ToggleInv, NEW t \in Toggles, ToggleBegin(t)
  PROVE  ToggleInv'
<1> USE Constants DEF TypeOK, Runs, Goto, LagAssumption
<1>1. \A p \in Toggles : ~Active(p)
  BY DEF ToggleBegin, MayStart
<1>2. /\ sfile.mtime = NoFile => value = level
      /\ sfile.mtime # NoFile =>
           sfile.note \in {0, 1} /\ (sfile.note = 0 <=> level = 0) /\ setAt <= sfile.mtime
  BY <1>1 DEF ToggleInv, NoteTrue, Writing, Active
<1>3. ~Fresh => value = level
  <2>1. CASE sfile.mtime = NoFile
    BY <1>2, <2>1
  <2>2. CASE sfile.mtime # NoFile
    BY <1>2, <2>2 DEF Fresh, ToggleInv, NoFile
  <2> QED
    BY <2>1, <2>2
<1>4. Fresh => sfile.note \in {0, 1} /\ (sfile.note = 0 <=> level = 0)
  BY <1>2 DEF Fresh
<1>5. /\ pc' = [pc EXCEPT ![t] = "exec"]
      /\ updown' = [updown EXCEPT ![t] = IF ~Fresh THEN -1 ELSE IF sfile.note = 0 THEN 0 ELSE 1]
      /\ UNCHANGED <<now, device, files>>
  <2>1. CASE Fresh
    <3>1. sfile.note # Blank /\ (sfile.note \in {0, Blank} <=> sfile.note = 0)
      BY <1>4, <2>1 DEF Blank
    <3> QED
      BY <2>1, <3>1 DEF ToggleBegin
  <2>2. CASE ~Fresh
    BY <2>2 DEF ToggleBegin
  <2> QED
    BY <2>1, <2>2
<1>6. \A p, q \in Toggles : (Active(p) /\ Active(q))' => p = q
  BY <1>1, <1>5 DEF Active
<1>7. NoteTrue'
  BY <1>1, <1>2, <1>5 DEF NoteTrue, Writing, Active, device, files
<1>8. ASSUME NEW p \in Toggles PROVE Believed(p)'
  BY <1>3, <1>4, <1>5 DEF Believed, ToggleInv, Writing, device, files
<1> QED
  BY <1>5, <1>6, <1>7, <1>8 DEF ToggleInv, device, files

LEMMA ToggleKept ==
  ASSUME LagAssumption, TypeOK, ToggleInv, NEW t \in Toggles, Toggle(t)
  PROVE  ToggleInv'
<1> USE Constants DEF TypeOK, Runs, Goto, LagAssumption, device, files
<1>1. Active(t) /\ \A p \in Toggles : p # t => ~Active(p)
  BY DEF Toggle, ToggleExec, StateOpen, StateWrite, Active, ToggleInv
<1>2. ASSUME NEW p \in Toggles, p # t, pc'[p] = pc[p], updown'[p] = updown[p]
      PROVE  Believed(p)' /\ ~Active(p)' /\ ~Writing(p)'
  BY <1>1, <1>2 DEF ToggleInv, Believed, Active, Writing
<1>3. CASE ToggleExec(t)
  <2>1. CASE pc' = [pc EXCEPT ![t] = "topen"]
    <3>1. Believed(t)
      BY DEF ToggleInv
    <3>2. /\ updown' = [updown EXCEPT ![t] = IF level = 0 THEN 1 ELSE 0]
          /\ level' = (IF level = 0 THEN Top ELSE 0) /\ setAt' = now
          /\ UNCHANGED <<now, sfile>>
      BY <1>3, <2>1, <3>1 DEF ToggleExec, Believed, Send
    <3>3. Believed(t)' /\ Writing(t)'
      BY <2>1, <3>2 DEF Believed, Writing
    <3> QED
      BY <1>2, <2>1, <3>2, <3>3 DEF ToggleInv, NoteTrue
  <2>2. CASE pc' = [pc EXCEPT ![t] = "done"] /\ UNCHANGED <<updown, device>>
    <3>1. \A p \in Toggles : ~Writing(p)
      BY <1>1, <1>3 DEF ToggleExec, Writing, Active
    <3>2. NoteTrue'
      BY <1>3, <3>1 , <2>2 DEF ToggleInv, NoteTrue, ToggleExec
    <3>3. Believed(t)' /\ ~Active(t)'
      BY <2>2 DEF Believed, Writing, Active
    <3> QED
      BY <1>2, <1>3, <2>2, <3>2, <3>3 DEF ToggleInv, ToggleExec
  <2> QED
    BY <1>3, <2>1, <2>2 DEF ToggleExec
<1>4. CASE StateOpen(t)
  <2>1. Believed(t)' /\ Writing(t)'
    BY <1>4 DEF StateOpen, ToggleInv, Believed, Writing, locals
  <2> QED
    BY <1>2, <1>4, <2>1 DEF StateOpen, ToggleInv, NoteTrue, locals
<1>5. CASE StateWrite(t)
  <2>1. pc' = [pc EXCEPT ![t] = "done"]
    BY <1>5 DEF StateWrite
  <2>2. Believed(t)' /\ ~Active(t)'
    BY <2>1 DEF Believed, Active, Writing
  <2>3. NoteTrue'
    BY <1>5 DEF StateWrite, ToggleInv, NoteTrue, Believed, Writing, NoFile
  <2> QED
    BY <1>2, <1>5, <2>1, <2>2, <2>3 DEF StateWrite, ToggleInv, locals
<1> QED
  BY <1>3, <1>4, <1>5 DEF Toggle

LEMMA AlternatesKept ==
  ASSUME LagAssumption, TypeOK, ToggleInv, [Next]_vars
  PROVE  ToggleInv'
<1>1. CASE Report
  BY <1>1, Constants DEF Report, TypeOK, ToggleInv, NoteTrue, Believed, Writing, Active, files, locals
<1>2. CASE Tick
  BY <1>2, Constants DEF Tick, TypeOK, ToggleInv, NoteTrue, Believed, Writing, Active, device, files,
                         locals
<1>3. CASE UNCHANGED vars
  BY <1>3 DEF vars, ToggleInv, NoteTrue, Believed, Writing, Active, device, files, locals
<1> QED
  BY <1>1, <1>2, <1>3, BeginKept, ToggleKept DEF Next, LagAssumption

\* The level is switched by nothing but the answer of the ReGa to a script.
LEMMA SwitchesAlternate ==
  ASSUME LagAssumption, TypeOK, ToggleInv, [Next]_vars,
         NEW t \in Toggles, pc[t] = "exec", pc'[t] = "topen"
  PROVE  level' = 0 <=> level # 0
<1> USE Constants DEF TypeOK, Goto, Runs
<1>1. ASSUME NEW p \in Toggles, ToggleBegin(p) PROVE FALSE
  BY <1>1 DEF ToggleBegin, MayStart
<1>2. ASSUME NEW p \in Toggles, Toggle(p) PROVE p = t /\ ToggleExec(t)
  BY <1>2 DEF Toggle, ToggleExec, StateOpen, StateWrite
<1>3. ASSUME Report \/ Tick \/ UNCHANGED vars PROVE FALSE
  BY <1>3 DEF Report, Tick, vars
<1>4. ToggleExec(t) /\ Believed(t)
  BY <1>1, <1>2, <1>3 DEF Next, ToggleInv, LagAssumption
<1> QED
  BY <1>4 DEF ToggleExec, Believed, Send

\* Switching on and off alternates, however fast the keys are pressed and however far
\* the CCU lags behind: provided it does not lag longer than the note is trusted, the
\* scripts run one after the other and no dim.tcl changes the device.
THEOREM TogglingAlternates == LagAssumption => (Spec => ToggleAlternates)
<1> SUFFICES ASSUME LagAssumption PROVE Spec => ToggleAlternates
  OBVIOUS
<1>1. Init => TypeOK
  BY Constants DEF Init, TypeOK, NoNote, NoFile, Blank
<1>2. TypeOK /\ ToggleInv /\ [Next]_vars => ToggleInv'
  BY AlternatesKept
<1>3. TypeOK /\ ToggleInv /\ [Next]_vars =>
        \A t \in Toggles : pc[t] = "exec" /\ pc'[t] = "topen" => (level' = 0 <=> level # 0)
  BY SwitchesAlternate
<1> QED
  BY <1>1, <1>2, <1>3, ToggleInit, TypesKept, PTL DEF Spec, ToggleAlternates
=============================================================================
