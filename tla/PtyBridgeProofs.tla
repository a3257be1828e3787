--------------------------- MODULE PtyBridgeProofs ---------------------------
(***************************************************************************)
(* What the bridge's processes keep up for any number of start and stop    *)
(* commands running at once and any number of socat pids: its state is     *)
(* well-typed, every socat has a loop that will wait for it, and no        *)
(* watcher outlives its socat's loop.                                      *)
(*                                                                         *)
(* Neither the first nor the last is inductive.  LoopHasPid adds that a    *)
(* loop which has started a socat holds its pid, WatchOwned that a watcher *)
(* belongs to a loop which has started it and not yet ended it, ForksLast  *)
(* that a start leaves its loop behind as the last thing it does.          *)
(***************************************************************************)
EXTENDS PtyBridge, TLAPS

USE DEF Cmds

LoopHasPid ==
  \A c \in Starts :
    lpc[c] \in {"trunc", "write", "watch", "wait", "endwatch"} => lsock[c] \in Socats

WatchOwned ==
  \A p \in Socats : cpc[p] # "none" =>
    \E s \in Starts : lsock[s] = p /\ lpc[s] \in {"wait", "endwatch"}

ForksLast == \A c \in Starts : mpc[c] # "done" => lpc[c] = "none"

-----------------------------------------------------------------------------
(* Types.                                                                   *)

LEMMA LoopHasPidNext == TypeOK /\ LoopHasPid /\ [Next]_vars => LoopHasPid'
<1> SUFFICES ASSUME TypeOK, LoopHasPid, [Next]_vars, NEW d \in Starts,
                    lpc'[d] \in {"trunc", "write", "watch", "wait", "endwatch"}
             PROVE  lsock'[d] \in Socats
  BY DEF LoopHasPid
<1> USE DEF TypeOK, LoopHasPid
<1>1. ASSUME NEW c \in Cmds, Begin(c) \/ Command(c) PROVE lsock'[d] \in Socats
  BY <1>1 DEF Begin, Command, Look, Cat, Probe, Clean, Case, KillPid, StartOpen, StartWrite,
              Fork, Goto, loopVars
<1>2. ASSUME NEW c \in Starts, Loop(c) PROVE lsock'[d] \in Socats
  BY <1>2 DEF Loop, LoopTest, LoopSpawn, LoopOpen, LoopWrite, LoopWatch, LoopWait,
              LoopEndWatch, LoopTo
<1>3. ASSUME NEW p \in Socats, Watch(p) \/ SocatLink(p) \/ SocatExit(p)
      PROVE  lsock'[d] \in Socats
  BY <1>3 DEF Watch, WatchTest, WatchCat, WatchDev, WatchDev2, WatchKill, WatchTo,
              SocatLink, SocatExit, loopVars
<1>4. CASE LinkLost
  BY <1>4 DEF LinkLost, loopVars
<1>5. CASE UNCHANGED vars
  BY <1>5 DEF vars, loopVars
<1> QED
  BY <1>1, <1>2, <1>3, <1>4, <1>5 DEF Next

LEMMA TypeInit == Init => TypeOK /\ LoopHasPid
  BY PidAssumption DEF Init, LoopHasPid, TypeOK, CmdPcs, LoopPcs, WatchPcs, KillPcs

LEMMA TypeNext == TypeOK /\ LoopHasPid /\ [Next]_vars => TypeOK'
<1> SUFFICES ASSUME TypeOK, LoopHasPid, [Next]_vars PROVE TypeOK'
  OBVIOUS
<1> USE PidAssumption DEF TypeOK, CmdPcs, LoopPcs, WatchPcs, KillPcs
<1>1. ASSUME NEW c \in Cmds, Begin(c) \/ Command(c) PROVE TypeOK'
  <2>1. CASE Begin(c)
    BY <2>1 DEF Begin, Goto, loopVars
  <2>2. CASE Look(c)
    BY <2>2 DEF Look, Goto, loopVars
  <2>3. CASE Cat(c)
    BY <2>3 DEF Cat, Goto, loopVars
  <2>4. CASE Probe(c)
    BY <2>4 DEF Probe, Goto, loopVars
  <2>5. CASE Clean(c)
    BY <2>5 DEF Clean, Goto, RmFile, loopVars
  <2>6. CASE Case(c)
    BY <2>6 DEF Case, Goto, RmFile, SameFile, loopVars
  <2>7. CASE KillPid(c)
    <3>1. KillNext(mpid[c], mpc[c], IF c \in Starts THEN "trunc" ELSE "done") \in CmdPcs
      BY <2>7 DEF KillPid, KillNext
    <3>2. mpc' \in [Cmds -> CmdPcs]
      BY <2>7, <3>1 DEF KillPid
    <3>3. socat' \in [Socats -> {"dead", "starting", "up"}] /\ link' \in Socats \cup {NoPid}
      BY <2>7 DEF KillPid, SocatEnds
    <3> QED
      BY <2>7, <3>2, <3>3 DEF KillPid, loopVars
  <2>8. CASE c \in Starts /\ StartOpen(c)
    BY <2>8 DEF StartOpen, Goto, OpenFile, loopVars
  <2>9. CASE c \in Starts /\ StartWrite(c)
    BY <2>9 DEF StartWrite, Goto, WriteFile, loopVars
  <2>10. CASE c \in Starts /\ Fork(c)
    BY <2>10 DEF Fork, Goto
  <2> QED
    BY <1>1, <2>1, <2>2, <2>3, <2>4, <2>5, <2>6, <2>7, <2>8, <2>9, <2>10 DEF Command
<1>2. ASSUME NEW c \in Starts, Loop(c) PROVE TypeOK'
  <2>1. CASE LoopTest(c)
    BY <2>1 DEF LoopTest, LoopTo, cmdVars
  <2>2. CASE LoopSpawn(c)
    BY <2>2 DEF LoopSpawn, LoopTo, cmdVars
  <2>3. CASE LoopOpen(c)
    BY <2>3 DEF LoopOpen, LoopTo, OpenFile, cmdVars
  <2>4. CASE LoopWrite(c)
    BY <2>4 DEF LoopHasPid, LoopWrite, LoopTo, WriteFile, cmdVars
  <2>5. CASE LoopWatch(c)
    BY <2>5 DEF LoopWatch, LoopTo, cmdVars
  <2>6. CASE LoopWait(c)
    BY <2>6 DEF LoopWait, LoopTo, cmdVars
  <2>7. CASE LoopEndWatch(c)
    BY <2>7 DEF LoopEndWatch, LoopTo, cmdVars
  <2> QED
    BY <1>2, <2>1, <2>2, <2>3, <2>4, <2>5, <2>6, <2>7 DEF Loop
<1>3. ASSUME NEW p \in Socats, Watch(p) \/ SocatLink(p) \/ SocatExit(p) PROVE TypeOK'
  <2>1. CASE WatchTest(p) \/ WatchCat(p) \/ WatchDev(p) \/ WatchDev2(p)
    BY <2>1 DEF WatchTest, WatchCat, WatchDev, WatchDev2, WatchTo, cmdVars, loopVars
  <2>2. CASE WatchKill(p)
    <3>1. KillNext(p, cpc[p], "test") \in WatchPcs
      BY <2>2 DEF WatchKill, KillNext
    <3> QED
      BY <2>2, <3>1 DEF WatchKill, WatchTo, SocatEnds, cmdVars, loopVars
  <2>3. CASE SocatLink(p)
    BY <2>3 DEF SocatLink, cmdVars, loopVars
  <2>4. CASE SocatExit(p)
    BY <2>4 DEF SocatExit, SocatEnds, cmdVars, loopVars
  <2> QED
    BY <1>3, <2>1, <2>2, <2>3, <2>4 DEF Watch
<1>4. ASSUME LinkLost PROVE TypeOK'
  BY <1>4 DEF LinkLost, cmdVars, loopVars
<1>5. ASSUME UNCHANGED vars PROVE TypeOK'
  BY <1>5 DEF vars, cmdVars, loopVars
<1> QED
  BY <1>1, <1>2, <1>3, <1>4, <1>5 DEF Next

\* Whatever the scheduling of commands, loops, watchers and socats, the pid file,
\* the variables and the places in the script stay in their ranges.
THEOREM TypeCorrect == Spec => []TypeOK
<1>1. TypeOK /\ LoopHasPid /\ [Next]_vars => (TypeOK /\ LoopHasPid)'
  BY TypeNext, LoopHasPidNext
<1> QED
  BY TypeInit, <1>1, PTL DEF Spec

LEMMA LoopHasPidAlways == Spec => []LoopHasPid
<1>1. TypeOK /\ LoopHasPid /\ [Next]_vars => (TypeOK /\ LoopHasPid)'
  BY TypeNext, LoopHasPidNext
<1> QED
  BY TypeInit, <1>1, PTL DEF Spec

LEMMA ForksLastNext == TypeOK /\ ForksLast /\ [Next]_vars => ForksLast'
<1> SUFFICES ASSUME TypeOK, ForksLast, [Next]_vars, NEW d \in Starts, mpc'[d] # "done"
             PROVE  lpc'[d] = "none"
  BY DEF ForksLast
<1> USE DEF TypeOK, ForksLast
<1>1. ASSUME NEW c \in Cmds, Begin(c) \/ Command(c) PROVE lpc'[d] = "none"
  <2>1. CASE Fork(c)
    BY <2>1 DEF Fork, Goto
  <2>2. CASE ~Fork(c)
    <3>1. UNCHANGED lpc
      BY <1>1, <2>2 DEF Begin, Command, Look, Cat, Probe, Clean, Case, KillPid, StartOpen,
                        StartWrite, loopVars
    <3>2. mpc[d] # "done"
      BY <1>1, <2>2 DEF Begin, Command, Look, Cat, Probe, Clean, Case, KillPid, KillPcs,
                        StartOpen, StartWrite, Goto
    <3> QED
      BY <3>1, <3>2
  <2> QED
    BY <2>1, <2>2
<1>2. ASSUME NEW c \in Starts, Loop(c) PROVE lpc'[d] = "none"
  BY <1>2 DEF Loop, LoopTest, LoopSpawn, LoopOpen, LoopWrite, LoopWatch, LoopWait,
              LoopEndWatch, LoopTo, cmdVars
<1>3. ASSUME NEW p \in Socats, Watch(p) \/ SocatLink(p) \/ SocatExit(p)
      PROVE  lpc'[d] = "none"
  BY <1>3 DEF Watch, WatchTest, WatchCat, WatchDev, WatchDev2, WatchKill, SocatLink,
              SocatExit, loopVars, cmdVars
<1>4. CASE LinkLost \/ UNCHANGED vars
  BY <1>4 DEF LinkLost, vars, loopVars, cmdVars
<1> QED
  BY <1>1, <1>2, <1>3, <1>4 DEF Next

LEMMA ForksLastAlways == Spec => []ForksLast
<1>1. Init => ForksLast
  BY DEF Init, ForksLast
<1> QED
  BY <1>1, TypeCorrect, ForksLastNext, PTL DEF Spec

-----------------------------------------------------------------------------
(* Watchers.                                                                *)

LEMMA WatchOwnedNext ==
  TypeOK /\ LoopHasPid /\ ForksLast /\ WatchOwned /\ [Next]_vars => WatchOwned'
<1> DEFINE Owns(s, p) == lsock[s] = p /\ lpc[s] \in {"wait", "endwatch"}
<1> SUFFICES ASSUME TypeOK, LoopHasPid, ForksLast, WatchOwned, [Next]_vars,
                    NEW p \in Socats, cpc'[p] # "none"
             PROVE  (\E s \in Starts : Owns(s, p))'
  BY DEF WatchOwned
<1> USE DEF TypeOK, LoopHasPid
<1>1. ASSUME NEW c \in Cmds, Begin(c) \/ Command(c) PROVE (\E s \in Starts : Owns(s, p))'
  <2>1. UNCHANGED cpc /\ \A s \in Starts : Owns(s, p) => Owns(s, p)'
    BY <1>1 DEF Begin, Command, Look, Cat, Probe, Clean, Case, KillPid, StartOpen,
                StartWrite, Fork, Goto, ForksLast, loopVars
  <2> QED
    BY <2>1 DEF WatchOwned
<1>2. ASSUME NEW c \in Starts, Loop(c) PROVE (\E s \in Starts : Owns(s, p))'
  <2>1. CASE LoopTest(c) \/ LoopSpawn(c) \/ LoopOpen(c) \/ LoopWrite(c) \/ LoopWait(c)
    <3>1. UNCHANGED cpc /\ \A s \in Starts : Owns(s, p) => Owns(s, p)'
      BY <2>1 DEF LoopTest, LoopSpawn, LoopOpen, LoopWrite, LoopWait, LoopTo
    <3> QED
      BY <3>1 DEF WatchOwned
  <2>2. CASE LoopWatch(c)
    <3>1. CASE lsock[c] = p
      BY <2>2, <3>1 DEF LoopWatch, LoopTo
    <3>2. CASE lsock[c] # p
      <4>1. cpc[p] # "none" /\ \A s \in Starts : Owns(s, p) => Owns(s, p)'
        BY <2>2, <3>2 DEF LoopWatch, LoopTo
      <4> QED
        BY <4>1 DEF WatchOwned
    <3> QED
      BY <3>1, <3>2
  <2>3. CASE LoopEndWatch(c)
    <3>1. lsock[c] # p
      BY <2>3 DEF LoopEndWatch
    <3>2. cpc[p] # "none" /\ \A s \in Starts : Owns(s, p) => Owns(s, p)'
      BY <2>3, <3>1 DEF LoopEndWatch, LoopTo
    <3> QED
      BY <3>2 DEF WatchOwned
  <2> QED
    BY <1>2, <2>1, <2>2, <2>3 DEF Loop
<1>3. ASSUME NEW q \in Socats, Watch(q) \/ SocatLink(q) \/ SocatExit(q)
      PROVE  (\E s \in Starts : Owns(s, p))'
  <2>1. UNCHANGED loopVars /\ cpc[p] # "none"
    BY <1>3 DEF Watch, WatchTest, WatchCat, WatchDev, WatchDev2, WatchKill, WatchTo,
                KillPcs, SocatLink, SocatExit
  <2> QED
    BY <2>1 DEF WatchOwned, loopVars
<1>4. CASE LinkLost \/ UNCHANGED vars
  <2>1. UNCHANGED loopVars /\ cpc[p] # "none"
    BY <1>4 DEF LinkLost, vars, loopVars
  <2> QED
    BY <2>1 DEF WatchOwned, loopVars
<1> QED
  BY <1>1, <1>2, <1>3, <1>4 DEF Next

\* A watcher never outlives its loop's interest in the socat it was started for,
\* for any number of commands and pids.
THEOREM WatchesEnd == Spec => []NoStaleWatch
<1>1. Init => WatchOwned
  BY DEF Init, WatchOwned
<1>2. WatchOwned => NoStaleWatch
  BY DEF WatchOwned, NoStaleWatch
<1> QED
  BY <1>1, <1>2, TypeCorrect, LoopHasPidAlways, ForksLastAlways,
     WatchOwnedNext, PTL DEF Spec

-----------------------------------------------------------------------------
(* Socats.                                                                  *)

LEMMA SocatHasLoopNext ==
  TypeOK /\ ForksLast /\ EverySocatHasItsLoop /\ [Next]_vars => EverySocatHasItsLoop'
<1> DEFINE Owns(s, p) == lsock[s] = p /\ lpc[s] \in {"trunc", "write", "watch", "wait"}
<1> SUFFICES ASSUME TypeOK, ForksLast, EverySocatHasItsLoop, [Next]_vars,
                    NEW p \in Socats, socat'[p] # "dead"
             PROVE  (\E s \in Starts : Owns(s, p))'
  BY DEF EverySocatHasItsLoop
<1> USE DEF TypeOK
<1>1. ASSUME NEW c \in Cmds, Begin(c) \/ Command(c) PROVE (\E s \in Starts : Owns(s, p))'
  <2>1. socat[p] # "dead"
    BY <1>1 DEF Begin, Command, Look, Cat, Probe, Clean, Case, KillPid, SocatEnds, StartOpen,
                StartWrite, Fork
  <2>2. \A s \in Starts : Owns(s, p) => Owns(s, p)'
    BY <1>1 DEF Begin, Command, Look, Cat, Probe, Clean, Case, KillPid, StartOpen,
                StartWrite, Fork, Goto, ForksLast, loopVars
  <2> QED
    BY <2>1, <2>2 DEF EverySocatHasItsLoop
<1>2. ASSUME NEW c \in Starts, Loop(c) PROVE (\E s \in Starts : Owns(s, p))'
  <2>1. CASE LoopTest(c) \/ LoopOpen(c) \/ LoopWrite(c) \/ LoopWatch(c) \/ LoopEndWatch(c)
    <3>1. UNCHANGED socat /\ \A s \in Starts : Owns(s, p) => Owns(s, p)'
      BY <2>1 DEF LoopTest, LoopOpen, LoopWrite, LoopWatch, LoopEndWatch, LoopTo
    <3> QED
      BY <3>1 DEF EverySocatHasItsLoop
  <2>2. CASE LoopSpawn(c)
    <3>1. PICK q \in Socats : /\ socat' = [socat EXCEPT ![q] = "starting"]
                              /\ lsock' = [lsock EXCEPT ![c] = q]
      BY <2>2 DEF LoopSpawn
    <3>2. CASE q = p
      BY <2>2, <3>1, <3>2 DEF LoopSpawn, LoopTo
    <3>3. CASE q # p
      <4>1. socat[p] # "dead" /\ \A s \in Starts : Owns(s, p) => Owns(s, p)'
        BY <2>2, <3>1, <3>3 DEF LoopSpawn, LoopTo
      <4> QED
        BY <4>1 DEF EverySocatHasItsLoop
    <3> QED
      BY <3>2, <3>3
  <2>3. CASE LoopWait(c)
    <3>1. lsock[c] # p
      BY <2>3 DEF LoopWait, Alive
    <3>2. socat[p] # "dead" /\ \A s \in Starts : Owns(s, p) => Owns(s, p)'
      BY <2>3, <3>1 DEF LoopWait, LoopTo
    <3> QED
      BY <3>2 DEF EverySocatHasItsLoop
  <2> QED
    BY <1>2, <2>1, <2>2, <2>3 DEF Loop
<1>3. ASSUME NEW q \in Socats, Watch(q) \/ SocatLink(q) \/ SocatExit(q)
      PROVE  (\E s \in Starts : Owns(s, p))'
  <2>1. UNCHANGED loopVars /\ socat[p] # "dead"
    BY <1>3 DEF Watch, WatchTest, WatchCat, WatchDev, WatchDev2, WatchKill, SocatEnds,
                SocatLink, SocatExit
  <2> QED
    BY <2>1 DEF EverySocatHasItsLoop, loopVars
<1>4. CASE LinkLost \/ UNCHANGED vars
  <2>1. UNCHANGED loopVars /\ socat[p] # "dead"
    BY <1>4 DEF LinkLost, vars, loopVars
  <2> QED
    BY <2>1 DEF EverySocatHasItsLoop, loopVars
<1> QED
  BY <1>1, <1>2, <1>3, <1>4 DEF Next

\* No socat runs without a loop that is going to wait for it, for any number of
\* commands and pids.
THEOREM SocatsHaveLoops == Spec => []EverySocatHasItsLoop
<1>1. Init => EverySocatHasItsLoop
  BY DEF Init, EverySocatHasItsLoop
<1> QED
  BY <1>1, TypeCorrect, ForksLastAlways, SocatHasLoopNext, PTL DEF Spec

=============================================================================
