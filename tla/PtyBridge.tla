------------------------------ MODULE PtyBridge ------------------------------
(***************************************************************************)
(* common/cuxd/extra/pty2tcp: a shell script that keeps a pseudo TTY       *)
(* /dev/ttyTCP<x> connected to a TCP port for CUxD.                        *)
(*                                                                         *)
(*   pty2tcp start ttyTCP<x> <ip>:<port>     pty2tcp stop ttyTCP<x>        *)
(*                                                                         *)
(* A start forks a loop that runs one socat after another for as long as   *)
(* the pid file exists, each socat watched by a check_device process.      *)
(* Nothing but the pid file couples these processes: every command, every  *)
(* loop and every watcher reads, removes and rewrites it without a lock.   *)
(* This module is that system for one device: one action for each access   *)
(* to the file, to a process or to the device link, in the script's order. *)
(***************************************************************************)
EXTENDS Naturals

CONSTANTS
  Starts,     \* invocations "pty2tcp start", each named by the pid of its shell
  Stops,      \* invocations "pty2tcp stop"
  Socats,     \* pids the kernel gives to socat processes
  NoPid,      \* the script's pid=0
  NoFile,     \* the pid file does not exist
  Blank,      \* the pid file exists and is empty (created, not yet written)
  Serial      \* TRUE: a command begins only when no other one is running

Cmds == Starts \cup Stops

ASSUME PidAssumption ==
  /\ Starts \cap Stops = {}
  /\ Cmds \cap Socats = {}
  /\ {NoPid, NoFile, Blank} \cap (Cmds \cup Socats) = {}
  /\ NoPid # NoFile /\ NoFile # Blank /\ NoPid # Blank
  /\ Serial \in BOOLEAN

VARIABLES
  pidfile,    \* /var/run/pty.ttyTCP<x>.pid
  opened,     \* writers holding the present pid file open for their echo
  mpc, mpid,  \* each command's place in the script and its variable pid
  lpc, lsock, \* each start's background loop: place, and its variable pid
  cpc,        \* the check_device process started for a socat
  socat,      \* state of each socat: "dead", "starting", "up"
  link        \* the socat the device link /dev/ttyTCP<x> leads to, or NoPid

cmdVars  == <<mpc, mpid>>
loopVars == <<lpc, lsock>>
vars == <<pidfile, opened, mpc, mpid, lpc, lsock, cpc, socat, link>>

KillPcs == {"hup", "term", "kill"}
CmdPcs  == KillPcs \cup {"idle", "look", "cat", "probe", "clean", "case",
                         "trunc", "write", "fork", "done"}
LoopPcs == {"none", "test", "spawn", "trunc", "write", "watch", "wait",
            "endwatch", "done"}
WatchPcs == KillPcs \cup {"none", "test", "cat", "dev", "dev2"}

TypeOK ==
  /\ pidfile \in Cmds \cup Socats \cup {NoFile, Blank}
  /\ opened \subseteq Cmds
  /\ mpc \in [Cmds -> CmdPcs]
  /\ mpid \in [Cmds -> Cmds \cup Socats \cup {NoPid}]
  /\ lpc \in [Starts -> LoopPcs]
  /\ lsock \in [Starts -> Socats \cup {NoPid}]
  /\ cpc \in [Socats -> WatchPcs]
  /\ socat \in [Socats -> {"dead", "starting", "up"}]
  /\ link \in Socats \cup {NoPid}

Init ==
  /\ pidfile = NoFile /\ opened = {}
  /\ mpc = [c \in Cmds |-> "idle"] /\ mpid = [c \in Cmds |-> NoPid]
  /\ lpc = [c \in Starts |-> "none"] /\ lsock = [c \in Starts |-> NoPid]
  /\ cpc = [p \in Socats |-> "none"]
  /\ socat = [p \in Socats |-> "dead"]
  /\ link = NoPid

-----------------------------------------------------------------------------
(* Processes and files.                                                     *)

Running(c) == mpc[c] \notin {"idle", "done"}

\* What kill -0 reports of a pid.
Alive(p) == \/ p \in Cmds /\ Running(p)
            \/ p \in Socats /\ socat[p] # "dead"

\* A socat ends. One that has made the link unlinks it by name on the way out,
\* even when it leads to another socat by now; one that is killed outright does
\* not, but a link to it leads nowhere.
SocatEnds(p, killed) ==
  /\ socat' = [socat EXCEPT ![p] = "dead"]
  /\ link' = IF link = p \/ (socat[p] = "up" /\ ~killed) THEN NoPid ELSE link

\* rm -f: a writer that has the file open goes on writing to a file that has
\* no name any more.
RmFile == pidfile' = NoFile /\ opened' = {}

\* echo <pid> >pidfile: the shell first opens, creating or truncating, ...
OpenFile(w) == pidfile' = Blank /\ opened' = opened \cup {w}

\* ... then writes.
WriteFile(w, pid) ==
  /\ pidfile' = IF w \in opened THEN pid ELSE pidfile
  /\ opened' = opened \ {w}

SameFile == UNCHANGED <<pidfile, opened>>

\* The outcomes of one signal of kill_pid: HUP and TERM may be survived.
Dies(p, step) ==
  IF ~Alive(p) THEN {FALSE} ELSE IF step = "kill" THEN {TRUE} ELSE BOOLEAN

\* kill_pid sends HUP, then TERM and KILL while kill -0 still finds the process.
KillNext(p, step, out) ==
  CASE step = "hup"  -> "term"
    [] step = "term" -> IF Alive(p) THEN "kill" ELSE out
    [] step = "kill" -> out

-----------------------------------------------------------------------------
(* The command in the foreground.                                           *)

Goto(c, place) == mpc' = [mpc EXCEPT ![c] = place]

Begin(c) ==
  /\ mpc[c] = "idle" /\ Goto(c, "look")
  /\ Serial => \A d \in Cmds : ~Running(d)
  /\ UNCHANGED <<pidfile, opened, mpid, loopVars, cpc, socat, link>>

\* if [ -f $pidfile ]
Look(c) ==
  /\ mpc[c] = "look"
  /\ Goto(c, IF pidfile = NoFile THEN "case" ELSE "cat")
  /\ UNCHANGED <<pidfile, opened, mpid, loopVars, cpc, socat, link>>

\* pid=`cat $pidfile`; what is not a number above 1 goes to the else branch.
Cat(c) ==
  /\ mpc[c] = "cat"
  /\ IF pidfile \in {NoFile, Blank}
       THEN Goto(c, "clean") /\ UNCHANGED mpid
       ELSE Goto(c, "probe") /\ mpid' = [mpid EXCEPT ![c] = pidfile]
  /\ UNCHANGED <<pidfile, opened, loopVars, cpc, socat, link>>

\* kill -0 $pid
Probe(c) ==
  /\ mpc[c] = "probe"
  /\ Goto(c, IF Alive(mpid[c]) THEN "case" ELSE "clean")
  /\ UNCHANGED <<pidfile, opened, mpid, loopVars, cpc, socat, link>>

\* rm -f $pidfile; pid=0
Clean(c) ==
  /\ mpc[c] = "clean" /\ Goto(c, "case")
  /\ RmFile /\ mpid' = [mpid EXCEPT ![c] = NoPid]
  /\ UNCHANGED <<loopVars, cpc, socat, link>>

\* Faulty variant: the file is left in place while the socat is killed.
CaseKeepsFile(c) ==
  /\ mpc[c] = "case" /\ SameFile
  /\ Goto(c, IF mpid[c] # NoPid THEN "hup" ELSE IF c \in Starts THEN "trunc" ELSE "done")
  /\ UNCHANGED <<mpid, loopVars, cpc, socat, link>>

\* The case statement: with a pid, both commands remove the file and kill;
\* without one, stop has nothing to do.
Case(c) ==
  /\ mpc[c] = "case"
  /\ IF mpid[c] # NoPid
       THEN Goto(c, "hup") /\ RmFile
       ELSE Goto(c, IF c \in Starts THEN "trunc" ELSE "done") /\ SameFile
  /\ UNCHANGED <<mpid, loopVars, cpc, socat, link>>

\* kill_pid $pid
KillPid(c) ==
  LET p    == mpid[c]
      next == KillNext(p, mpc[c], IF c \in Starts THEN "trunc" ELSE "done")
  IN /\ mpc[c] \in KillPcs
     /\ \E dies \in Dies(p, mpc[c]) :
          /\ mpc' = IF dies /\ p \in Cmds
                      THEN [mpc EXCEPT ![c] = next, ![p] = "done"]
                      ELSE [mpc EXCEPT ![c] = next]
          /\ IF dies /\ p \in Socats THEN SocatEnds(p, mpc[c] = "kill")
                                     ELSE UNCHANGED <<socat, link>>
     /\ UNCHANGED <<pidfile, opened, mpid, loopVars, cpc>>

\* echo $$ >$pidfile
StartOpen(c) ==
  /\ mpc[c] = "trunc" /\ Goto(c, "write") /\ OpenFile(c)
  /\ UNCHANGED <<mpid, loopVars, cpc, socat, link>>

StartWrite(c) ==
  /\ mpc[c] = "write" /\ Goto(c, "fork") /\ WriteFile(c, c)
  /\ UNCHANGED <<mpid, loopVars, cpc, socat, link>>

\* ( while ... done )&
Fork(c) ==
  /\ mpc[c] = "fork" /\ Goto(c, "done")
  /\ lpc' = [lpc EXCEPT ![c] = "test"]
  /\ UNCHANGED <<pidfile, opened, mpid, lsock, cpc, socat, link>>

Command(c) ==
  \/ Look(c) \/ Cat(c) \/ Probe(c) \/ Clean(c) \/ Case(c) \/ KillPid(c)
  \/ c \in Starts /\ (StartOpen(c) \/ StartWrite(c) \/ Fork(c))

-----------------------------------------------------------------------------
(* The loop a start leaves in the background.                               *)

LoopTo(c, place) == lpc' = [lpc EXCEPT ![c] = place]

\* while [ -f $pidfile ]
LoopTest(c) ==
  /\ lpc[c] = "test" /\ LoopTo(c, IF pidfile = NoFile THEN "done" ELSE "spawn")
  /\ UNCHANGED <<pidfile, opened, cmdVars, lsock, cpc, socat, link>>

\* A pid the kernel may give again: its process and its watcher are gone and no
\* variable and no file names it.
Unused(p) ==
  /\ socat[p] = "dead" /\ cpc[p] = "none" /\ pidfile # p
  /\ \A c \in Cmds : mpid[c] # p \/ mpc[c] = "done"
  /\ \A c \in Starts : lsock[c] # p

\* Faulty variant: pid=$! is forgotten.
LoopSpawnForgetsPid(c) ==
  /\ lpc[c] = "spawn" /\ LoopTo(c, "trunc")
  /\ \E p \in Socats : Unused(p) /\ socat' = [socat EXCEPT ![p] = "starting"]
  /\ UNCHANGED <<pidfile, opened, cmdVars, lsock, cpc, link>>

\* $SOCATP pty,link=/dev/$2 ... &  pid=$!
LoopSpawn(c) ==
  /\ lpc[c] = "spawn" /\ LoopTo(c, "trunc")
  /\ \E p \in Socats :
       /\ Unused(p)
       /\ socat' = [socat EXCEPT ![p] = "starting"]
       /\ lsock' = [lsock EXCEPT ![c] = p]
  /\ UNCHANGED <<pidfile, opened, cmdVars, cpc, link>>

\* echo $pid >$pidfile
LoopOpen(c) ==
  /\ lpc[c] = "trunc" /\ LoopTo(c, "write") /\ OpenFile(c)
  /\ UNCHANGED <<cmdVars, lsock, cpc, socat, link>>

LoopWrite(c) ==
  /\ lpc[c] = "write" /\ LoopTo(c, "watch") /\ WriteFile(c, lsock[c])
  /\ UNCHANGED <<cmdVars, lsock, cpc, socat, link>>

\* check_device $pid $pidfile /dev/$2 &
LoopWatch(c) ==
  /\ lpc[c] = "watch" /\ LoopTo(c, "wait")
  /\ cpc' = [cpc EXCEPT ![lsock[c]] = "test"]
  /\ UNCHANGED <<pidfile, opened, cmdVars, lsock, socat, link>>

\* Faulty variant: the loop does not wait for its socat.
LoopWaitNot(c) ==
  /\ lpc[c] = "wait" /\ LoopTo(c, "endwatch")
  /\ UNCHANGED <<pidfile, opened, cmdVars, lsock, cpc, socat, link>>

\* wait %1
LoopWait(c) ==
  /\ lpc[c] = "wait" /\ ~Alive(lsock[c]) /\ LoopTo(c, "endwatch")
  /\ UNCHANGED <<pidfile, opened, cmdVars, lsock, cpc, socat, link>>

\* Faulty variant: the watcher is left running.
LoopKeepsWatch(c) ==
  /\ lpc[c] = "endwatch" /\ LoopTo(c, "test")
  /\ UNCHANGED <<pidfile, opened, cmdVars, lsock, cpc, socat, link>>

\* kill -KILL $pid2
LoopEndWatch(c) ==
  /\ lpc[c] = "endwatch" /\ LoopTo(c, "test")
  /\ cpc' = [cpc EXCEPT ![lsock[c]] = "none"]
  /\ UNCHANGED <<pidfile, opened, cmdVars, lsock, socat, link>>

Loop(c) ==
  \/ LoopTest(c) \/ LoopSpawn(c) \/ LoopOpen(c) \/ LoopWrite(c)
  \/ LoopWatch(c) \/ LoopWait(c) \/ LoopEndWatch(c)

-----------------------------------------------------------------------------
(* check_device, which ends a socat whose device link has gone.             *)

WatchTo(p, place) == cpc' = [cpc EXCEPT ![p] = place]

\* while [ -f $2 ]
WatchTest(p) ==
  /\ cpc[p] = "test" /\ WatchTo(p, IF pidfile = NoFile THEN "none" ELSE "cat")
  /\ UNCHANGED <<pidfile, opened, cmdVars, loopVars, socat, link>>

\* pid=`cat $2 2>/dev/null`; a file that names another process ends the watch.
WatchCat(p) ==
  /\ cpc[p] = "cat" /\ WatchTo(p, IF pidfile = p THEN "dev" ELSE "none")
  /\ UNCHANGED <<pidfile, opened, cmdVars, loopVars, socat, link>>

\* Faulty variant: the test of the device is the wrong way round.
WatchDevInverted(p) ==
  /\ cpc[p] = "dev" /\ WatchTo(p, IF link # NoPid THEN "dev2" ELSE "test")
  /\ UNCHANGED <<pidfile, opened, cmdVars, loopVars, socat, link>>

\* [ ! -e $3 ], before the sleep of 10 s ...
WatchDev(p) ==
  /\ cpc[p] = "dev" /\ WatchTo(p, IF link = NoPid THEN "dev2" ELSE "test")
  /\ UNCHANGED <<pidfile, opened, cmdVars, loopVars, socat, link>>

\* ... and after it.
WatchDev2(p) ==
  /\ cpc[p] = "dev2" /\ WatchTo(p, IF link = NoPid THEN "hup" ELSE "test")
  /\ UNCHANGED <<pidfile, opened, cmdVars, loopVars, socat, link>>

\* kill_pid $1
WatchKill(p) ==
  /\ cpc[p] \in KillPcs
  /\ WatchTo(p, KillNext(p, cpc[p], "test"))
  /\ \E dies \in Dies(p, cpc[p]) :
       IF dies THEN SocatEnds(p, cpc[p] = "kill") ELSE UNCHANGED <<socat, link>>
  /\ UNCHANGED <<pidfile, opened, cmdVars, loopVars>>

Watch(p) ==
  WatchTest(p) \/ WatchCat(p) \/ WatchDev(p) \/ WatchDev2(p) \/ WatchKill(p)

-----------------------------------------------------------------------------
(* socat and the world around it.                                           *)

\* The pty is opened and linked, in the place of a link that is there, before
\* anything is sent to the TCP port.
SocatLink(p) ==
  /\ socat[p] = "starting"
  /\ socat' = [socat EXCEPT ![p] = "up"] /\ link' = p
  /\ UNCHANGED <<pidfile, opened, cmdVars, loopVars, cpc>>

\* The TCP peer closes the connection, or the slave side does.
SocatExit(p) ==
  /\ socat[p] = "up" /\ SocatEnds(p, FALSE)
  /\ UNCHANGED <<pidfile, opened, cmdVars, loopVars, cpc>>

\* The link is lost under a socat that goes on running.
LinkLost ==
  /\ link # NoPid /\ link' = NoPid
  /\ UNCHANGED <<pidfile, opened, cmdVars, loopVars, cpc, socat>>

Next ==
  \/ \E c \in Cmds : Begin(c) \/ Command(c)
  \/ \E c \in Starts : Loop(c)
  \/ \E p \in Socats : Watch(p) \/ SocatLink(p) \/ SocatExit(p)
  \/ LinkLost

\* A process that can run does run; a socat that is started again and again
\* gets as far as its link; nobody has to type a command, close a connection
\* or lose a device.
Fairness ==
  /\ \A c \in Cmds : WF_vars(Command(c))
  /\ \A c \in Starts : WF_vars(Loop(c))
  /\ \A p \in Socats : WF_vars(Watch(p)) /\ SF_vars(SocatLink(p))

Spec == Init /\ [][Next]_vars /\ Fairness

-----------------------------------------------------------------------------
(* Properties.                                                              *)

Idle == \A c \in Cmds : ~Running(c)

\* The bridge of start s is in its resting state: the loop waits for a socat
\* that the pid file names.
Resting(s) == lpc[s] = "wait" /\ pidfile = lsock[s] /\ Alive(lsock[s])

Down ==
  /\ pidfile = NoFile
  /\ \A s \in Starts : lpc[s] \in {"none", "done"}
  /\ \A p \in Socats : socat[p] = "dead"

\* A watcher never outlives its loop's interest in the socat it was started
\* for: the kernel may give the pid to a later socat, and a watcher left over
\* would put an end to that one.  (kill -KILL $pid2 after the wait.)
NoStaleWatch ==
  \A p \in Socats : cpc[p] # "none" => \E s \in Starts : lsock[s] = p

\* No socat runs without a loop that is going to wait for it: whatever commands
\* come in whatever order, the end of every socat is seen, and a signal sent to
\* it never meets a pid that has already been given to something else.
EverySocatHasItsLoop ==
  \A p \in Socats : socat[p] # "dead" =>
    \E s \in Starts : lsock[s] = p /\ lpc[s] \in {"trunc", "write", "watch", "wait"}

\* A stop that comes to kill the socat of a resting bridge takes it all down: the
\* loop, woken by the death of its socat, finds no file and ends.  This rests on
\* the order rm, then kill.
SteadyStopEndsBridge ==
  \A c \in Stops :
    ( /\ mpc[c] = "hup"
      /\ \A d \in Cmds \ {c} : mpc[d] = "done"
      /\ \A s \in Starts : \/ lpc[s] \in {"none", "done"}
                           \/ lpc[s] = "wait" /\ lsock[s] = mpid[c] /\ Alive(mpid[c])
    ) ~> Down

\* The watchdog does its work: when the device link is lost under a bridge that
\* rests, it comes back, unless somebody gives a command.
LostLinkComesBack ==
  \A s \in Starts : (Resting(s) /\ link = NoPid /\ Idle) ~> (link # NoPid \/ ~Idle)

\* What the script's head and its usage line promise of the stop command: given
\* to a bridge whose start has returned, it deletes the pseudo TTY for good.
StopDeletes ==
  \A c \in Stops :
    (mpc[c] = "look" /\ \A s \in Starts : mpc[s] = "done") ~> Down

=============================================================================
