---------------------------- MODULE DaemonControl ----------------------------
(***************************************************************************)
(* ccu3/rc.d/cuxdaemon and ccu3/update_script: starting, stopping and      *)
(* restarting the cuxd daemon, installing or updating the add-on, removing *)
(* it, and the reboot that may come between any two of their commands.     *)
(*                                                                         *)
(* The scripts look for the daemon once, when they begin (PSPID), and act  *)
(* on what they found then.  One script runs at a time; update_script runs *)
(* the commands stop and start of rc.d/cuxdaemon as scripts of their own.  *)
(***************************************************************************)
EXTENDS Naturals, FiniteSets, Sequences

CONSTANTS
  Pids,        \* pids of daemon processes
  InitAddons,  \* TRUE: the firmware starts add-ons itself (S55InitAddons)
  MaxCrashes   \* bound on the reboots

ASSUME DaemonAssumption ==
  Pids # {} /\ InitAddons \in BOOLEAN /\ MaxCrashes \in Nat

\* The package in the order it is copied: the daemon, what it needs beside it, and
\* the tool that edits the menu.  A file is missing, of the old or of the new
\* version, or cut off by a reboot while it was copied.
Package == <<"cuxd", "rest", "update_addon">>
Files   == {Package[i] : i \in 1..3}
Copies  == {"none", "old", "new", "part"}

VARIABLES
  dir,      \* the add-on's directory exists
  file,     \* the package's files in it
  rcs,      \* rc.d/cuxdaemon itself
  startrc,  \* the link /etc/init.d/S55cuxd to it
  link,     \* the link that makes the directory a web page of the CCU
  menu,     \* CUxD's entry in hm_addons.cfg
  ifl,      \* InterfacesList.xml: missing, without CUxD's entry or with it
  rega,     \* the logic layer ReGaHss runs
  daemon,   \* the processes: "none", the version started, or "dying"
  pc,       \* place in the running script
  pspid,    \* PSPID
  ret,      \* where update_script goes on after a script it has called
  stopped,  \* update_script has stopped ReGaHss (rc -ne 0)
  cut,      \* history: an uninstall found update_addon cut off or missing
  died,     \* history: a daemon has ended by itself since PSPID was looked up
  crashes   \* reboots so far

disk == <<dir, file, rcs, startrc, link, menu, ifl>>
vars == <<disk, rega, daemon, pc, pspid, ret, stopped, cut, died, crashes>>

Copying == <<"copycuxd", "copyrest", "copytool", "rccopy">>   \* the last is where it goes on

Places ==
  {"idle", "boot", "bootrega",
   "start", "startlink", "startrc", "startrun", "restartrun", "stop", "stopkill",
   "killall", "iflsed", "unmenu", "unlink", "rmrest", "unrc",
   "rmold", "rmdaemon", "rmlink", "rccopy", "relink",
   "addmenu", "checkrega", "callstop", "callstart", "regaon", "updated"} \cup
  {Copying[i] : i \in 1..3}

TypeOK ==
  /\ dir \in BOOLEAN /\ startrc \in BOOLEAN /\ link \in BOOLEAN
  /\ menu \in BOOLEAN /\ ifl \in {"missing", "without", "with"} /\ rega \in BOOLEAN
  /\ file \in [Files -> Copies] /\ rcs \in Copies
  /\ daemon \in [Pids -> {"none", "old", "new", "dying"}]
  /\ pc \in Places /\ ret \in Places
  /\ pspid \subseteq Pids
  /\ stopped \in BOOLEAN /\ cut \in BOOLEAN /\ died \in BOOLEAN
  /\ crashes \in 0..MaxCrashes

Running == {p \in Pids : daemon[p] \in {"old", "new"}}
Listed  == {p \in Pids : daemon[p] # "none"}      \* what ps shows

\* A CCU without the add-on, or one with an older version running, where a firmware
\* before the present one may have needed the start link.  ReGaHss may be down, and
\* InterfacesList.xml, which the firmware makes, may be missing.
Init ==
  /\ \E had \in BOOLEAN :
       /\ dir = had /\ link = had /\ menu = had
       /\ ifl \in {"missing", IF had THEN "with" ELSE "without"}
       /\ startrc \in {FALSE, had} /\ (had /\ ~InitAddons => startrc)
       /\ file = [f \in Files |-> IF had THEN "old" ELSE "none"]
       /\ rcs = IF had THEN "old" ELSE "none"
       /\ \E p \in Pids :
            daemon = [q \in Pids |-> IF had /\ q = p THEN "old" ELSE "none"]
  /\ rega \in BOOLEAN
  /\ pc = "idle" /\ ret = "idle" /\ pspid = {} /\ stopped = FALSE
  /\ cut = FALSE /\ died = FALSE /\ crashes = 0

Goto(place) == pc' = place
SameScript == UNCHANGED <<pspid, ret, stopped, cut, died, crashes>>

\* A script of rc.d/cuxdaemon begins: PSPID=`ps ...`.
Enter(place, back) ==
  /\ pc' = place /\ ret' = back /\ pspid' = Listed /\ died' = FALSE
  /\ UNCHANGED <<stopped, cut, crashes>>

\* It ends: update_script goes on, or the boot does, or the shell is idle.
Leave == pc' = ret /\ ret' = "idle" /\ UNCHANGED <<pspid, stopped, cut, died, crashes>>

\* The daemon puts itself into InterfacesList.xml, and may make that file.
Enlist == ifl' \in {"with"} \cup ({ifl} \cap {"missing"})

\* Faulty variant: whatever is there is taken for a daemon.
LaunchAnything ==
  /\ \E p \in Pids : daemon[p] = "none" /\ daemon' = [daemon EXCEPT ![p] = file["cuxd"]]
  /\ Enlist

\* $CUXDIR/cuxd: the daemon starts if its files are there and whole, and puts
\* itself into InterfacesList.xml.
Launch ==
  IF file["cuxd"] \in {"old", "new"} /\ file["rest"] \in {"old", "new"}
    THEN /\ \E p \in Pids : daemon[p] = "none"
                            /\ daemon' = [daemon EXCEPT ![p] = file["cuxd"]]
         /\ Enlist
    ELSE UNCHANGED <<daemon, ifl>>

-----------------------------------------------------------------------------
(* rc.d/cuxdaemon                                                           *)

Command ==
  /\ pc = "idle" /\ rcs \in {"old", "new"}
  /\ \/ \E place \in {"start", "stop", "killall"} : Enter(place, "idle")
     \/ Enter("stop", "restartrun")
  /\ UNCHANGED <<disk, rega, daemon>>

\* [ -d $CUXDIR ]
StartDir ==
  /\ pc = "start"
  /\ IF dir THEN Goto("startlink") /\ SameScript
            ELSE Leave
  /\ UNCHANGED <<disk, rega, daemon>>

\* Faulty variant: the link is left to the installation.
StartNoLink ==
  /\ pc = "startlink" /\ Goto("startrc")
  /\ UNCHANGED <<disk, rega, daemon>> /\ SameScript

StartLink ==
  /\ pc = "startlink" /\ Goto("startrc") /\ link' = TRUE
  /\ UNCHANGED <<dir, file, rcs, startrc, menu, ifl, rega, daemon>> /\ SameScript

StartRc ==
  /\ pc = "startrc" /\ Goto("startrun") /\ startrc' = ~InitAddons
  /\ UNCHANGED <<dir, file, rcs, link, menu, ifl, rega, daemon>> /\ SameScript

\* if [ "$PSPID" = "" ]
StartRun ==
  /\ pc = "startrun" /\ Leave
  /\ IF pspid = {} THEN Launch ELSE UNCHANGED <<daemon, ifl>>
  /\ UNCHANGED <<dir, file, rcs, startrc, link, menu, rega>>

\* kill $1 $PSPID; sleep 1.  The daemon may take longer than that.
StopTerm ==
  /\ pc = "stop" /\ Goto("stopkill")
  /\ \E gone \in SUBSET pspid :
       daemon' = [p \in Pids |-> IF p \in gone THEN "none" ELSE daemon[p]]
  /\ UNCHANGED <<disk, rega>> /\ SameScript

\* Faulty variant: no KILL after the wait.
StopNoKill ==
  /\ pc = "stopkill" /\ Leave
  /\ UNCHANGED <<disk, rega, daemon>>

\* sleep 10; kill -KILL $PSPID, after which the process is about to go.
StopKill ==
  /\ pc = "stopkill" /\ Leave
  /\ daemon' = [p \in Pids |-> IF p \in pspid /\ p \in Running THEN "dying" ELSE daemon[p]]
  /\ UNCHANGED <<disk, rega>>

\* The second half of restart: PSPID is not looked at again.
RestartRun ==
  /\ pc = "restartrun" /\ Leave
  /\ IF dir THEN Launch ELSE UNCHANGED <<daemon, ifl>>
  /\ UNCHANGED <<dir, file, rcs, startrc, link, menu, rega>>

\* uninstall: killall -KILL cuxd
KillAll ==
  /\ pc = "killall" /\ Goto("iflsed")
  /\ daemon' = [p \in Pids |-> IF p \in Running THEN "dying" ELSE daemon[p]]
  /\ UNCHANGED <<disk, rega>> /\ SameScript

\* sed -i takes CUxD out of the file, if there is one.
Unlist == ifl' = IF ifl = "missing" THEN ifl ELSE "without"

\* Faulty variant: the directory is removed without the page.
IflSedThenRm ==
  /\ pc = "iflsed" /\ Goto(IF dir THEN "rmrest" ELSE "unrc") /\ Unlist
  /\ UNCHANGED <<dir, file, rcs, startrc, link, menu, rega, daemon>> /\ SameScript

\* sed on InterfacesList.xml, and the object removed from the ReGa.
IflSed ==
  /\ pc = "iflsed" /\ Goto(IF dir THEN "unmenu" ELSE "unrc") /\ Unlist
  /\ UNCHANGED <<dir, file, rcs, startrc, link, menu, rega, daemon>> /\ SameScript

\* $CUXDIR/update_addon cuxd, if that file is still there and whole.
UnMenu ==
  /\ pc = "unmenu" /\ Goto("unlink")
  /\ LET works == file["update_addon"] \in {"old", "new"} IN
     menu' = (menu /\ ~works) /\ cut' = (cut \/ ~works)
  /\ UNCHANGED <<dir, file, rcs, startrc, link, ifl, rega, daemon, pspid, ret, stopped, died, crashes>>

UnLink ==
  /\ pc = "unlink" /\ Goto("rmrest") /\ link' = FALSE
  /\ UNCHANGED <<dir, file, rcs, startrc, menu, ifl, rega, daemon>> /\ SameScript

\* rm -rf $CUXDIR, file by file ...
RmFiles ==
  /\ pc = "rmrest"
  /\ \E f \in Files : file[f] # "none" /\ file' = [file EXCEPT ![f] = "none"]
  /\ UNCHANGED <<dir, rcs, startrc, link, menu, ifl, rega, daemon, pc>> /\ SameScript

\* ... and the directory in the end.
RmDir ==
  /\ pc = "rmrest" /\ \A f \in Files : file[f] = "none"
  /\ Goto("unrc") /\ dir' = FALSE
  /\ UNCHANGED <<file, rcs, startrc, link, menu, ifl, rega, daemon>> /\ SameScript

UnRc ==
  /\ pc = "unrc" /\ Leave /\ startrc' = FALSE
  /\ UNCHANGED <<dir, file, rcs, link, menu, ifl, rega, daemon>>

-----------------------------------------------------------------------------
(* update_script                                                            *)

\* mkdir -p, once the package's daemon has answered -v.
Update ==
  /\ pc = "idle" /\ Goto("rmold") /\ dir' = TRUE
  /\ ret' = "idle" /\ pspid' = {} /\ stopped' = FALSE /\ died' = FALSE
  /\ UNCHANGED <<file, rcs, startrc, link, menu, ifl, rega, daemon, cut, crashes>>

RmOld ==
  /\ pc = "rmold" /\ Goto("rmdaemon") /\ file' = [file EXCEPT !["rest"] = "none"]
  /\ UNCHANGED <<dir, rcs, startrc, link, menu, ifl, rega, daemon>> /\ SameScript

RmDaemon ==
  /\ pc = "rmdaemon" /\ Goto("rmlink") /\ file' = [file EXCEPT !["cuxd"] = "none"]
  /\ UNCHANGED <<dir, rcs, startrc, link, menu, ifl, rega, daemon>> /\ SameScript

RmLink ==
  /\ pc = "rmlink" /\ Goto(Copying[1]) /\ link' = FALSE
  /\ UNCHANGED <<dir, file, rcs, startrc, menu, ifl, rega, daemon>> /\ SameScript

\* cp -af cuxd/* $ADDON_DIR/, one after the other; a file is there in part before
\* it is there.
Copy ==
  /\ \E i \in 1..3 :
       /\ pc = Copying[i]
       /\ LET f == Package[i] IN
          IF file[f] = "part"
            THEN Goto(Copying[i + 1]) /\ file' = [file EXCEPT ![f] = "new"]
            ELSE Goto(Copying[i]) /\ file' = [file EXCEPT ![f] = "part"]
  /\ UNCHANGED <<dir, rcs, startrc, link, menu, ifl, rega, daemon>> /\ SameScript

\* cp -af rc.d/* $RCD_DIR/
CopyRc ==
  /\ pc = "rccopy"
  /\ IF rcs = "part" THEN Goto("relink") /\ rcs' = "new"
                     ELSE Goto("rccopy") /\ rcs' = "part"
  /\ UNCHANGED <<dir, file, startrc, link, menu, ifl, rega, daemon>> /\ SameScript

Relink ==
  /\ pc = "relink" /\ Goto("addmenu") /\ link' = TRUE
  /\ UNCHANGED <<dir, file, rcs, startrc, menu, ifl, rega, daemon>> /\ SameScript

\* ./update_addon cuxd cuxd_addon.cfg
AddMenu ==
  /\ pc = "addmenu" /\ Goto("checkrega") /\ menu' = TRUE
  /\ UNCHANGED <<dir, file, rcs, startrc, link, ifl, rega, daemon>> /\ SameScript

\* Faulty variant: the daemon is started without being stopped.
CheckRegaNoStop ==
  /\ pc = "checkrega" /\ Goto(IF rega /\ ifl # "missing" THEN "callstart" ELSE "updated")
  /\ stopped' = (rega /\ ifl = "without")
  /\ rega' = (rega /\ ifl # "without")
  /\ UNCHANGED <<disk, daemon, pspid, ret, cut, died, crashes>>

\* If ReGaHss runs and there is an InterfacesList.xml, CUxD is restarted, and ReGaHss
\* around that if CUxD is not yet in it.  Otherwise the update is over.
CheckRega ==
  /\ pc = "checkrega" /\ Goto(IF rega /\ ifl # "missing" THEN "callstop" ELSE "updated")
  /\ stopped' = (rega /\ ifl = "without")
  /\ rega' = (rega /\ ifl # "without")
  /\ UNCHANGED <<disk, daemon, pspid, ret, cut, died, crashes>>

CallStop ==
  /\ pc = "callstop" /\ Enter("stop", "callstart")
  /\ UNCHANGED <<disk, rega, daemon>>

CallStart ==
  /\ pc = "callstart" /\ Enter("start", "regaon")
  /\ UNCHANGED <<disk, rega, daemon>>

RegaOn ==
  /\ pc = "regaon" /\ Goto("updated") /\ rega' = (rega \/ stopped)
  /\ UNCHANGED <<disk, daemon>> /\ SameScript

Updated ==
  /\ pc = "updated" /\ Goto("idle")
  /\ UNCHANGED <<disk, rega, daemon>> /\ SameScript

-----------------------------------------------------------------------------
(* Processes that end, and the reboot.                                      *)

Ends ==
  /\ \E p \in Pids : /\ daemon[p] # "none" /\ daemon' = [daemon EXCEPT ![p] = "none"]
                      /\ died' = (died \/ p \in Running)
  /\ UNCHANGED <<disk, rega, pc, pspid, ret, stopped, cut, crashes>>

\* Power fails, or somebody reboots, at any moment.
Crash ==
  /\ crashes < MaxCrashes /\ crashes' = crashes + 1
  /\ daemon' = [p \in Pids |-> "none"] /\ rega' = FALSE
  /\ Goto("boot") /\ pspid' = {} /\ ret' = "idle" /\ stopped' = FALSE
  /\ died' = FALSE
  /\ UNCHANGED <<disk, cut>>

\* The firmware starts the add-ons, through S55InitAddons or the link S55cuxd,
\* and after them ReGaHss, which may fail; it may also make an InterfacesList.xml.
Boot ==
  /\ pc = "boot"
  /\ IF rcs \in {"old", "new"} /\ (InitAddons \/ startrc)
       THEN Enter("start", "bootrega")
       ELSE Goto("bootrega") /\ SameScript
  /\ UNCHANGED <<disk, rega, daemon>>

BootRega ==
  /\ pc = "bootrega" /\ Goto("idle") /\ rega' \in BOOLEAN
  /\ ifl' \in IF ifl = "missing" THEN {"missing", "without"} ELSE {ifl}
  /\ UNCHANGED <<dir, file, rcs, startrc, link, menu, daemon>> /\ SameScript

Script ==
  \/ StartDir \/ StartLink \/ StartRc \/ StartRun \/ StopTerm \/ StopKill \/ RestartRun
  \/ KillAll \/ IflSed \/ UnMenu \/ UnLink \/ RmFiles \/ RmDir \/ UnRc
  \/ RmOld \/ RmDaemon \/ RmLink \/ Copy \/ CopyRc \/ Relink \/ AddMenu
  \/ CheckRega \/ CallStop \/ CallStart \/ RegaOn \/ Updated \/ Boot \/ BootRega

Next == Command \/ Update \/ Script \/ Ends \/ Crash

Spec == Init /\ [][Next]_vars

-----------------------------------------------------------------------------
(* Properties.                                                              *)

\* There is never a second daemon beside a running one, whichever commands are
\* given after which, however long the daemon takes to end, and wherever a
\* reboot cuts in.
OneDaemon == Cardinality(Running) <= 1

\* The web interface never offers what is not there: an entry in the menu or a
\* link to the page means that the directory exists, at every step of install
\* and uninstall and after a reboot in the midst of either.  An entry is left over
\* only when an uninstall follows an update cut off while it copied the very tool
\* that removes entries.
NoDanglingPage == (link => dir) /\ (menu => dir \/ cut)

\* An update that reaches its end repairs whatever an earlier one, or an
\* uninstall, that a reboot cut short has left: all of the package is there,
\* linked and in the menu, and ReGaHss is back if the update has stopped it.  If
\* ReGaHss runs and InterfacesList.xml is there, the daemon has been replaced too: no
\* daemon of the version before runs, and the new one does, unless start has still
\* seen a killed one in PSPID (kill -KILL is not waited for) or the new one has ended
\* by itself.  Without ReGaHss or that file update_script restarts nothing and leaves
\* it to the reboot that follows an installation.
UpdateRepairs ==
  pc = "updated" =>
    /\ \A f \in Files : file[f] = "new"
    /\ rcs = "new" /\ dir /\ link /\ menu
    /\ stopped => rega
    /\ (rega /\ ifl # "missing") =>
         /\ \A p \in Running : daemon[p] = "new"
         /\ Running # {} \/ pspid # {} \/ died

\* A boot heals what an interrupted command has left: whenever it starts the add-on,
\* the page is linked and the start link is there exactly if this firmware needs it.
BootHeals ==
  pc = "bootrega" /\ dir /\ rcs = "new" /\ (InitAddons \/ startrc) => link /\ startrc = ~InitAddons

=============================================================================
