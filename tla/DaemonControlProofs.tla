------------------------- MODULE DaemonControlProofs -------------------------
(***************************************************************************)
(* That there is never a second daemon, that no page or menu entry is left *)
(* without its directory, that an update repairs what it finds and that a  *)
(* boot heals the links: for any number of processes and of reboots.       *)
(*                                                                         *)
(* What a script does rests on what it, or the script that called it, has  *)
(* done before, so the invariant IInv says what each place in a script     *)
(* has behind it: which scripts return where (Returns), what PSPID still   *)
(* says of the daemons (Known), what is on the disk (OnDisk), and what an  *)
(* update has achieved (Repaired).                                         *)
(***************************************************************************)
EXTENDS DaemonControl, FiniteSetTheorems, TLAPS

StartPlaces  == {"start", "startlink", "startrc", "startrun"}
StopPlaces   == {"stop", "stopkill"}
UpdatePlaces == {"rmold", "rmdaemon", "rmlink", "copycuxd", "copyrest", "copytool", "rccopy",
                 "relink", "addmenu"}
RegaPlaces   == {"checkrega", "callstop", "callstart", "regaon", "updated"}

\* A script that has been called returns to its caller only.
Returns ==
  /\ ret \in {"idle", "restartrun", "callstart", "regaon", "bootrega"}
  /\ ret \in {"restartrun", "callstart"} => pc \in StopPlaces
  /\ ret \in {"regaon", "bootrega"} => pc \in StartPlaces

\* Whatever process is there has been there when the script looked; a restart finds
\* nothing running.
AtMostOne == \A p, q \in Running : p = q
Known ==
  /\ AtMostOne
  /\ pc \in StartPlaces \cup StopPlaces => Listed \subseteq pspid
  /\ pc = "restartrun" => Running = {}

OnDisk ==
  /\ NoDanglingPage
  /\ pc \in {"startlink", "startrc", "startrun"} \cup UpdatePlaces \cup {"unmenu", "unlink", "rmrest"} => dir
  /\ pc \in {"startrc", "startrun"} => link
  /\ pc = "startrun" => startrc = ~InitAddons
  /\ pc \in {"unlink", "rmrest"} => (menu => cut)
  /\ pc = "rmrest" => ~link

\* What the steps of an update so far have put in place.
Copied ==
  /\ pc \in {"copyrest", "copytool", "rccopy", "relink", "addmenu"} => file["cuxd"] = "new"
  /\ pc \in {"copytool", "rccopy", "relink", "addmenu"} => file["rest"] = "new"
  /\ pc \in {"rccopy", "relink", "addmenu"} => file["update_addon"] = "new"
  /\ pc \in {"relink", "addmenu"} => rcs = "new"
  /\ pc = "addmenu" => link

\* No daemon of the version before runs.
NewOnly == \A p \in Running : daemon[p] = "new"

\* A daemon runs, but for the two reasons why there may be none after a start.
Serves == Running # {} \/ pspid # {} \/ died

InUpdate == pc \in RegaPlaces \/ ret \in {"callstart", "regaon"}
Repaired ==
  /\ InUpdate => /\ \A f \in Files : file[f] = "new"
                 /\ rcs = "new" /\ dir /\ link /\ menu
  /\ pc = "callstart" => Running = {}
  /\ ret = "regaon" \/ pc = "regaon" => NewOnly
  /\ pc = "regaon" => Serves
  /\ pc = "updated" => /\ stopped => rega
                       /\ (rega /\ ifl # "missing") => NewOnly /\ Serves

IInv == TypeOK /\ Returns /\ Known /\ OnDisk /\ Copied /\ Repaired /\ BootHeals

-----------------------------------------------------------------------------
(* The constant sequences, and the copying of one file after the other.     *)

LEMMA FilesAre == Files = {"cuxd", "rest", "update_addon"}
  BY DEF Files, Package

LEMMA CopyingAre ==
  /\ {Copying[i] : i \in 1..3} = {"copycuxd", "copyrest", "copytool"}
  /\ Copying[1] = "copycuxd"
  BY DEF Copying

\* A step of Copy is about one of three files.
CopyOf(f, here, next) ==
  /\ pc = here
  /\ IF file[f] = "part" THEN pc' = next /\ file' = [file EXCEPT ![f] = "new"]
                         ELSE pc' = here /\ file' = [file EXCEPT ![f] = "part"]

LEMMA CopyCases ==
  Copy => \/ CopyOf("cuxd", "copycuxd", "copyrest")
          \/ CopyOf("rest", "copyrest", "copytool")
          \/ CopyOf("update_addon", "copytool", "rccopy")
<1> SUFFICES ASSUME Copy
             PROVE  \/ CopyOf("cuxd", "copycuxd", "copyrest")
                    \/ CopyOf("rest", "copyrest", "copytool")
                    \/ CopyOf("update_addon", "copytool", "rccopy")
  OBVIOUS
<1>1. PICK i \in 1..3 :
        /\ pc = Copying[i]
        /\ IF file[Package[i]] = "part"
             THEN pc' = Copying[i + 1] /\ file' = [file EXCEPT ![Package[i]] = "new"]
             ELSE pc' = Copying[i] /\ file' = [file EXCEPT ![Package[i]] = "part"]
  BY DEF Copy, Goto
<1>2. CASE i = 1
  BY <1>1, <1>2 DEF CopyOf, Copying, Package
<1>3. CASE i = 2
  BY <1>1, <1>3 DEF CopyOf, Copying, Package
<1>4. CASE i = 3
  BY <1>1, <1>4 DEF CopyOf, Copying, Package
<1> QED
  BY <1>2, <1>3, <1>4


-----------------------------------------------------------------------------
(* The invariant holds at first and is kept.                                *)

LEMMA PlacesAre ==
  Places = {"idle", "boot", "bootrega",
            "start", "startlink", "startrc", "startrun", "restartrun", "stop", "stopkill",
            "killall", "iflsed", "unmenu", "unlink", "rmrest", "unrc",
            "rmold", "rmdaemon", "rmlink", "rccopy", "relink",
            "addmenu", "checkrega", "callstop", "callstart", "regaon", "updated",
            "copycuxd", "copyrest", "copytool"}
  BY CopyingAre DEF Places

\* The simple variables, each from a small set that no constant bears on.
Simple ==
  /\ dir \in BOOLEAN /\ startrc \in BOOLEAN /\ link \in BOOLEAN /\ menu \in BOOLEAN
  /\ ifl \in {"missing", "without", "with"} /\ rega \in BOOLEAN
  /\ stopped \in BOOLEAN /\ cut \in BOOLEAN /\ died \in BOOLEAN

LEMMA InitInv == Init => IInv
<1> SUFFICES ASSUME Init PROVE IInv
  OBVIOUS
<1>1. PICK had \in BOOLEAN :
        /\ dir = had /\ link = had /\ menu = had /\ startrc \in {FALSE, had}
        /\ ifl \in {"missing", IF had THEN "with" ELSE "without"}
        /\ file = [f \in Files |-> IF had THEN "old" ELSE "none"]
        /\ rcs = IF had THEN "old" ELSE "none"
        /\ \E p \in Pids : daemon = [q \in Pids |-> IF had /\ q = p THEN "old" ELSE "none"]
  BY DEF Init
<1>2. Simple
  BY <1>1 DEF Init, Simple
<1>3. file \in [Files -> Copies] /\ rcs \in Copies
  BY <1>1 DEF Copies
<1>4. daemon \in [Pids -> {"none", "old", "new", "dying"}] /\ AtMostOne
  BY <1>1 DEF AtMostOne, Running
<1>5. TypeOK
  BY <1>2, <1>3, <1>4, DaemonAssumption, PlacesAre DEF Init, TypeOK, Simple
<1> QED
  BY <1>1, <1>4, <1>5 DEF Init, IInv, Returns, Known, AtMostOne, Running, OnDisk, NoDanglingPage, Copied,
              Repaired, InUpdate, BootHeals, StartPlaces, StopPlaces, UpdatePlaces, RegaPlaces

LEMMA LaunchType ==
  ASSUME TypeOK, Launch
  PROVE  /\ daemon' \in [Pids -> {"none", "old", "new", "dying"}]
         /\ \E p \in Pids : \A q \in Pids : q # p => daemon'[q] = daemon[q]
         /\ \A p \in Pids : daemon'[p] \in {daemon[p], file["cuxd"]}
  BY DaemonAssumption DEF TypeOK, Launch

LEMMA SimpleNext == TypeOK /\ [Next]_vars => Simple'
<1> SUFFICES ASSUME TypeOK, [Next]_vars PROVE Simple'
  OBVIOUS
<1> USE DEF TypeOK, Simple, SameScript, disk, Enter, Leave
<1>1. CASE Command \/ Update \/ Boot \/ BootRega
  BY <1>1 DEF Command, Update, Boot, BootRega
<1>2. CASE StartDir \/ StartLink \/ StartRc
  BY <1>2, DaemonAssumption DEF StartDir, StartLink, StartRc
<1>3. CASE StartRun \/ RestartRun
  BY <1>3 DEF StartRun, RestartRun, Launch, Enlist
<1>4. CASE StopTerm \/ StopKill \/ KillAll
  BY <1>4 DEF StopTerm, StopKill, KillAll
<1>5. CASE IflSed \/ UnMenu \/ UnLink \/ RmFiles \/ RmDir \/ UnRc
  BY <1>5 DEF IflSed, Unlist, UnMenu, UnLink, RmFiles, RmDir, UnRc
<1>6. CASE RmOld \/ RmDaemon \/ RmLink \/ Copy \/ CopyRc \/ Relink \/ AddMenu
  BY <1>6 DEF RmOld, RmDaemon, RmLink, Copy, CopyRc, Relink, AddMenu
<1>7. CASE CheckRega \/ CallStop \/ CallStart \/ RegaOn \/ Updated
  BY <1>7 DEF CheckRega, CallStop, CallStart, RegaOn, Updated
<1>8. CASE Ends \/ Crash \/ UNCHANGED vars
  BY <1>8 DEF Ends, Crash, vars
<1> QED
  BY <1>1, <1>2, <1>3, <1>4, <1>5, <1>6, <1>7, <1>8 DEF Next, Script

LEMMA PlacesNext == TypeOK /\ [Next]_vars => pc' \in Places /\ ret' \in Places
<1> SUFFICES ASSUME TypeOK, [Next]_vars PROVE pc' \in Places /\ ret' \in Places
  OBVIOUS
<1> USE PlacesAre DEF TypeOK, Goto, SameScript, Enter, Leave
<1>1. CASE Command \/ Update \/ Boot \/ BootRega
  BY <1>1 DEF Command, Update, Boot, BootRega
<1>2. CASE StartDir \/ StartLink \/ StartRc \/ StartRun \/ RestartRun
  BY <1>2 DEF StartDir, StartLink, StartRc, StartRun, RestartRun
<1>3. CASE StopTerm \/ StopKill \/ KillAll
  BY <1>3 DEF StopTerm, StopKill, KillAll
<1>4. CASE IflSed \/ UnMenu \/ UnLink \/ RmFiles \/ RmDir \/ UnRc
  BY <1>4 DEF IflSed, UnMenu, UnLink, RmFiles, RmDir, UnRc
<1>5. CASE RmOld \/ RmDaemon \/ RmLink \/ CopyRc \/ Relink \/ AddMenu
  BY <1>5, CopyingAre DEF RmOld, RmDaemon, RmLink, CopyRc, Relink, AddMenu
<1>6. CASE Copy
  BY <1>6, CopyCases DEF Copy, CopyOf
<1>7. CASE CheckRega \/ CallStop \/ CallStart \/ RegaOn \/ Updated
  BY <1>7 DEF CheckRega, CallStop, CallStart, RegaOn, Updated
<1>8. CASE Ends \/ Crash \/ UNCHANGED vars
  BY <1>8 DEF Ends, Crash, vars
<1> QED
  BY <1>1, <1>2, <1>3, <1>4, <1>5, <1>6, <1>7, <1>8 DEF Next, Script

LEMMA FilesNext == TypeOK /\ [Next]_vars => file' \in [Files -> Copies] /\ rcs' \in Copies
<1> SUFFICES ASSUME TypeOK, [Next]_vars PROVE file' \in [Files -> Copies] /\ rcs' \in Copies
  OBVIOUS
<1> USE DEF TypeOK, disk, Copies
<1>1. CASE RmFiles \/ RmOld \/ RmDaemon
  BY <1>1 DEF RmFiles, RmOld, RmDaemon
<1>2. CASE Copy
  BY <1>2, CopyCases DEF Copy, CopyOf
<1>3. CASE CopyRc
  BY <1>3 DEF CopyRc
<1>4. CASE StartRun \/ RestartRun
  BY <1>4 DEF StartRun, RestartRun
<1>5. CASE Command \/ Update \/ Boot \/ BootRega \/ StartDir \/ StartLink \/ StartRc
  BY <1>5 DEF Command, Update, Boot, BootRega, StartDir, StartLink, StartRc
<1>6. CASE StopTerm \/ StopKill \/ KillAll \/ IflSed \/ UnMenu \/ UnLink \/ RmDir \/ UnRc
  BY <1>6 DEF StopTerm, StopKill, KillAll, IflSed, UnMenu, UnLink, RmDir, UnRc
<1>7. CASE RmLink \/ Relink \/ AddMenu \/ CheckRega \/ CallStop \/ CallStart \/ RegaOn \/ Updated
  BY <1>7 DEF RmLink, Relink, AddMenu, CheckRega, CallStop, CallStart, RegaOn, Updated
<1>8. CASE Ends \/ Crash \/ UNCHANGED vars
  BY <1>8 DEF Ends, Crash, vars
<1> QED
  BY <1>1, <1>2, <1>3, <1>4, <1>5, <1>6, <1>7, <1>8 DEF Next, Script

LEMMA ProcessesNext ==
  TypeOK /\ [Next]_vars =>
    /\ daemon' \in [Pids -> {"none", "old", "new", "dying"}]
    /\ pspid' \subseteq Pids /\ crashes' \in 0..MaxCrashes
<1> SUFFICES ASSUME TypeOK, [Next]_vars
             PROVE  /\ daemon' \in [Pids -> {"none", "old", "new", "dying"}]
                    /\ pspid' \subseteq Pids /\ crashes' \in 0..MaxCrashes
  OBVIOUS
<1> USE DEF TypeOK, SameScript, Enter, Leave, Listed
<1>1. CASE StartRun \/ RestartRun
  BY <1>1, LaunchType DEF StartRun, RestartRun
<1>2. CASE StopTerm \/ StopKill \/ KillAll
  BY <1>2 DEF StopTerm, StopKill, KillAll
<1>3. CASE Ends
  BY <1>3 DEF Ends
<1>4. CASE Crash
  BY <1>4, DaemonAssumption DEF Crash
<1>5. CASE Command \/ Update \/ Boot \/ BootRega \/ StartDir \/ StartLink \/ StartRc
  BY <1>5 DEF Command, Update, Boot, BootRega, StartDir, StartLink, StartRc
<1>6. CASE IflSed \/ UnMenu \/ UnLink \/ RmFiles \/ RmDir \/ UnRc
  BY <1>6 DEF IflSed, UnMenu, UnLink, RmFiles, RmDir, UnRc
<1>7. CASE RmOld \/ RmDaemon \/ RmLink \/ Copy \/ CopyRc \/ Relink \/ AddMenu
  BY <1>7 DEF RmOld, RmDaemon, RmLink, Copy, CopyRc, Relink, AddMenu
<1>8. CASE CheckRega \/ CallStop \/ CallStart \/ RegaOn \/ Updated
  BY <1>8 DEF CheckRega, CallStop, CallStart, RegaOn, Updated
<1>9. CASE UNCHANGED vars
  BY <1>9 DEF vars
<1> QED
  BY <1>1, <1>2, <1>3, <1>4, <1>5, <1>6, <1>7, <1>8, <1>9 DEF Next, Script

LEMMA TypeNext == IInv /\ [Next]_vars => TypeOK'
  BY SimpleNext, PlacesNext, FilesNext, ProcessesNext DEF IInv, TypeOK, Simple

LEMMA ReturnsNext == IInv /\ [Next]_vars => Returns'
<1> SUFFICES ASSUME IInv, [Next]_vars PROVE Returns'
  OBVIOUS
<1> USE DEF IInv, Returns, Goto, SameScript, disk, Enter, Leave, StartPlaces, StopPlaces
<1>1. CASE Command \/ Update \/ Boot \/ BootRega
  BY <1>1 DEF Command, Update, Boot, BootRega
<1>2. CASE StartDir \/ StartLink \/ StartRc \/ StartRun \/ RestartRun
  BY <1>2 DEF StartDir, StartLink, StartRc, StartRun, RestartRun
<1>3. CASE StopTerm \/ StopKill \/ KillAll
  BY <1>3 DEF StopTerm, StopKill, KillAll
<1>4. CASE IflSed \/ UnMenu \/ UnLink \/ RmFiles \/ RmDir \/ UnRc
  BY <1>4 DEF IflSed, UnMenu, UnLink, RmFiles, RmDir, UnRc
<1>5. CASE RmOld \/ RmDaemon \/ RmLink \/ CopyRc \/ Relink \/ AddMenu
  BY <1>5 DEF RmOld, RmDaemon, RmLink, CopyRc, Relink, AddMenu
<1>6. CASE Copy
  BY <1>6, CopyCases DEF Copy, CopyOf
<1>7. CASE CheckRega \/ CallStop \/ CallStart \/ RegaOn \/ Updated
  BY <1>7 DEF CheckRega, CallStop, CallStart, RegaOn, Updated
<1>8. CASE Ends \/ Crash \/ UNCHANGED vars
  BY <1>8 DEF Ends, Crash, vars
<1> QED
  BY <1>1, <1>2, <1>3, <1>4, <1>5, <1>6, <1>7, <1>8 DEF Next, Script

LEMMA OnDiskNext == IInv /\ [Next]_vars => OnDisk'
<1> SUFFICES ASSUME IInv, [Next]_vars PROVE OnDisk'
  OBVIOUS
<1> USE DEF IInv, OnDisk, NoDanglingPage, UpdatePlaces, Returns, StartPlaces, StopPlaces, Goto, SameScript, disk, Enter, Leave
<1>1. CASE Command \/ Update \/ Boot \/ BootRega
  BY <1>1 DEF Command, Update, Boot, BootRega
<1>2. CASE StartDir \/ StartLink \/ StartRc \/ StartRun \/ RestartRun
  BY <1>2 DEF StartDir, StartLink, StartRc, StartRun, RestartRun
<1>3. CASE StopTerm \/ StopKill \/ KillAll
  BY <1>3 DEF StopTerm, StopKill, KillAll
<1>4. CASE IflSed \/ UnLink \/ RmFiles \/ RmDir \/ UnRc
  BY <1>4 DEF IflSed, UnLink, RmFiles, RmDir, UnRc
<1>5. CASE UnMenu
  BY <1>5 DEF UnMenu
<1>6. CASE RmOld \/ RmDaemon \/ RmLink \/ CopyRc \/ Relink \/ AddMenu
  BY <1>6 DEF RmOld, RmDaemon, RmLink, CopyRc, Relink, AddMenu, Copying
<1>7. CASE Copy
  BY <1>7, CopyCases DEF Copy, CopyOf
<1>8. CASE CheckRega \/ CallStop \/ CallStart \/ RegaOn \/ Updated
  BY <1>8 DEF CheckRega, CallStop, CallStart, RegaOn, Updated
<1>9. CASE Ends \/ Crash \/ UNCHANGED vars
  BY <1>9 DEF Ends, Crash, vars
<1> QED
  BY <1>1, <1>2, <1>3, <1>4, <1>5, <1>6, <1>7, <1>8, <1>9 DEF Next, Script

LEMMA CopiedNext == IInv /\ [Next]_vars => Copied'
<1> SUFFICES ASSUME IInv, [Next]_vars PROVE Copied'
  OBVIOUS
<1> USE DEF IInv, TypeOK, Copied, Returns, StartPlaces, StopPlaces, Goto, SameScript, disk, Enter, Leave
<1>1. CASE Command \/ Update \/ Boot \/ BootRega
  BY <1>1 DEF Command, Update, Boot, BootRega
<1>2. CASE StartDir \/ StartLink \/ StartRc \/ StartRun \/ RestartRun
  BY <1>2 DEF StartDir, StartLink, StartRc, StartRun, RestartRun
<1>3. CASE StopTerm \/ StopKill \/ KillAll
  BY <1>3 DEF StopTerm, StopKill, KillAll
<1>4. CASE IflSed \/ UnMenu \/ UnLink \/ RmFiles \/ RmDir \/ UnRc
  BY <1>4 DEF IflSed, UnMenu, UnLink, RmFiles, RmDir, UnRc
<1>5. CASE RmOld \/ RmDaemon \/ RmLink \/ CopyRc \/ Relink \/ AddMenu
  BY <1>5, FilesAre DEF RmOld, RmDaemon, RmLink, CopyRc, Relink, AddMenu, Copying
<1>6. CASE Copy
  BY <1>6, CopyCases, FilesAre DEF Copy, CopyOf
<1>7. CASE CheckRega \/ CallStop \/ CallStart \/ RegaOn \/ Updated
  BY <1>7 DEF CheckRega, CallStop, CallStart, RegaOn, Updated
<1>8. CASE Ends \/ Crash \/ UNCHANGED vars
  BY <1>8 DEF Ends, Crash, vars
<1> QED
  BY <1>1, <1>2, <1>3, <1>4, <1>5, <1>6, <1>7, <1>8 DEF Next, Script

LEMMA BootHealsNext == IInv /\ [Next]_vars => BootHeals'
<1> SUFFICES ASSUME IInv, [Next]_vars PROVE BootHeals'
  OBVIOUS
<1> USE DEF IInv, BootHeals, OnDisk, Returns, StartPlaces, StopPlaces, Goto, SameScript, disk, Enter, Leave
<1>1. CASE Command \/ Update \/ Boot \/ BootRega
  BY <1>1 DEF Command, Update, Boot, BootRega
<1>2. CASE StartDir \/ StartLink \/ StartRc \/ StartRun \/ RestartRun
  BY <1>2 DEF StartDir, StartLink, StartRc, StartRun, RestartRun
<1>3. CASE StopTerm \/ StopKill \/ KillAll
  BY <1>3 DEF StopTerm, StopKill, KillAll
<1>4. CASE IflSed \/ UnMenu \/ UnLink \/ RmFiles \/ RmDir \/ UnRc
  BY <1>4 DEF IflSed, UnMenu, UnLink, RmFiles, RmDir, UnRc
<1>5. CASE RmOld \/ RmDaemon \/ RmLink \/ CopyRc \/ Relink \/ AddMenu
  BY <1>5 DEF RmOld, RmDaemon, RmLink, CopyRc, Relink, AddMenu, Copying
<1>6. CASE Copy
  BY <1>6, CopyCases DEF Copy, CopyOf
<1>7. CASE CheckRega \/ CallStop \/ CallStart \/ RegaOn \/ Updated
  BY <1>7 DEF CheckRega, CallStop, CallStart, RegaOn, Updated
<1>8. CASE Ends \/ Crash \/ UNCHANGED vars
  BY <1>8 DEF Ends, Crash, vars
<1> QED
  BY <1>1, <1>2, <1>3, <1>4, <1>5, <1>6, <1>7, <1>8 DEF Next, Script

\* A step that starts no process: what runs afterwards has run before.
LEMMA FewerRun ==
  ASSUME \A p \in Pids : daemon'[p] \in {daemon[p], "none", "dying"}
  PROVE  Running' \subseteq Running /\ (AtMostOne => AtMostOne')
  BY DEF Running, AtMostOne

LEMMA FewerListed ==
  ASSUME \A p \in Pids : daemon'[p] \in {daemon[p], "none"}
  PROVE  Listed' \subseteq Listed
  BY DEF Listed

LEMMA RunningListed == Running \subseteq Listed
  BY DEF Running, Listed

\* When nothing runs, at most one process does after a launch.
LEMMA LaunchOne ==
  ASSUME TypeOK, Launch, Running = {}
  PROVE  AtMostOne'
<1>1. PICK p \in Pids : \A q \in Pids : q # p => daemon'[q] = daemon[q]
  BY LaunchType
<1>2. Running' \subseteq {p}
  BY <1>1 DEF Running
<1> QED
  BY <1>2 DEF AtMostOne

\* A start that sees no process and has the daemon's files starts one.
LEMMA LaunchServes ==
  ASSUME TypeOK, Launch, Listed = {}, \A f \in Files : file[f] = "new"
  PROVE  Running' # {}
<1>1. PICK p \in Pids : daemon' = [daemon EXCEPT ![p] = "new"]
  BY DaemonAssumption, FilesAre DEF Launch
<1> QED
  BY <1>1 DEF Running, TypeOK

\* KILL leaves nothing running that PSPID knows of.
LEMMA KilledAll ==
  ASSUME StopKill, Listed \subseteq pspid
  PROVE  Running' = {} /\ AtMostOne'
<1>1. \A p \in Pids : daemon'[p] = IF p \in pspid /\ p \in Running THEN "dying" ELSE daemon[p]
  BY DEF StopKill
<1>2. ASSUME NEW p \in Pids PROVE daemon'[p] \notin {"old", "new"}
  BY <1>1, RunningListed DEF Running
<1> QED
  BY <1>2 DEF Running, AtMostOne

\* The steps that touch no process.
Quiet ==
  \/ Command \/ Update \/ StartDir \/ StartLink \/ StartRc \/ IflSed \/ UnMenu \/ UnLink
  \/ RmFiles \/ RmDir \/ UnRc \/ RmOld \/ RmDaemon \/ RmLink \/ Copy \/ CopyRc \/ Relink
  \/ AddMenu \/ CheckRega \/ CallStop \/ CallStart \/ RegaOn \/ Updated \/ Boot \/ BootRega

LEMMA QuietKeeps == Quiet => daemon' = daemon
<1>1. ASSUME Command \/ Update \/ StartDir \/ StartLink \/ StartRc \/ IflSed \/ UnMenu
             \/ UnLink \/ RmFiles \/ RmDir \/ UnRc
      PROVE  daemon' = daemon
  BY <1>1 DEF Command, Update, StartDir, StartLink, StartRc, IflSed, UnMenu, UnLink, RmFiles,
              RmDir, UnRc
<1>2. ASSUME RmOld \/ RmDaemon \/ RmLink \/ Copy \/ CopyRc \/ Relink \/ AddMenu \/ CheckRega
             \/ CallStop \/ CallStart \/ RegaOn \/ Updated \/ Boot \/ BootRega
      PROVE  daemon' = daemon
  BY <1>2 DEF RmOld, RmDaemon, RmLink, Copy, CopyRc, Relink, AddMenu, CheckRega, CallStop,
              CallStart, RegaOn, Updated, Boot, BootRega
<1> QED
  BY <1>1, <1>2 DEF Quiet

LEMMA NextCases ==
  [Next]_vars =>
    \/ Quiet \/ StartRun \/ RestartRun \/ StopTerm \/ StopKill \/ KillAll \/ Ends \/ Crash
    \/ UNCHANGED vars
  BY DEF Next, Script, Quiet

\* What a quiet step leaves in PSPID: what it has been, or what ps now shows.
LEMMA QuietPlaces ==
  IInv /\ Quiet =>
    /\ pc' # "restartrun"
    /\ pc' \in StartPlaces \cup StopPlaces =>
         \/ pspid' = Listed
         \/ pspid' = pspid /\ pc \in StartPlaces \cup StopPlaces
<1> SUFFICES ASSUME IInv, Quiet
             PROVE  /\ pc' # "restartrun"
                    /\ pc' \in StartPlaces \cup StopPlaces =>
                         \/ pspid' = Listed
                         \/ pspid' = pspid /\ pc \in StartPlaces \cup StopPlaces
  OBVIOUS
<1> USE DEF IInv, Returns, Known, Goto, SameScript, Enter, Leave, StartPlaces, StopPlaces
<1>1. CASE Command \/ Update \/ Boot \/ BootRega
  BY <1>1 DEF Command, Update, Boot, BootRega
<1>2. CASE StartDir \/ StartLink \/ StartRc
  BY <1>2 DEF StartDir, StartLink, StartRc
<1>3. CASE IflSed \/ UnMenu \/ UnLink \/ RmFiles \/ RmDir \/ UnRc
  BY <1>3 DEF IflSed, UnMenu, UnLink, RmFiles, RmDir, UnRc
<1>4. CASE RmOld \/ RmDaemon \/ RmLink \/ CopyRc \/ Relink \/ AddMenu
  BY <1>4 DEF RmOld, RmDaemon, RmLink, CopyRc, Relink, AddMenu, Copying
<1>5. CASE Copy
  BY <1>5, CopyCases DEF Copy, CopyOf
<1>6. CASE CheckRega \/ CallStop \/ CallStart \/ RegaOn \/ Updated
  BY <1>6 DEF CheckRega, CallStop, CallStart, RegaOn, Updated
<1> QED
  BY <1>1, <1>2, <1>3, <1>4, <1>5, <1>6 DEF Quiet

LEMMA KnownNext == IInv /\ [Next]_vars => Known'
<1> SUFFICES ASSUME IInv, [Next]_vars PROVE Known'
  OBVIOUS
<1>1. TypeOK /\ Known /\ Returns
  BY DEF IInv
<1>2. ASSUME Quiet PROVE Known'
  <2>1. Running' = Running /\ Listed' = Listed /\ AtMostOne'
    BY <1>1, <1>2, QuietKeeps DEF Running, Listed, AtMostOne, Known
  <2> QED
    BY <1>1, <1>2, <2>1, QuietPlaces DEF Known
<1>3. ASSUME StartRun PROVE Known'
  <2>1. AtMostOne'
    <3>1. CASE pspid = {}
      BY <1>1, <1>3, <3>1, LaunchOne, RunningListed DEF StartRun, Known, StartPlaces
    <3>2. CASE pspid # {}
      BY <1>1, <1>3, <3>2 DEF StartRun, Known, AtMostOne, Running
    <3> QED
      BY <3>1, <3>2
  <2>2. pc' \notin StartPlaces \cup StopPlaces \cup {"restartrun"}
    BY <1>1, <1>3 DEF StartRun, Leave, Returns, StartPlaces, StopPlaces
  <2> QED
    BY <2>1, <2>2 DEF Known
<1>4. ASSUME RestartRun PROVE Known'
  <2>1. AtMostOne'
    BY <1>1, <1>4, LaunchOne DEF RestartRun, Known, AtMostOne, Running
  <2>2. pc' \notin StartPlaces \cup StopPlaces \cup {"restartrun"}
    BY <1>1, <1>4 DEF RestartRun, Leave, Returns, StartPlaces, StopPlaces
  <2> QED
    BY <2>1, <2>2 DEF Known
<1>5. ASSUME StopTerm PROVE Known'
  <2>1. Running' \subseteq Running /\ AtMostOne'
    BY <1>1, <1>5, FewerRun DEF StopTerm, Known, TypeOK
  <2>2. pc = "stop" /\ pc' = "stopkill" /\ pspid' = pspid
    BY <1>5 DEF StopTerm, Goto, SameScript
  <2>3. Listed' \subseteq Listed
    BY <1>1, <1>5, FewerListed DEF StopTerm, TypeOK
  <2> QED
    BY <1>1, <2>1, <2>2, <2>3 DEF Known, StopPlaces
<1>6. ASSUME StopKill PROVE Known'
  <2>1. Running' = {} /\ AtMostOne'
    BY <1>1, <1>6, KilledAll DEF Known, StopKill, StopPlaces
  <2>2. pc' \notin StartPlaces \cup StopPlaces
    BY <1>1, <1>6 DEF StopKill, Leave, Returns, StartPlaces, StopPlaces
  <2> QED
    BY <2>1, <2>2 DEF Known
<1>7. ASSUME KillAll PROVE Known'
  <2>1. AtMostOne'
    BY <1>1, <1>7, FewerRun DEF KillAll, Known, TypeOK
  <2> QED
    BY <1>7, <2>1 DEF Known, KillAll, Goto, StartPlaces, StopPlaces
<1>8. ASSUME Ends PROVE Known'
  <2>1. Running' \subseteq Running /\ AtMostOne'
    BY <1>1, <1>8, FewerRun DEF Ends, Known, TypeOK
  <2>2. Listed' \subseteq Listed
    BY <1>1, <1>8, FewerListed DEF Ends, TypeOK
  <2> QED
    BY <1>1, <1>8, <2>1, <2>2 DEF Known, Ends
<1>9. ASSUME Crash PROVE Known'
  <2>1. AtMostOne'
    BY <1>1, <1>9, FewerRun DEF Crash, Known, TypeOK
  <2> QED
    BY <1>9, <2>1 DEF Known, Crash, Goto, StartPlaces, StopPlaces
<1>10. ASSUME UNCHANGED vars PROVE Known'
  BY <1>1, <1>10 DEF vars, Known, AtMostOne, Running, Listed
<1> QED
  BY <1>2, <1>3, <1>4, <1>5, <1>6, <1>7, <1>8, <1>9, <1>10, NextCases

-----------------------------------------------------------------------------
(* What an update has repaired.                                             *)

\* The daemon's files and the add-on's place, which nothing but an update's steps touch
\* once it is at its last ones.
AllNew ==
  /\ \A f \in Files : file[f] = "new"
  /\ rcs = "new" /\ dir /\ link /\ menu

LEMMA AllNewNext == IInv /\ [Next]_vars => (InUpdate => AllNew)'
<1> SUFFICES ASSUME IInv, [Next]_vars PROVE (InUpdate => AllNew)'
  OBVIOUS
<1> USE DEF IInv, AllNew, InUpdate, Repaired, Returns, StartPlaces, StopPlaces, RegaPlaces,
            Goto, SameScript, disk, Enter, Leave
<1>1. CASE Command \/ Update \/ Boot \/ BootRega
  BY <1>1 DEF Command, Update, Boot, BootRega
<1>2. CASE StartDir \/ StartLink \/ StartRc
  BY <1>2 DEF StartDir, StartLink, StartRc
<1>3. CASE StartRun \/ RestartRun
  BY <1>3 DEF StartRun, RestartRun
<1>4. CASE StopTerm \/ StopKill \/ KillAll
  BY <1>4 DEF StopTerm, StopKill, KillAll
<1>5. CASE IflSed \/ UnMenu \/ UnLink \/ RmFiles \/ RmDir \/ UnRc
  BY <1>5 DEF IflSed, UnMenu, UnLink, RmFiles, RmDir, UnRc
<1>6. CASE RmOld \/ RmDaemon \/ RmLink \/ CopyRc \/ Relink
  BY <1>6 DEF RmOld, RmDaemon, RmLink, CopyRc, Relink, Copying
<1>7. CASE AddMenu
  BY <1>7, FilesAre DEF AddMenu, Copied, OnDisk, UpdatePlaces
<1>8. CASE Copy
  BY <1>8, CopyCases DEF Copy, CopyOf
<1>9. CASE CheckRega \/ CallStop \/ CallStart \/ RegaOn \/ Updated
  BY <1>9 DEF CheckRega, CallStop, CallStart, RegaOn, Updated
<1>10. CASE Ends \/ Crash \/ UNCHANGED vars
  BY <1>10 DEF Ends, Crash, vars
<1> QED
  BY <1>1, <1>2, <1>3, <1>4, <1>5, <1>6, <1>7, <1>8, <1>9, <1>10 DEF Next, Script

LEMMA FewerNew ==
  ASSUME \A p \in Pids : daemon'[p] \in {daemon[p], "none", "dying"}, NewOnly
  PROVE  NewOnly'
  BY DEF NewOnly, Running

LEMMA FewerServe ==
  ASSUME UNCHANGED <<daemon, pspid, died>>
  PROVE  (NewOnly => NewOnly') /\ (Serves => Serves')
  BY DEF NewOnly, Serves, Running

LEMMA RepairedNext == IInv /\ [Next]_vars => Repaired'
<1> SUFFICES ASSUME IInv, [Next]_vars PROVE Repaired'
  OBVIOUS
<1>1. /\ TypeOK /\ Returns /\ Known
      /\ pc = "callstart" => Running = {}
      /\ ret = "regaon" \/ pc = "regaon" => NewOnly
      /\ pc = "regaon" => Serves
      /\ pc = "updated" => /\ stopped => rega
                           /\ (rega /\ ifl # "missing") => NewOnly /\ Serves
      /\ InUpdate => dir /\ \A f \in Files : file[f] = "new"
  BY DEF IInv, Repaired
<1>2. /\ pc' = "callstart" => Running' = {}
      /\ ret' = "regaon" \/ pc' = "regaon" => NewOnly'
      /\ pc' = "regaon" => Serves'
      /\ pc' = "updated" => /\ stopped' => rega'
                            /\ (rega' /\ ifl' # "missing") => NewOnly' /\ Serves'
  <2> USE <1>1 DEF Returns, StartPlaces, StopPlaces, RegaPlaces, Goto, SameScript, Enter, Leave
  <2>1. CASE Quiet /\ ~(CheckRega \/ CallStart \/ RegaOn)
    <3>1. NewOnly' = NewOnly /\ Running' = Running
      BY <2>1, QuietKeeps DEF NewOnly, Running
    <3>2. CASE Command \/ Update \/ Boot \/ BootRega \/ StartDir \/ StartLink \/ StartRc
      BY <3>1, <3>2 DEF Command, Update, Boot, BootRega, StartDir, StartLink, StartRc, InUpdate
    <3>3. CASE IflSed \/ UnMenu \/ UnLink \/ RmFiles \/ RmDir \/ UnRc
      BY <3>1, <3>3 DEF IflSed, UnMenu, UnLink, RmFiles, RmDir, UnRc
    <3>4. CASE RmOld \/ RmDaemon \/ RmLink \/ CopyRc \/ Relink \/ AddMenu \/ CallStop \/ Updated
      BY <3>1, <3>4 DEF RmOld, RmDaemon, RmLink, CopyRc, Relink, AddMenu, CallStop, Updated, Copying
    <3>5. CASE Copy
      BY <3>1, <3>5, CopyCases DEF Copy, CopyOf
    <3> QED
      BY <2>1, <3>2, <3>3, <3>4, <3>5 DEF Quiet
  <2>2. CASE CheckRega
    <3>1. ret' = ret /\ pc = "checkrega"
      BY <2>2 DEF CheckRega
    <3>2. \/ pc' = "callstop"
          \/ pc' = "updated" /\ ~(rega' /\ ifl' # "missing") /\ (stopped' => rega')
      BY <2>2 DEF CheckRega, disk, TypeOK
    <3> QED
      BY <3>1, <3>2
  <2>3. CASE CallStart
    BY <2>3 DEF CallStart, NewOnly, Running
  <2>4. CASE RegaOn
    <3>1. pc = "regaon" /\ pc' = "updated" /\ ret' = ret /\ (stopped' => rega')
      BY <2>4 DEF RegaOn
    <3>2. NewOnly' /\ Serves'
      BY <2>4, <3>1, FewerServe DEF RegaOn
    <3> QED
      BY <3>1, <3>2
  <2>5. CASE StartRun
    <3>1. pc' \in {"idle", "regaon", "bootrega"} /\ ret' = "idle"
      BY <2>5 DEF StartRun
    <3>2. pc' = "regaon" => NewOnly /\ \A f \in Files : file[f] = "new"
      BY <2>5 DEF StartRun, InUpdate
    <3>3. \A p \in Pids : daemon'[p] \in {daemon[p], file["cuxd"]}
      BY <2>5, LaunchType DEF StartRun
    <3>4. pc' = "regaon" => NewOnly'
      BY <3>2, <3>3, FilesAre DEF NewOnly, Running
    <3>5. pc' = "regaon" => Serves'
      <4>1. CASE pspid = {}
        <5>1. Launch /\ Listed = {}
          BY <2>5, <4>1 DEF StartRun, Known
        <5>2. pc' = "regaon" => Running' # {}
          BY <3>2, <5>1, LaunchServes
        <5> QED
          BY <5>2 DEF Serves
      <4>2. CASE pspid # {}
        BY <2>5, <4>2 DEF StartRun, Serves
      <4> QED
        BY <4>1, <4>2
    <3> QED
      BY <3>1, <3>4, <3>5
  <2>6. CASE RestartRun
    BY <2>6 DEF RestartRun
  <2>7. CASE StopTerm
    BY <2>7, FewerRun, FewerNew DEF StopTerm, TypeOK
  <2>8. CASE StopKill
    BY <2>8, KilledAll DEF StopKill, Known
  <2>9. CASE KillAll
    BY <2>9, FewerNew DEF KillAll, TypeOK
  <2>10. CASE Ends
    <3>1. pc' = pc /\ ret' = ret /\ pspid' = pspid /\ stopped' = stopped /\ UNCHANGED <<disk, rega>>
      BY <2>10 DEF Ends
    <3>2. (Running = {} => Running' = {}) /\ (NewOnly => NewOnly')
      BY <2>10, FewerRun, FewerNew DEF Ends, TypeOK
    <3>3. Serves => Serves'
      BY <2>10 DEF Ends, Serves, Running, TypeOK
    <3> QED
      BY <3>1, <3>2, <3>3 DEF disk
  <2>11. CASE Crash
    BY <2>11 DEF Crash
  <2>12. CASE UNCHANGED vars
    BY <2>12, FewerServe DEF vars, disk, Running
  <2> QED
    BY <2>1, <2>2, <2>3, <2>4, <2>5, <2>6, <2>7, <2>8, <2>9, <2>10, <2>11, <2>12, NextCases
<1> QED
  BY <1>2, AllNewNext DEF Repaired, AllNew

-----------------------------------------------------------------------------
(* The theorems.                                                            *)

\* The invariant holds throughout.
THEOREM Inductive == Spec => []IInv
<1>1. IInv /\ [Next]_vars => IInv'
  BY TypeNext, ReturnsNext, KnownNext, OnDiskNext, CopiedNext, RepairedNext, BootHealsNext
     DEF IInv
<1> QED
  BY <1>1, InitInv, PTL DEF Spec

\* The state keeps its type whatever the scripts, the processes and the reboots do.
THEOREM TypeCorrect == Spec => []TypeOK
<1>1. IInv => TypeOK
  BY DEF IInv
<1> QED
  BY <1>1, Inductive, PTL

LEMMA OneIsOne == AtMostOne => OneDaemon
<1> SUFFICES ASSUME AtMostOne PROVE Cardinality(Running) <= 1
  BY DEF OneDaemon
<1>1. CASE Running = {}
  BY <1>1, FS_EmptySet
<1>2. CASE Running # {}
  <2>1. PICK p \in Running : Running = {p}
    BY <1>2 DEF AtMostOne
  <2>2. Cardinality({p}) = 1
    BY FS_Singleton
  <2> QED
    BY <2>1, <2>2
<1> QED
  BY <1>1, <1>2

\* There is never a second daemon beside a running one: start looks at PSPID before it
\* launches, and restart comes after a KILL, in ccu3/rc.d/cuxdaemon.
THEOREM NeverTwoDaemons == Spec => []OneDaemon
<1>1. IInv => OneDaemon
  BY OneIsOne DEF IInv, Known
<1> QED
  BY <1>1, Inductive, PTL

\* No link to the page and no entry of the menu outlives the directory, but for an entry
\* that an uninstall without its tool could not remove.
THEOREM NoPageDangles == Spec => []NoDanglingPage
<1>1. IInv => NoDanglingPage
  BY DEF IInv, OnDisk
<1> QED
  BY <1>1, Inductive, PTL

\* update_script leaves the whole new package, linked and in the menu, and ReGaHss as it
\* was, whatever reboots have cut short before.  If ReGaHss runs and InterfacesList.xml is
\* there, no daemon of the old version is left, and the new one runs unless start saw a
\* killed one in PSPID or the new one ended by itself.
THEOREM UpdatesRepair == Spec => []UpdateRepairs
<1>1. IInv => UpdateRepairs
  BY DEF IInv, Repaired, NewOnly, Serves, InUpdate, RegaPlaces, UpdateRepairs
<1> QED
  BY <1>1, Inductive, PTL

\* A boot that starts the add-on restores the links that the firmware needs.
THEOREM BootsHeal == Spec => []BootHeals
<1>1. IInv => BootHeals
  BY DEF IInv
<1> QED
  BY <1>1, Inductive, PTL

=============================================================================
