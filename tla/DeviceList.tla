------------------------------ MODULE DeviceList ------------------------------
(***************************************************************************)
(* What owFirst and owNext promise their caller: a walk over the 1-Wire    *)
(* net reports the devices one by one, each once, the least of those not   *)
(* yet reported first, and says that it is at the end when none is left.   *)
(* A call may be lost on the way.  If devices come or go in the middle of  *)
(* a walk, what this walk goes on to report is not promised.               *)
(***************************************************************************)
EXTENDS RomOrder

VARIABLES
  net,     \* the devices connected
  found,   \* those reported by this walk
  ret,     \* the answer to the last call
  steady   \* net has not changed since this walk began

vars == <<net, found, ret, steady>>

Answers == {"none", "found", "end", "error", "lost"}

Init ==
  /\ net \in SUBSET Roms
  /\ found = {} /\ ret = "none" /\ steady = TRUE

\* A walk begins, with the net as it is now.
Start ==
  /\ found' = {} /\ steady' = TRUE
  /\ UNCHANGED <<net, ret>>

Report ==
  /\ steady
  /\ \E r \in net \ found :
       /\ \A q \in net \ found : q = r \/ Before(r, q)
       /\ found' = found \cup {r}
  /\ ret' = "found"
  /\ UNCHANGED <<net, steady>>

\* FALSE, which with no device on the net may look like an error.
End ==
  /\ steady /\ found = net
  /\ ret' = "end" \/ (net = {} /\ ret' = "error")
  /\ UNCHANGED <<net, found, steady>>

Lose ==
  /\ ret' = "lost"
  /\ UNCHANGED <<net, found, steady>>

\* Devices come or go, or the line is disturbed.
Change ==
  /\ net' \in SUBSET Roms /\ steady' = FALSE
  /\ UNCHANGED <<found, ret>>

\* The answer to a walk over a net that has changed.  It may even name a device
\* that does not exist.
Confused ==
  /\ ~steady
  /\ found' \in SUBSET Code /\ ret' \in Answers
  /\ UNCHANGED <<net, steady>>

Next == Start \/ Report \/ End \/ Lose \/ Change \/ Confused

Spec == Init /\ [][Next]_vars

=============================================================================
