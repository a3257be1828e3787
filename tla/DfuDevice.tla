------------------------------ MODULE DfuDevice ------------------------------
(***************************************************************************)
(* The bootloader of an STM32 as dfu.c and stm32.c use it, and as the      *)
(* comment at the end of dfu-device.h describes it: a DFU state machine    *)
(* with an address pointer.                                                *)
(*                                                                         *)
(* A download puts a command into the device; the status request that      *)
(* follows makes the device execute it, and the next one tells how it went.*)
(* wValue 0 is a command (set the pointer, erase, leave), wValue w > 1 is  *)
(* a block of memory at pointer + (w - 2) * transfer size.                 *)
(***************************************************************************)
EXTENDS Integers, Sequences, MemoryBytes

CONSTANTS
  Size,                     \* bytes of flash
  STM32_MAX_TRANSFER_SIZE,  \* 0x0800 in the code
  Commands                  \* the bytes an upload with wValue 0 gives

Cells == 0 .. Size - 1

ASSUME DeviceAssumption ==
  /\ Size \in Nat \ {0} /\ STM32_MAX_TRANSFER_SIZE \in Nat \ {0}
  /\ Commands \in Seq(Byte)

\* The DFU states of dfu.h, and "app" for a device that has left DFU mode.
States == {"idle", "dnSync", "dnBusy", "dnIdle", "upIdle", "manSync", "manifest",
           "waitReset", "error", "appIdle", "appDetach", "app"}

Todo == [op : {"none", "ptr", "erase", "write", "leave"}, at : Nat, bytes : Seq(Byte)]
Nothing == [bytes |-> <<>>, op |-> "none", at |-> 0]

\* ok: the status is DFU_STATUS_OK; todo: the download that has not been executed;
\* locked: read protection is on.
Device == [state : States, ok : BOOLEAN, ptr : Nat, todo : Todo,
           mem : [Cells -> Byte], locked : BOOLEAN]

Failed(d) == [d EXCEPT !.state = "error", !.ok = FALSE, !.todo = Nothing]
To(d, state) == [d EXCEPT !.state = state]

\* The states in which the code takes for granted that the device accepts a
\* download or an upload.
Ready == {"idle", "dnIdle", "upIdle"}

\* What may become of a device that gets a request it does not expect.
Refuses(d) == IF d.state = "app" THEN {d} ELSE {d, Failed(d)}

BlockAddress(d, w) == d.ptr + (w - 2) * STM32_MAX_TRANSFER_SIZE
BlockFits(d, w, n) == w >= 2 /\ BlockAddress(d, w) + n <= Size

\* The device after it has executed what it was told.
Execute(d) ==
  LET t    == d.todo
      done == [d EXCEPT !.state = "dnBusy", !.ok = TRUE, !.todo = Nothing]
      not  == [d EXCEPT !.state = "dnBusy", !.ok = FALSE, !.todo = Nothing]
      a    == BlockAddress(d, t.at)
  IN CASE t.op = "none"  -> done
       [] t.op = "ptr"   -> [done EXCEPT !.ptr = t.at]
       [] t.op = "leave" -> [done EXCEPT !.state = "app"]
       [] t.op = "erase" -> IF d.locked THEN not ELSE [done EXCEPT !.mem = [c \in Cells |-> Blank]]
       [] t.op = "write" ->
            IF d.locked \/ ~BlockFits(d, t.at, Len(t.bytes)) THEN not
            ELSE [done EXCEPT !.mem = [c \in Cells |-> IF c \in a .. a + Len(t.bytes) - 1
                                                        THEN t.bytes[c - a + 1] ELSE d.mem[c]]]

-----------------------------------------------------------------------------
(* Requests: the devices there may be afterwards.                           *)

\* DFU_DNLOAD
Dnload(d, todo) == [d EXCEPT !.state = "dnSync", !.todo = todo]

\* DFU_GETSTATUS: in two states it makes the device go on.
Polled(d) ==
  CASE d.state = "dnSync"  -> Execute(d)
    [] d.state = "dnBusy"  -> IF d.ok THEN To(d, "dnIdle") ELSE Failed(d)
    [] d.state = "manSync" -> To(d, "manifest")
    [] d.state = "manifest" -> To(d, "waitReset")
    [] OTHER -> d

\* The state and the status in the answer.
ToldState(d) ==
  IF d.state = "dnSync" THEN "dnBusy" ELSE Polled(d).state
ToldOk(d) == d.state = "dnSync" \/ Polled(d).ok

\* DFU_CLRSTATUS is meant for the error state.
Cleared(d) ==
  IF d.state = "error" THEN {[d EXCEPT !.state = "idle", !.ok = TRUE]} ELSE Refuses(d)

\* DFU_ABORT
Aborted(d) ==
  CASE d.state \in {"dnSync", "dnIdle", "upIdle", "manSync"} ->
         {[d EXCEPT !.state = "idle", !.todo = Nothing]}
    [] d.state \in {"dnBusy", "manifest"} -> {Failed(d)}
    [] d.state = "idle" -> {d}
    [] OTHER -> Refuses(d)

\* DFU_DETACH
Detached(d) == IF d.state = "appIdle" THEN {To(d, "appDetach")} ELSE Refuses(d)

\* A USB reset, or the plug taken out and put in again.
Restarted(d, state) == [d EXCEPT !.state = state, !.ok = TRUE, !.ptr = 0, !.todo = Nothing]
ResetStates(d) == IF d.state = "waitReset" THEN {"idle", "appIdle"} ELSE {"idle"}

\* DFU_UPLOAD of at most n bytes, and the bytes.
MayUpload(d, w, n) ==
  d.state \in Ready /\ (w = 0 \/ (BlockFits(d, w, n) /\ ~d.locked))
Uploaded(d, w, n) ==
  IF w = 0 THEN SubSeq(Commands, 1, IF n < Len(Commands) THEN n ELSE Len(Commands))
  ELSE [k \in 1..n |-> d.mem[BlockAddress(d, w) + k - 1]]
=============================================================================
