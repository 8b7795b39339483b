------------------------------ MODULE QspiBoot ------------------------------
(***************************************************************************)
(* The system from reset on: the driver task identifies the chip           *)
(* (QspiInit) while tasks already open and read files (YaRomfs).  Their    *)
(* reads wait in the command queue until the task reaches its command      *)
(* loop; then it serves them, in any order, with whatever chip there is.   *)
(* A reset of the MCU takes the readers with it.                           *)
(***************************************************************************)
EXTENDS QspiInit, YaRomfs

vars == <<initVars, romVars>>

Init == InitBoot /\ InitReaders

(* The chip answers as the driver expects: four lines, 4 byte addresses. *)
Configured == chip.present /\ chip.lines = 4 /\ chip.addrBytes = 4

(* What a bus reads as that no chip drives. *)
Garbage == <<"garbage", 0>>

(* processRead for one of the waiting calls.  The answer is the chip's only *)
(* if it understands the command and is not busy.                          *)
Serve(r) ==
    /\ ipc = "loop"
    /\ FreadReturns(r, [i \in 1 .. want[r] |->
           IF Configured /\ ~chip.WIP THEN Content(file[r], position[r] + i - 1)
           ELSE Garbage])
    /\ UNCHANGED initVars

ReaderStep(r) ==
    /\ Poll(r, drivStatus = "READY") \/ Fopen(r) \/ Fread(r) \/ Fclose(r)
    /\ UNCHANGED initVars

Reset ==
    /\ Restart
    /\ ResetReaders

Next ==
    \/ BootStep /\ UNCHANGED romVars
    \/ \E r \in Reader : ReaderStep(r) \/ Serve(r)
    \/ Reset

Spec == Init /\ [][Next]_vars

-----------------------------------------------------------------------------
(* Safety. *)

(* Type invariant. *)
TypeOK ==
    /\ ipc \in {"drvInit", "reset", "tcWait", "DR", "addrWait", "quadWait",
                "delay", "loop", "change"}
    /\ attempt \in 1 .. 2
    /\ id \in Seq({"manId", "memType", "memCapacity", "none"}) /\ Len(id) <= 3
    /\ found \in BOOLEAN
    /\ drivStatus \in {"INIT", "INIT_ERR", "READY"}
    /\ ctl \in [ins : {"NONE", "RST_QUAD", "RDID", "EN4BYTEADDR", "ENT_QUAD"},
                left : 0 .. 3, heard : BOOLEAN]
    /\ tcf \in BOOLEAN
    /\ fifo \in Seq({"manId", "memType", "memCapacity", "none"})
    /\ chip \in [present : BOOLEAN, lines : {1, 4}, addrBytes : {3, 4}, WIP : BOOLEAN]
    /\ bootBusy \in BOOLEAN /\ polled \in BOOLEAN /\ restarts \in 0 .. MaxRestarts
    /\ rpc \in [Reader -> {"poll", "closed", "open", "reading", "undefined"}]
    /\ file \in [Reader -> File \cup {NoFile}]
    /\ position \in [Reader -> Nat] /\ want \in [Reader -> Nat]
    /\ ended \in [Reader -> BOOLEAN]

(* drvInit gives the controller a command only when it has none and its     *)
(* FIFO is empty, although it never clears TCF, so that its wait at        *)
(* drivQSPI.c:191 ends before the first identification byte has arrived,   *)
(* and does not spin on BUSY before EN4BYTEADDR (drivQSPI.c:198).          *)
CommandsFindBusFree == [][ctl'.ins # "NONE" /\ ctl.ins # ctl'.ins => ~Busy]_vars

(* In the command loop the chip is in quad I/O with 4 byte addresses, the   *)
(* mode every later command relies on, whatever mode a reset found it in   *)
(* and whichever attempt succeeded; unless drvInit failed twice and the    *)
(* delay of portMAX_DELAY ticks has ended (drivQSPI.c:496).                *)
ReadyMeansConfigured ==
    drivStatus = "READY" => Configured \/ ~found

(* drvInit fails twice only on a board without the chip, or after a reset   *)
(* in the middle of a program or an erase: the quad I/O mode a reset       *)
(* leaves the chip in never makes it unrecognisable.                       *)
FailureExplained == drivStatus = "INIT_ERR" => ~chip.present \/ bootBusy

(* "No Flash device found" (drivQSPI.c:494) is said of a board without one. *)
NotFoundMeansAbsent == drivStatus = "INIT_ERR" => ~chip.present

(* Once the chip has been identified, what a reader has got since it opened *)
(* its file is that file up to its position, in order and with no byte     *)
(* missing or twice, for reads of any lengths interleaved with those of    *)
(* other readers, with erases and DMA programs, and with resets.  After a  *)
(* program of at most DMA_THRESHOLD bytes, which drivQSPI.c:315-334 does   *)
(* not wait for, a byte may instead be what an undriven bus reads as.      *)
DeliveredIsFile ==
    \A r \in Reader : found =>
        /\ Len(got[r]) = position[r]
        /\ \A i \in 1 .. position[r] :
              \/ got[r][i] = Content(file[r], i - 1)
              \/ polled /\ got[r][i] = Garbage

(* A fread that returns 0 means the end of the file, if the flash holds all *)
(* of it; of an error (yaRomfsCore.c:45) it says the same.                 *)
EndMeansWhole ==
    \A r \in Reader :
        /\ ended[r]
        /\ file[r].script \/ file[r].addr + file[r].length <= QSPI_FLASH_SIZE
        => position[r] = file[r].length

-----------------------------------------------------------------------------
(* Liveness. *)

(* The driver task outranks the readers, the bus is clocked, the chip ends  *)
(* what it started.  Between two pages or erases the task takes a read if  *)
(* one waits, since reads precede writes in the queue (ReadsBeforeWrites   *)
(* of QspiDriver): hence the strong fairness.  No reader has to do         *)
(* anything, and neither the reset nor the 49.7 days have to come.         *)
FairSpec ==
    /\ Spec
    /\ WF_vars(DriverStep /\ UNCHANGED <<historyVars, romVars>>)
    /\ WF_vars(BusStep /\ UNCHANGED <<historyVars, romVars>>)
    /\ SF_vars(\E r \in Reader : Serve(r))

(* drvInit never hangs, chip or no chip: a reset is followed by READY or    *)
(* INIT_ERR.                                                               *)
Settles == drivStatus = "INIT" ~> drivStatus # "INIT"

(* A reader that calls before the driver is READY is blocked, and served    *)
(* as soon as it is: only a failed identification, or other readers that   *)
(* keep the driver busy, can hold it up.                                   *)
ReadersServed ==
    \A r \in Reader : rpc[r] = "reading" ~>
        \/ rpc[r] # "reading" \/ drivStatus = "INIT_ERR"
        \/ \E o \in Reader \ {r} : rpc[o] = "reading"
=============================================================================
