------------------------------ MODULE QspiInit ------------------------------
(***************************************************************************)
(* How the driver task gets from reset to its command loop: drvInit of     *)
(* qspi/drivQSPI.c, called at most twice by qspiTasks, against a chip that *)
(* outlives the MCU.  A reset restarts the task and the controller; the    *)
(* chip keeps its I/O mode, its address mode and the program or erase it   *)
(* is busy with, and hears none of drvInit's commands while it is.         *)
(*                                                                         *)
(* The controller and the chip are not in src/.  A command is heard by a   *)
(* chip that is there, not busy, and listens on the lines it is sent on.   *)
(* A read of DR waits for a byte as long as the command may deliver one.   *)
(***************************************************************************)
EXTENDS Integers, Sequences

CONSTANT MaxRestarts  \* bound on the resets of a behaviour

ASSUME RestartAssumption == MaxRestarts \in Nat

VARIABLES
    ipc,        \* where the driver task is in drvInit and qspiTasks
    attempt,    \* the first or the second call of drvInit
    id,         \* what it has read of the identification
    found,      \* what the last call of drvInit has returned
    drivStatus,
    ctl,        \* the command on the bus
    tcf,        \* the transfer complete flag of the controller
    fifo,       \* its FIFO
    chip,       \* lines it listens on, address bytes, WIP; may be absent
    bootBusy,   \* the chip was busy when the MCU was last reset
    polled,     \* a program without DMA has been made since
    restarts

taskVars == <<ipc, attempt, id, found, drivStatus>>
busVars == <<ctl, tcf, fifo, chip>>
historyVars == <<bootBusy, polled, restarts>>
initVars == <<taskVars, busVars, historyVars>>

(* JEDEC_MAN_ID, MICRON_3V_TYPE, MICRON_512Mb *)
ExpectedId == <<"manId", "memType", "memCapacity">>

NoCommand == [ins |-> "NONE", left |-> 0, heard |-> FALSE]

(* The chip after it was powered: instructions on one line, 3 byte addresses. *)
PoweredUp(p) == [present |-> p, lines |-> 1, addrBytes |-> 3, WIP |-> FALSE]

InitBoot ==
    /\ ipc = "drvInit" /\ attempt = 1 /\ id = <<>> /\ found = FALSE
    /\ drivStatus = "INIT"
    /\ ctl = NoCommand /\ tcf = FALSE /\ fifo = <<>>
    /\ chip \in {PoweredUp(p) : p \in BOOLEAN}
    /\ bootBusy = FALSE /\ polled = FALSE /\ restarts = 0

-----------------------------------------------------------------------------
(* drvInit *)

Busy == ctl.ins # "NONE" \/ fifo # <<>>

(* RST_QUAD is sent on the lines of the mode it ends.  (ResetOnOneLine is a *)
(* mutant: it is sent like the other commands.)                            *)
ResetOnOneLine(ins) == 1
Lines(ins) == IF ins = "RST_QUAD" THEN 4 ELSE 1

Started(ins, n) ==
    [ins |-> ins, left |-> n,
     heard |-> chip.present /\ ~chip.WIP /\ chip.lines = Lines(ins)]

Issue(ins, n, next) ==
    /\ ctl' = Started(ins, n)
    /\ ipc' = next
    /\ UNCHANGED <<attempt, id, found, drivStatus, tcf, fifo, chip>>

(* The spins on BUSY.  (NoSpin is a mutant: the loop is missing.)           *)
NoSpin == TRUE
BusyOver == ~Busy

ResetQuad == ipc = "drvInit" /\ Issue("RST_QUAD", 0, "reset")

ReadId == ipc = "reset" /\ BusyOver /\ Issue("RDID", 3, "tcWait")

(* "tc wait": RST_QUAD has already set TCF, and nothing clears it here.     *)
TransferComplete ==
    /\ ipc = "tcWait"
    /\ tcf
    /\ ipc' = "DR"
    /\ UNCHANGED <<attempt, id, found, drivStatus, busVars>>

(* Three reads of DR; each waits for its byte. *)
ReadDR ==
    /\ ipc = "DR" /\ Len(id) < 3
    /\ fifo # <<>> \/ ctl.ins = "NONE"
    /\ id' = Append(id, IF fifo = <<>> THEN "none" ELSE Head(fifo))
    /\ fifo' = IF fifo = <<>> THEN fifo ELSE Tail(fifo)
    /\ UNCHANGED <<ipc, attempt, found, drivStatus, ctl, tcf, chip>>

(* The commands that follow, sent without WREN and heard without it.        *)
(* (Swapped is a mutant: quad I/O first.)                                  *)
Swapped(n) == IF n = 1 THEN "ENT_QUAD" ELSE "EN4BYTEADDR"
ModeCommand(n) == IF n = 1 THEN "EN4BYTEADDR" ELSE "ENT_QUAD"

(* No spin before this one: the three bytes have been read. *)
Enter4Byte == ipc = "DR" /\ Len(id) = 3 /\ Issue(ModeCommand(1), 0, "addrWait")

EnterQuad == ipc = "addrWait" /\ BusyOver /\ Issue(ModeCommand(2), 0, "quadWait")

(* (ThirdAttempt is a mutant: one attempt too many.)                        *)
ThirdAttempt == attempt > 2
LastAttempt == attempt = 2

(* (Uncounted is a mutant: drvInit is tried until it succeeds.)             *)
Uncounted == attempt
NextAttempt == attempt + 1

(* (StillInit is a mutant: the status of a failure is not set.)             *)
StillInit == drivStatus
FailedStatus == "INIT_ERR"

(* drvInit returns, and qspiTasks goes on. *)
DrvInitReturns ==
    /\ ipc = "quadWait" /\ BusyOver
    /\ found' = (id = ExpectedId)
    /\ IF found'
       THEN ipc' = "loop" /\ drivStatus' = "READY" /\ UNCHANGED <<attempt, id>>
       ELSE IF LastAttempt
       THEN ipc' = "delay" /\ drivStatus' = FailedStatus /\ UNCHANGED <<attempt, id>>
       ELSE ipc' = "drvInit" /\ attempt' = NextAttempt /\ id' = <<>> /\ UNCHANGED drivStatus
    /\ UNCHANGED busVars

(* vTaskDelay(portMAX_DELAY) ends after 2^32 - 1 ticks, and the task goes on. *)
DelayOver ==
    /\ ipc = "delay"
    /\ ipc' = "loop" /\ drivStatus' = "READY"
    /\ UNCHANGED <<attempt, id, found, busVars>>

-----------------------------------------------------------------------------
(* The bus and the chip. *)

ChipAfter ==
    IF ~ctl.heard THEN chip
    ELSE CASE ctl.ins = "RST_QUAD" -> [chip EXCEPT !.lines = 1]
           [] ctl.ins = "ENT_QUAD" -> [chip EXCEPT !.lines = 4]
           [] ctl.ins = "EN4BYTEADDR" -> [chip EXCEPT !.addrBytes = 4]

BusCommand ==
    /\ ctl.ins \in {"RST_QUAD", "ENT_QUAD", "EN4BYTEADDR"}
    /\ chip' = ChipAfter
    /\ ctl' = NoCommand /\ tcf' = TRUE
    /\ UNCHANGED <<taskVars, fifo>>

BusId ==
    /\ ctl.ins = "RDID"
    /\ fifo' = Append(fifo, IF ctl.heard THEN ExpectedId[4 - ctl.left] ELSE "none")
    /\ IF ctl.left = 1 THEN ctl' = NoCommand /\ tcf' = TRUE
                       ELSE ctl' = [ctl EXCEPT !.left = @ - 1] /\ UNCHANGED tcf
    /\ UNCHANGED <<taskVars, chip>>

(* The command loop erases, or programs through DMA: the command and then   *)
(* the wait for the status match.  A chip that is still busy ignores the   *)
(* command, and the wait is for what it is busy with.                      *)
BeginChange ==
    /\ ipc = "loop" /\ found
    /\ chip' = [chip EXCEPT !.WIP = TRUE]
    /\ ipc' = "change"
    /\ UNCHANGED <<attempt, id, found, drivStatus, ctl, tcf, fifo>>

(* (MatchesAtOnce is a mutant: PSMKR is left 0, which any status matches.)  *)
MatchesAtOnce == TRUE
StatusMatches == ~chip.WIP

ChangeOver ==
    /\ ipc = "change" /\ StatusMatches
    /\ ipc' = "loop"
    /\ UNCHANGED <<attempt, id, found, drivStatus, busVars>>

(* A program of at most DMA_THRESHOLD bytes is over when its bytes have     *)
(* been sent: the loop goes on, with the chip busy.                        *)
ProgramPolled ==
    /\ ipc = "loop" /\ found
    /\ chip' = [chip EXCEPT !.WIP = TRUE]
    /\ polled' = TRUE
    /\ UNCHANGED <<taskVars, ctl, tcf, fifo, bootBusy, restarts>>

ChipDone ==
    /\ chip.WIP
    /\ chip' = [chip EXCEPT !.WIP = FALSE]
    /\ UNCHANGED <<taskVars, ctl, tcf, fifo>>

(* A reset of the MCU at any time, the chip left as it is or powered anew. *)
Restart ==
    /\ restarts < MaxRestarts
    /\ restarts' = restarts + 1
    /\ ipc' = "drvInit" /\ attempt' = 1 /\ id' = <<>> /\ found' = FALSE
    /\ drivStatus' = "INIT"
    /\ ctl' = NoCommand /\ tcf' = FALSE /\ fifo' = <<>>
    /\ chip' \in {chip, PoweredUp(chip.present)}
    /\ bootBusy' = chip'.WIP /\ polled' = FALSE

DriverStep ==
    \/ ResetQuad \/ ReadId \/ TransferComplete \/ ReadDR \/ Enter4Byte \/ EnterQuad
    \/ DrvInitReturns \/ ChangeOver

BusStep == BusCommand \/ BusId \/ ChipDone

BootStep ==
    \/ (DriverStep \/ DelayOver \/ BeginChange \/ BusStep) /\ UNCHANGED historyVars
    \/ ProgramPolled
=============================================================================
