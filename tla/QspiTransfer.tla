---------------------------- MODULE QspiTransfer ----------------------------
(***************************************************************************)
(* The lower half of qspi/drivQSPI.c: readFlash, writeFlashPage (with      *)
(* writeEnable) and eraseSector, run by the driver task, and the two       *)
(* interrupt handlers that finish what they start, QUADSPI_IRQHandler and  *)
(* DMA2_Stream2_IRQHandler.  They meet in registers of the QUADSPI         *)
(* controller, in flags that outlive an operation, in qspiAction and in    *)
(* the notification value of the driver task.                              *)
(*                                                                         *)
(* The routines are cut where the hardware may step in between.  An        *)
(* interrupt handler is one step: both handlers have priority 3 and do not *)
(* preempt each other, and no task runs meanwhile.                         *)
(*                                                                         *)
(* The controller, the DMA stream and the MT25Q chip are not in src/; they *)
(* are modelled as far as the code relies on them: which register write    *)
(* starts a command, what sets TCF and SMF, when BUSY falls, that the chip *)
(* ignores all but a status read while it programs or erases.              *)
(***************************************************************************)
EXTENDS Integers, Sequences

CONSTANTS
    QSPI_FLASH_SIZE,   \* cells of the flash
    DMA_THRESHOLD,     \* longest transfer that is polled, 32
    FIFO_DEPTH,        \* bytes in the controller's FIFO, 32
    Address,           \* where operations start
    ReadLength,        \* lengths read
    WriteLength,       \* lengths programmed, at most a page
    SectorLength,      \* sector sizes erased
    Data,              \* names of programmed data
    NoData             \* not one of them: what a floating bus reads as

Cell == 0 .. QSPI_FLASH_SIZE - 1

ASSUME LengthAssumption ==
    /\ QSPI_FLASH_SIZE \in Nat /\ DMA_THRESHOLD \in Nat /\ FIFO_DEPTH \in Nat
    /\ 0 < DMA_THRESHOLD /\ DMA_THRESHOLD <= FIFO_DEPTH
    /\ Address \subseteq Cell
    /\ ReadLength \subseteq Nat \ {0}
    /\ WriteLength \subseteq Nat /\ SectorLength \subseteq Nat \ {0}

ASSUME DataAssumption == NoData \notin Data

Byte == Data \X Nat
Garbage == {<<NoData, 0>>}

VARIABLES
    tpc,        \* where the driver task is
    op,         \* the operation it was called for
    ram,        \* the bytes delivered to its buffer
    qspiAction, \* shared with the interrupt handlers
    notified,   \* the notification value of the driver task
    cr,         \* enable bits of the controller: TCIE, SMIE and DMAEN
    sr,         \* status flags of the controller: TCF and SMF
    ar,         \* its address register
    ctl,        \* the command it works on
    fifo,       \* its FIFO
    dma,        \* the DMA stream
    chip        \* the flash: array, WIP, WEL and the change under way

taskVars == <<tpc, op>>
vars == <<tpc, op, ram, qspiAction, notified, cr, sr, ar, ctl, fifo, dma, chip>>

NoOp == [kind |-> "NONE", addr |-> 0, len |-> 0, bytes |-> <<>>]
NoChange == [kind |-> "NONE", addr |-> 0, len |-> 0, bytes |-> <<>>]
Idle == [phase |-> "idle", ins |-> "NONE", addr |-> 0, left |-> 0,
         heard |-> FALSE, bytes |-> <<>>]

(* After drvInit: its last command has left TCF set. *)
Init ==
    /\ tpc = "idle" /\ op = NoOp /\ ram = <<>>
    /\ qspiAction = "NONE" /\ notified = 0
    /\ cr = [TCIE |-> FALSE, SMIE |-> FALSE, DMAEN |-> FALSE]
    /\ sr = [TCF |-> TRUE, SMF |-> FALSE]
    /\ ar = 0 /\ ctl = Idle /\ fifo = <<>>
    /\ dma = [EN |-> FALSE, dir |-> "NONE", left |-> 0, TC |-> FALSE, TE |-> FALSE]
    /\ chip = [array |-> [c \in Cell |-> {}], WIP |-> FALSE, WEL |-> FALSE,
               change |-> NoChange]

Busy == ctl.phase # "idle" \/ fifo # <<>>

(* What is short enough to be polled.  (PolledOneMore is a mutant: the      *)
(* threshold is off by one.)                                               *)
PolledOneMore == op.kind # "ERASE" /\ op.len <= DMA_THRESHOLD + 1
Polled == op.kind # "ERASE" /\ op.len <= DMA_THRESHOLD

-----------------------------------------------------------------------------
(* The controller starts a command: the chip hears it unless it is busy.    *)
Started(ins, a, n) ==
    [phase |-> "run", ins |-> ins, addr |-> a, left |-> n,
     heard |-> ~chip.WIP, bytes |-> <<>>]

(* CCR selects a command that starts with the address or with the data. *)
Armed(ins, n) ==
    [phase |-> "armed", ins |-> ins, addr |-> 0, left |-> n,
     heard |-> FALSE, bytes |-> <<>>]

(* CR &= ~TCIE.  (TcieKept is a mutant: the line is missing.) *)
TcieKept == cr
TcieOff == [cr EXCEPT !.TCIE = FALSE]

(* Programs and erases begin with writeEnable.  (FirstStepNoWren is a       *)
(* mutant: writeFlashPage lacks it.)                                       *)
FirstStepNoWren(kind) == IF kind = "ERASE" THEN "wren" ELSE "setup"
FirstStep(kind) == IF kind = "READ" THEN "setup" ELSE "wren"

(* The first lines of each routine: TCIE off, TCF cleared. *)
Begin(kind, a, n, bytes) ==
    /\ tpc = "idle"
    /\ op' = [kind |-> kind, addr |-> a, len |-> n, bytes |-> bytes]
    /\ qspiAction' = kind
    /\ cr' = TcieOff
    /\ sr' = [sr EXCEPT !.TCF = FALSE]
    /\ ram' = <<>>
    /\ tpc' = FirstStep(kind)
    /\ UNCHANGED <<notified, ar, ctl, fifo, dma, chip>>

BeginRead == \E a \in Address, n \in ReadLength :
    a + n <= QSPI_FLASH_SIZE /\ Begin("READ", a, n, <<>>)

(* writeFlashPage returns at once if there is nothing to program. *)
BeginWrite == \E a \in Address, n \in WriteLength, d \in Data :
    /\ n > 0 /\ a + n <= QSPI_FLASH_SIZE
    /\ Begin("WRITE", a, n, [i \in 1 .. n |-> {<<d, i>>}])

BeginErase == \E a \in Address, n \in SectorLength :
    a % n = 0 /\ a + n <= QSPI_FLASH_SIZE /\ Begin("ERASE", a, n, <<>>)

(* writeEnable: WREN, a wait for BUSY to fall, TCF cleared. *)
WriteEnable ==
    /\ tpc = "wren"
    /\ ctl' = Started("WREN", 0, 0)
    /\ tpc' = "wrenWait"
    /\ UNCHANGED <<op, ram, qspiAction, notified, cr, sr, ar, fifo, dma, chip>>

(* The spin on BUSY.  (NoWait is a mutant: the spin is missing.) *)
NoWait == TRUE
BusyOver == ~Busy

WriteEnableDone ==
    /\ tpc = "wrenWait"
    /\ BusyOver
    /\ sr' = [sr EXCEPT !.TCF = FALSE]
    /\ tpc' = "setup"
    /\ UNCHANGED <<op, ram, qspiAction, notified, cr, ar, ctl, fifo, dma, chip>>

(* DMAEN off, or the DMA stream set up and enabled; TCF cleared; DLR, CCR.   *)
(* The polled program and the erase rely on writeEnable for TCF.           *)
Setup ==
    /\ tpc = "setup"
    /\ IF Polled \/ op.kind = "ERASE"
       THEN cr' = [cr EXCEPT !.DMAEN = FALSE] /\ UNCHANGED dma
       ELSE /\ dma' = [dma EXCEPT !.EN = TRUE, !.left = op.len,
                                  !.dir = IF op.kind = "READ" THEN "p2m" ELSE "m2p"]
            /\ UNCHANGED cr
    /\ sr' = IF op.kind = "READ" \/ (op.kind = "WRITE" /\ ~Polled)
             THEN [sr EXCEPT !.TCF = FALSE] ELSE sr
    /\ ctl' = Armed(op.kind, IF op.kind = "ERASE" THEN 0 ELSE op.len)
    /\ tpc' = "address"
    /\ UNCHANGED <<op, ram, qspiAction, notified, ar, fifo, chip>>

(* AR: it starts a read and an erase; a program waits for its first byte. *)
WriteAddress ==
    /\ tpc = "address"
    /\ ar' = op.addr
    /\ ctl' = IF op.kind = "WRITE" THEN ctl
              ELSE Started(op.kind, op.addr, ctl.left)
    /\ tpc' = IF ~Polled THEN "enable"
              ELSE IF op.kind = "READ" THEN "spin" ELSE "feed"
    /\ UNCHANGED <<op, ram, qspiAction, notified, cr, sr, fifo, dma, chip>>

(* The polled program writes its bytes to DR; the first one starts it. *)
Feed ==
    /\ tpc = "feed"
    /\ fifo' = op.bytes
    /\ ctl' = Started("WRITE", ar, ctl.left)
    /\ tpc' = "spin"
    /\ UNCHANGED <<op, ram, qspiAction, notified, cr, sr, ar, dma, chip>>

(* The spin on TCF ends: a read empties the FIFO, and the routine returns. *)
SpinDone ==
    /\ tpc = "spin"
    /\ sr.TCF
    /\ ram' = IF op.kind = "READ" THEN fifo ELSE ram
    /\ fifo' = IF op.kind = "READ" THEN <<>> ELSE fifo
    /\ tpc' = "return"
    /\ UNCHANGED <<op, qspiAction, notified, cr, sr, ar, ctl, dma, chip>>

(* CR |= DMAEN of a read, DMAEN and TCIE of a program, TCIE of an erase. *)
Enable ==
    /\ tpc = "enable"
    /\ cr' = [cr EXCEPT !.DMAEN = @ \/ op.kind # "ERASE",
                        !.TCIE = @ \/ op.kind # "READ"]
    /\ tpc' = "take"
    /\ UNCHANGED <<op, ram, qspiAction, notified, sr, ar, ctl, fifo, dma, chip>>

(* ulTaskNotifyTake(pdTRUE, portMAX_DELAY), and the routine returns. *)
Take ==
    /\ tpc = "take"
    /\ notified > 0
    /\ notified' = 0
    /\ tpc' = "return"
    /\ UNCHANGED <<op, ram, qspiAction, cr, sr, ar, ctl, fifo, dma, chip>>

(* The caller goes on with what it got. *)
Return ==
    /\ tpc = "return"
    /\ tpc' = "idle"
    /\ op' = NoOp
    /\ ram' = <<>>
    /\ UNCHANGED <<qspiAction, notified, cr, sr, ar, ctl, fifo, dma, chip>>

-----------------------------------------------------------------------------
(* The interrupt handlers.  The requests are levels: they stay until the    *)
(* flag is cleared or its enable bit is.                                   *)

QuadspiRequest == (sr.TCF /\ cr.TCIE) \/ (sr.SMF /\ cr.SMIE)
DmaRequest == dma.TC \/ dma.TE

(* The handler goes on to poll the chip.  (PollWriteOnly is a mutant: it     *)
(* forgets the erase.)                                                     *)
PollWriteOnly == sr.TCF /\ qspiAction = "WRITE"
PollBusy == sr.TCF /\ qspiAction \in {"WRITE", "ERASE"}

(* Of two requests of one priority the lower number, the DMA, goes first. *)
QUADSPI_IRQHandler ==
    /\ QuadspiRequest /\ ~DmaRequest
    /\ sr' = [TCF |-> FALSE, SMF |-> FALSE]
    /\ cr' = [cr EXCEPT !.SMIE = (@ \/ PollBusy) /\ ~sr.SMF]
    /\ ctl' = IF PollBusy THEN Started("RDSR", 0, 0) ELSE ctl
    /\ notified' = IF sr.SMF THEN notified + 1 ELSE notified
    /\ UNCHANGED <<tpc, op, ram, qspiAction, ar, fifo, dma, chip>>

(* Only a read is over when the DMA is.  (DmaEndsAll is a mutant: the        *)
(* handler does not look at qspiAction.)                                   *)
DmaEndsAll == dma.TC
DmaEndsRead == dma.TC /\ qspiAction = "READ"

(* A transfer error is not cleared and tells nobody. *)
DMA2_Stream2_IRQHandler ==
    /\ DmaRequest
    /\ dma' = [dma EXCEPT !.TC = FALSE]
    /\ cr' = IF dma.TC THEN [cr EXCEPT !.DMAEN = FALSE] ELSE cr
    /\ notified' = IF DmaEndsRead THEN notified + 1 ELSE notified
    /\ UNCHANGED <<tpc, op, ram, qspiAction, sr, ar, ctl, fifo, chip>>

-----------------------------------------------------------------------------
(* The controller's bus, the DMA stream and the chip. *)

Running(ins) == ctl.phase = "run" /\ ctl.ins = ins

(* One byte of a read comes in; TCF is set with the last one. *)
BusRead ==
    /\ Running("READ")
    /\ Len(fifo) < FIFO_DEPTH
    /\ fifo' = Append(fifo, IF ctl.heard THEN chip.array[ctl.addr] ELSE Garbage)
    /\ IF ctl.left = 1
       THEN ctl' = Idle /\ sr' = [sr EXCEPT !.TCF = TRUE]
       ELSE ctl' = [ctl EXCEPT !.addr = @ + 1, !.left = @ - 1] /\ UNCHANGED sr
    /\ UNCHANGED <<tpc, op, ram, qspiAction, notified, cr, ar, dma, chip>>

(* What a command that was heard to its end makes the chip do. *)
ChipAfter(kind, bytes) ==
    IF ctl.heard /\ chip.WEL
    THEN [chip EXCEPT !.WIP = TRUE,
                      !.change = [kind |-> kind, addr |-> ctl.addr,
                                  len |-> op.len, bytes |-> bytes]]
    ELSE chip

(* One byte of a program goes out; with the last one the chip starts. *)
BusWrite ==
    /\ Running("WRITE")
    /\ fifo # <<>>
    /\ fifo' = Tail(fifo)
    /\ IF ctl.left = 1
       THEN /\ ctl' = Idle
            /\ sr' = [sr EXCEPT !.TCF = TRUE]
            /\ chip' = ChipAfter("WRITE", Append(ctl.bytes, Head(fifo)))
       ELSE /\ ctl' = [ctl EXCEPT !.bytes = Append(@, Head(fifo)), !.left = @ - 1]
            /\ UNCHANGED <<sr, chip>>
    /\ UNCHANGED <<tpc, op, ram, qspiAction, notified, cr, ar, dma>>

(* WREN and the erase commands carry no data. *)
BusCommand ==
    /\ Running("WREN") \/ Running("ERASE")
    /\ chip' = IF ctl.ins = "ERASE" THEN ChipAfter("ERASE", <<>>)
               ELSE IF ctl.heard THEN [chip EXCEPT !.WEL = TRUE] ELSE chip
    /\ ctl' = Idle
    /\ sr' = [sr EXCEPT !.TCF = TRUE]
    /\ UNCHANGED <<tpc, op, ram, qspiAction, notified, cr, ar, fifo, dma>>

(* Automatic polling stops (APMS) when it reads WIP = 0, and sets SMF. *)
BusPoll ==
    /\ Running("RDSR")
    /\ ~chip.WIP
    /\ ctl' = Idle
    /\ sr' = [sr EXCEPT !.SMF = TRUE]
    /\ UNCHANGED <<tpc, op, ram, qspiAction, notified, cr, ar, fifo, dma, chip>>

(* The stream disables itself with its last item. *)
DmaMoved == IF dma.left > 1 THEN [dma EXCEPT !.left = @ - 1]
            ELSE [dma EXCEPT !.left = 0, !.TC = TRUE, !.EN = FALSE]

DmaRead ==
    /\ cr.DMAEN /\ dma.EN /\ dma.dir = "p2m" /\ fifo # <<>>
    /\ ram' = Append(ram, Head(fifo))
    /\ fifo' = Tail(fifo)
    /\ dma' = DmaMoved
    /\ UNCHANGED <<tpc, op, qspiAction, notified, cr, sr, ar, ctl, chip>>

(* A byte fed to an armed program starts it, at the address AR has by then. *)
DmaWrite ==
    /\ cr.DMAEN /\ dma.EN /\ dma.dir = "m2p" /\ Len(fifo) < FIFO_DEPTH
    /\ fifo' = Append(fifo, op.bytes[op.len - dma.left + 1])
    /\ ctl' = IF ctl.phase = "armed" THEN Started("WRITE", ar, ctl.left) ELSE ctl
    /\ dma' = DmaMoved
    /\ UNCHANGED <<tpc, op, ram, qspiAction, notified, cr, sr, ar, chip>>

(* A transfer error (TE) disables the stream. *)
DmaError ==
    /\ cr.DMAEN /\ dma.EN
    /\ dma' = [dma EXCEPT !.EN = FALSE, !.TE = TRUE]
    /\ UNCHANGED <<tpc, op, ram, qspiAction, notified, cr, sr, ar, ctl, fifo, chip>>

(* The array once the change under way is made. *)
Changed ==
    LET ch == chip.change
    IN  [c \in Cell |-> IF c \in ch.addr .. ch.addr + ch.len - 1
                        THEN IF ch.kind = "WRITE"
                             THEN chip.array[c] \cup ch.bytes[c - ch.addr + 1]
                             ELSE {}
                        ELSE chip.array[c]]

(* The chip ends its program or erase: WIP and WEL fall. *)
ChipDone ==
    /\ chip.WIP
    /\ chip' = [array |-> Changed, WIP |-> FALSE, WEL |-> FALSE, change |-> NoChange]
    /\ UNCHANGED <<tpc, op, ram, qspiAction, notified, cr, sr, ar, ctl, fifo, dma>>

-----------------------------------------------------------------------------
DriverTask ==
    \/ BeginRead \/ BeginWrite \/ BeginErase \/ WriteEnable \/ WriteEnableDone
    \/ Setup \/ WriteAddress \/ Feed \/ SpinDone \/ Enable \/ Take \/ Return

Interrupts == QUADSPI_IRQHandler \/ DMA2_Stream2_IRQHandler

Hardware == BusRead \/ BusWrite \/ BusCommand \/ BusPoll \/ DmaRead \/ DmaWrite \/ ChipDone

Next == DriverTask \/ Interrupts \/ Hardware \/ DmaError

Spec == Init /\ [][Next]_vars

-----------------------------------------------------------------------------
(* Safety. *)

Op == [kind : {"NONE", "READ", "WRITE", "ERASE"}, addr : Nat, len : Nat,
       bytes : Seq(SUBSET Byte)]

Enables == [TCIE : BOOLEAN, SMIE : BOOLEAN, DMAEN : BOOLEAN]

Flags == [TCF : BOOLEAN, SMF : BOOLEAN]

Command == [phase : {"idle", "armed", "run"}, addr : Nat, left : Nat,
            ins : {"NONE", "READ", "WRITE", "ERASE", "WREN", "RDSR"},
            heard : BOOLEAN, bytes : Seq(SUBSET Byte)]

Stream == [EN : BOOLEAN, dir : {"NONE", "p2m", "m2p"}, left : Nat,
           TC : BOOLEAN, TE : BOOLEAN]

Chip == [array : [Cell -> SUBSET Byte], WIP : BOOLEAN, WEL : BOOLEAN, change : Op]

Transferred == Seq((SUBSET Byte) \cup {Garbage})

(* Type invariant; the FIFO never holds more than it can, although the       *)
(* polled program fills it without looking (drivQSPI.c:329).               *)
TypeOK ==
    /\ tpc \in {"idle", "wren", "wrenWait", "setup", "address", "feed", "spin",
                "enable", "take", "return"}
    /\ op \in Op
    /\ ram \in Transferred
    /\ qspiAction \in {"NONE", "READ", "WRITE", "ERASE"}
    /\ notified \in Nat
    /\ cr \in Enables
    /\ sr \in Flags
    /\ ar \in Nat
    /\ ctl \in Command
    /\ fifo \in Transferred /\ Len(fifo) <= FIFO_DEPTH
    /\ dma \in Stream
    /\ chip \in Chip

(* The controller must not be given a command while it has one.  It is idle *)
(* and its FIFO empty whenever a routine starts a command (the CCR writes  *)
(* in writeEnable and the three routines), and whenever the handler of TCF *)
(* starts the status poll.                                                 *)
ControllerFree ==
    /\ tpc \in {"wren", "setup"} => ~Busy
    /\ QuadspiRequest /\ sr.TCF => ~Busy

(* An interrupt is requested only while the task is at the ulTaskNotifyTake *)
(* of the operation that qspiAction names.  Hence no handler runs in the   *)
(* middle of a read-modify-write of CR by a routine, a polled transfer     *)
(* raises none, and a flag left by one operation disturbs no later one.    *)
InterruptsOnlyAtTake ==
    QuadspiRequest \/ DmaRequest => tpc = "take" /\ qspiAction = op.kind

Delivered == Len(ram) = op.len

(* The notification that ends ulTaskNotifyTake is never early, doubled or   *)
(* left over: it is there only while its operation waits for it, when the  *)
(* data are all in the buffer or the chip has finished its program or      *)
(* erase, and nothing is still running or requested.                       *)
WakeMeansDone ==
    notified > 0 =>
        /\ tpc = "take" /\ notified = 1
        /\ IF op.kind = "READ" THEN Delivered ELSE ~chip.WIP
        /\ ~Busy /\ ~QuadspiRequest /\ ~DmaRequest

(* What the status poll is for ("Set up auto polling to flag us when device *)
(* is not busy", drivQSPI.c:549): when writeFlashPage has returned 0, its  *)
(* bytes are in the array, or at least the chip is programming them.       *)
ReportedProgramIsMade ==
    tpc = "return" /\ op.kind = "WRITE" =>
        \/ \A i \in 1 .. op.len : op.bytes[i] \subseteq chip.array[op.addr + i - 1]
        \/ chip.change.addr = op.addr /\ chip.change.bytes = op.bytes

(* The chip ignores commands while it programs or erases (WIP), so every     *)
(* command but the status poll must find it ready.  Holds as long as no    *)
(* program is short enough to be polled.                                   *)
CommandsHeard == ctl.phase = "run" /\ ctl.ins # "RDSR" => ctl.heard

(* The change of a program or an erase has been made. *)
ChangeMade ==
    \/ tpc = "return"
    \/ /\ tpc \in {"enable", "take"} /\ ~chip.WIP
       /\ sr.TCF \/ Running("RDSR") \/ sr.SMF \/ notified > 0

Performed ==
    CASE op.kind = "NONE" -> FALSE
      [] op.kind = "READ" -> Delivered
      [] OTHER -> ChangeMade

Operation == INSTANCE FlashOperation WITH
    array <- chip.array,
    operation <- op,
    performed <- Performed,
    ram <- IF Performed /\ op.kind = "READ" THEN ram ELSE <<>>

(* With programs longer than the threshold, a routine implements            *)
(* FlashOperation: it takes effect exactly once, as a whole, at its own    *)
(* address and before it returns.                                          *)
ImplementsOperation == Operation!Spec

-----------------------------------------------------------------------------
(* Liveness. *)

(* The driver task outranks its callers, a requested handler runs, the bus  *)
(* is clocked, the stream serves its requests and the chip ends what it    *)
(* started.  Nothing makes the task begin an operation, or the DMA fail.   *)
FairSpec ==
    /\ Spec
    /\ WF_vars(WriteEnable \/ WriteEnableDone \/ Setup \/ WriteAddress \/ Feed
                  \/ SpinDone \/ Enable \/ Take \/ Return)
    /\ WF_vars(QUADSPI_IRQHandler) /\ WF_vars(DMA2_Stream2_IRQHandler)
    /\ WF_vars(BusRead \/ BusWrite \/ BusCommand) /\ WF_vars(BusPoll)
    /\ WF_vars(DmaRead) /\ WF_vars(DmaWrite) /\ WF_vars(ChipDone)

(* Every operation returns unless its DMA transfer fails: no wake-up is      *)
(* lost between AR or DMAEN and the ulTaskNotifyTake, and every flag that  *)
(* is spun on is set again.                                                *)
ReturnsOrFails == op.kind # "NONE" ~> op.kind = "NONE" \/ dma.TE

(* "Call Error function" (drivQSPI.c:591): a transfer that fails ends its   *)
(* operation like any other.  Nothing is called there, and the operation   *)
(* never returns.                                                          *)
Returns == op.kind # "NONE" ~> op.kind = "NONE"
=============================================================================
