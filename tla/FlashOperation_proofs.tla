----------------------- MODULE FlashOperation_proofs ------------------------
(***************************************************************************)
(* QspiTransfer implements FlashOperation when no program is short enough  *)
(* to be polled.  A read takes effect when the last byte is in the buffer; *)
(* a program or an erase when the chip ends its change, before the status  *)
(* poll can have answered.  Every other step leaves what FlashOperation    *)
(* sees as it is.                                                          *)
(***************************************************************************)
EXTENDS QspiTransferBytes_proofs

(* What FlashOperation sees of the buffer. *)
Shown == IF Performed /\ op.kind = "READ" THEN ram ELSE <<>>

(* A step of FlashOperation, or none. *)
Step == Operation!Next \/ UNCHANGED Operation!vars

(* When an operation has taken effect, before and after a step. *)
LEMMA PerformedValue ==
    /\ op.kind = "NONE" => Performed = FALSE
    /\ op.kind = "READ" => Performed = Delivered
    /\ op.kind \in {"WRITE", "ERASE"} => Performed = ChangeMade
    /\ (op.kind = "NONE" => Performed = FALSE)'
    /\ (op.kind = "READ" => Performed = Delivered)'
    /\ (op.kind \in {"WRITE", "ERASE"} => Performed = ChangeMade)'
  BY DEF Performed

(* Steps that FlashOperation does not see. *)
LEMMA StutterStep ==
    ASSUME op' = op, chip'.array = chip.array, ram' = ram,
           TypeOK,
           op.kind = "READ" \/ op.kind = "NONE" \/ (ChangeMade' <=> ChangeMade)
    PROVE  Step
  <1>1. Performed' = Performed
    <2>1. Delivered' = Delivered
      BY DEF Delivered
    <2>2. (ChangeMade' <=> ChangeMade) => ChangeMade' = ChangeMade
      BY DEF ChangeMade
    <2> QED BY <2>1, <2>2, PerformedValue DEF TypeOK, Op
  <1>2. Shown' = Shown
    BY <1>1 DEF Shown
  <1> QED BY <1>1, <1>2 DEF Step, Operation!vars

(* Begin, return, and the steps by which an operation takes effect. *)
LEMMA BeginStep ==
    ASSUME NEW kind \in {"READ", "WRITE", "ERASE"}, NEW a \in Nat,
           NEW n \in Nat \ {0},
           NEW bytes, Inv, Faithful, Begin(kind, a, n, bytes)
    PROVE  Step
  <1>1. op = NoOp /\ op.kind = "NONE" /\ Performed = FALSE
    BY PerformedValue DEF Inv, Faithful, SentOK, TaskOK, Begin
  <1>2. op'.kind = kind /\ op'.len = n /\ ram' = <<>> /\ chip' = chip
        /\ tpc' \in {"wren", "setup"}
    BY DEF Begin, FirstStep
  <1>3. Performed' = FALSE
    <2>1. op'.kind = "READ" => Delivered' = FALSE
      BY <1>2 DEF Delivered
    <2>2. ChangeMade' = FALSE
      BY <1>2 DEF ChangeMade
    <2> QED BY <1>2, <2>1, <2>2, PerformedValue
  <1>4. Operation!Begin
    BY <1>1, <1>2, <1>3 DEF Operation!Begin, Operation!NoOperation, NoOp
  <1> QED BY <1>4 DEF Step, Operation!Next

LEMMA ReturnStep == ASSUME Inv, Faithful, Return PROVE Step
  <1>1. op.kind # "NONE" /\ op.kind \in {"READ", "WRITE", "ERASE"}
        /\ tpc = "return"
    BY DEF Inv, TypeOK, TaskOK, Return
  <1>2. Performed = TRUE
    <2>1. op.kind = "READ" => Delivered = TRUE
      BY <1>1 DEF Faithful, ReceivedOK
    <2>2. ChangeMade = TRUE
      BY <1>1 DEF ChangeMade
    <2> QED BY <1>1, <2>1, <2>2, PerformedValue
  <1>3. op' = NoOp /\ chip' = chip /\ Performed' = FALSE
    BY PerformedValue DEF Return, NoOp
  <1>4. Operation!Return
    BY <1>1, <1>2, <1>3 DEF Operation!Return, Operation!NoOperation, NoOp
  <1> QED BY <1>4 DEF Step, Operation!Next

LEMMA ReadStep ==
    ASSUME Inv, op.kind = "READ", op' = op, chip' = chip, ~Delivered, Delivered',
           ram' \in Transferred,
           \A i \in 1 .. Len(ram') : ram'[i] = chip.array[op.addr + i - 1]
    PROVE  Step
  <1>1. Performed = FALSE /\ Performed' = TRUE
    BY PerformedValue DEF Delivered
  <1>2. Len(ram') = op.len /\ op.len \in Nat
    BY DEF Delivered
  <1>3. ram' = [i \in 1 .. op.len |-> chip.array[op.addr + i - 1]]
    BY <1>2 DEF Transferred
  <1>4. Operation!Perform
    BY <1>1, <1>3 DEF Operation!Perform
  <1> QED BY <1>4 DEF Step, Operation!Next

LEMMA ChipDoneStep == ASSUME Inv, Faithful, ChipDone PROVE Step
  <1>1. /\ chip.WIP /\ chip.change = op /\ tpc \in {"enable", "take"}
        /\ (sr.TCF \/ Running("RDSR"))
    BY DEF ChipDone, Faithful, SentOK, HeardOK
  <1>2. op' = op /\ ram' = ram /\ tpc' = tpc /\ ~chip'.WIP
        /\ chip'.array = Changed
        /\ sr' = sr /\ ctl' = ctl
    BY DEF ChipDone
  <1>3. op.kind \in {"WRITE", "ERASE"}
    BY DEF ChipDone, Inv, Faithful, HeardOK, TypeOK, TaskOK
  <1>4. Performed = FALSE
    <2>1. ChangeMade = FALSE
      BY <1>1 DEF ChangeMade
    <2> QED BY <1>3, <2>1, PerformedValue
  <1>5. Performed' = TRUE
    <2>1. ChangeMade' = TRUE
      BY <1>1, <1>2 DEF ChangeMade, Running
    <2> QED BY <1>2, <1>3, <2>1, PerformedValue
  <1>6. CASE op.kind = "WRITE"
    <2>1. Len(op.bytes) = op.len
      BY <1>6 DEF Inv, TaskOK
    <2>2. Changed = Operation!Programmed(op.addr, op.bytes)
      BY <1>1, <1>6, <2>1 DEF Changed, Operation!Programmed
    <2>3. Operation!Perform
      BY <1>2, <1>4, <1>5, <1>6, <2>2 DEF Operation!Perform
    <2> QED BY <2>3 DEF Step, Operation!Next
  <1>7. CASE op.kind = "ERASE"
    <2>1. Changed = Operation!Erased(op.addr, op.len)
      BY <1>1, <1>7 DEF Changed, Operation!Erased
    <2>2. Operation!Perform
      BY <1>2, <1>4, <1>5, <1>7, <2>1 DEF Operation!Perform
    <2> QED BY <2>2 DEF Step, Operation!Next
  <1> QED BY <1>3, <1>6, <1>7

(* Neither the bytes on their way nor a wait is seen: once the chip is no  *)
(* longer busy with a program or an erase, TCF, the status poll, SMF or    *)
(* the notification remembers it.                                          *)
LEMMA UnseenStep ==
    ASSUME TypeOK,
           \/ WriteEnable \/ WriteEnableDone \/ Setup \/ Enable
           \/ BusPoll \/ DmaWrite \/ DmaError
    PROVE  Step
  <1>1. CASE WriteEnable
    <2>1. op.kind = "READ" \/ op.kind = "NONE" \/ (ChangeMade' <=> ChangeMade)
      BY <1>1 DEF WriteEnable, ChangeMade
    <2> QED BY <1>1, <2>1, StutterStep DEF WriteEnable
  <1>2. CASE WriteEnableDone
    <2>1. op.kind = "READ" \/ op.kind = "NONE" \/ (ChangeMade' <=> ChangeMade)
      BY <1>2 DEF WriteEnableDone, ChangeMade
    <2> QED BY <1>2, <2>1, StutterStep DEF WriteEnableDone
  <1>3. CASE Setup
    <2>1. op.kind = "READ" \/ op.kind = "NONE" \/ (ChangeMade' <=> ChangeMade)
      BY <1>3 DEF Setup, ChangeMade
    <2> QED BY <1>3, <2>1, StutterStep DEF Setup
  <1>4. CASE Enable
    <2>1. op.kind = "READ" \/ op.kind = "NONE" \/ (ChangeMade' <=> ChangeMade)
      BY <1>4 DEF Enable, ChangeMade, Running
    <2> QED BY <1>4, <2>1, StutterStep DEF Enable
  <1>5. CASE BusPoll
    <2>1. op.kind = "READ" \/ op.kind = "NONE" \/ (ChangeMade' <=> ChangeMade)
      BY <1>5 DEF BusPoll, ChangeMade
    <2> QED BY <1>5, <2>1, StutterStep DEF BusPoll
  <1>6. CASE DmaWrite
    <2>1. op.kind = "READ" \/ op.kind = "NONE" \/ (ChangeMade' <=> ChangeMade)
      BY <1>6 DEF DmaWrite, ChangeMade, Running, Started
    <2> QED BY <1>6, <2>1, StutterStep DEF DmaWrite
  <1>7. CASE DmaError
    <2>1. op.kind = "READ" \/ op.kind = "NONE" \/ (ChangeMade' <=> ChangeMade)
      BY <1>7 DEF DmaError, ChangeMade, Running
    <2> QED BY <1>7, <2>1, StutterStep DEF DmaError
  <1> QED BY <1>1, <1>2, <1>3, <1>4, <1>5, <1>6, <1>7

LEMMA WriteAddressStep == ASSUME Inv, WriteAddress PROVE Step
  <1>1. TypeOK /\ TaskOK /\ CommandOK /\ WakeOK
    BY DEF Inv
  <1>2. op' = op /\ ram' = ram /\ chip'.array = chip.array
    BY DEF WriteAddress
  <1>3. op.kind = "READ" \/ op.kind = "NONE" \/ (ChangeMade' <=> ChangeMade)
    BY <1>1 DEF WriteAddress, ChangeMade, TypeOK, TaskOK, CommandOK, WakeOK,
       Running, Started
  <1> QED BY <1>1, <1>2, <1>3, StutterStep

LEMMA TakeStep == ASSUME Inv, Take PROVE Step
  <1>1. TypeOK /\ WakeOK
    BY DEF Inv
  <1>2. op' = op /\ ram' = ram /\ chip'.array = chip.array
    BY DEF Take
  <1>3. op.kind = "READ" \/ op.kind = "NONE" \/ (ChangeMade' <=> ChangeMade)
    BY <1>1 DEF Take, ChangeMade, WakeOK
  <1> QED BY <1>1, <1>2, <1>3, StutterStep

LEMMA QUADSPI_IRQHandlerStep ==
    ASSUME Inv, QUADSPI_IRQHandler
    PROVE  Step
  <1>1. TypeOK /\ TaskOK
    BY DEF Inv
  <1>2. op' = op /\ ram' = ram /\ chip'.array = chip.array
    BY DEF QUADSPI_IRQHandler
  <1>3. op.kind = "READ" \/ op.kind = "NONE" \/ (ChangeMade' <=> ChangeMade)
    BY <1>1 DEF QUADSPI_IRQHandler, ChangeMade, TypeOK, TaskOK, Running,
       Started, PollBusy
  <1> QED BY <1>1, <1>2, <1>3, StutterStep

LEMMA DMA2_Stream2_IRQHandlerStep ==
    ASSUME Inv, DMA2_Stream2_IRQHandler
    PROVE  Step
  <1>1. TypeOK /\ TaskOK
    BY DEF Inv
  <1>2. op' = op /\ ram' = ram /\ chip'.array = chip.array
    BY DEF DMA2_Stream2_IRQHandler
  <1>3. op.kind = "READ" \/ op.kind = "NONE" \/ (ChangeMade' <=> ChangeMade)
    BY <1>1 DEF DMA2_Stream2_IRQHandler, ChangeMade, TaskOK, Running,
       DmaEndsRead
  <1> QED BY <1>1, <1>2, <1>3, StutterStep

LEMMA BusReadStep == ASSUME Inv, BusRead PROVE Step
  <1>1. TypeOK /\ CommandOK
    BY DEF Inv
  <1>2. op' = op /\ ram' = ram /\ chip'.array = chip.array
    BY DEF BusRead
  <1>3. op.kind = "READ" \/ op.kind = "NONE" \/ (ChangeMade' <=> ChangeMade)
    BY <1>1 DEF BusRead, CommandOK, Running
  <1> QED BY <1>1, <1>2, <1>3, StutterStep

LEMMA BusWriteStep == ASSUME Inv, Faithful, BusWrite PROVE Step
  <1>1. TypeOK /\ TaskOK /\ CommandOK /\ StreamOK /\ WakeOK /\ HeardOK /\ LatchOK
    BY DEF Inv, Faithful
  <1>2. op' = op /\ ram' = ram /\ tpc' = tpc /\ chip'.array = chip.array
    BY <1>1 DEF BusWrite, ChipAfter, TypeOK, Chip
  <1>3. /\ op.kind = "WRITE" /\ ctl.phase = "run" /\ ctl.ins = "WRITE"
        /\ ctl.heard /\ chip.WEL /\ tpc \in {"spin", "enable", "take"}
    BY <1>1 DEF BusWrite, CommandOK, HeardOK, LatchOK, CommandsHeard, Running
  <1>4. ~sr.TCF /\ ~sr.SMF /\ ~(notified > 0)
    BY <1>1, <1>3 DEF CommandOK, WakeOK, Busy
  <1>5. ~ChangeMade
    BY <1>3, <1>4 DEF ChangeMade, Running
  <1>6. ~ChangeMade'
    <2>1. CASE ctl.left = 1
      <3>1. chip' = ChipAfter("WRITE", Append(ctl.bytes, Head(fifo)))
        BY <2>1 DEF BusWrite
      <3>2. chip'.WIP
        BY <1>1, <1>3, <3>1 DEF ChipAfter
      <3> QED BY <1>2, <1>3, <3>2 DEF ChangeMade
    <2>2. CASE ctl.left # 1
      <3>1. ctl' = [ctl EXCEPT !.bytes = Append(@, Head(fifo)), !.left = @ - 1]
            /\ sr' = sr /\ notified' = notified
        BY <2>2 DEF BusWrite
      <3>2. ctl'.ins = "WRITE"
        BY <1>1, <1>3, <3>1
      <3> QED BY <1>2, <1>3, <1>4, <3>1, <3>2 DEF ChangeMade, Running
    <2> QED BY <2>1, <2>2
  <1> QED BY <1>1, <1>2, <1>5, <1>6, StutterStep

LEMMA BusCommandStep == ASSUME Inv, Faithful, BusCommand PROVE Step
  <1>1. TypeOK /\ TaskOK /\ CommandOK /\ StreamOK /\ WakeOK /\ HeardOK /\ LatchOK
    BY DEF Inv, Faithful
  <1>2. op' = op /\ ram' = ram /\ tpc' = tpc /\ chip'.array = chip.array
        /\ notified' = notified /\ sr'.SMF = sr.SMF /\ ctl'.phase = "idle"
    BY <1>1 DEF BusCommand, ChipAfter, Idle
  <1>3. ctl.phase = "run" /\ ctl.ins \in {"WREN", "ERASE"}
    BY DEF BusCommand, Running
  <1>4. ~sr.TCF /\ ~sr.SMF /\ ~(notified > 0)
    BY <1>1, <1>3 DEF CommandOK, WakeOK, Busy
  <1>5. CASE ctl.ins = "WREN"
    <2>1. tpc = "wrenWait"
      BY <1>1, <1>3, <1>5 DEF CommandOK, TypeOK, Op
    <2>2. ~ChangeMade /\ ~ChangeMade'
      BY <1>2, <2>1 DEF ChangeMade
    <2> QED BY <1>1, <1>2, <2>2, StutterStep
  <1>6. CASE ctl.ins = "ERASE"
    <2>1. op.kind = "ERASE" /\ ctl.heard /\ chip.WEL
          /\ tpc \in {"spin", "enable", "take"}
      BY <1>1, <1>3, <1>6 DEF CommandOK, HeardOK, LatchOK, CommandsHeard,
         Running
    <2>2. chip' = ChipAfter("ERASE", <<>>)
      BY <1>6 DEF BusCommand
    <2>3. chip'.WIP
      BY <1>1, <2>1, <2>2 DEF ChipAfter
    <2>4. ~ChangeMade /\ ~ChangeMade'
      BY <1>2, <1>3, <1>4, <1>6, <2>1, <2>3 DEF ChangeMade, Running
    <2> QED BY <1>1, <1>2, <2>4, StutterStep
  <1> QED BY <1>3, <1>5, <1>6

(* A read has taken effect with the last byte in the buffer. *)
LEMMA SpinDoneStep == ASSUME Inv, Inv', Faithful, SpinDone PROVE Step
  <1>1. TypeOK /\ TaskOK /\ CommandOK /\ BytesOK /\ HeardOK /\ ReceivedOK
        /\ TypeOK'
    BY DEF Inv, Faithful
  <1>2. op.kind = "READ" /\ ram = <<>> /\ op.len > 0 /\ ctl.phase = "idle"
    BY <1>1 DEF SpinDone, TaskOK, HeardOK, BytesOK, CommandOK, Polled, TypeOK
  <1>3. op' = op /\ chip' = chip /\ ram' = fifo /\ tpc = "spin"
    BY <1>2 DEF SpinDone
  <1>4. Len(fifo) = op.len /\ op.addr + Len(ram) = op.addr
    <2>1. Len(ram) = 0
      BY <1>2
    <2>2. Len(ram) + Len(fifo) + 0 = op.len
      BY <1>1, <1>2, <1>3 DEF BytesOK
    <2>3. Len(fifo) \in Nat /\ op.addr \in Nat
      BY <1>1 DEF TypeOK, Op
    <2> QED BY <2>1, <2>2, <2>3
  <1>5. \A i \in 1 .. Len(ram') : ram'[i] = chip.array[op.addr + i - 1]
    BY <1>1, <1>2, <1>3, <1>4 DEF ReceivedOK
  <1>6. ~Delivered /\ Delivered' /\ ram' \in Transferred
    BY <1>1, <1>2, <1>3, <1>4 DEF Delivered, TypeOK
  <1> QED BY <1>2, <1>3, <1>5, <1>6, ReadStep

LEMMA DmaReadStep == ASSUME Inv, Inv', Faithful, Faithful', DmaRead PROVE Step
  <1>1. /\ TypeOK /\ StreamOK /\ BytesOK /\ TypeOK' /\ ReceivedOK'
        /\ op.kind = "READ" /\ tpc = "take"
    BY DEF DmaRead, Inv, Faithful, StreamOK
  <1>2. op' = op /\ chip' = chip /\ tpc' = tpc /\ ram' = Append(ram, Head(fifo))
    BY DEF DmaRead
  <1>3. Len(ram) + dma.left = op.len /\ dma.left > 0 /\ Len(ram) \in Nat
        /\ dma.left \in Nat
    BY <1>1 DEF BytesOK, StreamOK, DmaRead, TypeOK, Stream
  <1>4. ~Delivered
    BY <1>3 DEF Delivered
  <1>5. CASE Delivered'
    <2>1. \A i \in 1 .. Len(ram') : ram'[i] = chip.array[op.addr + i - 1]
      BY <1>1, <1>2 DEF ReceivedOK
    <2>2. ram' \in Transferred
      BY <1>1 DEF TypeOK
    <2> QED BY <1>1, <1>2, <1>4, <1>5, <2>1, <2>2, ReadStep
  <1>6. CASE ~Delivered'
    <2>1. Performed = FALSE /\ Performed' = FALSE
      BY <1>1, <1>2, <1>4, <1>6, PerformedValue
    <2> QED BY <1>2, <2>1 DEF Step, Operation!vars
  <1> QED BY <1>5, <1>6

(* No program is polled. *)
LEMMA FeedStep == ASSUME Inv, Faithful, Feed PROVE Step
  BY DEF Inv, Faithful, Feed, TaskOK, HeardOK

LEMMA BeginsStep ==
    ASSUME Inv, Faithful, BeginRead \/ BeginWrite \/ BeginErase
    PROVE  Step
  <1>1. CASE BeginRead
    <2>1. PICK a \in Address, n \in ReadLength : Begin("READ", a, n, <<>>)
      BY <1>1 DEF BeginRead
    <2>2. a \in Nat /\ n \in Nat \ {0}
      BY LengthAssumption DEF Cell
    <2> QED BY <2>1, <2>2, BeginStep
  <1>2. CASE BeginWrite
    <2>1. PICK a \in Address, n \in WriteLength, d \in Data :
            n > 0 /\ Begin("WRITE", a, n, [i \in 1 .. n |-> {<<d, i>>}])
      BY <1>2 DEF BeginWrite
    <2>2. a \in Nat /\ n \in Nat \ {0}
      BY <2>1, LengthAssumption DEF Cell
    <2> QED BY <2>1, <2>2, BeginStep
  <1>3. CASE BeginErase
    <2>1. PICK a \in Address, n \in SectorLength : Begin("ERASE", a, n, <<>>)
      BY <1>3 DEF BeginErase
    <2>2. a \in Nat /\ n \in Nat \ {0}
      BY LengthAssumption DEF Cell
    <2> QED BY <2>1, <2>2, BeginStep
  <1> QED BY <1>1, <1>2, <1>3

LEMMA UnchangedStep == ASSUME TypeOK, UNCHANGED vars PROVE Step
  <1>1. ChangeMade' <=> ChangeMade
    BY DEF vars, ChangeMade, Running
  <1> QED BY <1>1, StutterStep DEF vars

(* All steps. *)
LEMMA NextStep ==
    ASSUME Inv, Inv', Faithful, Faithful', [Next]_vars
    PROVE  Step
  <1>1. CASE DriverTask
    BY <1>1, BeginsStep, UnseenStep, WriteAddressStep, FeedStep, SpinDoneStep,
       TakeStep, ReturnStep DEF DriverTask, Inv
  <1>2. CASE Interrupts
    BY <1>2, QUADSPI_IRQHandlerStep, DMA2_Stream2_IRQHandlerStep DEF Interrupts
  <1>3. CASE Hardware \/ DmaError
    BY <1>3, BusReadStep, BusWriteStep, BusCommandStep, UnseenStep, DmaReadStep,
       ChipDoneStep DEF Hardware, Inv
  <1>4. CASE UNCHANGED vars
    BY <1>4, UnchangedStep DEF Inv
  <1> QED BY <1>1, <1>2, <1>3, <1>4 DEF Next

LEMMA InitStep == Init => Operation!Init
  BY PerformedValue DEF Init, Operation!Init, Operation!NoOperation, NoOp

(* With programs longer than the threshold, readFlash, writeFlashPage and  *)
(* eraseSector implement FlashOperation, whatever the interrupts, the stream *)
(* and the chip do meanwhile: an operation takes effect once, as a whole, at *)
(* its own address, and before it returns.                                 *)
THEOREM Implements == LongPrograms => (Spec => ImplementsOperation)
  <1> SUFFICES ASSUME LongPrograms PROVE Spec => Operation!Spec
    BY DEF ImplementsOperation
  <1>1. Spec => []Faithful
    BY AlwaysFaithful
  <1>2. Inv /\ Inv' /\ Faithful /\ Faithful' /\ [Next]_vars
            => [Operation!Next]_(Operation!vars)
    BY NextStep DEF Step
  <1> QED BY <1>1, <1>2, InitStep, Inductive, PTL DEF Spec, Operation!Spec
=============================================================================
