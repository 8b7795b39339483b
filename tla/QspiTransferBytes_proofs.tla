---------------------- MODULE QspiTransferBytes_proofs ----------------------
(***************************************************************************)
(* Theorems about QspiTransfer when no program is short enough to be       *)
(* polled (LongPrograms; with one that is, ReportedProgramIsMade fails):   *)
(* every command but the status poll finds the chip ready, and the bytes   *)
(* of an operation reach it, and come from it, in order and at the address *)
(* of the operation.                                                       *)
(*                                                                         *)
(* Faithful is the invariant that, with Inv, is inductive.                 *)
(***************************************************************************)
EXTENDS QspiTransfer_proofs

USE LengthAssumption, DataAssumption

(* No program is short enough to be polled. *)
LongPrograms == \A n \in WriteLength : n = 0 \/ n > DMA_THRESHOLD

(* The chip is ready for every command but the status poll. *)
HeardOK ==
    /\ op.kind = "WRITE" => ~Polled
    /\ chip.WIP => /\ tpc \in {"enable", "take"} /\ op.kind # "READ"
                   /\ sr.TCF \/ Running("RDSR")
    /\ CommandsHeard

(* The write enable latch is set when a program or an erase reaches the chip. *)
LatchOK ==
    /\ tpc = "wrenWait" /\ ctl.phase = "idle" => chip.WEL
    /\ op.kind \in {"WRITE", "ERASE"} =>
          (tpc = "setup" \/ ctl.phase = "armed" \/ Running(op.kind) => chip.WEL)

(* What goes to the chip is the operation's, in order. *)
SentOK ==
    /\ op.kind = "NONE" => op = NoOp
    /\ op.kind = "ERASE" => op.bytes = <<>>
    /\ chip.WIP => chip.change = op
    /\ ctl.phase = "armed" /\ tpc \in {"enable", "take"} => ar = op.addr
    /\ Running("ERASE") => ctl.addr = op.addr
    /\ Running("WRITE") =>
          /\ ctl.addr = op.addr
          /\ \A i \in 1 .. Len(ctl.bytes) : ctl.bytes[i] = op.bytes[i]
          /\ \A i \in 1 .. Len(fifo) : fifo[i] = op.bytes[Len(ctl.bytes) + i]

(* What has come from the chip is the array's, in order. *)
ReceivedOK ==
    /\ op.kind = "READ" /\ tpc \in {"spin", "enable", "take"} =>
          /\ \A i \in 1 .. Len(ram) : ram[i] = chip.array[op.addr + i - 1]
          /\ \A i \in 1 .. Len(fifo) :
                fifo[i] = chip.array[op.addr + Len(ram) + i - 1]
    /\ Running("READ") => ctl.addr = op.addr + Len(ram) + Len(fifo)
    /\ op.kind = "READ" /\ tpc = "return" => Delivered

Faithful == HeardOK /\ LatchOK /\ SentOK /\ ReceivedOK

(* Places in a buffer, counted from two ends. *)
LEMMA Regroup ==
    ASSUME NEW a \in Nat, NEW b \in Nat, NEW c \in Nat
    PROVE  (a + (b + c)) - c + 1 = a + (b + 1)
  OBVIOUS

LEMMA Shift ==
    ASSUME NEW a \in Nat, NEW b \in Nat
    PROVE  a + (b + 1) = (a + 1) + b
  OBVIOUS

(* The steps of the driver task: what each leaves alone stays; the polled  *)
(* program is not reached.                                                 *)
LEMMA WriteEnableFaithful == ASSUME Inv, Faithful, WriteEnable PROVE Faithful'
  <1>1. /\ TypeOK /\ TaskOK /\ CommandOK /\ BytesOK /\ StreamOK /\ WakeOK
        /\ HeardOK /\ LatchOK /\ SentOK /\ ReceivedOK
    BY DEF Inv, Faithful
  <1>2. HeardOK'
    BY <1>1 DEF HeardOK, CommandsHeard, Polled, WriteEnable, Started
  <1>3. LatchOK'
    BY <1>1 DEF LatchOK, Running, WriteEnable, Started
  <1>4. SentOK'
    BY <1>1 DEF SentOK, Running, WriteEnable, Started
  <1>5. ReceivedOK'
    BY <1>1 DEF ReceivedOK, Running, WriteEnable, Started
  <1> QED BY <1>2, <1>3, <1>4, <1>5 DEF Faithful

LEMMA WriteEnableDoneFaithful ==
    ASSUME Inv, Faithful, WriteEnableDone
    PROVE  Faithful'
  <1>1. /\ TypeOK /\ TaskOK /\ CommandOK /\ BytesOK /\ StreamOK /\ WakeOK
        /\ HeardOK /\ LatchOK /\ SentOK /\ ReceivedOK
    BY DEF Inv, Faithful
  <1>2. HeardOK'
    BY <1>1 DEF HeardOK, CommandsHeard, Polled, WriteEnableDone
  <1>3. LatchOK'
    BY <1>1 DEF LatchOK, WriteEnableDone, BusyOver, Busy
  <1>4. SentOK'
    BY <1>1 DEF SentOK, Running, WriteEnableDone
  <1>5. ReceivedOK'
    BY <1>1 DEF ReceivedOK, Running, WriteEnableDone
  <1> QED BY <1>2, <1>3, <1>4, <1>5 DEF Faithful

LEMMA SetupFaithful == ASSUME Inv, Faithful, Setup PROVE Faithful'
  <1>1. /\ TypeOK /\ TaskOK /\ CommandOK /\ BytesOK /\ StreamOK /\ WakeOK
        /\ HeardOK /\ LatchOK /\ SentOK /\ ReceivedOK
    BY DEF Inv, Faithful
  <1>2. HeardOK'
    BY <1>1 DEF HeardOK, CommandsHeard, Polled, Setup, Armed
  <1>3. LatchOK'
    BY <1>1 DEF LatchOK, Setup
  <1>4. SentOK'
    BY <1>1 DEF SentOK, Running, Setup, Armed
  <1>5. ReceivedOK'
    BY <1>1 DEF ReceivedOK, Running, Setup, Armed
  <1> QED BY <1>2, <1>3, <1>4, <1>5 DEF Faithful

LEMMA WriteAddressFaithful == ASSUME Inv, Faithful, WriteAddress PROVE Faithful'
  <1>1. /\ TypeOK /\ TaskOK /\ CommandOK /\ BytesOK /\ StreamOK /\ WakeOK
        /\ HeardOK /\ LatchOK /\ SentOK /\ ReceivedOK
    BY DEF Inv, Faithful
  <1>2. HeardOK'
    BY <1>1 DEF HeardOK, CommandsHeard, Polled, WriteAddress, Started
  <1>3. LatchOK'
    BY <1>1 DEF LatchOK, CommandOK, WriteAddress
  <1>4. SentOK'
    BY <1>1 DEF SentOK, Running, WriteAddress, Started
  <1>5. ReceivedOK'
    <2>1. ctl.phase = "armed" /\ fifo = <<>> /\ ram = <<>>
      BY <1>1 DEF WriteAddress, CommandOK, BytesOK
    <2>2. /\ fifo' = fifo /\ ram' = ram /\ op' = op /\ Len(<<>>) = 0
          /\ tpc' \in {"enable", "spin", "feed"} /\ op.addr \in Nat
          /\ ctl' = ctl \/ ctl'.addr = op.addr
      BY <1>1 DEF WriteAddress, Started, TypeOK, Op
    <2> QED BY <2>1, <2>2 DEF ReceivedOK, Running
  <1> QED BY <1>2, <1>3, <1>4, <1>5 DEF Faithful

LEMMA FeedFaithful == ASSUME Inv, Faithful, Feed PROVE Faithful'
  <1>1. /\ TypeOK /\ TaskOK /\ CommandOK /\ BytesOK /\ StreamOK /\ WakeOK
        /\ HeardOK /\ LatchOK /\ SentOK /\ ReceivedOK
    BY DEF Inv, Faithful
  <1>2. HeardOK'
    BY <1>1 DEF HeardOK, CommandsHeard, Polled, Feed, Started
  <1>3. LatchOK'
    BY <1>1 DEF HeardOK, TaskOK, Feed
  <1>4. SentOK'
    BY <1>1 DEF TaskOK, HeardOK, Feed
  <1>5. ReceivedOK'
    BY <1>1 DEF TaskOK, HeardOK, Feed
  <1> QED BY <1>2, <1>3, <1>4, <1>5 DEF Faithful

LEMMA SpinDoneFaithful == ASSUME Inv, Faithful, SpinDone PROVE Faithful'
  <1>1. /\ TypeOK /\ TaskOK /\ CommandOK /\ BytesOK /\ StreamOK /\ WakeOK
        /\ HeardOK /\ LatchOK /\ SentOK /\ ReceivedOK
    BY DEF Inv, Faithful
  <1>2. HeardOK'
    BY <1>1 DEF HeardOK, CommandsHeard, Polled, SpinDone
  <1>3. LatchOK'
    BY <1>1 DEF LatchOK, Running, SpinDone
  <1>4. SentOK'
    BY <1>1 DEF SentOK, Running, SpinDone
  <1>5. ReceivedOK'
    BY <1>1 DEF ReceivedOK, CommandOK, BytesOK, Running, Delivered, SpinDone
  <1> QED BY <1>2, <1>3, <1>4, <1>5 DEF Faithful

LEMMA EnableFaithful == ASSUME Inv, Faithful, Enable PROVE Faithful'
  <1>1. /\ TypeOK /\ TaskOK /\ CommandOK /\ BytesOK /\ StreamOK /\ WakeOK
        /\ HeardOK /\ LatchOK /\ SentOK /\ ReceivedOK
    BY DEF Inv, Faithful
  <1>2. HeardOK'
    BY <1>1 DEF HeardOK, CommandsHeard, Running, Polled, Enable
  <1>3. LatchOK'
    BY <1>1 DEF LatchOK, Running, Enable
  <1>4. SentOK'
    BY <1>1 DEF SentOK, Running, Enable
  <1>5. ReceivedOK'
    BY <1>1 DEF ReceivedOK, Running, Enable
  <1> QED BY <1>2, <1>3, <1>4, <1>5 DEF Faithful

LEMMA TakeFaithful == ASSUME Inv, Faithful, Take PROVE Faithful'
  <1>1. /\ TypeOK /\ TaskOK /\ CommandOK /\ BytesOK /\ StreamOK /\ WakeOK
        /\ HeardOK /\ LatchOK /\ SentOK /\ ReceivedOK
    BY DEF Inv, Faithful
  <1>2. HeardOK'
    BY <1>1 DEF HeardOK, WakeOK, CommandsHeard, Polled, Take
  <1>3. LatchOK'
    BY <1>1 DEF LatchOK, Running, Take
  <1>4. SentOK'
    BY <1>1 DEF SentOK, Running, Take
  <1>5. ReceivedOK'
    <2>1. /\ tpc = "take" /\ tpc' = "return" /\ op' = op /\ ram' = ram
          /\ fifo' = fifo
          /\ ctl' = ctl /\ notified > 0
      BY DEF Take
    <2>2. Running("READ")' => ctl'.addr = op'.addr + Len(ram') + Len(fifo')
      BY <1>1, <2>1 DEF ReceivedOK, Running
    <2>3. op.kind = "READ" => Len(ram) = op.len
      <3>1. op.kind = "READ" => Len(ram) + dma.left = op.len /\ dma.left = 0
        BY <1>1, <2>1 DEF BytesOK, WakeOK
      <3>2. Len(ram) \in Nat
        BY <1>1
      <3> QED BY <3>1, <3>2
    <2> QED BY <2>1, <2>2, <2>3 DEF ReceivedOK, Delivered
  <1> QED BY <1>2, <1>3, <1>4, <1>5 DEF Faithful

LEMMA ReturnFaithful == ASSUME Inv, Faithful, Return PROVE Faithful'
  <1>1. /\ TypeOK /\ TaskOK /\ CommandOK /\ BytesOK /\ StreamOK /\ WakeOK
        /\ HeardOK /\ LatchOK /\ SentOK /\ ReceivedOK
    BY DEF Inv, Faithful
  <1>2. HeardOK'
    BY <1>1 DEF HeardOK, CommandsHeard, Return, NoOp
  <1>3. LatchOK'
    BY <1>1 DEF LatchOK, Return, NoOp
  <1>4. SentOK'
    BY <1>1 DEF SentOK, CommandOK, HeardOK, Running, Return, NoOp
  <1>5. ReceivedOK'
    BY <1>1 DEF ReceivedOK, CommandOK, Running, Return
  <1> QED BY <1>2, <1>3, <1>4, <1>5 DEF Faithful

(* The handlers, the chip and the steps of the bus and the stream. *)
LEMMA QUADSPI_IRQHandlerFaithful ==
    ASSUME Inv, Faithful, QUADSPI_IRQHandler
    PROVE  Faithful'
  <1>1. /\ TypeOK /\ TaskOK /\ CommandOK /\ BytesOK /\ StreamOK /\ WakeOK
        /\ HeardOK /\ LatchOK /\ SentOK /\ ReceivedOK
    BY DEF Inv, Faithful
  <1>2. HeardOK'
    <2>1. /\ tpc = "take" /\ op.kind \in {"WRITE", "ERASE"}
          /\ qspiAction = op.kind
          /\ tpc' = tpc /\ op' = op /\ chip' = chip /\ ~sr'.TCF
      <3>1. tpc = "take" /\ op.kind # "READ"
        BY <1>1 DEF QUADSPI_IRQHandler, QuadspiRequest, WakeOK
      <3> QED BY <1>1, <3>1 DEF QUADSPI_IRQHandler, TypeOK, TaskOK
    <2>2. CASE sr.TCF
      <3>1. ctl'.phase = "run" /\ ctl'.ins = "RDSR"
        BY <2>1, <2>2 DEF QUADSPI_IRQHandler, PollBusy, Started
      <3> QED BY <1>1, <2>1, <3>1 DEF HeardOK, CommandsHeard, Running, Polled
    <2>3. CASE ~sr.TCF
      <3>1. ctl' = ctl
        BY <2>3 DEF QUADSPI_IRQHandler, PollBusy
      <3>2. ~chip.WIP
        BY <1>1, <2>3 DEF QUADSPI_IRQHandler, QuadspiRequest, WakeOK
      <3> QED BY <1>1, <2>1, <3>1, <3>2 DEF HeardOK, CommandsHeard, Polled
    <2> QED BY <2>2, <2>3
  <1>3. LatchOK'
    BY <1>1 DEF LatchOK, Running, QUADSPI_IRQHandler, Started
  <1>4. SentOK'
    BY <1>1 DEF SentOK, Running, QUADSPI_IRQHandler, Started
  <1>5. ReceivedOK'
    BY <1>1 DEF ReceivedOK, Running, Delivered, QUADSPI_IRQHandler, Started
  <1> QED BY <1>2, <1>3, <1>4, <1>5 DEF Faithful

LEMMA DMA2_Stream2_IRQHandlerFaithful ==
    ASSUME Inv, Faithful, DMA2_Stream2_IRQHandler
    PROVE  Faithful'
  <1>1. /\ TypeOK /\ TaskOK /\ CommandOK /\ BytesOK /\ StreamOK /\ WakeOK
        /\ HeardOK /\ LatchOK /\ SentOK /\ ReceivedOK
    BY DEF Inv, Faithful
  <1>2. HeardOK'
    BY <1>1 DEF HeardOK, CommandsHeard, Running, Polled, DMA2_Stream2_IRQHandler
  <1>3. LatchOK'
    BY <1>1 DEF LatchOK, Running, DMA2_Stream2_IRQHandler
  <1>4. SentOK'
    BY <1>1 DEF SentOK, Running, DMA2_Stream2_IRQHandler
  <1>5. ReceivedOK'
    BY <1>1 DEF ReceivedOK, Running, Delivered, DMA2_Stream2_IRQHandler
  <1> QED BY <1>2, <1>3, <1>4, <1>5 DEF Faithful

LEMMA BusPollFaithful == ASSUME Inv, Faithful, BusPoll PROVE Faithful'
  <1>1. /\ TypeOK /\ TaskOK /\ CommandOK /\ BytesOK /\ StreamOK /\ WakeOK
        /\ HeardOK /\ LatchOK /\ SentOK /\ ReceivedOK
    BY DEF Inv, Faithful
  <1>2. HeardOK'
    BY <1>1 DEF HeardOK, CommandsHeard, Polled, BusPoll, Idle
  <1>3. LatchOK'
    BY <1>1 DEF LatchOK, CommandOK, Running, BusPoll, Idle
  <1>4. SentOK'
    BY <1>1 DEF SentOK, Running, BusPoll, Idle
  <1>5. ReceivedOK'
    BY <1>1 DEF ReceivedOK, Running, Delivered, BusPoll, Idle
  <1> QED BY <1>2, <1>3, <1>4, <1>5 DEF Faithful

LEMMA DmaErrorFaithful == ASSUME Inv, Faithful, DmaError PROVE Faithful'
  <1>1. /\ TypeOK /\ TaskOK /\ CommandOK /\ BytesOK /\ StreamOK /\ WakeOK
        /\ HeardOK /\ LatchOK /\ SentOK /\ ReceivedOK
    BY DEF Inv, Faithful
  <1>2. HeardOK'
    BY <1>1 DEF HeardOK, CommandsHeard, Running, Polled, DmaError
  <1>3. LatchOK'
    BY <1>1 DEF LatchOK, Running, DmaError
  <1>4. SentOK'
    BY <1>1 DEF SentOK, Running, DmaError
  <1>5. ReceivedOK'
    BY <1>1 DEF ReceivedOK, Running, Delivered, DmaError
  <1> QED BY <1>2, <1>3, <1>4, <1>5 DEF Faithful

LEMMA ChipDoneFaithful == ASSUME Inv, Faithful, ChipDone PROVE Faithful'
  <1>1. /\ TypeOK /\ TaskOK /\ CommandOK /\ BytesOK /\ StreamOK /\ WakeOK
        /\ HeardOK /\ LatchOK /\ SentOK /\ ReceivedOK
    BY DEF Inv, Faithful
  <1>2. HeardOK'
    BY <1>1 DEF HeardOK, CommandsHeard, Polled, ChipDone
  <1>3. LatchOK'
    BY <1>1 DEF LatchOK, CommandOK, HeardOK, Running, ChipDone
  <1>4. SentOK'
    BY <1>1 DEF SentOK, Running, ChipDone
  <1>5. ReceivedOK'
    BY <1>1 DEF ReceivedOK, HeardOK, Running, ChipDone
  <1> QED BY <1>2, <1>3, <1>4, <1>5 DEF Faithful

LEMMA BusReadFaithful == ASSUME Inv, Faithful, BusRead PROVE Faithful'
  <1>1. /\ TypeOK /\ TaskOK /\ CommandOK /\ BytesOK /\ StreamOK /\ WakeOK
        /\ HeardOK /\ LatchOK /\ SentOK /\ ReceivedOK
    BY DEF Inv, Faithful
  <1>2. /\ op.kind = "READ" /\ tpc \in {"spin", "enable", "take"}
        /\ ctl.phase = "run" /\ ctl.ins = "READ" /\ ctl.heard /\ ~chip.WIP
        /\ tpc' = tpc /\ op' = op /\ chip' = chip /\ ram' = ram /\ ar' = ar
        /\ fifo' = Append(fifo, chip.array[ctl.addr])
    BY <1>1 DEF BusRead, CommandOK, HeardOK, CommandsHeard, Running
  <1>3. \/ ctl'.phase = "idle"
        \/ /\ ctl'.phase = "run" /\ ctl'.ins = "READ" /\ ctl'.heard
           /\ ctl'.addr = ctl.addr + 1
    <2>1. CASE ctl.left = 1
      BY <2>1 DEF BusRead, Idle
    <2>2. CASE ctl.left # 1
      <3>1. ctl' = [ctl EXCEPT !.addr = @ + 1, !.left = @ - 1]
        BY <2>2 DEF BusRead
      <3> QED BY <1>1, <1>2, <3>1
    <2> QED BY <2>1, <2>2
  <1>4. HeardOK'
    BY <1>1, <1>2, <1>3 DEF HeardOK, CommandsHeard
  <1>5. LatchOK'
    BY <1>1 DEF LatchOK, CommandOK, Running, BusRead
  <1>6. SentOK'
    BY <1>1, <1>2, <1>3 DEF SentOK, Running
  <1>7. ReceivedOK'
    <2>1. /\ ctl.addr = op.addr + Len(ram) + Len(fifo)
          /\ \A i \in 1 .. Len(ram) : ram[i] = chip.array[op.addr + i - 1]
          /\ \A i \in 1 .. Len(fifo) :
                fifo[i] = chip.array[op.addr + Len(ram) + i - 1]
      BY <1>1, <1>2 DEF ReceivedOK, Running
    <2>2. /\ Len(ram) \in Nat /\ Len(fifo) \in Nat /\ op.addr \in Nat
          /\ fifo \in Transferred
      BY <1>1 DEF TypeOK, Op
    <2>3. /\ Len(fifo') = Len(fifo) + 1
          /\ fifo'[Len(fifo) + 1] = chip.array[ctl.addr]
          /\ \A i \in 1 .. Len(fifo) : fifo'[i] = fifo[i]
      BY <1>2, <2>2
    <2>4. \A i \in 1 .. Len(fifo') :
             fifo'[i] = chip.array[op.addr + Len(ram) + i - 1]
      <3> SUFFICES ASSUME NEW i \in 1 .. Len(fifo')
                   PROVE  fifo'[i] = chip.array[op.addr + Len(ram) + i - 1]
        OBVIOUS
      <3>1. CASE i = Len(fifo) + 1
        <4>1. op.addr + Len(ram) + i - 1 = ctl.addr
          BY <2>1, <2>2, <3>1
        <4> QED BY <2>3, <3>1, <4>1
      <3>2. CASE i \in 1 .. Len(fifo)
        BY <2>1, <2>3, <3>2
      <3> QED BY <2>2, <2>3, <3>1, <3>2
    <2>5. Running("READ")' => ctl'.addr = op.addr + Len(ram) + Len(fifo')
      BY <1>3, <2>1, <2>2, <2>3 DEF Running
    <2> QED BY <1>2, <2>1, <2>4, <2>5 DEF ReceivedOK
  <1> QED BY <1>4, <1>5, <1>6, <1>7 DEF Faithful

LEMMA BusWriteFaithful == ASSUME Inv, Faithful, BusWrite PROVE Faithful'
  <1>1. /\ TypeOK /\ TaskOK /\ CommandOK /\ BytesOK /\ StreamOK /\ WakeOK
        /\ HeardOK /\ LatchOK /\ SentOK /\ ReceivedOK
    BY DEF Inv, Faithful
  <1>2. /\ op.kind = "WRITE" /\ tpc = "take" /\ ctl.phase = "run"
        /\ ctl.ins = "WRITE"
        /\ ctl.heard /\ ~chip.WIP /\ chip.WEL /\ fifo # <<>>
        /\ tpc' = tpc /\ op' = op /\ ram' = ram /\ ar' = ar /\ fifo' = Tail(fifo)
    <2>1. op.kind = "WRITE" /\ tpc \in {"spin", "enable", "take"}
          /\ ctl.phase = "run" /\ ctl.ins = "WRITE"
      BY <1>1 DEF BusWrite, CommandOK, Running
    <2>2. tpc # "spin" /\ tpc # "enable"
      BY <1>1, <2>1 DEF HeardOK, CommandOK, TaskOK
    <2>3. ctl.heard /\ ~chip.WIP /\ chip.WEL
      BY <1>1, <2>1 DEF HeardOK, LatchOK, CommandsHeard, CommandOK, Running
    <2> QED BY <2>1, <2>2, <2>3 DEF BusWrite
  <1>3. /\ fifo \in Seq(SUBSET Byte) /\ Len(fifo) \in Nat \ {0}
        /\ ctl.bytes \in Seq(SUBSET Byte) /\ Len(ctl.bytes) \in Nat
        /\ op.bytes \in Seq(SUBSET Byte) /\ Len(op.bytes) = op.len
        /\ op.len \in Nat
        /\ Len(ctl.bytes) + ctl.left = op.len /\ ctl.left \in Nat \ {0}
    <2>1. fifo \in Seq(SUBSET Byte)
      BY <1>1, <1>2 DEF BytesOK
    <2>2. Len(fifo) \in Nat \ {0}
      BY <1>2, <2>1
    <2>3. /\ ctl.bytes \in Seq(SUBSET Byte) /\ ctl.left \in Nat
          /\ op.bytes \in Seq(SUBSET Byte) /\ op.len \in Nat
      BY <1>1 DEF TypeOK, Command, Op
    <2>4. Len(op.bytes) = op.len /\ Len(ctl.bytes) + ctl.left = op.len
          /\ ctl.left > 0
      BY <1>1, <1>2 DEF TaskOK, BytesOK, Running
    <2> QED BY <2>1, <2>2, <2>3, <2>4
  <1>4. /\ ctl.addr = op.addr
        /\ \A i \in 1 .. Len(ctl.bytes) : ctl.bytes[i] = op.bytes[i]
        /\ \A i \in 1 .. Len(fifo) : fifo[i] = op.bytes[Len(ctl.bytes) + i]
    BY <1>1, <1>2 DEF SentOK, Running
  <1> DEFINE sent == Append(ctl.bytes, Head(fifo))
  <1>5. /\ Len(sent) = Len(ctl.bytes) + 1 /\ sent \in Seq(SUBSET Byte)
        /\ \A i \in 1 .. Len(sent) : sent[i] = op.bytes[i]
    <2>1. Head(fifo) = fifo[1] /\ Head(fifo) \in SUBSET Byte
      BY <1>3
    <2>2. Head(fifo) = op.bytes[Len(ctl.bytes) + 1]
      BY <1>3, <1>4, <2>1
    <2>3. /\ Len(sent) = Len(ctl.bytes) + 1 /\ sent \in Seq(SUBSET Byte)
          /\ sent[Len(ctl.bytes) + 1] = Head(fifo)
          /\ \A i \in 1 .. Len(ctl.bytes) : sent[i] = ctl.bytes[i]
      BY <1>3, <2>1
    <2> HIDE DEF sent
    <2>4. ASSUME NEW i \in 1 .. Len(sent) PROVE sent[i] = op.bytes[i]
      <3>1. CASE i = Len(ctl.bytes) + 1
        BY <2>2, <2>3, <3>1
      <3>2. CASE i \in 1 .. Len(ctl.bytes)
        BY <1>4, <2>3, <3>2
      <3>3. Len(ctl.bytes) \in Nat
        BY <1>3
      <3> QED BY <2>3, <3>1, <3>2, <3>3
    <2> QED BY <2>3, <2>4
  <1>6. ctl.left = 1 => /\ ctl'.phase = "idle" /\ sr'.TCF /\ sent = op.bytes
                       /\ chip' = ChipAfter("WRITE", sent)
    <2> SUFFICES ASSUME ctl.left = 1
                 PROVE  /\ ctl'.phase = "idle" /\ sr'.TCF /\ sent = op.bytes
                        /\ chip' = ChipAfter("WRITE", sent)
      OBVIOUS
    <2>1. /\ ctl' = Idle /\ sr' = [sr EXCEPT !.TCF = TRUE]
          /\ chip' = ChipAfter("WRITE", sent)
      BY DEF BusWrite
    <2>2. ctl'.phase = "idle" /\ sr'.TCF
      BY <1>1, <2>1 DEF Idle
    <2>3. Len(sent) = Len(op.bytes)
      BY <1>3, <1>5
    <2>4. sent = op.bytes
      BY <1>3, <1>5, <2>3, SeqEqual
    <2> QED BY <2>1, <2>2, <2>4
  <1>7. ctl.left # 1 => /\ ctl'.phase = "run" /\ ctl'.ins = "WRITE" /\ ctl'.heard
                       /\ ctl'.addr = ctl.addr /\ ctl'.bytes = sent
                       /\ sr' = sr /\ chip' = chip
    <2> SUFFICES ASSUME ctl.left # 1
                 PROVE  /\ ctl'.phase = "run" /\ ctl'.ins = "WRITE" /\ ctl'.heard
                        /\ ctl'.addr = ctl.addr /\ ctl'.bytes = sent
                        /\ sr' = sr /\ chip' = chip
      OBVIOUS
    <2>1. /\ ctl' = [ctl EXCEPT !.bytes = sent, !.left = @ - 1]
          /\ sr' = sr /\ chip' = chip
      BY DEF BusWrite
    <2> HIDE DEF sent
    <2> QED BY <1>1, <1>2, <2>1
  <1>8. ctl.left = 1 => chip'.WIP /\ chip'.change = op
    <2> SUFFICES ASSUME ctl.left = 1 PROVE chip'.WIP /\ chip'.change = op
      OBVIOUS
    <2>1. chip' = [chip EXCEPT !.WIP = TRUE,
                               !.change = [kind |-> "WRITE", addr |-> op.addr,
                                           len |-> op.len, bytes |-> op.bytes]]
      BY <1>2, <1>4, <1>6 DEF ChipAfter
    <2>2. op = [kind |-> "WRITE", addr |-> op.addr, len |-> op.len,
                bytes |-> op.bytes]
      BY <1>1, <1>2 DEF TypeOK, Op
    <2> QED BY <1>1, <2>1, <2>2
  <1>9. HeardOK'
    BY <1>1, <1>2, <1>6, <1>7 DEF HeardOK, CommandsHeard, Polled
  <1>10. LatchOK'
    <2>1. ctl.left # 1 => chip'.WEL
      BY <1>2, <1>7
    <2> QED BY <1>2, <1>6, <2>1 DEF LatchOK, Running
  <1>11. SentOK'
    <2>1. CASE ctl.left = 1
      BY <1>2, <1>6, <1>8, <2>1 DEF SentOK, Running
    <2>2. CASE ctl.left # 1
      <3>1. Len(fifo') = Len(fifo) - 1 /\ \A i \in 1 .. Len(fifo') :
                                             fifo'[i] = fifo[i + 1]
        BY <1>2, <1>3
      <3>2. \A i \in 1 .. Len(fifo') : fifo'[i] = op.bytes[Len(sent) + i]
        <4> SUFFICES ASSUME NEW i \in 1 .. Len(fifo')
                     PROVE  fifo'[i] = op.bytes[Len(sent) + i]
          OBVIOUS
        <4>1. i + 1 \in 1 .. Len(fifo) /\ Len(ctl.bytes) + (i + 1) = Len(sent) + i
          <5>1. /\ Len(fifo') = Len(fifo) - 1 /\ Len(fifo) \in Nat
                /\ Len(sent) = Len(ctl.bytes) + 1 /\ Len(ctl.bytes) \in Nat
            BY <1>3, <1>5, <3>1
          <5> HIDE DEF sent
          <5>2. i \in Nat /\ 1 <= i /\ i <= Len(fifo) - 1
            BY <5>1
          <5>3. i + 1 \in 1 .. Len(fifo)
            BY <5>1, <5>2
          <5>4. Len(ctl.bytes) \in Nat /\ i \in Nat
            BY <5>1, <5>2
          <5>5. Len(ctl.bytes) + (i + 1) = (Len(ctl.bytes) + 1) + i
            BY <5>4, Shift
          <5> QED BY <5>1, <5>3, <5>5
        <4> QED BY <1>4, <3>1, <4>1
      <3>3. ctl'.addr = op.addr /\ ctl'.bytes = sent /\ ~chip'.WIP
            /\ ctl'.phase = "run" /\ ctl'.ins = "WRITE"
        BY <1>2, <1>4, <1>7, <2>2
      <3> HIDE DEF sent
      <3> QED BY <1>2, <1>5, <3>2, <3>3 DEF SentOK
    <2> QED BY <2>1, <2>2
  <1>12. ReceivedOK'
    BY <1>2, <1>6, <1>7 DEF ReceivedOK, Running
  <1> QED BY <1>9, <1>10, <1>11, <1>12 DEF Faithful

LEMMA BusCommandFaithful == ASSUME Inv, Faithful, BusCommand PROVE Faithful'
  <1>1. /\ TypeOK /\ TaskOK /\ CommandOK /\ BytesOK /\ StreamOK /\ WakeOK
        /\ HeardOK /\ LatchOK /\ SentOK /\ ReceivedOK
    BY DEF Inv, Faithful
  <1>2. HeardOK'
    BY <1>1 DEF HeardOK, CommandOK, TaskOK, CommandsHeard, Running, Polled,
       BusCommand, Idle
  <1>3. LatchOK'
    BY <1>1 DEF LatchOK, CommandOK, HeardOK, CommandsHeard, Running, BusCommand,
       ChipAfter
  <1>4. SentOK'
    <2>1. /\ ctl'.phase = "idle" /\ op' = op /\ tpc' = tpc /\ ~chip.WIP
          /\ op.kind # "NONE"
      BY <1>1 DEF BusCommand, Idle, HeardOK, CommandOK, TaskOK, Running
    <2>2. chip'.WIP => chip'.change = op
      <3>1. CASE ctl.ins = "ERASE"
        <4>1. op.kind = "ERASE" /\ ctl.addr = op.addr /\ op.bytes = <<>>
          BY <1>1, <3>1 DEF BusCommand, CommandOK, SentOK, Running
        <4>2. op = [kind |-> "ERASE", addr |-> op.addr, len |-> op.len,
                    bytes |-> <<>>]
          BY <1>1, <4>1 DEF TypeOK, Op
        <4>3. \/ chip' = chip
              \/ chip' = [chip EXCEPT !.WIP = TRUE,
                                      !.change = [kind |-> "ERASE",
                                                  addr |-> op.addr,
                                                  len |-> op.len, bytes |-> <<>>]]
          BY <3>1, <4>1 DEF BusCommand, ChipAfter
        <4> QED BY <1>1, <2>1, <4>2, <4>3 DEF TypeOK, Chip
      <3>2. CASE ctl.ins # "ERASE"
        BY <1>1, <2>1, <3>2 DEF BusCommand
      <3> QED BY <3>1, <3>2
    <2> QED BY <1>1, <2>1, <2>2 DEF SentOK, Running
  <1>5. ReceivedOK'
    BY <1>1 DEF ReceivedOK, Running, Delivered, BusCommand, Idle, ChipAfter
  <1> QED BY <1>2, <1>3, <1>4, <1>5 DEF Faithful

LEMMA DmaReadFaithful == ASSUME Inv, Faithful, DmaRead PROVE Faithful'
  <1>1. /\ TypeOK /\ TaskOK /\ CommandOK /\ BytesOK /\ StreamOK /\ WakeOK
        /\ HeardOK /\ LatchOK /\ SentOK /\ ReceivedOK
    BY DEF Inv, Faithful
  <1>2. /\ op.kind = "READ" /\ tpc = "take" /\ fifo # <<>>
        /\ tpc' = tpc /\ op' = op /\ ctl' = ctl /\ chip' = chip /\ ar' = ar
        /\ fifo' = Tail(fifo) /\ ram' = Append(ram, Head(fifo))
    BY <1>1 DEF DmaRead, StreamOK
  <1>3. /\ Len(fifo') = Len(fifo) - 1 /\ Len(fifo) \in Nat \ {0}
        /\ \A i \in 1 .. Len(fifo') : fifo'[i] = fifo[i + 1]
        /\ Len(ram') = Len(ram) + 1 /\ Len(ram) \in Nat
        /\ \A i \in 1 .. Len(ram) : ram'[i] = ram[i]
        /\ ram'[Len(ram) + 1] = fifo[1]
    BY <1>1, <1>2
  <1>4. HeardOK'
    BY <1>1 DEF HeardOK, CommandsHeard, Running, Polled, DmaRead
  <1>5. LatchOK'
    BY <1>1 DEF LatchOK, Running, DmaRead
  <1>6. SentOK'
    BY <1>1, <1>2 DEF SentOK, CommandOK, Running
  <1>7. ReceivedOK'
    <2>1. /\ \A i \in 1 .. Len(ram) : ram[i] = chip.array[op.addr + i - 1]
          /\ \A i \in 1 .. Len(fifo) :
                fifo[i] = chip.array[op.addr + Len(ram) + i - 1]
          /\ Running("READ") => ctl.addr = op.addr + Len(ram) + Len(fifo)
          /\ op.addr \in Nat
      BY <1>1, <1>2 DEF ReceivedOK, TypeOK, Op
    <2>2. \A i \in 1 .. Len(ram') : ram'[i] = chip.array[op.addr + i - 1]
      <3> SUFFICES ASSUME NEW i \in 1 .. Len(ram')
                   PROVE  ram'[i] = chip.array[op.addr + i - 1]
        OBVIOUS
      <3>1. CASE i = Len(ram) + 1
        <4>1. fifo[1] = chip.array[op.addr + Len(ram) + 1 - 1]
          BY <1>3, <2>1
        <4>2. op.addr + Len(ram) + 1 - 1 = op.addr + i - 1
          BY <1>3, <2>1, <3>1
        <4> QED BY <1>3, <3>1, <4>1, <4>2
      <3>2. CASE i \in 1 .. Len(ram)
        BY <1>3, <2>1, <3>2
      <3> QED BY <1>3, <3>1, <3>2
    <2>3. \A i \in 1 .. Len(fifo') :
             fifo'[i] = chip.array[op.addr + Len(ram') + i - 1]
      <3> SUFFICES ASSUME NEW i \in 1 .. Len(fifo')
                   PROVE  fifo'[i] = chip.array[op.addr + Len(ram') + i - 1]
        OBVIOUS
      <3>1. i + 1 \in 1 .. Len(fifo)
        BY <1>3
      <3>2. op.addr + Len(ram') + i - 1 = op.addr + Len(ram) + (i + 1) - 1
        <4>1. Len(ram') = Len(ram) + 1 /\ Len(ram) \in Nat /\ op.addr \in Nat
              /\ i \in Nat
          BY <1>3, <2>1
        <4> QED BY <4>1
      <3> QED BY <1>3, <2>1, <3>1, <3>2
    <2>4. Running("READ") => ctl.addr = op.addr + Len(ram') + Len(fifo')
      <3>1. /\ Len(ram') = Len(ram) + 1 /\ Len(ram) \in Nat /\ op.addr \in Nat
            /\ Len(fifo') = Len(fifo) - 1 /\ Len(fifo) \in Nat
        BY <1>3, <2>1
      <3>2. op.addr + Len(ram) + Len(fifo) = op.addr + Len(ram') + Len(fifo')
        BY <3>1
      <3> QED BY <2>1, <3>2
    <2> QED BY <1>2, <2>2, <2>3, <2>4 DEF ReceivedOK, Running
  <1> QED BY <1>4, <1>5, <1>6, <1>7 DEF Faithful

LEMMA DmaWriteFaithful == ASSUME Inv, Faithful, DmaWrite PROVE Faithful'
  <1>1. /\ TypeOK /\ TaskOK /\ CommandOK /\ BytesOK /\ StreamOK /\ WakeOK
        /\ HeardOK /\ LatchOK /\ SentOK /\ ReceivedOK
    BY DEF Inv, Faithful
  <1>2. /\ op.kind = "WRITE" /\ tpc = "take" /\ dma.EN /\ ~chip.WIP
        /\ tpc' = tpc /\ op' = op /\ ram' = ram /\ ar' = ar /\ chip' = chip
        /\ fifo' = Append(fifo, op.bytes[op.len - dma.left + 1])
    <2>1. op.kind = "WRITE" /\ dma.EN /\ tpc = "take" /\ dma.left > 0
      BY <1>1 DEF DmaWrite, StreamOK
    <2>2. ~chip.WIP
      BY <1>1, <2>1 DEF HeardOK, BytesOK, CommandOK, WakeOK, Running
    <2> QED BY <2>1, <2>2 DEF DmaWrite
  <1>3. /\ fifo \in Seq(SUBSET Byte) /\ Len(fifo) \in Nat /\ op.len \in Nat
        /\ dma.left \in Nat
        /\ op.bytes \in Seq(SUBSET Byte) /\ ctl.bytes \in Seq(SUBSET Byte)
        /\ Len(ctl.bytes) \in Nat
    BY <1>1, <1>2 DEF TypeOK, BytesOK, Op, Stream, Command
  <1>4. /\ Len(fifo') = Len(fifo) + 1
        /\ fifo'[Len(fifo) + 1] = op.bytes[op.len - dma.left + 1]
        /\ \A i \in 1 .. Len(fifo) : fifo'[i] = fifo[i]
    BY <1>2, <1>3
  <1>5. HeardOK'
    BY <1>1 DEF HeardOK, CommandOK, CommandsHeard, Running, Polled, DmaWrite,
       Started
  <1>6. LatchOK'
    BY <1>1 DEF LatchOK, Running, DmaWrite, Started
  <1>7. SentOK'
    <2>1. CASE ctl.phase = "armed"
      <3>1. ctl' = Started("WRITE", ar, ctl.left) /\ ar = op.addr
        BY <1>1, <1>2, <2>1 DEF DmaWrite, SentOK
      <3>2. /\ ctl'.phase = "run" /\ ctl'.ins = "WRITE" /\ ctl'.addr = op.addr
            /\ ctl'.bytes = <<>> /\ Len(ctl'.bytes) = 0
        BY <3>1 DEF Started
      <3>3. Len(fifo) = 0 /\ dma.left = op.len
        BY <1>1, <1>2, <2>1 DEF CommandOK, BytesOK
      <3>4. Len(fifo') = 1 /\ fifo'[1] = op.bytes[1]
        BY <1>3, <1>4, <3>3
      <3>5. \A i \in 1 .. Len(fifo') : fifo'[i] = op.bytes[Len(ctl'.bytes) + i]
        BY <3>2, <3>4
      <3> QED BY <1>2, <3>2, <3>5 DEF SentOK
    <2>2. CASE ctl.phase # "armed"
      <3>1. ctl' = ctl
        BY <2>2 DEF DmaWrite
      <3>2. ctl.phase = "run" /\ ctl.ins = "WRITE"
        <4>1. ctl.phase # "idle"
          BY <1>1, <1>2 DEF BytesOK, StreamOK
        <4> QED BY <1>1, <1>2, <2>2, <4>1 DEF CommandOK, WakeOK, TypeOK, Command
      <3>3. /\ Len(ctl.bytes) + ctl.left = op.len
            /\ ctl.left = Len(fifo) + dma.left
            /\ ctl.left \in Nat
        BY <1>1, <1>2, <3>2 DEF BytesOK, Running, TypeOK, Command
      <3>4. op.len - dma.left + 1 = Len(ctl.bytes) + (Len(fifo) + 1)
        <4>1. /\ Len(fifo) \in Nat /\ op.len \in Nat /\ dma.left \in Nat
              /\ Len(ctl.bytes) \in Nat
          BY <1>3
        <4>2. op.len = Len(ctl.bytes) + (Len(fifo) + dma.left)
          BY <3>3
        <4>3. (Len(ctl.bytes) + (Len(fifo) + dma.left)) - dma.left + 1
                 = Len(ctl.bytes) + (Len(fifo) + 1)
          <5>1. Len(ctl.bytes) \in Nat
            BY <4>1
          <5>2. Len(fifo) \in Nat
            BY <4>1
          <5>3. dma.left \in Nat
            BY <4>1
          <5> QED BY <5>1, <5>2, <5>3, Regroup, Zenon
        <4> QED BY <4>2, <4>3
      <3>5. /\ ctl.addr = op.addr
            /\ \A i \in 1 .. Len(ctl.bytes) : ctl.bytes[i] = op.bytes[i]
            /\ \A i \in 1 .. Len(fifo) : fifo[i] = op.bytes[Len(ctl.bytes) + i]
        BY <1>1, <3>2 DEF SentOK, Running
      <3>6. \A i \in 1 .. Len(fifo') : fifo'[i] = op.bytes[Len(ctl.bytes) + i]
        <4> SUFFICES ASSUME NEW i \in 1 .. Len(fifo')
                     PROVE  fifo'[i] = op.bytes[Len(ctl.bytes) + i]
          OBVIOUS
        <4>1. CASE i = Len(fifo) + 1
          BY <1>4, <3>4, <4>1
        <4>2. CASE i \in 1 .. Len(fifo)
          BY <1>4, <3>5, <4>2
        <4> QED BY <1>3, <1>4, <4>1, <4>2
      <3> QED BY <1>2, <3>1, <3>2, <3>5, <3>6 DEF SentOK
    <2> QED BY <2>1, <2>2
  <1>8. ReceivedOK'
    <2>1. ~Running("READ")'
      BY <1>1, <1>2 DEF DmaWrite, Started, CommandOK, Running
    <2> QED BY <1>2, <2>1 DEF ReceivedOK
  <1> QED BY <1>5, <1>6, <1>7, <1>8 DEF Faithful

-----------------------------------------------------------------------------
(* The beginnings: the chip is ready, and the operation is a new one. *)
LEMMA BeginFaithful ==
    ASSUME NEW kind \in {"READ", "WRITE", "ERASE"}, NEW a \in Nat,
           NEW n \in Nat \ {0},
           NEW bytes \in Seq(SUBSET Byte), kind = "WRITE" => n > DMA_THRESHOLD,
           kind = "ERASE" => bytes = <<>>,
           Inv, Faithful, Begin(kind, a, n, bytes)
    PROVE  Faithful'
  <1>1. /\ TypeOK /\ TaskOK /\ CommandOK /\ BytesOK /\ StreamOK /\ WakeOK
        /\ HeardOK /\ LatchOK /\ SentOK /\ ReceivedOK
    BY DEF Inv, Faithful
  <1>2. ~Busy /\ tpc = "idle" /\ ctl.phase = "idle" /\ ~chip.WIP
    BY <1>1 DEF Begin, CommandOK, HeardOK, Busy
  <1>3. /\ op' = [kind |-> kind, addr |-> a, len |-> n, bytes |-> bytes]
        /\ tpc' \in {"wren", "setup"} /\ (tpc' = "setup" <=> kind = "READ")
        /\ ctl' = ctl /\ chip' = chip
    BY DEF Begin, FirstStep
  <1>4. HeardOK'
    BY <1>2, <1>3 DEF HeardOK, CommandsHeard, Polled
  <1>5. LatchOK'
    BY <1>2, <1>3 DEF LatchOK, Running
  <1>6. SentOK'
    BY <1>2, <1>3 DEF SentOK, Running
  <1>7. ReceivedOK'
    BY <1>2, <1>3 DEF ReceivedOK, Running
  <1> QED BY <1>4, <1>5, <1>6, <1>7 DEF Faithful

LEMMA BeginsFaithful ==
    ASSUME LongPrograms, Inv, Faithful, BeginRead \/ BeginWrite \/ BeginErase
    PROVE  Faithful'
  <1>1. CASE BeginRead
    <2>1. PICK a \in Address, n \in ReadLength :
            a + n <= QSPI_FLASH_SIZE /\ Begin("READ", a, n, <<>>)
      BY <1>1 DEF BeginRead
    <2>2. a \in Nat /\ n \in Nat \ {0} /\ <<>> \in Seq(SUBSET Byte)
      BY DEF Cell
    <2> QED BY <2>1, <2>2, BeginFaithful
  <1>2. CASE BeginWrite
    <2>1. PICK a \in Address, n \in WriteLength, d \in Data :
            /\ n > 0 /\ a + n <= QSPI_FLASH_SIZE
            /\ Begin("WRITE", a, n, [i \in 1 .. n |-> {<<d, i>>}])
      BY <1>2 DEF BeginWrite
    <2>2. a \in Nat /\ n \in Nat \ {0} /\ n > DMA_THRESHOLD
      BY <2>1 DEF Cell, LongPrograms
    <2> DEFINE bytes == [i \in 1 .. n |-> {<<d, i>>}]
    <2>3. bytes \in Seq(SUBSET Byte)
      <3>1. \A i \in 1 .. n : {<<d, i>>} \in SUBSET Byte
        BY <2>2 DEF Byte
      <3> QED BY <2>2, <3>1
    <2> HIDE DEF bytes
    <2>4. Begin("WRITE", a, n, bytes)
      BY <2>1 DEF bytes
    <2> QED BY <2>2, <2>3, <2>4, BeginFaithful
  <1>3. CASE BeginErase
    <2>1. PICK a \in Address, n \in SectorLength :
            a % n = 0 /\ a + n <= QSPI_FLASH_SIZE /\ Begin("ERASE", a, n, <<>>)
      BY <1>3 DEF BeginErase
    <2>2. a \in Nat /\ n \in Nat \ {0} /\ <<>> \in Seq(SUBSET Byte)
      BY DEF Cell
    <2> QED BY <2>1, <2>2, BeginFaithful
  <1> QED BY <1>1, <1>2, <1>3

LEMMA StutterFaithful == ASSUME Faithful, UNCHANGED vars PROVE Faithful'
  BY DEF vars, Faithful, HeardOK, LatchOK, SentOK, ReceivedOK, CommandsHeard,
     Delivered, Polled, Running

LEMMA InitFaithful == Init => Faithful
  BY DEF Init, Faithful, HeardOK, LatchOK, SentOK, ReceivedOK, CommandsHeard,
     NoOp, Idle

LEMMA NextFaithful ==
    ASSUME LongPrograms, Inv, Faithful, [Next]_vars
    PROVE  Faithful'
  <1>1. CASE DriverTask
    BY <1>1, BeginsFaithful, WriteEnableFaithful, WriteEnableDoneFaithful,
       SetupFaithful, WriteAddressFaithful, FeedFaithful, SpinDoneFaithful,
       EnableFaithful, TakeFaithful, ReturnFaithful DEF DriverTask
  <1>2. CASE Interrupts
    BY <1>2, QUADSPI_IRQHandlerFaithful, DMA2_Stream2_IRQHandlerFaithful
       DEF Interrupts
  <1>3. CASE Hardware \/ DmaError
    BY <1>3, BusReadFaithful, BusWriteFaithful, BusCommandFaithful,
       BusPollFaithful, DmaReadFaithful, DmaWriteFaithful, ChipDoneFaithful,
       DmaErrorFaithful DEF Hardware
  <1>4. CASE UNCHANGED vars
    BY <1>4, StutterFaithful
  <1> QED BY <1>1, <1>2, <1>3, <1>4 DEF Next

(* When no program is polled (the branch of writeFlashPage at              *)
(* drivQSPI.c:315), every command finds the chip ready and every byte of an *)
(* operation is the right one.                                             *)
THEOREM AlwaysFaithful == LongPrograms => (Spec => []Faithful)
  <1> SUFFICES ASSUME LongPrograms PROVE Spec => []Faithful
    OBVIOUS
  <1>1. Init => Inv /\ Faithful
    BY InitInv, InitFaithful
  <1>2. Inv /\ Faithful /\ [Next]_vars => (Inv /\ Faithful)'
    BY NextInv, NextFaithful
  <1> QED BY <1>1, <1>2, PTL DEF Spec

(* Then no command but the status poll is given to a chip that programs or *)
(* erases: the wait for WIP in QUADSPI_IRQHandler is enough.               *)
THEOREM EveryCommandIsHeard == LongPrograms => (Spec => []CommandsHeard)
  <1>1. Faithful => CommandsHeard
    BY DEF Faithful, HeardOK
  <1> QED BY <1>1, AlwaysFaithful, PTL
=============================================================================
