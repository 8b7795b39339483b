------------------------ MODULE QspiTransfer_proofs ------------------------
(***************************************************************************)
(* Theorems about QspiTransfer, for a flash and a FIFO of any size, any    *)
(* threshold that fits the FIFO and any operations: the controller is      *)
(* never given two commands, an interrupt is requested only while its      *)
(* task waits for it, and the notification means that the work is done.    *)
(*                                                                         *)
(* Inv is the inductive invariant: what the task, the controller, the      *)
(* stream, the enable bits and the flags say of the operation agrees, and  *)
(* every byte of it is in exactly one place.                               *)
(***************************************************************************)
EXTENDS QspiTransfer, SequenceTheorems, TLAPS

(* What the task is doing it does for op, within the flash. *)
TaskOK ==
    /\ tpc = "idle" <=> op.kind = "NONE"
    /\ tpc # "idle" => /\ qspiAction = op.kind /\ op.len > 0
                       /\ op.addr + op.len <= QSPI_FLASH_SIZE
    /\ op.kind = "WRITE" => Len(op.bytes) = op.len
    /\ tpc \in {"wren", "wrenWait"} => op.kind # "READ"
    /\ tpc = "feed" => op.kind = "WRITE" /\ Polled
    /\ tpc = "spin" => Polled
    /\ tpc \in {"enable", "take"} => ~Polled

(* The command the controller has is the one the task gave it last. *)
CommandOK ==
    /\ tpc \in {"idle", "wren", "setup", "return"} => ~Busy
    /\ tpc = "wrenWait" => fifo = <<>> /\ (ctl.phase = "idle" \/ Running("WREN"))
    /\ tpc \in {"address", "feed"} => ctl.phase = "armed"
    /\ tpc = "enable" /\ op.kind = "WRITE" => ctl.phase = "armed"
    /\ ctl.phase = "armed" =>
          /\ tpc = "address" \/ (tpc \in {"feed", "enable", "take"} /\ op.kind = "WRITE")
          /\ fifo = <<>>
          /\ ctl.left = IF op.kind = "ERASE" THEN 0 ELSE op.len
    /\ ctl.phase = "run" =>
          \/ ctl.ins = "WREN" /\ tpc = "wrenWait"
          \/ ctl.ins = "RDSR" /\ cr.SMIE
          \/ ctl.ins = op.kind /\ op.kind # "NONE" /\ tpc \in {"spin", "enable", "take"}
    /\ sr.TCF => ctl.phase = "idle" /\ tpc \notin {"wren", "setup", "address", "feed"}

(* Every byte of the operation is in one place. *)
BytesOK ==
    /\ tpc \notin {"take", "return"} => ram = <<>>
    /\ op.kind = "READ" /\ tpc \in {"spin", "enable", "take"} =>
          /\ Len(ram) + Len(fifo) + (IF ctl.phase = "run" THEN ctl.left ELSE 0) = op.len
          /\ tpc = "take" => Len(ram) + dma.left = op.len
    /\ Running("READ") => ctl.left > 0 /\ ctl.addr + ctl.left <= QSPI_FLASH_SIZE
    /\ Running("WRITE") =>
          /\ ctl.left = Len(fifo) + (IF tpc = "take" THEN dma.left ELSE 0)
          /\ ctl.left > 0 /\ Len(ctl.bytes) + ctl.left = op.len
    /\ op.kind = "WRITE" => fifo \in Seq(SUBSET Byte)
    /\ op.kind = "WRITE" /\ ctl.phase = "armed" /\ tpc = "take" => dma.left = op.len
    /\ op.kind = "WRITE" /\ ctl.phase = "idle" /\ tpc = "take" => dma.left = 0
    /\ op.kind = "WRITE" /\ ctl.phase = "idle" => fifo = <<>>
    /\ op.kind = "ERASE" => fifo = <<>>

(* The stream works for the transfer under way, and for no other. *)
StreamOK ==
    /\ dma.EN => /\ dma.left > 0 /\ ~dma.TC /\ ~dma.TE
                 /\ tpc \in {"address", "enable", "take"} /\ ~Polled
                 /\ \/ op.kind = "READ" /\ dma.dir = "p2m"
                    \/ op.kind = "WRITE" /\ dma.dir = "m2p"
    /\ dma.TC => dma.left = 0 /\ ~dma.TE
    /\ dma.TE => dma.left > 0
    /\ dma.TC \/ dma.TE => tpc = "take" /\ op.kind # "ERASE"
    /\ tpc \in {"address", "enable"} /\ ~Polled /\ op.kind # "ERASE" =>
          dma.EN /\ dma.left = op.len
    /\ tpc = "take" /\ op.kind # "ERASE" /\ dma.left > 0 => dma.EN \/ dma.TE
    /\ cr.DMAEN => tpc = "take" /\ (dma.EN \/ dma.TC \/ dma.TE)

(* The enable bits, the flags and the notification follow each other. *)
WakeOK ==
    /\ cr.TCIE => /\ tpc \in {"idle", "take", "return"}
                  /\ tpc = "take" => op.kind # "READ"
                  /\ tpc # "take" => ~sr.TCF
    /\ cr.SMIE => /\ tpc = "take" /\ op.kind # "READ" /\ notified = 0
                  /\ ~sr.TCF /\ fifo = <<>>
                  /\ ~dma.EN /\ ~DmaRequest
                  /\ sr.SMF \/ Running("RDSR")
    /\ sr.SMF => cr.SMIE /\ ctl.phase = "idle" /\ ~chip.WIP
    /\ notified > 0 =>
          /\ tpc = "take" /\ notified = 1
          /\ ~dma.EN /\ ~DmaRequest
          /\ op.kind = "READ" => dma.left = 0
          /\ op.kind # "READ" => ~Busy /\ ~sr.TCF /\ ~chip.WIP

(* A program under way has all its bytes. *)
ChangeOK == chip.change.kind = "WRITE" => Len(chip.change.bytes) = chip.change.len

Inv == TypeOK /\ TaskOK /\ CommandOK /\ BytesOK /\ StreamOK /\ WakeOK /\ ChangeOK

USE LengthAssumption, DataAssumption

-----------------------------------------------------------------------------
(* The sequences and records the steps change. *)
LEMMA TransferredTail ==
    ASSUME NEW s \in Transferred, s # <<>>
    PROVE  /\ Tail(s) \in Transferred /\ Head(s) \in (SUBSET Byte) \cup {Garbage}
           /\ Len(Tail(s)) = Len(s) - 1 /\ Len(s) > 0 /\ Len(s) \in Nat
  BY DEF Transferred

LEMMA TransferredAppend ==
    ASSUME NEW s \in Transferred, NEW b \in (SUBSET Byte) \cup {Garbage}
    PROVE  Append(s, b) \in Transferred /\ Len(Append(s, b)) = Len(s) + 1 /\ Append(s, b) # <<>>
  BY DEF Transferred

(* The controller goes on to the next byte. *)
LEMMA CommandAdvances ==
    ASSUME NEW c \in Command, c.left > 0
    PROVE  LET n == [c EXCEPT !.addr = @ + 1, !.left = @ - 1]
           IN  /\ n \in Command /\ n.phase = c.phase /\ n.ins = c.ins
               /\ n.addr = c.addr + 1 /\ n.left = c.left - 1
  <1>1. c.addr + 1 \in Nat /\ c.left - 1 \in Nat
    BY DEF Command
  <1>2. [c EXCEPT !.addr = c.addr + 1, !.left = c.left - 1] \in Command
    BY <1>1 DEF Command
  <1> QED BY <1>1, <1>2 DEF Command

(* The stream moves a byte, and with the last one stops. *)
LEMMA StreamMoves ==
    ASSUME dma \in Stream, dma.EN => dma.left > 0, dma.EN
    PROVE  /\ DmaMoved \in Stream /\ DmaMoved.left = dma.left - 1
           /\ DmaMoved.dir = dma.dir /\ DmaMoved.TE = dma.TE
           /\ dma.left > 1 => DmaMoved.EN /\ DmaMoved.TC = dma.TC
           /\ dma.left = 1 => ~DmaMoved.EN /\ DmaMoved.TC
  <1>1. dma.left - 1 \in Nat /\ dma.left \in Nat \ {0}
    BY DEF Stream
  <1>2. CASE dma.left > 1
    <2>1. DmaMoved = [dma EXCEPT !.left = dma.left - 1]
      BY <1>2 DEF DmaMoved
    <2> QED BY <1>1, <1>2, <2>1 DEF Stream
  <1>3. CASE dma.left = 1
    <2>1. DmaMoved = [dma EXCEPT !.left = 0, !.TC = TRUE, !.EN = FALSE]
      BY <1>3 DEF DmaMoved
    <2>2. DmaMoved \in Stream /\ DmaMoved.left = 0 /\ DmaMoved.TC /\ ~DmaMoved.EN
      BY <2>1 DEF Stream
    <2>3. DmaMoved.dir = dma.dir /\ DmaMoved.TE = dma.TE
      BY <2>1 DEF Stream
    <2> QED BY <1>3, <2>2, <2>3
  <1> QED BY <1>1, <1>2, <1>3

(* A command that is started runs. *)
LEMMA StartedIs ==
    ASSUME chip \in Chip, NEW a \in Nat, NEW n \in Nat,
           NEW ins \in {"NONE", "READ", "WRITE", "ERASE", "WREN", "RDSR"}
    PROVE  LET c == Started(ins, a, n)
           IN  /\ c \in Command /\ c.phase = "run" /\ c.ins = ins
               /\ c.addr = a /\ c.left = n /\ c.bytes = <<>>
  BY DEF Started, Chip, Command

(* A program or an erase the chip begins keeps its type and its length. *)
LEMMA ChipBegins ==
    ASSUME ctl \in Command, op \in Op, chip \in Chip, NEW kind \in {"WRITE", "ERASE"},
           NEW bytes \in Seq(SUBSET Byte),
           ChangeOK, kind = "WRITE" => Len(bytes) = op.len
    PROVE  LET c == ChipAfter(kind, bytes)
           IN  /\ c \in Chip /\ c.WIP \in BOOLEAN
               /\ c.change.kind = "WRITE" => Len(c.change.bytes) = c.change.len
  <1>1. CASE ctl.heard /\ chip.WEL
    <2> DEFINE ch == [kind |-> kind, addr |-> ctl.addr, len |-> op.len, bytes |-> bytes]
    <2>1. ch \in Op
      BY DEF Op, Command
    <2>2. ChipAfter(kind, bytes) = [chip EXCEPT !.WIP = TRUE, !.change = ch]
      BY <1>1 DEF ChipAfter
    <2>3. ch.kind = "WRITE" => Len(ch.bytes) = ch.len
      OBVIOUS
    <2> HIDE DEF ch
    <2> QED BY <2>1, <2>2, <2>3 DEF Chip
  <1>2. CASE ~(ctl.heard /\ chip.WEL)
    BY <1>2 DEF ChipAfter, Chip, ChangeOK
  <1> QED BY <1>1, <1>2

(* When the notification is there the controller has nothing left to do:    *)
(* every byte of a read is in the buffer, so none is in the FIFO or to come.*)
LEMMA WokenIsFree == ASSUME Inv, notified > 0 PROVE ~Busy
  <1>1. TypeOK /\ TaskOK /\ CommandOK /\ BytesOK /\ StreamOK /\ WakeOK
    BY DEF Inv
  <1>2. tpc = "take" /\ ctl.phase \in {"idle", "armed", "run"}
    BY <1>1 DEF WakeOK, TypeOK, Command
  <1>3. CASE op.kind = "READ"
    <2>1. /\ Len(ram) + Len(fifo) + (IF ctl.phase = "run" THEN ctl.left ELSE 0) = op.len
          /\ Len(ram) + dma.left = op.len /\ dma.left = 0
      BY <1>1, <1>2, <1>3 DEF WakeOK, BytesOK
    <2>2. Len(ram) \in Nat /\ Len(fifo) \in Nat /\ ctl.left \in Nat /\ op.len \in Nat
      BY <1>1 DEF TypeOK, Transferred, Command, Op
    <2>3. Len(fifo) = 0 /\ (ctl.phase = "run" => ctl.left = 0)
      BY <2>1, <2>2
    <2>4. fifo = <<>>
      BY <1>1, <2>3 DEF TypeOK, Transferred
    <2>5. ctl.phase # "run"
      BY <1>1, <1>2, <1>3, <2>3 DEF CommandOK, BytesOK, WakeOK, Running
    <2>6. ctl.phase # "armed"
      BY <1>1, <1>2, <1>3 DEF CommandOK
    <2> QED BY <1>2, <2>4, <2>5, <2>6 DEF Busy
  <1>4. CASE op.kind # "READ"
    BY <1>1, <1>4 DEF WakeOK
  <1> QED BY <1>3, <1>4

-----------------------------------------------------------------------------
(* The steps of the driver task. *)
LEMMA InitInv == Init => Inv
  <1> USE DEF Init, Busy, Polled, Running, DmaRequest, NoOp, NoChange, Idle
  <1>1. Init => TypeOK
    <2> SUFFICES ASSUME Init PROVE TypeOK
      OBVIOUS
    <2>1. chip \in Chip
      BY DEF Chip, Op
    <2>2. ram \in Transferred /\ fifo \in Transferred /\ Len(fifo) <= FIFO_DEPTH
      BY DEF Transferred
    <2>3. op \in Op /\ ctl \in Command /\ dma \in Stream /\ sr \in Flags /\ cr \in Enables
      BY DEF Op, Command, Stream, Flags, Enables
    <2> QED BY <2>1, <2>2, <2>3 DEF TypeOK
  <1>2. Init => TaskOK /\ CommandOK /\ BytesOK /\ StreamOK /\ WakeOK /\ ChangeOK
    BY DEF TaskOK, CommandOK, BytesOK, StreamOK, WakeOK, ChangeOK
  <1> QED BY <1>1, <1>2 DEF Inv

LEMMA BeginInv ==
    ASSUME NEW kind \in {"READ", "WRITE", "ERASE"}, NEW a \in Nat, NEW n \in Nat \ {0},
           NEW bytes \in Seq(SUBSET Byte), a + n <= QSPI_FLASH_SIZE,
           kind = "WRITE" => Len(bytes) = n,
           Inv, Begin(kind, a, n, bytes)
    PROVE  Inv'
  <1>1. TypeOK /\ TaskOK /\ CommandOK /\ BytesOK /\ StreamOK /\ WakeOK /\ ChangeOK
    BY DEF Inv
  <1>2. TypeOK'
    <2>1. (tpc \in {"idle", "wren", "wrenWait", "setup", "address", "feed", "spin",
          "enable", "take", "return"})'
      BY <1>1 DEF TypeOK, Begin, FirstStep, TcieOff
    <2>2. (op \in Op)'
      BY <1>1 DEF TypeOK, Begin, FirstStep, TcieOff, Op
    <2>3. (qspiAction \in {"NONE", "READ", "WRITE", "ERASE"})'
      BY <1>1 DEF TypeOK, Begin, FirstStep, TcieOff
    <2>4. (cr \in Enables)'
      BY <1>1 DEF TypeOK, Begin, FirstStep, TcieOff, Enables
    <2>5. (sr \in Flags)'
      BY <1>1 DEF TypeOK, Begin, FirstStep, TcieOff, Flags
    <2>6. (ram \in Transferred)'
      BY <1>1 DEF TypeOK, Begin, FirstStep, TcieOff, Transferred
    <2> QED BY <1>1, <2>1, <2>2, <2>3, <2>4, <2>5, <2>6 DEF TypeOK, Begin, Chip, Command, Stream, Transferred
  <1>3. TaskOK'
    BY <1>1 DEF TaskOK, Polled, Begin, FirstStep, TcieOff
  <1>4. CommandOK'
    BY <1>1 DEF CommandOK, Busy, Running, Begin, FirstStep, TcieOff
  <1>5. BytesOK'
    <2>1. fifo = <<>> /\ ctl.phase = "idle"
      BY <1>1 DEF Begin, CommandOK, Busy, TypeOK, Command
    <2>2. ram' = <<>> /\ fifo' = fifo /\ ctl' = ctl /\ tpc' \in {"setup", "wren"}
      BY DEF Begin, FirstStep
    <2>3. fifo' \in Seq(SUBSET Byte)
      BY <2>1, <2>2
    <2> QED BY <2>1, <2>2, <2>3 DEF BytesOK, Running
  <1>6. StreamOK'
    BY <1>1 DEF StreamOK, Polled, Begin, FirstStep, TcieOff
  <1>7. WakeOK'
    BY <1>1 DEF WakeOK, Busy, Running, DmaRequest, Begin, FirstStep, TcieOff
  <1>8. ChangeOK'
    BY <1>1 DEF ChangeOK, Begin, FirstStep, TcieOff
  <1> QED BY <1>2, <1>3, <1>4, <1>5, <1>6, <1>7, <1>8 DEF Inv

LEMMA WriteEnableInv == ASSUME Inv, WriteEnable PROVE Inv'
  <1>1. TypeOK /\ TaskOK /\ CommandOK /\ BytesOK /\ StreamOK /\ WakeOK /\ ChangeOK
    BY DEF Inv
  <1>2. TypeOK'
    <2>1. (tpc \in {"idle", "wren", "wrenWait", "setup", "address", "feed", "spin",
          "enable", "take", "return"})'
      BY <1>1 DEF TypeOK, WriteEnable, Started
    <2>2. (ctl \in Command)'
      BY <1>1 DEF TypeOK, WriteEnable, Started, Command
    <2> QED BY <1>1, <2>1, <2>2 DEF TypeOK, WriteEnable, Chip, Enables, Flags, Op, Stream, Transferred
  <1>3. TaskOK'
    BY <1>1 DEF TaskOK, Polled, WriteEnable, Started
  <1>4. CommandOK'
    BY <1>1 DEF CommandOK, Busy, Running, WriteEnable, Started
  <1>5. BytesOK'
    BY <1>1 DEF BytesOK, Running, WriteEnable, Started
  <1>6. StreamOK'
    BY <1>1 DEF StreamOK, Polled, WriteEnable, Started
  <1>7. WakeOK'
    BY <1>1 DEF WakeOK, Busy, Running, DmaRequest, WriteEnable, Started
  <1>8. ChangeOK'
    BY <1>1 DEF ChangeOK, WriteEnable, Started
  <1> QED BY <1>2, <1>3, <1>4, <1>5, <1>6, <1>7, <1>8 DEF Inv

LEMMA WriteEnableDoneInv == ASSUME Inv, WriteEnableDone PROVE Inv'
  <1>1. TypeOK /\ TaskOK /\ CommandOK /\ BytesOK /\ StreamOK /\ WakeOK /\ ChangeOK
    BY DEF Inv
  <1>2. TypeOK'
    <2>1. (tpc \in {"idle", "wren", "wrenWait", "setup", "address", "feed", "spin",
          "enable", "take", "return"})'
      BY <1>1 DEF TypeOK, WriteEnableDone, BusyOver
    <2>2. (sr \in Flags)'
      BY <1>1 DEF TypeOK, WriteEnableDone, BusyOver, Flags
    <2> QED BY <1>1, <2>1, <2>2 DEF TypeOK, WriteEnableDone, Chip, Command, Enables, Op, Stream, Transferred
  <1>3. TaskOK'
    BY <1>1 DEF TaskOK, Polled, WriteEnableDone, BusyOver
  <1>4. CommandOK'
    BY <1>1 DEF CommandOK, Busy, Running, WriteEnableDone, BusyOver
  <1>5. BytesOK'
    BY <1>1 DEF BytesOK, Running, WriteEnableDone, BusyOver
  <1>6. StreamOK'
    BY <1>1 DEF StreamOK, Polled, WriteEnableDone, BusyOver
  <1>7. WakeOK'
    BY <1>1 DEF WakeOK, Busy, Running, DmaRequest, WriteEnableDone, BusyOver
  <1>8. ChangeOK'
    BY <1>1 DEF ChangeOK, WriteEnableDone, BusyOver
  <1> QED BY <1>2, <1>3, <1>4, <1>5, <1>6, <1>7, <1>8 DEF Inv

LEMMA SetupInv == ASSUME Inv, Setup PROVE Inv'
  <1>1. TypeOK /\ TaskOK /\ CommandOK /\ BytesOK /\ StreamOK /\ WakeOK /\ ChangeOK
    BY DEF Inv
  <1>2. TypeOK'
    <2>1. (tpc \in {"idle", "wren", "wrenWait", "setup", "address", "feed", "spin",
          "enable", "take", "return"})'
      BY <1>1 DEF TypeOK, Setup, Armed
    <2>2. (cr \in Enables)'
      BY <1>1 DEF TypeOK, Setup, Armed, Enables
    <2>3. (dma \in Stream)'
      BY <1>1 DEF TypeOK, Setup, Armed, Stream, Op
    <2>4. (sr \in Flags)'
      BY <1>1 DEF TypeOK, Setup, Armed, Flags
    <2>5. (ctl \in Command)'
      BY <1>1 DEF TypeOK, Setup, Armed, Command, Op
    <2> QED BY <1>1, <2>1, <2>2, <2>3, <2>4, <2>5 DEF TypeOK, Setup, Chip, Op, Transferred
  <1>3. TaskOK'
    BY <1>1 DEF TaskOK, Polled, Setup, Armed
  <1>4. CommandOK'
    BY <1>1 DEF CommandOK, Busy, Running, Setup, Armed
  <1>5. BytesOK'
    BY <1>1 DEF BytesOK, Running, Setup, Armed
  <1>6. StreamOK'
    <2>1. /\ op.kind \in {"READ", "WRITE", "ERASE"} /\ op.len \in Nat /\ op.len > 0
          /\ cr.DMAEN = FALSE /\ dma \in Stream /\ cr \in Enables
          /\ ~dma.EN /\ ~dma.TC /\ ~dma.TE
      BY <1>1 DEF Setup, TypeOK, Op, TaskOK, StreamOK, Enables
    <2>2. tpc' = "address" /\ op' = op
      BY DEF Setup
    <2>3. CASE Polled \/ op.kind = "ERASE"
      <3>1. dma' = dma /\ cr'.DMAEN = FALSE
        BY <2>1, <2>3 DEF Setup, Enables
      <3> QED BY <1>1, <2>1, <2>2, <2>3, <3>1 DEF Setup, StreamOK, Polled
    <2>4. CASE ~(Polled \/ op.kind = "ERASE")
      <3>1. /\ cr' = cr
            /\ dma' = [dma EXCEPT !.EN = TRUE, !.left = op.len,
                                  !.dir = IF op.kind = "READ" THEN "p2m" ELSE "m2p"]
        BY <2>4 DEF Setup
      <3>2. /\ dma'.EN /\ dma'.left = op.len /\ ~dma'.TC /\ ~dma'.TE
            /\ dma'.dir = IF op.kind = "READ" THEN "p2m" ELSE "m2p"
        BY <2>1, <3>1 DEF Stream
      <3> QED BY <2>1, <2>2, <2>4, <3>1, <3>2 DEF StreamOK, Polled
    <2> QED BY <2>3, <2>4
  <1>7. WakeOK'
    BY <1>1 DEF WakeOK, TypeOK, Enables, Flags, Stream, StreamOK, CommandOK, Busy, Running, DmaRequest, Setup, Armed
  <1>8. ChangeOK'
    BY <1>1 DEF ChangeOK, Setup, Armed
  <1> QED BY <1>2, <1>3, <1>4, <1>5, <1>6, <1>7, <1>8 DEF Inv

LEMMA WriteAddressInv == ASSUME Inv, WriteAddress PROVE Inv'
  <1>1. TypeOK /\ TaskOK /\ CommandOK /\ BytesOK /\ StreamOK /\ WakeOK /\ ChangeOK
    BY DEF Inv
  <1>2. TypeOK'
    <2>1. (tpc \in {"idle", "wren", "wrenWait", "setup", "address", "feed", "spin",
          "enable", "take", "return"})'
      BY <1>1 DEF TypeOK, WriteAddress, Started
    <2>2. (ar \in Nat)'
      BY <1>1 DEF TypeOK, WriteAddress, Started, Op
    <2>3. (ctl \in Command)'
      BY <1>1 DEF TypeOK, WriteAddress, Started, Command, Op, Chip
    <2> QED BY <1>1, <2>1, <2>2, <2>3 DEF TypeOK, WriteAddress, Chip, Enables, Flags, Op, Stream, Transferred
  <1>3. TaskOK'
    BY <1>1 DEF TaskOK, TypeOK, Op, Polled, WriteAddress, Started
  <1>4. CommandOK'
    BY <1>1 DEF CommandOK, TypeOK, Op, Polled, TaskOK, Busy, Running, WriteAddress, Started
  <1>5. BytesOK'
    <2>1. /\ op.kind \in {"READ", "WRITE", "ERASE"} /\ op.len \in Nat /\ op.len > 0
          /\ op.addr \in Nat /\ op.addr + op.len <= QSPI_FLASH_SIZE
          /\ ctl.phase = "armed" /\ fifo = <<>> /\ ram = <<>>
          /\ ctl.left = IF op.kind = "ERASE" THEN 0 ELSE op.len
      BY <1>1 DEF WriteAddress, TypeOK, Op, TaskOK, CommandOK, BytesOK
    <2>2. /\ fifo' = fifo /\ op' = op /\ ram' = ram /\ dma' = dma
          /\ op.kind = "WRITE" => ctl' = ctl /\ tpc' \in {"feed", "enable"}
          /\ op.kind # "WRITE" => /\ ctl'.phase = "run" /\ ctl'.ins = op.kind
                                  /\ ctl'.addr = op.addr /\ ctl'.left = ctl.left
                                  /\ tpc' \in {"spin", "enable"}
      BY <2>1 DEF WriteAddress, Started, Polled
    <2>3. Len(fifo') = 0 /\ fifo' \in Seq(SUBSET Byte)
      BY <2>1, <2>2
    <2>4. CASE op.kind = "READ"
      <3>1. Len(ram) = 0
        BY <2>1
      <3> QED BY <2>1, <2>2, <2>3, <2>4, <3>1 DEF BytesOK, Running
    <2>5. CASE op.kind # "READ"
      BY <2>1, <2>2, <2>3, <2>5 DEF BytesOK, Running
    <2> QED BY <2>4, <2>5
  <1>6. StreamOK'
    BY <1>1 DEF StreamOK, Polled, WriteAddress, Started
  <1>7. WakeOK'
    BY <1>1 DEF WakeOK, Busy, Running, DmaRequest, WriteAddress, Started
  <1>8. ChangeOK'
    BY <1>1 DEF ChangeOK, WriteAddress, Started
  <1> QED BY <1>2, <1>3, <1>4, <1>5, <1>6, <1>7, <1>8 DEF Inv

LEMMA FeedInv == ASSUME Inv, Feed PROVE Inv'
  <1>1. TypeOK /\ TaskOK /\ CommandOK /\ BytesOK /\ StreamOK /\ WakeOK /\ ChangeOK
    BY DEF Inv
  <1>2. TypeOK'
    <2>1. (tpc \in {"idle", "wren", "wrenWait", "setup", "address", "feed", "spin",
          "enable", "take", "return"})'
      BY <1>1 DEF TypeOK, Feed, Started
    <2>2. (fifo \in Transferred /\ Len(fifo) <= FIFO_DEPTH)'
      BY <1>1 DEF TypeOK, Feed, Started, Transferred, TaskOK, Op, Polled
    <2>3. (ctl \in Command)'
      BY <1>1 DEF TypeOK, Feed, Started, Command
    <2> QED BY <1>1, <2>1, <2>2, <2>3 DEF TypeOK, Feed, Chip, Enables, Flags, Op, Stream, Transferred
  <1>3. TaskOK'
    BY <1>1 DEF TaskOK, Polled, Feed, Started
  <1>4. CommandOK'
    BY <1>1 DEF CommandOK, Busy, Running, Feed, Started
  <1>5. BytesOK'
    <2>1. op.kind = "WRITE" /\ Len(op.bytes) = op.len /\ op.len > 0 /\ op.bytes \in Seq(SUBSET Byte)
      BY <1>1 DEF Feed, TaskOK, TypeOK, Op
    <2>2. ctl.left = op.len /\ op.len \in Nat /\ ram = <<>>
      BY <1>1, <2>1 DEF Feed, CommandOK, BytesOK, TypeOK, Op
    <2>3. /\ ram' = ram /\ fifo' = op.bytes /\ op' = op /\ tpc' = "spin"
          /\ ctl'.phase = "run" /\ ctl'.ins = "WRITE" /\ ctl'.left = ctl.left /\ ctl'.bytes = <<>>
      BY DEF Feed, Started
    <2>4. Len(ctl'.bytes) = 0
      BY <2>3
    <2> QED BY <2>1, <2>2, <2>3, <2>4 DEF BytesOK, Running
  <1>6. StreamOK'
    BY <1>1 DEF StreamOK, Polled, Feed, Started
  <1>7. WakeOK'
    BY <1>1 DEF WakeOK, Busy, Running, DmaRequest, Feed, Started
  <1>8. ChangeOK'
    BY <1>1 DEF ChangeOK, Feed, Started
  <1> QED BY <1>2, <1>3, <1>4, <1>5, <1>6, <1>7, <1>8 DEF Inv

LEMMA SpinDoneInv == ASSUME Inv, SpinDone PROVE Inv'
  <1>1. TypeOK /\ TaskOK /\ CommandOK /\ BytesOK /\ StreamOK /\ WakeOK /\ ChangeOK
    BY DEF Inv
  <1>2. TypeOK'
    <2>1. (tpc \in {"idle", "wren", "wrenWait", "setup", "address", "feed", "spin",
          "enable", "take", "return"})'
      BY <1>1 DEF TypeOK, SpinDone
    <2>2. (ram \in Transferred)'
      BY <1>1 DEF TypeOK, SpinDone, Transferred
    <2>3. (fifo \in Transferred /\ Len(fifo) <= FIFO_DEPTH)'
      BY <1>1 DEF TypeOK, SpinDone, Transferred
    <2> QED BY <1>1, <2>1, <2>2, <2>3 DEF TypeOK, SpinDone, Chip, Command, Enables, Flags, Op, Stream
  <1>3. TaskOK'
    BY <1>1 DEF TaskOK, Polled, SpinDone
  <1>4. CommandOK'
    BY <1>1 DEF CommandOK, BytesOK, TaskOK, TypeOK, Op, Polled, Busy, Running, SpinDone
  <1>5. BytesOK'
    BY <1>1 DEF BytesOK, CommandOK, Running, SpinDone
  <1>6. StreamOK'
    BY <1>1 DEF StreamOK, Polled, SpinDone
  <1>7. WakeOK'
    BY <1>1 DEF WakeOK, Busy, Running, DmaRequest, SpinDone
  <1>8. ChangeOK'
    BY <1>1 DEF ChangeOK, SpinDone
  <1> QED BY <1>2, <1>3, <1>4, <1>5, <1>6, <1>7, <1>8 DEF Inv

LEMMA EnableInv == ASSUME Inv, Enable PROVE Inv'
  <1>1. TypeOK /\ TaskOK /\ CommandOK /\ BytesOK /\ StreamOK /\ WakeOK /\ ChangeOK
    BY DEF Inv
  <1>2. TypeOK'
    <2>1. (tpc \in {"idle", "wren", "wrenWait", "setup", "address", "feed", "spin",
          "enable", "take", "return"})'
      BY <1>1 DEF TypeOK, Enable
    <2>2. (cr \in Enables)'
      BY <1>1 DEF TypeOK, Enable, Enables
    <2> QED BY <1>1, <2>1, <2>2 DEF TypeOK, Enable, Chip, Command, Flags, Op, Stream, Transferred
  <1>3. TaskOK'
    BY <1>1 DEF TaskOK, Polled, Enable
  <1>4. CommandOK'
    BY <1>1 DEF CommandOK, Busy, Running, Enable
  <1>5. BytesOK'
    <2>1. /\ op' = op /\ ram' = ram /\ ctl' = ctl /\ fifo' = fifo /\ dma' = dma
          /\ tpc = "enable" /\ tpc' = "take"
      BY DEF Enable
    <2>2. op.kind # "ERASE" => dma.left = op.len
      BY <1>1, <2>1 DEF TaskOK, StreamOK
    <2>3. op.kind = "READ" => ram = <<>> /\ Len(ram) = 0
      BY <1>1, <2>1 DEF BytesOK
    <2>4. op.len \in Nat
      BY <1>1 DEF TypeOK, Op
    <2>5. op.kind = "WRITE" => ctl.phase = "armed"
      BY <1>1, <2>1 DEF CommandOK
    <2>6. op.kind = "READ" => Len(ram) + dma.left = op.len
      BY <2>2, <2>3, <2>4
    <2>7. Running("WRITE") => op.kind = "WRITE"
      BY <1>1, <2>1 DEF CommandOK, Running
    <2> QED BY <1>1, <2>1, <2>2, <2>5, <2>6, <2>7 DEF BytesOK, Running
  <1>6. StreamOK'
    BY <1>1 DEF StreamOK, TypeOK, TaskOK, Op, Enables, Polled, Enable
  <1>7. WakeOK'
    BY <1>1 DEF WakeOK, TypeOK, Op, Enables, CommandOK, StreamOK, Busy, Running, DmaRequest, Enable
  <1>8. ChangeOK'
    BY <1>1 DEF ChangeOK, Enable
  <1> QED BY <1>2, <1>3, <1>4, <1>5, <1>6, <1>7, <1>8 DEF Inv

LEMMA TakeInv == ASSUME Inv, Take PROVE Inv'
  <1>1. TypeOK /\ TaskOK /\ CommandOK /\ BytesOK /\ StreamOK /\ WakeOK /\ ChangeOK
    BY DEF Inv
  <1>2. TypeOK'
    <2>1. (tpc \in {"idle", "wren", "wrenWait", "setup", "address", "feed", "spin",
          "enable", "take", "return"})'
      BY <1>1 DEF TypeOK, Take
    <2>2. (notified \in Nat)'
      BY <1>1 DEF TypeOK, Take
    <2> QED BY <1>1, <2>1, <2>2 DEF TypeOK, Take, Chip, Command, Enables, Flags, Op, Stream, Transferred
  <1>3. TaskOK'
    BY <1>1 DEF TaskOK, Polled, Take
  <1>4. CommandOK'
    <2>1. ~Busy
      BY WokenIsFree DEF Take
    <2> QED BY <1>1, <2>1 DEF Take, CommandOK, Busy, Running
  <1>5. BytesOK'
    BY <1>1 DEF BytesOK, TypeOK, CommandOK, WakeOK, Busy, Running, Take
  <1>6. StreamOK'
    BY <1>1 DEF StreamOK, TypeOK, WakeOK, TaskOK, Polled, DmaRequest, Take
  <1>7. WakeOK'
    BY <1>1 DEF WakeOK, Busy, Running, DmaRequest, Take
  <1>8. ChangeOK'
    BY <1>1 DEF ChangeOK, Take
  <1> QED BY <1>2, <1>3, <1>4, <1>5, <1>6, <1>7, <1>8 DEF Inv

LEMMA ReturnInv == ASSUME Inv, Return PROVE Inv'
  <1>1. TypeOK /\ TaskOK /\ CommandOK /\ BytesOK /\ StreamOK /\ WakeOK /\ ChangeOK
    BY DEF Inv
  <1>2. TypeOK'
    <2>1. (tpc \in {"idle", "wren", "wrenWait", "setup", "address", "feed", "spin",
          "enable", "take", "return"})'
      BY <1>1 DEF TypeOK, Return, NoOp
    <2>2. (op \in Op)'
      BY <1>1 DEF TypeOK, Return, NoOp, Op
    <2>3. (ram \in Transferred)'
      BY <1>1 DEF TypeOK, Return, NoOp, Transferred
    <2> QED BY <1>1, <2>1, <2>2, <2>3 DEF TypeOK, Return, Chip, Command, Enables, Flags, Stream, Transferred
  <1>3. TaskOK'
    BY <1>1 DEF TaskOK, Polled, Return, NoOp
  <1>4. CommandOK'
    BY <1>1 DEF CommandOK, Busy, Running, Return, NoOp
  <1>5. BytesOK'
    BY <1>1 DEF BytesOK, CommandOK, Busy, Running, Return, NoOp
  <1>6. StreamOK'
    BY <1>1 DEF StreamOK, Polled, Return, NoOp
  <1>7. WakeOK'
    BY <1>1 DEF WakeOK, Busy, Running, DmaRequest, Return, NoOp
  <1>8. ChangeOK'
    BY <1>1 DEF ChangeOK, Return, NoOp
  <1> QED BY <1>2, <1>3, <1>4, <1>5, <1>6, <1>7, <1>8 DEF Inv

-----------------------------------------------------------------------------
(* The interrupt handlers. *)
LEMMA QUADSPI_IRQHandlerInv == ASSUME Inv, QUADSPI_IRQHandler PROVE Inv'
  <1>1. TypeOK /\ TaskOK /\ CommandOK /\ BytesOK /\ StreamOK /\ WakeOK /\ ChangeOK
    BY DEF Inv
  <1>2. TypeOK'
    <2>1. (sr \in Flags)'
      BY <1>1 DEF TypeOK, QUADSPI_IRQHandler, PollBusy, QuadspiRequest, Started, Flags
    <2>2. (cr \in Enables)'
      BY <1>1 DEF TypeOK, QUADSPI_IRQHandler, PollBusy, QuadspiRequest, Started, Enables
    <2>3. (ctl \in Command)'
      BY <1>1 DEF TypeOK, QUADSPI_IRQHandler, PollBusy, QuadspiRequest, Started, Command
    <2>4. (notified \in Nat)'
      BY <1>1 DEF TypeOK, QUADSPI_IRQHandler, PollBusy, QuadspiRequest, Started
    <2> QED BY <1>1, <2>1, <2>2, <2>3, <2>4 DEF TypeOK, QUADSPI_IRQHandler, Chip, Op, Stream, Transferred
  <1>3. TaskOK'
    BY <1>1 DEF TaskOK, Polled, QUADSPI_IRQHandler, PollBusy, QuadspiRequest, Started
  <1>4. CommandOK'
    BY <1>1 DEF CommandOK, TypeOK, TaskOK, BytesOK, WakeOK, Flags, Enables, Busy, Running, DmaRequest, QUADSPI_IRQHandler, PollBusy, QuadspiRequest, Started
  <1>5. BytesOK'
    BY <1>1 DEF BytesOK, CommandOK, WakeOK, TypeOK, Flags, Running, TaskOK, QUADSPI_IRQHandler, PollBusy, QuadspiRequest, Started
  <1>6. StreamOK'
    BY <1>1 DEF StreamOK, Polled, QUADSPI_IRQHandler, PollBusy, QuadspiRequest, Started
  <1>7. WakeOK'
    BY <1>1 DEF WakeOK, TypeOK, TaskOK, CommandOK, BytesOK, StreamOK, Flags, Enables, Stream, Op, Busy, Running, DmaRequest, QUADSPI_IRQHandler, PollBusy, QuadspiRequest, Started
  <1>8. ChangeOK'
    BY <1>1 DEF ChangeOK, QUADSPI_IRQHandler, PollBusy, QuadspiRequest, Started
  <1> QED BY <1>2, <1>3, <1>4, <1>5, <1>6, <1>7, <1>8 DEF Inv

LEMMA DMA2_Stream2_IRQHandlerInv == ASSUME Inv, DMA2_Stream2_IRQHandler PROVE Inv'
  <1>1. TypeOK /\ TaskOK /\ CommandOK /\ BytesOK /\ StreamOK /\ WakeOK /\ ChangeOK
    BY DEF Inv
  <1>2. TypeOK'
    <2>1. (dma \in Stream)'
      BY <1>1 DEF TypeOK, DMA2_Stream2_IRQHandler, DmaEndsRead, Stream
    <2>2. (cr \in Enables)'
      BY <1>1 DEF TypeOK, DMA2_Stream2_IRQHandler, DmaEndsRead, Enables
    <2>3. (notified \in Nat)'
      BY <1>1 DEF TypeOK, DMA2_Stream2_IRQHandler, DmaEndsRead
    <2> QED BY <1>1, <2>1, <2>2, <2>3 DEF TypeOK, DMA2_Stream2_IRQHandler, Chip, Command, Flags, Op, Transferred
  <1>3. TaskOK'
    BY <1>1 DEF TaskOK, Polled, DMA2_Stream2_IRQHandler, DmaEndsRead
  <1>4. CommandOK'
    BY <1>1 DEF CommandOK, Busy, Running, DMA2_Stream2_IRQHandler, DmaEndsRead
  <1>5. BytesOK'
    BY <1>1 DEF BytesOK, Running, DMA2_Stream2_IRQHandler, DmaEndsRead
  <1>6. StreamOK'
    BY <1>1 DEF StreamOK, Polled, DMA2_Stream2_IRQHandler, DmaEndsRead
  <1>7. WakeOK'
    BY <1>1 DEF WakeOK, TypeOK, TaskOK, BytesOK, StreamOK, Stream, Enables, Busy, Running, DmaRequest, DMA2_Stream2_IRQHandler, DmaEndsRead
  <1>8. ChangeOK'
    BY <1>1 DEF ChangeOK, DMA2_Stream2_IRQHandler, DmaEndsRead
  <1> QED BY <1>2, <1>3, <1>4, <1>5, <1>6, <1>7, <1>8 DEF Inv

-----------------------------------------------------------------------------
(* The controller, the stream and the chip. *)
LEMMA BusPollInv == ASSUME Inv, BusPoll PROVE Inv'
  <1>1. TypeOK /\ TaskOK /\ CommandOK /\ BytesOK /\ StreamOK /\ WakeOK /\ ChangeOK
    BY DEF Inv
  <1>2. TypeOK'
    <2>1. (ctl \in Command)'
      BY <1>1 DEF TypeOK, BusPoll, Idle, Command
    <2>2. (sr \in Flags)'
      BY <1>1 DEF TypeOK, BusPoll, Idle, Flags
    <2> QED BY <1>1, <2>1, <2>2 DEF TypeOK, BusPoll, Chip, Enables, Op, Stream, Transferred
  <1>3. TaskOK'
    BY <1>1 DEF TaskOK, Polled, BusPoll, Idle
  <1>4. CommandOK'
    BY <1>1 DEF CommandOK, Busy, Running, BusPoll, Idle
  <1>5. BytesOK'
    BY <1>1 DEF BytesOK, CommandOK, StreamOK, WakeOK, TypeOK, Stream, DmaRequest, Running, BusPoll, Idle
  <1>6. StreamOK'
    BY <1>1 DEF StreamOK, Polled, BusPoll, Idle
  <1>7. WakeOK'
    <2>1. /\ cr.SMIE /\ ~sr.TCF /\ ~chip.WIP /\ notified = 0
      BY <1>1 DEF BusPoll, CommandOK, WakeOK, Running, TypeOK, Op
    <2>2. sr'.SMF /\ ~sr'.TCF /\ ctl'.phase = "idle"
      BY <1>1, <2>1 DEF BusPoll, TypeOK, Flags, Idle
    <2>3. /\ tpc' = tpc /\ op' = op /\ notified' = notified /\ cr' = cr
          /\ fifo' = fifo /\ dma' = dma /\ chip' = chip
      BY DEF BusPoll
    <2> QED BY <1>1, <2>1, <2>2, <2>3 DEF WakeOK, Busy, Running, DmaRequest
  <1>8. ChangeOK'
    BY <1>1 DEF ChangeOK, BusPoll, Idle
  <1> QED BY <1>2, <1>3, <1>4, <1>5, <1>6, <1>7, <1>8 DEF Inv

LEMMA DmaErrorInv == ASSUME Inv, DmaError PROVE Inv'
  <1>1. TypeOK /\ TaskOK /\ CommandOK /\ BytesOK /\ StreamOK /\ WakeOK /\ ChangeOK
    BY DEF Inv
  <1>2. TypeOK'
    <2>1. (dma \in Stream)'
      BY <1>1 DEF TypeOK, DmaError, Stream
    <2> QED BY <1>1, <2>1 DEF TypeOK, DmaError, Chip, Command, Enables, Flags, Op, Transferred
  <1>3. TaskOK'
    BY <1>1 DEF TaskOK, Polled, DmaError
  <1>4. CommandOK'
    BY <1>1 DEF CommandOK, Busy, Running, DmaError
  <1>5. BytesOK'
    BY <1>1 DEF BytesOK, Running, DmaError
  <1>6. StreamOK'
    BY <1>1 DEF StreamOK, Polled, DmaError
  <1>7. WakeOK'
    BY <1>1 DEF WakeOK, Busy, Running, DmaRequest, DmaError
  <1>8. ChangeOK'
    BY <1>1 DEF ChangeOK, DmaError
  <1> QED BY <1>2, <1>3, <1>4, <1>5, <1>6, <1>7, <1>8 DEF Inv

LEMMA ChipDoneInv == ASSUME Inv, ChipDone PROVE Inv'
  <1>1. TypeOK /\ TaskOK /\ CommandOK /\ BytesOK /\ StreamOK /\ WakeOK /\ ChangeOK
    BY DEF Inv
  <1>2. TypeOK'
    <2>1. (chip \in Chip)'
      BY <1>1 DEF TypeOK, ChipDone, Changed, NoChange, Chip, ChangeOK, Op, Cell
    <2> QED BY <1>1, <2>1 DEF TypeOK, ChipDone, Command, Enables, Flags, Op, Stream, Transferred
  <1>3. TaskOK'
    BY <1>1 DEF TaskOK, Polled, ChipDone, Changed, NoChange
  <1>4. CommandOK'
    BY <1>1 DEF CommandOK, Busy, Running, ChipDone, Changed, NoChange
  <1>5. BytesOK'
    BY <1>1 DEF BytesOK, Running, ChipDone, Changed, NoChange
  <1>6. StreamOK'
    BY <1>1 DEF StreamOK, Polled, ChipDone, Changed, NoChange
  <1>7. WakeOK'
    BY <1>1 DEF WakeOK, Busy, Running, DmaRequest, ChipDone, Changed, NoChange
  <1>8. ChangeOK'
    BY <1>1 DEF ChangeOK, ChipDone, Changed, NoChange
  <1> QED BY <1>2, <1>3, <1>4, <1>5, <1>6, <1>7, <1>8 DEF Inv

LEMMA BusReadInv == ASSUME Inv, BusRead PROVE Inv'
  <1>1. TypeOK /\ TaskOK /\ CommandOK /\ BytesOK /\ StreamOK /\ WakeOK /\ ChangeOK
    BY DEF Inv
  <1>2. ctl \in Command /\ fifo \in Transferred /\ chip \in Chip /\ sr \in Flags
    BY <1>1 DEF TypeOK
  <1>3. /\ op.kind = "READ" /\ tpc \in {"spin", "enable", "take"}
        /\ ctl.phase = "run" /\ ctl.left > 0 /\ ctl.addr \in Cell /\ Len(fifo) < FIFO_DEPTH
    BY <1>1, <1>2 DEF BusRead, BytesOK, CommandOK, TaskOK, Running, Command, Cell
  <1>4. fifo' \in Transferred /\ Len(fifo') = Len(fifo) + 1 /\ Len(fifo) \in Nat /\ Len(fifo') <= FIFO_DEPTH
    <2>1. chip.array[ctl.addr] \in SUBSET Byte
      BY <1>2, <1>3 DEF Chip
    <2>2. fifo' \in Transferred /\ Len(fifo') = Len(fifo) + 1
      BY <1>2, <2>1, TransferredAppend DEF BusRead
    <2> QED BY <1>2, <1>3, <2>2 DEF Transferred
  <1>5. /\ ctl' \in Command /\ sr' \in Flags /\ sr'.SMF = sr.SMF
        /\ ctl.left = 1 => ctl'.phase = "idle"
        /\ ctl.left # 1 => /\ ctl'.phase = "run" /\ ctl'.ins = "READ" /\ sr' = sr
                           /\ ctl'.left = ctl.left - 1 /\ ctl'.addr = ctl.addr + 1
    <2>1. CASE ctl.left = 1
      <3>1. ctl' = Idle /\ sr' = [sr EXCEPT !.TCF = TRUE]
        BY <2>1 DEF BusRead
      <3>2. Idle \in Command /\ Idle.phase = "idle"
        BY DEF Idle, Command
      <3> QED BY <1>2, <2>1, <3>1, <3>2 DEF Flags
    <2>2. CASE ctl.left # 1
      <3>1. ctl' = [ctl EXCEPT !.addr = @ + 1, !.left = @ - 1] /\ sr' = sr
        BY <2>2 DEF BusRead
      <3> QED BY <1>2, <1>3, <2>2, <3>1, CommandAdvances DEF BusRead, Running
    <2> QED BY <2>1, <2>2
  <1>6. /\ tpc' = tpc /\ op' = op /\ ram' = ram /\ qspiAction' = qspiAction
        /\ notified' = notified /\ cr' = cr /\ ar' = ar /\ dma' = dma /\ chip' = chip
    BY DEF BusRead
  <1>11. TypeOK'
    <2>1. (ctl \in Command)' /\ (sr \in Flags)'
      BY <1>5 DEF Command, Flags
    <2>2. (fifo \in Transferred /\ Len(fifo) <= FIFO_DEPTH)'
      BY <1>4 DEF Transferred
    <2> QED BY <1>1, <1>6, <2>1, <2>2 DEF TypeOK, Op, Transferred, Enables, Stream, Chip
  <1>12. TaskOK'
    BY <1>1, <1>6 DEF TaskOK, Polled
  <1>13. CommandOK'
    BY <1>1, <1>3, <1>5, <1>6 DEF CommandOK, Busy, Running
  <1>14. BytesOK'
    <2>1. ctl.left \in Nat /\ ctl.addr \in Nat /\ ctl.left > 0
      BY <1>2, <1>3 DEF Command
    <2>2. Running("READ")' => ctl'.left > 0 /\ ctl'.addr + ctl'.left <= QSPI_FLASH_SIZE
      <3>1. ctl.addr + ctl.left <= QSPI_FLASH_SIZE
        BY <1>1, <1>3 DEF BytesOK, Running, BusRead
      <3>2. CASE ctl.left = 1
        BY <1>5, <3>2 DEF Running
      <3>3. CASE ctl.left # 1
        BY <1>5, <2>1, <3>1, <3>3
      <3> QED BY <3>2, <3>3
    <2>3. ~Running("WRITE")' /\ op'.kind = "READ"
      BY <1>3, <1>5, <1>6 DEF Running
    <2>4. Len(ram') + Len(fifo') + (IF ctl'.phase = "run" THEN ctl'.left ELSE 0) = op'.len
      <3>1. Len(ram) + Len(fifo) + ctl.left = op.len /\ Len(ram) \in Nat
        BY <1>1, <1>3 DEF BytesOK, TypeOK, Transferred
      <3> QED BY <1>4, <1>5, <1>6, <2>1, <3>1
    <2> QED BY <1>1, <1>3, <1>6, <2>2, <2>3, <2>4 DEF BytesOK
  <1>15. StreamOK'
    BY <1>1, <1>6 DEF StreamOK, Polled
  <1>16. WakeOK'
    BY <1>1, <1>3, <1>5, <1>6 DEF WakeOK, Busy, Running, DmaRequest, BusRead
  <1>17. ChangeOK'
    BY <1>1, <1>6 DEF ChangeOK
  <1> QED BY <1>11, <1>12, <1>13, <1>14, <1>15, <1>16, <1>17 DEF Inv

LEMMA BusWriteInv == ASSUME Inv, BusWrite PROVE Inv'
  <1>1. TypeOK /\ TaskOK /\ CommandOK /\ BytesOK /\ StreamOK /\ WakeOK /\ ChangeOK
    BY DEF Inv
  <1>2. /\ ctl \in Command /\ fifo \in Transferred /\ chip \in Chip /\ sr \in Flags
        /\ op \in Op /\ dma \in Stream
    BY <1>1 DEF TypeOK
  <1>3. /\ op.kind = "WRITE" /\ tpc \in {"spin", "enable", "take"}
        /\ ctl.phase = "run" /\ ctl.ins = "WRITE" /\ ctl.left > 0
        /\ Len(ctl.bytes) + ctl.left = op.len
        /\ ctl.left = Len(fifo) + (IF tpc = "take" THEN dma.left ELSE 0)
        /\ fifo \in Seq(SUBSET Byte) /\ fifo # <<>>
    BY <1>1 DEF BusWrite, BytesOK, CommandOK, Running
  <1>4. tpc # "enable" /\ ~cr.SMIE /\ ~sr.SMF /\ notified = 0
    BY <1>1, <1>3 DEF CommandOK, WakeOK, Running, Busy, TypeOK
  <1>5. /\ Head(fifo) \in SUBSET Byte /\ fifo' \in Seq(SUBSET Byte) /\ fifo' = Tail(fifo)
        /\ fifo' \in Transferred /\ Len(fifo') = Len(fifo) - 1 /\ Len(fifo) \in Nat \ {0}
        /\ Len(fifo') <= FIFO_DEPTH
    <2>1. fifo' = Tail(fifo)
      BY DEF BusWrite
    <2>2. Head(fifo) \in SUBSET Byte /\ fifo' \in Seq(SUBSET Byte)
      BY <1>3, <2>1
    <2>3. fifo' \in Transferred /\ Len(fifo') = Len(fifo) - 1 /\ Len(fifo) \in Nat \ {0}
      BY <1>2, <1>3, <2>1, TransferredTail
    <2>4. Len(fifo) <= FIFO_DEPTH
      BY <1>1 DEF TypeOK
    <2> QED BY <2>1, <2>2, <2>3, <2>4
  <1>6. /\ ctl.bytes \in Seq(SUBSET Byte) /\ Len(ctl.bytes) \in Nat
        /\ Append(ctl.bytes, Head(fifo)) \in Seq(SUBSET Byte)
        /\ Len(Append(ctl.bytes, Head(fifo))) = Len(ctl.bytes) + 1
        /\ ctl.left \in Nat \ {0} /\ dma.left \in Nat /\ op.len \in Nat
    BY <1>2, <1>3, <1>5 DEF Command, Stream, Op
  <1>7. ctl.left = 1 =>
          /\ ctl' \in Command /\ sr' \in Flags /\ chip' \in Chip /\ ChangeOK'
          /\ ctl'.phase = "idle" /\ sr'.SMF = sr.SMF
          /\ fifo' = <<>> /\ (tpc = "take" => dma.left = 0)
    <2> SUFFICES ASSUME ctl.left = 1 PROVE <1>7!2
      OBVIOUS
    <2>1. /\ ctl' = Idle /\ sr' = [sr EXCEPT !.TCF = TRUE]
          /\ chip' = ChipAfter("WRITE", Append(ctl.bytes, Head(fifo)))
      BY DEF BusWrite
    <2>2. Idle \in Command /\ Idle.phase = "idle"
      BY DEF Idle, Command
    <2>3. chip' \in Chip /\ (chip'.change.kind = "WRITE" => Len(chip'.change.bytes) = chip'.change.len)
      BY <1>1, <1>2, <1>3, <1>6, <2>1, ChipBegins
    <2>4. Len(fifo') = 0 /\ (tpc = "take" => dma.left = 0)
      BY <1>3, <1>5, <1>6
    <2>5. fifo' = <<>>
      BY <1>5, <2>4
    <2>6. sr' \in Flags /\ sr'.SMF = sr.SMF
      BY <1>2, <2>1 DEF Flags
    <2> QED BY <2>1, <2>2, <2>3, <2>4, <2>5, <2>6 DEF ChangeOK
  <1>8. ctl.left # 1 =>
          /\ ctl' \in Command /\ sr' = sr /\ chip' = chip
          /\ ctl'.phase = "run" /\ ctl'.ins = "WRITE" /\ ctl'.left = ctl.left - 1
          /\ Len(ctl'.bytes) = Len(ctl.bytes) + 1
    <2> SUFFICES ASSUME ctl.left # 1 PROVE <1>8!2
      OBVIOUS
    <2>1. /\ ctl' = [ctl EXCEPT !.bytes = Append(ctl.bytes, Head(fifo)), !.left = ctl.left - 1]
          /\ sr' = sr /\ chip' = chip
      BY DEF BusWrite
    <2>2. ctl.left - 1 \in Nat
      BY <1>6
    <2> QED BY <1>2, <1>3, <1>6, <2>1, <2>2 DEF Command
  <1>9. /\ tpc' = tpc /\ op' = op /\ ram' = ram /\ qspiAction' = qspiAction
        /\ notified' = notified /\ cr' = cr /\ ar' = ar /\ dma' = dma
    BY DEF BusWrite
  <1>11. TypeOK'
    <2>1. ctl' \in Command /\ sr' \in Flags /\ chip' \in Chip
      BY <1>2, <1>7, <1>8
    <2>2. (ctl \in Command)' /\ (sr \in Flags)' /\ (chip \in Chip)'
      BY <2>1 DEF Command, Flags, Chip, Op, Cell, Byte
    <2>3. (fifo \in Transferred /\ Len(fifo) <= FIFO_DEPTH)'
      BY <1>5 DEF Transferred
    <2> QED BY <1>1, <1>9, <2>2, <2>3 DEF TypeOK, Op, Transferred, Enables, Stream
  <1>12. TaskOK'
    BY <1>1, <1>9 DEF TaskOK, Polled
  <1>13. CommandOK'
    BY <1>1, <1>3, <1>4, <1>7, <1>8, <1>9 DEF CommandOK, Busy, Running
  <1>14. BytesOK'
    <2>0. tpc \notin {"take", "return"} => ram = <<>>
      BY <1>1 DEF BytesOK
    <2>1. CASE ctl.left = 1
      BY <1>3, <1>5, <1>7, <1>9, <2>0, <2>1 DEF BytesOK, Running
    <2>2. CASE ctl.left # 1
      <3>1. /\ ctl'.left = Len(fifo') + (IF tpc = "take" THEN dma.left ELSE 0)
            /\ ctl'.left > 0 /\ Len(ctl'.bytes) + ctl'.left = op.len
        <4>1. /\ ctl.left \in Nat \ {0} /\ dma.left \in Nat
              /\ Len(ctl.bytes) \in Nat /\ Len(fifo) \in Nat
          BY <1>5, <1>6
        <4>2. ctl'.left = ctl.left - 1 /\ Len(ctl'.bytes) = Len(ctl.bytes) + 1
          BY <1>8, <2>2
        <4>3. Len(fifo') = Len(fifo) - 1
          BY <1>5
        <4>4. Len(ctl'.bytes) + ctl'.left = op.len /\ ctl'.left > 0
          <5>1. Len(ctl.bytes) + ctl.left = op.len
            BY <1>3
          <5> QED BY <2>2, <4>1, <4>2, <5>1
        <4>5. ctl'.left = Len(fifo') + (IF tpc = "take" THEN dma.left ELSE 0)
          <5>1. ctl.left = Len(fifo) + (IF tpc = "take" THEN dma.left ELSE 0)
            BY <1>3
          <5> QED BY <4>1, <4>2, <4>3, <5>1
        <4> QED BY <4>4, <4>5
      <3> QED BY <1>3, <1>5, <1>8, <1>9, <2>0, <2>2, <3>1 DEF BytesOK, Running
    <2> QED BY <2>1, <2>2
  <1>15. StreamOK'
    BY <1>1, <1>9 DEF StreamOK, Polled
  <1>16. WakeOK'
    BY <1>1, <1>3, <1>4, <1>7, <1>8, <1>9 DEF WakeOK, Busy, Running, DmaRequest
  <1>17. ChangeOK'
    BY <1>1, <1>7, <1>8 DEF ChangeOK
  <1> QED BY <1>11, <1>12, <1>13, <1>14, <1>15, <1>16, <1>17 DEF Inv

LEMMA BusCommandInv == ASSUME Inv, BusCommand PROVE Inv'
  <1>1. TypeOK /\ TaskOK /\ CommandOK /\ BytesOK /\ StreamOK /\ WakeOK /\ ChangeOK
    BY DEF Inv
  <1>2. ctl \in Command /\ chip \in Chip /\ sr \in Flags /\ op \in Op
    BY <1>1 DEF TypeOK
  <1>3. /\ ctl.phase = "run"
        /\ \/ ctl.ins = "WREN" /\ tpc = "wrenWait"
           \/ ctl.ins = "ERASE" /\ op.kind = "ERASE" /\ tpc \in {"enable", "take"}
        /\ fifo = <<>> /\ ~cr.SMIE /\ ~sr.SMF /\ notified = 0 /\ (cr.TCIE => tpc = "take")
    BY <1>1 DEF BusCommand, CommandOK, TaskOK, BytesOK, WakeOK, Running, Busy, Polled, TypeOK
  <1>4. chip' \in Chip /\ ChangeOK'
    <2>1. CASE ctl.ins = "ERASE"
      <3>1. chip' = ChipAfter("ERASE", <<>>)
        BY <2>1 DEF BusCommand
      <3>2. <<>> \in Seq(SUBSET Byte)
        OBVIOUS
      <3>3. chip' \in Chip /\ (chip'.change.kind = "WRITE" => Len(chip'.change.bytes) = chip'.change.len)
        BY <1>1, <1>2, <3>1, <3>2, ChipBegins
      <3> QED BY <3>3 DEF ChangeOK
    <2>2. CASE ctl.ins # "ERASE"
      <3>1. chip' = IF ctl.heard THEN [chip EXCEPT !.WEL = TRUE] ELSE chip
        BY <2>2 DEF BusCommand
      <3>2. chip' \in Chip /\ chip'.change = chip.change
        BY <1>2, <3>1 DEF Chip
      <3> QED BY <1>1, <3>2 DEF ChangeOK
    <2> QED BY <2>1, <2>2
  <1>5. /\ ctl' \in Command /\ ctl'.phase = "idle"
        /\ sr' \in Flags /\ sr'.SMF = sr.SMF
    <2>1. Idle \in Command /\ Idle.phase = "idle"
      BY DEF Idle, Command
    <2>2. sr' = [sr EXCEPT !.TCF = TRUE] /\ ctl' = Idle
      BY DEF BusCommand
    <2> QED BY <1>2, <2>1, <2>2 DEF Flags
  <1>6. /\ tpc' = tpc /\ op' = op /\ ram' = ram /\ qspiAction' = qspiAction
        /\ notified' = notified /\ cr' = cr /\ ar' = ar /\ dma' = dma /\ fifo' = fifo
    BY DEF BusCommand
  <1>11. TypeOK'
    <2>1. (ctl \in Command)' /\ (sr \in Flags)' /\ (chip \in Chip)'
      BY <1>4, <1>5 DEF Command, Flags, Chip, Op, Cell, Byte
    <2> QED BY <1>1, <1>6, <2>1 DEF TypeOK, Op, Transferred, Enables, Stream
  <1>12. TaskOK'
    BY <1>1, <1>6 DEF TaskOK, Polled
  <1>13. CommandOK'
    BY <1>1, <1>3, <1>5, <1>6 DEF CommandOK, Busy, Running
  <1>14. BytesOK'
    BY <1>1, <1>3, <1>5, <1>6 DEF BytesOK, TaskOK, Running
  <1>15. StreamOK'
    BY <1>1, <1>6 DEF StreamOK, Polled
  <1>16. WakeOK'
    BY <1>1, <1>3, <1>5, <1>6 DEF WakeOK, Busy, Running, DmaRequest
  <1> QED BY <1>4, <1>11, <1>12, <1>13, <1>14, <1>15, <1>16 DEF Inv

LEMMA DmaReadInv == ASSUME Inv, DmaRead PROVE Inv'
  <1>1. TypeOK /\ TaskOK /\ CommandOK /\ BytesOK /\ StreamOK /\ WakeOK /\ ChangeOK
    BY DEF Inv
  <1>2. /\ fifo \in Transferred /\ ram \in Transferred /\ dma \in Stream /\ op \in Op
        /\ ctl \in Command
    BY <1>1 DEF TypeOK
  <1>3. /\ cr.DMAEN /\ dma.EN /\ dma.left > 0 /\ ~dma.TC /\ ~dma.TE /\ dma.dir = "p2m"
        /\ op.kind = "READ" /\ tpc = "take" /\ ~Polled /\ fifo # <<>>
        /\ ~cr.SMIE /\ ~sr.SMF /\ notified = 0
    BY <1>1 DEF DmaRead, StreamOK, WakeOK, TypeOK
  <1>4. /\ fifo' \in Transferred /\ Len(fifo') = Len(fifo) - 1
        /\ Len(fifo) \in Nat \ {0} /\ Len(fifo') <= FIFO_DEPTH
        /\ ram' \in Transferred /\ Len(ram') = Len(ram) + 1 /\ Len(ram) \in Nat
    <2>1. /\ fifo' = Tail(fifo) /\ ram' = Append(ram, Head(fifo))
      BY DEF DmaRead
    <2>2. /\ fifo' \in Transferred /\ Len(fifo') = Len(fifo) - 1
          /\ Len(fifo) \in Nat \ {0} /\ Head(fifo) \in (SUBSET Byte) \cup {Garbage}
      BY <1>2, <1>3, <2>1, TransferredTail
    <2>3. Len(fifo) <= FIFO_DEPTH
      BY <1>1 DEF TypeOK
    <2>4. ram' \in Transferred /\ Len(ram') = Len(ram) + 1
      BY <1>2, <2>1, <2>2, TransferredAppend
    <2>5. Len(ram) \in Nat
      BY <1>2 DEF Transferred
    <2> QED BY <2>2, <2>3, <2>4, <2>5
  <1>5. /\ dma' \in Stream /\ dma'.left = dma.left - 1 /\ dma.left \in Nat
        /\ dma'.dir = "p2m" /\ ~dma'.TE
        /\ dma.left > 1 => dma'.EN /\ ~dma'.TC
        /\ dma.left = 1 => ~dma'.EN /\ dma'.TC
    <2>1. dma' = DmaMoved
      BY DEF DmaRead
    <2>2. dma.left \in Nat
      BY <1>2 DEF Stream
    <2> QED BY <1>2, <1>3, <2>1, <2>2, StreamMoves
  <1>6. /\ tpc' = tpc /\ op' = op /\ qspiAction' = qspiAction /\ notified' = notified
        /\ cr' = cr /\ sr' = sr /\ ar' = ar /\ ctl' = ctl /\ chip' = chip
    BY DEF DmaRead
  <1>11. TypeOK'
    <2>1. (ram \in Transferred)' /\ (fifo \in Transferred /\ Len(fifo) <= FIFO_DEPTH)'
      BY <1>4 DEF Transferred
    <2>2. (dma \in Stream)'
      BY <1>5 DEF Stream
    <2> QED BY <1>1, <1>6, <2>1, <2>2 DEF TypeOK, Op, Enables, Flags, Command, Chip
  <1>12. TaskOK'
    BY <1>1, <1>6 DEF TaskOK, Polled
  <1>13. CommandOK'
    BY <1>1, <1>3, <1>6 DEF CommandOK, Busy, Running
  <1>14. BytesOK'
    <2>1. /\ Len(ram) + Len(fifo) + (IF ctl.phase = "run" THEN ctl.left ELSE 0) = op.len
          /\ Len(ram) + dma.left = op.len
      BY <1>1, <1>3 DEF BytesOK
    <2>2. ctl.left \in Nat /\ op.len \in Nat
      BY <1>2 DEF Command, Op
    <2>3. /\ Len(ram') + Len(fifo') + (IF ctl.phase = "run" THEN ctl.left ELSE 0) = op.len
          /\ Len(ram') + dma'.left = op.len
      BY <1>4, <1>5, <2>1, <2>2
    <2>4. Running("READ") => ctl.left > 0 /\ ctl.addr + ctl.left <= QSPI_FLASH_SIZE
      BY <1>1 DEF BytesOK
    <2>5. ~Running("WRITE")
      BY <1>1, <1>3 DEF CommandOK, Running
    <2> QED BY <1>3, <1>6, <2>3, <2>4, <2>5 DEF BytesOK, Running
  <1>15. StreamOK'
    <2>1. dma'.left > 0 <=> dma.left > 1
      BY <1>5
    <2>2. dma.left = 1 => dma'.left = 0
      BY <1>5
    <2>3. dma.left = 1 \/ dma.left > 1
      BY <1>3, <1>5
    <2> QED BY <1>1, <1>3, <1>5, <1>6, <2>1, <2>2, <2>3 DEF StreamOK, Polled
  <1>16. WakeOK'
    BY <1>1, <1>3, <1>6 DEF WakeOK, Busy, Running, DmaRequest
  <1>17. ChangeOK'
    BY <1>1, <1>6 DEF ChangeOK
  <1> QED BY <1>11, <1>12, <1>13, <1>14, <1>15, <1>16, <1>17 DEF Inv

LEMMA DmaWriteInv == ASSUME Inv, DmaWrite PROVE Inv'
  <1>1. TypeOK /\ TaskOK /\ CommandOK /\ BytesOK /\ StreamOK /\ WakeOK /\ ChangeOK
    BY DEF Inv
  <1>2. /\ fifo \in Transferred /\ dma \in Stream /\ op \in Op /\ ctl \in Command
        /\ chip \in Chip /\ ar \in Nat
    BY <1>1 DEF TypeOK
  <1>3. /\ cr.DMAEN /\ dma.EN /\ dma.left > 0 /\ ~dma.TC /\ ~dma.TE /\ dma.dir = "m2p"
        /\ op.kind = "WRITE" /\ tpc = "take" /\ ~Polled
        /\ ~cr.SMIE /\ ~sr.SMF /\ notified = 0
    BY <1>1 DEF DmaWrite, StreamOK, WakeOK, TypeOK
  <1>4. /\ op.len \in Nat /\ op.bytes \in Seq(SUBSET Byte) /\ Len(op.bytes) = op.len
        /\ dma.left \in Nat /\ ctl.left \in Nat /\ Len(fifo) \in Nat
        /\ ctl.bytes \in Seq(SUBSET Byte) /\ Len(ctl.bytes) \in Nat
        /\ ctl.phase \in {"idle", "armed", "run"} /\ fifo \in Seq(SUBSET Byte)
    BY <1>1, <1>2, <1>3 DEF Op, Stream, Command, Transferred, TaskOK, BytesOK
  <1>5. \/ ctl.phase = "armed" /\ fifo = <<>> /\ ctl.left = op.len /\ dma.left = op.len
        \/ /\ ctl.phase = "run" /\ ctl.ins = "WRITE" /\ ctl.left = Len(fifo) + dma.left
           /\ ctl.left > 0 /\ Len(ctl.bytes) + ctl.left = op.len
    BY <1>1, <1>3, <1>4 DEF CommandOK, BytesOK, Running
  <1>6. dma.left <= op.len
    <2>1. CASE dma.left = op.len
      BY <1>4, <2>1
    <2>2. CASE ctl.left = Len(fifo) + dma.left /\ Len(ctl.bytes) + ctl.left = op.len
      BY <1>4, <2>2
    <2> QED BY <1>5, <2>1, <2>2
  <1>7. /\ fifo' \in Seq(SUBSET Byte) /\ Len(fifo') = Len(fifo) + 1 /\ Len(fifo') <= FIFO_DEPTH
        /\ fifo' \in Transferred
    <2> DEFINE i == op.len - dma.left + 1
    <2>1. i \in 1 .. Len(op.bytes)
      BY <1>3, <1>4, <1>6
    <2>2. op.bytes[i] \in SUBSET Byte
      BY <1>4, <2>1
    <2>3. fifo' = Append(fifo, op.bytes[i]) /\ Len(fifo) < FIFO_DEPTH
      BY DEF DmaWrite
    <2> HIDE DEF i
    <2>4. fifo' \in Seq(SUBSET Byte) /\ Len(fifo') = Len(fifo) + 1
      BY <1>4, <2>2, <2>3
    <2>5. fifo' \in Transferred
      BY <1>2, <2>2, <2>3, TransferredAppend
    <2>6. Len(fifo') <= FIFO_DEPTH
      BY <1>4, <2>3, <2>4
    <2> QED BY <2>4, <2>5, <2>6
  <1>8. /\ dma' \in Stream /\ dma'.left = dma.left - 1
        /\ dma'.dir = "m2p" /\ ~dma'.TE
        /\ dma.left > 1 => dma'.EN /\ ~dma'.TC
        /\ dma.left = 1 => ~dma'.EN /\ dma'.TC
    <2>1. dma' = DmaMoved
      BY DEF DmaWrite
    <2> QED BY <1>2, <1>3, <2>1, StreamMoves
  <1>9. /\ ctl' \in Command /\ ctl'.phase = "run" /\ ctl'.ins = "WRITE"
        /\ ctl'.left = Len(fifo') + dma'.left /\ ctl'.left > 0
        /\ Len(ctl'.bytes) + ctl'.left = op.len
    <2>1. CASE ctl.phase = "armed"
      <3>1. ctl' = Started("WRITE", ar, ctl.left)
        BY <2>1 DEF DmaWrite
      <3>2. /\ ctl' \in Command /\ ctl'.phase = "run" /\ ctl'.ins = "WRITE"
            /\ ctl'.left = ctl.left /\ ctl'.bytes = <<>>
        <4>1. ctl.left \in Nat
          BY <1>4
        <4> QED BY <1>2, <3>1, <4>1, StartedIs
      <3>3. ctl.left = op.len /\ dma.left = op.len /\ Len(fifo) = 0
        BY <1>5, <2>1
      <3>4. Len(fifo') = 1
        BY <1>7, <3>3
      <3>5. ctl'.left = Len(fifo') + dma'.left /\ ctl'.left > 0
        BY <1>3, <1>4, <1>8, <3>2, <3>3, <3>4
      <3>6. Len(ctl'.bytes) = 0
        BY <3>2
      <3>7. Len(ctl'.bytes) + ctl'.left = op.len
        BY <1>4, <3>2, <3>3, <3>6
      <3> QED BY <3>2, <3>5, <3>7
    <2>2. CASE ctl.phase # "armed"
      <3>1. ctl' = ctl
        BY <2>2 DEF DmaWrite
      <3>2. /\ ctl.phase = "run" /\ ctl.ins = "WRITE" /\ ctl.left = Len(fifo) + dma.left
            /\ ctl.left > 0 /\ Len(ctl.bytes) + ctl.left = op.len
        BY <1>5, <2>2
      <3>3. Len(fifo) + dma.left = Len(fifo') + dma'.left
        BY <1>4, <1>7, <1>8
      <3> QED BY <1>2, <3>1, <3>2, <3>3
    <2> QED BY <2>1, <2>2
  <1>10. /\ tpc' = tpc /\ op' = op /\ ram' = ram /\ qspiAction' = qspiAction
         /\ notified' = notified /\ cr' = cr /\ sr' = sr /\ ar' = ar /\ chip' = chip
    BY DEF DmaWrite
  <1>11. TypeOK'
    <2>1. (fifo \in Transferred /\ Len(fifo) <= FIFO_DEPTH)' /\ (dma \in Stream)' /\ (ctl \in Command)'
      BY <1>7, <1>8, <1>9 DEF Transferred, Stream, Command
    <2> QED BY <1>1, <1>10, <2>1 DEF TypeOK, Op, Enables, Flags, Chip, Transferred
  <1>12. TaskOK'
    BY <1>1, <1>10 DEF TaskOK, Polled
  <1>13. CommandOK'
    <2>1. ~sr.TCF
      BY <1>1, <1>5 DEF CommandOK
    <2> QED BY <1>3, <1>9, <1>10, <2>1 DEF CommandOK, Busy, Running
  <1>14. BytesOK'
    BY <1>3, <1>7, <1>9, <1>10 DEF BytesOK, Running
  <1>15. StreamOK'
    <2>1. dma'.left > 0 <=> dma.left > 1
      BY <1>4, <1>8
    <2>2. dma.left = 1 => dma'.left = 0
      BY <1>8
    <2>3. dma.left = 1 \/ dma.left > 1
      BY <1>3, <1>4
    <2> QED BY <1>1, <1>3, <1>8, <1>10, <2>1, <2>2, <2>3 DEF StreamOK, Polled
  <1>16. WakeOK'
    BY <1>1, <1>3, <1>10 DEF WakeOK, Busy, Running, DmaRequest
  <1>17. ChangeOK'
    BY <1>1, <1>10 DEF ChangeOK
  <1> QED BY <1>11, <1>12, <1>13, <1>14, <1>15, <1>16, <1>17 DEF Inv

-----------------------------------------------------------------------------
(* Every step. *)
LEMMA BeginsInv == ASSUME Inv, BeginRead \/ BeginWrite \/ BeginErase PROVE Inv'
  <1>1. CASE BeginRead
    <2>1. PICK a \in Address, n \in ReadLength :
            a + n <= QSPI_FLASH_SIZE /\ Begin("READ", a, n, <<>>)
      BY <1>1 DEF BeginRead
    <2>2. a \in Nat /\ n \in Nat \ {0} /\ <<>> \in Seq(SUBSET Byte)
      BY DEF Cell
    <2> QED BY <2>1, <2>2, BeginInv
  <1>2. CASE BeginWrite
    <2>1. PICK a \in Address, n \in WriteLength, d \in Data :
            /\ n > 0 /\ a + n <= QSPI_FLASH_SIZE
            /\ Begin("WRITE", a, n, [i \in 1 .. n |-> {<<d, i>>}])
      BY <1>2 DEF BeginWrite
    <2>2. a \in Nat /\ n \in Nat \ {0}
      BY <2>1 DEF Cell
    <2> DEFINE bytes == [i \in 1 .. n |-> {<<d, i>>}]
    <2>3. bytes \in Seq(SUBSET Byte) /\ Len(bytes) = n
      <3>1. \A i \in 1 .. n : {<<d, i>>} \in SUBSET Byte
        BY <2>2 DEF Byte
      <3> QED BY <2>2, <3>1
    <2> HIDE DEF bytes
    <2>4. Begin("WRITE", a, n, bytes)
      BY <2>1 DEF bytes
    <2> QED BY <2>1, <2>2, <2>3, <2>4, BeginInv
  <1>3. CASE BeginErase
    <2>1. PICK a \in Address, n \in SectorLength :
            a % n = 0 /\ a + n <= QSPI_FLASH_SIZE /\ Begin("ERASE", a, n, <<>>)
      BY <1>3 DEF BeginErase
    <2>2. a \in Nat /\ n \in Nat \ {0} /\ <<>> \in Seq(SUBSET Byte)
      BY DEF Cell
    <2> QED BY <2>1, <2>2, BeginInv
  <1> QED BY <1>1, <1>2, <1>3

LEMMA StutterInv == ASSUME Inv, UNCHANGED vars PROVE Inv'
  <1>1. TypeOK'
    BY DEF vars, Inv, TypeOK, Op, Transferred, Enables, Flags, Command, Stream, Chip
  <1>2. TaskOK' /\ CommandOK' /\ BytesOK' /\ StreamOK' /\ WakeOK' /\ ChangeOK'
    BY DEF vars, Inv, TaskOK, CommandOK, BytesOK, StreamOK, WakeOK, ChangeOK,
           Busy, Polled, Running, DmaRequest
  <1> QED BY <1>1, <1>2 DEF Inv

LEMMA NextInv == ASSUME Inv, [Next]_vars PROVE Inv'
  <1>1. CASE DriverTask
    BY <1>1, BeginsInv, WriteEnableInv, WriteEnableDoneInv, SetupInv, WriteAddressInv,
       FeedInv, SpinDoneInv, EnableInv, TakeInv, ReturnInv DEF DriverTask
  <1>2. CASE Interrupts
    BY <1>2, QUADSPI_IRQHandlerInv, DMA2_Stream2_IRQHandlerInv DEF Interrupts
  <1>3. CASE Hardware \/ DmaError
    BY <1>3, BusReadInv, BusWriteInv, BusCommandInv, BusPollInv, DmaReadInv, DmaWriteInv,
       ChipDoneInv, DmaErrorInv DEF Hardware
  <1>4. CASE UNCHANGED vars
    BY <1>4, StutterInv
  <1> QED BY <1>1, <1>2, <1>3, <1>4 DEF Next

(* The invariant holds in every state the specification reaches. *)
THEOREM Inductive == Spec => []Inv
  BY InitInv, NextInv, PTL DEF Spec

(* All state keeps its type; the FIFO is never overrun, although the       *)
(* polled program fills it without looking (drivQSPI.c:329).               *)
THEOREM TypeCorrect == Spec => []TypeOK
  <1>1. Inv => TypeOK
    BY DEF Inv
  <1> QED BY <1>1, Inductive, PTL

(* readFlash, writeFlashPage, eraseSector and the handler of TCF give the   *)
(* controller a command only when it has none and its FIFO is empty.       *)
THEOREM CommandsFindControllerFree == Spec => []ControllerFree
  <1>1. ASSUME Inv PROVE ControllerFree
    <2>1. CASE QuadspiRequest /\ sr.TCF
      <3>1. ~cr.SMIE /\ cr.TCIE /\ tpc = "take" /\ op.kind # "READ"
        BY <1>1, <2>1 DEF Inv, WakeOK, QuadspiRequest
      <3>2. ctl.phase = "idle" /\ op.kind \in {"WRITE", "ERASE"}
        BY <1>1, <2>1, <3>1 DEF Inv, CommandOK, TaskOK, TypeOK, Op
      <3>3. fifo = <<>>
        BY <1>1, <3>2 DEF Inv, BytesOK
      <3>4. ~Busy
        BY <3>2, <3>3 DEF Busy
      <3> QED BY <3>1, <3>4 DEF ControllerFree
    <2> QED BY <1>1, <2>1 DEF Inv, CommandOK, ControllerFree
  <1> QED BY <1>1, Inductive, PTL

(* No interrupt is requested but at the ulTaskNotifyTake of the operation   *)
(* it belongs to: the handlers never meet a routine that writes CR.        *)
THEOREM InterruptsAreWaitedFor == Spec => []InterruptsOnlyAtTake
  <1>1. ASSUME Inv PROVE InterruptsOnlyAtTake
    BY <1>1 DEF Inv, InterruptsOnlyAtTake, QuadspiRequest, DmaRequest, WakeOK, StreamOK,
                TaskOK, CommandOK
  <1> QED BY <1>1, Inductive, PTL

(* The notification is never early, doubled or left over: a read is in the  *)
(* buffer or the chip has finished, and nothing is running or requested.   *)
THEOREM WakeIsTrue == Spec => []WakeMeansDone
  <1>1. ASSUME Inv PROVE WakeMeansDone
    <2> SUFFICES ASSUME notified > 0 PROVE WakeMeansDone!2
      BY DEF WakeMeansDone
    <2>1. ~Busy
      BY <1>1, WokenIsFree
    <2>2. tpc = "take" /\ notified = 1 /\ ~DmaRequest
      BY <1>1 DEF Inv, WakeOK
    <2>3. IF op.kind = "READ" THEN Delivered ELSE ~chip.WIP
      <3>1. op.kind = "READ" => Len(ram) + dma.left = op.len /\ dma.left = 0
        BY <1>1, <2>2 DEF Inv, BytesOK, WakeOK
      <3>2. Len(ram) \in Nat
        BY <1>1 DEF Inv, TypeOK, Transferred
      <3> QED BY <1>1, <3>1, <3>2 DEF Inv, WakeOK, Delivered
    <2>4. ~QuadspiRequest
      BY <1>1, <2>2 DEF Inv, WakeOK, QuadspiRequest
    <2> QED BY <2>1, <2>2, <2>3, <2>4
  <1> QED BY <1>1, Inductive, PTL
=============================================================================
