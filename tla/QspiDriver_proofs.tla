-------------------------- MODULE QspiDriver_proofs --------------------------
(***************************************************************************)
(* Theorems about QspiDriver, for any set of callers, any queue capacity   *)
(* and any flash geometry.  The invariants are proved in three layers:     *)
(*   1. the control state and the order of the queue,                      *)
(*   2. one command for each waiting call,                                 *)
(*   3. pointers and memory.                                               *)
(***************************************************************************)
EXTENDS QspiDriver, SequenceTheorems, TLAPS

-----------------------------------------------------------------------------
(* The queue. *)

(* What a send makes of the queue: one place more, the command at the end  *)
(* that its kind goes to.                                                  *)
LEMMA SendProperties ==
    ASSUME NEW q \in Seq(Command), NEW c \in Command
    PROVE  /\ Send(q, c) \in Seq(Command)
           /\ Len(q) \in Nat
           /\ Len(Send(q, c)) = Len(q) + 1
           /\ \A i \in 1 .. Len(q) + 1 : Send(q, c)[i] =
                 IF c.command = "READ"
                 THEN IF i = 1 THEN c ELSE q[i - 1]
                 ELSE IF i = Len(q) + 1 THEN c ELSE q[i]
  <1>0. Len(q) \in Nat
    BY LenProperties
  <1>1. CASE c.command = "READ"
    <2>1. Send(q, c) = <<c>> \o q
      BY <1>1 DEF Send
    <2>2. <<c>> \in Seq(Command) /\ Len(<<c>>) = 1 /\ <<c>>[1] = c
      OBVIOUS
    <2>3. /\ <<c>> \o q \in Seq(Command)
          /\ Len(<<c>> \o q) = 1 + Len(q)
          /\ \A i \in 1 .. 1 + Len(q) : (<<c>> \o q)[i] =
                IF i <= 1 THEN <<c>>[i] ELSE q[i - 1]
      BY <2>2, ConcatProperties
    <2> QED
      BY <1>0, <1>1, <2>1, <2>2, <2>3
  <1>2. CASE c.command # "READ"
    BY <1>0, <1>2, AppendProperties DEF Send
  <1> QED
    BY <1>1, <1>2

(* A send keeps the reads ahead of the writes and erases. *)
LEMMA SendReadsFirst ==
    ASSUME NEW q \in Seq(Command), NEW c \in Command, ReadsFirst(q)
    PROVE  ReadsFirst(Send(q, c))
  <1> SUFFICES ASSUME NEW i \in 1 .. Len(Send(q, c)), NEW j \in 1 .. Len(Send(q, c)),
                      i < j, Send(q, c)[j].command = "READ"
               PROVE  Send(q, c)[i].command = "READ"
    BY DEF ReadsFirst
  <1>1. /\ Len(q) \in Nat
        /\ i \in 1 .. Len(q) + 1 /\ j \in 1 .. Len(q) + 1
    BY SendProperties
  <1>2. \A k \in 1 .. Len(q) + 1 : Send(q, c)[k] =
          IF c.command = "READ" THEN IF k = 1 THEN c ELSE q[k - 1]
                                ELSE IF k = Len(q) + 1 THEN c ELSE q[k]
    BY SendProperties
  <1>3. CASE c.command = "READ" /\ i = 1
    BY <1>1, <1>2, <1>3
  <1>4. CASE c.command = "READ" /\ i # 1
    <2>1. /\ i - 1 \in 1 .. Len(q) /\ j - 1 \in 1 .. Len(q) /\ i - 1 < j - 1
          /\ j # 1
      BY <1>1, <1>4
    <2>2. Send(q, c)[i] = q[i - 1] /\ Send(q, c)[j] = q[j - 1]
      BY <1>1, <1>2, <1>4, <2>1
    <2> QED
      BY <2>1, <2>2 DEF ReadsFirst
  <1>5. CASE c.command # "READ"
    <2>1. j # Len(q) + 1 /\ j \in 1 .. Len(q) /\ i \in 1 .. Len(q)
      BY <1>1, <1>2, <1>5
    <2>2. Send(q, c)[i] = q[i] /\ Send(q, c)[j] = q[j]
      BY <1>1, <1>2, <1>5, <2>1
    <2> QED
      BY <2>1, <2>2 DEF ReadsFirst
  <1> QED
    BY <1>3, <1>4, <1>5

(* So does taking the head. *)
LEMMA TailReadsFirst ==
    ASSUME NEW q \in Seq(Command), q # <<>>, ReadsFirst(q)
    PROVE  ReadsFirst(Tail(q))
  BY HeadTailProperties, LenProperties DEF ReadsFirst

(* If a command that is sent is not a read, the head stays; if it is, it    *)
(* becomes the head.  So a read at the head is followed by a read there.   *)
LEMMA SendKeepsReadAtHead ==
    ASSUME NEW q \in Seq(Command), NEW c \in Command,
           q # <<>>, Head(q).command = "READ"
    PROVE  Send(q, c) # <<>> /\ Head(Send(q, c)).command = "READ"
  <1>1. Len(q) \in Nat \ {0} /\ Head(q) = q[1]
    BY EmptySeq, LenProperties
  <1>2. Len(Send(q, c)) = Len(q) + 1 /\ Send(q, c) \in Seq(Command)
    BY SendProperties
  <1>3. Send(q, c) # <<>> /\ Head(Send(q, c)) = Send(q, c)[1]
    BY <1>1, <1>2, EmptySeq
  <1>4. Send(q, c)[1] = IF c.command = "READ" THEN c ELSE q[1]
    <2>1. 1 \in 1 .. Len(q) + 1 /\ 1 # Len(q) + 1
      BY <1>1
    <2> QED
      BY <2>1, SendProperties
  <1> QED
    BY <1>1, <1>3, <1>4

-----------------------------------------------------------------------------
(* Layer 1: control. *)

(* A call has arguments while it is open. *)
CallsOpen == \A t \in Task : pc[t] # "idle" <=> call[t].op \in Op

(* What the static commands hold at each place of the loop of qspiTasks. *)
HandsFilled ==
    /\ ReadInHand => xQueueReadCmd \in Command /\ xQueueReadCmd.command = "READ"
    /\ WriteInHand => xQueueWriteCmd \in Command
    /\ dpc = "erase" => xQueueWriteCmd.command = "ERASE"
    /\ dpc \in {"program", "peek", "fetch", "nestedRead", "nestedGive"}
          => xQueueWriteCmd.command = "WRITE"
    /\ dpc = "giveWriter" => xQueueWriteCmd.command \in {"WRITE", "ERASE"}

ControlInv ==
    /\ ControlTypeOK
    /\ CallsOpen
    /\ HandsFilled
    /\ ReadsBeforeWrites
    /\ FetchFindsRead

(* What a caller sends is a command: a chunk is never longer than what is  *)
(* left.                                                                   *)
LEMMA CommandOfType ==
    ASSUME NEW t \in Task, call[t] \in Call, call[t].op \in Op
    PROVE  CommandOf(t) \in Command
  BY SizeAssumption DEF CommandOf, Call, Command, Op, ReadChunk

(* Initially nobody calls and nothing is queued or in hand. *)
LEMMA InitControl == Init => ControlInv
  <1> SUFFICES ASSUME Init PROVE ControlInv
    OBVIOUS
  <1> USE DEF Init
  <1>1. NoCall \in Call /\ NoCall.op = "NONE"
    BY DEF NoCall, Call
  <1>2. ControlTypeOK
    <2>1. call \in [Task -> Call] /\ pc \in [Task -> {"idle", "send", "wait"}]
      BY <1>1
    <2>2. ret \in [Task -> Result] /\ notified \in [Task -> Nat]
      BY DEF Result
    <2>3. xQueueCmd \in Seq(Command)
      BY EmptySeq
    <2> QED
      BY <2>1, <2>2, <2>3 DEF ControlTypeOK
  <1>3. CallsOpen
    BY <1>1 DEF CallsOpen, Op
  <1>4. HandsFilled /\ FetchFindsRead
    BY DEF HandsFilled, ReadInHand, WriteInHand, FetchFindsRead
  <1>5. ReadsBeforeWrites
    BY EmptySeq DEF ReadsBeforeWrites, ReadsFirst
  <1> QED
    BY <1>2, <1>3, <1>4, <1>5 DEF ControlInv

(* A call that is refused changes only ret. *)
LEMMA ReturnKeepsControl ==
    ASSUME ControlInv, NEW t \in Task, NEW result \in Result, Return(t, result)
    PROVE  ControlInv'
  <1> USE DEF ControlInv, Return, driverVars
  <1>1. ControlTypeOK'
    BY DEF ControlTypeOK
  <1>2. CallsOpen' /\ HandsFilled' /\ ReadsBeforeWrites' /\ FetchFindsRead'
    BY DEF CallsOpen, HandsFilled, ReadInHand, WriteInHand, ReadsBeforeWrites,
           ReadsFirst, FetchFindsRead
  <1> QED
    BY <1>1, <1>2

(* A call that passes its checks gets arguments and goes to its send. *)
LEMMA EnterKeepsControl ==
    ASSUME ControlInv, NEW t \in Task, NEW op \in Op, NEW a \in Nat, NEW n \in Nat,
           NEW memory, Enter(t, op, a, n, memory), pc[t] = "idle"
    PROVE  ControlInv'
  <1> USE DEF ControlInv, Enter, driverVars
  <1>1. ControlTypeOK'
    <2>1. [op |-> op, flashAddress |-> a, data |-> 0, length |-> n] \in Call
      BY DEF Call, Op
    <2>2. call' \in [Task -> Call] /\ pc' \in [Task -> {"idle", "send", "wait"}]
      BY <2>1 DEF ControlTypeOK
    <2>3. ret' \in [Task -> Result]
      BY DEF ControlTypeOK, Result
    <2> QED
      BY <2>2, <2>3 DEF ControlTypeOK
  <1>2. CallsOpen'
    BY DEF CallsOpen, ControlTypeOK
  <1>3. HandsFilled' /\ ReadsBeforeWrites' /\ FetchFindsRead'
    BY DEF HandsFilled, ReadInHand, WriteInHand, ReadsBeforeWrites,
           ReadsFirst, FetchFindsRead
  <1> QED
    BY <1>1, <1>2, <1>3

(* The offset of the mapped window is subtracted only where it fits. *)
LEMMA FlashAddressType ==
    ASSUME NEW a \in Nat
    PROVE  FlashAddress(a) \in Nat
  BY SizeAssumption DEF FlashAddress

(* The three calls of the driver up to their send or their early return. *)
LEMMA CallKeepsControl ==
    ASSUME ControlInv, NEW t \in Task, CallDriver(t)
    PROVE  ControlInv'
  <1>1. PICK addr \in Address :
          \/ \E n \in ReadLength, null \in BOOLEAN : qspiReadFlash(t, addr, n, null)
          \/ \E n \in WriteLength, d \in Data : qspiWriteFlash(t, addr, n, d)
          \/ \E code \in EraseCode : qspiEraseSector(t, addr, code)
    BY DEF CallDriver
  <1>2. FlashAddress(addr) \in Nat
    BY InputAssumption, FlashAddressType
  <1>3. ASSUME NEW n \in ReadLength, NEW null \in BOOLEAN,
               qspiReadFlash(t, addr, n, null)
        PROVE  ControlInv'
    <2>1. n \in Nat /\ "READ" \in Op /\ {"ERR_BAD_PARAMS", "ERR_NULL_PTR", "ERR_NONE"} \subseteq Result
      BY InputAssumption DEF Op, Result
    <2> QED
      BY <1>2, <1>3, <2>1, ReturnKeepsControl, EnterKeepsControl DEF qspiReadFlash
  <1>4. ASSUME NEW n \in WriteLength, NEW d \in Data, qspiWriteFlash(t, addr, n, d)
        PROVE  ControlInv'
    <2>1. n \in Nat /\ "WRITE" \in Op /\ {"ERR_READONLY", "ERR_PAGE_ADDR"} \subseteq Result
      BY InputAssumption DEF Op, Result
    <2> QED
      BY <1>2, <1>4, <2>1, ReturnKeepsControl, EnterKeepsControl DEF qspiWriteFlash
  <1>5. ASSUME NEW code \in EraseCode, qspiEraseSector(t, addr, code)
        PROVE  ControlInv'
    <2>1. code \in Nat /\ "ERASE" \in Op /\ "ERR_READONLY" \in Result
      BY InputAssumption DEF Op, Result
    <2> QED
      BY <1>2, <1>5, <2>1, ReturnKeepsControl, EnterKeepsControl DEF qspiEraseSector
  <1> QED
    BY <1>1, <1>3, <1>4, <1>5

(* The send: the head stays a read if it was one, in whatever place the    *)
(* driver task is.                                                         *)
LEMMA SendKeepsControl ==
    ASSUME ControlInv, NEW t \in Task, SendCommand(t)
    PROVE  ControlInv'
  <1> USE DEF ControlInv, SendCommand, driverVars
  <1>1. CommandOf(t) \in Command
    BY CommandOfType DEF ControlTypeOK, CallsOpen
  <1>2. xQueueCmd \in Seq(Command)
    BY DEF ControlTypeOK
  <1>3. ControlTypeOK'
    BY <1>1, <1>2, SendProperties DEF ControlTypeOK
  <1>4. CallsOpen'
    BY DEF CallsOpen, ControlTypeOK
  <1>5. HandsFilled'
    BY DEF HandsFilled, ReadInHand, WriteInHand
  <1>6. ReadsBeforeWrites'
    BY <1>1, <1>2, SendReadsFirst DEF ReadsBeforeWrites
  <1>7. FetchFindsRead'
    BY <1>1, <1>2, SendKeepsReadAtHead DEF FetchFindsRead
  <1> QED
    BY <1>3, <1>4, <1>5, <1>6, <1>7

(* The wake-up: the next chunk of a read, or the end of the call. *)
LEMMA TakeKeepsControl ==
    ASSUME ControlInv, NEW t \in Task, TakeNotification(t)
    PROVE  ControlInv'
  <1> USE DEF ControlInv, TakeNotification, driverVars
  <1> DEFINE n == ReadChunk(call[t].length)
             next == [op |-> call[t].op, flashAddress |-> call[t].flashAddress + n,
                      data |-> call[t].data + n, length |-> call[t].length - n]
  <1>1. call[t] \in Call /\ n \in Nat /\ n <= call[t].length
    BY SizeAssumption DEF ControlTypeOK, Call, ReadChunk
  <1>2. next \in Call /\ next.op = call[t].op
    BY <1>1 DEF Call
  <1>3. NoCall \in Call /\ NoCall.op \notin Op
    BY DEF NoCall, Call, Op
  <1>4. \/ /\ pc' = [pc EXCEPT ![t] = "send"] /\ call' = [call EXCEPT ![t] = next]
           /\ call[t].op = "READ"
        \/ pc' = [pc EXCEPT ![t] = "idle"] /\ call' = [call EXCEPT ![t] = NoCall]
    BY <1>1 DEF ControlTypeOK, Call
  <1>5. ControlTypeOK'
    <2>1. call' \in [Task -> Call] /\ pc' \in [Task -> {"idle", "send", "wait"}]
      <3>1. call \in [Task -> Call] /\ pc \in [Task -> {"idle", "send", "wait"}]
        BY DEF ControlTypeOK
      <3> HIDE DEF next, ControlInv, TakeNotification
      <3> QED
        BY <1>2, <1>3, <1>4, <3>1
    <2> QED
      BY <2>1 DEF ControlTypeOK
  <1>6. CallsOpen'
    BY <1>2, <1>3, <1>4 DEF CallsOpen, ControlTypeOK, Op
  <1>7. HandsFilled' /\ ReadsBeforeWrites' /\ FetchFindsRead'
    BY DEF HandsFilled, ReadInHand, WriteInHand, ReadsBeforeWrites,
           ReadsFirst, FetchFindsRead
  <1> QED
    BY <1>5, <1>6, <1>7

(* A queue that is not empty has a head that is a command. *)
LEMMA QueueHead ==
    ASSUME ControlTypeOK, xQueueCmd # <<>>
    PROVE  /\ Head(xQueueCmd) \in Command
           /\ Tail(xQueueCmd) \in Seq(Command)
           /\ Head(xQueueCmd).command \in Op
  <1>1. Head(xQueueCmd) \in Command /\ Tail(xQueueCmd) \in Seq(Command)
    BY HeadTailProperties DEF ControlTypeOK
  <1> QED
    BY <1>1 DEF Command

(* The receive at the top of the loop goes where the kind of command says. *)
LEMMA ReceiveKeepsControl == ControlInv /\ Receive => ControlInv'
  <1> SUFFICES ASSUME ControlInv, Receive PROVE ControlInv'
    OBVIOUS
  <1> USE DEF ControlInv, Receive, callerVars
  <1> DEFINE h == Head(xQueueCmd)
  <1>1. h \in Command /\ Tail(xQueueCmd) \in Seq(Command) /\ h.command \in Op
    BY QueueHead
  <1>2. /\ h.command = "READ" => dpc' = "read"
        /\ h.command = "WRITE" => dpc' = "program"
        /\ h.command = "ERASE" => dpc' = "erase"
    BY DEF Dispatch
  <1>3. ControlTypeOK'
    BY <1>1, <1>2 DEF ControlTypeOK, Op
  <1>4. HandsFilled'
    BY <1>1, <1>2 DEF HandsFilled, ReadInHand, WriteInHand, Op
  <1>5. ReadsBeforeWrites'
    BY TailReadsFirst DEF ReadsBeforeWrites, ControlTypeOK
  <1>6. CallsOpen' /\ FetchFindsRead'
    BY <1>1, <1>2 DEF CallsOpen, FetchFindsRead, Op
  <1> QED
    BY <1>3, <1>4, <1>5, <1>6

(* The receive after the peek gets a read, by FetchFindsRead. *)
LEMMA FetchKeepsControl == ControlInv /\ Fetch => ControlInv'
  <1> SUFFICES ASSUME ControlInv, Fetch PROVE ControlInv'
    OBVIOUS
  <1> USE DEF ControlInv, Fetch, callerVars
  <1>1. xQueueCmd # <<>> /\ Head(xQueueCmd).command = "READ"
    BY DEF FetchFindsRead
  <1>2. Head(xQueueCmd) \in Command /\ Tail(xQueueCmd) \in Seq(Command)
    BY <1>1, QueueHead
  <1>3. ControlTypeOK'
    BY <1>1, <1>2 DEF ControlTypeOK
  <1>4. HandsFilled'
    BY <1>1, <1>2 DEF HandsFilled, ReadInHand, WriteInHand
  <1>5. ReadsBeforeWrites'
    BY <1>1, TailReadsFirst DEF ReadsBeforeWrites, ControlTypeOK
  <1>6. CallsOpen' /\ FetchFindsRead'
    BY DEF CallsOpen, FetchFindsRead
  <1> QED
    BY <1>3, <1>4, <1>5, <1>6

(* The peek copies the head and goes to the receive only if it is a read. *)
LEMMA PeekKeepsControl == ControlInv /\ Peek => ControlInv'
  <1> SUFFICES ASSUME ControlInv, Peek PROVE ControlInv'
    OBVIOUS
  <1> USE DEF ControlInv, Peek, callerVars
  <1>1. ControlTypeOK'
    BY QueueHead DEF ControlTypeOK
  <1>2. HandsFilled'
    BY DEF HandsFilled, ReadInHand, WriteInHand
  <1>3. CallsOpen' /\ ReadsBeforeWrites' /\ FetchFindsRead'
    BY DEF CallsOpen, ReadsBeforeWrites, ReadsFirst, FetchFindsRead
  <1> QED
    BY <1>1, <1>2, <1>3

(* A page is never longer than what is left of the write. *)
LEMMA ProcessWriteKeepsControl == ControlInv /\ ProcessWrite => ControlInv'
  <1> SUFFICES ASSUME ControlInv, ProcessWrite PROVE ControlInv'
    OBVIOUS
  <1> USE DEF ControlInv
  <1> DEFINE cmd == xQueueWriteCmd
             n == PageOf(cmd.length)
  <1>1. cmd \in Command /\ cmd.command = "WRITE" /\ cmd.length \in Nat
    BY DEF HandsFilled, WriteInHand, ProcessWrite, Command
  <1>2. n \in Nat /\ n <= cmd.length
    BY <1>1, SizeAssumption DEF PageOf
  <1>3. xQueueWriteCmd' =
          [xCallingTask |-> cmd.xCallingTask, command |-> cmd.command,
           flashAddress |-> cmd.flashAddress + n, data |-> cmd.data + n,
           length |-> cmd.length - n]
    BY <1>1 DEF ProcessWrite, Command
  <1>4. xQueueWriteCmd' \in Command /\ xQueueWriteCmd'.command = "WRITE"
    BY <1>1, <1>2, <1>3 DEF Command
  <1>5. dpc' \in {"peek", "giveWriter"}
    BY DEF ProcessWrite
  <1>6. ret' \in [Task -> Result]
    BY DEF ProcessWrite, SetRet, ControlTypeOK, Result
  <1>7. ControlTypeOK'
    BY <1>4, <1>5, <1>6 DEF ControlTypeOK, ProcessWrite
  <1>8. HandsFilled'
    BY <1>4, <1>5 DEF HandsFilled, ReadInHand, WriteInHand
  <1>9. CallsOpen' /\ ReadsBeforeWrites' /\ FetchFindsRead'
    BY <1>5 DEF CallsOpen, ReadsBeforeWrites, ReadsFirst, FetchFindsRead, ProcessWrite
  <1> QED
    BY <1>7, <1>8, <1>9

(* The steps that touch neither the queue nor the static commands. *)
LEMMA OtherStepsKeepControl ==
    ASSUME ControlInv,
           DrvInit \/ DelayExpires \/ ProcessRead \/ GiveReader \/ ProcessErase
             \/ GiveWriter
    PROVE  ControlInv'
  <1> USE DEF ControlInv
  <1>1. UNCHANGED <<pc, call, xQueueCmd, xQueueReadCmd, xQueueWriteCmd>>
    BY DEF DrvInit, DelayExpires, ProcessRead, GiveReader, ProcessErase, GiveWriter,
           callerVars
  <1>2. \/ dpc \in {"init", "retry"} /\ dpc' \in {"receive", "retry", "delay"}
        \/ dpc = "delay" /\ dpc' = "receive"
        \/ dpc = "read" /\ dpc' = "give"
        \/ dpc = "nestedRead" /\ dpc' = "nestedGive"
        \/ dpc = "give" /\ dpc' = "receive"
        \/ dpc = "nestedGive" /\ dpc' = "program"
        \/ dpc = "erase" /\ dpc' = "giveWriter"
        \/ dpc = "giveWriter" /\ dpc' = "receive"
    BY DEF DrvInit, DelayExpires, ProcessRead, GiveReader, ProcessErase, GiveWriter
  <1>3. drivStatus' \in {"INIT", "INIT_ERR", "READY"} /\ found' \in BOOLEAN
    BY DEF DrvInit, DelayExpires, ProcessRead, GiveReader, ProcessErase, GiveWriter,
           ControlTypeOK
  <1>4. ret' \in [Task -> Result]
    BY DEF DrvInit, DelayExpires, ProcessRead, GiveReader, ProcessErase, GiveWriter,
           ControlTypeOK, SetRet, Result, callerVars
  <1>5. notified' \in [Task -> Nat]
    BY DEF DrvInit, DelayExpires, ProcessRead, GiveReader, ProcessErase, GiveWriter,
           ControlTypeOK, Give, callerVars
  <1>6. ControlTypeOK'
    BY <1>1, <1>2, <1>3, <1>4, <1>5 DEF ControlTypeOK
  <1>7. HandsFilled'
    BY <1>1, <1>2 DEF HandsFilled, ReadInHand, WriteInHand
  <1>8. CallsOpen' /\ ReadsBeforeWrites' /\ FetchFindsRead'
    BY <1>1, <1>2 DEF CallsOpen, ReadsBeforeWrites, ReadsFirst, FetchFindsRead
  <1> QED
    BY <1>6, <1>7, <1>8

(* The control invariant is inductive. *)
LEMMA NextControl == ControlInv /\ [Next]_vars => ControlInv'
  <1> SUFFICES ASSUME ControlInv, [Next]_vars PROVE ControlInv'
    OBVIOUS
  <1>1. ASSUME NEW t \in Task, Caller(t) PROVE ControlInv'
    BY <1>1, CallKeepsControl, SendKeepsControl, TakeKeepsControl DEF Caller
  <1>2. CASE qspiTasks
    BY <1>2, ReceiveKeepsControl, FetchKeepsControl, PeekKeepsControl,
       ProcessWriteKeepsControl, OtherStepsKeepControl DEF qspiTasks
  <1>3. CASE UNCHANGED vars
    BY <1>3 DEF vars, callerVars, driverVars, ControlInv, ControlTypeOK, CallsOpen,
        HandsFilled, ReadInHand, WriteInHand, ReadsBeforeWrites, ReadsFirst, FetchFindsRead
  <1> QED
    BY <1>1, <1>2, <1>3 DEF Next

(* The queue discipline, for every number of callers and queue capacity:    *)
(* reads ahead of writes and erases, because of the ends the calls send to.*)
THEOREM QueueOrder == Spec => []ReadsBeforeWrites
  <1>1. ControlInv => ReadsBeforeWrites
    BY DEF ControlInv
  <1> QED
    BY <1>1, InitControl, NextControl, PTL DEF Spec

(* The receive after the peek needs no check of its result: it finds a read. *)
THEOREM FetchSafe == Spec => []FetchFindsRead
  <1>1. ControlInv => FetchFindsRead
    BY DEF ControlInv
  <1> QED
    BY <1>1, InitControl, NextControl, PTL DEF Spec

-----------------------------------------------------------------------------
(* Layer 2: one command for each waiting call. *)

(* After a send the queue holds commands of the same tasks and of the      *)
(* sender.                                                                 *)
LEMMA SendInQueue ==
    ASSUME NEW q \in Seq(Command), NEW c \in Command, NEW t
    PROVE  InQueue(Send(q, c), t) <=> InQueue(q, t) \/ t = c.xCallingTask
  <1> DEFINE s == Send(q, c)
  <1>1. Len(q) \in Nat /\ Len(s) = Len(q) + 1
    BY SendProperties
  <1>2. \A k \in 1 .. Len(q) + 1 : s[k] =
          IF c.command = "READ" THEN IF k = 1 THEN c ELSE q[k - 1]
                                ELSE IF k = Len(q) + 1 THEN c ELSE q[k]
    BY SendProperties
  <1> HIDE DEF s
  <1>3. ASSUME InQueue(s, t) PROVE InQueue(q, t) \/ t = c.xCallingTask
    <2>1. PICK k \in 1 .. Len(q) + 1 : s[k].xCallingTask = t
      BY <1>1, <1>3 DEF InQueue
    <2>2. s[k] = c \/ \E j \in 1 .. Len(q) : s[k] = q[j]
      <3>1. CASE c.command = "READ" /\ k # 1
        <4>1. k - 1 \in 1 .. Len(q)
          BY <1>1, <3>1
        <4> QED
          BY <1>2, <3>1, <4>1
      <3>2. CASE c.command # "READ" /\ k # Len(q) + 1
        <4>1. k \in 1 .. Len(q)
          BY <1>1, <3>2
        <4> QED
          BY <1>2, <3>2, <4>1
      <3>3. CASE (c.command = "READ" /\ k = 1) \/ (c.command # "READ" /\ k = Len(q) + 1)
        BY <1>2, <3>3
      <3> QED
        BY <3>1, <3>2, <3>3
    <2> QED
      BY <2>1, <2>2 DEF InQueue
  <1>4. ASSUME t = c.xCallingTask PROVE InQueue(s, t)
    <2>1. 1 \in 1 .. Len(q) + 1 /\ Len(q) + 1 \in 1 .. Len(q) + 1
      BY <1>1
    <2>2. s[1] = c \/ s[Len(q) + 1] = c
      BY <1>2, <2>1
    <2> QED
      BY <1>1, <1>4, <2>1, <2>2 DEF InQueue
  <1>5. ASSUME InQueue(q, t) PROVE InQueue(s, t)
    <2>1. PICK j \in 1 .. Len(q) : q[j].xCallingTask = t
      BY <1>5 DEF InQueue
    <2>2. /\ j \in 1 .. Len(q) + 1 /\ j # Len(q) + 1
          /\ j + 1 \in 1 .. Len(q) + 1 /\ j + 1 # 1 /\ (j + 1) - 1 = j
      BY <1>1
    <2>3. c.command = "READ" => s[j + 1] = q[j]
      BY <1>2, <2>2
    <2>4. c.command # "READ" => s[j] = q[j]
      BY <1>2, <2>2
    <2> QED
      BY <1>1, <2>1, <2>2, <2>3, <2>4 DEF InQueue
  <1> QED
    BY <1>3, <1>4, <1>5 DEF s

(* A task with no command in the queue may send one. *)
LEMMA SendOnePerTask ==
    ASSUME NEW q \in Seq(Command), NEW c \in Command,
           OnePerTask(q), ~InQueue(q, c.xCallingTask)
    PROVE  OnePerTask(Send(q, c))
  <1> DEFINE s == Send(q, c)
  <1>1. Len(q) \in Nat /\ Len(s) = Len(q) + 1
    BY SendProperties
  <1>2. \A k \in 1 .. Len(q) + 1 : s[k] =
          IF c.command = "READ" THEN IF k = 1 THEN c ELSE q[k - 1]
                                ELSE IF k = Len(q) + 1 THEN c ELSE q[k]
    BY SendProperties
  <1> HIDE DEF s
  <1> SUFFICES ASSUME NEW i \in 1 .. Len(q) + 1, NEW j \in 1 .. Len(q) + 1,
                      s[i].xCallingTask = s[j].xCallingTask
               PROVE  i = j
    BY <1>1 DEF OnePerTask, s
  <1>3. \A k \in 1 .. Len(q) : q[k].xCallingTask # c.xCallingTask
    BY DEF InQueue
  <1>4. CASE c.command = "READ"
    <2>1. \A k \in 1 .. Len(q) + 1 : k # 1 => k - 1 \in 1 .. Len(q) /\ s[k] = q[k - 1]
      BY <1>1, <1>2, <1>4
    <2>2. s[1] = c
      BY <1>1, <1>2, <1>4
    <2>3. i # 1 /\ j # 1 => i - 1 = j - 1
      BY <2>1 DEF OnePerTask
    <2>4. i # 1 /\ j # 1 => i = j
      BY <1>1, <2>3
    <2>5. i = 1 /\ j # 1 => FALSE
      BY <1>3, <2>1, <2>2
    <2>6. i # 1 /\ j = 1 => FALSE
      BY <1>3, <2>1, <2>2
    <2> QED
      BY <2>4, <2>5, <2>6
  <1>5. CASE c.command # "READ"
    <2>1. \A k \in 1 .. Len(q) + 1 : k # Len(q) + 1 => k \in 1 .. Len(q) /\ s[k] = q[k]
      BY <1>1, <1>2, <1>5
    <2>2. s[Len(q) + 1] = c
      BY <1>1, <1>2, <1>5
    <2> QED
      BY <1>1, <1>3, <2>1, <2>2 DEF OnePerTask
  <1> QED
    BY <1>4, <1>5

(* Taking the head takes exactly its task's command, if each task has one. *)
LEMMA TailInQueue ==
    ASSUME NEW q \in Seq(Command), q # <<>>, OnePerTask(q)
    PROVE  /\ OnePerTask(Tail(q))
           /\ ~InQueue(Tail(q), Head(q).xCallingTask)
           /\ \A t : InQueue(q, t) <=>
                   InQueue(Tail(q), t) \/ t = Head(q).xCallingTask
  <1>1. /\ Len(q) \in Nat \ {0} /\ Head(q) = q[1]
        /\ Len(Tail(q)) = Len(q) - 1
    BY EmptySeq, HeadTailProperties
  <1>2. \A k \in 1 .. Len(q) - 1 : k + 1 \in 1 .. Len(q) /\ Tail(q)[k] = q[k + 1]
    BY <1>1, HeadTailProperties
  <1>3. OnePerTask(Tail(q))
    BY <1>1, <1>2 DEF OnePerTask
  <1>4. ~InQueue(Tail(q), Head(q).xCallingTask)
    BY <1>1, <1>2 DEF OnePerTask, InQueue
  <1>5. ASSUME NEW t, InQueue(q, t)
        PROVE  InQueue(Tail(q), t) \/ t = Head(q).xCallingTask
    <2>1. PICK k \in 1 .. Len(q) : q[k].xCallingTask = t
      BY <1>5 DEF InQueue
    <2>2. k # 1 => k - 1 \in 1 .. Len(q) - 1 /\ (k - 1) + 1 = k
      BY <1>1
    <2>3. k # 1 => Tail(q)[k - 1] = q[k]
      BY <1>2, <2>2
    <2> QED
      BY <1>1, <2>1, <2>2, <2>3 DEF InQueue
  <1>6. ASSUME NEW t, InQueue(Tail(q), t) PROVE InQueue(q, t)
    BY <1>1, <1>2, <1>6 DEF InQueue
  <1>7. InQueue(q, Head(q).xCallingTask)
    BY <1>1 DEF InQueue
  <1> QED
    BY <1>3, <1>4, <1>5, <1>6, <1>7

OnceInv == ControlInv /\ OneCommandPerCall

(* Initially there is no command and no notification. *)
LEMMA InitOnce == Init => OnceInv
  <1> SUFFICES ASSUME Init PROVE OnceInv
    OBVIOUS
  <1>1. Len(xQueueCmd) = 0
    BY EmptySeq DEF Init
  <1>2. OneCommandPerCall
    BY <1>1 DEF OneCommandPerCall, OnePerTask, CommandOnce, Queued, InQueue, Reading,
                Writing, ReadInHand, WriteInHand, Init
  <1> QED
    BY <1>2, InitControl DEF OnceInv

(* A step that moves no command and leaves every caller that waits alone. *)
LEMMA CommandsStay ==
    ASSUME OneCommandPerCall,
           UNCHANGED <<xQueueCmd, notified>>,
           ReadInHand' = ReadInHand, WriteInHand' = WriteInHand,
           ReadInHand => xQueueReadCmd'.xCallingTask = xQueueReadCmd.xCallingTask,
           WriteInHand => xQueueWriteCmd'.xCallingTask = xQueueWriteCmd.xCallingTask,
           \A t \in Task : pc'[t] = "wait" <=> pc[t] = "wait"
    PROVE  OneCommandPerCall'
  <1>1. ASSUME NEW t \in Task
        PROVE  /\ Queued(t)' <=> Queued(t)
               /\ Reading(t)' <=> Reading(t)
               /\ Writing(t)' <=> Writing(t)
    BY DEF Queued, InQueue, Reading, Writing
  <1>2. OnePerTask(xQueueCmd)'
    BY DEF OneCommandPerCall, OnePerTask
  <1>3. ASSUME NEW t \in Task PROVE CommandOnce(t)'
    BY <1>1 DEF OneCommandPerCall, CommandOnce
  <1> QED
    BY <1>2, <1>3 DEF OneCommandPerCall

(* A call up to its send has no command yet. *)
LEMMA CallKeepsOnce ==
    ASSUME OnceInv, NEW t \in Task, CallDriver(t)
    PROVE  OneCommandPerCall'
  <1>1. /\ pc[t] = "idle"
        /\ UNCHANGED pc \/ pc' = [pc EXCEPT ![t] = "send"]
        /\ UNCHANGED <<notified, xQueueCmd, driverVars>>
    BY DEF CallDriver, qspiReadFlash, qspiWriteFlash, qspiEraseSector, Return, Enter
  <1>2. \A u \in Task : pc'[u] = "wait" <=> pc[u] = "wait"
    BY <1>1 DEF OnceInv, ControlInv, ControlTypeOK
  <1> QED
    BY <1>1, <1>2, CommandsStay DEF OnceInv, driverVars, ReadInHand, WriteInHand

(* The sender had no command and no notification; now it waits for its one *)
(* command.                                                                *)
LEMMA SendKeepsOnce ==
    ASSUME OnceInv, NEW t \in Task, SendCommand(t)
    PROVE  OneCommandPerCall'
  <1> USE DEF SendCommand, driverVars
  <1>1. CommandOf(t) \in Command /\ CommandOf(t).xCallingTask = t
    <2>1. CommandOf(t) \in Command
      BY CommandOfType DEF OnceInv, ControlInv, ControlTypeOK, CallsOpen
    <2> QED
      BY <2>1 DEF CommandOf
  <1>2. xQueueCmd \in Seq(Command)
    BY DEF OnceInv, ControlInv, ControlTypeOK
  <1>3. notified[t] = 0 /\ ~Queued(t) /\ ~Reading(t) /\ ~Writing(t)
    BY DEF OnceInv, OneCommandPerCall, CommandOnce
  <1>4. \A u \in Task : Queued(u)' <=> Queued(u) \/ u = t
    BY <1>1, <1>2, SendInQueue DEF Queued
  <1>5. \A u \in Task : (Reading(u)' <=> Reading(u)) /\ (Writing(u)' <=> Writing(u))
    BY DEF Reading, Writing, ReadInHand, WriteInHand
  <1>6. OnePerTask(xQueueCmd)'
    BY <1>1, <1>2, <1>3, SendOnePerTask DEF OnceInv, OneCommandPerCall, Queued
  <1>7. ASSUME NEW u \in Task PROVE CommandOnce(u)'
    <2>1. pc'[t] = "wait" /\ (u # t => pc'[u] = pc[u])
      BY DEF OnceInv, ControlInv, ControlTypeOK
    <2> QED
      BY <1>3, <1>4, <1>5, <2>1 DEF OnceInv, OneCommandPerCall, CommandOnce
  <1> QED
    BY <1>6, <1>7 DEF OneCommandPerCall

(* Who takes a notification has no command; afterwards it has neither. *)
LEMMA TakeKeepsOnce ==
    ASSUME OnceInv, NEW t \in Task, TakeNotification(t)
    PROVE  OneCommandPerCall'
  <1>1. /\ pc[t] = "wait" /\ notified[t] > 0
        /\ notified' = [notified EXCEPT ![t] = 0]
        /\ pc' = [pc EXCEPT ![t] = "send"] \/ pc' = [pc EXCEPT ![t] = "idle"]
        /\ UNCHANGED <<xQueueCmd, driverVars>>
    BY DEF TakeNotification, Woken
  <1>2. ~Queued(t) /\ ~Reading(t) /\ ~Writing(t)
    BY <1>1 DEF OnceInv, OneCommandPerCall, CommandOnce, ControlInv, ControlTypeOK
  <1>3. \A u \in Task : /\ Queued(u)' <=> Queued(u)
                        /\ Reading(u)' <=> Reading(u)
                        /\ Writing(u)' <=> Writing(u)
    BY <1>1 DEF Queued, InQueue, Reading, Writing, ReadInHand, WriteInHand, driverVars
  <1>4. OnePerTask(xQueueCmd)'
    BY <1>1 DEF OnceInv, OneCommandPerCall, OnePerTask
  <1>5. ASSUME NEW u \in Task PROVE CommandOnce(u)'
    <2>1. /\ pc'[t] # "wait" /\ notified'[t] = 0
          /\ u # t => pc'[u] = pc[u] /\ notified'[u] = notified[u]
      BY <1>1 DEF OnceInv, ControlInv, ControlTypeOK
    <2> QED
      BY <1>2, <1>3, <2>1 DEF OnceInv, OneCommandPerCall, CommandOnce
  <1> QED
    BY <1>4, <1>5 DEF OneCommandPerCall

(* Receive and Fetch: the head of the queue comes into a hand. *)
LEMMA ReceiveKeepsOnce == OnceInv /\ Receive => OneCommandPerCall'
  <1> SUFFICES ASSUME OnceInv, Receive PROVE OneCommandPerCall'
    OBVIOUS
  <1> USE DEF Receive, callerVars
  <1> DEFINE h == Head(xQueueCmd)
  <1>1. xQueueCmd \in Seq(Command) /\ OnePerTask(xQueueCmd) /\ h.command \in Op
    BY QueueHead DEF OnceInv, ControlInv, ControlTypeOK, OneCommandPerCall
  <1>2. /\ OnePerTask(xQueueCmd)'
        /\ \A u \in Task : /\ Queued(u)' => u # h.xCallingTask
                           /\ Queued(u) <=> Queued(u)' \/ u = h.xCallingTask
    <2>1. xQueueCmd # <<>> /\ xQueueCmd' = Tail(xQueueCmd)
      BY <1>1
    <2>2. /\ OnePerTask(Tail(xQueueCmd)) /\ ~InQueue(Tail(xQueueCmd), h.xCallingTask)
          /\ \A u : InQueue(xQueueCmd, u) <=>
                  InQueue(Tail(xQueueCmd), u) \/ u = h.xCallingTask
      BY <1>1, <2>1, TailInQueue
    <2>3. \A u : Queued(u)' <=> InQueue(Tail(xQueueCmd), u)
      BY <2>1 DEF Queued
    <2>4. OnePerTask(xQueueCmd)'
      BY <2>1, <2>2
    <2>5. \A u : Queued(u) <=> InQueue(xQueueCmd, u)
      BY DEF Queued
    <2> HIDE DEF h, Receive, Fetch
    <2> QED
      BY <2>2, <2>3, <2>4, <2>5
  <1>3. \A u \in Task : ~Reading(u) /\ ~Writing(u)
    BY DEF Reading, Writing, ReadInHand, WriteInHand
  <1>4. \A u \in Task : /\ Reading(u)' \/ Writing(u)' <=> u = h.xCallingTask
                        /\ Reading(u)' => ~Writing(u)'
    <2>1. /\ h.command = "READ" => dpc' = "read"
          /\ h.command = "WRITE" => dpc' = "program"
          /\ h.command = "ERASE" => dpc' = "erase"
      BY DEF Dispatch
    <2> QED
      BY <1>1, <2>1 DEF Reading, Writing, ReadInHand, WriteInHand, Op
  <1>5. ASSUME NEW u \in Task PROVE CommandOnce(u)'
    BY <1>2, <1>3, <1>4 DEF OnceInv, OneCommandPerCall, CommandOnce
  <1> QED
    BY <1>2, <1>5 DEF OneCommandPerCall

(* A nested read comes into the read hand; the write in hand is of another *)
(* task.                                                                   *)
LEMMA FetchKeepsOnce == OnceInv /\ Fetch => OneCommandPerCall'
  <1> SUFFICES ASSUME OnceInv, Fetch PROVE OneCommandPerCall'
    OBVIOUS
  <1> USE DEF Fetch, callerVars
  <1> DEFINE h == Head(xQueueCmd)
  <1>1. /\ xQueueCmd \in Seq(Command) /\ OnePerTask(xQueueCmd) /\ xQueueCmd # <<>>
        /\ xQueueReadCmd' = h /\ xQueueCmd' = Tail(xQueueCmd)
    BY DEF OnceInv, ControlInv, ControlTypeOK, OneCommandPerCall, FetchFindsRead
  <1>2. /\ OnePerTask(xQueueCmd)'
        /\ \A u \in Task : /\ Queued(u)' => u # h.xCallingTask
                           /\ Queued(u) <=> Queued(u)' \/ u = h.xCallingTask
    <2>1. xQueueCmd # <<>> /\ xQueueCmd' = Tail(xQueueCmd)
      BY <1>1
    <2>2. /\ OnePerTask(Tail(xQueueCmd)) /\ ~InQueue(Tail(xQueueCmd), h.xCallingTask)
          /\ \A u : InQueue(xQueueCmd, u) <=>
                  InQueue(Tail(xQueueCmd), u) \/ u = h.xCallingTask
      BY <1>1, <2>1, TailInQueue
    <2>3. \A u : Queued(u)' <=> InQueue(Tail(xQueueCmd), u)
      BY <2>1 DEF Queued
    <2>4. OnePerTask(xQueueCmd)'
      BY <2>1, <2>2
    <2>5. \A u : Queued(u) <=> InQueue(xQueueCmd, u)
      BY DEF Queued
    <2> HIDE DEF h, Receive, Fetch
    <2> QED
      BY <2>2, <2>3, <2>4, <2>5
  <1>3. \A u \in Task : /\ ~Reading(u) /\ (Writing(u)' <=> Writing(u))
                        /\ Reading(u)' <=> u = h.xCallingTask
    BY <1>1 DEF Reading, Writing, ReadInHand, WriteInHand
  <1>4. ASSUME NEW u \in Task PROVE CommandOnce(u)'
    BY <1>2, <1>3 DEF OnceInv, OneCommandPerCall, CommandOnce
  <1> QED
    BY <1>2, <1>4 DEF OneCommandPerCall

(* GiveReader and GiveWriter: a command leaves a hand for a notification. *)
LEMMA GiveKeepsOnce == OnceInv /\ (GiveReader \/ GiveWriter) => OneCommandPerCall'
  <1> SUFFICES ASSUME OnceInv, GiveReader \/ GiveWriter PROVE OneCommandPerCall'
    OBVIOUS
  <1> DEFINE r == xQueueReadCmd.xCallingTask
             w == xQueueWriteCmd.xCallingTask
  <1>1. UNCHANGED <<pc, xQueueCmd, xQueueReadCmd, xQueueWriteCmd>>
    BY DEF GiveReader, GiveWriter
  <1>2. OnePerTask(xQueueCmd)' /\ \A u \in Task : Queued(u)' <=> Queued(u)
    BY <1>1 DEF OnceInv, OneCommandPerCall, OnePerTask, Queued, InQueue
  <1>3. notified \in [Task -> Nat]
    BY DEF OnceInv, ControlInv, ControlTypeOK
  <1>4. CASE GiveReader
    <2>1. /\ notified' = [notified EXCEPT ![r] = @ + 1]
          /\ \A u \in Task : /\ Reading(u) <=> u = r
                             /\ ~Reading(u)' /\ (Writing(u)' <=> Writing(u))
      BY <1>1, <1>4 DEF GiveReader, Give, Reading, Writing, ReadInHand, WriteInHand
    <2>2. ASSUME NEW u \in Task PROVE CommandOnce(u)'
      BY <1>1, <1>2, <1>3, <2>1 DEF OnceInv, OneCommandPerCall, CommandOnce
    <2> QED
      BY <1>2, <2>2 DEF OneCommandPerCall
  <1>5. CASE GiveWriter
    <2>1. /\ notified' = [notified EXCEPT ![w] = @ + 1]
          /\ \A u \in Task : /\ Writing(u) <=> u = w
                             /\ ~Reading(u) /\ ~Reading(u)' /\ ~Writing(u)'
      BY <1>1, <1>5 DEF GiveWriter, Give, Reading, Writing, ReadInHand, WriteInHand
    <2>2. ASSUME NEW u \in Task PROVE CommandOnce(u)'
      BY <1>1, <1>2, <1>3, <2>1 DEF OnceInv, OneCommandPerCall, CommandOnce
    <2> QED
      BY <1>2, <2>2 DEF OneCommandPerCall
  <1> QED
    BY <1>4, <1>5

(* A page changes the position of the write in hand, not its task. *)
LEMMA ProcessWriteKeepsOnce == OnceInv /\ ProcessWrite => OneCommandPerCall'
  <1> SUFFICES ASSUME OnceInv, ProcessWrite PROVE OneCommandPerCall'
    OBVIOUS
  <1>1. xQueueWriteCmd \in Command
    BY DEF OnceInv, ControlInv, HandsFilled, WriteInHand, ProcessWrite
  <1>2. xQueueWriteCmd'.xCallingTask = xQueueWriteCmd.xCallingTask
    BY <1>1 DEF ProcessWrite, Command
  <1>3. /\ UNCHANGED <<pc, notified, xQueueCmd, xQueueReadCmd>>
        /\ dpc = "program" /\ dpc' \in {"peek", "giveWriter"}
    BY DEF ProcessWrite
  <1> QED
    BY <1>2, <1>3, CommandsStay DEF OnceInv, ReadInHand, WriteInHand

(* The steps that move no command and give no notification. *)
LEMMA QuietStepsKeepOnce ==
    ASSUME OnceInv, DrvInit \/ DelayExpires \/ ProcessRead \/ Peek \/ ProcessErase
    PROVE  OneCommandPerCall'
  <1>1. UNCHANGED <<pc, notified, xQueueCmd, xQueueWriteCmd>>
    BY DEF DrvInit, DelayExpires, ProcessRead, Peek, ProcessErase, callerVars
  <1>2. /\ ReadInHand' = ReadInHand /\ WriteInHand' = WriteInHand
        /\ ReadInHand => UNCHANGED xQueueReadCmd
    BY DEF DrvInit, DelayExpires, ProcessRead, Peek, ProcessErase, ReadInHand, WriteInHand
  <1> QED
    BY <1>1, <1>2, CommandsStay DEF OnceInv

(* One command for each waiting call is inductive on top of the control    *)
(* invariant.                                                              *)
LEMMA NextOnce == OnceInv /\ [Next]_vars => OnceInv'
  <1> SUFFICES ASSUME OnceInv, [Next]_vars PROVE OnceInv'
    OBVIOUS
  <1>1. ControlInv'
    BY NextControl DEF OnceInv
  <1>2. ASSUME NEW t \in Task, Caller(t) PROVE OneCommandPerCall'
    BY <1>2, CallKeepsOnce, SendKeepsOnce, TakeKeepsOnce DEF Caller
  <1>3. ASSUME qspiTasks PROVE OneCommandPerCall'
    BY <1>3, ReceiveKeepsOnce, FetchKeepsOnce, GiveKeepsOnce, ProcessWriteKeepsOnce,
       QuietStepsKeepOnce DEF qspiTasks
  <1>4. ASSUME UNCHANGED vars PROVE OneCommandPerCall'
    BY <1>4, CommandsStay DEF OnceInv, vars, callerVars, driverVars, ReadInHand, WriteInHand
  <1> QED
    BY <1>1, <1>2, <1>3, <1>4 DEF Next, OnceInv

(* No command is lost, doubled or answered twice, whatever the interleaving *)
(* of callers and driver task.                                             *)
THEOREM CommandConservation == Spec => []OneCommandPerCall
  <1>1. OnceInv => OneCommandPerCall
    BY DEF OnceInv
  <1> QED
    BY <1>1, InitOnce, NextOnce, PTL DEF Spec

-----------------------------------------------------------------------------
(* Layer 3: pointers and memory. *)

(* Command c is still to be served: in the queue or in a hand. *)
Pending(c) ==
    \/ \E i \in 1 .. Len(xQueueCmd) : xQueueCmd[i] = c
    \/ ReadInHand /\ c = xQueueReadCmd
    \/ WriteInHand /\ c = xQueueWriteCmd

AllAlive == \A c \in Command : Pending(c) => Alive(c)

(* The buffer of an open call has room for what is left of it, and that of  *)
(* a write holds the bytes it was called with.                             *)
FramesHold == \A t \in Task :
    /\ call[t].op = "READ" => Room(t, call[t].data, call[t].length)
    /\ call[t].op = "WRITE" => /\ call[t].data = 0
                               /\ Room(t, 0, call[t].length)
                               /\ \A i \in DOMAIN buffer[t] : buffer[t][i] \in SUBSET Byte

MemoryInv == MemoryTypeOK /\ FramesHold

PointerInv == OnceInv /\ MemoryInv /\ AllAlive

(* Initially there is no command that could point anywhere. *)
LEMMA InitPointer == Init => PointerInv
  <1> SUFFICES ASSUME Init PROVE PointerInv
    OBVIOUS
  <1>1. OnceInv
    BY InitOnce
  <1>2. MemoryTypeOK
    BY DEF Init, MemoryTypeOK
  <1>3. FramesHold
    BY DEF Init, FramesHold, NoCall
  <1>4. AllAlive
    BY EmptySeq DEF Init, AllAlive, Pending, ReadInHand, WriteInHand
  <1> QED
    BY <1>1, <1>2, <1>3, <1>4 DEF PointerInv, MemoryInv

(* The invariant says of every pending command what PointersAlive says of   *)
(* the queue and the two hands.                                            *)
LEMMA PendingArePointers == ControlInv /\ AllAlive => PointersAlive
  <1> SUFFICES ASSUME ControlInv, AllAlive PROVE PointersAlive
    OBVIOUS
  <1>1. ReadInHand => xQueueReadCmd.command = "READ" /\ Alive(xQueueReadCmd)
    BY DEF ControlInv, HandsFilled, AllAlive, Pending
  <1>2. WriteInHand => xQueueWriteCmd.command # "READ" /\ Alive(xQueueWriteCmd)
    <2>1. WriteInHand => xQueueWriteCmd.command \in {"WRITE", "ERASE"}
      BY DEF ControlInv, HandsFilled, WriteInHand
    <2> QED
      BY <2>1 DEF ControlInv, HandsFilled, AllAlive, Pending
  <1>3. ASSUME NEW i \in 1 .. Len(xQueueCmd) PROVE Alive(xQueueCmd[i])
    <2>1. xQueueCmd[i] \in Command
      BY ElementOfSeq DEF ControlInv, ControlTypeOK
    <2> QED
      BY <2>1 DEF AllAlive, Pending
  <1> QED
    BY <1>1, <1>2, <1>3 DEF PointersAlive

(* What a pending command needs to stay alive. *)
LEMMA StaysAlive ==
    ASSUME NEW c \in Command, Alive(c),
           pc'[c.xCallingTask] = pc[c.xCallingTask],
           notified'[c.xCallingTask] = notified[c.xCallingTask],
           call'[c.xCallingTask] = call[c.xCallingTask],
           DOMAIN buffer'[c.xCallingTask] = DOMAIN buffer[c.xCallingTask]
    PROVE  Alive(c)'
  BY DEF Alive, Room

(* A step of the driver task that leaves the callers where they are. *)
LEMMA PendingStays ==
    ASSUME PointerInv, UNCHANGED <<pc, notified, call>>,
           \A t \in Task : DOMAIN buffer'[t] = DOMAIN buffer[t],
           \A c \in Command : Pending(c)' => Pending(c)
    PROVE  AllAlive'
  <1> SUFFICES ASSUME NEW c \in Command, Pending(c)' PROVE Alive(c)'
    BY DEF AllAlive
  <1>1. Alive(c) /\ c.xCallingTask \in Task
    BY DEF PointerInv, AllAlive, Command
  <1> QED
    BY <1>1, StaysAlive

(* A step of caller t that leaves the other callers where they are. *)
LEMMA OthersStayAlive ==
    ASSUME PointerInv, NEW t \in Task,
           pc[t] # "wait" \/ notified[t] > 0,
           \A u \in Task \ {t} : /\ pc'[u] = pc[u] /\ notified'[u] = notified[u]
                                 /\ call'[u] = call[u] /\ buffer'[u] = buffer[u],
           NEW c \in Command, Pending(c)
    PROVE  Alive(c)'
  <1>1. Alive(c) /\ c.xCallingTask \in Task
    BY DEF PointerInv, AllAlive, Command
  <1>2. c.xCallingTask # t
    BY <1>1 DEF Alive
  <1> QED
    BY <1>1, <1>2, StaysAlive

(* The memory that a call brings along suits it. *)
Fits(op, n, memory) ==
    /\ op # "ERASE" => \A i \in 0 .. n - 1 : i \in DOMAIN memory
    /\ \A i \in DOMAIN memory : memory[i] \in Content
    /\ op = "WRITE" => \A i \in DOMAIN memory : memory[i] \in SUBSET Byte

(* A call either returns at once or enters with memory that suits it. *)
LEMMA CallCases ==
    ASSUME NEW t \in Task, CallDriver(t)
    PROVE  /\ pc[t] = "idle"
           /\ \/ \E result \in Result : Return(t, result)
              \/ \E op \in Op, a, n \in Nat : \E memory :
                    Fits(op, n, memory) /\ Enter(t, op, a, n, memory)
  <1>1. PICK addr \in Address :
          \/ \E n \in ReadLength, null \in BOOLEAN : qspiReadFlash(t, addr, n, null)
          \/ \E n \in WriteLength, d \in Data : qspiWriteFlash(t, addr, n, d)
          \/ \E code \in EraseCode : qspiEraseSector(t, addr, code)
    BY DEF CallDriver
  <1>2. FlashAddress(addr) \in Nat
    BY InputAssumption, FlashAddressType
  <1>3. ASSUME NEW n \in ReadLength, NEW null \in BOOLEAN,
               qspiReadFlash(t, addr, n, null)
        PROVE  pc[t] = "idle" /\ ((\E result \in Result : Return(t, result))
                 \/ \E op \in Op, a, m \in Nat : \E memory :
                      Fits(op, m, memory) /\ Enter(t, op, a, m, memory))
    <2> DEFINE memory == [i \in 0 .. n - 1 |-> Unread]
    <2>1. n \in Nat /\ "READ" \in Op /\ {"ERR_BAD_PARAMS", "ERR_NULL_PTR", "ERR_NONE"} \subseteq Result
      BY InputAssumption DEF Op, Result
    <2>2. Fits("READ", n, memory)
      <3>1. Unread \in Content
        BY DEF Content
      <3>2. DOMAIN memory = 0 .. n - 1 /\ \A i \in 0 .. n - 1 : memory[i] = Unread
        OBVIOUS
      <3> HIDE DEF memory
      <3> QED
        BY <3>1, <3>2 DEF Fits
    <2>3. \/ \E result \in Result : Return(t, result)
          \/ Enter(t, "READ", FlashAddress(addr), n, memory)
      BY <1>3, <2>1 DEF qspiReadFlash
    <2>4. pc[t] = "idle"
      BY <1>3 DEF qspiReadFlash
    <2> HIDE DEF memory
    <2> QED
      BY <1>2, <2>1, <2>2, <2>3, <2>4
  <1>4. ASSUME NEW n \in WriteLength, NEW d \in Data, qspiWriteFlash(t, addr, n, d)
        PROVE  pc[t] = "idle" /\ ((\E result \in Result : Return(t, result))
                 \/ \E op \in Op, a, m \in Nat : \E memory :
                      Fits(op, m, memory) /\ Enter(t, op, a, m, memory))
    <2> DEFINE memory == [i \in 0 .. n - 1 |-> {<<d, i>>}]
    <2>1. n \in Nat /\ "WRITE" \in Op /\ {"ERR_READONLY", "ERR_PAGE_ADDR"} \subseteq Result
      BY InputAssumption DEF Op, Result
    <2>2. Fits("WRITE", n, memory)
      <3>1. \A i \in 0 .. n - 1 : {<<d, i>>} \in SUBSET Byte
        BY <2>1 DEF Byte
      <3> QED
        BY <3>1 DEF Fits, Content
    <2>3. \/ \E result \in Result : Return(t, result)
          \/ Enter(t, "WRITE", FlashAddress(addr), n, memory)
      BY <1>4, <2>1 DEF qspiWriteFlash
    <2>4. pc[t] = "idle"
      BY <1>4 DEF qspiWriteFlash
    <2> HIDE DEF memory
    <2> QED
      BY <1>2, <2>1, <2>2, <2>3, <2>4
  <1>5. ASSUME NEW code \in EraseCode, qspiEraseSector(t, addr, code)
        PROVE  pc[t] = "idle" /\ ((\E result \in Result : Return(t, result))
                 \/ \E op \in Op, a, m \in Nat : \E memory :
                      Fits(op, m, memory) /\ Enter(t, op, a, m, memory))
    <2>1. code \in Nat /\ "ERASE" \in Op /\ "ERR_READONLY" \in Result
      BY InputAssumption DEF Op, Result
    <2>2. Fits("ERASE", code, <<>>)
      BY DEF Fits
    <2> QED
      BY <1>2, <1>5, <2>1, <2>2 DEF qspiEraseSector
  <1> QED
    BY <1>1, <1>3, <1>4, <1>5

(* Entering a call replaces the caller's own memory only. *)
LEMMA EnterKeepsMemory ==
    ASSUME ControlTypeOK, MemoryInv, NEW t \in Task, NEW op \in Op, NEW a \in Nat,
           NEW n \in Nat, NEW memory, Fits(op, n, memory), Enter(t, op, a, n, memory)
    PROVE  MemoryInv'
  <1>1. /\ DOMAIN buffer' = Task /\ buffer'[t] = memory
        /\ call'[t].op = op /\ call'[t].data = 0 /\ call'[t].length = n
        /\ store' = store
        /\ \A u \in Task \ {t} : buffer'[u] = buffer[u] /\ call'[u] = call[u]
    BY DEF Enter, ControlTypeOK, MemoryInv, MemoryTypeOK
  <1>2. MemoryTypeOK'
    BY <1>1 DEF Fits, MemoryInv, MemoryTypeOK
  <1>3. FramesHold'
    <2> SUFFICES ASSUME NEW u \in Task
                 PROVE  /\ call'[u].op = "READ" => Room(u, call[u].data, call[u].length)'
                        /\ call'[u].op = "WRITE" =>
                              /\ call'[u].data = 0 /\ Room(u, 0, call[u].length)'
                              /\ \A i \in DOMAIN buffer'[u] : buffer'[u][i] \in SUBSET Byte
      BY DEF FramesHold, Room
    <2>1. CASE u = t
      BY <1>1, <2>1 DEF Fits, Room
    <2>2. CASE u # t
      BY <1>1, <2>2 DEF MemoryInv, FramesHold, Room
    <2> QED
      BY <2>1, <2>2
  <1> QED
    BY <1>2, <1>3 DEF MemoryInv

(* A caller that is idle has no command, so that its new frame disturbs    *)
(* none.                                                                   *)
LEMMA CallKeepsPointer ==
    ASSUME PointerInv, NEW t \in Task, CallDriver(t)
    PROVE  MemoryInv' /\ AllAlive'
  <1>1. pc[t] = "idle" /\ ControlTypeOK /\ MemoryInv
    BY CallCases DEF PointerInv, OnceInv, ControlInv
  <1>2. ASSUME NEW result \in Result, Return(t, result) PROVE MemoryInv' /\ AllAlive'
    <2>1. UNCHANGED <<pc, notified, call, buffer, store, xQueueCmd, driverVars>>
      BY <1>2 DEF Return
    <2>2. \A c \in Command : Pending(c)' => Pending(c)
      BY <2>1 DEF Pending, ReadInHand, WriteInHand, driverVars
    <2>3. MemoryInv'
      BY <1>1, <2>1 DEF MemoryInv, MemoryTypeOK, FramesHold, Room
    <2> QED
      BY <2>1, <2>2, <2>3, PendingStays
  <1>3. ASSUME NEW op \in Op, NEW a \in Nat, NEW n \in Nat, NEW memory,
               Fits(op, n, memory), Enter(t, op, a, n, memory)
        PROVE  MemoryInv' /\ AllAlive'
    <2>1. \A u \in Task \ {t} : /\ pc'[u] = pc[u] /\ notified'[u] = notified[u]
                                /\ call'[u] = call[u] /\ buffer'[u] = buffer[u]
      BY <1>1, <1>3 DEF Enter, ControlTypeOK, MemoryInv, MemoryTypeOK
    <2>2. \A c \in Command : Pending(c)' => Pending(c)
      BY <1>3 DEF Enter, Pending, ReadInHand, WriteInHand, driverVars
    <2>3. AllAlive'
      BY <1>1, <2>1, <2>2, OthersStayAlive DEF AllAlive
    <2> QED
      BY <1>1, <1>3, <2>3, EnterKeepsMemory
  <1> QED
    BY <1>2, <1>3, CallCases

(* What is in the queue after a send was there before or is what was sent. *)
LEMMA SendElements ==
    ASSUME NEW q \in Seq(Command), NEW c \in Command, NEW i \in 1 .. Len(Send(q, c))
    PROVE  Send(q, c)[i] = c \/ \E j \in 1 .. Len(q) : q[j] = Send(q, c)[i]
  <1>1. Len(q) \in Nat /\ i \in 1 .. Len(q) + 1
    BY SendProperties
  <1>2. Send(q, c)[i] = IF c.command = "READ"
                        THEN IF i = 1 THEN c ELSE q[i - 1]
                        ELSE IF i = Len(q) + 1 THEN c ELSE q[i]
    BY <1>1, SendProperties
  <1> QED
    BY <1>1, <1>2

(* The command that is sent points into the frame of its sender, who waits *)
(* from now on.                                                            *)
LEMMA SendKeepsPointer ==
    ASSUME PointerInv, NEW t \in Task, SendCommand(t)
    PROVE  MemoryInv' /\ AllAlive'
  <1> DEFINE sent == CommandOf(t)
             n == ReadChunk(call[t].length)
  <1>1. /\ pc[t] = "send" /\ pc' = [pc EXCEPT ![t] = "wait"]
        /\ xQueueCmd' = Send(xQueueCmd, sent)
        /\ UNCHANGED <<call, ret, buffer, notified, driverVars, store>>
    BY DEF SendCommand
  <1>2. ControlTypeOK /\ MemoryInv /\ call[t] \in Call /\ call[t].op \in Op
    BY <1>1 DEF PointerInv, OnceInv, ControlInv, CallsOpen, ControlTypeOK
  <1>3. sent \in Command
    BY <1>2, CommandOfType
  <1>4. MemoryInv'
    BY <1>1, <1>2 DEF MemoryInv, MemoryTypeOK, FramesHold, Room
  <1>5. ASSUME NEW c \in Command, Pending(c)' PROVE Pending(c) \/ c = sent
    <2>1. ASSUME NEW i \in 1 .. Len(xQueueCmd'), xQueueCmd'[i] = c
          PROVE  Pending(c) \/ c = sent
      BY <1>1, <1>2, <1>3, <2>1, SendElements DEF ControlTypeOK, Pending
    <2> QED
      BY <1>1, <1>5, <2>1 DEF Pending, ReadInHand, WriteInHand, driverVars
  <1>6. Alive(sent)'
    <2>1. pc'[t] = "wait" /\ notified'[t] = 0
      BY <1>1, <1>2 DEF ControlTypeOK, PointerInv, OnceInv, OneCommandPerCall, CommandOnce
    <2>2. n \in Nat /\ n <= call[t].length /\ call[t].length \in Nat /\ call[t].data \in Nat
      BY <1>2, SizeAssumption DEF ReadChunk, Call
    <2>3. call[t].op # "ERASE" => Room(t, call[t].data,
                                       IF call[t].op = "READ" THEN n ELSE call[t].length)
      <3>1. CASE call[t].op = "READ"
        BY <1>2, <2>2, <3>1 DEF MemoryInv, FramesHold, Room
      <3>2. CASE call[t].op = "WRITE"
        BY <1>2, <2>2, <3>2 DEF MemoryInv, FramesHold
      <3> QED
        BY <1>2, <3>1, <3>2 DEF Op
    <2>4. /\ sent.xCallingTask = t /\ sent.command = call[t].op
          /\ sent.flashAddress = call[t].flashAddress /\ sent.data = call[t].data
          /\ sent.length = IF call[t].op = "READ" THEN n ELSE call[t].length
      BY DEF CommandOf
    <2>5. UNCHANGED sent
      BY <1>1 DEF CommandOf
    <2> HIDE DEF sent, n
    <2> QED
      BY <1>1, <2>1, <2>3, <2>4, <2>5 DEF Alive, Room
  <1>7. ASSUME NEW c \in Command, Pending(c)' PROVE Alive(c)'
    <2>1. \A u \in Task \ {t} : pc'[u] = pc[u]
      BY <1>1, <1>2 DEF ControlTypeOK
    <2>2. CASE Pending(c)
      BY <1>1, <2>1, <2>2, OthersStayAlive
    <2>3. CASE c = sent
      <3>1. UNCHANGED sent
        BY <1>1 DEF CommandOf
      <3> HIDE DEF sent
      <3> QED
        BY <1>6, <2>3, <3>1 DEF Alive, Room
    <2> QED
      BY <1>5, <1>7, <2>2, <2>3
  <1> QED
    BY <1>4, <1>7 DEF AllAlive

(* Who takes a notification has no command left to point into the frame it *)
(* may leave.                                                              *)
LEMMA TakeKeepsPointer ==
    ASSUME PointerInv, NEW t \in Task, TakeNotification(t)
    PROVE  MemoryInv' /\ AllAlive'
  <1> DEFINE n == ReadChunk(call[t].length)
  <1>1. /\ pc[t] = "wait" /\ notified[t] > 0
        /\ UNCHANGED <<xQueueCmd, driverVars, store>>
        /\ notified' = [notified EXCEPT ![t] = 0]
    BY DEF TakeNotification, Woken
  <1>2. ControlTypeOK /\ MemoryInv /\ call[t] \in Call
    BY DEF PointerInv, OnceInv, ControlInv, ControlTypeOK
  <1>3. \A u \in Task \ {t} : /\ pc'[u] = pc[u] /\ notified'[u] = notified[u]
                              /\ call'[u] = call[u] /\ buffer'[u] = buffer[u]
    BY <1>2 DEF TakeNotification, ControlTypeOK, MemoryInv, MemoryTypeOK
  <1>4. \/ /\ call[t].op = "READ" /\ buffer'[t] = buffer[t]
           /\ call'[t].op = "READ" /\ call'[t].data = call[t].data + n
           /\ call'[t].length = call[t].length - n
        \/ call'[t] = NoCall /\ buffer'[t] = <<>>
    BY <1>2 DEF TakeNotification, ControlTypeOK, MemoryInv, MemoryTypeOK, Call
  <1>5. DOMAIN buffer' = Task
    BY <1>2 DEF TakeNotification, MemoryInv, MemoryTypeOK
  <1>6. MemoryTypeOK'
    BY <1>1, <1>2, <1>3, <1>4, <1>5 DEF MemoryInv, MemoryTypeOK
  <1>7. FramesHold'
    <2> SUFFICES ASSUME NEW u \in Task
                 PROVE  /\ call'[u].op = "READ" => Room(u, call[u].data, call[u].length)'
                        /\ call'[u].op = "WRITE" =>
                              /\ call'[u].data = 0 /\ Room(u, 0, call[u].length)'
                              /\ \A i \in DOMAIN buffer'[u] : buffer'[u][i] \in SUBSET Byte
      BY DEF FramesHold, Room
    <2>1. CASE u # t
      BY <1>2, <1>3, <2>1 DEF MemoryInv, FramesHold, Room
    <2>2. CASE u = t
      <3>1. n \in Nat /\ n <= call[t].length /\ call[t].length \in Nat /\ call[t].data \in Nat
        BY <1>2, SizeAssumption DEF ReadChunk, Call
      <3>2. CASE call'[t] = NoCall
        BY <2>2, <3>2 DEF NoCall
      <3>3. CASE /\ call[t].op = "READ" /\ buffer'[t] = buffer[t]
                 /\ call'[t].op = "READ" /\ call'[t].data = call[t].data + n
                 /\ call'[t].length = call[t].length - n
        <4>1. Room(t, call[t].data, call[t].length)
          BY <1>2, <3>3 DEF MemoryInv, FramesHold
        <4> HIDE DEF n
        <4>2. \A i \in call'[t].data .. call'[t].data + call'[t].length - 1 :
                 i \in call[t].data .. call[t].data + call[t].length - 1
          BY <3>1, <3>3
        <4> QED
          BY <2>2, <3>3, <4>1, <4>2 DEF Room
      <3> QED
        BY <1>4, <3>2, <3>3
    <2> QED
      BY <2>1, <2>2
  <1>8. \A c \in Command : Pending(c)' => Pending(c)
    BY <1>1 DEF Pending, ReadInHand, WriteInHand, driverVars
  <1> QED
    BY <1>1, <1>3, <1>6, <1>7, <1>8, OthersStayAlive DEF AllAlive, MemoryInv

(* Receive, Fetch, Peek, DrvInit and DelayExpires move commands, but bring  *)
(* none.                                                                   *)
LEMMA QuietStepsBringNone ==
    ASSUME PointerInv, Receive \/ Fetch \/ Peek \/ DrvInit \/ DelayExpires,
           NEW c \in Command, Pending(c)'
    PROVE  Pending(c)
  <1>1. CASE Receive \/ Fetch
    <2>1. /\ xQueueCmd # <<>> /\ xQueueCmd \in Seq(Command)
          /\ xQueueCmd' = Tail(xQueueCmd) /\ xQueueReadCmd' = Head(xQueueCmd)
          /\ WriteInHand' => \/ xQueueWriteCmd' = Head(xQueueCmd)
                             \/ WriteInHand /\ xQueueWriteCmd' = xQueueWriteCmd
      <3>1. ControlInv
        BY DEF PointerInv, OnceInv
      <3>2. xQueueCmd \in Seq(Command)
        BY <3>1 DEF ControlInv, ControlTypeOK
      <3>3. CASE Fetch
        BY <3>1, <3>2, <3>3 DEF ControlInv, FetchFindsRead, Fetch, WriteInHand
      <3>4. CASE Receive
        <4>1. xQueueCmd # <<>> /\ Head(xQueueCmd).command \in Op
          BY <3>1, <3>4, QueueHead DEF Receive, ControlInv
        <4>2. Head(xQueueCmd).command = "READ" => dpc' = "read"
          BY <3>4 DEF Receive, Dispatch
        <4> QED
          BY <3>2, <3>4, <4>1, <4>2 DEF Receive, WriteInHand
      <3> QED
        BY <1>1, <3>3, <3>4
    <2>2. /\ 1 \in 1 .. Len(xQueueCmd) /\ Head(xQueueCmd) = xQueueCmd[1]
          /\ \A i \in 1 .. Len(Tail(xQueueCmd)) :
                i + 1 \in 1 .. Len(xQueueCmd) /\ Tail(xQueueCmd)[i] = xQueueCmd[i + 1]
      BY <2>1, HeadTailProperties, EmptySeq, LenProperties
    <2> QED
      BY <2>1, <2>2 DEF Pending
  <1>2. CASE Peek \/ DrvInit \/ DelayExpires
    <2>1. /\ UNCHANGED <<xQueueCmd, xQueueWriteCmd>> /\ ~ReadInHand'
          /\ WriteInHand' = WriteInHand
      BY <1>2 DEF Peek, DrvInit, DelayExpires, ReadInHand, WriteInHand
    <2> QED
      BY <2>1 DEF Pending
  <1> QED
    BY <1>1, <1>2

(* Nor do they change the memory. *)
LEMMA QuietStepsKeepPointer ==
    ASSUME PointerInv, Receive \/ Fetch \/ Peek \/ DrvInit \/ DelayExpires
    PROVE  MemoryInv' /\ AllAlive'
  <1>1. UNCHANGED <<pc, notified, call, buffer, store>>
    BY DEF Receive, Fetch, Peek, DrvInit, DelayExpires, callerVars
  <1>2. MemoryInv'
    BY <1>1 DEF PointerInv, MemoryInv, MemoryTypeOK, FramesHold, Room
  <1> QED
    BY <1>1, <1>2, QuietStepsBringNone, PendingStays

(* A read changes the bytes of its own buffer, which is that of a read. *)
LEMMA ProcessReadKeepsPointer == PointerInv /\ ProcessRead => MemoryInv' /\ AllAlive'
  <1> SUFFICES ASSUME PointerInv, ProcessRead PROVE MemoryInv' /\ AllAlive'
    OBVIOUS
  <1> DEFINE cmd == xQueueReadCmd
             r == cmd.xCallingTask
             got == FlashRead(cmd.flashAddress, cmd.length)
  <1>1. ControlInv /\ MemoryInv /\ ReadInHand /\ UNCHANGED <<pc, notified, call, store>>
    BY DEF PointerInv, OnceInv, ProcessRead, ReadInHand
  <1>2. /\ cmd \in Command /\ r \in Task /\ call[r].op = "READ"
        /\ cmd.flashAddress \in Nat /\ cmd.data \in Nat /\ cmd.length \in Nat
    <2>1. cmd \in Command /\ cmd.command = "READ" /\ Alive(cmd)
      BY <1>1 DEF ControlInv, HandsFilled, PointerInv, AllAlive, Pending
    <2> QED
      BY <2>1 DEF Alive, Command
  <1>3. \A k \in 0 .. cmd.length - 1 : got[k] \in Content
    <2>1. ASSUME NEW k \in 0 .. cmd.length - 1
          PROVE  (cmd.flashAddress + k) % QSPI_FLASH_SIZE \in Cell
      BY <1>2, SizeAssumption DEF Cell
    <2>2. ASSUME NEW k \in 0 .. cmd.length - 1 PROVE got[k] \in SUBSET Byte
      BY <1>1, <2>1 DEF FlashRead, MemoryInv, MemoryTypeOK
    <2> QED
      BY <2>2 DEF Content
  <1>4. /\ DOMAIN buffer' = Task
        /\ \A u \in Task \ {r} : buffer'[u] = buffer[u]
        /\ DOMAIN buffer'[r] = DOMAIN buffer[r]
        /\ \A i \in DOMAIN buffer[r] :
              buffer'[r][i] = IF i \in cmd.data .. cmd.data + cmd.length - 1
                              THEN got[i - cmd.data] ELSE buffer[r][i]
    BY <1>1, <1>2 DEF ProcessRead, MemoryInv, MemoryTypeOK
  <1>5. ASSUME NEW i \in DOMAIN buffer[r] PROVE buffer'[r][i] \in Content
    <2>1. CASE i \in cmd.data .. cmd.data + cmd.length - 1
      <3>1. i - cmd.data \in 0 .. cmd.length - 1
        BY <1>2, <2>1
      <3> HIDE DEF got, cmd, r
      <3> QED
        BY <1>3, <1>4, <2>1, <3>1
    <2>2. CASE i \notin cmd.data .. cmd.data + cmd.length - 1
      BY <1>1, <1>2, <1>4, <2>2 DEF MemoryInv, MemoryTypeOK
    <2> QED
      BY <2>1, <2>2
  <1>6. MemoryTypeOK'
    <2> HIDE DEF got, cmd, r
    <2> QED
      BY <1>1, <1>4, <1>5 DEF MemoryInv, MemoryTypeOK
  <1>7. FramesHold'
    <2>1. \A u \in Task : DOMAIN buffer'[u] = DOMAIN buffer[u]
      BY <1>4
    <2>2. \A u \in Task : call[u].op = "WRITE" => buffer'[u] = buffer[u]
      BY <1>2, <1>4
    <2> HIDE DEF got, cmd, r
    <2> QED
      BY <1>1, <2>1, <2>2 DEF MemoryInv, FramesHold, Room
  <1>8. \A c \in Command : Pending(c)' => Pending(c)
    BY DEF ProcessRead, Pending, ReadInHand, WriteInHand
  <1>9. \A u \in Task : DOMAIN buffer'[u] = DOMAIN buffer[u]
    BY <1>4
  <1> QED
    BY <1>1, <1>6, <1>7, <1>8, <1>9, PendingStays DEF MemoryInv

(* A task that is notified has no other command that is still to be served. *)
LEMMA GiveKeepsPointer ==
    ASSUME PointerInv, GiveReader \/ GiveWriter
    PROVE  MemoryInv' /\ AllAlive'
  <1> DEFINE r == xQueueReadCmd.xCallingTask
             w == xQueueWriteCmd.xCallingTask
  <1>1. UNCHANGED <<pc, call, buffer, store, xQueueCmd, xQueueReadCmd, xQueueWriteCmd>>
    BY DEF GiveReader, GiveWriter
  <1>2. MemoryInv'
    BY <1>1 DEF PointerInv, MemoryInv, MemoryTypeOK, FramesHold, Room
  <1>3. /\ notified \in [Task -> Nat] /\ xQueueCmd \in Seq(Command)
        /\ \A u \in Task : /\ Queued(u) => ~Reading(u) /\ ~Writing(u)
                           /\ Reading(u) => ~Writing(u)
    BY DEF PointerInv, OnceInv, ControlInv, ControlTypeOK, OneCommandPerCall, CommandOnce
  <1>4. ASSUME NEW c \in Command, Pending(c)'
        PROVE  Pending(c) /\ notified'[c.xCallingTask] = notified[c.xCallingTask]
    <2>1. c.xCallingTask \in Task
      BY DEF Command
    <2>2. (\E i \in 1 .. Len(xQueueCmd) : xQueueCmd[i] = c) => Queued(c.xCallingTask)
      BY DEF Queued, InQueue
    <2>3. CASE GiveReader
      <3>1. /\ ReadInHand /\ ~ReadInHand' /\ WriteInHand' = WriteInHand
            /\ notified' = [notified EXCEPT ![r] = @ + 1]
        BY <2>3 DEF GiveReader, Give, ReadInHand, WriteInHand
      <3>2. Pending(c) /\ (Queued(c.xCallingTask) \/ Writing(c.xCallingTask))
        BY <1>1, <1>4, <2>2, <3>1 DEF Pending, Writing
      <3>3. c.xCallingTask # r
        BY <1>3, <2>1, <3>1, <3>2 DEF Reading
      <3> QED
        BY <1>3, <2>1, <3>1, <3>2, <3>3
    <2>4. CASE GiveWriter
      <3>1. /\ WriteInHand /\ ~ReadInHand' /\ ~WriteInHand'
            /\ notified' = [notified EXCEPT ![w] = @ + 1]
        BY <2>4 DEF GiveWriter, Give, ReadInHand, WriteInHand
      <3>2. Pending(c) /\ Queued(c.xCallingTask)
        BY <1>1, <1>4, <2>2, <3>1 DEF Pending
      <3>3. c.xCallingTask # w
        BY <1>3, <2>1, <3>1, <3>2 DEF Writing
      <3> QED
        BY <1>3, <2>1, <3>1, <3>2, <3>3
    <2> QED
      BY <2>3, <2>4
  <1>5. ASSUME NEW c \in Command, Pending(c)' PROVE Alive(c)'
    BY <1>1, <1>4, <1>5, StaysAlive DEF PointerInv, AllAlive
  <1> QED
    BY <1>2, <1>5 DEF AllAlive

(* A page that is programmed consists of bytes of the writer's buffer, and   *)
(* the rest of the write is the rest of that buffer.                       *)
LEMMA ProcessWriteKeepsPointer == PointerInv /\ ProcessWrite => MemoryInv' /\ AllAlive'
  <1> SUFFICES ASSUME PointerInv, ProcessWrite PROVE MemoryInv' /\ AllAlive'
    OBVIOUS
  <1> DEFINE cmd == xQueueWriteCmd
             w == cmd.xCallingTask
             n == PageOf(cmd.length)
             bytes == [i \in 0 .. n - 1 |-> buffer[w][cmd.data + i]]
  <1>1. ControlInv /\ MemoryInv /\ dpc = "program" /\ UNCHANGED <<pc, notified, call, buffer>>
    BY DEF PointerInv, OnceInv, ProcessWrite
  <1>2. /\ cmd \in Command /\ cmd.command = "WRITE" /\ w \in Task /\ Alive(cmd)
        /\ cmd.flashAddress \in Nat /\ cmd.data \in Nat /\ cmd.length \in Nat
    <2>1. cmd \in Command /\ cmd.command = "WRITE" /\ Alive(cmd)
      BY <1>1 DEF ControlInv, HandsFilled, WriteInHand, PointerInv, AllAlive, Pending
    <2> QED
      BY <2>1 DEF Command
  <1>3. n \in Nat /\ n <= cmd.length
    BY <1>2, SizeAssumption DEF PageOf
  <1>4. Room(w, cmd.data, cmd.length) /\ call[w].op = "WRITE"
    BY <1>2 DEF Alive
  <1>5. \A i \in 0 .. n - 1 : bytes[i] \in SUBSET Byte
    <2>1. ASSUME NEW i \in 0 .. n - 1 PROVE cmd.data + i \in DOMAIN buffer[w]
      <3>1. cmd.data + i \in cmd.data .. cmd.data + cmd.length - 1
        BY <1>2, <1>3
      <3> HIDE DEF cmd, w, n
      <3> QED
        BY <1>4, <3>1 DEF Room
    <2> QED
      BY <1>1, <1>2, <1>4, <2>1 DEF MemoryInv, FramesHold
  <1>6. MemoryInv'
    <2>1. store' \in [Cell -> SUBSET Byte]
      <3>1. FlashProgram(cmd.flashAddress, n, bytes)
        BY DEF ProcessWrite
      <3>2. store \in [Cell -> SUBSET Byte]
        BY <1>1 DEF MemoryInv, MemoryTypeOK
      <3> HIDE DEF cmd, w, n, bytes
      <3>3. \A c \in Cell :
               UNION {bytes[i] : i \in {j \in 0 .. n - 1 : Programmed(cmd.flashAddress, j) = c}}
                  \in SUBSET Byte
        BY <1>5
      <3> QED
        BY <3>1, <3>2, <3>3 DEF FlashProgram
    <2> QED
      BY <1>1, <2>1 DEF MemoryInv, MemoryTypeOK, FramesHold, Room
  <1>7. /\ xQueueWriteCmd'.xCallingTask = w
        /\ xQueueWriteCmd'.command = cmd.command
        /\ xQueueWriteCmd'.flashAddress = cmd.flashAddress + n
        /\ xQueueWriteCmd'.data = cmd.data + n
        /\ xQueueWriteCmd'.length = cmd.length - n
    BY <1>2 DEF ProcessWrite, Command
  <1>8. ASSUME NEW c \in Command, c = xQueueWriteCmd' PROVE Alive(c)'
    <2>1. \A i \in c.data .. c.data + c.length - 1 :
             i \in cmd.data .. cmd.data + cmd.length - 1
      BY <1>2, <1>3, <1>7, <1>8
    <2>2. c.flashAddress - c.data = cmd.flashAddress - cmd.data
      BY <1>2, <1>3, <1>7, <1>8
    <2>3. /\ pc[w] = "wait" /\ notified[w] = 0 /\ call[w].op = cmd.command
          /\ cmd.flashAddress - cmd.data = call[w].flashAddress - call[w].data
      BY <1>2 DEF Alive
    <2>4. c.xCallingTask = w /\ c.command = cmd.command
      BY <1>7, <1>8
    <2>5. \A i \in c.data .. c.data + c.length - 1 : i \in DOMAIN buffer[w]
      BY <1>4, <2>1 DEF Room
    <2> HIDE DEF cmd, w, n, bytes
    <2> QED
      BY <1>1, <2>2, <2>3, <2>4, <2>5 DEF Alive, Room
  <1>9. ASSUME NEW c \in Command, Pending(c)' PROVE Alive(c)'
    <2>1. Pending(c) \/ c = xQueueWriteCmd'
      BY <1>9 DEF ProcessWrite, Pending, ReadInHand, WriteInHand
    <2>2. ASSUME Pending(c) PROVE Alive(c)'
      BY <1>1, <2>2, StaysAlive DEF PointerInv, AllAlive
    <2> QED
      BY <1>8, <2>1, <2>2
  <1> QED
    BY <1>6, <1>9 DEF AllAlive

(* An erase changes the flash only. *)
LEMMA ProcessEraseKeepsPointer == PointerInv /\ ProcessErase => MemoryInv' /\ AllAlive'
  <1> SUFFICES ASSUME PointerInv, ProcessErase PROVE MemoryInv' /\ AllAlive'
    OBVIOUS
  <1>1. UNCHANGED <<pc, notified, call, buffer>>
    BY DEF ProcessErase
  <1>2. store' \in [Cell -> SUBSET Byte]
    BY DEF ProcessErase, FlashErase, PointerInv, MemoryInv, MemoryTypeOK
  <1>3. MemoryInv'
    BY <1>1, <1>2 DEF PointerInv, MemoryInv, MemoryTypeOK, FramesHold, Room
  <1>4. \A c \in Command : Pending(c)' => Pending(c)
    BY DEF ProcessErase, Pending, ReadInHand, WriteInHand
  <1> QED
    BY <1>1, <1>3, <1>4, PendingStays

(* The third layer is inductive on top of the second. *)
LEMMA NextPointer == PointerInv /\ [Next]_vars => PointerInv'
  <1> SUFFICES ASSUME PointerInv, [Next]_vars PROVE PointerInv'
    OBVIOUS
  <1>1. OnceInv'
    BY NextOnce DEF PointerInv
  <1>2. ASSUME NEW t \in Task, Caller(t) PROVE MemoryInv' /\ AllAlive'
    BY <1>2, CallKeepsPointer, SendKeepsPointer, TakeKeepsPointer DEF Caller
  <1>3. ASSUME qspiTasks PROVE MemoryInv' /\ AllAlive'
    BY <1>3, QuietStepsKeepPointer, ProcessReadKeepsPointer, GiveKeepsPointer,
       ProcessWriteKeepsPointer, ProcessEraseKeepsPointer DEF qspiTasks
  <1>4. ASSUME UNCHANGED vars PROVE MemoryInv' /\ AllAlive'
    <2>1. UNCHANGED <<pc, notified, call, buffer, store>>
      BY <1>4 DEF vars, callerVars
    <2>2. \A c \in Command : Pending(c)' => Pending(c)
      BY <1>4 DEF vars, driverVars, Pending, ReadInHand, WriteInHand
    <2>3. MemoryInv'
      BY <2>1 DEF PointerInv, MemoryInv, MemoryTypeOK, FramesHold, Room
    <2> QED
      BY <2>1, <2>2, <2>3, PendingStays
  <1> QED
    BY <1>1, <1>2, <1>3, <1>4 DEF Next, PointerInv

(* The type invariant: the lengths that chunks and pages are subtracted     *)
(* from stay natural numbers, and the flash gets bytes of writers only.    *)
THEOREM TypeCorrect == Spec => []TypeOK
  <1>1. PointerInv => TypeOK
    BY DEF PointerInv, OnceInv, ControlInv, MemoryInv, TypeOK
  <1> QED
    BY <1>1, InitPointer, NextPointer, PTL DEF Spec

(* No command outlives the call whose frame it points into, and none        *)
(* reaches outside its caller's buffer.                                    *)
THEOREM PointerSafety == Spec => []PointersAlive
  <1>1. PointerInv => PointersAlive
    BY PendingArePointers DEF PointerInv, OnceInv
  <1> QED
    BY <1>1, InitPointer, NextPointer, PTL DEF Spec
=============================================================================
