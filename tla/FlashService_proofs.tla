------------------------ MODULE FlashService_proofs ------------------------
(***************************************************************************)
(* The driver implements FlashService, for any set of callers, any queue   *)
(* capacity and any flash geometry, as long as the callers keep to         *)
(* CallersFit.  The proof has three parts:                                 *)
(*   1. what a read, a page program and an erase of the model do to the    *)
(*      cells,                                                             *)
(*   2. an invariant on top of PointerInv that says what every open call   *)
(*      and every pending command still have to do (ServiceInv),           *)
(*   3. one lemma for each action that names the step of FlashService, or  *)
(*      the stutter, that it implements.                                   *)
(***************************************************************************)
EXTENDS QspiDriver_proofs

-----------------------------------------------------------------------------
(* Part 1: pages and sectors, and what a transfer does to the cells. *)

(* There is only one quotient and one remainder. *)
LEMMA Division ==
    ASSUME NEW p \in Nat \ {0}, NEW q \in Nat, NEW r \in 0 .. p - 1
    PROVE  (q * p + r) \div p = q /\ (q * p + r) % p = r
  OBVIOUS

(* A number is its quotient and its remainder. *)
LEMMA DivMod ==
    ASSUME NEW a \in Nat, NEW p \in Nat \ {0}
    PROVE  /\ a \div p \in Nat /\ a % p \in 0 .. p - 1
           /\ a = (a \div p) * p + (a % p)
  BY Z3

(* A multiple. *)
LEMMA Multiple ==
    ASSUME NEW p \in Nat \ {0}, NEW a \in Nat, a % p = 0
    PROVE  \E q \in Nat : a = q * p
  <1> DEFINE m == (a \div p) * p
  <1>1. a = m + (a % p) /\ a \div p \in Nat
    BY DivMod
  <1>2. m \in Nat
    BY <1>1
  <1> HIDE DEF m
  <1>3. a = m
    BY <1>1, <1>2
  <1> QED
    BY <1>1, <1>3 DEF m

(* The cells of a page or a sector that starts at a: each has its own      *)
(* column,                                                                 *)
LEMMA BlockColumn ==
    ASSUME NEW p \in Nat \ {0}, NEW a \in Nat, a % p = 0, NEW i \in 0 .. p - 1
    PROVE  (a + i) % p = i /\ (a + i) \div p = a \div p
  <1>1. PICK q \in Nat : a = q * p
    BY Multiple
  <1>2. \A j \in 0 .. p - 1 : (q * p + j) % p = j /\ (q * p + j) \div p = q
    BY Division
  <1>3. (q * p + 0) \div p = q /\ q * p + 0 = a
    BY <1>1, <1>2
  <1> QED
    BY <1>1, <1>2, <1>3

(* they are the next p cells,                                              *)
LEMMA BlockCells ==
    ASSUME NEW p \in Nat \ {0}, NEW a \in Nat, a % p = 0, NEW c \in Nat
    PROVE  c \div p = a \div p <=> c \in a .. a + p - 1
  <1>1. ASSUME c \div p = a \div p PROVE c \in a .. a + p - 1
    <2>1. a = (a \div p) * p + 0 /\ a \div p \in Nat
      <3>1. a = (a \div p) * p + (a % p) /\ a \div p \in Nat
        BY DivMod
      <3> QED
        BY <3>1
    <2>2. c = (c \div p) * p + (c % p) /\ c % p \in 0 .. p - 1
      BY DivMod
    <2> DEFINE m == (a \div p) * p
    <2>3. m \in Nat /\ a = m /\ c = m + (c % p)
      BY <1>1, <2>1, <2>2
    <2> HIDE DEF m
    <2> QED
      BY <2>2, <2>3
  <1>2. ASSUME c \in a .. a + p - 1 PROVE c \div p = a \div p
    <2>1. c - a \in 0 .. p - 1 /\ a + (c - a) = c
      BY <1>2
    <2>2. (a + (c - a)) \div p = a \div p
      BY <2>1, BlockColumn
    <2> QED
      BY <2>1, <2>2
  <1> QED
    BY <1>1, <1>2

(* and the next block starts after them.                                   *)
LEMMA NextBlock ==
    ASSUME NEW p \in Nat \ {0}, NEW a \in Nat, a % p = 0
    PROVE  (a + p) % p = 0
  <1>1. PICK q \in Nat : a = q * p
    BY Multiple
  <1>2. a + p = (q + 1) * p + 0
    BY <1>1
  <1>3. q + 1 \in Nat /\ 0 \in 0 .. p - 1
    OBVIOUS
  <1>4. ((q + 1) * p + 0) % p = 0
    BY <1>3, Division
  <1> QED
    BY <1>2, <1>4

(* A multiple after a multiple is a multiple. *)
LEMMA SumOfMultiples ==
    ASSUME NEW p \in Nat \ {0}, NEW a \in Nat, NEW b \in Nat, a % p = 0, b % p = 0
    PROVE  (a + b) % p = 0
  <1>1. PICK q \in Nat : a = q * p
    BY Multiple
  <1>2. PICK r \in Nat : b = r * p
    BY Multiple
  <1>3. a + b = (q + r) * p + 0
    BY <1>1, <1>2
  <1>4. q + r \in Nat /\ 0 \in 0 .. p - 1
    OBVIOUS
  <1>5. ((q + r) * p + 0) % p = 0
    BY <1>4, Division
  <1> QED
    BY <1>3, <1>5

(* A read inside the flash reads each cell at its own place. *)
LEMMA ReadInside ==
    ASSUME NEW a \in Nat, NEW n \in Nat, a + n <= QSPI_FLASH_SIZE, NEW i \in 0 .. n - 1
    PROVE  FlashRead(a, n)[i] = IF found THEN store[a + i] ELSE {}
  <1>1. (a + i) % QSPI_FLASH_SIZE = a + i
    BY SizeAssumption
  <1> QED
    BY <1>1 DEF FlashRead

(* A page program that stays in its page and inside the flash programs     *)
(* each cell with its own byte: the column address does not wrap.          *)
LEMMA ProgramInside ==
    ASSUME NEW a \in Nat, NEW n \in Nat, a % PAGE = 0, n <= PAGE,
           a + n <= QSPI_FLASH_SIZE, NEW bytes, FlashProgram(a, n, bytes)
    PROVE  store' = [c \in Cell |-> IF found /\ c \in a .. a + n - 1
                                    THEN store[c] \cup bytes[c - a] ELSE store[c]]
  <1>1. PAGE \in Nat \ {0} /\ QSPI_FLASH_SIZE \in Nat \ {0}
    BY SizeAssumption
  <1>2. ASSUME NEW i \in 0 .. n - 1 PROVE Programmed(a, i) = a + i
    <2>1. (a + i) % PAGE = i
      <3>1. i \in 0 .. PAGE - 1
        BY <1>1
      <3> QED
        BY <1>1, <3>1, BlockColumn
    <2>2. (a + i) % QSPI_FLASH_SIZE = a + i
      BY <1>1
    <2>3. Programmed(a, i) = ((a - 0) + i) % QSPI_FLASH_SIZE
      BY <2>1 DEF Programmed
    <2>4. (a - 0) + i = a + i
      OBVIOUS
    <2> QED
      BY <2>2, <2>3, <2>4
  <1>3. ASSUME NEW c \in Cell
        PROVE  UNION {bytes[i] : i \in {j \in 0 .. n - 1 : Programmed(a, j) = c}}
                  = IF c \in a .. a + n - 1 THEN bytes[c - a] ELSE {}
    <2>1. c \in Nat
      BY <1>1 DEF Cell
    <2>2. {j \in 0 .. n - 1 : Programmed(a, j) = c}
             = IF c \in a .. a + n - 1 THEN {c - a} ELSE {}
      BY <1>2, <2>1
    <2> QED
      BY <2>2
  <1> QED
    BY <1>3 DEF FlashProgram

(* An erase clears the sector that starts at its address. *)
LEMMA EraseInside ==
    ASSUME NEW a \in Nat, NEW size \in Nat \ {0}, a % size = 0, FlashErase(a, size)
    PROVE  store' = [c \in Cell |-> IF found /\ c \in a .. a + size - 1
                                    THEN {} ELSE store[c]]
  <1>1. \A c \in Cell : c \div size = a \div size <=> c \in a .. a + size - 1
    <2>1. \A c \in Nat : c \div size = a \div size <=> c \in a .. a + size - 1
      BY BlockCells
    <2> QED
      BY <2>1, SizeAssumption DEF Cell
  <1> QED
    BY <1>1 DEF FlashErase

-----------------------------------------------------------------------------
(* Part 2: what is left of every call. *)

(* An open call lies inside the flash and has met no error; only an erase  *)
(* that is answered may have.                                              *)
CallFits(t) ==
    LET c == call[t]
    IN  /\ pc[t] = "idle" => c = NoCall
        /\ c.op = "READ" => /\ c.length > 0
                            /\ c.flashAddress + c.length <= QSPI_FLASH_SIZE
                            /\ ret[t] = "ERR_NONE"
        /\ c.op = "WRITE" => /\ c.flashAddress % PAGE = 0
                             /\ c.flashAddress + c.length <= QSPI_FLASH_SIZE
                             /\ ret[t] = "ERR_NONE"
        /\ c.op = "ERASE" => Answered(t) \/ ret[t] = "ERR_NONE"

(* A command asks for exactly what its call has left: the next chunk of a   *)
(* read, the rest of a write from a page boundary on, the sector.          *)
CommandFits(c) ==
    LET k == call[c.xCallingTask]
    IN  /\ c.command # "WRITE" => c.flashAddress = k.flashAddress
        /\ c.command = "READ" => c.data = k.data /\ c.length = ReadChunk(k.length)
        /\ c.command = "WRITE" => /\ c.data + c.length = k.length
                                  /\ c.length # 0 => c.data % PAGE = 0
        /\ c.command = "ERASE" => c.length = k.length

(* A write in the queue has not begun, one that is over has nothing left,  *)
(* and before the identification succeeds no chip was found.               *)
WritesInOrder ==
    /\ \A i \in 1 .. Len(xQueueCmd) : xQueueCmd[i].command = "WRITE" => xQueueCmd[i].data = 0
    /\ dpc = "giveWriter" /\ xQueueWriteCmd.command = "WRITE" => xQueueWriteCmd.length = 0
    /\ dpc \in {"init", "retry"} => ~found

CallsFit == \A t \in Task : CallFits(t)
CommandsFit == \A c \in Command : Pending(c) => CommandFits(c)
WorkInv == CallsFit /\ CommandsFit /\ WritesInOrder

ServiceInv == PointerInv /\ WorkInv

(* Only a task that waits can have been answered, and its command is not   *)
(* pending in the queue.                                                   *)
LEMMA AnsweredWaits ==
    ASSUME OnceInv, NEW t \in Task
    PROVE  /\ pc[t] # "wait" => ~Answered(t)
           /\ Queued(t) => ~Answered(t)
  BY DEF OnceInv, OneCommandPerCall, CommandOnce, Answered

(* What keeps a call within its bounds. *)
LEMMA CallStaysFit ==
    ASSUME NEW t \in Task, CallFits(t), call'[t] = call[t],
           pc'[t] = "idle" => pc[t] = "idle",
           ret'[t] \in {ret[t], "ERR_NONE"}, Answered(t) => Answered(t)'
    PROVE  CallFits(t)'
  BY DEF CallFits

(* A step that leaves the calls alone and brings no command. *)
LEMMA CommandsStayFit ==
    ASSUME CommandsFit, UNCHANGED call, \A c \in Command : Pending(c)' => Pending(c)
    PROVE  CommandsFit'
  BY DEF CommandsFit, CommandFits

(* A step of caller t, who has no pending command. *)
LEMMA OthersStayFit ==
    ASSUME PointerInv, CommandsFit, NEW t \in Task,
           pc[t] # "wait" \/ notified[t] > 0,
           \A u \in Task \ {t} : call'[u] = call[u],
           NEW c \in Command, Pending(c)
    PROVE  CommandFits(c)'
  <1>1. c.xCallingTask \in Task \ {t}
    BY DEF PointerInv, AllAlive, Alive, Command
  <1> QED
    BY <1>1 DEF CommandsFit, CommandFits

(* Initially there is no call. *)
LEMMA InitWork == Init => WorkInv
  <1> SUFFICES ASSUME Init PROVE WorkInv
    OBVIOUS
  <1>1. CallsFit
    BY DEF Init, CallsFit, CallFits, NoCall
  <1>2. CommandsFit
    BY EmptySeq DEF Init, CommandsFit, Pending, ReadInHand, WriteInHand
  <1>3. WritesInOrder
    BY EmptySeq DEF Init, WritesInOrder
  <1> QED
    BY <1>1, <1>2, <1>3 DEF WorkInv

(* What the checks of the three calls leave, if the callers keep to        *)
(* CallersFit: the sum that qspiReadFlash compares has not wrapped, and a  *)
(* write that qspiWriteFlash lets through ends inside the flash.           *)
LEMMA EnterInside ==
    ASSUME CallersFit, NEW t \in Task, CallDriver(t)
    PROVE  /\ pc[t] = "idle"
           /\ \/ \E result \in Result : Return(t, result)
              \/ \E op \in Op, a, n \in Nat : \E memory :
                    /\ Enter(t, op, a, n, memory)
                    /\ op = "READ" => n > 0 /\ a + n <= QSPI_FLASH_SIZE
                    /\ op = "WRITE" => a % PAGE = 0 /\ a + n <= QSPI_FLASH_SIZE
  <1>1. PICK addr \in Address :
          \/ \E n \in ReadLength, null \in BOOLEAN : qspiReadFlash(t, addr, n, null)
          \/ \E n \in WriteLength, d \in Data : qspiWriteFlash(t, addr, n, d)
          \/ \E code \in EraseCode : qspiEraseSector(t, addr, code)
    BY DEF CallDriver
  <1> DEFINE a == FlashAddress(addr)
             Goal == \/ \E result \in Result : Return(t, result)
                     \/ \E op \in Op, b, n \in Nat : \E memory :
                          /\ Enter(t, op, b, n, memory)
                          /\ op = "READ" => n > 0 /\ b + n <= QSPI_FLASH_SIZE
                          /\ op = "WRITE" => b % PAGE = 0 /\ b + n <= QSPI_FLASH_SIZE
  <1>2. a \in Nat /\ Op = {"READ", "WRITE", "ERASE"}
    BY InputAssumption, FlashAddressType DEF Op
  <1>3. pc[t] = "idle"
    BY <1>1 DEF qspiReadFlash, qspiWriteFlash, qspiEraseSector
  <1>4. ASSUME NEW n \in ReadLength, NEW null \in BOOLEAN,
               qspiReadFlash(t, addr, n, null)
        PROVE  Goal
    <2>1. n \in Nat /\ {"ERR_BAD_PARAMS", "ERR_NULL_PTR", "ERR_NONE"} \subseteq Result
      BY InputAssumption DEF Result
    <2>2. (a + n) % WORD = a + n
      <3>1. a + n \in Nat /\ a + n < WORD
        BY <1>2, <2>1 DEF CallersFit
      <3> HIDE DEF a
      <3> QED
        BY <3>1, SizeAssumption
    <2>3. \/ \E result \in Result : Return(t, result)
          \/ \E memory : /\ Enter(t, "READ", a, n, memory)
                         /\ n > 0 /\ ~((a + n) % WORD > QSPI_FLASH_SIZE)
      BY <1>4, <2>1 DEF qspiReadFlash
    <2>4. n > 0 /\ ~((a + n) % WORD > QSPI_FLASH_SIZE) => a + n <= QSPI_FLASH_SIZE
      <3> HIDE DEF a
      <3> QED
        BY <1>2, <2>1, <2>2, SizeAssumption
    <2> HIDE DEF a
    <2> QED
      BY <1>2, <2>1, <2>3, <2>4
  <1>5. ASSUME NEW n \in WriteLength, NEW d \in Data, qspiWriteFlash(t, addr, n, d)
        PROVE  Goal
    <2>1. n \in Nat /\ {"ERR_READONLY", "ERR_PAGE_ADDR"} \subseteq Result
      BY InputAssumption DEF Result
    <2>2. \/ \E result \in Result : Return(t, result)
          \/ \E memory : /\ Enter(t, "WRITE", a, n, memory)
                         /\ a <= QSPI_FLASH_READONLY /\ PageAligned(a)
      BY <1>5, <2>1 DEF qspiWriteFlash
    <2>3. a <= QSPI_FLASH_READONLY /\ PageAligned(a)
             => a % PAGE = 0 /\ a + n <= QSPI_FLASH_SIZE
      BY DEF CallersFit, PageAligned
    <2> HIDE DEF a
    <2> QED
      BY <1>2, <2>1, <2>2, <2>3
  <1>6. ASSUME NEW code \in EraseCode, qspiEraseSector(t, addr, code)
        PROVE  Goal
    <2>1. code \in Nat /\ "ERR_READONLY" \in Result
      BY InputAssumption DEF Result
    <2> QED
      BY <1>2, <1>6, <2>1 DEF qspiEraseSector
  <1> QED
    BY <1>1, <1>3, <1>4, <1>5, <1>6

(* A refused call changes a result nobody waits for; a call that passes its *)
(* checks opens inside the flash.                                          *)
LEMMA CallKeepsWork ==
    ASSUME CallersFit, ServiceInv, NEW t \in Task, CallDriver(t)
    PROVE  WorkInv'
  <1>1. /\ CallsFit /\ CommandsFit /\ WritesInOrder /\ PointerInv /\ OnceInv
        /\ ControlTypeOK
    BY DEF ServiceInv, WorkInv, PointerInv, OnceInv, ControlInv
  <1>2. pc[t] = "idle" /\ call[t] = NoCall
    BY <1>1, EnterInside DEF CallsFit, CallFits
  <1>3. CASE \E result \in Result : Return(t, result)
    <2>1. PICK result \in Result : Return(t, result)
      BY <1>3
    <2>2. UNCHANGED <<pc, call, notified, xQueueCmd, driverVars>>
      BY <2>1 DEF Return
    <2>3. \A c \in Command : Pending(c)' => Pending(c)
      BY <2>2 DEF Pending, ReadInHand, WriteInHand, driverVars
    <2>4. ASSUME NEW u \in Task PROVE CallFits(u)'
      <3>1. CASE u = t
        BY <1>2, <2>2, <3>1 DEF CallFits, NoCall
      <3>2. CASE u # t
        <4>1. ret'[u] = ret[u]
          BY <1>1, <2>1, <3>2 DEF Return, ControlTypeOK
        <4>2. Answered(u) => Answered(u)'
          BY <2>2 DEF Answered, Reading, Writing, ReadInHand, WriteInHand, driverVars
        <4> QED
          BY <1>1, <2>2, <4>1, <4>2, CallStaysFit DEF CallsFit
      <3> QED
        BY <3>1, <3>2
    <2> QED
      BY <1>1, <2>2, <2>3, <2>4, CommandsStayFit
         DEF WorkInv, CallsFit, WritesInOrder, driverVars
  <1>4. CASE \E op \in Op, a, n \in Nat : \E memory :
                /\ Enter(t, op, a, n, memory)
                /\ op = "READ" => n > 0 /\ a + n <= QSPI_FLASH_SIZE
                /\ op = "WRITE" => a % PAGE = 0 /\ a + n <= QSPI_FLASH_SIZE
    <2>0. PICK op \in Op, a \in Nat, n \in Nat : \E memory :
             /\ Enter(t, op, a, n, memory)
             /\ op = "READ" => n > 0 /\ a + n <= QSPI_FLASH_SIZE
             /\ op = "WRITE" => a % PAGE = 0 /\ a + n <= QSPI_FLASH_SIZE
      BY <1>4
    <2>1. PICK memory :
             /\ Enter(t, op, a, n, memory)
             /\ op = "READ" => n > 0 /\ a + n <= QSPI_FLASH_SIZE
             /\ op = "WRITE" => a % PAGE = 0 /\ a + n <= QSPI_FLASH_SIZE
      BY <2>0
    <2>2. /\ UNCHANGED <<notified, xQueueCmd, driverVars>>
          /\ pc'[t] = "send" /\ ret'[t] = "ERR_NONE"
          /\ call'[t] = [op |-> op, flashAddress |-> a, data |-> 0, length |-> n]
          /\ \A u \in Task \ {t} : /\ pc'[u] = pc[u] /\ call'[u] = call[u]
                                   /\ ret'[u] = ret[u]
      BY <1>1, <2>1 DEF Enter, ControlTypeOK
    <2>3. \A c \in Command : Pending(c)' => Pending(c)
      BY <2>2 DEF Pending, ReadInHand, WriteInHand, driverVars
    <2>4. CommandsFit'
      BY <1>1, <1>2, <2>2, <2>3, OthersStayFit DEF CommandsFit
    <2>5. ASSUME NEW u \in Task PROVE CallFits(u)'
      <3>1. CASE u = t
        BY <2>1, <2>2, <3>1 DEF CallFits
      <3>2. CASE u # t
        <4>1. Answered(u) => Answered(u)'
          BY <2>2 DEF Answered, Reading, Writing, ReadInHand, WriteInHand, driverVars
        <4> QED
          BY <1>1, <2>2, <3>2, <4>1, CallStaysFit DEF CallsFit
      <3> QED
        BY <3>1, <3>2
    <2> QED
      BY <1>1, <2>2, <2>4, <2>5 DEF WorkInv, CallsFit, WritesInOrder, driverVars
  <1> QED
    BY <1>3, <1>4, EnterInside

(* The command that is sent asks for what its call has left. *)
LEMMA SendKeepsWork ==
    ASSUME ServiceInv, NEW t \in Task, SendCommand(t)
    PROVE  WorkInv'
  <1> DEFINE sent == CommandOf(t)
  <1>1. /\ CallsFit /\ CommandsFit /\ WritesInOrder /\ FramesHold /\ ControlTypeOK
        /\ CallsOpen
    BY DEF ServiceInv, WorkInv, PointerInv, OnceInv, ControlInv, MemoryInv
  <1>2. /\ pc[t] = "send" /\ pc' = [pc EXCEPT ![t] = "wait"]
        /\ xQueueCmd' = Send(xQueueCmd, sent)
        /\ UNCHANGED <<call, ret, notified, driverVars>>
    BY DEF SendCommand
  <1>3. call[t] \in Call /\ call[t].op \in Op /\ xQueueCmd \in Seq(Command)
    BY <1>1, <1>2 DEF CallsOpen, ControlTypeOK
  <1>4. /\ sent \in Command /\ sent.xCallingTask = t /\ sent.command = call[t].op
        /\ sent.flashAddress = call[t].flashAddress /\ sent.data = call[t].data
        /\ sent.length = IF call[t].op = "READ" THEN ReadChunk(call[t].length)
                                                ELSE call[t].length
    BY <1>3, CommandOfType DEF CommandOf
  <1>5. sent.command = "WRITE" => sent.data = 0
    BY <1>1, <1>4 DEF FramesHold
  <1> HIDE DEF sent
  <1>6. \A i \in 1 .. Len(xQueueCmd') :
           xQueueCmd'[i] = sent \/ \E j \in 1 .. Len(xQueueCmd) : xQueueCmd[j] = xQueueCmd'[i]
    BY <1>2, <1>3, <1>4, SendElements
  <1>7. CommandsFit'
    <2> SUFFICES ASSUME NEW c \in Command, Pending(c)' PROVE CommandFits(c)'
      BY DEF CommandsFit
    <2>1. Pending(c) \/ c = sent
      BY <1>2, <1>6 DEF Pending, ReadInHand, WriteInHand, driverVars
    <2>2. CASE Pending(c)
      BY <1>1, <1>2, <2>2 DEF CommandsFit, CommandFits
    <2>3. CASE c = sent
      <3>1. 0 % PAGE = 0
        BY SizeAssumption
      <3>2. call[t].length \in Nat
        BY <1>3 DEF Call
      <3> QED
        BY <1>2, <1>4, <1>5, <2>3, <3>1, <3>2 DEF CommandFits
    <2> QED
      BY <2>1, <2>2, <2>3
  <1>8. WritesInOrder'
    BY <1>1, <1>2, <1>5, <1>6 DEF WritesInOrder, driverVars
  <1>9. ASSUME NEW u \in Task PROVE CallFits(u)'
    <2>1. pc'[u] = "idle" => pc[u] = "idle"
      BY <1>1, <1>2 DEF ControlTypeOK
    <2>2. Answered(u) => Answered(u)'
      BY <1>2 DEF Answered, Reading, Writing, ReadInHand, WriteInHand, driverVars
    <2> QED
      BY <1>1, <1>2, <2>1, <2>2, CallStaysFit DEF CallsFit
  <1> QED
    BY <1>7, <1>8, <1>9 DEF WorkInv, CallsFit

(* The next chunk of a read is what the last one left of it; a call that   *)
(* returns leaves nothing.                                                 *)
LEMMA TakeKeepsWork ==
    ASSUME ServiceInv, NEW t \in Task, TakeNotification(t)
    PROVE  WorkInv'
  <1> DEFINE n == ReadChunk(call[t].length)
  <1>1. /\ CallsFit /\ CommandsFit /\ WritesInOrder /\ PointerInv /\ ControlTypeOK
    BY DEF ServiceInv, WorkInv, PointerInv, OnceInv, ControlInv
  <1>2. /\ pc[t] = "wait" /\ notified[t] > 0
        /\ UNCHANGED <<ret, xQueueCmd, driverVars>>
        /\ \A u \in Task \ {t} : /\ pc'[u] = pc[u] /\ call'[u] = call[u]
                                 /\ notified'[u] = notified[u]
    BY <1>1 DEF TakeNotification, Woken, ControlTypeOK
  <1>3. \A c \in Command : Pending(c)' => Pending(c)
    BY <1>2 DEF Pending, ReadInHand, WriteInHand, driverVars
  <1>4. CommandsFit'
    BY <1>1, <1>2, <1>3, OthersStayFit DEF CommandsFit
  <1>5. ASSUME NEW u \in Task PROVE CallFits(u)'
    <2>1. CASE u # t
      <3>1. Answered(u) => Answered(u)'
        BY <1>2, <2>1 DEF Answered, Reading, Writing, ReadInHand, WriteInHand, driverVars
      <3> QED
        BY <1>1, <1>2, <2>1, <3>1, CallStaysFit DEF CallsFit
    <2>2. CASE u = t
      <3>1. call[t] \in Call /\ n \in Nat /\ n <= call[t].length
        BY <1>1, SizeAssumption DEF ControlTypeOK, Call, ReadChunk
      <3>2. CASE call'[t] = NoCall
        BY <2>2, <3>2 DEF CallFits, NoCall
      <3>3. CASE /\ call[t].op = "READ" /\ ret[t] = "ERR_NONE" /\ call[t].length # n
                 /\ pc'[t] = "send"
                 /\ call'[t] = [call[t] EXCEPT !.flashAddress = @ + n, !.data = @ + n,
                                               !.length = @ - n]
        <4>1. /\ call[t].flashAddress \in Nat /\ call[t].length \in Nat
              /\ call[t].flashAddress + call[t].length <= QSPI_FLASH_SIZE
          BY <1>1, <3>1, <3>3 DEF CallsFit, CallFits, Call
        <4>2. /\ call'[t].op = "READ" /\ call'[t].length = call[t].length - n
              /\ call'[t].flashAddress = call[t].flashAddress + n
          BY <3>1, <3>3 DEF Call
        <4> HIDE DEF n
        <4>3. /\ call'[t].length > 0
              /\ call'[t].flashAddress + call'[t].length <= QSPI_FLASH_SIZE
          BY <3>1, <3>3, <4>1, <4>2, SizeAssumption
        <4> QED
          BY <1>2, <2>2, <3>3, <4>2, <4>3 DEF CallFits
      <3> QED
        BY <1>1, <3>2, <3>3 DEF TakeNotification, ControlTypeOK
    <2> QED
      BY <2>1, <2>2
  <1> QED
    BY <1>1, <1>2, <1>4, <1>5 DEF WorkInv, CallsFit, WritesInOrder, driverVars

(* The steps that only move a command: from the queue to a hand, or the    *)
(* driver task to its next place.                                          *)
LEMMA QuietStepsKeepWork ==
    ASSUME ServiceInv, Receive \/ Fetch \/ Peek \/ DrvInit \/ DelayExpires
    PROVE  WorkInv'
  <1>1. /\ CallsFit /\ CommandsFit /\ WritesInOrder /\ PointerInv /\ ControlTypeOK
        /\ ControlInv
    BY DEF ServiceInv, WorkInv, PointerInv, OnceInv, ControlInv
  <1>2. UNCHANGED <<pc, call, ret, notified>>
    BY DEF Receive, Fetch, Peek, DrvInit, DelayExpires, callerVars
  <1>3. CommandsFit'
    BY <1>1, <1>2, QuietStepsBringNone, CommandsStayFit
  <1>4. ASSUME NEW u \in Task PROVE CallFits(u)'
    <2>1. Answered(u) => Answered(u)'
      <3>1. dpc \notin {"give", "nestedGive", "giveWriter"}
        BY DEF Receive, Fetch, Peek, DrvInit, DelayExpires
      <3> QED
        BY <1>2, <3>1 DEF Answered
    <2> QED
      BY <1>1, <1>2, <2>1, CallStaysFit DEF CallsFit
  <1>5. WritesInOrder'
    <2>1. dpc' # "giveWriter"
      BY <1>1, QueueHead DEF Receive, Fetch, Peek, DrvInit, DelayExpires, Dispatch, Op
    <2>2. dpc' \in {"init", "retry"} => ~found'
      BY <1>1, QueueHead DEF Receive, Fetch, Peek, DrvInit, DelayExpires, Dispatch, Op
    <2>3. CASE Receive \/ Fetch
      <3>1. xQueueCmd # <<>> /\ xQueueCmd' = Tail(xQueueCmd) /\ xQueueCmd \in Seq(Command)
        BY <1>1, <2>3 DEF Receive, Fetch, ControlInv, FetchFindsRead, ControlTypeOK
      <3>2. \A i \in 1 .. Len(xQueueCmd') :
               i + 1 \in 1 .. Len(xQueueCmd) /\ xQueueCmd'[i] = xQueueCmd[i + 1]
        BY <3>1, HeadTailProperties, LenProperties
      <3> QED
        BY <1>1, <2>1, <2>2, <3>2 DEF WritesInOrder
    <2>4. CASE Peek \/ DrvInit \/ DelayExpires
      <3>1. xQueueCmd' = xQueueCmd
        BY <2>4 DEF Peek, DrvInit, DelayExpires
      <3> QED
        BY <1>1, <2>1, <2>2, <3>1 DEF WritesInOrder
    <2> QED
      BY <2>3, <2>4
  <1> QED
    BY <1>3, <1>4, <1>5 DEF WorkInv, CallsFit

(* A task that is notified has been answered already. *)
LEMMA GiveKeepsWork ==
    ASSUME ServiceInv, GiveReader \/ GiveWriter
    PROVE  WorkInv'
  <1>1. CallsFit /\ CommandsFit /\ WritesInOrder /\ ControlTypeOK /\ HandsFilled
    BY DEF ServiceInv, WorkInv, PointerInv, OnceInv, ControlInv
  <1>2. UNCHANGED <<pc, call, ret, xQueueCmd, xQueueReadCmd, xQueueWriteCmd, found>>
    BY DEF GiveReader, GiveWriter
  <1>3. \A c \in Command : Pending(c)' => Pending(c)
    BY <1>2 DEF GiveReader, GiveWriter, Pending, ReadInHand, WriteInHand
  <1>4. ASSUME NEW u \in Task PROVE CallFits(u)'
    <2>1. ASSUME NEW r \in Task, Give(r) PROVE notified[u] > 0 \/ u = r => notified'[u] > 0
      BY <1>1, <2>1 DEF Give, ControlTypeOK
    <2>2. Answered(u) => Answered(u)'
      <3>1. CASE GiveReader
        <4>1. xQueueReadCmd.xCallingTask \in Task
          BY <1>1, <3>1 DEF GiveReader, HandsFilled, ReadInHand, Command
        <4> QED
          BY <2>1, <3>1, <4>1 DEF GiveReader, Answered, Reading
      <3>2. CASE GiveWriter
        <4>1. xQueueWriteCmd.xCallingTask \in Task
          BY <1>1, <3>2 DEF GiveWriter, HandsFilled, WriteInHand, Command
        <4> QED
          BY <2>1, <3>2, <4>1 DEF GiveWriter, Answered, Writing
      <3> QED
        BY <3>1, <3>2
    <2> QED
      BY <1>1, <1>2, <2>2, CallStaysFit DEF CallsFit
  <1>5. WritesInOrder'
    BY <1>1, <1>2 DEF WritesInOrder, GiveReader, GiveWriter
  <1> QED
    BY <1>1, <1>2, <1>3, <1>4, <1>5, CommandsStayFit DEF WorkInv, CallsFit

(* A read reports ERR_NONE to a call that has met no error. *)
LEMMA ProcessReadKeepsWork == ServiceInv /\ ProcessRead => WorkInv'
  <1> SUFFICES ASSUME ServiceInv, ProcessRead PROVE WorkInv'
    OBVIOUS
  <1>1. CallsFit /\ CommandsFit /\ WritesInOrder /\ ControlTypeOK
    BY DEF ServiceInv, WorkInv, PointerInv, OnceInv, ControlInv
  <1>2. UNCHANGED <<pc, call, notified, xQueueCmd, xQueueReadCmd, xQueueWriteCmd, found>>
    BY DEF ProcessRead
  <1>3. \A c \in Command : Pending(c)' => Pending(c)
    BY <1>2 DEF ProcessRead, Pending, ReadInHand, WriteInHand
  <1>4. ASSUME NEW u \in Task PROVE CallFits(u)'
    <2>1. ret'[u] \in {ret[u], "ERR_NONE"}
      BY <1>1 DEF ProcessRead, SetRet, ControlTypeOK
    <2>2. Answered(u) => Answered(u)'
      BY <1>2 DEF ProcessRead, Answered
    <2> QED
      BY <1>1, <1>2, <2>1, <2>2, CallStaysFit DEF CallsFit
  <1>5. WritesInOrder'
    BY <1>1, <1>2 DEF WritesInOrder, ProcessRead
  <1> QED
    BY <1>1, <1>2, <1>3, <1>4, <1>5, CommandsStayFit DEF WorkInv, CallsFit

(* After a page the write is at the next page boundary or over. *)
LEMMA PageOfWrite ==
    ASSUME NEW d \in Nat, NEW n \in Nat, d % PAGE = 0
    PROVE  /\ PageOf(n) \in Nat /\ PageOf(n) <= n /\ PageOf(n) <= PAGE
           /\ n # 0 => PageOf(n) > 0
           /\ n - PageOf(n) # 0 => (d + PageOf(n)) % PAGE = 0
  <1>1. PAGE \in Nat \ {0}
    BY SizeAssumption
  <1>2. (d + PAGE) % PAGE = 0
    BY <1>1, NextBlock
  <1> QED
    BY <1>1, <1>2 DEF PageOf

(* A page of the write in hand is programmed: what is left of it starts at *)
(* the next page.                                                          *)
LEMMA ProcessWriteKeepsWork == ServiceInv /\ ProcessWrite => WorkInv'
  <1> SUFFICES ASSUME ServiceInv, ProcessWrite PROVE WorkInv'
    OBVIOUS
  <1> DEFINE cmd == xQueueWriteCmd
             n == PageOf(cmd.length)
  <1>1. /\ CallsFit /\ CommandsFit /\ WritesInOrder /\ ControlTypeOK /\ HandsFilled
    BY DEF ServiceInv, WorkInv, PointerInv, OnceInv, ControlInv
  <1>2. /\ UNCHANGED <<pc, call, notified, xQueueCmd, xQueueReadCmd, found>>
        /\ dpc = "program" /\ dpc' \in {"peek", "giveWriter"}
        /\ dpc' = "giveWriter" => cmd.length = n
    BY DEF ProcessWrite
  <1>3. /\ cmd \in Command /\ cmd.command = "WRITE" /\ Pending(cmd)
        /\ cmd.flashAddress \in Nat /\ cmd.data \in Nat /\ cmd.length \in Nat
    BY <1>1, <1>2 DEF HandsFilled, WriteInHand, Pending, Command
  <1>4. /\ cmd.data + cmd.length = call[cmd.xCallingTask].length
        /\ cmd.length # 0 => cmd.data % PAGE = 0
    BY <1>1, <1>3 DEF CommandsFit, CommandFits
  <1>5. /\ n \in Nat /\ n <= cmd.length
        /\ cmd.length - n # 0 => (cmd.data + n) % PAGE = 0
    <2>1. CASE cmd.length # 0
      <3>1. cmd.data % PAGE = 0
        BY <1>4, <2>1
      <3> QED
        BY <1>3, <3>1, PageOfWrite
    <2>2. CASE cmd.length = 0
      <3>1. n = 0
        BY <2>2, SizeAssumption DEF PageOf
      <3> QED
        BY <2>2, <3>1
    <2> QED
      BY <2>1, <2>2
  <1>6. /\ xQueueWriteCmd'.xCallingTask = cmd.xCallingTask
        /\ xQueueWriteCmd'.command = "WRITE"
        /\ xQueueWriteCmd'.data = cmd.data + n
        /\ xQueueWriteCmd'.length = cmd.length - n
    BY <1>3 DEF ProcessWrite, Command
  <1>7. CommandsFit'
    <2> SUFFICES ASSUME NEW c \in Command, Pending(c)' PROVE CommandFits(c)'
      BY DEF CommandsFit
    <2>1. Pending(c) \/ c = xQueueWriteCmd'
      BY <1>2 DEF Pending, ReadInHand, WriteInHand
    <2>2. CASE Pending(c)
      BY <1>1, <1>2, <2>2 DEF CommandsFit, CommandFits
    <2>3. CASE c = xQueueWriteCmd'
      <3>1. c.data + c.length = call[c.xCallingTask].length
        BY <1>3, <1>4, <1>5, <1>6, <2>3
      <3>2. c.length # 0 => c.data % PAGE = 0
        BY <1>5, <1>6, <2>3
      <3>3. c.command = "WRITE"
        BY <1>6, <2>3
      <3> QED
        BY <1>2, <3>1, <3>2, <3>3 DEF CommandFits
    <2> QED
      BY <2>1, <2>2, <2>3
  <1>8. WritesInOrder'
    BY <1>1, <1>2, <1>3, <1>5, <1>6 DEF WritesInOrder
  <1>9. ASSUME NEW u \in Task PROVE CallFits(u)'
    <2>1. ret'[u] \in {ret[u], "ERR_NONE"}
      BY <1>1 DEF ProcessWrite, SetRet, ControlTypeOK
    <2>2. Answered(u) => Answered(u)'
      BY <1>2 DEF Answered
    <2> QED
      BY <1>1, <1>2, <2>1, <2>2, CallStaysFit DEF CallsFit
  <1> QED
    BY <1>7, <1>8, <1>9 DEF WorkInv, CallsFit

(* An erase answers its call, whatever it reports. *)
LEMMA ProcessEraseKeepsWork == ServiceInv /\ ProcessErase => WorkInv'
  <1> SUFFICES ASSUME ServiceInv, ProcessErase PROVE WorkInv'
    OBVIOUS
  <1> DEFINE w == xQueueWriteCmd.xCallingTask
  <1>1. CallsFit /\ CommandsFit /\ WritesInOrder /\ ControlTypeOK /\ HandsFilled /\ AllAlive
    BY DEF ServiceInv, WorkInv, PointerInv, OnceInv, ControlInv
  <1>2. /\ UNCHANGED <<pc, call, notified, xQueueCmd, xQueueReadCmd, xQueueWriteCmd, found>>
        /\ dpc = "erase" /\ dpc' = "giveWriter"
    BY DEF ProcessErase
  <1>3. \A c \in Command : Pending(c)' => Pending(c)
    BY <1>2 DEF Pending, ReadInHand, WriteInHand
  <1>4. xQueueWriteCmd \in Command /\ xQueueWriteCmd.command = "ERASE" /\ call[w].op = "ERASE"
    <2>1. xQueueWriteCmd \in Command /\ xQueueWriteCmd.command = "ERASE"
      BY <1>1, <1>2 DEF HandsFilled, WriteInHand
    <2> QED
      BY <1>1, <1>2, <2>1 DEF AllAlive, Alive, Pending, WriteInHand
  <1>5. ASSUME NEW u \in Task PROVE CallFits(u)'
    <2>1. CASE u # w
      <3>1. ret'[u] = ret[u]
        BY <1>1, <2>1 DEF ProcessErase, SetRet, ControlTypeOK
      <3>2. Answered(u) => Answered(u)'
        BY <1>2 DEF Answered
      <3> QED
        BY <1>1, <1>2, <3>1, <3>2, CallStaysFit DEF CallsFit
    <2>2. CASE u = w
      <3>1. Answered(u)'
        BY <1>2, <2>2 DEF Answered, Writing, WriteInHand
      <3> QED
        BY <1>1, <1>2, <1>4, <2>2, <3>1 DEF CallsFit, CallFits
    <2> QED
      BY <2>1, <2>2
  <1>6. WritesInOrder'
    BY <1>1, <1>2, <1>4 DEF WritesInOrder
  <1> QED
    BY <1>1, <1>2, <1>3, <1>5, <1>6, CommandsStayFit DEF WorkInv, CallsFit

(* ServiceInv is inductive. *)
LEMMA NextService ==
    ASSUME CallersFit, ServiceInv, [Next]_vars
    PROVE  ServiceInv'
  <1>1. PointerInv'
    BY NextPointer DEF ServiceInv
  <1>2. ASSUME NEW t \in Task, Caller(t) PROVE WorkInv'
    BY <1>2, CallKeepsWork, SendKeepsWork, TakeKeepsWork DEF Caller
  <1>3. ASSUME qspiTasks PROVE WorkInv'
    BY <1>3, QuietStepsKeepWork, GiveKeepsWork, ProcessReadKeepsWork,
       ProcessWriteKeepsWork, ProcessEraseKeepsWork DEF qspiTasks
  <1>4. ASSUME UNCHANGED vars PROVE WorkInv'
    <2>1. UNCHANGED <<pc, call, ret, notified, xQueueCmd, dpc, xQueueReadCmd,
                      xQueueWriteCmd, found>>
      BY <1>4 DEF vars, callerVars, driverVars
    <2>2. CallsFit'
      BY <2>1 DEF ServiceInv, WorkInv, CallsFit, CallFits, Answered, Reading, Writing,
                  ReadInHand, WriteInHand
    <2>3. CommandsFit' /\ WritesInOrder'
      BY <2>1 DEF ServiceInv, WorkInv, CommandsFit, CommandFits, Pending, ReadInHand,
                  WriteInHand, WritesInOrder
    <2> QED
      BY <2>2, <2>3 DEF WorkInv
  <1> QED
    BY <1>1, <1>2, <1>3, <1>4 DEF Next, ServiceInv

-----------------------------------------------------------------------------
(* Part 3: the step of FlashService that each action implements. *)

(* A call that is where it was has as much left as it had. *)
LEMMA RemainingStays ==
    ASSUME NEW u \in Task, call'[u] = call[u], Answered(u)' <=> Answered(u),
           ~Answered(u) /\ call[u].op = "WRITE" =>
              /\ Writing(u)' <=> Writing(u)
              /\ Writing(u) => xQueueWriteCmd'.data = xQueueWriteCmd.data
    PROVE  Remaining(u)' = Remaining(u)
  <1>1. Extent(u)' = Extent(u)
    BY DEF Extent
  <1>2. Done(u)' = Done(u)
    BY <1>1 DEF Done
  <1> QED
    BY <1>1, <1>2 DEF Remaining

(* Requests that all stay, requests of which one changes, and one that     *)
(* changes because a piece of it has been dealt with.                      *)
LEMMA RequestStays ==
    ASSUME \A u \in Task : Remaining(u)' = Remaining(u)
    PROVE  Request' = Request
  BY DEF Request

LEMMA RequestChanges ==
    ASSUME NEW t \in Task, \A u \in Task \ {t} : Remaining(u)' = Remaining(u)
    PROVE  /\ Request[t] = Remaining(t) /\ Request'[t] = Remaining(t)'
           /\ Request' = [Request EXCEPT ![t] = Remaining(t)']
  BY DEF Request

LEMMA AdvanceRequest ==
    ASSUME NEW t \in Task, \A u \in Task \ {t} : Remaining(u)' = Remaining(u),
           NEW op, NEW next, NEW at, NEW left, NEW k,
           Remaining(t) = [op |-> op, next |-> next, at |-> at, left |-> left],
           Remaining(t)' = [op |-> op, next |-> next + k, at |-> at + k, left |-> left - k]
    PROVE  Request[t] = Remaining(t) /\ Service!Advance(t, k)
  BY RequestChanges DEF Service!Advance

(* Who does not wait has an empty or an untouched request. *)
LEMMA NotWaiting ==
    ASSUME OnceInv, NEW t \in Task, pc[t] # "wait"
    PROVE  ~Answered(t) /\ ~Writing(t) /\ Done(t) = 0
  BY AnsweredWaits DEF OnceInv, OneCommandPerCall, CommandOnce, Done

LEMMA IdleIsClosed ==
    ASSUME ServiceInv, NEW t \in Task, pc[t] = "idle"
    PROVE  Remaining(t) = Service!Closed
  <1>1. call[t] = NoCall
    BY DEF ServiceInv, WorkInv, CallsFit, CallFits
  <1>2. Done(t) = 0
    BY NotWaiting DEF ServiceInv, PointerInv
  <1> QED
    BY <1>1, <1>2 DEF Remaining, NoCall, Service!Closed

(* A step that moves nothing a caller could see. *)
LEMMA Stutter ==
    ASSUME UNCHANGED <<store, found, buffer, ret>>, UNCHANGED <<Request, Writer>>
    PROVE  UNCHANGED Service!vars
  BY DEF Service!vars

(* The initial states correspond. *)
LEMMA InitService == Init => Service!Init
  <1> SUFFICES ASSUME Init PROVE Service!Init
    OBVIOUS
  <1>1. ASSUME NEW t \in Task PROVE Remaining(t) = Service!Closed
    <2>1. Done(t) = 0
      BY DEF Init, Done, Answered, Reading, ReadInHand, Writing, NoCall
    <2> QED
      BY <2>1 DEF Init, Remaining, NoCall, Service!Closed
  <1>2. Writer = NoTask
    BY DEF Init, Writer, WriteBegun, WriteInHand
  <1> QED
    BY <1>1, <1>2 DEF Init, Request, Service!Init

(* A call: Refuse or Open. *)
LEMMA CallStep ==
    ASSUME CallersFit, ServiceInv, NEW t \in Task, CallDriver(t)
    PROVE  Service!Refuse(t) \/ Service!Open(t)
  <1>1. PointerInv /\ OnceInv /\ ControlTypeOK
    BY DEF ServiceInv, PointerInv, OnceInv, ControlInv
  <1>2. pc[t] = "idle" /\ Remaining(t) = Service!Closed
    BY EnterInside, IdleIsClosed
  <1>3. CASE \E result \in Result : Return(t, result)
    <2>1. /\ UNCHANGED <<pc, call, notified, xQueueCmd, driverVars, buffer, store>>
          /\ ret' = [ret EXCEPT ![t] = ret'[t]]
      BY <1>1, <1>3 DEF Return, ControlTypeOK
    <2>2. UNCHANGED <<Request, Writer>>
      BY <2>1 DEF Request, Remaining, Done, Answered, Extent, Reading, Writing, ReadInHand,
                  WriteInHand, Writer, WriteBegun, driverVars
    <2>3. Request[t] = Service!Closed
      BY <1>2 DEF Request
    <2> QED
      BY <2>1, <2>2, <2>3 DEF Service!Refuse, driverVars
  <1>4. CASE \E op \in Op, a, n \in Nat : \E memory : Enter(t, op, a, n, memory)
    <2>0. PICK op \in Op, a \in Nat, n \in Nat : \E memory : Enter(t, op, a, n, memory)
      BY <1>4
    <2>1. PICK memory : Enter(t, op, a, n, memory)
      BY <2>0
    <2>2. /\ UNCHANGED <<notified, xQueueCmd, driverVars, store>>
          /\ pc'[t] = "send" /\ call'[t].op = op
          /\ \A u \in Task \ {t} : call'[u] = call[u]
          /\ ret' = [ret EXCEPT ![t] = "ERR_NONE"]
          /\ buffer' = [buffer EXCEPT ![t] = memory]
      BY <1>1, <2>1 DEF Enter, ControlTypeOK
    <2>3. \A u \in Task \ {t} : Remaining(u)' = Remaining(u)
      BY <2>2 DEF Remaining, Done, Answered, Extent, Reading, Writing, ReadInHand,
                  WriteInHand, driverVars
    <2>4. /\ Request[t] = Service!Closed
          /\ Request' = [Request EXCEPT ![t] = Request'[t]]
          /\ Request'[t].op = op
      <3>1. Remaining(t)'.op = op
        BY <2>2 DEF Remaining
      <3> QED
        BY <1>2, <2>3, <3>1, RequestChanges
    <2>5. Writer' = Writer
      BY <2>2 DEF Writer, WriteBegun, WriteInHand, driverVars
    <2>6. buffer' = [buffer EXCEPT ![t] = buffer'[t]]
      BY <1>1, <2>2 DEF PointerInv, MemoryInv, MemoryTypeOK
    <2> QED
      BY <2>2, <2>4, <2>5, <2>6 DEF Service!Open, Op, driverVars
  <1> QED
    BY <1>3, <1>4, EnterInside

(* The send: a stutter. *)
LEMMA SendStep ==
    ASSUME ServiceInv, NEW t \in Task, SendCommand(t)
    PROVE  UNCHANGED Service!vars
  <1>1. UNCHANGED <<call, ret, buffer, notified, driverVars, store>>
    BY DEF SendCommand
  <1>2. UNCHANGED <<Request, Writer>>
    BY <1>1 DEF Request, Remaining, Done, Answered, Extent, Reading, Writing, ReadInHand,
                WriteInHand, Writer, WriteBegun, driverVars
  <1> QED
    BY <1>1, <1>2, Stutter DEF driverVars

(* The wake-up: the next chunk, which is where the last transfer left the  *)
(* request, or Return.                                                     *)
LEMMA TakeStep ==
    ASSUME ServiceInv, NEW t \in Task, TakeNotification(t)
    PROVE  UNCHANGED Service!vars \/ Service!Return(t)
  <1> DEFINE n == ReadChunk(call[t].length)
             next == [op |-> call[t].op, flashAddress |-> call[t].flashAddress + n,
                      data |-> call[t].data + n, length |-> call[t].length - n]
  <1>1. /\ PointerInv /\ OnceInv /\ OnceInv' /\ ControlTypeOK /\ ControlTypeOK'
        /\ CallsFit /\ CallsOpen
    <2>1. PointerInv'
      BY NextPointer DEF ServiceInv, Next, Caller
    <2> QED
      BY <2>1 DEF ServiceInv, WorkInv, PointerInv, OnceInv, ControlInv
  <1>2. /\ pc[t] = "wait" /\ notified[t] > 0 /\ pc'[t] # "wait"
        /\ UNCHANGED <<ret, xQueueCmd, driverVars, store>>
        /\ \A u \in Task \ {t} : call'[u] = call[u] /\ notified'[u] = notified[u]
    BY <1>1 DEF TakeNotification, Woken, ControlTypeOK
  <1>3. Answered(t) /\ Done(t) = Extent(t) /\ Done(t)' = 0
    <2>1. Answered(t)
      BY <1>2 DEF Answered
    <2>2. Done(t)' = 0
      BY <1>1, <1>2 DEF OnceInv, OneCommandPerCall, CommandOnce, Done, Answered
    <2> QED
      BY <2>1, <2>2 DEF Done
  <1>4. \A u \in Task \ {t} : Remaining(u)' = Remaining(u)
    BY <1>2 DEF Remaining, Done, Answered, Extent, Reading, Writing, ReadInHand,
                WriteInHand, driverVars
  <1>5. Writer' = Writer
    BY <1>2 DEF Writer, WriteBegun, WriteInHand, driverVars
  <1>6. /\ call[t] \in Call /\ call[t].op \in Op /\ n \in Nat
        /\ call[t].flashAddress \in Nat /\ call[t].data \in Nat /\ call[t].length \in Nat
    BY <1>1, <1>2, SizeAssumption DEF CallsOpen, ControlTypeOK, Call, ReadChunk
  <1>7. CASE call[t].op = "READ" /\ call'[t] = next /\ buffer' = buffer
    <2>1. Remaining(t)' = Remaining(t)
      <3>1. Extent(t) = n
        BY <1>7 DEF Extent
      <3> HIDE DEF n
      <3> QED
        BY <1>3, <1>6, <1>7, <3>1 DEF Remaining
    <2>2. Request' = Request
      BY <1>4, <2>1, RequestStays
    <2> QED
      BY <1>2, <1>5, <1>7, <2>2, Stutter DEF driverVars
  <1>8. CASE /\ call[t].op = "READ" => call[t].length = n
             /\ call' = [call EXCEPT ![t] = NoCall] /\ buffer' = [buffer EXCEPT ![t] = <<>>]
    <2>1. call'[t] = NoCall
      BY <1>1, <1>8 DEF ControlTypeOK
    <2>2. Remaining(t).op # "NONE" /\ Remaining(t).left = 0
      <3>1. Extent(t) \in Nat
        BY <1>6, SizeAssumption DEF Extent
      <3>2. call[t].op # "ERASE" => Extent(t) = call[t].length
        BY <1>6, <1>8 DEF Extent, Op
      <3> QED
        BY <1>3, <1>6, <3>1, <3>2 DEF Remaining, Op
    <2>3. Remaining(t)' = Service!Closed
      BY <1>3, <2>1 DEF Remaining, NoCall, Service!Closed
    <2>4. /\ Request[t] = Remaining(t)
          /\ Request' = [Request EXCEPT ![t] = Service!Closed]
      BY <1>4, <2>3, RequestChanges
    <2> QED
      BY <1>2, <1>5, <1>8, <2>2, <2>4 DEF Service!Return, driverVars
  <1>9. call[t].op = "READ" => ret[t] = "ERR_NONE"
    BY <1>1 DEF CallsFit, CallFits
  <1>10. call[t] = [op |-> call[t].op, flashAddress |-> call[t].flashAddress,
                    data |-> call[t].data, length |-> call[t].length]
    BY <1>6 DEF Call
  <1>11. \/ /\ call[t].op = "READ" /\ call' = [call EXCEPT ![t] = next] /\ buffer' = buffer
         \/ /\ call[t].op = "READ" => call[t].length = n
            /\ call' = [call EXCEPT ![t] = NoCall] /\ buffer' = [buffer EXCEPT ![t] = <<>>]
    BY <1>1, <1>9, <1>10 DEF TakeNotification, ControlTypeOK
  <1> QED
    BY <1>1, <1>7, <1>8, <1>11 DEF ControlTypeOK

(* The identification succeeds: Detect.  What moves a command or the       *)
(* driver task only: a stutter, because a write that is received has not   *)
(* begun.                                                                  *)
LEMMA QuietStep ==
    ASSUME ServiceInv, Receive \/ Fetch \/ Peek \/ DrvInit \/ DelayExpires
    PROVE  UNCHANGED Service!vars \/ Service!Detect
  <1>1. /\ OnceInv /\ ControlTypeOK /\ ControlInv /\ WritesInOrder /\ HandsFilled
        /\ FetchFindsRead
    BY DEF ServiceInv, WorkInv, PointerInv, OnceInv, ControlInv
  <1>2. UNCHANGED <<call, ret, buffer, notified, store>>
    BY DEF Receive, Fetch, Peek, DrvInit, DelayExpires, callerVars
  <1>3. \A u \in Task : Answered(u)' <=> Answered(u)
    <2>1. dpc \notin {"give", "nestedGive", "giveWriter"}
      BY DEF Receive, Fetch, Peek, DrvInit, DelayExpires
    <2>2. dpc' \notin {"give", "nestedGive", "giveWriter"}
      BY <1>1, QueueHead DEF Receive, Fetch, Peek, DrvInit, DelayExpires, Dispatch, Op
    <2> QED
      BY <1>2, <2>1, <2>2 DEF Answered
  <1>4. Request' = Request /\ Writer' = Writer
    <2>1. CASE Receive
      <3> DEFINE h == Head(xQueueCmd)
      <3>1. /\ h \in Command /\ h.command \in Op /\ dpc' = Dispatch(h.command)
            /\ xQueueWriteCmd' = IF h.command = "READ" THEN xQueueWriteCmd ELSE h
        BY <1>1, <2>1, QueueHead DEF Receive
      <3>2. h.command = "WRITE" => h.data = 0
        BY <1>1, <2>1, HeadTailProperties, LenProperties, EmptySeq
           DEF Receive, WritesInOrder, ControlTypeOK
      <3>3. ~WriteInHand
        BY <2>1 DEF Receive, WriteInHand
      <3>4. WriteInHand' => xQueueWriteCmd' = h
        BY <3>1 DEF WriteInHand, Dispatch, Op
      <3>5. call[h.xCallingTask].op = h.command
        <4>1. Pending(h)
          BY <1>1, <2>1, HeadTailProperties, LenProperties, EmptySeq
             DEF Receive, Pending, ControlTypeOK
        <4> QED
          BY <3>1, <4>1 DEF ServiceInv, PointerInv, AllAlive, Alive
      <3> HIDE DEF h
      <3>6. Writer' = Writer
        BY <3>2, <3>3, <3>4 DEF Writer, WriteBegun
      <3>7. ASSUME NEW u \in Task PROVE Remaining(u)' = Remaining(u)
        <4>1. Extent(u)' = Extent(u)
          BY <1>2 DEF Extent
        <4>2. call[u].op = "WRITE" /\ Writing(u)' => xQueueWriteCmd'.data = 0
          BY <3>2, <3>4, <3>5 DEF Writing
        <4>3. ~Writing(u)
          BY <3>3 DEF Writing
        <4>4. Done(u)' = Done(u)
          BY <1>2, <1>3, <4>1, <4>2, <4>3 DEF Done
        <4> QED
          BY <1>2, <4>1, <4>4 DEF Remaining
      <3> QED
        BY <3>6, <3>7, RequestStays
    <2>2. CASE Fetch \/ Peek \/ DrvInit \/ DelayExpires
      <3>1. WriteInHand' = WriteInHand /\ xQueueWriteCmd' = xQueueWriteCmd
        BY <2>2 DEF Fetch, Peek, DrvInit, DelayExpires, WriteInHand
      <3>2. Writer' = Writer
        BY <3>1 DEF Writer, WriteBegun
      <3>3. \A u \in Task : Remaining(u)' = Remaining(u)
        BY <1>2, <1>3, <3>1, RemainingStays DEF Writing
      <3> QED
        BY <3>2, <3>3, RequestStays
    <2> QED
      BY <2>1, <2>2
  <1>5. found' = found \/ (~found /\ found' = TRUE)
    BY <1>1 DEF Receive, Fetch, Peek, DrvInit, DelayExpires, WritesInOrder, ControlTypeOK
  <1> QED
    BY <1>2, <1>4, <1>5, Stutter DEF Service!Detect

(* The notification: a stutter, because the transfer has been made.        *)
LEMMA GiveStep ==
    ASSUME ServiceInv, GiveReader \/ GiveWriter
    PROVE  UNCHANGED Service!vars
  <1>1. OnceInv /\ ControlTypeOK /\ HandsFilled /\ WritesInOrder
    BY DEF ServiceInv, WorkInv, PointerInv, OnceInv, ControlInv
  <1>2. UNCHANGED <<call, ret, buffer, store, found, xQueueReadCmd, xQueueWriteCmd>>
    BY DEF GiveReader, GiveWriter
  <1>3. CASE GiveReader
    <2>1. /\ ReadInHand /\ ~ReadInHand' /\ WriteInHand' = WriteInHand
          /\ dpc \in {"give", "nestedGive"} /\ dpc' \in {"receive", "program"}
          /\ Give(xQueueReadCmd.xCallingTask) /\ xQueueReadCmd.xCallingTask \in Task
      BY <1>1, <1>3 DEF GiveReader, ReadInHand, WriteInHand, HandsFilled, Command
    <2>2. ASSUME NEW u \in Task PROVE Answered(u)' <=> Answered(u)
      <3>1. u = xQueueReadCmd.xCallingTask => notified'[u] > 0
        BY <1>1, <2>1 DEF Give, ControlTypeOK
      <3>2. u # xQueueReadCmd.xCallingTask => notified'[u] = notified[u]
        BY <1>1, <2>1 DEF Give, ControlTypeOK
      <3> QED
        BY <2>1, <3>1, <3>2 DEF Answered, Reading
    <2>3. \A u \in Task : Remaining(u)' = Remaining(u)
      BY <1>2, <2>1, <2>2, RemainingStays DEF Writing
    <2>4. Writer' = Writer
      BY <1>2, <2>1 DEF Writer, WriteBegun
    <2> QED
      BY <1>2, <2>3, <2>4, RequestStays, Stutter
  <1>4. CASE GiveWriter
    <2>1. /\ WriteInHand /\ ~WriteInHand' /\ ~ReadInHand /\ ~ReadInHand'
          /\ dpc = "giveWriter" /\ dpc' = "receive"
          /\ Give(xQueueWriteCmd.xCallingTask) /\ xQueueWriteCmd.xCallingTask \in Task
      BY <1>1, <1>4 DEF GiveWriter, ReadInHand, WriteInHand, HandsFilled, Command
    <2>2. ASSUME NEW u \in Task PROVE Answered(u)' <=> Answered(u)
      <3>1. u = xQueueWriteCmd.xCallingTask => notified'[u] > 0
        BY <1>1, <2>1 DEF Give, ControlTypeOK
      <3>2. u # xQueueWriteCmd.xCallingTask => notified'[u] = notified[u]
        BY <1>1, <2>1 DEF Give, ControlTypeOK
      <3> QED
        BY <2>1, <3>1, <3>2 DEF Answered, Writing
    <2>3. ASSUME NEW u \in Task, ~Answered(u) PROVE ~Writing(u) /\ ~Writing(u)'
      BY <2>1, <2>3 DEF Answered, Writing
    <2>4. \A u \in Task : Remaining(u)' = Remaining(u)
      BY <1>2, <2>2, <2>3, RemainingStays
    <2>5. Writer = NoTask /\ Writer' = NoTask
      BY <1>1, <2>1 DEF Writer, WriteBegun, WritesInOrder
    <2> QED
      BY <1>2, <2>4, <2>5, RequestStays, Stutter
  <1> QED
    BY <1>3, <1>4

(* A read command in hand that is not answered: its call has the chunk and *)
(* more to go, from the place where the command reads.                     *)
LEMMA ReadToDo ==
    ASSUME ServiceInv, dpc \in {"read", "nestedRead"}
    PROVE  LET cmd == xQueueReadCmd
               r == cmd.xCallingTask
           IN  /\ cmd \in Command /\ r \in Task /\ Reading(r) /\ ~Writing(r)
               /\ ~Answered(r) /\ call[r] \in Call /\ call[r].op = "READ"
               /\ cmd.flashAddress = call[r].flashAddress /\ cmd.data = call[r].data
               /\ cmd.length = Extent(r) /\ cmd.length \in 1 .. call[r].length
               /\ cmd.flashAddress + call[r].length <= QSPI_FLASH_SIZE
               /\ ret[r] = "ERR_NONE"
               /\ Remaining(r) = [op |-> "READ", next |-> cmd.flashAddress,
                                  at |-> cmd.data, left |-> call[r].length]
  <1> DEFINE cmd == xQueueReadCmd
             r == cmd.xCallingTask
  <1>1. /\ OnceInv /\ ControlTypeOK /\ HandsFilled /\ AllAlive /\ CallsFit /\ CommandsFit
    BY DEF ServiceInv, WorkInv, PointerInv, OnceInv, ControlInv
  <1>2. cmd \in Command /\ cmd.command = "READ" /\ r \in Task /\ Pending(cmd) /\ Reading(r)
    BY <1>1 DEF HandsFilled, ReadInHand, Pending, Command, Reading
  <1>3. /\ notified[r] = 0 /\ call[r].op = "READ" /\ call[r] \in Call
        /\ cmd.flashAddress = call[r].flashAddress /\ cmd.data = call[r].data
        /\ cmd.length = ReadChunk(call[r].length)
    BY <1>1, <1>2 DEF AllAlive, Alive, CommandsFit, CommandFits, ControlTypeOK
  <1>4. /\ call[r].length > 0 /\ ret[r] = "ERR_NONE"
        /\ call[r].flashAddress + call[r].length <= QSPI_FLASH_SIZE
    BY <1>1, <1>2, <1>3 DEF CallsFit, CallFits
  <1>5. ~Answered(r) /\ ~Writing(r)
    BY <1>1, <1>2, <1>3 DEF Answered, OnceInv, OneCommandPerCall, CommandOnce
  <1>6. cmd.length = Extent(r) /\ cmd.length \in 1 .. call[r].length
    BY <1>3, <1>4, SizeAssumption DEF Extent, ReadChunk, Call
  <1>7. Done(r) = 0
    BY <1>5 DEF Done
  <1>8. Remaining(r) = [op |-> "READ", next |-> cmd.flashAddress,
                        at |-> cmd.data, left |-> call[r].length]
    BY <1>3, <1>7 DEF Remaining, Call
  <1> QED
    BY <1>2, <1>3, <1>4, <1>5, <1>6, <1>8

(* processRead: the next cells of the request go to their place.           *)
LEMMA ReadStep ==
    ASSUME ServiceInv, ProcessRead
    PROVE  \E t \in Task : Service!ReadSome(t)
  <1> PICK cmd \in Command : cmd = xQueueReadCmd
    BY ReadToDo DEF ProcessRead
  <1> DEFINE r == cmd.xCallingTask
             n == cmd.length
  <1>1. OnceInv /\ ControlTypeOK /\ MemoryTypeOK
    BY DEF ServiceInv, PointerInv, OnceInv, ControlInv, MemoryInv
  <1>2. /\ dpc \in {"read", "nestedRead"} /\ dpc' \in {"give", "nestedGive"}
        /\ UNCHANGED <<call, notified, xQueueReadCmd, xQueueWriteCmd, found, store>>
        /\ ret' = [ret EXCEPT ![r] = "ERR_NONE"]
        /\ WriteInHand' = WriteInHand /\ ReadInHand /\ ReadInHand'
    BY DEF ProcessRead, SetRet, ReadInHand, WriteInHand
  <1>3. /\ cmd \in Command /\ r \in Task /\ ~Answered(r) /\ ~Writing(r)
        /\ call[r] \in Call /\ call[r].op = "READ" /\ n = Extent(r)
        /\ n \in 1 .. call[r].length /\ ret[r] = "ERR_NONE"
        /\ cmd.flashAddress = call[r].flashAddress /\ cmd.data = call[r].data
        /\ cmd.flashAddress + call[r].length <= QSPI_FLASH_SIZE
        /\ Remaining(r) = [op |-> "READ", next |-> cmd.flashAddress,
                           at |-> cmd.data, left |-> call[r].length]
    BY <1>2, ReadToDo
  <1>4. cmd.flashAddress \in Nat /\ cmd.data \in Nat /\ n \in Nat /\ call[r].length \in Nat
    BY <1>3 DEF Command, Call
  <1>5. ASSUME NEW u \in Task \ {r} PROVE Remaining(u)' = Remaining(u)
    <2>1. Answered(u)' <=> Answered(u)
      BY <1>2 DEF Answered, Reading
    <2> QED
      BY <1>2, <2>1, RemainingStays DEF Writing
  <1>6. Remaining(r)' = [op |-> "READ", next |-> cmd.flashAddress + n,
                         at |-> cmd.data + n, left |-> call[r].length - n]
    <2>1. Answered(r)'
      BY <1>2 DEF Answered, Reading
    <2>2. Extent(r)' = n
      BY <1>2, <1>3 DEF Extent
    <2>3. Done(r)' = n
      BY <2>1, <2>2 DEF Done
    <2> QED
      BY <1>2, <1>3, <2>3 DEF Remaining
  <1>7. Request[r] = Remaining(r) /\ Service!Advance(r, n)
    <2> HIDE DEF r, n
    <2> QED
      BY <1>3, <1>5, <1>6, AdvanceRequest
  <1>8. Writer' = Writer /\ ret' = ret
    BY <1>1, <1>2, <1>3 DEF Writer, WriteBegun, ControlTypeOK
  <1>9. buffer' = [buffer EXCEPT ![r] = [i \in DOMAIN @ |->
               IF i \in cmd.data .. cmd.data + n - 1 /\ found
               THEN store[cmd.flashAddress + i - cmd.data]
               ELSE IF i \in cmd.data .. cmd.data + n - 1 THEN {} ELSE @[i]]]
    <2> DEFINE got == FlashRead(cmd.flashAddress, n)
    <2>1. buffer' = [buffer EXCEPT ![r] = [i \in DOMAIN @ |->
               IF i \in cmd.data .. cmd.data + n - 1 THEN got[i - cmd.data] ELSE @[i]]]
      BY DEF ProcessRead
    <2>2. ASSUME NEW i \in cmd.data .. cmd.data + n - 1
          PROVE  got[i - cmd.data]
                    = IF found THEN store[cmd.flashAddress + i - cmd.data] ELSE {}
      <3>1. /\ i - cmd.data \in 0 .. n - 1
            /\ cmd.flashAddress + (i - cmd.data) = cmd.flashAddress + i - cmd.data
            /\ cmd.flashAddress + n <= QSPI_FLASH_SIZE
        BY <1>3, <1>4, SizeAssumption
      <3> HIDE DEF r, n
      <3> QED
        BY <1>4, <3>1, ReadInside DEF n
    <2> HIDE DEF got, r, n
    <2> QED
      BY <2>1, <2>2
  <1> HIDE DEF r, n
  <1>10. Service!ReadSome(r)
    <2>1. /\ Request[r].op = "READ" /\ Request[r].next = cmd.flashAddress
          /\ Request[r].at = cmd.data /\ Request[r].left = call[r].length
      BY <1>3, <1>7
    <2> QED
      BY <1>2, <1>3, <1>7, <1>8, <1>9, <2>1 DEF Service!ReadSome
  <1> QED
    BY <1>3, <1>10

(* A write command in hand: its call has the rest of the data to go, from  *)
(* a page boundary on, and all of it inside the flash.                     *)
LEMMA WriteToDo ==
    ASSUME ServiceInv, dpc = "program"
    PROVE  LET cmd == xQueueWriteCmd
               w == cmd.xCallingTask
           IN  /\ cmd \in Command /\ cmd.command = "WRITE" /\ w \in Task
               /\ Writing(w) /\ ~Answered(w) /\ call[w].op = "WRITE"
               /\ notified[w] = 0 /\ ret[w] = "ERR_NONE"
               /\ call[w] \in Call /\ call[w].data = 0
               /\ cmd.flashAddress = call[w].flashAddress + cmd.data
               /\ cmd.data + cmd.length = call[w].length
               /\ cmd.flashAddress + cmd.length <= QSPI_FLASH_SIZE
               /\ cmd.length # 0 => cmd.flashAddress % PAGE = 0
               /\ Remaining(w) = [op |-> "WRITE", next |-> cmd.flashAddress,
                                  at |-> cmd.data, left |-> cmd.length]
  <1> PICK cmd : cmd = xQueueWriteCmd
    OBVIOUS
  <1> DEFINE w == cmd.xCallingTask
             k == call[w]
  <1>1. /\ OnceInv /\ ControlTypeOK /\ HandsFilled /\ AllAlive /\ FramesHold
        /\ CallsFit /\ CommandsFit
    BY DEF ServiceInv, WorkInv, PointerInv, OnceInv, ControlInv, MemoryInv
  <1>2. cmd \in Command /\ cmd.command = "WRITE" /\ w \in Task /\ Pending(cmd) /\ Writing(w)
    BY <1>1 DEF HandsFilled, WriteInHand, Pending, Command, Writing
  <1>3. /\ notified[w] = 0 /\ k.op = "WRITE" /\ k \in Call /\ k.data = 0
        /\ cmd.flashAddress - cmd.data = k.flashAddress - k.data
        /\ cmd.data + cmd.length = k.length
        /\ cmd.length # 0 => cmd.data % PAGE = 0
    BY <1>1, <1>2 DEF AllAlive, Alive, CommandsFit, CommandFits, ControlTypeOK, FramesHold
  <1>4. /\ k.flashAddress % PAGE = 0 /\ ret[w] = "ERR_NONE"
        /\ k.flashAddress + k.length <= QSPI_FLASH_SIZE
    BY <1>1, <1>2, <1>3 DEF CallsFit, CallFits
  <1>5. ~Answered(w)
    BY <1>1, <1>2, <1>3 DEF Answered, OnceInv, OneCommandPerCall, CommandOnce
  <1>6. /\ cmd.flashAddress \in Nat /\ cmd.data \in Nat /\ cmd.length \in Nat
        /\ k.flashAddress \in Nat /\ k.length \in Nat
    BY <1>2, <1>3 DEF Command, Call
  <1> HIDE DEF k
  <1>7. /\ cmd.flashAddress = k.flashAddress + cmd.data
        /\ cmd.flashAddress + cmd.length <= QSPI_FLASH_SIZE
        /\ k.length - cmd.data = cmd.length
    BY <1>3, <1>4, <1>6, SizeAssumption
  <1>8. cmd.length # 0 => cmd.flashAddress % PAGE = 0
    <2>1. ASSUME cmd.data % PAGE = 0
          PROVE  (k.flashAddress + cmd.data) % PAGE = 0
      BY <1>4, <1>6, <2>1, SumOfMultiples, SizeAssumption
    <2> QED
      BY <1>3, <1>7, <2>1
  <1>9. Done(w) = cmd.data
    BY <1>2, <1>3, <1>5 DEF Done, k
  <1>10. Remaining(w) = [op |-> "WRITE", next |-> cmd.flashAddress,
                         at |-> cmd.data, left |-> cmd.length]
    <2>1. 0 + cmd.data = cmd.data
      BY <1>6
    <2> QED
      BY <1>3, <1>7, <1>9, <2>1 DEF Remaining, k
  <1> QED
    BY <1>2, <1>3, <1>4, <1>5, <1>7, <1>8, <1>10 DEF k

(* processWrite: the next page of the request is programmed; only a write  *)
(* of length 0 has no page, and its step is a stutter.                     *)
LEMMA WriteStep ==
    ASSUME ServiceInv, ProcessWrite
    PROVE  UNCHANGED Service!vars \/ \E t \in Task : Service!WriteSome(t)
  <1> PICK cmd \in Command : cmd = xQueueWriteCmd
    BY WriteToDo DEF ProcessWrite
  <1> DEFINE w == cmd.xCallingTask
             n == PageOf(cmd.length)
             bytes == [i \in 0 .. n - 1 |-> buffer[w][cmd.data + i]]
  <1>1. OnceInv /\ ControlTypeOK /\ MemoryTypeOK
    BY DEF ServiceInv, PointerInv, OnceInv, ControlInv, MemoryInv
  <1>2. /\ dpc = "program"
        /\ dpc' = IF cmd.length # n THEN "peek" ELSE "giveWriter"
        /\ UNCHANGED <<call, notified, buffer, found>>
        /\ ret' = [ret EXCEPT ![w] = "ERR_NONE"]
        /\ FlashProgram(cmd.flashAddress, n, bytes)
        /\ WriteInHand /\ WriteInHand'
    BY DEF ProcessWrite, SetRet, WriteInHand
  <1>3. /\ xQueueWriteCmd'.xCallingTask = w /\ xQueueWriteCmd'.command = cmd.command
        /\ xQueueWriteCmd'.data = cmd.data + n
        /\ xQueueWriteCmd'.length = cmd.length - n
    BY DEF ProcessWrite, Command
  <1>4. /\ cmd.command = "WRITE" /\ w \in Task /\ Writing(w) /\ ~Answered(w)
        /\ call[w] \in Call /\ call[w].op = "WRITE" /\ call[w].data = 0
        /\ notified[w] = 0 /\ ret[w] = "ERR_NONE"
        /\ cmd.flashAddress = call[w].flashAddress + cmd.data
        /\ cmd.data + cmd.length = call[w].length
        /\ cmd.flashAddress + cmd.length <= QSPI_FLASH_SIZE
        /\ cmd.length # 0 => cmd.flashAddress % PAGE = 0
        /\ Remaining(w) = [op |-> "WRITE", next |-> cmd.flashAddress,
                           at |-> cmd.data, left |-> cmd.length]
    BY <1>2, WriteToDo
  <1>5. /\ cmd.flashAddress \in Nat /\ cmd.data \in Nat /\ cmd.length \in Nat
        /\ call[w].flashAddress \in Nat /\ call[w].length \in Nat
        /\ n \in Nat /\ n <= cmd.length /\ n <= PAGE /\ (cmd.length # 0 => n > 0)
    BY <1>4, SizeAssumption DEF Command, Call, PageOf
  <1>6. ASSUME NEW u \in Task \ {w} PROVE Remaining(u)' = Remaining(u)
    <2>1. ~Writing(u) /\ ~Writing(u)'
      BY <1>3 DEF Writing
    <2>2. Answered(u)' <=> Answered(u)
      BY <1>2, <2>1 DEF Answered
    <2> QED
      BY <1>2, <2>1, <2>2, RemainingStays
  <1>7. Remaining(w)' = [op |-> "WRITE", next |-> cmd.flashAddress + n,
                         at |-> cmd.data + n, left |-> cmd.length - n]
    <2>1. Writing(w)'
      BY <1>2, <1>3 DEF Writing
    <2>2. Done(w)' = cmd.data + n
      <3>1. CASE cmd.length # n
        <4>1. ~Answered(w)'
          BY <1>2, <1>4, <3>1 DEF Answered
        <4> QED
          BY <1>2, <1>3, <1>4, <2>1, <4>1 DEF Done
      <3>2. CASE cmd.length = n
        <4>1. Answered(w)'
          BY <1>2, <2>1, <3>2 DEF Answered
        <4>2. Extent(w)' = call[w].length
          BY <1>2, <1>4 DEF Extent
        <4> QED
          BY <1>4, <3>2, <4>1, <4>2 DEF Done
      <3> QED
        BY <3>1, <3>2
    <2> HIDE DEF n, w
    <2>3. /\ call[w].flashAddress + (cmd.data + n) = cmd.flashAddress + n
          /\ 0 + (cmd.data + n) = cmd.data + n
          /\ call[w].length - (cmd.data + n) = cmd.length - n
      BY <1>4, <1>5
    <2> QED
      BY <1>2, <1>4, <2>2, <2>3 DEF Remaining, w
  <1>8. Request[w] = Remaining(w) /\ Service!Advance(w, n)
    <2> HIDE DEF w, n
    <2> QED
      BY <1>4, <1>6, <1>7, AdvanceRequest
  <1>9. ret' = ret
    BY <1>1, <1>2, <1>4 DEF ControlTypeOK
  <1>10. /\ Writer \in {NoTask, w}
         /\ Writer' = IF n > 0 /\ n < cmd.length THEN w ELSE Writer'
         /\ n = cmd.length => Writer' = NoTask
    <2>1. Writer = IF cmd.data > 0 /\ cmd.length > 0 THEN w ELSE NoTask
      BY <1>2, <1>4 DEF Writer, WriteBegun
    <2>2. Writer' = IF cmd.data + n > 0 /\ cmd.length - n > 0 THEN w ELSE NoTask
      BY <1>2, <1>3, <1>4 DEF Writer, WriteBegun
    <2> HIDE DEF w, n
    <2> QED
      BY <1>5, <2>1, <2>2
  <1>11. CASE cmd.length # 0
    <2>1. store' = [c \in Cell |->
             IF found /\ c \in cmd.flashAddress .. cmd.flashAddress + n - 1
             THEN store[c] \cup buffer[w][cmd.data + c - cmd.flashAddress] ELSE store[c]]
      <3>1. store' = [c \in Cell |->
               IF found /\ c \in cmd.flashAddress .. cmd.flashAddress + n - 1
               THEN store[c] \cup bytes[c - cmd.flashAddress] ELSE store[c]]
        <4>1. cmd.flashAddress % PAGE = 0 /\ cmd.flashAddress + n <= QSPI_FLASH_SIZE
          BY <1>4, <1>5, <1>11, SizeAssumption
        <4> HIDE DEF n, bytes
        <4> QED
          BY <1>2, <1>5, <4>1, ProgramInside
      <3>2. ASSUME NEW c \in cmd.flashAddress .. cmd.flashAddress + n - 1
            PROVE  bytes[c - cmd.flashAddress]
                      = buffer[w][cmd.data + c - cmd.flashAddress]
        <4>1. /\ c - cmd.flashAddress \in 0 .. n - 1
              /\ cmd.data + (c - cmd.flashAddress) = cmd.data + c - cmd.flashAddress
          BY <1>5
        <4> HIDE DEF n, w
        <4> QED
          BY <4>1
      <3> HIDE DEF bytes, n, w
      <3> QED
        BY <3>1, <3>2
    <2> HIDE DEF n, w, bytes
    <2>2. /\ n \in 1 .. cmd.length
          /\ Writer' = IF n < cmd.length THEN w ELSE NoTask
      BY <1>5, <1>10, <1>11
    <2>3. /\ Request[w].op = "WRITE" /\ Request[w].next = cmd.flashAddress
          /\ Request[w].at = cmd.data /\ Request[w].left = cmd.length
      BY <1>4, <1>8
    <2>4. Service!WriteSome(w)
      BY <1>2, <1>8, <1>9, <1>10, <2>1, <2>2, <2>3 DEF Service!WriteSome
    <2> QED
      BY <1>4, <2>4
  <1>12. CASE cmd.length = 0
    <2>1. n = 0
      BY <1>5, <1>12
    <2>2. store' = store
      <3>1. {j \in 0 .. n - 1 : TRUE} = {}
        BY <2>1
      <3>2. \A c \in Cell : {j \in 0 .. n - 1 : Programmed(cmd.flashAddress, j) = c} = {}
        BY <2>1
      <3> HIDE DEF n, bytes
      <3>3. store' = [c \in Cell |-> store[c]]
        BY <1>2, <3>2 DEF FlashProgram
      <3> QED
        BY <1>1, <3>3 DEF MemoryTypeOK
    <2>3. Remaining(w)' = Remaining(w)
      <3> HIDE DEF n, w
      <3> QED
        BY <1>4, <1>5, <1>7, <2>1
    <2>4. Request' = Request
      <3> HIDE DEF w
      <3> QED
        BY <1>6, <2>3, RequestStays
    <2>5. Writer' = NoTask /\ Writer = NoTask
      BY <1>2, <1>4, <1>10, <1>12, <2>1 DEF Writer, WriteBegun
    <2> QED
      BY <1>2, <1>9, <2>2, <2>4, <2>5, Stutter
  <1> QED
    BY <1>11, <1>12

(* processErase: the sector of the request is erased or refused. *)
LEMMA EraseStep ==
    ASSUME ServiceInv, ProcessErase
    PROVE  \E t \in Task : Service!EraseSector(t)
  <1> PICK cmd : cmd = xQueueWriteCmd
    OBVIOUS
  <1> DEFINE w == cmd.xCallingTask
             size == Extent(w)
  <1>1. /\ OnceInv /\ ControlTypeOK /\ HandsFilled /\ AllAlive /\ CallsFit /\ CommandsFit
    BY DEF ServiceInv, WorkInv, PointerInv, OnceInv, ControlInv
  <1>2. /\ dpc = "erase" /\ dpc' = "giveWriter"
        /\ UNCHANGED <<call, notified, buffer, xQueueWriteCmd, found>>
        /\ WriteInHand /\ WriteInHand'
    BY DEF ProcessErase, WriteInHand
  <1>3. /\ cmd \in Command /\ cmd.command = "ERASE" /\ w \in Task /\ Pending(cmd)
        /\ Writing(w) /\ Writing(w)'
    BY <1>1, <1>2 DEF HandsFilled, Pending, Command, Writing
  <1>4. /\ notified[w] = 0 /\ call[w].op = "ERASE" /\ call[w] \in Call
        /\ cmd.flashAddress = call[w].flashAddress /\ cmd.length = call[w].length
    BY <1>1, <1>3 DEF AllAlive, Alive, CommandsFit, CommandFits, ControlTypeOK
  <1>5. ~Answered(w) /\ ret[w] = "ERR_NONE"
    BY <1>1, <1>2, <1>3, <1>4 DEF Answered, CallsFit, CallFits
  <1>6. PICK s \in Nat \ {0} : /\ s = size
                               /\ cmd.length \in DOMAIN ERASE_SIZE => s = ERASE_SIZE[cmd.length]
    BY <1>4, SizeAssumption DEF Extent
  <1>7. cmd.flashAddress \in Nat /\ call[w].data \in Nat
    BY <1>3, <1>4 DEF Command, Call
  <1>8. Remaining(w) = [op |-> "ERASE", next |-> cmd.flashAddress,
                        at |-> call[w].data, left |-> s]
    <2>1. Done(w) = 0
      BY <1>4, <1>5 DEF Done
    <2> QED
      BY <1>4, <1>6, <1>7, <2>1 DEF Remaining
  <1>9. Remaining(w)' = [op |-> "ERASE", next |-> cmd.flashAddress + s,
                         at |-> call[w].data + s, left |-> s - s]
    <2>1. Extent(w)' = s
      BY <1>2, <1>6 DEF Extent
    <2>2. Done(w)' = s
      BY <1>2, <1>3, <2>1 DEF Done, Answered
    <2> QED
      BY <1>2, <1>4, <2>1, <2>2 DEF Remaining
  <1>10. ASSUME NEW u \in Task \ {w} PROVE Remaining(u)' = Remaining(u)
    <2>1. ~Writing(u) /\ ~Writing(u)'
      BY <1>2 DEF Writing
    <2>2. Answered(u)' <=> Answered(u)
      BY <1>2, <2>1 DEF Answered
    <2> QED
      BY <1>2, <2>1, <2>2, RemainingStays
  <1> HIDE DEF w, size
  <1>11. Request[w] = Remaining(w) /\ Service!Advance(w, s)
    BY <1>3, <1>8, <1>9, <1>10, AdvanceRequest
  <1>12. Writer = NoTask /\ Writer' = NoTask
    BY <1>2, <1>3 DEF Writer, WriteBegun
  <1>13. \/ /\ store' = [c \in Cell |->
                  IF found /\ c \in cmd.flashAddress .. cmd.flashAddress + s - 1
                  THEN {} ELSE store[c]]
            /\ ret' = ret
         \/ /\ ret' = [ret EXCEPT ![w] = ret'[w]]
            /\ ret'[w] \in {"ERR_INVALID_SIZE", "ERR_INVALID_START_ADDR"}
            /\ store' = store
    <2>1. ASSUME NEW result, ret' = [ret EXCEPT ![w] = result]
          PROVE  /\ ret'[w] = result /\ ret' = [ret EXCEPT ![w] = ret'[w]]
                 /\ result = "ERR_NONE" => ret' = ret
      BY <1>1, <1>3, <1>5, <2>1 DEF ControlTypeOK
    <2>2. CASE cmd.length \in DOMAIN ERASE_SIZE /\ cmd.flashAddress % s = 0
      <3>1. ret' = ret /\ FlashErase(cmd.flashAddress, s)
        BY <1>6, <2>1, <2>2 DEF ProcessErase, SetRet, w
      <3> QED
        BY <1>7, <2>2, <3>1, EraseInside
    <2>3. CASE ~(cmd.length \in DOMAIN ERASE_SIZE /\ cmd.flashAddress % s = 0)
      BY <1>6, <2>1, <2>3 DEF ProcessErase, SetRet, w
    <2> QED
      BY <2>2, <2>3
  <1>14. Service!EraseSector(w)
    BY <1>2, <1>8, <1>11, <1>12, <1>13 DEF Service!EraseSector
  <1> QED
    BY <1>3, <1>14

(* Every step of the driver and its callers is a step of FlashService or a *)
(* stutter.                                                                *)
LEMMA NextStep ==
    ASSUME CallersFit, ServiceInv, [Next]_vars
    PROVE  [Service!Next]_(Service!vars)
  <1>1. ASSUME NEW t \in Task, Caller(t) PROVE [Service!Next]_(Service!vars)
    BY <1>1, CallStep, SendStep, TakeStep DEF Caller, Service!Next
  <1>2. ASSUME qspiTasks PROVE [Service!Next]_(Service!vars)
    BY <1>2, QuietStep, GiveStep, ReadStep, WriteStep, EraseStep DEF qspiTasks, Service!Next
  <1>3. ASSUME UNCHANGED vars PROVE UNCHANGED Service!vars
    BY <1>3 DEF vars, callerVars, driverVars, Service!vars, Request, Remaining, Done,
                Answered, Extent, Reading, Writing, ReadInHand, WriteInHand, Writer,
                WriteBegun
  <1> QED
    BY <1>1, <1>2, <1>3 DEF Next

(* The queue, the driver task and the notifications implement FlashService *)
(* for callers that keep to CallersFit: every call that returns without an *)
(* error has had its whole effect, in order and once, no write is          *)
(* interrupted by a write or an erase, and a refused call has no effect.   *)
THEOREM DriverImplementsService ==
    ASSUME CallersFit
    PROVE  Spec => ImplementsService
  <1>1. Init => ServiceInv
    BY InitPointer, InitWork DEF ServiceInv
  <1>2. ServiceInv /\ [Next]_vars => ServiceInv'
    BY NextService
  <1>3. ServiceInv /\ [Next]_vars => [Service!Next]_(Service!vars)
    BY NextStep
  <1> QED
    BY <1>1, <1>2, <1>3, InitService, PTL DEF Spec, ImplementsService, Service!Spec
=============================================================================
