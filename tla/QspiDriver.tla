----------------------------- MODULE QspiDriver -----------------------------
(***************************************************************************)
(* The upper half of qspi/drivQSPI.c: the three calls of the driver        *)
(* (qspiReadFlash, qspiWriteFlash, qspiEraseSector), the command queue     *)
(* they send to, and the driver task qspiTasks that serves it.             *)
(*                                                                         *)
(* Reads are sent to the FRONT of the queue, writes and erases to the      *)
(* back.  A write is programmed a page at a time and between two pages the *)
(* driver task peeks at the queue and lets one read through.  The caller   *)
(* sleeps in ulTaskNotifyTake meanwhile: the command in the queue points   *)
(* into its stack frame.                                                   *)
(*                                                                         *)
(* A transfer (readFlash, writeFlashPage, eraseSector) is one step here:   *)
(* the driver task is the only one that touches the flash.  QspiTransfer   *)
(* models what such a step does to the controller, the DMA and the chip.   *)
(***************************************************************************)
EXTENDS Integers, Sequences

CONSTANTS
    Task,                 \* the tasks that call the driver
    NoTask,               \* not a task
    Data,                 \* names of the data the tasks write
    WORD,                 \* 2^32: addresses and lengths are taken modulo it
    QSPI_FLASH_OFFSET,    \* where the flash is mapped in the address space
    QSPI_FLASH_SIZE,      \* number of cells of the flash
    QSPI_FLASH_READONLY,  \* writes and erases above it are refused
    PAGE,                 \* cells programmed at once, 0x100
    CHUNK,                \* cells read at once, 0xFF00
    ERASE_SIZE,           \* sector size for each DRIV_QSPI_ERASE code
    QSPI_MAX_CMD_QUEUE,   \* capacity of the command queue
    Address,              \* the addresses callers use
    ReadLength,           \* the lengths they read
    WriteLength,          \* the lengths they write
    EraseCode             \* the sector codes they pass, valid or not

Cell == 0 .. QSPI_FLASH_SIZE - 1

ASSUME TaskAssumption == NoTask \notin Task

ASSUME SizeAssumption ==
    /\ WORD \in Nat \ {0} /\ QSPI_FLASH_SIZE \in Nat \ {0}
    /\ PAGE \in Nat \ {0} /\ CHUNK \in Nat \ {0}
    /\ QSPI_FLASH_OFFSET \in Nat \ {0} /\ QSPI_FLASH_READONLY \in Nat
    /\ QSPI_MAX_CMD_QUEUE \in Nat \ {0}
    /\ DOMAIN ERASE_SIZE \subseteq Nat
    /\ \A code \in DOMAIN ERASE_SIZE : ERASE_SIZE[code] \in Nat \ {0}

ASSUME InputAssumption ==
    /\ Address \subseteq Nat /\ ReadLength \subseteq Nat
    /\ WriteLength \subseteq Nat /\ EraseCode \subseteq Nat

(***************************************************************************)
(* What the caller's buffer and a cell hold.  The i-th byte a task writes  *)
(* is <<d, i>> for the name d of its data.  A cell is the set of the bytes *)
(* programmed since its erase; NOR programming ANDs, which is union here.  *)
(* A read buffer starts Unread.                                            *)
(***************************************************************************)
Byte == Data \X Nat
Unread == {<<NoTask, 0>>}
Content == (SUBSET Byte) \cup {Unread}

VARIABLES
    pc,            \* where each caller is: "idle", "send" or "wait"
    call,          \* the arguments and locals of its call
    ret,           \* its local ret, to which the command points
    buffer,        \* the memory its data argument points to
    notified,      \* the notification value of its task
    xQueueCmd,     \* the command queue
    dpc,           \* where the driver task is
    xQueueReadCmd, \* its two static commands
    xQueueWriteCmd,
    drivStatus,    \* what qspiDriverStatus returns
    found,         \* did the last drvInit identify the chip?
    store          \* the flash array

callerVars == <<pc, call, ret, buffer, notified>>
driverVars == <<dpc, xQueueReadCmd, xQueueWriteCmd, drivStatus, found>>
vars == <<callerVars, driverVars, xQueueCmd, store>>

(* No call is open. *)
NoCall == [op |-> "NONE", flashAddress |-> 0, data |-> 0, length |-> 0]

(* The static commands before anything was received. *)
NoCmd == [xCallingTask |-> NoTask, command |-> "NONE",
          flashAddress |-> 0, data |-> 0, length |-> 0]

Op == {"READ", "WRITE", "ERASE"}

Call == [op : Op \cup {"NONE"}, flashAddress : Nat, data : Nat, length : Nat]

Command == [xCallingTask : Task, command : Op,
            flashAddress : Nat, data : Nat, length : Nat]

Result == {"ERR_NONE", "ERR_INVALID_SIZE", "ERR_INVALID_START_ADDR",
           "ERR_BAD_PARAMS", "ERR_READONLY", "ERR_NULL_PTR", "ERR_PAGE_ADDR"}

Init ==
    /\ pc = [t \in Task |-> "idle"]
    /\ call = [t \in Task |-> NoCall]
    /\ ret = [t \in Task |-> "ERR_NONE"]
    /\ buffer = [t \in Task |-> <<>>]
    /\ notified = [t \in Task |-> 0]
    /\ xQueueCmd = <<>>
    /\ dpc = "init"
    /\ xQueueReadCmd = NoCmd
    /\ xQueueWriteCmd = NoCmd
    /\ drivStatus = "INIT"
    /\ found = FALSE
    /\ store = [c \in Cell |-> {}]

-----------------------------------------------------------------------------
(* The callers. *)

(* An address in the memory-mapped window is turned into a flash address. *)
FlashAddress(a) == IF a >= QSPI_FLASH_OFFSET THEN a - QSPI_FLASH_OFFSET ELSE a

(* A call that returns at once, without a command. *)
Return(t, result) ==
    /\ ret' = [ret EXCEPT ![t] = result]
    /\ UNCHANGED <<pc, call, buffer, notified, xQueueCmd, driverVars, store>>

(* A call that passes its checks: the locals of its frame are set up. *)
Enter(t, op, a, n, memory) ==
    /\ pc' = [pc EXCEPT ![t] = "send"]
    /\ call' = [call EXCEPT ![t] =
                   [op |-> op, flashAddress |-> a, data |-> 0, length |-> n]]
    /\ ret' = [ret EXCEPT ![t] = "ERR_NONE"]
    /\ buffer' = [buffer EXCEPT ![t] = memory]
    /\ UNCHANGED <<notified, xQueueCmd, driverVars, store>>

(* qspiReadFlash up to its loop; null says that the data argument is NULL. *)
qspiReadFlash(t, addr, n, null) ==
    LET a == FlashAddress(addr)
        outside == (a + n) % WORD > QSPI_FLASH_SIZE
    IN  /\ pc[t] = "idle"
        /\ \/ outside /\ Return(t, "ERR_BAD_PARAMS")
           \/ ~outside /\ null /\ Return(t, "ERR_NULL_PTR")
           \/ ~outside /\ ~null /\ n = 0 /\ Return(t, "ERR_NONE")
           \/ ~outside /\ ~null /\ n > 0
              /\ Enter(t, "READ", a, n, [i \in 0 .. n - 1 |-> Unread])

(* Writes start at a page.  (AnyAddress is a mutant: the check dropped.) *)
AnyAddress(a) == TRUE
PageAligned(a) == a % PAGE = 0

(* qspiWriteFlash up to the send. *)
qspiWriteFlash(t, addr, n, d) ==
    LET a == FlashAddress(addr)
    IN  /\ pc[t] = "idle"
        /\ \/ a > QSPI_FLASH_READONLY /\ Return(t, "ERR_READONLY")
           \/ /\ a <= QSPI_FLASH_READONLY /\ ~PageAligned(a)
              /\ Return(t, "ERR_PAGE_ADDR")
           \/ /\ a <= QSPI_FLASH_READONLY /\ PageAligned(a)
              /\ Enter(t, "WRITE", a, n, [i \in 0 .. n - 1 |-> {<<d, i>>}])

(* qspiEraseSector up to the send; the length of the call is a code. *)
qspiEraseSector(t, addr, code) ==
    LET a == FlashAddress(addr)
    IN  /\ pc[t] = "idle"
        /\ \/ a > QSPI_FLASH_READONLY /\ Return(t, "ERR_READONLY")
           \/ a <= QSPI_FLASH_READONLY /\ Enter(t, "ERASE", a, code, <<>>)

(* rlen: how much of a read goes into one command.  (WholeChunk is a         *)
(* mutant: always a chunk.)                                                *)
WholeChunk(n) == CHUNK
ReadChunk(n) == IF n > CHUNK THEN CHUNK ELSE n

(* The command for the call of t; of a read, its next chunk. *)
CommandOf(t) ==
    [xCallingTask |-> t, command |-> call[t].op,
     flashAddress |-> call[t].flashAddress, data |-> call[t].data,
     length |-> IF call[t].op = "READ" THEN ReadChunk(call[t].length)
                                       ELSE call[t].length]

(* xQueueSendToFront for a read, xQueueSendToBack for a write or an erase.   *)
(* (SendToFront is a mutant: every command goes to the front.)             *)
SendToFront(queue, cmd) == <<cmd>> \o queue
Send(queue, cmd) ==
    IF cmd.command = "READ" THEN <<cmd>> \o queue ELSE Append(queue, cmd)

(* The send blocks while the queue is full. *)
SendCommand(t) ==
    /\ pc[t] = "send"
    /\ Len(xQueueCmd) < QSPI_MAX_CMD_QUEUE
    /\ xQueueCmd' = Send(xQueueCmd, CommandOf(t))
    /\ pc' = [pc EXCEPT ![t] = "wait"]
    /\ UNCHANGED <<call, ret, buffer, notified, driverVars, store>>

(* ulTaskNotifyTake waits with no time limit.  (WokenOrTimedOut is a       *)
(* mutant: the wait may give up.)                                          *)
WokenOrTimedOut(t) == TRUE
Woken(t) == notified[t] > 0

(* ulTaskNotifyTake(pdTRUE) returns: the loop of a read goes on with the    *)
(* next chunk unless ret is set, every other call returns ret.             *)
TakeNotification(t) ==
    LET n == ReadChunk(call[t].length)
        more == /\ call[t].op = "READ" /\ ret[t] = "ERR_NONE"
                /\ call[t].length # n
    IN  /\ pc[t] = "wait"
        /\ Woken(t)
        /\ notified' = [notified EXCEPT ![t] = 0]
        /\ \/ /\ more
              /\ pc' = [pc EXCEPT ![t] = "send"]
              /\ call' = [call EXCEPT ![t].flashAddress = @ + n,
                                      ![t].data = @ + n,
                                      ![t].length = @ - n]
              /\ UNCHANGED buffer
           \/ /\ ~more
              /\ pc' = [pc EXCEPT ![t] = "idle"]
              /\ call' = [call EXCEPT ![t] = NoCall]
              /\ buffer' = [buffer EXCEPT ![t] = <<>>]
        /\ UNCHANGED <<ret, xQueueCmd, driverVars, store>>

-----------------------------------------------------------------------------
(* The chip, as a transfer leaves it. *)

(* What n cells from a on read as; a chip that does not answer reads 0xFF. *)
FlashRead(a, n) ==
    [i \in 0 .. n - 1 |-> IF found THEN store[(a + i) % QSPI_FLASH_SIZE] ELSE {}]

(* Page program: the column address wraps at the end of the page of a. *)
Programmed(a, i) == ((a - (a % PAGE)) + ((a + i) % PAGE)) % QSPI_FLASH_SIZE

FlashProgram(a, n, bytes) ==
    store' = [c \in Cell |->
        IF found
        THEN store[c] \cup UNION {bytes[i] : i \in {j \in 0 .. n - 1 : Programmed(a, j) = c}}
        ELSE store[c]]

(* Sector erase: the sector of the given size that holds a. *)
FlashErase(a, size) ==
    store' = [c \in Cell |-> IF found /\ c \div size = a \div size THEN {} ELSE store[c]]

-----------------------------------------------------------------------------
(* The driver task. *)

(* drvInit is tried twice; ok is whether the identification matched. *)
DrvInit ==
    /\ dpc \in {"init", "retry"}
    /\ \E ok \in BOOLEAN :
        /\ found' = ok
        /\ \/ ok /\ dpc' = "receive" /\ drivStatus' = "READY"
           \/ ~ok /\ dpc = "init" /\ dpc' = "retry" /\ UNCHANGED drivStatus
           \/ ~ok /\ dpc = "retry" /\ dpc' = "delay" /\ drivStatus' = "INIT_ERR"
    /\ UNCHANGED <<callerVars, xQueueCmd, xQueueReadCmd, xQueueWriteCmd, store>>

(* vTaskDelay(portMAX_DELAY) is a delay of 2^32-1 ticks, and it ends. *)
DelayExpires ==
    /\ dpc = "delay"
    /\ dpc' = "receive"
    /\ drivStatus' = "READY"
    /\ UNCHANGED <<callerVars, xQueueCmd, xQueueReadCmd, xQueueWriteCmd, found, store>>

(* Where the loop goes with the command it received. *)
Dispatch(command) ==
    CASE command = "READ" -> "read"
      [] command = "WRITE" -> "program"
      [] command = "ERASE" -> "erase"

(* xQueueReceive at the top of the loop, and the memcpy of a write or erase. *)
Receive ==
    /\ dpc = "receive"
    /\ xQueueCmd # <<>>
    /\ xQueueReadCmd' = Head(xQueueCmd)
    /\ xQueueCmd' = Tail(xQueueCmd)
    /\ xQueueWriteCmd' = IF Head(xQueueCmd).command = "READ"
                         THEN xQueueWriteCmd ELSE Head(xQueueCmd)
    /\ dpc' = Dispatch(Head(xQueueCmd).command)
    /\ UNCHANGED <<callerVars, drivStatus, found, store>>

(* *cmd->ret = result *)
SetRet(cmd, result) == ret' = [ret EXCEPT ![cmd.xCallingTask] = result]

(* processRead, from the loop or between two pages of a write. *)
ProcessRead ==
    LET cmd == xQueueReadCmd
        got == FlashRead(cmd.flashAddress, cmd.length)
    IN  /\ dpc \in {"read", "nestedRead"}
        /\ buffer' = [buffer EXCEPT ![cmd.xCallingTask] = [i \in DOMAIN @ |->
               IF i \in cmd.data .. cmd.data + cmd.length - 1
               THEN got[i - cmd.data] ELSE @[i]]]
        /\ SetRet(cmd, "ERR_NONE")
        /\ dpc' = IF dpc = "read" THEN "give" ELSE "nestedGive"
        /\ UNCHANGED <<pc, call, notified, xQueueCmd, xQueueReadCmd,
                       xQueueWriteCmd, drivStatus, found, store>>

(* xTaskNotifyGive *)
Give(t) == notified' = [notified EXCEPT ![t] = @ + 1]

(* After a read: back to the loop, or to the write that let it through. *)
GiveReader ==
    /\ dpc \in {"give", "nestedGive"}
    /\ Give(xQueueReadCmd.xCallingTask)
    /\ dpc' = IF dpc = "give" THEN "receive" ELSE "program"
    /\ UNCHANGED <<pc, call, ret, buffer, xQueueCmd, xQueueReadCmd,
                   xQueueWriteCmd, drivStatus, found, store>>

(* programLength *)
PageOf(n) == IF n > PAGE THEN PAGE ELSE n

(* processWrite: the next page, and whether there is another. *)
ProcessWrite ==
    LET cmd == xQueueWriteCmd
        n == PageOf(cmd.length)
    IN  /\ dpc = "program"
        /\ FlashProgram(cmd.flashAddress, n,
               [i \in 0 .. n - 1 |-> buffer[cmd.xCallingTask][cmd.data + i]])
        /\ SetRet(cmd, "ERR_NONE")
        /\ xQueueWriteCmd' = [cmd EXCEPT !.flashAddress = @ + n,
                                         !.data = @ + n, !.length = @ - n]
        /\ dpc' = IF cmd.length # n THEN "peek" ELSE "giveWriter"
        /\ UNCHANGED <<pc, call, buffer, notified, xQueueCmd, xQueueReadCmd,
                       drivStatus, found>>

(* xQueuePeek between two pages: it copies the head, whatever it is. *)
Peek ==
    /\ dpc = "peek"
    /\ \/ /\ xQueueCmd = <<>>
          /\ dpc' = "program"
          /\ UNCHANGED xQueueReadCmd
       \/ /\ xQueueCmd # <<>>
          /\ xQueueReadCmd' = Head(xQueueCmd)
          /\ dpc' = IF Head(xQueueCmd).command = "READ" THEN "fetch" ELSE "program"
    /\ UNCHANGED <<callerVars, xQueueCmd, xQueueWriteCmd, drivStatus, found, store>>

(* The xQueueReceive after the peek takes what is at the head by now, and    *)
(* the code looks neither at its result nor at the command it gets.        *)
Fetch ==
    /\ dpc = "fetch"
    /\ xQueueReadCmd' = IF xQueueCmd = <<>> THEN xQueueReadCmd ELSE Head(xQueueCmd)
    /\ xQueueCmd' = IF xQueueCmd = <<>> THEN <<>> ELSE Tail(xQueueCmd)
    /\ dpc' = "nestedRead"
    /\ UNCHANGED <<callerVars, xQueueWriteCmd, drivStatus, found, store>>

(* processErase: it always reports that it has finished. *)
ProcessErase ==
    LET cmd == xQueueWriteCmd
        valid == cmd.length \in DOMAIN ERASE_SIZE
        aligned == cmd.flashAddress % ERASE_SIZE[cmd.length] = 0
    IN  /\ dpc = "erase"
        /\ \/ ~valid /\ SetRet(cmd, "ERR_INVALID_SIZE") /\ UNCHANGED store
           \/ /\ valid /\ ~aligned
              /\ SetRet(cmd, "ERR_INVALID_START_ADDR")
              /\ UNCHANGED store
           \/ /\ valid /\ aligned
              /\ SetRet(cmd, "ERR_NONE")
              /\ FlashErase(cmd.flashAddress, ERASE_SIZE[cmd.length])
        /\ dpc' = "giveWriter"
        /\ UNCHANGED <<pc, call, buffer, notified, xQueueCmd, xQueueReadCmd,
                       xQueueWriteCmd, drivStatus, found>>

(* The xTaskNotifyGive that ends a write or an erase. *)
GiveWriter ==
    /\ dpc = "giveWriter"
    /\ Give(xQueueWriteCmd.xCallingTask)
    /\ dpc' = "receive"
    /\ UNCHANGED <<pc, call, ret, buffer, xQueueCmd, xQueueReadCmd,
                   xQueueWriteCmd, drivStatus, found, store>>

-----------------------------------------------------------------------------
CallDriver(t) ==
    \E addr \in Address :
        \/ \E n \in ReadLength, null \in BOOLEAN : qspiReadFlash(t, addr, n, null)
        \/ \E n \in WriteLength, d \in Data : qspiWriteFlash(t, addr, n, d)
        \/ \E code \in EraseCode : qspiEraseSector(t, addr, code)

Caller(t) == CallDriver(t) \/ SendCommand(t) \/ TakeNotification(t)

qspiTasks ==
    \/ DrvInit \/ DelayExpires \/ Receive \/ ProcessRead \/ GiveReader
    \/ ProcessWrite \/ Peek \/ Fetch \/ ProcessErase \/ GiveWriter

Next == qspiTasks \/ \E t \in Task : Caller(t)

Spec == Init /\ [][Next]_vars

-----------------------------------------------------------------------------
(* Safety. *)

(* The control state: where every caller and the driver task are, and what  *)
(* the queue and the two static commands hold.                             *)
ControlTypeOK ==
    /\ pc \in [Task -> {"idle", "send", "wait"}]
    /\ call \in [Task -> Call]
    /\ ret \in [Task -> Result]
    /\ notified \in [Task -> Nat]
    /\ xQueueCmd \in Seq(Command)
    /\ dpc \in {"init", "retry", "delay", "receive", "read", "give", "program", "peek",
                "fetch", "nestedRead", "nestedGive", "erase", "giveWriter"}
    /\ xQueueReadCmd \in Command \cup {NoCmd}
    /\ xQueueWriteCmd \in Command \cup {NoCmd}
    /\ drivStatus \in {"INIT", "INIT_ERR", "READY"}
    /\ found \in BOOLEAN

(* The memory: buffers hold cell contents, the array holds programmed bytes *)
(* only - never what an unfilled read buffer or stray memory holds.        *)
MemoryTypeOK ==
    /\ DOMAIN buffer = Task
    /\ \A t \in Task : \A i \in DOMAIN buffer[t] : buffer[t][i] \in Content
    /\ store \in [Cell -> SUBSET Byte]

(* Type invariant.  Lengths stay natural numbers although chunks and pages  *)
(* are subtracted from them (drivQSPI.c:112, 441), and processWrite only   *)
(* ever programs bytes that a caller of qspiWriteFlash supplied.           *)
TypeOK == ControlTypeOK /\ MemoryTypeOK

(* Reads at the front: no write or erase of queue q is ahead of a read. *)
ReadsFirst(q) ==
    \A i, j \in 1 .. Len(q) : i < j /\ q[j].command = "READ" => q[i].command = "READ"

(* qspiReadFlash sends to the front and the other two calls to the back, so *)
(* at every moment all reads in xQueueCmd are ahead of all writes and      *)
(* erases: what lets one peek tell whether any read is waiting.            *)
ReadsBeforeWrites == ReadsFirst(xQueueCmd)

(* Between the peek that saw a read (drivQSPI.c:518) and the receive        *)
(* (line 520), whose result and command are not looked at, other tasks may *)
(* send: the receive still finds a command, and it is a read.              *)
FetchFindsRead ==
    dpc = "fetch" => xQueueCmd # <<>> /\ Head(xQueueCmd).command = "READ"

(* The static commands that hold a command the driver task has not answered. *)
ReadInHand == dpc \in {"read", "give", "nestedRead", "nestedGive"}
WriteInHand == dpc \in {"program", "peek", "fetch", "nestedRead", "nestedGive",
                        "erase", "giveWriter"}

(* No two commands of queue q are of one task; q holds a command of t. *)
OnePerTask(q) ==
    \A i, j \in 1 .. Len(q) : q[i].xCallingTask = q[j].xCallingTask => i = j
InQueue(q, t) == \E i \in 1 .. Len(q) : q[i].xCallingTask = t

Queued(t) == InQueue(xQueueCmd, t)
Reading(t) == ReadInHand /\ xQueueReadCmd.xCallingTask = t
Writing(t) == WriteInHand /\ xQueueWriteCmd.xCallingTask = t

(* Where the one command of t is, and when it has one. *)
CommandOnce(t) ==
    /\ Queued(t) => ~Reading(t) /\ ~Writing(t)
    /\ Reading(t) => ~Writing(t)
    /\ notified[t] <= 1
    /\ pc[t] # "wait" => notified[t] = 0
    /\ Queued(t) \/ Reading(t) \/ Writing(t) <=> pc[t] = "wait" /\ notified[t] = 0

(* No command is lost, served twice or answered twice.  A task that waits   *)
(* in ulTaskNotifyTake has either one notification or one command, and the *)
(* command is in one place: the queue, the read in hand or the write in    *)
(* hand.  A task that does not wait has neither, so that no notification   *)
(* of an earlier call can end a later one.                                 *)
OneCommandPerCall ==
    /\ OnePerTask(xQueueCmd)
    /\ \A t \in Task : CommandOnce(t)

(* The buffer of t from position at on has room for n more bytes. *)
Room(t, at, n) == \A i \in at .. at + n - 1 : i \in DOMAIN buffer[t]

(* The command points into the frame of a call that is still waiting, and   *)
(* what it will transfer is the part of the caller's buffer that goes with *)
(* its flash address.                                                      *)
Alive(cmd) ==
    LET t == cmd.xCallingTask
    IN  /\ pc[t] = "wait" /\ notified[t] = 0
        /\ call[t].op = cmd.command
        /\ cmd.flashAddress - cmd.data = call[t].flashAddress - call[t].data
        /\ cmd.command # "ERASE" => Room(t, cmd.data, cmd.length)

(* cmd.ret and cmd.data point into the stack frame and the buffer of the    *)
(* caller.  Every command that the driver task still has to serve, queued  *)
(* or in hand, points into a call that has not returned, and inside its    *)
(* buffer: *cmd->ret and the DMA never reach memory that is someone else's.*)
PointersAlive ==
    /\ ReadInHand => xQueueReadCmd.command = "READ" /\ Alive(xQueueReadCmd)
    /\ WriteInHand => xQueueWriteCmd.command # "READ" /\ Alive(xQueueWriteCmd)
    /\ \A i \in 1 .. Len(xQueueCmd) : Alive(xQueueCmd[i])

(* The eight megabytes that the comment on QSPI_FLASH_READONLY (0x0E00000)   *)
(* calls read-only, 0-0x7FFFFF; its value is fourteen.                     *)
ReadOnlyRegion == {c \in Cell : 14 * c < 8 * QSPI_FLASH_READONLY}

(* What the comment at drivQSPI.c:29 says: nothing is ever programmed into   *)
(* the read-only region.  The code refuses the addresses above it instead. *)
ReadOnlyKept == \A c \in ReadOnlyRegion : store[c] = {}

(***************************************************************************)
(* The driver implements FlashService.  The request of a task is the part  *)
(* of its call that no transfer has dealt with.                            *)
(***************************************************************************)
Answered(t) ==
    \/ notified[t] > 0
    \/ dpc \in {"give", "nestedGive"} /\ Reading(t)
    \/ dpc = "giveWriter" /\ Writing(t)

Extent(t) ==
    CASE call[t].op = "READ" -> ReadChunk(call[t].length)
      [] call[t].op = "ERASE" -> IF call[t].length \in DOMAIN ERASE_SIZE
                                 THEN ERASE_SIZE[call[t].length] ELSE 1
      [] OTHER -> call[t].length

(* How many cells of its extent the transfers for the call have dealt with. *)
Done(t) ==
    IF Answered(t) THEN Extent(t)
    ELSE IF call[t].op = "WRITE" /\ Writing(t) THEN xQueueWriteCmd.data
    ELSE 0

Remaining(t) ==
    LET c == call[t]
    IN  [op |-> c.op, next |-> c.flashAddress + Done(t), at |-> c.data + Done(t),
         left |-> (IF c.op = "ERASE" THEN Extent(t) ELSE c.length) - Done(t)]

Request == [t \in Task |-> Remaining(t)]

(* The task whose write has programmed a page and has another to go. *)
WriteBegun ==
    /\ WriteInHand /\ xQueueWriteCmd.command = "WRITE"
    /\ xQueueWriteCmd.data > 0 /\ xQueueWriteCmd.length > 0
Writer == IF WriteBegun THEN xQueueWriteCmd.xCallingTask ELSE NoTask

Service == INSTANCE FlashService WITH
    online <- found, request <- Request, writing <- Writer

(* What the calls rely on and do not check: flashAddress + length does not *)
(* wrap around 2^32 before it is compared with the size (drivQSPI.c:92),   *)
(* and a write that starts below QSPI_FLASH_READONLY ends inside the flash *)
(* (drivQSPI.c:123).  A buffer in the 512 KB of RAM (qspi_issue.ld:12) is  *)
(* far too short for either: an address is below 0x90000000, and from      *)
(* 0x0E00000 to the end of the flash it is 50 MB.                          *)
CallersFit ==
    \A addr \in Address :
        LET a == FlashAddress(addr)
        IN  /\ \A n \in ReadLength : a + n < WORD
            /\ \A n \in WriteLength :
                  a <= QSPI_FLASH_READONLY /\ PageAligned(a) => a + n <= QSPI_FLASH_SIZE

(* The queue, the driver task and the notifications implement FlashService: *)
(* every call that returns without an error has had its whole effect, in   *)
(* order and once, each page programmed to its own cells, each chunk read  *)
(* at its own place, no write interrupted by another write or an erase,    *)
(* and a call refused by a check had none.                                 *)
ImplementsService == Service!Spec

-----------------------------------------------------------------------------
(* Liveness. *)

(* The scheduler runs a task that is ready.  The driver task gets on only   *)
(* while its transfers end, which takes a chip that answers.                *)
FairSpec ==
    /\ Spec
    /\ WF_vars(DrvInit) /\ WF_vars(found /\ qspiTasks)
    /\ \A t \in Task : WF_vars(SendCommand(t)) /\ WF_vars(TakeNotification(t))

(* A call returns once the other tasks stop reading for good.  Without that *)
(* premise it need not: reads go in front of writes and of older reads     *)
(* (drivQSPI.c:105), so that a steady stream of them starves the rest.     *)
Served ==
    \A t \in Task :
        <>[](found /\ \A u \in Task \ {t} : call[u].op # "READ")
            => (call[t].op # "NONE" ~> call[t].op = "NONE")
=============================================================================
