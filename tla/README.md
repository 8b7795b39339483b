# Verification of the QSPI flash driver

TLA+ modules, TLC configurations and machine-checked proofs for the firmware in
this repository: an STM32F769 demonstration program ("qspi_issue") that reads a
web file system from a Micron MT25Q flash over the QUADSPI controller, under
FreeRTOS.

Contents: the system, the modules, the runs, the bounds, the fairness, the
proofs, what is not modelled, what the checks found, and the plan.

## The system

| Component | State | Operations | Interacts through |
|---|---|---|---|
| Driver calls (`drivQSPI.c:85-161`) | the locals of each open call: what is left, `ret` | `qspiReadFlash`, `qspiWriteFlash`, `qspiEraseSector`, `qspiDriverStatus` | the command queue; a notification; pointers into the caller's frame |
| Driver task (`drivQSPI.c:424-542`) | `xQueueReadCmd`, `xQueueWriteCmd`, `drivStatus` | `qspiTasks`, `processRead`, `processWrite`, `processErase` | the queue, `*cmd->ret`, `cmd->data`, `xTaskNotifyGive` |
| Transfers and interrupts (`drivQSPI.c:224-422, 544-595`) | `qspiAction`; registers of QUADSPI and DMA2 stream 2; the driver task's notification | `readFlash`, `writeEnable`, `writeFlashPage`, `eraseSector`, `QUADSPI_IRQHandler`, `DMA2_Stream2_IRQHandler` | controller registers, DMA, chip, notification from the handlers |
| Chip identification (`drivQSPI.c:164-222, 490-499`) | `id`, `drivStatus`; the mode of the chip (quad, 4-byte addresses) | `drvInit`, the start of `qspiTasks` | polled commands; `drivStatus` |
| yaROMFS reader (`yaRomfsCore.c`, `httpROMFS.c`) | an open file: entry, position, script response | `yaromfs_fopen`, `_fread`, `_fclose`, queries | `qspiReadFlash`; the heap |
| MT25Q library (`MT25Q.c`, not in the build) | `fdo`, the chip's description | probe, read, program, erase, lock, status registers | `Serialize_SPI` (its body is under `#if 0`) |
| `main.c` | one test task | waits for READY, opens, reads, closes | yaROMFS |
| `init.c`, HAL MSP, time base, `it.c`, `system_*.c` | none of their own | register set-up | - |
| `httpScripts.c`, `FreeRTOS_CLI.c` (not in the build) | a response buffer; the command list | format a response; interpret a line | - |
| FreeRTOS queue (`queue.c`, vendored) | ring, two indices, a count, two event lists | `xQueueGenericSend`, `xQueueReceive`, `xQueuePeek` | critical sections, the scheduler |
| rest of the kernel, STM32 HAL (vendored) | notifications, scheduler | - | modelled as the driver uses them |

What is hard in it:

* **Concurrency.** Several tasks call the driver; it runs at priority
  `configMAX_PRIORITIES - 2`, and `priorities.h` has callers at and above it, so
  a send can come between any two steps of the driver task - between the
  `xQueuePeek` and the `xQueueReceive` of line 520, for one, where neither the
  result nor the command received is looked at.
* **Shared memory through pointers.** A command points to the caller's `ret`
  and buffer. They live as long as the caller stays in `ulTaskNotifyTake`.
* **Order.** Reads go to the front of the queue and between the pages of a
  write. `TCF`, `TCIE`, `DMAEN` and `SMIE` outlive an operation; `AR` must be
  written before `DMAEN` (lines 368-376).
* **Failure.** DMA errors; a chip that is busy, absent, or was interrupted by a
  restart.
* **Time.** Nothing times out - apart from the `vTaskDelay(portMAX_DELAY)` that
  was meant not to.

PROJECT.json lists these at their lines ("hazards") with the properties that
cover them. What makes each component correct:

* driver: each call takes effect once and as a whole before it returns; commands
  are conserved; pointers are alive; every call returns unless reads starve it;
* transfers: one operation at a time on the controller, interrupts only where
  they are expected, a wake-up means done, each operation takes effect before it
  returns, and does return;
* identification: when the driver reports READY the chip is in the mode its
  commands rely on; when it fails there is a reason; it never hangs; a reset at
  any moment changes none of this;
* yaROMFS: reads deliver the file from front to back, for every reader, unless a
  program that is not waited for has left the chip busy; a read of 0 bytes is the
  end of the file;
* MT25Q library: a reported success is worth what it says, no byte lands at a
  foreign address, no program or erase is sent to a busy chip, the address mode
  follows the chip, the block protection bits mean to the chip what the caller
  asked for, every call returns;
* queue: a bounded sequence open at both ends, and no task sleeps while what it
  waits for is there.

## The modules

**`QspiDriver`** - the upper half of `drivQSPI.c`. A caller is idle, about to
send, or in `ulTaskNotifyTake` (`pc`); `call` holds its locals, `buffer` the
memory behind its `data` argument, `notified` its notification value. The driver
task's place in `qspiTasks` is `dpc`; each place is one point at which another
task can run and be noticed. One action per step: the three calls up to their
send (`CallDriver`), the send, the return from the wait (with the next chunk of
a long read), `DrvInit`, `DelayExpires`, `Receive`, `ProcessRead`, `GiveReader`,
`ProcessWrite`, `Peek`, `Fetch`, `ProcessErase`, `GiveWriter`. A transfer is one
step: only the driver task touches the flash. `processRead` in the loop and
between two pages is one action with two places. The read loop inside the
erase's `while` (lines 531-537) is not modelled: `processErase` always returns
0. A cell of the flash is the set of bytes programmed since its last erase, so
that a second program (which ANDs bits) shows as a second element.

**`FlashService`** - what the driver promises: a task's request is open from the
call to the return and is moved forward a piece at a time; reads may fall
between the pieces of a write, other writes and erases may not. `QspiDriver`
implements it under the mapping at its end: the request of a task (`Request`) is
the part of its call that no transfer has dealt with, and the write under way
(`Writer`) is the one whose command has had its first page.

**`QspiTransfer`** - the lower half. The driver task runs through the steps of
`readFlash`, `writeFlashPage` (with `writeEnable`) and `eraseSector`, cut where
hardware can step in; the three routines share their steps, and `op.kind` and
`Polled` say which of their lines apply. The two interrupt handlers are one step
each: both have priority 3, so neither preempts the other, and no task runs
meanwhile. External, modelled from how the code relies on it: the controller's
command, FIFO and flags, the DMA stream with its completion and error flags, the
chip with its WIP and WEL bits. Interrupt requests are levels.

**`FlashOperation`** - what one transfer promises the driver task: one change or
one read of the array, between begin and return.

**`QspiInit`** - from reset to the command loop. The driver task goes through
`drvInit` command by command (`ipc`), twice if the first fails, and through the
delay. The controller takes a command and, for RDID, delivers three bytes into
its FIFO; a read of `DR` waits for a byte while one may come. The chip hears a
command if it is there, not busy, and listens on the lines it is sent on. It
outlives a reset of the MCU (`Restart`) with its mode and its program or erase,
or is powered anew. The code never clears `TCF` in `drvInit`, so that its "tc
wait" ends on the flag of the command before: the model keeps that, and
`CommandsFindBusFree` says why it does no harm.

**`YaRomfs`** - the file reader for several tasks, each with a handle: entry,
position, the bytes got since the open, whether the last read returned 0. A read
of a flash file is open while `qspiReadFlash` is; a script's response is read at
once. One task starts like `testQSPI`, waiting for READY, and reads what it
opened whether it is there or not.

**`QspiBoot`** - the two together. The driver task in its loop serves the waiting
reads in any order and changes the chip in between, in two ways (`QspiInit`). An
erase or a program through DMA keeps it out of the loop until the status has
matched (`BeginChange`, `ChangeOver`). A program of at most `DMA_THRESHOLD` bytes
(`ProgramPolled`, `drivQSPI.c:315-334`) does not: the loop goes on, and a read
served before the chip is done gets what an undriven bus reads as (`Garbage`).
`polled` remembers that there was one since the reset. A reset takes the readers
with it.

**`MT25Q`** - the library's calls that change the chip. They are cut from one
pattern - busy check, write enable with its counted polls, command, write
disable, wait with its time-out, flags - so the model has each of these steps
once (`lpc`) and `op` says which a call goes through. A step is one transaction;
the chip may be done between any two, or never. The chip keeps WIP, WEL, its
address mode, its block protection, its flags, the change under way and the one
suspended. Each byte of the array is the set of addresses whose data it has
been given since it was erased. `FlashLockSector` is modelled down to the register it
writes: the loop that counts doublings up to the area (`Passed`, `BP`), the top or
bottom bit (`TB`), and the byte they are packed into (`SR`); the chip takes the byte
apart (`BlockProtect`, `Bottom`) and protects what it finds there (`Locked`).

**`CommandQueue`** - the queue as `QspiDriver` assumes it: an atomic bounded
sequence. **`RtosQueue`** - the kernel's: the ring with its two indices, a call
that tries in a critical section, and the window between that section and the
suspension of the scheduler, after which it looks again and sleeps. The map
`Items` reads the sequence off the ring.

**`MCQspiDriver`, `MCQspiTransfer`, `MCQspiBoot`, `MCMT25Q`, `MCRtosQueue`** -
values for TLC. **`QspiDriver_proofs`, `FlashService_proofs`,
`QspiTransfer_proofs`, `QspiTransferBytes_proofs`, `FlashOperation_proofs`,
`QspiBoot_proofs`, `MT25Q_proofs`, `RtosQueue_proofs`** - theorems.

A few operators named in comments as mutants (for instance `SendToFront` beside
`Send`) are wrong versions of the operator next to them. No specification uses
them: each shows that the property it is paired with in PROJECT.json fails when
the code has that bug.

## The runs

| Run | Checks | States | Verdict |
|---|---|---|---|
| driver_service | `TypeOK`, `ImplementsService`, `Served` | 259,643 | holds |
| driver_queue | `ReadsBeforeWrites`, `FetchFindsRead`, `OneCommandPerCall`, `PointersAlive`, `ImplementsService` | 65,033 | holds |
| transfer | `TypeOK`, `ControllerFree`, `InterruptsOnlyAtTake`, `WakeMeansDone`, `ReturnsOrFails` | 14,769 | holds |
| transfer_long | `CommandsHeard`, `ImplementsOperation` | 11,893 | holds |
| boot | `TypeOK`, `ReadyMeansConfigured`, `FailureExplained`, `DeliveredIsFile`, `EndMeansWhole`, `CommandsFindBusFree`, `Settles`, `ReadersServed` | 74,334 | holds |
| mt25q | `TypeOK`, `SuccessMeansDone`, `SuccessMeansTaken`, `NoForeignByte`, `AddrModeAgrees`, `NoCommandLost`, `LockIsExact`, `CallsEnd` | 1,006,066 | holds |
| rtos_queue | `TypeOK`, `NoLostWakeup`, `ImplementsQueue`, no deadlock | 263,412 | holds |
| driver_read_only | `ReadOnlyKept` | | violated |
| transfer_lost | `ReportedProgramIsMade` | | violated |
| transfer_error | `Returns` | | violated |
| boot_busy | `NotFoundMeansAbsent` | | violated |
| mt25q_erase | `SuccessMeansErased` | | violated |

Why one peek is enough: reads are sent to the front and everything else to the
back, so a read in the queue is always at its head (`ReadsBeforeWrites`), and a
send cannot take a read's place at the head except with another read
(`FetchFindsRead`). The receive may get a different read from the one peeked at;
nothing depends on which.

Bounds. The sizes are scaled: a page of 2 cells, a chunk of 3, a flash of 8 (16
in `driver_read_only`) mapped at 32 in an address space of 64. Lengths 0, 3 and
4 give nothing, a page and a remainder, exactly two pages, a chunk and a
remainder; the addresses give an aligned start, a misaligned one, one above
`QSPI_FLASH_READONLY` and both address windows; a code that is not in
`ERASE_SIZE` is the default case of the switch. `driver_service` has two tasks and
a place in the queue for each. `driver_queue` has three tasks (symmetric) on a
queue of two, with one address and one length of each kind: one being served, one
let through, one queued, a full queue and senders that block. In
`QspiTransfer` the threshold and the FIFO are 2, lengths 1 to 4 are below,
at and above; the FIFO fills and drains within one transfer. In these two modules no
counter needs a bound: every variable is bounded by the system itself.

`boot` has two resets (`MaxRestarts`): one to leave the chip configured or busy,
one more to hit the recovery from it. Two readers, one that waits for READY and
one that does not; two files in flash, one of which runs past its end
(`QSPI_FLASH_SIZE = 4`), and a script; lengths 0, 1 and 2, so that reads end
short, exact and empty. In `mt25q` the array has 8 bytes in four sectors of one
page each; a program over three pages from the middle of one, one that leaves
the array; erases with and without a wait; a lock of two sectors at the bottom
with a length that is not a whole number of sectors, one at the top, one that is
neither; a register written by hand; a one-time area program that is too long; every time-out is 1 to 3 polls long (`MaxTries`,
`COUNT_FOR_A_SECOND`), and since the chip may take any time, so is every race
with it. `rtos_queue` has two places, so that the ring wraps at both ends, and
more senders and receivers than places, so that both lists fill.

`transfer_long` leaves out programs of at most `DMA_THRESHOLD` bytes, because
after such a program the chip does not hear the next command: that is what
`transfer_lost` shows. All other checks on transfers include them.

## Fairness

`QspiDriver!FairSpec`: weak fairness of each caller's send and of its return
from the wait, of `DrvInit`, and of the driver task while the chip is found.
The scheduler is preemptive and the callers block between calls, so a ready task
runs. Without a chip the driver task may spin or wait for ever on a flag, so
nothing is assumed of it then; nothing makes a task call. `Served` has the
premise that the other tasks stop reading for good, because reads overtake; it
holds for each task separately. Its run has as many places in the queue as
tasks, so that no send blocks: which of several blocked senders goes first is
the kernel's choice by priority, and a low one may be passed over.

`QspiTransfer!FairSpec`: weak fairness of the driver task inside an operation
(it outranks the callers), of each handler (a requested interrupt is taken), of
the bus, the stream and the end of a program or erase in the chip. Beginning an
operation and a DMA error are never required to happen.

`QspiBoot!FairSpec`: weak fairness of the driver task in `drvInit` and of the bus
and the chip; strong fairness of serving some waiting read, because between any
two pages or erases the task lets a waiting read through - that reads are ahead
of writes in the queue is `ReadsBeforeWrites`. No reader has to do anything, the
delay of 49.7 days need not end, and nothing says which reader is served first:
`ReadersServed` excepts a reader that others keep overtaking.

`MT25Q!FairSpec`: the calling task runs. The chip is not assumed ever to be done:
`CallsEnd` rests on the counted polls and the time-out alone. It excepts the poll of
`FlashWriteDisable`, which has neither.

## The proofs

`QspiDriver_proofs` is checked by TLAPS for any set of callers, any queue
capacity, any page, chunk and sector sizes and any sets of inputs that meet the
three named assumptions of `QspiDriver`. The argument goes in layers, each an
inductive invariant that contains the previous one:

1. `ControlInv`: control state is typed, a call has arguments while open, the
   static commands hold what the driver task's place says, and the queue's order.
   `FetchFindsRead` is not inductive alone: that the head stays a read under a
   send needs `SendKeepsReadAtHead`, and the peek needs the commands to be
   typed. Gives `QueueOrder` and `FetchSafe`.
2. `OnceInv`: in addition `OneCommandPerCall`, that each task has at most one
   command and where it is. The queue's part rests on `SendInQueue`,
   `SendOnePerTask` and `TailInQueue`. Gives `CommandConservation`.
3. `PointerInv`: in addition every command still to be served is alive
   (`AllAlive`), and the buffer of an open call has room for what is left of it
   (`FramesHold`). That a caller's return kills no command is layer 2: a task
   with a notification has none (`GiveKeepsPointer`, `TakeKeepsPointer`). Gives
   `PointerSafety`, and with layer 1 `TypeCorrect`: the memory part of `TypeOK`
   says that a program takes its bytes from a live write call only.

`FlashService_proofs` adds a fourth layer and then the refinement. `ServiceInv` is
`PointerInv` and `WorkInv`: every open call lies inside the flash (`CallsFit`), every
command still to be served asks for exactly what its call has left - the next
chunk of a read, the rest of a write from a page boundary on, the sector of an
erase (`CommandsFit`) - and only the write in hand has begun (`WritesInOrder`).
That is what makes a transfer the right step of `FlashService`: the driver task
never looks at the call, only at the command. The lemmas about pages and sectors
(`ProgramInside`, `EraseInside`) show that the wrap of the chip's column address
inside a page never happens. One lemma for each action then names the step
it implements: `CallDriver` is `Open` or `Refuse`, `ProcessRead`, `ProcessWrite` and
`ProcessErase` move a request forward, the return is the last step of a request or,
between two chunks, nothing; the send, the queue, the peek and the notifications
are not seen. `DriverImplementsService` has one hypothesis, `CallersFit`: a length
does not wrap `flashAddress + length` around 2^32, and a write that starts below
`QSPI_FLASH_READONLY` ends inside the flash. The code checks neither (lines 92 and
123); the memory map gives both, since no buffer in 512 KB of RAM is long enough.
TLC evaluates it in every run of `MCQspiDriver`.

`QspiTransfer_proofs`, for a flash and a FIFO of any size, any threshold that fits
the FIFO and any operations, whether they are polled or not and whether the stream
fails or not. The safety properties of `transfer` say what never happens at
an interrupt or a command; that they last needs to know where every byte is.
`Inv` says it: `CommandOK` which command the controller can have at each place
of the driver task, `BytesOK` that the bytes in the buffer, in the FIFO and to
come add up to the operation, `StreamOK` and `WakeOK` which enable bit, flag
or notification can be set then. `TypeCorrect` contains that the polled program
does not overrun the FIFO; `CommandsFindControllerFree`, `InterruptsAreWaitedFor`
and `WakeIsTrue` are the other three: every safety property of the run. The key
step is `WokenIsFree`: the stream has moved its last byte, hence none is left in
the FIFO and none to come.

`QspiTransferBytes_proofs` and `FlashOperation_proofs` add the assumption
`LongPrograms`, that no program is short enough to be polled - without it
`transfer_lost` is a counterexample. `Faithful` then holds beside `Inv`: the chip
programs or erases only while the task waits and TCF or the status poll
remembers it (`HeardOK`), hence hears every command (`EveryCommandIsHeard`); its
latch is set when the command arrives (`LatchOK`); what has been sent is the
front of the operation's bytes (`SentOK`), and what has been received is the
array from its address on (`ReceivedOK`). So the end of a change in the chip, and
the last byte of a read, are the steps at which the operation takes effect, and
every other step is not seen by `FlashOperation`: `Implements`, the refinement that
the run `transfer_long` checks on four cells.

`QspiBoot_proofs`, for any number of resets, any readers, files and lengths.
`BootInv` says which command can be on the bus at each place of `drvInit` and
that the bytes read, in the FIFO and to come are three (`BusOK`); that only a
chip that listens sends identification bytes, and that it then hears the two
commands that follow (`HeardOrNone`: why READY means configured); and that a
chip that was not busy at the reset is found at the first attempt
(`FoundAtOnce`: why a failure has a reason). `RomInv` says of each reader that
it has got as many bytes as it is far into its file, each the right one or, after a
polled program, garbage (`Right`, `RightGrows`), as long as no read was served
without a chip. They give `TypeCorrect`, `ReadyConfigured`,
`FailureIsExplained`, `BusFreeForCommands`, `ReadersGetFiles` and `EndIsEnd`:
every safety property of the run.

`MT25Q_proofs`, for an array, pages and sectors of any size, any calls and any number
of polls before a time-out. The assumptions are those of the source:
`GeometryAssumption`, that pages divide sectors and sectors the array, and that a time-out
allows one poll at least; `LockAssumption`, that the number of sectors is a power of
two up to 4096 (`PowersOfTwo`: 256 MB in sectors of 64 KB). Nothing is assumed of the addresses and lengths to lock. The parts of `IInv`: `ControlInv`, which steps a call goes
through; `ReadyInv`, that between the busy check and the command nothing makes the
chip busy, and that the latch WREN has set is still set at the command - but for
a suspend, which expects a busy chip; `OffInv`, that the pieces of a program
meet at page boundaries (`PieceInPage`), so that no piece wraps around in its page;
`BytesInv`, that no foreign byte is in the array, in the change under way
or in the suspended one; `ModeInv` and `LockInv`. What a success is worth is carried
by `ProgramInv` and `EraseInv` with `After`, the array as it will be when the change
under way is over: the command sets it, the end of the change in the chip does not
alter it, and once a wait has seen the chip ready (`WaitInv`) it is the array. That
is as much as the sector, die and sub-sector erases promise: that they were taken
(`MT25QEraseTaken`), not that they are over, which the run `mt25q_erase` refutes.
The others do wait (`MT25QSuccess`). With `MT25QNoForeignByte`, `MT25QAddrMode`,
`MT25QTypeCorrect` and, of the steps, `MT25QNoCommandLost` and `MT25QLockIsExact`
these are all the safety properties of the run `mt25q`.

The lock is proved from the loop to the chip. `Doubled` lists the values of `i` in
the loop; `DoubledOrder` and `NextDoubled` say that they grow, each twice the one
before; `LoopCounts` that BP is then one more than the exponent of the area;
`BitsAgree` that the chip reads from the byte the four bits and the TB that were
packed into it; `LockedIsAsked` that what it protects, from the bottom or from the
top, are the sectors asked for, in the case of the whole array too, where both ends
are right. `LockSent` is that nothing but that byte sets the protection during the
call. `MT25QLockIsExact` speaks of whole sectors, as the code divides;
`WholeSectors` and `MT25QLockCovers` of bytes, when address and length are
multiples of the sector size.

`RtosQueue_proofs`, for any capacity, any tasks, any items and calls. `TypeCorrect`
ties the two indices to the count around the ring; with it each step of
the ring is a step of `CommandQueue` or none (`QueueImplemented`). `NoWakeupLost`
counts: a wake-up moves a sleeper to those that will try, and a task that tries
takes no more than it was promised.

With these every safety property of every passing run is a theorem. Model-checked
only: liveness (`Served`, `ReturnsOrFails`, `Settles`, `ReadersServed`, `CallsEnd`),
which rests on fairness and so on ENABLED, out of the provers' reach; and the five
runs that find a violation, which are counterexamples and need no proof.

## What the checks found

* `driver_read_only`: the comment calls 0-0x7FFFFF read-only; the code lets
  writes to it through and refuses the addresses above `0x0E00000`, which
  include the logs, configuration and firmware areas of `flashaddress.h`.
* `transfer_lost`: a program of at most 32 bytes - a short write, or the last page
  of a longer one - returns while the chip is still programming. The next command is
  ignored: a following program is lost and reported as successful, a following
  read returns what the undriven bus reads as.
* `transfer_error`: a DMA transfer error leaves the driver task waiting, and the
  interrupt requested, for ever.
* `boot_busy`: after a reset in the middle of a program or an erase both attempts
  of `drvInit` meet a busy chip and the driver reports that there is none. It
  then sleeps 2^32 - 1 ticks (about 49.7 days, not for ever), reports READY and
  serves commands from a chip in the wrong mode; until then callers block.
* `mt25q_erase`: the comments on the sector, die and sub-sector erases say that
  success is returned once the erase has completed, and list a time-out among the
  results (`MT25Q.c:853, 939, 1024`). The three calls drop the result of their wait:
  an erase of more than three seconds, whole dies included, is reported as done
  while the chip is still erasing.

Seen while modelling, without a run of their own (PROJECT.json has them as
hazards, but for the last two): locks are lost on a busy chip and reported as done;
`FlashOTPProgram` sends the buffer of its caller and not the one it has filled;
`FlashWriteDisable` polls without limit; `FlashLockSector` drops what is left over
of a length without a word; the comment on `FlashWriteStatusRegister` says that
bits 6 and 5 are not affected (`MT25Q.c:665`), where `FlashLockSector` puts BP3 and
TB.

## What is not modelled

Of the kernel only the queue is modelled from its source; notifications, mutexes
and the scheduler, the HAL and the chip are modelled as the firmware uses them.
Block times other than 0 and `portMAX_DELAY`, queue sets and the calls from
interrupts are left out of `RtosQueue`: the driver uses none of them. Of the MT25Q
library: reads, the device tables of `Driver_Init`, deep power-down and
`FlashPasswordUnlock`; it is not in the build, and the port it needs
(`Serialize.c`) is under `#if 0`. Not modelled either: `qspiDriverStatus` as an
action (it only reads `drivStatus`); PIR, the polling interval; caches and memory
barriers (the MPU set-up of `init.c`); the board start-up; generated data;
`httpScripts.c`, `FreeRTOS_CLI.c` (not in the build). Most of the repository's
lines are the vendored HAL and kernel: they hold register definitions and
functions this firmware never calls.

`QspiDriver` takes a transfer as atomic and correct; `QspiTransfer` shows when that
holds (`transfer_long`, `Implements`) and when not (`transfer_lost`). `QspiBoot` has
programs of both kinds, waited for and not, but no bytes of the array: files do not
change, and what a program writes is `FlashService`'s and `FlashOperation`'s
subject.

## Plan

Done: the driver with its service, transfers, identification, readers, the
library's changing calls, the kernel's queue, and proofs of all their safety
properties and refinements. Left, in this order:

1. `QspiSystem`: compose the driver task with the transfers, so that a write with
   a short last page, and a read let through between two pages, meet the busy
   chip. Property: what a caller reads back; one run with, one without short pages.
2. Task notifications from the kernel's source, as `RtosQueue` does the queue.
3. Proofs: that `QspiBoot` meets the assumption `QspiDriver` makes of its
   `DrvInit`, as a refinement.
