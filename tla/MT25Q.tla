------------------------------- MODULE MT25Q -------------------------------
(***************************************************************************)
(* The calls of the chip library qspi/MT25Q.c that change the chip: one    *)
(* task makes them one at a time, each a sequence of SPI transactions, and *)
(* the chip works on its own in between.  The calls share their steps: the *)
(* busy check, FlashWriteEnable, the command, FlashWriteDisable, the wait  *)
(* with its timeout, the flags.  A step is one transaction.                *)
(*                                                                         *)
(* Neither the chip nor a Serialize_SPI that drives it is in src/.  A busy *)
(* chip hears nothing but status reads and a suspend; it may stay busy for *)
(* ever.  A byte of the array is named by the addresses whose data it has. *)
(***************************************************************************)
EXTENDS Integers, FiniteSets

CONSTANTS
    Op,              \* the calls made: [name, addr, n, blocking]
    FlashSize, PageSize, SectorSize, FlashOTPSize,
    MaxTries,        \* 255 reads of the status in FlashWriteEnable
    COUNT_FOR_A_SECOND, SE_TIMEOUT, BE_TIMEOUT

Erases == {"SECTOR", "DIE", "SUBSECTOR"}

(* The other writes: of a configuration register, of the one-time area, and *)
(* of protection registers without and with a busy check.                  *)
Registers == {"CONFIG", "OTP", "REGISTER", "PPB"}
Disables == {"REGISTER", "PPB"}

Cell == 0 .. FlashSize - 1
Sectors == FlashSize \div SectorSize  \* FlashSectorCount
Sector == 0 .. Sectors - 1

(* The values of i in the loop of FlashLockSector, up to the largest chip.  *)
Doubled == <<1, 2, 4, 8, 16, 32, 64, 128, 256, 512, 1024, 2048, 4096>>
PowersOfTwo == {Doubled[k] : k \in DOMAIN Doubled}

ASSUME GeometryAssumption ==
    /\ PageSize \in Nat \ {0} /\ SectorSize \in Nat \ {0} /\ FlashSize \in Nat
    /\ FlashOTPSize \in Nat /\ MaxTries \in Nat \ {0}
    /\ FlashSize % PageSize = 0 /\ FlashSize % SectorSize = 0
    /\ \A o \in Op : /\ o.addr \in Nat /\ o.n \in Nat /\ o.blocking \in BOOLEAN
                     /\ o.name \in {"PROGRAM", "BULK", "RESUME", "SUSPEND", "LOCK", "UNLOCK",
                                    "WRSR", "EN4", "EX4"} \cup Erases \cup Registers

(* Chips of up to 256 MB with sectors of 64 KB. *)
ASSUME LockAssumption == Sectors \in PowersOfTwo

VARIABLES
    lpc,         \* the step the call is at
    op, off,     \* the call, and how much of it is programmed
    then,        \* where FlashWriteEnable returns to
    tries,       \* num_of_try
    udCounter,
    ret,         \* what the wait or, in the end, the call returns
    NumAddrByte,
    chip

libVars == <<lpc, op, off, then, tries, udCounter, ret, NumAddrByte>>
vars == <<libVars, chip>>

Nothing == [c \in {} |-> {}]

(* After Driver_Init: 4 byte addresses, nothing under way, all erased. *)
Init ==
    /\ lpc = "idle" /\ off = 0 /\ then = "send" /\ tries = 0 /\ udCounter = 0
    /\ op = [name |-> "none", addr |-> 0, n |-> 0, blocking |-> TRUE]
    /\ ret = "none" /\ NumAddrByte = 4
    /\ chip = [WIP |-> FALSE, WEL |-> FALSE, addrBytes |-> 4, prot |-> {}, fsr |-> {},
               array |-> [c \in Cell |-> {}], change |-> Nothing, suspended |-> Nothing]

Goes(step) == lpc' = step /\ UNCHANGED ret
Returns(r) == lpc' = "idle" /\ ret' = r

-----------------------------------------------------------------------------
(* The chip. *)

(* The rest of a page wraps around to its start. *)
InPage(a, i) == (a \div PageSize) * PageSize + ((a + i) % PageSize)
Covered(o) == {c \in Cell : o.name = "BULK" \/ c \in o.addr .. o.addr + o.n - 1}
Protected(S) == \E c \in S : c \div SectorSize \in chip.prot

(* It starts to change its array, or sets its flags if that is protected.   *)
Change(new, kind) ==
    IF Protected(DOMAIN new)
    THEN \E wel \in BOOLEAN :
            chip' = [chip EXCEPT !.fsr = @ \cup {"PROT", kind}, !.WEL = wel]
    ELSE chip' = [chip EXCEPT !.WIP = TRUE, !.change = new]

ChipProgram(a, len) ==
    Change([c \in {InPage(a, i) : i \in 0 .. len - 1} |->
               chip.array[c] \cup {a + i : i \in {j \in 0 .. len - 1 : InPage(a, j) = c}}],
           "PROGRAM")

ChipErase(o) == Change([c \in Covered(o) |-> {}], "ERASE")

(* The sectors that the status register protects: BP in bits 6 and 4 to 2,  *)
(* TB in bit 5; none, or 2^(BP-1) of them from the bottom or from the top. *)
BlockProtect(sr) == ((sr \div 64) % 2) * 8 + ((sr \div 4) % 8)
Bottom(sr) == (sr \div 32) % 2 = 1
Locked(sr) ==
    LET bp == BlockProtect(sr)
        size == CASE bp = 0 -> 0
                  [] bp \in DOMAIN Doubled -> Doubled[bp]
                  [] OTHER -> Sectors
    IN  {s \in Sector : IF Bottom(sr) THEN s < size ELSE s >= Sectors - size}

ChipStatus(sr) == chip' = [chip EXCEPT !.WIP = TRUE, !.prot = Locked(sr)]
ChipRegister == chip' = [chip EXCEPT !.WIP = TRUE]
ChipMode(bytes) == chip' = [chip EXCEPT !.addrBytes = bytes, !.WEL = FALSE]

ChipResume ==
    IF chip.suspended = Nothing THEN UNCHANGED chip
    ELSE chip' = [chip EXCEPT !.WIP = TRUE, !.change = chip.suspended, !.suspended = Nothing]

(* WEL after a suspend is left open. *)
ChipSuspend ==
    IF chip.WIP /\ chip.change # Nothing
    THEN \E wel \in BOOLEAN : chip' = [chip EXCEPT !.WIP = FALSE, !.WEL = wel,
                                   !.suspended = chip.change, !.change = Nothing]
    ELSE UNCHANGED chip

(* The array once the change under way is done. *)
After == [c \in Cell |-> IF c \in DOMAIN chip.change THEN chip.change[c] ELSE chip.array[c]]

ChipDone ==
    /\ chip.WIP
    /\ chip' = [chip EXCEPT !.WIP = FALSE, !.WEL = FALSE, !.array = After, !.change = Nothing]
    /\ UNCHANGED libVars

-----------------------------------------------------------------------------
(* The steps of the calls. *)

Checked == {"BULK", "RESUME", "SUSPEND", "OTP", "PPB"} \cup Erases

(* Callers leave a suspended range alone until they resume, and suspend     *)
(* nothing else meanwhile.                                                 *)
Fits(o) == chip.suspended # Nothing =>
    /\ o.name \notin Erases \cup {"BULK", "SUSPEND"}
    /\ o.name = "PROGRAM" => Covered(o) \cap DOMAIN chip.suspended = {}

Call == \E o \in Op :
    /\ lpc = "idle" /\ Fits(o)
    /\ op' = o /\ off' = 0
    /\ IF o.name \in Erases \cup {"PPB"} /\ o.addr >= FlashSize THEN Returns("SectorNrInvalid")
       ELSE IF o.name = "OTP" /\ o.n > FlashOTPSize THEN Returns("AddressInvalid")
       ELSE Goes(IF o.name \in Checked THEN "check" ELSE "enable")
    /\ then' = CASE o.name = "PROGRAM" -> "piece" [] o.name = "LOCK" -> "lock"
                 [] OTHER -> "send"
    /\ UNCHANGED <<tries, udCounter, NumAddrByte, chip>>

(* (NeverBusy is a mutant: the check is missing.)                           *)
NeverBusy == op.name = "SUSPEND"
IsFlashBusy == chip.WIP

CheckBusy ==
    /\ lpc = "check"
    /\ IF IsFlashBusy = (op.name = "SUSPEND") THEN Goes("enable")
       ELSE Returns(IF IsFlashBusy THEN "OperationOngoing" ELSE "Success")
    /\ then' = "send"
    /\ UNCHANGED <<op, off, tries, udCounter, NumAddrByte, chip>>

FlashWriteEnable ==
    /\ lpc = "enable"
    /\ chip' = IF chip.WIP THEN chip ELSE [chip EXCEPT !.WEL = TRUE]
    /\ Goes("poll WEL")
    /\ UNCHANGED <<op, off, then, tries, udCounter, NumAddrByte>>

(* FlashLockSector and FlashUnlockAllSector ignore what                     *)
(* FlashWriteStatusRegister returns.                                       *)
Result(r) == IF op.name \in {"LOCK", "UNLOCK"} /\ then = "send" THEN "Success" ELSE r

(* (NotCounted is a mutant: num_of_try++ is missing.)                       *)
NotCounted == tries
Tried == tries + 1

(* 255 reads are a timeout even if the last one has found WEL. *)
PollWel ==
    /\ lpc = "poll WEL"
    /\ IF Tried >= MaxTries THEN Returns(Result("OperationTimeOut"))
       ELSE Goes(IF chip.WEL THEN then ELSE "poll WEL")
    /\ tries' = IF lpc' = "poll WEL" THEN Tried ELSE 0
    /\ UNCHANGED <<op, off, then, udCounter, NumAddrByte, chip>>

(* FlashDataProgram: up to a page boundary, whole pages, the rest.          *)
(* (Unaligned is a mutant: whole pages from the start.)                     *)
Least(a, b) == IF a < b THEN a ELSE b
Unaligned == Least(PageSize, op.n - off)
Piece ==
    LET first == (PageSize - (op.addr % PageSize)) % PageSize
    IN  IF off = 0 /\ first > 0 THEN Least(first, op.n) ELSE Least(PageSize, op.n - off)

NextPiece ==
    /\ lpc = "piece"
    /\ IF off = op.n THEN Returns("Success")
       ELSE IF op.addr + off >= FlashSize THEN Returns("AddressInvalid")
       ELSE Goes("check")
    /\ UNCHANGED <<op, off, then, tries, udCounter, NumAddrByte, chip>>

(* FlashLockSector, in whole sectors: what is left over of an address or a  *)
(* length is dropped.                                                      *)
Start == op.addr \div SectorSize
Area == op.n \div SectorSize

LockSector ==
    /\ lpc = "lock"
    /\ IF /\ Area \in PowersOfTwo /\ Area <= Sectors
          /\ Start = 0 \/ Start + Area = Sectors
       THEN Goes("enable") ELSE Returns("AddressInvalid")
    /\ then' = "send"
    /\ UNCHANGED <<op, off, tries, udCounter, NumAddrByte, chip>>

(* BP counts the i up to the area.  (FromZero is a mutant: BP starts at 0.) *)
Passed == {k \in DOMAIN Doubled : /\ Doubled[k] <= Sectors
                                  /\ \A j \in 1 .. k : Doubled[j] # Area}
FromZero == Cardinality(Passed)
BP == 1 + Cardinality(Passed)
TB == IF Start < Sectors \div 2 THEN 1 ELSE 0
SR == ((BP \div 8) % 2) * 64 + TB * 32 + (BP % 8) * 4

(* What FlashWriteStatusRegister is given. *)
ucStatusRegister ==
    CASE op.name = "LOCK" -> SR [] op.name = "UNLOCK" -> 0 [] OTHER -> op.n

(* The command; the chip takes PES while busy and PER always, the others    *)
(* when it is not busy and WEL is set.                                     *)
Command ==
    CASE op.name = "SUSPEND" -> ChipSuspend
      [] op.name # "SUSPEND" /\ chip.WIP -> UNCHANGED chip
      [] op.name = "RESUME" /\ ~chip.WIP -> ChipResume
      [] OTHER ->
        IF ~chip.WEL THEN UNCHANGED chip
        ELSE CASE op.name = "PROGRAM" -> ChipProgram(op.addr + off, Piece)
               [] op.name \in Erases \cup {"BULK"} -> ChipErase(op)
               [] op.name \in {"LOCK", "UNLOCK", "WRSR"} -> ChipStatus(ucStatusRegister)
               [] op.name \in Registers -> ChipRegister
               [] op.name = "EN4" -> ChipMode(4)
               [] op.name = "EX4" -> ChipMode(3)

Send ==
    /\ lpc = "send"
    /\ Command
    /\ IF op.name \in {"SECTOR", "DIE"} /\ ~op.blocking THEN Returns("Success")
       ELSE Goes(IF op.name \in Disables THEN "disable" ELSE "wait")
    /\ UNCHANGED <<op, off, then, tries, udCounter, NumAddrByte>>

FlashWriteDisable ==
    /\ lpc = "disable"
    /\ chip' = IF chip.WIP THEN chip ELSE [chip EXCEPT !.WEL = FALSE]
    /\ Goes("poll WRDI")
    /\ UNCHANGED <<op, off, then, tries, udCounter, NumAddrByte>>

(* do ... while (ucSR & SPI_SR1_WEL), and nothing else ends it. *)
PollWrdi ==
    /\ lpc = "poll WRDI" /\ ~chip.WEL
    /\ Goes("wait")
    /\ UNCHANGED <<op, off, then, tries, udCounter, NumAddrByte, chip>>

Seconds == CASE op.name \in Erases -> SE_TIMEOUT
             [] op.name \in {"BULK", "RESUME", "SUSPEND"} -> BE_TIMEOUT
             [] OTHER -> 1

Counted == udCounter + 1

(* WAIT_TILL_Instruction_EXECUTION_COMPLETE; its FlashTimeOut(0) is here    *)
(* done when the last wait ends.                                           *)
Wait ==
    /\ lpc = "wait"
    /\ IF ~chip.WIP
       THEN lpc' = "flags" /\ ret' = "Success" /\ udCounter' = 0
       ELSE IF udCounter = Seconds * COUNT_FOR_A_SECOND
       THEN lpc' = "flags" /\ ret' = "OperationTimeOut" /\ udCounter' = 0
       ELSE udCounter' = Counted /\ UNCHANGED <<lpc, ret>>
    /\ UNCHANGED <<op, off, then, tries, NumAddrByte, chip>>

(* Bit 0 of the flag status register.  (Commanded is a mutant: the mode     *)
(* asked for, not the one the chip is in; Bit is one: flag & 1 itself.)    *)
Commanded == IF op.name = "EN4" THEN 4 ELSE 3
Bit == IF chip.addrBytes = 4 THEN 1 ELSE 0
ModeRead == chip.addrBytes

(* (Cleared is a mutant: the flags are cleared before they are read.)       *)
Cleared(kind) == FALSE
SectorProtected(kind) == {"PROT", kind} \subseteq chip.fsr

(* The call goes on from its wait.  A protected target is reported by the   *)
(* flags, which it clears; the erases but FlashBulkErase drop a timeout.   *)
Flags ==
    LET kind == IF op.name = "PROGRAM" THEN "PROGRAM" ELSE "ERASE"
        changes == op.name \in Erases \cup {"BULK", "PROGRAM"}
    IN  /\ lpc = "flags"
        /\ chip' = IF changes THEN [chip EXCEPT !.fsr = {}] ELSE chip
        /\ NumAddrByte' = IF op.name \in {"EN4", "EX4"} THEN ModeRead ELSE NumAddrByte
        /\ IF changes /\ SectorProtected(kind)
           THEN Returns("SectorProtected") /\ UNCHANGED off
           ELSE IF op.name = "PROGRAM" /\ ret = "Success"
           THEN off' = off + Piece /\ Goes("piece")
           ELSE Returns(IF op.name \in Erases THEN "Success" ELSE Result(ret)) /\ UNCHANGED off
        /\ UNCHANGED <<op, then, tries, udCounter>>

Step ==
    \/ CheckBusy \/ FlashWriteEnable \/ PollWel \/ NextPiece \/ LockSector \/ Send
    \/ FlashWriteDisable \/ PollWrdi \/ Wait \/ Flags

Next == Call \/ Step \/ ChipDone

Spec == Init /\ [][Next]_vars

-----------------------------------------------------------------------------
(* Safety. *)

(* Type invariant. *)
TypeOK ==
    /\ lpc \in {"idle", "check", "enable", "poll WEL", "piece", "lock", "send", "disable",
                "poll WRDI", "wait", "flags"}
    /\ off \in 0 .. op.n
    /\ then \in {"piece", "lock", "send"}
    /\ tries \in 0 .. MaxTries /\ udCounter \in Nat
    /\ ret \in {"none", "Success", "OperationOngoing", "OperationTimeOut", "AddressInvalid",
                "SectorNrInvalid", "SectorProtected"}
    /\ NumAddrByte \in {3, 4}
    /\ chip.addrBytes \in {3, 4} /\ chip.prot \subseteq Sector
    /\ \A c \in Cell : chip.array[c] \in SUBSET Nat

(* What Flash_Success of these calls tells the caller, however long the     *)
(* chip takes: every byte of a program is in place, a bulk erase is over,  *)
(* a resumed change too, a suspended chip is not busy.                     *)
SuccessMeansDone ==
    lpc = "idle" /\ ret = "Success" =>
        CASE op.name = "PROGRAM" -> \A c \in op.addr .. op.addr + op.n - 1 : c \in chip.array[c]
          [] op.name = "BULK" -> \A c \in Cell : chip.array[c] = {}
          [] op.name = "RESUME" -> ~chip.WIP /\ chip.suspended = Nothing
          [] op.name = "SUSPEND" -> ~chip.WIP
          [] OTHER -> TRUE

(* Flash_Success of a sector, die or sub-sector erase: the chip has taken   *)
(* it, also after a timeout or another call that did not wait, and its     *)
(* range is erased once the chip is done; unless the target is protected   *)
(* and the call did not wait, which leaves that to the flags.  Whether the *)
(* chip is done it does not say: the next property.                        *)
SuccessMeansTaken ==
    lpc = "idle" /\ ret = "Success" /\ op.name \in Erases =>
        \/ \A c \in Covered(op) : After[c] = {}
        \/ ~op.blocking /\ SectorProtected("ERASE")

(* "Once erase has completed the status Flash_Success is returned", and a   *)
(* timeout is Flash_OperationTimeOut (MT25Q.c:1018, 1024): the code does   *)
(* not return the result of the wait (MT25Q.c:912, 997, 1081).             *)
SuccessMeansErased ==
    lpc = "idle" /\ ret = "Success" /\ op.name \in Erases /\ op.blocking =>
        \A c \in Covered(op) : chip.array[c] = {}

(* No byte is ever programmed at an address that is not its own: the chip   *)
(* wraps inside a page, and FlashDataProgram never lets it.                *)
NoForeignByte == \A c \in Cell : chip.array[c] \subseteq {c}

(* A program or erase is sent to a chip that takes it, although another     *)
(* one may be under way from an erase that did not wait, a timeout or a    *)
(* resume.  (The calls without a busy check have no such guarantee: sent   *)
(* to a busy chip, WEL still set, they are lost and report success.)       *)
NoCommandLost ==
    [][lpc = "send" /\ lpc' # "send" /\ op.name \in (Checked \ {"RESUME", "SUSPEND"}) \cup {"PROGRAM"}
       => ~chip.WIP /\ chip.WEL]_vars

(* The number of address bytes sent is the number the chip expects, also    *)
(* when a mode command was lost on a busy chip.                            *)
AddrModeAgrees ==
    lpc = "send" /\ op.name \in Erases \cup {"PROGRAM"} => NumAddrByte = chip.addrBytes

(* What the chip makes of the register FlashLockSector sends it is what the *)
(* caller asked for, in whole sectors: none more, none fewer, at the right *)
(* end.  BP, its four bits and TB have to agree with the chip's.           *)
Asked == Start .. Start + Area - 1
LockIsExact == [][op.name = "LOCK" /\ chip'.prot # chip.prot => chip'.prot = Asked]_vars

-----------------------------------------------------------------------------
(* Liveness: the task runs; the chip need never be done. *)

FairSpec == Spec /\ WF_vars(Step)

(* Every call returns, whatever the chip does, unless FlashWriteDisable     *)
(* polls for ever (MT25Q.c:558): only as long as WEL stays set.            *)
CallsEnd == lpc # "idle" ~> (lpc = "idle" \/ (lpc = "poll WRDI" /\ chip.WEL))
=============================================================================
