---------------------------- MODULE MT25Q_proofs ----------------------------
(***************************************************************************)
(* Proofs about MT25Q: its invariants and action properties, from one      *)
(* inductive invariant.  Its parts say where a call can be, what the chip   *)
(* is busy with, and what the array will be once it is done; After, which  *)
(* the end of the chip's work leaves alone, carries a program or an erase  *)
(* from its command over the wait to Flash_Success.                        *)
(***************************************************************************)
EXTENDS MT25Q, FiniteSetTheorems, TLAPS

Names == {"PROGRAM", "BULK", "RESUME", "SUSPEND", "LOCK", "UNLOCK", "WRSR", "EN4", "EX4"}
             \cup Erases \cup Registers

NoOp == [name |-> "none", addr |-> 0, n |-> 0, blocking |-> TRUE]

(* Past its busy check, a call is about to send its command.                *)
Sending == lpc = "send" \/ (lpc \in {"enable", "poll WEL"} /\ then = "send")

(* Each call goes through its own steps. *)
ControlInv ==
    /\ op \in Op \/ (op = NoOp /\ lpc = "idle")
    /\ lpc = "check" => op.name \in Checked \cup {"PROGRAM"}
    /\ lpc = "piece" \/ then = "piece" => op.name = "PROGRAM"
    /\ lpc = "lock" \/ then = "lock" => op.name = "LOCK"
    /\ lpc \in {"disable", "poll WRDI"} => op.name \in Disables
    /\ lpc = "send" => then = "send"

(* The chip's fields; a chip that is not busy changes nothing.              *)
ChipInv ==
    /\ chip = [WIP |-> chip.WIP, WEL |-> chip.WEL, addrBytes |-> chip.addrBytes,
               prot |-> chip.prot, fsr |-> chip.fsr, array |-> chip.array,
               change |-> chip.change, suspended |-> chip.suspended]
    /\ chip.WIP \in BOOLEAN /\ chip.WEL \in BOOLEAN
    /\ chip.array \in [Cell -> SUBSET Cell]
    /\ DOMAIN chip.change \subseteq Cell
    /\ ~chip.WIP => chip.change = Nothing

(* No foreign byte: nor in a change under way, nor in a suspended one.      *)
BytesInv ==
    /\ NoForeignByte
    /\ \A c \in DOMAIN chip.change : chip.change[c] \subseteq {c}
    /\ DOMAIN chip.suspended \subseteq Cell
    /\ \A c \in DOMAIN chip.suspended : chip.suspended[c] \subseteq {c}

(* FlashDataProgram's pieces meet at page boundaries.                       *)
OffInv == op.name = "PROGRAM" =>
    /\ off = 0 \/ off = op.n \/ (op.addr + off) % PageSize = 0
    /\ lpc \in {"check", "wait", "flags"} \/ Sending => off < op.n /\ op.addr + off < FlashSize
    /\ lpc \in {"enable", "poll WEL"} /\ then = "piece" => off = 0

(* What the busy check has found, and WREN, still holds at the command.     *)
ReadyInv == op.name \in (Checked \ {"SUSPEND"}) \cup {"PROGRAM"} /\ Sending =>
    ~chip.WIP /\ (lpc = "send" => chip.WEL)

(* Only until its flags are read, EN4 or EX4 leaves NumAddrByte behind.     *)
ModeInv ==
    NumAddrByte = chip.addrBytes \/ (op.name \in {"EN4", "EX4"} /\ lpc \in {"wait", "flags"})

(* FlashLockSector has checked its area before its second WREN.             *)
Lockable ==
    /\ Area \in PowersOfTwo /\ Area <= Sectors
    /\ Start = 0 \/ Start + Area = Sectors
LockInv == op.name = "LOCK" /\ then = "send" /\ lpc # "idle" => Lockable

Over == lpc = "idle" /\ ret = "Success"
Flagged(kind) == {"PROT", kind} \subseteq chip.fsr
InPlace(S) == \A c \in S : c \in Cell /\ c \in After[c]
PieceCells == op.addr + off .. op.addr + off + Piece - 1

(* What a program has got through is in the array to come; its next piece  *)
(* too, once it is sent, unless it is flagged.                             *)
ProgramInv == op.name = "PROGRAM" =>
    /\ InPlace(op.addr .. op.addr + off - 1)
    /\ lpc \in {"wait", "flags"} => Flagged("PROGRAM") \/ InPlace(PieceCells)
    /\ lpc = "piece" => off = 0 \/ ~chip.WIP
    /\ Over => off = op.n /\ (off = 0 \/ ~chip.WIP)

(* So is an erase.                                                         *)
EraseInv == op.name \in Erases \cup {"BULK"} /\ (lpc \in {"wait", "flags"} \/ Over) =>
    \/ Flagged("ERASE") /\ (Over => op.name # "BULK" /\ ~op.blocking)
    \/ \A c \in Covered(op) : After[c] = {}

(* Who has waited without a timeout leaves the chip ready, and a resume     *)
(* leaves nothing suspended.                                               *)
WaitInv ==
    /\ lpc = "flags" /\ ret = "Success" => ~chip.WIP
    /\ op.name \in {"BULK", "RESUME", "SUSPEND"} /\ Over => ~chip.WIP
    /\ op.name = "RESUME" /\ (lpc \in {"wait", "flags"} \/ Over) => chip.suspended = Nothing

(* The inductive invariant. *)
IInv == TypeOK /\ ControlInv /\ ChipInv /\ BytesInv /\ OffInv /\ ReadyInv /\ ModeInv /\ LockInv
        /\ ProgramInv /\ EraseInv /\ WaitInv

-----------------------------------------------------------------------------
(* Division, pages and sectors. *)

(* Division: the quotient and the remainder.                               *)
LEMMA DivMod ==
    ASSUME NEW a \in Nat, NEW p \in Nat \ {0}
    PROVE  /\ a \div p \in Nat /\ a % p \in 0 .. p - 1
           /\ a = (a \div p) * p + (a % p)
  BY Z3

(* There is only one quotient and one remainder.                           *)
LEMMA DivModUnique ==
    ASSUME NEW p \in Nat \ {0}, NEW q \in Nat, NEW r \in 0 .. p - 1
    PROVE  (q * p + r) \div p = q /\ (q * p + r) % p = r
  OBVIOUS

(* An exact division.                                                      *)
LEMMA DivExact ==
    ASSUME NEW p \in Nat \ {0}, NEW a \in Nat, a % p = 0
    PROVE  a \div p \in Nat /\ a = (a \div p) * p
<1> DEFINE m == (a \div p) * p
<1>1. a = m + (a % p) /\ a \div p \in Nat  BY DivMod
<1>2. m \in Nat  BY <1>1
<1> HIDE DEF m
<1>3. a = m  BY <1>1, <1>2
<1> QED  BY <1>1, <1>3

(* A quotient is below k when the dividend is below k divisors.            *)
LEMMA DivOrder ==
    ASSUME NEW p \in Nat \ {0}, NEW a \in Nat, NEW k \in Nat
    PROVE  a \div p < k <=> a < k * p
<1>1. PICK q \in Nat : a \div p = q  BY DivMod
<1>2. PICK r \in 0 .. p - 1 : a % p = r  BY DivMod
<1>3. a = q * p + r  BY <1>1, <1>2, DivMod
<1>4. CASE q < k
  <2>1. PICK d \in Nat : k = (q + 1) + d  BY <1>4
  <2>2. k * p = (q * p + p) + d * p  BY <2>1
  <2>3. q * p \in Nat /\ d * p \in Nat  OBVIOUS
  <2> QED  BY <1>1, <1>2, <1>3, <1>4, <2>2, <2>3
<1>5. CASE ~(q < k)
  <2>1. PICK d \in Nat : q = k + d  BY <1>5
  <2>2. q * p = k * p + d * p  BY <2>1
  <2>3. k * p \in Nat /\ d * p \in Nat  OBVIOUS
  <2> QED  BY <1>1, <1>2, <1>3, <1>5, <2>2, <2>3
<1> QED  BY <1>4, <1>5

(* Multiples are a divisor apart.                                          *)
LEMMA DivBelow ==
    ASSUME NEW p \in Nat \ {0}, NEW q \in Nat, NEW k \in Nat, q * p < k * p
    PROVE  (q + 1) * p <= k * p
  OBVIOUS

(* The number of sectors.                                                  *)
LEMMA SectorCount ==
           Sectors \in Nat /\ FlashSize = Sectors * SectorSize
<1>1. SectorSize \in Nat \ {0} /\ FlashSize \in Nat /\ FlashSize % SectorSize = 0
  BY GeometryAssumption
<1> QED  BY <1>1, DivExact DEF Sectors

(* Every byte of the array is in a sector of the chip.                     *)
LEMMA SectorOfCell ==
    ASSUME NEW c \in Cell
    PROVE  c \div SectorSize \in Sector
<1>1. SectorSize \in Nat \ {0} /\ FlashSize \in Nat /\ c \in Nat /\ c < FlashSize
  BY GeometryAssumption DEF Cell
<1>2. Sectors \in Nat /\ FlashSize = Sectors * SectorSize
  BY SectorCount
<1>3. c \div SectorSize \in Nat /\ c \div SectorSize < Sectors
  BY <1>1, <1>2, DivMod, DivOrder
<1> QED  BY <1>2, <1>3 DEF Sector

(* Up to the end of the page, a program does not wrap.                     *)
LEMMA InPageIs ==
    ASSUME NEW a \in Nat, NEW i \in Nat, (a % PageSize) + i < PageSize
    PROVE  InPage(a, i) = a + i
<1>1. PageSize \in Nat \ {0}  BY GeometryAssumption
<1>2. PICK q \in Nat : a \div PageSize = q  BY <1>1, DivMod
<1>3. PICK r \in 0 .. PageSize - 1 : a % PageSize = r  BY <1>1, DivMod
<1>4. a = q * PageSize + r  BY <1>1, <1>2, <1>3, DivMod
<1>5. (a + i) % PageSize = r + i
  <2>1. r + i \in 0 .. PageSize - 1  BY <1>1, <1>3
  <2>2. (q * PageSize + (r + i)) % PageSize = r + i  BY <2>1, <1>1, DivModUnique
  <2>3. q * PageSize \in Nat  BY <1>1
  <2>4. a + i = q * PageSize + (r + i)  BY <1>4, <2>3, <1>3
  <2> QED  BY <2>2, <2>4
<1> QED  BY <1>2, <1>5, <1>4, <1>1, <1>3 DEF InPage

(* Nor does it run past the end of the chip, which ends with a page.       *)
LEMMA PageInFlash ==
    ASSUME NEW a \in Cell, NEW i \in Nat, (a % PageSize) + i < PageSize
    PROVE  a + i \in Cell
<1>1. /\ PageSize \in Nat \ {0} /\ FlashSize \in Nat /\ FlashSize % PageSize = 0
      /\ a \in Nat /\ a < FlashSize
  BY GeometryAssumption DEF Cell
<1>2. PICK q \in Nat : a \div PageSize = q  BY <1>1, DivMod
<1>3. PICK r \in 0 .. PageSize - 1 : a % PageSize = r  BY <1>1, DivMod
<1>4. PICK k \in Nat : FlashSize = k * PageSize  BY <1>1, DivExact
<1>5. a = q * PageSize + r  BY <1>1, <1>2, <1>3, DivMod
<1>6. q * PageSize \in Nat /\ (q + 1) * PageSize = q * PageSize + PageSize  BY <1>1
<1>7. (q + 1) * PageSize <= k * PageSize  BY <1>1, <1>3, <1>4, <1>5, <1>6, DivBelow
<1> QED  BY <1>1, <1>3, <1>4, <1>5, <1>6, <1>7 DEF Cell

(* Where the next page begins.                                             *)
LEMMA NextPage ==
    ASSUME NEW a \in Nat
    PROVE  (a + (PageSize - (a % PageSize))) % PageSize = 0
<1>1. PageSize \in Nat \ {0}  BY GeometryAssumption
<1>2. PICK q \in Nat : a \div PageSize = q  BY <1>1, DivMod
<1>3. PICK r \in 0 .. PageSize - 1 : a % PageSize = r  BY <1>1, DivMod
<1>4. a = q * PageSize + r  BY <1>1, <1>2, <1>3, DivMod
<1>5. q * PageSize \in Nat /\ (q + 1) * PageSize = q * PageSize + PageSize  BY <1>1
<1>6. a + (PageSize - r) = (q + 1) * PageSize + 0  BY <1>1, <1>3, <1>4, <1>5
<1>7. ((q + 1) * PageSize + 0) % PageSize = 0  BY <1>1, DivModUnique
<1> QED  BY <1>3, <1>6, <1>7

(* FlashDataProgram's next piece is not empty, does not cross a page, and ends *)
(* the call or ends at a page boundary.                                    *)
LEMMA PieceInPage ==
    ASSUME op.addr \in Nat, op.n \in Nat, off \in Nat, off < op.n,
           off = 0 \/ (op.addr + off) % PageSize = 0
    PROVE  /\ Piece \in 1 .. op.n - off
           /\ ((op.addr + off) % PageSize) + Piece <= PageSize
           /\ off + Piece = op.n \/ (op.addr + (off + Piece)) % PageSize = 0
<1> DEFINE a == op.addr + off
<1>1. PageSize \in Nat \ {0} /\ a \in Nat /\ op.n - off \in Nat \ {0}
  BY GeometryAssumption
<1>2. PICK r \in 0 .. PageSize - 1 : a % PageSize = r  BY <1>1, DivMod
<1>3. (a + (PageSize - r)) % PageSize = 0  BY <1>1, <1>2, NextPage
<1>4. Piece = Least(PageSize - r, op.n - off)
  <2>1. CASE off = 0
    <3>1. op.addr % PageSize = r  BY <2>1, <1>2
    <3>2. (PageSize - r) % PageSize = IF r = 0 THEN 0 ELSE PageSize - r
      <4>1. CASE r = 0
        <5>1. (1 * PageSize + 0) % PageSize = 0  BY <1>1, DivModUnique
        <5>2. 1 * PageSize + 0 = PageSize - r  BY <1>1, <4>1
        <5> QED  BY <5>1, <5>2, <4>1
      <4>2. CASE r # 0
        <5>1. PageSize - r \in 0 .. PageSize - 1  BY <1>1, <1>2, <4>2
        <5>2. (0 * PageSize + (PageSize - r)) % PageSize = PageSize - r
          BY <1>1, <5>1, DivModUnique
        <5>3. 0 * PageSize + (PageSize - r) = PageSize - r  BY <1>1, <5>1
        <5> QED  BY <5>2, <5>3, <4>2
      <4> QED  BY <4>1, <4>2
    <3>3. Piece = IF r = 0 THEN Least(PageSize, op.n - off) ELSE Least(PageSize - r, op.n)
      <4>1. (PageSize - (op.addr % PageSize)) % PageSize = IF r = 0 THEN 0 ELSE PageSize - r
        BY <3>1, <3>2
      <4>2. (IF r = 0 THEN 0 ELSE PageSize - r) > 0 <=> r # 0  BY <1>1, <1>2
      <4> QED  BY <2>1, <4>1, <4>2, Zenon DEF Piece
    <3> QED  BY <1>1, <1>2, <2>1, <3>3
  <2>2. CASE off # 0
    <3>1. r = 0  BY <1>2, <2>2
    <3> QED  BY <1>1, <2>2, <3>1 DEF Piece
  <2> QED  BY <2>1, <2>2
<1> HIDE DEF a
<1>5. Piece \in 1 .. op.n - off /\ r + Piece <= PageSize
      /\ (Piece = op.n - off \/ Piece = PageSize - r)
  BY <1>1, <1>2, <1>4 DEF Least
<1>6. off + Piece = op.n \/ (a + Piece) % PageSize = 0
  BY <1>3, <1>5
<1>7. Piece \in Nat  BY <1>1, <1>5
<1>8. op.addr + (off + Piece) = a + Piece  BY <1>7 DEF a
<1> QED  BY <1>2, <1>5, <1>6, <1>8 DEF a

-----------------------------------------------------------------------------
(* The chip's steps. *)

(* A call that is under way is one of the calls made.                      *)
LEMMA CallTyped ==
    ASSUME ControlInv
    PROVE  /\ op.addr \in Nat /\ op.n \in Nat /\ op.blocking \in BOOLEAN
           /\ op.name \in Names \cup {"none"}
           /\ lpc # "idle" => op \in Op /\ op.name \in Names
<1>1. CASE op \in Op
  BY <1>1, GeometryAssumption DEF Names
<1>2. CASE op = NoOp /\ lpc = "idle"
  BY <1>2 DEF NoOp
<1> QED  BY <1>1, <1>2 DEF ControlInv

(* What the command does, its nested cases taken apart.                    *)
LEMMA CommandCases ==
    ASSUME Command, op.name \in Names
    PROVE  \/ UNCHANGED chip
           \/ op.name = "SUSPEND" /\ ChipSuspend
           \/ op.name = "RESUME" /\ ~chip.WIP /\ ChipResume
           \/ op.name = "PROGRAM" /\ ~chip.WIP /\ ChipProgram(op.addr + off, Piece)
           \/ op.name \in Erases \cup {"BULK"} /\ ~chip.WIP /\ ChipErase(op)
           \/ op.name \in {"LOCK", "UNLOCK", "WRSR"} /\ ~chip.WIP /\ ChipStatus(ucStatusRegister)
           \/ op.name \in Registers /\ ~chip.WIP /\ ChipRegister
           \/ op.name = "EN4" /\ ~chip.WIP /\ ChipMode(4)
           \/ op.name = "EX4" /\ ~chip.WIP /\ ChipMode(3)
<1>1. CASE op.name = "SUSPEND" \/ chip.WIP \/ op.name = "RESUME" \/ ~chip.WEL
  BY <1>1 DEF Command
<1>2. CASE op.name \notin {"SUSPEND", "RESUME"} /\ ~chip.WIP /\ chip.WEL
  <2>1. CASE op.name \in {"PROGRAM", "LOCK", "UNLOCK", "WRSR", "EN4", "EX4"}
    BY <1>2, <2>1 DEF Command
  <2>2. CASE op.name \in Erases \cup {"BULK"}
    BY <1>2, <2>2 DEF Command
  <2>3. CASE op.name \in Registers
    BY <1>2, <2>3 DEF Command
  <2> QED  BY <1>2, <2>1, <2>2, <2>3 DEF Names
<1> QED  BY <1>1, <1>2

(* A chip that is ready does what it is told.                              *)
LEMMA ReadyCommand ==
    ASSUME Command, op.name \in Names, ~chip.WIP, chip.WEL
    PROVE  /\ op.name = "RESUME" => ChipResume
           /\ op.name = "PROGRAM" => ChipProgram(op.addr + off, Piece)
           /\ op.name \in Erases \cup {"BULK"} => ChipErase(op)
  BY DEF Command, Erases, Registers

(* What a change of the array alters: its flags, or the change under way.  *)
LEMMA ChangeEffect ==
    ASSUME ChipInv, NEW new, NEW kind, Change(new, kind)
    PROVE  /\ chip' = [WIP |-> chip'.WIP, WEL |-> chip'.WEL, addrBytes |-> chip'.addrBytes,
                       prot |-> chip'.prot, fsr |-> chip'.fsr, array |-> chip'.array,
                       change |-> chip'.change, suspended |-> chip'.suspended]
           /\ chip'.addrBytes = chip.addrBytes /\ chip'.prot = chip.prot
           /\ chip'.array = chip.array /\ chip'.suspended = chip.suspended
           /\ chip'.WEL \in BOOLEAN
           /\ \/ chip'.WIP = chip.WIP /\ chip'.change = chip.change
                 /\ {"PROT", kind} \subseteq chip'.fsr
              \/ chip'.WIP = TRUE /\ chip'.change = new
<1>1. CASE Protected(DOMAIN new)
  <2>1. PICK wel \in BOOLEAN :
            chip' = [chip EXCEPT !.fsr = @ \cup {"PROT", kind}, !.WEL = wel]
    BY <1>1 DEF Change
  <2> QED  BY <2>1 DEF ChipInv
<1>2. CASE ~Protected(DOMAIN new)
  <2>1. chip' = [chip EXCEPT !.WIP = TRUE, !.change = new]  BY <1>2 DEF Change
  <2> QED  BY <2>1 DEF ChipInv
<1> QED  BY <1>1, <1>2

(* A command leaves the array alone, the address mode unless it is EN4 or EX4, *)
(* and the change under way unless it is about the array.                  *)
LEMMA SendChip ==
    ASSUME TypeOK, ControlInv, ChipInv, Send
    PROVE  /\ chip' = [WIP |-> chip'.WIP, WEL |-> chip'.WEL, addrBytes |-> chip'.addrBytes,
                       prot |-> chip'.prot, fsr |-> chip'.fsr, array |-> chip'.array,
                       change |-> chip'.change, suspended |-> chip'.suspended]
           /\ chip'.WIP \in BOOLEAN /\ chip'.WEL \in BOOLEAN
           /\ chip'.addrBytes \in {3, 4} /\ chip'.prot \subseteq Sector
           /\ chip'.array = chip.array
           /\ op.name \notin {"EN4", "EX4"} => chip'.addrBytes = chip.addrBytes
           /\ op.name \notin Erases \cup {"BULK", "PROGRAM", "RESUME", "SUSPEND"} =>
                 chip'.change = chip.change /\ chip'.suspended = chip.suspended
           /\ ~chip'.WIP => chip'.change = Nothing
<1>0. op \in Op /\ op.name \in Names /\ Command
  BY GeometryAssumption DEF Send, ControlInv, Names
<1>1. CASE UNCHANGED chip
  BY <1>1 DEF TypeOK, ChipInv
<1>2. CASE op.name = "SUSPEND" /\ ChipSuspend
  BY <1>2 DEF ChipSuspend, TypeOK, ChipInv
<1>3. CASE op.name = "RESUME" /\ ~chip.WIP /\ ChipResume
  BY <1>3 DEF ChipResume, TypeOK, ChipInv
<1>4. CASE op.name = "PROGRAM" /\ ~chip.WIP /\ ChipProgram(op.addr + off, Piece)
  BY <1>4, ChangeEffect DEF ChipProgram, TypeOK, ChipInv
<1>5. CASE op.name \in Erases \cup {"BULK"} /\ ~chip.WIP /\ ChipErase(op)
  BY <1>5, ChangeEffect DEF ChipErase, TypeOK, ChipInv
<1>6. CASE op.name \in {"LOCK", "UNLOCK", "WRSR"} /\ ~chip.WIP /\ ChipStatus(ucStatusRegister)
  <2>1. \A sr : Locked(sr) \subseteq Sector  BY DEF Locked
  <2> QED  BY <1>6, <2>1 DEF ChipStatus, TypeOK, ChipInv
<1>7. CASE op.name \in Registers /\ ~chip.WIP /\ ChipRegister
  BY <1>7 DEF ChipRegister, Registers, TypeOK, ChipInv
<1>8. CASE \/ op.name = "EN4" /\ ~chip.WIP /\ ChipMode(4)
           \/ op.name = "EX4" /\ ~chip.WIP /\ ChipMode(3)
  BY <1>8 DEF ChipMode, TypeOK, ChipInv
<1> QED  BY <1>0, <1>1, <1>2, <1>3, <1>4, <1>5, <1>6, <1>7, <1>8, CommandCases

(* The array to come has bytes of its own only.                            *)
LEMMA AfterTyped ==
    ASSUME ChipInv, BytesInv
    PROVE  After \in [Cell -> SUBSET Cell] /\ \A c \in Cell : After[c] \subseteq {c}
  BY DEF After, BytesInv, NoForeignByte

(* The bytes that a piece programs are inside its page, one address each.  *)
LEMMA ProgramCells ==
    ASSUME TypeOK, ControlInv, OffInv, Send, op.name = "PROGRAM"
    PROVE  /\ \A i \in 0 .. Piece - 1 :
                 InPage(op.addr + off, i) = op.addr + off + i /\ op.addr + off + i \in Cell
           /\ Piece \in Nat
<1> DEFINE a == op.addr + off
<1>1. /\ op.addr \in Nat /\ op.n \in Nat /\ off \in Nat /\ off < op.n
      /\ op.addr + off < FlashSize /\ (off = 0 \/ (op.addr + off) % PageSize = 0)
  BY CallTyped DEF Send, OffInv, Sending, TypeOK
<1>2. a \in Nat /\ a \in Cell  BY <1>1, GeometryAssumption DEF Cell
<1>3. Piece \in 1 .. op.n - off /\ (a % PageSize) + Piece <= PageSize
  BY <1>1, PieceInPage
<1>4. a % PageSize \in Nat /\ PageSize \in Nat /\ Piece \in Nat
  <2>1. PageSize \in Nat \ {0}  BY GeometryAssumption
  <2>2. a % PageSize \in 0 .. PageSize - 1  BY <1>2, <2>1, DivMod
  <2> QED  BY <1>3, <2>1, <2>2
<1> HIDE DEF a
<1>5. ASSUME NEW i \in 0 .. Piece - 1
      PROVE  InPage(a, i) = a + i /\ a + i \in Cell
  <2>1. i \in Nat /\ (a % PageSize) + i < PageSize  BY <1>3, <1>4
  <2> QED  BY <1>2, <2>1, InPageIs, PageInFlash
<1> QED  BY <1>4, <1>5 DEF a

(* The new bytes of the command.                                           *)
NewBytes == [c \in {InPage(op.addr + off, i) : i \in 0 .. Piece - 1} |->
                chip.array[c] \cup {op.addr + off + i :
                    i \in {j \in 0 .. Piece - 1 : InPage(op.addr + off, j) = c}}]

(* So it puts the right data in each.                                      *)
LEMMA ProgramBytes ==
    ASSUME TypeOK, ControlInv, OffInv, Send, op.name = "PROGRAM"
    PROVE  /\ DOMAIN NewBytes = PieceCells /\ PieceCells \subseteq Cell
           /\ \A c \in PieceCells : NewBytes[c] = chip.array[c] \cup {c}
           /\ ChipProgram(op.addr + off, Piece) => Change(NewBytes, "PROGRAM")
<1>1. op.addr \in Nat /\ off \in Nat
  <2>1. off \in 0 .. op.n  BY DEF TypeOK
  <2> QED  BY <2>1, CallTyped
<1>2. PICK a \in Nat : a = op.addr + off  BY <1>1
<1>3. PICK k \in Nat : k = Piece  BY ProgramCells
<1>4. \A i \in 0 .. k - 1 : InPage(a, i) = a + i /\ a + i \in Cell
  BY <1>2, <1>3, ProgramCells
<1>5. PieceCells = a .. a + k - 1  BY <1>2, <1>3 DEF PieceCells
<1>6. NewBytes = [c \in {InPage(a, i) : i \in 0 .. k - 1} |->
                chip.array[c] \cup {a + i : i \in {j \in 0 .. k - 1 : InPage(a, j) = c}}]
  BY <1>2, <1>3 DEF NewBytes
<1>7. \A c \in PieceCells : c - a \in 0 .. k - 1 /\ a + (c - a) = c
  BY <1>2, <1>3, <1>5
<1>8. {InPage(a, i) : i \in 0 .. k - 1} = PieceCells
  BY <1>2, <1>3, <1>4, <1>5, <1>7
<1>9. ASSUME NEW c \in PieceCells
      PROVE  {a + i : i \in {j \in 0 .. k - 1 : InPage(a, j) = c}} = {c}
  BY <1>2, <1>3, <1>4, <1>5, <1>7
<1>10. PieceCells \subseteq Cell  BY <1>4, <1>7
<1>11. ChipProgram(op.addr + off, Piece) => Change(NewBytes, "PROGRAM")
  BY DEF ChipProgram, NewBytes
<1> QED  BY <1>6, <1>8, <1>9, <1>10, <1>11

(* No command puts a foreign byte in the change under way or the suspended one. *)
LEMMA SendChange ==
    ASSUME TypeOK, ControlInv, ChipInv, BytesInv, OffInv, Send
    PROVE  /\ DOMAIN chip'.change \subseteq Cell
           /\ \A c \in DOMAIN chip'.change : chip'.change[c] \subseteq {c}
           /\ DOMAIN chip'.suspended \subseteq Cell
           /\ \A c \in DOMAIN chip'.suspended : chip'.suspended[c] \subseteq {c}
<1>0. op \in Op /\ op.name \in Names /\ Command
  BY GeometryAssumption DEF Send, ControlInv, Names
<1>a. DOMAIN Nothing = {}  BY DEF Nothing
<1>1. CASE UNCHANGED chip
  BY <1>1 DEF ChipInv, BytesInv
<1>2. CASE op.name = "SUSPEND" /\ ChipSuspend
  BY <1>2, <1>a DEF ChipSuspend, ChipInv, BytesInv
<1>3. CASE op.name = "RESUME" /\ ~chip.WIP /\ ChipResume
  BY <1>3, <1>a DEF ChipResume, ChipInv, BytesInv
<1>4. CASE op.name = "PROGRAM" /\ ~chip.WIP /\ ChipProgram(op.addr + off, Piece)
  <2>1. Change(NewBytes, "PROGRAM")  BY <1>4, ProgramBytes
  <2>2. /\ chip'.suspended = chip.suspended
        /\ chip'.change = chip.change \/ chip'.change = NewBytes
    BY <2>1, ChangeEffect
  <2>3. DOMAIN NewBytes \subseteq Cell /\ \A c \in DOMAIN NewBytes : NewBytes[c] \subseteq {c}
    BY <1>4, ProgramBytes DEF BytesInv, NoForeignByte
  <2> QED  BY <2>2, <2>3 DEF ChipInv, BytesInv
<1>5. CASE op.name \in Erases \cup {"BULK"} /\ ~chip.WIP /\ ChipErase(op)
  <2>1. /\ chip'.suspended = chip.suspended
        /\ chip'.change = chip.change \/ chip'.change = [c \in Covered(op) |-> {}]
    BY <1>5, ChangeEffect DEF ChipErase
  <2> QED  BY <2>1 DEF ChipInv, BytesInv, Covered
<1>6. CASE op.name \notin Erases \cup {"BULK", "PROGRAM", "RESUME", "SUSPEND"}
  BY <1>6, SendChip DEF ChipInv, BytesInv
<1> QED  BY <1>0, <1>1, <1>2, <1>3, <1>4, <1>5, <1>6, CommandCases DEF Erases, Registers

(* But for a command, a step leaves what the array will be: a change that ends *)
(* only moves into the array.                                              *)
LEMMA StillChip ==
    ASSUME ChipInv, [Next]_vars, ~Send
    PROVE  /\ After' = After /\ chip'.suspended = chip.suspended
           /\ chip'.prot = chip.prot /\ chip'.addrBytes = chip.addrBytes
           /\ chip'.WIP => chip.WIP
           /\ chip'.fsr = chip.fsr \/ Flags
           /\ \/ chip'.array = chip.array /\ chip'.change = chip.change
              \/ chip'.array = After /\ chip'.change = Nothing
<1> USE DEF ChipInv, After
<1>1. CASE Call  BY <1>1 DEF Call
<1>2. CASE CheckBusy  BY <1>2 DEF CheckBusy
<1>3. CASE FlashWriteEnable  BY <1>3 DEF FlashWriteEnable
<1>4. CASE PollWel  BY <1>4 DEF PollWel
<1>5. CASE NextPiece  BY <1>5 DEF NextPiece
<1>6. CASE LockSector  BY <1>6 DEF LockSector
<1>7. CASE FlashWriteDisable  BY <1>7 DEF FlashWriteDisable
<1>8. CASE PollWrdi  BY <1>8 DEF PollWrdi
<1>9. CASE Wait  BY <1>9 DEF Wait
<1>10. CASE Flags
  BY <1>10 DEF Flags
<1>11. CASE ChipDone
  <2>1. chip'.array = After /\ chip'.change = Nothing
    BY <1>11 DEF ChipDone
  <2>2. After' = After
    BY <2>1 DEF Nothing
  <2> QED  BY <1>11, <2>1, <2>2 DEF ChipDone
<1>12. CASE UNCHANGED vars
  BY <1>12 DEF vars
<1> QED
  BY <1>1, <1>2, <1>3, <1>4, <1>5, <1>6, <1>7, <1>8, <1>9, <1>10, <1>11, <1>12
  DEF Next, Step

-----------------------------------------------------------------------------
(* The invariant, part by part. *)

(* The invariant holds after Driver_Init.                                  *)
LEMMA InitInv == Init => IInv
<1> SUFFICES ASSUME Init PROVE IInv  OBVIOUS
<1>1. TypeOK  BY GeometryAssumption DEF Init, TypeOK
<1>2. ControlInv /\ ReadyInv /\ ModeInv /\ LockInv /\ WaitInv /\ EraseInv
  BY DEF Init, ControlInv, NoOp, ReadyInv, ModeInv, LockInv, WaitInv, EraseInv, Erases
<1>3. ChipInv  BY DEF Init, ChipInv, Nothing
<1>4. BytesInv  BY DEF Init, BytesInv, NoForeignByte, Nothing
<1>5. OffInv /\ ProgramInv  BY DEF Init, OffInv, ProgramInv
<1> QED  BY <1>1, <1>2, <1>3, <1>4, <1>5 DEF IInv

(* A step leaves a call at a step of its own.                              *)
LEMMA ControlStep ==
    ASSUME IInv, [Next]_vars
    PROVE  ControlInv'
<1> USE DEF IInv, ControlInv
<1>1. CASE Call
  BY <1>1, GeometryAssumption DEF Call, Goes, Returns
<1>2. CASE CheckBusy  BY IInv, <1>2 DEF Goes, Returns, CheckBusy
<1>3. CASE FlashWriteEnable
  BY <1>3 DEF FlashWriteEnable, Goes
<1>4. CASE PollWel
  <2>1. then \in {"piece", "lock", "send"}  BY DEF TypeOK
  <2> QED  BY <1>4, <2>1 DEF PollWel, Goes, Returns
<1>5. CASE NextPiece  BY IInv, <1>5 DEF Goes, Returns, NextPiece
<1>6. CASE LockSector  BY IInv, <1>6 DEF Goes, Returns, LockSector
<1>7. CASE Send  BY IInv, <1>7 DEF Goes, Returns, Send
<1>8. CASE FlashWriteDisable  BY IInv, <1>8 DEF Goes, FlashWriteDisable
<1>9. CASE PollWrdi  BY IInv, <1>9 DEF Goes, PollWrdi
<1>10. CASE Wait  BY IInv, <1>10 DEF Wait
<1>11. CASE Flags
  <2>1. lpc' \in {"idle", "piece"} /\ op' = op /\ then' = then
        /\ (lpc' = "piece" => op.name = "PROGRAM")
    BY <1>11 DEF Flags, Goes, Returns
  <2>2. op \in Op  BY <1>11 DEF Flags
  <2> QED  BY <2>1, <2>2
<1>12. CASE ChipDone
  BY <1>12 DEF ChipDone, libVars
<1>13. CASE UNCHANGED vars
  BY <1>13 DEF vars, libVars
<1> QED
  BY <1>1, <1>2, <1>3, <1>4, <1>5, <1>6, <1>7, <1>8, <1>9, <1>10, <1>11, <1>12, <1>13
  DEF Next, Step

(* The fields of the chip keep their types, and a chip that is not busy changes *)
(* nothing.                                                                *)
LEMMA ChipStep ==
    ASSUME IInv, [Next]_vars
    PROVE  ChipInv' /\ chip'.addrBytes \in {3, 4} /\ chip'.prot \subseteq Sector
<1> USE DEF IInv
<1>1. CASE Call  BY IInv, <1>1 DEF ChipInv, TypeOK, Call
<1>2. CASE CheckBusy  BY IInv, <1>2 DEF ChipInv, TypeOK, CheckBusy
<1>3. CASE FlashWriteEnable  BY IInv, <1>3 DEF ChipInv, TypeOK, FlashWriteEnable
<1>4. CASE PollWel  BY IInv, <1>4 DEF ChipInv, TypeOK, PollWel
<1>5. CASE NextPiece  BY IInv, <1>5 DEF ChipInv, TypeOK, NextPiece
<1>6. CASE LockSector  BY IInv, <1>6 DEF ChipInv, TypeOK, LockSector
<1>7. CASE Send
  <2>1. chip'.array = chip.array /\ DOMAIN chip'.change \subseteq Cell
    BY <1>7, SendChip, SendChange
  <2> QED  BY <1>7, <2>1, SendChip DEF ChipInv
<1>8. CASE FlashWriteDisable  BY IInv, <1>8 DEF ChipInv, TypeOK, FlashWriteDisable
<1>9. CASE PollWrdi  BY IInv, <1>9 DEF ChipInv, TypeOK, PollWrdi
<1>10. CASE Wait  BY IInv, <1>10 DEF ChipInv, TypeOK, Wait
<1>11. CASE Flags  BY IInv, <1>11 DEF ChipInv, TypeOK, Flags
<1>12. CASE ChipDone
  <2>1. After \in [Cell -> SUBSET Cell]  BY AfterTyped
  <2> QED  BY <1>12, <2>1 DEF ChipDone, ChipInv, TypeOK, Nothing
<1>13. CASE UNCHANGED vars
  BY <1>13 DEF vars, ChipInv, TypeOK
<1> QED
  BY <1>1, <1>2, <1>3, <1>4, <1>5, <1>6, <1>7, <1>8, <1>9, <1>10, <1>11, <1>12, <1>13
  DEF Next, Step

(* Types.                                                                  *)
LEMMA TypeStep ==
    ASSUME IInv, [Next]_vars
    PROVE  TypeOK'
<1>a. chip'.addrBytes \in {3, 4} /\ chip'.prot \subseteq Sector
      /\ \A c \in Cell : chip'.array[c] \in SUBSET Nat
  <2>1. chip'.array \in [Cell -> SUBSET Cell]  BY ChipStep DEF ChipInv
  <2>2. Cell \subseteq Nat  BY DEF Cell
  <2> QED  BY <2>1, <2>2, ChipStep
<1>b. op.addr \in Nat /\ op.n \in Nat  BY CallTyped DEF IInv
<1>c. off \in 0 .. op.n /\ tries \in 0 .. MaxTries /\ udCounter \in Nat
      /\ MaxTries \in Nat \ {0}
  BY GeometryAssumption DEF IInv, TypeOK
<1>1. CASE Call
  <2>1. off' \in 0 .. op'.n /\ tries' = tries /\ udCounter' = udCounter
        /\ NumAddrByte' = NumAddrByte
    BY <1>1, GeometryAssumption DEF Call
  <2>2. lpc' \in {"idle", "check", "enable"} /\ then' \in {"piece", "lock", "send"}
        /\ ret' \in {ret, "SectorNrInvalid", "AddressInvalid"}
    BY <1>1 DEF Call, Goes, Returns
  <2> QED  BY <1>a, <1>c, <2>1, <2>2 DEF IInv, TypeOK
<1>2. CASE CheckBusy  BY <1>a, <1>2 DEF IInv, TypeOK, Goes, Returns, CheckBusy
<1>3. CASE FlashWriteEnable  BY <1>a, <1>3 DEF IInv, TypeOK, Goes, FlashWriteEnable
<1>4. CASE PollWel
  <2>1. tries' \in 0 .. MaxTries
    <3>1. tries' \in {Tried, 0} /\ (Tried >= MaxTries => tries' = 0)
      BY <1>4, Zenon DEF PollWel, Returns
    <3> QED  BY <1>c, <3>1 DEF Tried
  <2>2. lpc' \in {"idle", "poll WEL", then}
        /\ ret' \in {ret, "Success", "OperationTimeOut"}
    BY <1>4 DEF PollWel, Goes, Returns, Result
  <2> QED  BY <1>a, <1>c, <1>4, <2>1, <2>2 DEF PollWel, IInv, TypeOK
<1>5. CASE NextPiece  BY <1>a, <1>5 DEF IInv, TypeOK, Goes, Returns, NextPiece
<1>6. CASE LockSector  BY <1>a, <1>6 DEF IInv, TypeOK, Goes, Returns, LockSector
<1>7. CASE Send  BY <1>a, <1>7 DEF IInv, TypeOK, Goes, Returns, Send
<1>8. CASE FlashWriteDisable  BY <1>a, <1>8 DEF IInv, TypeOK, Goes, FlashWriteDisable
<1>9. CASE PollWrdi  BY <1>a, <1>9 DEF IInv, TypeOK, Goes, PollWrdi
<1>10. CASE Wait
  <2>1. udCounter' \in Nat  BY <1>c, <1>10 DEF Wait, Counted
  <2>2. lpc' \in {"wait", "flags"} /\ ret' \in {ret, "Success", "OperationTimeOut"}
    BY <1>10 DEF Wait
  <2> QED  BY <1>a, <1>c, <1>10, <2>1, <2>2 DEF Wait, IInv, TypeOK
<1>11. CASE Flags
  <2>1. off' = off \/ (op.name = "PROGRAM" /\ off' = off + Piece)
    BY <1>11 DEF Flags
  <2>2. op.name = "PROGRAM" => off < op.n /\ (off = 0 \/ (op.addr + off) % PageSize = 0)
    <3>1. lpc = "flags"  BY <1>11 DEF Flags
    <3>2. OffInv  BY DEF IInv
    <3> QED  BY <1>b, <1>c, <3>1, <3>2 DEF OffInv
  <2>3. off' \in 0 .. op.n
    <3>1. CASE off' = off  BY <1>c, <3>1
    <3>2. CASE op.name = "PROGRAM" /\ off' = off + Piece
      <4>1. off \in Nat  BY <1>b, <1>c
      <4>2. Piece \in 1 .. op.n - off  BY <1>b, <2>2, <3>2, <4>1, PieceInPage
      <4> QED  BY <1>b, <1>c, <3>2, <4>1, <4>2
    <3> QED  BY <2>1, <3>1, <3>2
  <2>4. /\ lpc' \in {"idle", "piece"} /\ NumAddrByte' \in {3, 4}
        /\ ret' \in {ret, "SectorProtected", "Success"}
        /\ UNCHANGED <<op, then, tries, udCounter>>
    <3>1. NumAddrByte \in {3, 4} /\ chip.addrBytes \in {3, 4}  BY DEF IInv, TypeOK
    <3> QED  BY <1>11, <3>1 DEF Flags, Goes, Returns, Result, ModeRead
  <2> QED  BY <1>a, <1>c, <2>3, <2>4 DEF IInv, TypeOK
<1>12. CASE ChipDone
  BY <1>a, <1>12 DEF ChipDone, libVars, IInv, TypeOK
<1>13. CASE UNCHANGED vars
  BY <1>13 DEF vars, libVars, IInv, TypeOK
<1> QED
  BY <1>1, <1>2, <1>3, <1>4, <1>5, <1>6, <1>7, <1>8, <1>9, <1>10, <1>11, <1>12, <1>13
  DEF Next, Step

(* No byte gets to an address that is not its own.                         *)
LEMMA BytesStep ==
    ASSUME IInv, [Next]_vars
    PROVE  BytesInv'
<1>1. CASE Send
  <2>1. chip'.array = chip.array  BY <1>1, SendChip DEF IInv
  <2> QED  BY <1>1, <2>1, SendChange DEF IInv, BytesInv, NoForeignByte
<1>2. CASE ~Send
  <2>1. /\ chip'.suspended = chip.suspended
        /\ \/ chip'.array = chip.array /\ chip'.change = chip.change
           \/ chip'.array = After /\ chip'.change = Nothing
    BY <1>2, StillChip DEF IInv
  <2>2. \A c \in Cell : After[c] \subseteq {c}  BY AfterTyped DEF IInv
  <2> QED  BY <2>1, <2>2 DEF IInv, BytesInv, NoForeignByte, Nothing
<1> QED  BY <1>1, <1>2

(* FlashDataProgram is at a page boundary, at its start or at its end.     *)
LEMMA OffStep ==
    ASSUME IInv, [Next]_vars
    PROVE  OffInv'
<1>a. OffInv /\ ControlInv /\ op.addr \in Nat /\ op.n \in Nat /\ off \in 0 .. op.n
      /\ then \in {"piece", "lock", "send"}
  BY CallTyped DEF IInv, TypeOK
<1> HIDE DEF IInv
<1>1. CASE Call
  BY <1>1 DEF Call, Goes, OffInv, Sending, Checked, Erases
<1>2. CASE CheckBusy
  BY <1>a, <1>2 DEF CheckBusy, OffInv
<1>3. CASE FlashWriteEnable  BY <1>a, <1>3 DEF OffInv, Sending, Goes, FlashWriteEnable
<1>4. CASE PollWel  BY <1>a, <1>4 DEF OffInv, Sending, Goes, Returns, PollWel
<1>5. CASE NextPiece
  <2>1. op.name = "PROGRAM"  BY <1>a, <1>5 DEF NextPiece, ControlInv
  <2>2. UNCHANGED <<op, off, then>> /\ lpc' \in {"idle", "check"}
        /\ (lpc' = "check" => off # op.n /\ ~(op.addr + off >= FlashSize))
    BY <1>5 DEF NextPiece, Goes, Returns
  <2>3. lpc' = "check" => off < op.n /\ op.addr + off < FlashSize
    BY <1>a, <2>2, GeometryAssumption
  <2>4. off = 0 \/ off = op.n \/ (op.addr + off) % PageSize = 0
    BY <1>a, <2>1 DEF OffInv
  <2> QED  BY <2>2, <2>3, <2>4 DEF OffInv, Sending
<1>6. CASE LockSector
  BY <1>a, <1>6 DEF LockSector, ControlInv, OffInv
<1>7. CASE Send  BY <1>a, <1>7 DEF OffInv, Sending, Goes, Send
<1>8. CASE FlashWriteDisable  BY <1>a, <1>8 DEF OffInv, Sending, Goes, FlashWriteDisable
<1>9. CASE PollWrdi
  BY <1>a, <1>9 DEF PollWrdi, ControlInv, Disables, OffInv
<1>10. CASE Wait  BY <1>a, <1>10 DEF OffInv, Wait
<1>11. CASE Flags
  <2>1. UNCHANGED <<op, then>> /\ lpc' \in {"idle", "piece"}
        /\ (off' = off \/ (op.name = "PROGRAM" /\ off' = off + Piece))
    BY <1>11 DEF Flags, Goes, Returns
  <2>2. op.name = "PROGRAM" => off < op.n /\ (off = 0 \/ (op.addr + off) % PageSize = 0)
    <3>1. lpc = "flags"  BY <1>11 DEF Flags
    <3> QED  BY <1>a, <3>1 DEF OffInv
  <2>3. off \in Nat  BY <1>a
  <2>4. op.name = "PROGRAM" => off' = off \/ off' = op.n \/ (op.addr + off') % PageSize = 0
    BY <1>a, <2>1, <2>2, <2>3, PieceInPage
  <2>5. op.name = "PROGRAM" => off' = 0 \/ off' = op.n \/ (op.addr + off') % PageSize = 0
    BY <2>2, <2>4
  <2> QED  BY <2>1, <2>5 DEF OffInv, Sending
<1>12. CASE ChipDone
  BY <1>a, <1>12 DEF ChipDone, libVars, OffInv, Sending
<1>13. CASE UNCHANGED vars
  BY <1>a, <1>13 DEF vars, libVars, OffInv, Sending
<1> QED
  BY <1>1, <1>2, <1>3, <1>4, <1>5, <1>6, <1>7, <1>8, <1>9, <1>10, <1>11, <1>12, <1>13
  DEF Next, Step

(* A call that looked whether the chip is busy finds it ready at its command: *)
(* nothing that the chip does on its own makes it busy.                    *)
LEMMA ReadyStep ==
    ASSUME IInv, [Next]_vars
    PROVE  ReadyInv'
<1>a. ReadyInv /\ ControlInv /\ ChipInv /\ then \in {"piece", "lock", "send"}
  BY DEF IInv, TypeOK
<1> HIDE DEF IInv
<1>1. CASE Call  BY <1>a, <1>1 DEF ReadyInv, Sending, Goes, Returns, Call
<1>2. CASE CheckBusy
  <2>1. IsFlashBusy = (op.name = "SUSPEND") => op.name = "SUSPEND" \/ ~chip.WIP
    BY <1>a DEF IsFlashBusy
  <2>2. lpc' = "idle" \/ (lpc' = "enable" /\ IsFlashBusy = (op.name = "SUSPEND"))
    BY <1>2 DEF CheckBusy, Goes, Returns
  <2> QED  BY <1>2, <2>1, <2>2 DEF CheckBusy, ReadyInv, Sending
<1>3. CASE FlashWriteEnable
  BY <1>a, <1>3 DEF ReadyInv, ChipInv, Sending, Goes, FlashWriteEnable
<1>4. CASE PollWel  BY <1>a, <1>4 DEF ReadyInv, Sending, Goes, Returns, PollWel
<1>5. CASE NextPiece  BY <1>a, <1>5 DEF ReadyInv, Sending, Goes, Returns, NextPiece
<1>6. CASE LockSector  BY <1>a, <1>6 DEF ReadyInv, ControlInv, Checked, Erases, LockSector
<1>7. CASE Send  BY <1>a, <1>7 DEF ReadyInv, Sending, Goes, Returns, Send
<1>8. CASE FlashWriteDisable  BY <1>a, <1>8 DEF ReadyInv, Sending, Goes, FlashWriteDisable
<1>9. CASE PollWrdi  BY <1>a, <1>9 DEF ReadyInv, Sending, Goes, PollWrdi
<1>10. CASE Wait  BY <1>a, <1>10 DEF ReadyInv, Sending, Wait
<1>11. CASE Flags  BY <1>a, <1>11 DEF ReadyInv, Sending, Goes, Returns, Flags
<1>12. CASE ChipDone
  BY <1>a, <1>12 DEF ChipDone, libVars, ReadyInv, Sending
<1>13. CASE UNCHANGED vars
  BY <1>a, <1>13 DEF vars, libVars, ReadyInv, Sending
<1> QED
  BY <1>1, <1>2, <1>3, <1>4, <1>5, <1>6, <1>7, <1>8, <1>9, <1>10, <1>11, <1>12, <1>13
  DEF Next, Step

(* The bytes of an address are as many as the chip expects, but while a mode *)
(* command is waited for.                                                  *)
LEMMA ModeStep ==
    ASSUME IInv, [Next]_vars
    PROVE  ModeInv'
<1>a. ModeInv /\ ControlInv /\ TypeOK /\ ChipInv
  BY DEF IInv
<1>b. ~Send => chip'.addrBytes = chip.addrBytes  BY <1>a, StillChip
<1>c. Send => lpc = "send"  BY DEF Send
<1> HIDE DEF IInv
<1>1. CASE Call  BY <1>a, <1>b, <1>c, <1>1 DEF ModeInv, Call
<1>2. CASE CheckBusy  BY <1>a, <1>b, <1>c, <1>2 DEF ModeInv, CheckBusy
<1>3. CASE FlashWriteEnable  BY <1>a, <1>b, <1>c, <1>3 DEF ModeInv, FlashWriteEnable
<1>4. CASE PollWel  BY <1>a, <1>b, <1>c, <1>4 DEF ModeInv, PollWel
<1>5. CASE NextPiece  BY <1>a, <1>b, <1>c, <1>5 DEF ModeInv, NextPiece
<1>6. CASE LockSector  BY <1>a, <1>b, <1>c, <1>6 DEF ModeInv, LockSector
<1>7. CASE Send
  <2>1. op.name \notin {"EN4", "EX4"} => chip'.addrBytes = chip.addrBytes
    BY <1>a, <1>7, SendChip
  <2> QED  BY <1>a, <1>7, <2>1 DEF Send, ModeInv, Goes, Disables
<1>8. CASE FlashWriteDisable  BY <1>a, <1>b, <1>c, <1>8 DEF ModeInv, FlashWriteDisable
<1>9. CASE PollWrdi  BY <1>a, <1>b, <1>c, <1>9 DEF ModeInv, PollWrdi
<1>10. CASE Wait  BY <1>a, <1>b, <1>c, <1>10 DEF ModeInv, Wait
<1>11. CASE Flags
  BY <1>a, <1>b, <1>11 DEF Flags, ModeInv, ModeRead
<1>12. CASE ChipDone
  BY <1>a, <1>b, <1>12 DEF ChipDone, libVars, ModeInv
<1>13. CASE UNCHANGED vars
  BY <1>a, <1>b, <1>13 DEF vars, libVars, ModeInv
<1> QED
  BY <1>1, <1>2, <1>3, <1>4, <1>5, <1>6, <1>7, <1>8, <1>9, <1>10, <1>11, <1>12, <1>13
  DEF Next, Step

(* FlashLockSector goes on only with an area that the protect bits can name. *)
LEMMA LockStep ==
    ASSUME IInv, [Next]_vars
    PROVE  LockInv'
<1>a. LockInv /\ ControlInv /\ then \in {"piece", "lock", "send"}
  BY DEF IInv, TypeOK
<1>b. UNCHANGED op => Lockable' = Lockable  BY DEF Lockable, Area, Start
<1> HIDE DEF IInv
<1>1. CASE Call
  BY <1>1 DEF Call, LockInv
<1>2. CASE CheckBusy
  BY <1>a, <1>2 DEF CheckBusy, LockInv, ControlInv, Checked, Erases
<1>3. CASE FlashWriteEnable  BY <1>a, <1>b, <1>3 DEF LockInv, FlashWriteEnable
<1>4. CASE PollWel  BY <1>a, <1>b, <1>4 DEF LockInv, PollWel
<1>5. CASE NextPiece  BY <1>a, <1>b, <1>5 DEF LockInv, NextPiece
<1>6. CASE LockSector
  BY <1>a, <1>b, <1>6 DEF LockSector, LockInv, Lockable, Returns
<1>7. CASE Send  BY <1>a, <1>b, <1>7 DEF LockInv, Send
<1>8. CASE FlashWriteDisable  BY <1>a, <1>b, <1>8 DEF LockInv, FlashWriteDisable
<1>9. CASE PollWrdi  BY <1>a, <1>b, <1>9 DEF LockInv, PollWrdi
<1>10. CASE Wait  BY <1>a, <1>b, <1>10 DEF LockInv, Wait
<1>11. CASE Flags  BY <1>a, <1>b, <1>11 DEF LockInv, Flags
<1>12. CASE ChipDone
  BY <1>a, <1>b, <1>12 DEF ChipDone, libVars, LockInv
<1>13. CASE UNCHANGED vars
  BY <1>a, <1>b, <1>13 DEF vars, libVars, LockInv
<1> QED
  BY <1>1, <1>2, <1>3, <1>4, <1>5, <1>6, <1>7, <1>8, <1>9, <1>10, <1>11, <1>12, <1>13
  DEF Next, Step

(* How a call comes to return Flash_Success.                               *)
LEMMA Succeeds ==
    ASSUME IInv, [Next]_vars, op'.name \in Erases \cup {"BULK", "PROGRAM", "RESUME", "SUSPEND"},
           Over'
    PROVE  /\ op' = op /\ op \in Op \cup {NoOp} /\ off' = off
           /\ \/ Over /\ (ChipDone \/ UNCHANGED vars)
              \/ CheckBusy /\ op.name = "SUSPEND" /\ ~chip.WIP
              \/ NextPiece /\ off = op.n
              \/ Send /\ op.name \in {"SECTOR", "DIE"} /\ ~op.blocking
              \/ Flags /\ op.name \in Erases /\ ~Flagged("ERASE")
              \/ Flags /\ op.name \in {"BULK", "RESUME", "SUSPEND"} /\ ret = "Success"
                 /\ (op.name = "BULK" => ~Flagged("ERASE"))
<1>a. ControlInv /\ chip.WIP \in BOOLEAN /\ then \in {"piece", "lock", "send"}
  BY DEF IInv, TypeOK, ChipInv
<1>b. op \in Op \cup {NoOp}  BY <1>a DEF ControlInv
<1> HIDE DEF IInv
<1>1. CASE Call
  BY <1>1 DEF Call, Goes, Returns, Over
<1>2. CASE CheckBusy
  <2>1. lpc' = "idle" /\ ret' = "Success"  BY DEF Over
  <2>2. ~IsFlashBusy /\ IsFlashBusy # (op.name = "SUSPEND") /\ UNCHANGED <<op, off>>
    BY <1>2, <2>1 DEF CheckBusy, Goes, Returns
  <2> QED  BY <1>a, <1>b, <1>2, <2>2 DEF IsFlashBusy
<1>3. CASE PollWel
  BY <1>a, <1>3 DEF PollWel, Goes, Returns, Over, Result, Erases
<1>4. CASE NextPiece
  BY <1>b, <1>4 DEF NextPiece, Goes, Returns, Over
<1>5. CASE LockSector
  BY <1>5 DEF LockSector, Goes, Returns, Over
<1>6. CASE Send
  BY <1>b, <1>6 DEF Send, Goes, Over
<1>7. CASE Flags
  <2>1. lpc' = "idle" /\ ret' = "Success" /\ op' = op /\ lpc = "flags"
    BY <1>7 DEF Over, Flags
  <2>2. op.name = "PROGRAM" => FALSE
    BY <1>7, <2>1 DEF Flags, Goes, Returns, Result, Erases
  <2>3. op.name \in Erases \cup {"BULK"} => ~Flagged("ERASE")
    BY <1>7, <2>1 DEF Flags, Returns, Flagged, SectorProtected, Erases
  <2>4. op.name \in {"BULK", "RESUME", "SUSPEND"} => ret = "Success"
    BY <1>7, <2>1 DEF Flags, Returns, Result, Erases
  <2>5. off' = off
    BY <1>7, <2>1 DEF Flags, Goes
  <2> QED  BY <1>b, <1>7, <2>1, <2>2, <2>3, <2>4, <2>5
<1>8. CASE FlashWriteEnable \/ FlashWriteDisable \/ PollWrdi \/ Wait
  BY <1>8 DEF FlashWriteEnable, FlashWriteDisable, PollWrdi, Wait, Goes, Over
<1>9. CASE ChipDone
  BY <1>b, <1>9 DEF ChipDone, libVars, Over
<1>10. CASE UNCHANGED vars
  BY <1>b, <1>10 DEF vars, libVars, Over
<1> QED  BY <1>1, <1>2, <1>3, <1>4, <1>5, <1>6, <1>7, <1>8, <1>9, <1>10 DEF Next, Step

(* The command of an erase that is ready empties its range in the array to come, *)
(* or its flags are set.                                                   *)
LEMMA SendErase ==
    ASSUME IInv, Send, op.name \in Erases \cup {"BULK"}
    PROVE  Flagged("ERASE")' \/ \A c \in Covered(op) : After'[c] = {}
<1>1. op.name \in Names /\ Command /\ ~chip.WIP /\ chip.WEL
  <2>1. ControlInv /\ ReadyInv /\ lpc = "send" /\ Command  BY DEF IInv, Send
  <2>2. op.name \in Checked \ {"SUSPEND"}  BY DEF Checked, Erases
  <2> QED  BY <2>1, <2>2, CallTyped DEF ReadyInv, Sending
<1>2. ChipErase(op)  BY <1>1, ReadyCommand
<1>3. Flagged("ERASE")' \/ chip'.change = [c \in Covered(op) |-> {}]
  BY <1>2, ChangeEffect DEF IInv, ChipErase, Flagged
<1>4. Covered(op) \subseteq Cell  BY DEF Covered
<1> QED  BY <1>3, <1>4 DEF After

(* That of a program adds its piece, or its flags are set.                 *)
LEMMA SendProgram ==
    ASSUME IInv, Send, op.name = "PROGRAM"
    PROVE  /\ \A c \in Cell : c \in After[c] => c \in After'[c]
           /\ Flagged("PROGRAM")' \/ \A c \in PieceCells : c \in Cell /\ c \in After'[c]
<1>1. op.name \in Names /\ Command /\ ~chip.WIP /\ chip.WEL
  BY CallTyped DEF IInv, Send, ReadyInv, Sending
<1>2. Change(NewBytes, "PROGRAM")  BY <1>1, ReadyCommand, ProgramBytes DEF IInv
<1>3. /\ chip'.array = chip.array
      /\ \/ chip'.change = chip.change /\ {"PROT", "PROGRAM"} \subseteq chip'.fsr
         \/ chip'.change = NewBytes
  BY <1>2, ChangeEffect DEF IInv
<1>4. chip.change = Nothing /\ DOMAIN Nothing = {}  BY <1>1 DEF IInv, ChipInv, Nothing
<1>5. \A c \in Cell : After[c] = chip.array[c]  BY <1>4 DEF After
<1>6. /\ DOMAIN NewBytes = PieceCells /\ PieceCells \subseteq Cell
      /\ \A c \in PieceCells : NewBytes[c] = chip.array[c] \cup {c}
  BY ProgramBytes DEF IInv
<1>7. CASE chip'.change = chip.change /\ {"PROT", "PROGRAM"} \subseteq chip'.fsr
  BY <1>3, <1>7 DEF After, Flagged
<1>8. CASE chip'.change = NewBytes
  <2>1. \A c \in Cell : After'[c] = IF c \in PieceCells THEN chip.array[c] \cup {c}
                                    ELSE chip.array[c]
    BY <1>3, <1>6, <1>8 DEF After
  <2> QED  BY <1>5, <1>6, <2>1
<1> QED  BY <1>3, <1>7, <1>8

(* An erase that waits, or is over with success, is in the array to come.  *)
LEMMA EraseStep ==
    ASSUME IInv, [Next]_vars
    PROVE  EraseInv'
<1> SUFFICES ASSUME op'.name \in Erases \cup {"BULK"}, lpc' \in {"wait", "flags"} \/ Over'
             PROVE  \/ Flagged("ERASE")' /\ (Over' => op'.name # "BULK" /\ ~op'.blocking)
                    \/ \A c \in Covered(op)' : After'[c] = {}
  BY DEF EraseInv
<1>a. EraseInv /\ ControlInv /\ ChipInv /\ then \in {"piece", "lock", "send"}
  BY DEF IInv, TypeOK
<1>b. op' = op /\ (ChipDone \/ Send \/ Wait \/ UNCHANGED vars
                   \/ (Flags /\ (op.name \in Erases \cup {"BULK"} => ~Flagged("ERASE")))
                   \/ (CheckBusy /\ op.name = "SUSPEND") \/ (NextPiece /\ op.name = "PROGRAM"))
  <2>1. CASE Over'
    <3>1. NextPiece => op.name = "PROGRAM"  BY <1>a DEF NextPiece, ControlInv
    <3> QED  BY <2>1, <3>1, Succeeds DEF Erases
  <2>2. CASE lpc' \in {"wait", "flags"}
    <3>1. ~Call /\ ~CheckBusy /\ ~NextPiece /\ ~LockSector /\ ~Flags
      BY <2>2 DEF Call, CheckBusy, NextPiece, LockSector, Flags, Goes, Returns
    <3>2. ~FlashWriteEnable /\ ~FlashWriteDisable /\ ~PollWel
      BY <1>a, <2>2 DEF FlashWriteEnable, FlashWriteDisable, PollWel, Goes, Returns
    <3>3. PollWrdi => op.name \in Disables /\ op' = op  BY <1>a DEF PollWrdi, ControlInv
    <3>4. ~PollWrdi  BY <3>3 DEF Disables, Erases
    <3>5. ChipDone \/ Send \/ Wait \/ UNCHANGED vars
      BY <3>1, <3>2, <3>4 DEF Next, Step
    <3> QED  BY <3>5 DEF ChipDone, Send, Wait, libVars, vars
  <2> QED  BY <2>1, <2>2
<1>c. Covered(op)' = Covered(op)  BY <1>b
<1>1. CASE Send
  <2>1. Over' => op.name # "BULK" /\ ~op.blocking
    BY <1>1 DEF Send, Over, Goes
  <2>2. op.name \in Erases \cup {"BULK"}  BY <1>b
  <2> QED  BY <1>1, <1>b, <1>c, <2>1, <2>2, SendErase
<1>2. CASE ~Send
  <2>1. After' = After  BY <1>a, <1>2, StillChip
  <2>2. lpc \in {"wait", "flags"} \/ Over
    BY <1>b, <1>2 DEF ChipDone, Wait, Flags, vars, libVars, Over, Erases
  <2>3. \/ Flagged("ERASE") /\ (Over => op.name # "BULK" /\ ~op.blocking)
        \/ \A c \in Covered(op) : After[c] = {}
    BY <1>a, <1>b, <2>2 DEF EraseInv
  <2>4. Flagged("ERASE") => Flagged("ERASE")' /\ (Over' => Over)
    <3>1. Wait => lpc' # "idle"  BY DEF Wait
    <3>2. ChipDone \/ UNCHANGED vars => (Over' <=> Over)
      BY DEF ChipDone, vars, libVars, Over
    <3>3. op.name \in Erases \cup {"BULK"}  BY <1>b
    <3>4. op.name # "SUSPEND" /\ op.name # "PROGRAM"  BY <3>3 DEF Erases
    <3>5. Over' => lpc' = "idle"  BY DEF Over
    <3>6. Flagged("ERASE") => ChipDone \/ Wait \/ UNCHANGED vars
      BY <1>b, <1>2, <3>3, <3>4
    <3>7. ChipDone \/ Wait \/ UNCHANGED vars => chip'.fsr = chip.fsr
      BY <1>a DEF ChipDone, Wait, vars, ChipInv
    <3> QED  BY <3>1, <3>2, <3>5, <3>6, <3>7 DEF Flagged
  <2> QED  BY <1>b, <1>c, <2>1, <2>3, <2>4
<1> QED  BY <1>1, <1>2

(* So is what a program has got through, and the piece it waits for.       *)
LEMMA ProgramStep ==
    ASSUME IInv, [Next]_vars
    PROVE  ProgramInv'
<1> SUFFICES ASSUME op'.name = "PROGRAM"
             PROVE  /\ \A c \in op'.addr .. op'.addr + off' - 1 : c \in Cell /\ c \in After'[c]
                    /\ lpc' \in {"wait", "flags"} =>
                          \/ Flagged("PROGRAM")'
                          \/ \A c \in PieceCells' : c \in Cell /\ c \in After'[c]
                    /\ lpc' = "piece" => off' = 0 \/ ~chip'.WIP
                    /\ Over' => off' = op'.n /\ (off' = 0 \/ ~chip'.WIP)
  BY DEF ProgramInv, InPlace
<1>a. /\ ProgramInv /\ ControlInv /\ ChipInv /\ OffInv /\ WaitInv
      /\ then \in {"piece", "lock", "send"} /\ off \in 0 .. op.n
      /\ op.addr \in Nat /\ op.n \in Nat
  BY CallTyped DEF IInv, TypeOK
<1>1. CASE Call
  <2>1. off' = 0 /\ lpc' \in {"enable", "idle"} /\ op' \in Op
        /\ (lpc' = "idle" => ret' \in {"SectorNrInvalid", "AddressInvalid"})
    BY <1>1 DEF Call, Goes, Checked, Erases
  <2>2. op'.addr \in Nat  BY <2>1, GeometryAssumption
  <2>3. op'.addr .. op'.addr + off' - 1 = {}  BY <2>1, <2>2
  <2> QED  BY <2>1, <2>3 DEF Over
<1>2. CASE Flags
  <2>1. lpc = "flags" /\ op' = op /\ op.name = "PROGRAM"  BY <1>2 DEF Flags
  <2>2. CASE off' = off + Piece /\ lpc' = "piece" /\ ret = "Success" /\ ~Flagged("PROGRAM")
    <3>1. After' = After /\ ~chip'.WIP
      BY <1>2, <1>a, <2>1, <2>2, StillChip DEF Send, WaitInv
    <3>2. \A c \in op.addr .. op.addr + off - 1 : c \in Cell /\ c \in After[c]
      BY <1>a, <2>1 DEF ProgramInv, InPlace
    <3>3. \A c \in PieceCells : c \in Cell /\ c \in After[c]
      BY <1>a, <2>1, <2>2 DEF ProgramInv, InPlace
    <3>4. Piece \in 1 .. op.n - off
      <4>1. off < op.n /\ (off = 0 \/ (op.addr + off) % PageSize = 0)
        BY <1>a, <2>1 DEF OffInv
      <4> QED  BY <1>a, <4>1, PieceInPage
    <3>5. \A c \in op.addr .. op.addr + (off + Piece) - 1 :
              c \in op.addr .. op.addr + off - 1 \/ c \in PieceCells
      BY <1>a, <3>4 DEF PieceCells
    <3> QED  BY <2>1, <2>2, <3>1, <3>2, <3>3, <3>5 DEF Over
  <2>3. CASE off' = off /\ lpc' = "idle" /\ ret' # "Success"
    <3>1. After' = After  BY <1>2, <1>a, <2>1, StillChip DEF Send
    <3> QED  BY <1>a, <2>1, <2>3, <3>1 DEF ProgramInv, InPlace, Over
  <2> QED
    BY <1>2, <2>1, <2>2, <2>3 DEF Flags, Goes, Returns, Result, Flagged, SectorProtected,
       Erases
<1>3. CASE Send
  <2>1. op' = op /\ off' = off /\ lpc' = "wait" /\ op.name = "PROGRAM"
    BY <1>3 DEF Send, Goes, Disables
  <2>2. PieceCells' = PieceCells  BY <2>1 DEF PieceCells, Piece
  <2> QED  BY <1>a, <1>3, <2>1, <2>2, SendProgram DEF ProgramInv, InPlace, Over
<1>4. CASE ~Call /\ ~Flags /\ ~Send
  <2>1. op' = op /\ off' = off /\ op.name = "PROGRAM"
    BY <1>4 DEF Next, Step, CheckBusy, FlashWriteEnable, PollWel, NextPiece, LockSector,
       FlashWriteDisable, PollWrdi, Wait, ChipDone, libVars, vars
  <2>2. /\ After' = After /\ (chip'.WIP => chip.WIP)
        /\ Flagged("PROGRAM")' = Flagged("PROGRAM")
    BY <1>4, <1>a, StillChip DEF Flagged
  <2>3. PieceCells' = PieceCells  BY <2>1 DEF PieceCells, Piece
  <2>4. lpc' \in {"wait", "flags"} => lpc \in {"wait", "flags"}
    <3> SUFFICES ASSUME lpc' \in {"wait", "flags"} PROVE lpc \in {"wait", "flags"}  OBVIOUS
    <3>1. ~CheckBusy /\ ~NextPiece /\ ~LockSector
      BY DEF CheckBusy, NextPiece, LockSector, Goes, Returns
    <3>2. ~FlashWriteEnable /\ ~FlashWriteDisable /\ ~PollWel
      BY <1>a DEF FlashWriteEnable, FlashWriteDisable, PollWel, Goes, Returns
    <3>3. ~PollWrdi  BY <1>a, <2>1 DEF PollWrdi, ControlInv, Disables
    <3> QED  BY <1>4, <3>1, <3>2, <3>3 DEF Next, Step, Wait, ChipDone, libVars, vars
  <2>5. lpc' = "piece" => off = 0 \/ ~chip.WIP
    <3> SUFFICES ASSUME lpc' = "piece" PROVE off = 0 \/ ~chip.WIP  OBVIOUS
    <3>1. CASE PollWel
      BY <1>a, <2>1, <3>1 DEF PollWel, Goes, Returns, OffInv
    <3>2. ~PollWel => lpc = "piece"
      BY <1>4 DEF Next, Step, CheckBusy, FlashWriteEnable, NextPiece, LockSector,
         FlashWriteDisable, PollWrdi, Wait, ChipDone, libVars, vars, Goes, Returns
    <3> QED  BY <1>a, <2>1, <3>1, <3>2 DEF ProgramInv
  <2>6. Over' => off = op.n /\ (off = 0 \/ ~chip.WIP)
    <3> SUFFICES ASSUME Over' PROVE off = op.n /\ (off = 0 \/ ~chip.WIP)  OBVIOUS
    <3>1. Over \/ (NextPiece /\ off = op.n)
      BY <1>4, <2>1, Succeeds
    <3> QED  BY <1>a, <2>1, <3>1 DEF ProgramInv, NextPiece
  <2> QED  BY <1>a, <2>1, <2>2, <2>3, <2>4, <2>5, <2>6 DEF ProgramInv, InPlace
<1> QED  BY <1>1, <1>2, <1>3, <1>4

(* A wait without a timeout ends with the chip's work.                     *)
LEMMA WaitStep ==
    ASSUME IInv, [Next]_vars
    PROVE  WaitInv'
<1>a. WaitInv /\ ControlInv /\ ChipInv /\ then \in {"piece", "lock", "send"}
  BY DEF IInv, TypeOK
<1>1. lpc' = "flags" /\ ret' = "Success" => ~chip'.WIP
  <2> SUFFICES ASSUME lpc' = "flags", ret' = "Success" PROVE ~chip'.WIP  OBVIOUS
  <2>1. ~Call /\ ~CheckBusy /\ ~NextPiece /\ ~LockSector /\ ~Flags /\ ~PollWrdi /\ ~Send
    BY DEF Call, CheckBusy, NextPiece, LockSector, Flags, PollWrdi, Send, Goes, Returns
  <2>2. ~FlashWriteEnable /\ ~FlashWriteDisable /\ ~PollWel
    BY <1>a DEF FlashWriteEnable, FlashWriteDisable, PollWel, Goes, Returns
  <2>3. Wait => ~chip.WIP  BY DEF Wait
  <2>4. ChipDone \/ UNCHANGED vars => ~chip.WIP
    BY <1>a DEF ChipDone, libVars, vars, WaitInv
  <2>5. chip'.WIP => chip.WIP  BY <1>a, <2>1, StillChip
  <2> QED  BY <2>1, <2>2, <2>3, <2>4, <2>5 DEF Next, Step
<1>2. op'.name \in {"BULK", "RESUME", "SUSPEND"} /\ Over' => ~chip'.WIP
  <2> SUFFICES ASSUME op'.name \in {"BULK", "RESUME", "SUSPEND"}, Over' PROVE ~chip'.WIP
    OBVIOUS
  <2>1. op' = op /\ ~Send /\ ~chip.WIP
    BY <1>a, Succeeds DEF Erases, WaitInv, ControlInv, NextPiece, Send, Over, Flags,
       CheckBusy
  <2> QED  BY <1>a, <2>1, StillChip
<1>3. op'.name = "RESUME" /\ (lpc' \in {"wait", "flags"} \/ Over') => chip'.suspended = Nothing
  <2> SUFFICES ASSUME op'.name = "RESUME", lpc' \in {"wait", "flags"} \/ Over'
               PROVE  chip'.suspended = Nothing
    OBVIOUS
  <2>1. CASE Send
    <3>1. ~chip.WIP /\ op.name = "RESUME" /\ Command
      BY <2>1 DEF Send, IInv, ReadyInv, Sending, Checked
    <3>2. ChipResume  BY <3>1 DEF Command
    <3> QED  BY <1>a, <3>2 DEF ChipResume, ChipInv
  <2>2. CASE ~Send
    <3>1. op.name = "RESUME" /\ (lpc \in {"wait", "flags"} \/ Over)
      <4>1. CASE Over'
        BY <1>a, <2>2, <4>1, Succeeds DEF ControlInv, NextPiece, Flags
      <4>2. CASE lpc' \in {"wait", "flags"}
        <5>1. ~Call /\ ~CheckBusy /\ ~NextPiece /\ ~LockSector /\ ~Flags
          BY <4>2 DEF Call, CheckBusy, NextPiece, LockSector, Flags, Goes, Returns
        <5>2. ~FlashWriteEnable /\ ~FlashWriteDisable /\ ~PollWel
          BY <1>a, <4>2 DEF FlashWriteEnable, FlashWriteDisable, PollWel, Goes, Returns
        <5>3. ~PollWrdi  BY <1>a DEF PollWrdi, ControlInv, Disables
        <5> QED
          BY <2>2, <4>2, <5>1, <5>2, <5>3 DEF Next, Step, Wait, ChipDone, libVars, vars
      <4> QED  BY <4>1, <4>2
    <3>2. chip.suspended = Nothing  BY <1>a, <3>1 DEF WaitInv
    <3> QED  BY <1>a, <2>2, <3>2, StillChip
  <2> QED  BY <2>1, <2>2
<1> QED  BY <1>1, <1>2, <1>3 DEF WaitInv

(* The invariant holds for every geometry, every set of calls, every number of *)
(* tries and every timeout, however long the chip takes.                   *)
THEOREM MT25QInvariant == Spec => []IInv
<1>1. IInv /\ [Next]_vars => IInv'
  BY TypeStep, ControlStep, ChipStep, BytesStep, OffStep, ReadyStep, ModeStep, LockStep,
     ProgramStep, EraseStep, WaitStep DEF IInv
<1> QED  BY InitInv, <1>1, PTL DEF Spec

-----------------------------------------------------------------------------
(* The protect bits. *)

(* The powers of two are in order. *)
LEMMA DoubledOrder ==
    /\ DOMAIN Doubled = 1 .. 13
    /\ \A k \in 1 .. 13 : Doubled[k] \in Nat \ {0}
    /\ \A j, k \in 1 .. 13 : j < k => Doubled[j] < Doubled[k]
<1>1. /\ Doubled[1] = 1 /\ Doubled[2] = 2 /\ Doubled[3] = 4 /\ Doubled[4] = 8
      /\ Doubled[5] = 16 /\ Doubled[6] = 32 /\ Doubled[7] = 64 /\ Doubled[8] = 128
      /\ Doubled[9] = 256 /\ Doubled[10] = 512 /\ Doubled[11] = 1024
      /\ Doubled[12] = 2048 /\ Doubled[13] = 4096
      /\ DOMAIN Doubled = 1 .. 13
  BY DEF Doubled
<1>2. \A k \in 1 .. 13 : k = 1 \/ k = 2 \/ k = 3 \/ k = 4 \/ k = 5 \/ k = 6 \/ k = 7
                        \/ k = 8 \/ k = 9 \/ k = 10 \/ k = 11 \/ k = 12 \/ k = 13
  OBVIOUS
<1> QED  BY <1>1, <1>2

(* Each is at least twice those before it. *)
LEMMA NextDoubled ==
    \A i, j \in 1 .. 13 : i < j => 2 * Doubled[i] <= Doubled[j]
<1>1. \A i \in 1 .. 12 : Doubled[i + 1] = 2 * Doubled[i]
  <2>1. \A k \in 1 .. 12 : k = 1 \/ k = 2 \/ k = 3 \/ k = 4 \/ k = 5 \/ k = 6 \/ k = 7
                        \/ k = 8 \/ k = 9 \/ k = 10 \/ k = 11 \/ k = 12
    OBVIOUS
  <2> QED  BY <2>1 DEF Doubled
<1> SUFFICES ASSUME NEW i \in 1 .. 13, NEW j \in 1 .. 13, i < j
             PROVE  2 * Doubled[i] <= Doubled[j]
  OBVIOUS
<1>2. i \in 1 .. 12 /\ i + 1 \in 1 .. 13 /\ (i + 1 = j \/ i + 1 < j)
  OBVIOUS
<1>3. Doubled[i + 1] \in Nat /\ Doubled[j] \in Nat  BY <1>2, DoubledOrder
<1>4. i + 1 < j => Doubled[i + 1] < Doubled[j]  BY <1>2, DoubledOrder
<1> QED  BY <1>1, <1>2, <1>3, <1>4

(* If the area is the m-th of them, the loop leaves BP = m.                *)
LEMMA LoopCounts ==
    ASSUME NEW m \in 1 .. 13, Area = Doubled[m], Area <= Sectors
    PROVE  BP = m
<1>1. Sectors \in Nat  BY SectorCount
<1>2. Passed = 1 .. m - 1
  <2>1. ASSUME NEW k \in 1 .. 13, k < m
        PROVE  Doubled[k] <= Sectors /\ \A j \in 1 .. k : Doubled[j] # Area
    <3>1. Doubled[k] < Doubled[m]  BY <2>1, DoubledOrder
    <3>2. \A j \in 1 .. k : j \in 1 .. 13 /\ j < m  BY <2>1
    <3>3. \A j \in 1 .. k : Doubled[j] < Doubled[m]  BY <3>2, DoubledOrder
    <3>4. \A j \in 1 .. 13 : Doubled[j] \in Nat  BY DoubledOrder
    <3> QED  BY <1>1, <3>1, <3>2, <3>3, <3>4
  <2>2. ASSUME NEW k \in 1 .. 13, ~(k < m)
        PROVE  ~\A j \in 1 .. k : Doubled[j] # Area
    <3>1. m \in 1 .. k  BY <2>2
    <3> QED  BY <3>1
  <2>3. Passed = {k \in 1 .. 13 : /\ Doubled[k] <= Sectors
                                  /\ \A j \in 1 .. k : Doubled[j] # Area}
    BY DoubledOrder DEF Passed
  <2>4. \A k \in 1 .. 13 : k \in Passed <=> k < m  BY <2>1, <2>2, <2>3
  <2>5. Passed \subseteq 1 .. 13  BY <2>3
  <2>6. \A k \in 1 .. 13 : k < m <=> k \in 1 .. m - 1  OBVIOUS
  <2>7. 1 .. m - 1 \subseteq 1 .. 13  OBVIOUS
  <2> QED  BY <2>4, <2>5, <2>6, <2>7
<1>3. Cardinality(1 .. m - 1) = m - 1  BY FS_Interval
<1> QED  BY <1>2, <1>3 DEF BP

(* The chip reads from the register the BP and the TB that were put in it.  *)
LEMMA BitsAgree ==
    ASSUME NEW m \in 1 .. 13, BP = m
    PROVE  BlockProtect(SR) = m /\ (Bottom(SR) <=> TB = 1)
<1>1. TB \in 0 .. 1  BY DEF TB
<1>2. PICK h \in 0 .. 1, l \in 0 .. 7 : m \div 8 = h /\ m % 8 = l /\ m = h * 8 + l
  BY DivMod
<1>3. SR = h * 64 + TB * 32 + l * 4  BY <1>2 DEF SR
<1>4. SR \div 64 = h /\ SR \div 32 = h * 2 + TB /\ SR \div 4 = h * 16 + TB * 8 + l
  BY <1>1, <1>3
<1>5. (SR \div 64) % 2 = h /\ (SR \div 32) % 2 = TB /\ (SR \div 4) % 8 = l
  BY <1>1, <1>4
<1> QED  BY <1>1, <1>2, <1>5 DEF BlockProtect, Bottom

(* What the chip makes of the register names the sectors asked for.        *)
LEMMA LockedIsAsked ==
    ASSUME op \in Op, op.name = "LOCK", Lockable
    PROVE  Locked(SR) = Asked
<1>1. PICK N \in Nat : N = Sectors  BY SectorCount
<1>2. PICK m \in 1 .. 13 : Area = Doubled[m]
  BY DoubledOrder DEF Lockable, PowersOfTwo
<1>3. PICK k \in Nat \ {0} : k = Area  BY <1>2, DoubledOrder
<1>4. PICK q \in Nat : q = Start
  <2>1. op.addr \in Nat /\ SectorSize \in Nat \ {0}  BY GeometryAssumption
  <2> QED  BY <2>1, DivMod DEF Start
<1>5. k <= N /\ (q = 0 \/ q + k = N)  BY <1>1, <1>3, <1>4 DEF Lockable
<1>6. k < N => 2 * k <= N
  <2>1. PICK n \in 1 .. 13 : N = Doubled[n]
    BY <1>1, LockAssumption, DoubledOrder DEF PowersOfTwo
  <2>2. m < n \/ m = n \/ n < m  OBVIOUS
  <2>3. k < N => m < n  BY <1>2, <1>3, <2>1, <2>2, DoubledOrder
  <2>4. \A i, j \in 1 .. 13 : i < j => 2 * Doubled[i] <= Doubled[j]
    BY NextDoubled
  <2> QED  BY <1>2, <1>3, <2>1, <2>3, <2>4
<1>7. BP = m  BY <1>1, <1>2, <1>3, <1>5, LoopCounts
<1>8. BlockProtect(SR) = m /\ (Bottom(SR) <=> TB = 1)  BY <1>7, BitsAgree
<1>9. m # 0 /\ m \in DOMAIN Doubled  BY DoubledOrder
<1>10. Locked(SR) = {s \in Sector : IF Bottom(SR) THEN s < k ELSE s >= N - k}
  BY <1>1, <1>2, <1>3, <1>8, <1>9 DEF Locked
<1>11. Sector = 0 .. N - 1 /\ Asked = q .. q + k - 1
  BY <1>1, <1>3, <1>4 DEF Sector, Asked
<1>12. PICK h \in Nat : N \div 2 = h  BY DivMod
<1>13. 2 * h <= N /\ N <= 2 * h + 1  BY <1>12
<1>14. Bottom(SR) <=> q < h  BY <1>1, <1>4, <1>8, <1>12 DEF TB
<1>15. CASE q < h
  <2>1. Locked(SR) = {s \in Sector : s < k}  BY <1>10, <1>14, <1>15
  <2>2. q = 0  BY <1>5, <1>6, <1>13, <1>15
  <2> QED  BY <1>5, <1>11, <2>1, <2>2
<1>16. CASE ~(q < h)
  <2>1. Locked(SR) = {s \in Sector : s >= N - k}  BY <1>10, <1>14, <1>16
  <2>2. CASE q + k = N  BY <1>5, <1>11, <2>1, <2>2
  <2>3. CASE q = 0 /\ k # N
    <3>1. N <= 1  BY <1>13, <1>16, <2>3
    <3> QED  BY <1>5, <2>3, <3>1
  <2> QED  BY <1>5, <2>2, <2>3
<1> QED  BY <1>15, <1>16

(* For a range of whole sectors these are the sectors it covers.           *)
LEMMA WholeSectors ==
    ASSUME op \in Op, op.name = "LOCK", Lockable,
           op.addr % SectorSize = 0, op.n % SectorSize = 0
    PROVE  Asked = {c \div SectorSize : c \in Covered(op)}
<1>1. SectorSize \in Nat \ {0} /\ FlashSize \in Nat /\ op.addr \in Nat /\ op.n \in Nat
  BY GeometryAssumption
<1>2. PICK q \in Nat : Start = q  BY <1>1, DivMod DEF Start
<1>3. PICK k \in Nat : Area = k  BY <1>1, DivMod DEF Area
<1>4. op.addr = q * SectorSize  BY <1>1, <1>2, DivExact DEF Start
<1>5. op.n = k * SectorSize  BY <1>1, <1>3, DivExact DEF Area
<1>6. op.addr + op.n = (q + k) * SectorSize /\ q + k \in Nat  BY <1>1, <1>4, <1>5
<1>7. ASSUME NEW c \in Cell
      PROVE  c \in op.addr .. op.addr + op.n - 1
                 <=> q <= c \div SectorSize /\ c \div SectorSize < q + k
  <2>1. c \in Nat  BY DEF Cell
  <2>2. PICK d \in Nat : c \div SectorSize = d  BY <1>1, <2>1, DivMod
  <2>3. d < q + k <=> c < op.addr + op.n  BY <1>1, <1>6, <2>1, <2>2, DivOrder
  <2>4. d < q <=> c < op.addr  BY <1>1, <1>4, <2>1, <2>2, DivOrder
  <2>5. c \in op.addr .. op.addr + op.n - 1 <=> ~(c < op.addr) /\ c < op.addr + op.n
    BY <1>1, <2>1
  <2>6. q <= d <=> ~(d < q)  BY <2>2
  <2> QED  BY <2>2, <2>3, <2>4, <2>5, <2>6
<1>8. ASSUME NEW s \in Sector
      PROVE  \E c \in Cell : c \div SectorSize = s
  <2>1. s \in Nat /\ s < Sectors  BY SectorCount DEF Sector
  <2>2. (s * SectorSize + 0) \div SectorSize = s  BY <1>1, <2>1, DivModUnique
  <2>3. s * SectorSize \in Nat /\ s * SectorSize + 0 = s * SectorSize  BY <1>1, <2>1
  <2>4. s * SectorSize < FlashSize
    BY <1>1, <2>1, <2>2, <2>3, SectorCount, DivOrder
  <2> QED  BY <1>1, <2>2, <2>3, <2>4 DEF Cell
<1>9. Covered(op) = {x \in Cell : x \in op.addr .. op.addr + op.n - 1}
  BY DEF Covered
<1>10. ASSUME NEW c \in Covered(op)
       PROVE  c \div SectorSize \in Asked
  <2>1. c \div SectorSize \in Nat  BY <1>1, <1>9, DivMod DEF Cell
  <2> QED  BY <1>2, <1>3, <1>7, <1>9, <2>1 DEF Asked
<1>11. ASSUME NEW s \in Asked
       PROVE  \E c \in Covered(op) : c \div SectorSize = s
  <2>1. s \in Nat /\ q <= s /\ s < q + k  BY <1>2, <1>3 DEF Asked
  <2>2. q + k <= Sectors  BY <1>2, <1>3, SectorCount DEF Lockable
  <2>3. s \in Sector  BY <2>1, <2>2, SectorCount DEF Sector
  <2>4. PICK c \in Cell : c \div SectorSize = s  BY <1>8, <2>3
  <2> QED  BY <1>7, <1>9, <2>1, <2>4
<1> QED  BY <1>10, <1>11

(* Only the register of a FlashLockSector that has passed its checks changes *)
(* the protection during such a call.                                      *)
LEMMA LockSent ==
    ASSUME IInv, [Next]_vars, op.name = "LOCK", chip'.prot # chip.prot
    PROVE  op \in Op /\ Lockable /\ chip'.prot = Locked(SR)
<1>1. Send  BY StillChip DEF IInv
<1>2. op \in Op /\ Lockable /\ op.name \in Names /\ Command /\ ChipInv
  BY <1>1, CallTyped DEF IInv, LockInv, ControlInv, Send
<1>3. ChipStatus(ucStatusRegister)
  BY <1>2, CommandCases DEF Erases, Registers
<1>4. ucStatusRegister = SR  BY DEF ucStatusRegister
<1> QED  BY <1>2, <1>3, <1>4 DEF ChipStatus, ChipInv

-----------------------------------------------------------------------------
(* The properties. *)

(* The types of MT25Q.c's variables and of the chip's state.               *)
THEOREM MT25QTypeCorrect == Spec => []TypeOK
<1>1. IInv => TypeOK  BY DEF IInv
<1> QED  BY MT25QInvariant, <1>1, PTL

(* Flash_Success of FlashDataProgram, FlashBulkErase, the resume and the suspend *)
(* means that the chip has done it.                                        *)
THEOREM MT25QSuccess == Spec => []SuccessMeansDone
<1>1. IInv => SuccessMeansDone
  <2> SUFFICES ASSUME IInv, lpc = "idle", ret = "Success" PROVE SuccessMeansDone
    BY DEF SuccessMeansDone
  <2>a. /\ ControlInv /\ ChipInv /\ ProgramInv /\ EraseInv /\ WaitInv /\ Over
        /\ op.addr \in Nat /\ op.n \in Nat
    BY CallTyped DEF IInv, Over
  <2>b. ~chip.WIP => \A c \in Cell : After[c] = chip.array[c]
    BY <2>a DEF ChipInv, After, Nothing
  <2>1. CASE op.name = "PROGRAM"
    <3>1. off = op.n /\ (op.n = 0 \/ ~chip.WIP)  BY <2>a, <2>1 DEF ProgramInv
    <3>2. \A c \in op.addr .. op.addr + op.n - 1 : c \in Cell /\ c \in After[c]
      BY <2>a, <2>1, <3>1 DEF ProgramInv, InPlace
    <3>3. op.n = 0 => op.addr .. op.addr + op.n - 1 = {}  BY <2>a
    <3>4. \A c \in op.addr .. op.addr + op.n - 1 : c \in chip.array[c]
      BY <2>b, <3>1, <3>2, <3>3
    <3> QED  BY <2>1, <3>4 DEF SuccessMeansDone
  <2>2. CASE op.name = "BULK"
    <3>1. ~chip.WIP /\ \A c \in Covered(op) : After[c] = {}
      BY <2>a, <2>2 DEF EraseInv, WaitInv
    <3>2. Covered(op) = Cell  BY <2>2 DEF Covered
    <3> QED  BY <2>2, <2>b, <3>1, <3>2 DEF SuccessMeansDone
  <2>3. CASE op.name \in {"RESUME", "SUSPEND"}
    BY <2>a, <2>3 DEF WaitInv, SuccessMeansDone
  <2>4. CASE op.name \notin {"PROGRAM", "BULK", "RESUME", "SUSPEND"}
    BY <2>4 DEF SuccessMeansDone
  <2> QED  BY <2>1, <2>2, <2>3, <2>4
<1> QED  BY MT25QInvariant, <1>1, PTL

(* Flash_Success of a sector, die or sub-sector erase means that the chip has *)
(* taken it, or, of a call that did not wait, flagged its target protected. *)
THEOREM MT25QEraseTaken == Spec => []SuccessMeansTaken
<1>1. IInv => SuccessMeansTaken
  BY DEF IInv, EraseInv, Over, Flagged, SectorProtected, SuccessMeansTaken
<1> QED  BY MT25QInvariant, <1>1, PTL

(* FlashDataProgram never wraps in a page: no byte is programmed at an address *)
(* that is not its own.                                                    *)
THEOREM MT25QNoForeignByte == Spec => []NoForeignByte
<1>1. IInv => NoForeignByte  BY DEF IInv, BytesInv
<1> QED  BY MT25QInvariant, <1>1, PTL

(* Programs and erases have as many address bytes as the chip expects, also *)
(* after a mode command was lost on a busy chip.                           *)
THEOREM MT25QAddrMode == Spec => []AddrModeAgrees
<1>1. IInv => AddrModeAgrees  BY DEF IInv, ModeInv, AddrModeAgrees
<1> QED  BY MT25QInvariant, <1>1, PTL

(* A program, an erase, a write of the one-time area or of the protection bits *)
(* by sector, all of which look whether the chip is busy, never send their *)
(* command to a chip that is or has lost WEL.  Nothing of the kind is said *)
(* of a suspend, which is for a busy chip, nor of a resume.                *)
THEOREM MT25QNoCommandLost == Spec => NoCommandLost
<1>1. IInv /\ [Next]_vars =>
        [lpc = "send" /\ lpc' # "send"
         /\ op.name \in (Checked \ {"RESUME", "SUSPEND"}) \cup {"PROGRAM"}
         => ~chip.WIP /\ chip.WEL]_vars
  BY DEF IInv, ReadyInv, Sending
<1> QED  BY MT25QInvariant, <1>1, PTL DEF Spec, NoCommandLost

(* A lock that the chip takes protects the sectors it was asked for, no more *)
(* and no fewer, for every power of two of sectors at either end of a chip *)
(* of any of the supported sizes.                                          *)
THEOREM MT25QLockIsExact == Spec => LockIsExact
<1>1. IInv /\ [Next]_vars => [op.name = "LOCK" /\ chip'.prot # chip.prot => chip'.prot = Asked]_vars
  <2> SUFFICES ASSUME IInv, [Next]_vars, op.name = "LOCK", chip'.prot # chip.prot
               PROVE  chip'.prot = Asked
    OBVIOUS
  <2>1. op \in Op /\ Lockable /\ chip'.prot = Locked(SR)  BY LockSent
  <2> QED  BY <2>1, LockedIsAsked
<1> QED  BY MT25QInvariant, <1>1, PTL DEF Spec, LockIsExact

(* In addresses: of a range of whole sectors every byte is protected then, and *)
(* no sector that has none of them.                                        *)
THEOREM MT25QLockCovers ==
    Spec => [][op.name = "LOCK" /\ op.addr % SectorSize = 0 /\ op.n % SectorSize = 0
               /\ chip'.prot # chip.prot
               => chip'.prot = {c \div SectorSize : c \in Covered(op)}]_vars
<1>1. IInv /\ [Next]_vars =>
        [op.name = "LOCK" /\ op.addr % SectorSize = 0 /\ op.n % SectorSize = 0
         /\ chip'.prot # chip.prot
         => chip'.prot = {c \div SectorSize : c \in Covered(op)}]_vars
  <2> SUFFICES ASSUME IInv, [Next]_vars, op.name = "LOCK", chip'.prot # chip.prot,
                      op.addr % SectorSize = 0, op.n % SectorSize = 0
               PROVE  chip'.prot = {c \div SectorSize : c \in Covered(op)}
    OBVIOUS
  <2>1. op \in Op /\ Lockable /\ chip'.prot = Locked(SR)  BY LockSent
  <2> QED  BY <2>1, LockedIsAsked, WholeSectors
<1> QED  BY MT25QInvariant, <1>1, PTL DEF Spec
=============================================================================
