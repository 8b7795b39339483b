-------------------------- MODULE QspiBoot_proofs --------------------------
(***************************************************************************)
(* Theorems about QspiBoot, for any number of resets, any readers, files   *)
(* and lengths: what drvInit leaves the chip in, when it fails, and what   *)
(* the readers get.                                                        *)
(***************************************************************************)
EXTENDS QspiBoot, SequenceTheorems, TLAPS

USE RestartAssumption, FileAssumption

-----------------------------------------------------------------------------
(* The driver task and the chip. *)

Bytes == {"manId", "memType", "memCapacity", "none"}
InInit == {"drvInit", "reset", "tcWait", "DR", "addrWait", "quadWait"}

BootTypeOK ==
    /\ ipc \in InInit \cup {"delay", "loop", "change"}
    /\ attempt \in 1 .. 2
    /\ id \in Seq(Bytes) /\ Len(id) <= 3
    /\ found \in BOOLEAN
    /\ drivStatus \in {"INIT", "INIT_ERR", "READY"}
    /\ ctl \in [ins : {"NONE", "RST_QUAD", "RDID", "EN4BYTEADDR", "ENT_QUAD"},
                left : 0 .. 3, heard : BOOLEAN]
    /\ tcf \in BOOLEAN
    /\ fifo \in Seq(Bytes)
    /\ chip \in [present : BOOLEAN, lines : {1, 4}, addrBytes : {3, 4}, WIP : BOOLEAN]
    /\ bootBusy \in BOOLEAN /\ polled \in BOOLEAN /\ restarts \in 0 .. MaxRestarts

(* Which command can be on the bus at each place of drvInit. *)
BusOK ==
    /\ ctl.ins = "RDID" <=> ctl.left > 0
    /\ ipc \in {"drvInit", "delay", "loop", "change"} => ctl.ins = "NONE" /\ fifo = <<>>
    /\ ipc = "reset" => ctl.ins \in {"NONE", "RST_QUAD"} /\ fifo = <<>>
    /\ ipc \in {"drvInit", "reset", "tcWait"} => id = <<>>
    /\ ipc \in {"tcWait", "DR"} =>
         /\ ctl.ins \in {"NONE", "RDID"}
         /\ Len(id) + Len(fifo) + ctl.left = 3
    /\ ipc = "addrWait" => ctl.ins \in {"NONE", "EN4BYTEADDR"} /\ fifo = <<>>
    /\ ipc = "quadWait" => ctl.ins \in {"NONE", "ENT_QUAD"} /\ fifo = <<>>
    /\ ipc \in {"addrWait", "quadWait"} => Len(id) = 3
    /\ drivStatus = "READY" <=> ipc \in {"loop", "change"}
    /\ drivStatus = "INIT_ERR" <=> ipc = "delay"

(* The chip takes commands on one line. *)
Listens == chip.present /\ ~chip.WIP /\ chip.lines = 1

(* Only a chip that listens sends identification bytes, and then it hears   *)
(* the two mode commands that follow.                                      *)
HeardOrNone ==
    /\ ipc \in {"tcWait", "DR"} =>
         \/ Listens
         \/ /\ ctl.ins = "RDID" => ~ctl.heard
            /\ \A i \in 1 .. Len(id) : id[i] = "none"
            /\ \A i \in 1 .. Len(fifo) : fifo[i] = "none"
    /\ ipc = "addrWait" /\ id = ExpectedId =>
         /\ Listens
         /\ IF ctl.ins = "NONE" THEN chip.addrBytes = 4 ELSE ctl.heard
    /\ ipc = "quadWait" /\ id = ExpectedId =>
         /\ chip.present /\ ~chip.WIP /\ chip.addrBytes = 4
         /\ IF ctl.ins = "NONE" THEN chip.lines = 4 ELSE ctl.heard
    /\ ipc \in {"loop", "change"} /\ found => Configured /\ (ipc = "loop" /\ ~polled => ~chip.WIP)
    /\ ipc \in InInit \cup {"delay"} => ~found

(* A chip that is there and was not busy at the reset is always found, at   *)
(* the first attempt.                                                      *)
FoundAtOnce ==
    chip.present /\ ~bootBusy =>
        /\ attempt = 1 /\ ipc # "delay"
        /\ ipc \notin {"loop", "change"} => ~chip.WIP
        /\ ipc = "reset" => IF ctl.ins = "NONE" THEN chip.lines = 1
                            ELSE ctl.heard = (chip.lines = 4)
        /\ ipc \in {"tcWait", "DR"} =>
             /\ Listens
             /\ ctl.ins = "RDID" => ctl.heard
             /\ \A i \in 1 .. Len(id) : id[i] = ExpectedId[i]
             /\ \A i \in 1 .. Len(fifo) : fifo[i] = ExpectedId[Len(id) + i]
        /\ ipc \in {"addrWait", "quadWait"} => id = ExpectedId
        /\ ipc \in {"loop", "change"} => found

BootInv == BootTypeOK /\ BusOK /\ HeardOrNone /\ FoundAtOnce

(* The state at a reset. *)
Chip == [present : BOOLEAN, lines : {1, 4}, addrBytes : {3, 4}, WIP : BOOLEAN]
AtReset ==
    /\ ipc = "drvInit" /\ attempt = 1 /\ id = <<>> /\ found = FALSE
    /\ drivStatus = "INIT"
    /\ ctl = NoCommand /\ tcf = FALSE /\ fifo = <<>>
    /\ chip \in Chip /\ bootBusy = chip.WIP /\ polled = FALSE
    /\ restarts \in 0 .. MaxRestarts

LEMMA ResetInv == AtReset => BootInv
  <1> SUFFICES ASSUME AtReset PROVE BootInv
    OBVIOUS
  <1> USE DEF AtReset
  <1>0. <<>> \in Seq(Bytes) /\ Len(<<>>) = 0
    OBVIOUS
  <1>1. BootTypeOK
    <2>1. ctl \in [ins : {"NONE", "RST_QUAD", "RDID", "EN4BYTEADDR", "ENT_QUAD"},
                   left : 0 .. 3, heard : BOOLEAN]
      BY DEF NoCommand
    <2>2. attempt \in 1 .. 2 /\ bootBusy \in BOOLEAN
      BY DEF Chip
    <2>3. found \in BOOLEAN /\ polled \in BOOLEAN /\ tcf \in BOOLEAN
      OBVIOUS
    <2>4. id \in Seq(Bytes) /\ Len(id) <= 3 /\ fifo \in Seq(Bytes)
      BY <1>0
    <2> QED BY <2>1, <2>2, <2>3, <2>4 DEF BootTypeOK, InInit, Chip
  <1>2. BusOK
    BY <1>0 DEF BusOK, NoCommand
  <1>3. HeardOrNone
    BY DEF HeardOrNone, InInit
  <1>4. FoundAtOnce
    BY DEF FoundAtOnce, Chip
  <1> QED
    BY <1>1, <1>2, <1>3, <1>4 DEF BootInv

LEMMA ResetInvNext == AtReset' => BootInv'
  BY ResetInv, PTL

LEMMA InitBootInv == InitBoot => BootInv
  <1>1. \A p \in BOOLEAN : PoweredUp(p) \in Chip /\ PoweredUp(p).WIP = FALSE
    BY DEF PoweredUp, Chip
  <1>2. ASSUME InitBoot PROVE AtReset
    <2>1. PICK p \in BOOLEAN : chip = PoweredUp(p)
      BY <1>2 DEF InitBoot
    <2>2. chip \in Chip /\ chip.WIP = FALSE
      BY <1>1, <2>1
    <2>3. restarts \in 0 .. MaxRestarts
      BY <1>2 DEF InitBoot
    <2> QED BY <1>2, <2>2, <2>3 DEF InitBoot, AtReset
  <1> QED BY <1>2, ResetInv

LEMMA RestartInv == BootInv /\ Restart => BootInv'
  <1> SUFFICES ASSUME BootInv, Restart PROVE AtReset'
    BY ResetInvNext
  <1>1. chip \in Chip /\ PoweredUp(chip.present) \in Chip
    BY DEF BootInv, BootTypeOK, Chip, PoweredUp
  <1> QED
    BY <1>1 DEF BootInv, BootTypeOK, Restart, AtReset, NoCommand, Chip

(* Commands that are issued. *)
LEMMA ResetQuadInv == BootInv /\ ResetQuad /\ UNCHANGED historyVars => BootInv'
  <1> SUFFICES ASSUME BootInv, ResetQuad, UNCHANGED historyVars PROVE BootInv'
    OBVIOUS
  <1> USE DEF ResetQuad, Issue, Started, Lines, historyVars
  <1>1. ipc = "drvInit" /\ ipc' = "reset"
    OBVIOUS
  <1>2. ctl' = [ins |-> "RST_QUAD", left |-> 0, heard |-> chip.present /\ ~chip.WIP /\ chip.lines = 4]
    OBVIOUS
  <1>3. UNCHANGED <<attempt, id, found, drivStatus, tcf, fifo, chip, bootBusy, polled, restarts>>
    OBVIOUS
  <1>4. BootTypeOK'
    BY <1>1, <1>2, <1>3 DEF BootInv, BootTypeOK, InInit
  <1>5. BusOK'
    BY <1>1, <1>2, <1>3 DEF BootInv, BusOK
  <1>6. HeardOrNone'
    BY <1>1, <1>2, <1>3 DEF BootInv, HeardOrNone, InInit
  <1>7. FoundAtOnce'
    BY <1>1, <1>2, <1>3 DEF BootInv, BootTypeOK, FoundAtOnce
  <1> QED
    BY <1>4, <1>5, <1>6, <1>7 DEF BootInv

LEMMA ReadIdInv == BootInv /\ ReadId /\ UNCHANGED historyVars => BootInv'
  <1> SUFFICES ASSUME BootInv, ReadId, UNCHANGED historyVars PROVE BootInv'
    OBVIOUS
  <1> USE DEF ReadId, Issue, Started, Lines, historyVars
  <1>1. /\ ipc = "reset" /\ ipc' = "tcWait" /\ ctl.ins = "NONE" /\ fifo = <<>> /\ id = <<>>
        /\ ctl' = [ins |-> "RDID", left |-> 3,
                   heard |-> chip.present /\ ~chip.WIP /\ chip.lines = 1]
        /\ UNCHANGED <<attempt, id, found, drivStatus, tcf, fifo, chip, bootBusy, polled, restarts>>
    BY DEF BusyOver, Busy, BootInv, BusOK
  <1>2. Len(id) = 0 /\ Len(fifo) = 0
    BY <1>1
  <1>3. BootTypeOK'
    BY <1>1 DEF BootInv, BootTypeOK, InInit
  <1>4. BusOK'
    BY <1>1, <1>2 DEF BootInv, BusOK
  <1>5. HeardOrNone'
    BY <1>1, <1>2 DEF BootInv, BootTypeOK, HeardOrNone, InInit, Listens
  <1>6. FoundAtOnce'
    BY <1>1, <1>2 DEF BootInv, BootTypeOK, FoundAtOnce, Listens
  <1> QED
    BY <1>3, <1>4, <1>5, <1>6 DEF BootInv

LEMMA TransferCompleteInv == BootInv /\ TransferComplete /\ UNCHANGED historyVars => BootInv'
  <1> SUFFICES ASSUME BootInv, TransferComplete, UNCHANGED historyVars PROVE BootInv'
    OBVIOUS
  <1>1. /\ ipc = "tcWait" /\ ipc' = "DR"
        /\ UNCHANGED <<attempt, id, found, drivStatus, ctl, tcf, fifo, chip, bootBusy, polled, restarts>>
    BY DEF TransferComplete, busVars, historyVars
  <1>3. BootTypeOK'
    BY <1>1 DEF BootInv, BootTypeOK, InInit
  <1>4. BusOK'
    BY <1>1 DEF BootInv, BusOK
  <1>5. HeardOrNone'
    BY <1>1 DEF BootInv, HeardOrNone, InInit, Listens
  <1>6. FoundAtOnce'
    BY <1>1 DEF BootInv, FoundAtOnce, Listens
  <1> QED
    BY <1>3, <1>4, <1>5, <1>6 DEF BootInv

(* A byte moves from the FIFO to the identification. *)
LEMMA ReadDRInv == BootInv /\ ReadDR /\ UNCHANGED historyVars => BootInv'
  <1> SUFFICES ASSUME BootInv, ReadDR, UNCHANGED historyVars PROVE BootInv'
    OBVIOUS
  <1>1. /\ ipc = "DR" /\ ipc' = "DR" /\ Len(id) < 3
        /\ ctl.ins \in {"NONE", "RDID"} /\ Len(id) + Len(fifo) + ctl.left = 3
        /\ ctl.ins = "RDID" <=> ctl.left > 0
        /\ id \in Seq(Bytes) /\ fifo \in Seq(Bytes) /\ ctl.left \in 0 .. 3
        /\ UNCHANGED <<attempt, found, drivStatus, ctl, tcf, chip, bootBusy, polled, restarts>>
    BY DEF ReadDR, historyVars, BootInv, BootTypeOK, BusOK
  <1>2. fifo # <<>>
    BY <1>1 DEF ReadDR
  <1>3. /\ Len(id) \in Nat /\ Len(fifo) \in Nat \ {0} /\ Head(fifo) = fifo[1]
        /\ \A i \in 1 .. Len(fifo) : fifo[i] \in Bytes
    BY <1>1, <1>2, EmptySeq, LenProperties, ElementOfSeq
  <1>4. /\ id' = Append(id, fifo[1]) /\ fifo' = Tail(fifo)
    BY <1>2, <1>3 DEF ReadDR
  <1>5. /\ id' \in Seq(Bytes) /\ Len(id') = Len(id) + 1
        /\ \A i \in 1 .. Len(id) : id'[i] = id[i]
        /\ id'[Len(id) + 1] = fifo[1]
    BY <1>1, <1>3, <1>4, AppendProperties
  <1>6. /\ fifo' \in Seq(Bytes) /\ Len(fifo') = Len(fifo) - 1
        /\ \A i \in 1 .. Len(fifo) - 1 : fifo'[i] = fifo[i + 1]
    BY <1>1, <1>2, <1>4, HeadTailProperties
  <1>7. BootTypeOK'
    BY <1>1, <1>3, <1>5, <1>6 DEF BootInv, BootTypeOK
  <1>8. BusOK'
    BY <1>1, <1>3, <1>5, <1>6 DEF BootInv, BusOK
  <1>9. HeardOrNone'
    <2>1. CASE Listens
      BY <1>1, <2>1 DEF BootInv, HeardOrNone, Listens, InInit
    <2>2. CASE ~Listens
      <3>1. /\ ctl.ins = "RDID" => ~ctl.heard
            /\ \A i \in 1 .. Len(id) : id[i] = "none"
            /\ \A i \in 1 .. Len(fifo) : fifo[i] = "none"
        BY <1>1, <2>2 DEF BootInv, HeardOrNone
      <3>2. /\ \A i \in 1 .. Len(id') : id'[i] = "none"
            /\ \A i \in 1 .. Len(fifo') : fifo'[i] = "none"
        <4>1. fifo[1] = "none"
          BY <1>3, <3>1
        <4>2. ASSUME NEW i \in 1 .. Len(id) + 1 PROVE id'[i] = "none"
          <5>1. i \in 1 .. Len(id) \/ i = Len(id) + 1
            BY <1>3
          <5> QED BY <1>5, <3>1, <4>1, <5>1
        <4>3. ASSUME NEW i \in 1 .. Len(fifo) - 1 PROVE fifo'[i] = "none"
          <5>1. i + 1 \in 1 .. Len(fifo)
            BY <1>3
          <5> QED BY <1>6, <3>1, <5>1
        <4> QED BY <1>5, <1>6, <4>2, <4>3
      <3> QED BY <1>1, <3>1, <3>2 DEF BootInv, HeardOrNone, InInit
    <2> QED BY <2>1, <2>2
  <1>10. FoundAtOnce'
    <2> SUFFICES ASSUME chip.present /\ ~bootBusy PROVE FoundAtOnce'
      BY <1>1 DEF FoundAtOnce
    <2>1. /\ attempt = 1 /\ ~chip.WIP /\ Listens
          /\ ctl.ins = "RDID" => ctl.heard
          /\ \A i \in 1 .. Len(id) : id[i] = ExpectedId[i]
          /\ \A i \in 1 .. Len(fifo) : fifo[i] = ExpectedId[Len(id) + i]
      BY <1>1 DEF BootInv, FoundAtOnce
    <2>2. \A i \in 1 .. Len(id') : id'[i] = ExpectedId[i]
      <3>1. fifo[1] = ExpectedId[Len(id) + 1]
        BY <1>3, <2>1
      <3>2. ASSUME NEW i \in 1 .. Len(id) + 1 PROVE id'[i] = ExpectedId[i]
        <4>1. i \in 1 .. Len(id) \/ i = Len(id) + 1
          BY <1>3
        <4> QED BY <1>5, <2>1, <3>1, <4>1
      <3> QED BY <1>5, <3>2
    <2>3. \A i \in 1 .. Len(fifo') : fifo'[i] = ExpectedId[Len(id') + i]
      <3> SUFFICES ASSUME NEW i \in 1 .. Len(fifo) - 1
                   PROVE  fifo'[i] = ExpectedId[(Len(id) + 1) + i]
        BY <1>5, <1>6
      <3>1. i + 1 \in 1 .. Len(fifo) /\ Len(id) + (i + 1) = (Len(id) + 1) + i
        BY <1>3
      <3>2. fifo[i + 1] = ExpectedId[Len(id) + (i + 1)]
        BY <2>1, <3>1
      <3> QED BY <1>6, <3>1, <3>2
    <2> QED BY <1>1, <2>1, <2>2, <2>3 DEF FoundAtOnce, Listens
  <1> QED
    BY <1>7, <1>8, <1>9, <1>10 DEF BootInv

(* What a complete identification starts with. *)
LEMMA ExpectedFirst == ExpectedId \in Seq(Bytes) /\ Len(ExpectedId) = 3 /\ ExpectedId[1] # "none"
  BY DEF ExpectedId, Bytes

LEMMA Enter4ByteInv == BootInv /\ Enter4Byte /\ UNCHANGED historyVars => BootInv'
  <1> SUFFICES ASSUME BootInv, Enter4Byte, UNCHANGED historyVars PROVE BootInv'
    OBVIOUS
  <1>1. /\ ipc = "DR" /\ ipc' = "addrWait" /\ Len(id) = 3
        /\ ctl' = [ins |-> "EN4BYTEADDR", left |-> 0,
                   heard |-> chip.present /\ ~chip.WIP /\ chip.lines = 1]
        /\ UNCHANGED <<attempt, id, found, drivStatus, tcf, fifo, chip, bootBusy, polled, restarts>>
    BY DEF Enter4Byte, ModeCommand, Issue, Started, Lines, historyVars
  <1>2. fifo = <<>>
    <2>1. Len(fifo) \in Nat /\ ctl.left \in Nat /\ Len(id) + Len(fifo) + ctl.left = 3
      BY <1>1, LenProperties DEF BootInv, BootTypeOK, BusOK
    <2>2. Len(fifo) = 0
      BY <1>1, <2>1
    <2> QED BY <2>2, EmptySeq DEF BootInv, BootTypeOK
  <1>3. BootTypeOK'
    <2>1. ctl' \in [ins : {"NONE", "RST_QUAD", "RDID", "EN4BYTEADDR", "ENT_QUAD"},
                    left : 0 .. 3, heard : BOOLEAN]
      BY <1>1 DEF BootInv, BootTypeOK
    <2> QED BY <1>1, <2>1 DEF BootInv, BootTypeOK, InInit
  <1>4. BusOK'
    BY <1>1, <1>2 DEF BootInv, BusOK
  <1>5. HeardOrNone'
    <2>1. id = ExpectedId => Listens
      BY <1>1, ExpectedFirst DEF BootInv, HeardOrNone
    <2> QED BY <1>1, <2>1 DEF BootInv, HeardOrNone, InInit, Listens
  <1>6. FoundAtOnce'
    <2>1. chip.present /\ ~bootBusy => \A i \in 1 .. Len(id) : id[i] = ExpectedId[i]
      BY <1>1 DEF BootInv, FoundAtOnce
    <2>2. chip.present /\ ~bootBusy => id = ExpectedId
      BY <1>1, <2>1, ExpectedFirst, SeqEqual DEF BootInv, BootTypeOK
    <2> QED BY <1>1, <2>2 DEF BootInv, FoundAtOnce
  <1> QED
    BY <1>3, <1>4, <1>5, <1>6 DEF BootInv

LEMMA EnterQuadInv == BootInv /\ EnterQuad /\ UNCHANGED historyVars => BootInv'
  <1> SUFFICES ASSUME BootInv, EnterQuad, UNCHANGED historyVars PROVE BootInv'
    OBVIOUS
  <1>1. /\ ipc = "addrWait" /\ ipc' = "quadWait" /\ ctl.ins = "NONE" /\ fifo = <<>>
        /\ ctl' = [ins |-> "ENT_QUAD", left |-> 0,
                   heard |-> chip.present /\ ~chip.WIP /\ chip.lines = 1]
        /\ UNCHANGED <<attempt, id, found, drivStatus, tcf, fifo, chip, bootBusy, polled, restarts>>
    BY DEF EnterQuad, ModeCommand, Issue, Started, Lines, historyVars, BusyOver, Busy
  <1>3. BootTypeOK'
    BY <1>1 DEF BootInv, BootTypeOK, InInit
  <1>4. BusOK'
    BY <1>1 DEF BootInv, BusOK
  <1>5. HeardOrNone'
    BY <1>1 DEF BootInv, HeardOrNone, InInit, Listens
  <1>6. FoundAtOnce'
    BY <1>1 DEF BootInv, FoundAtOnce
  <1> QED
    BY <1>3, <1>4, <1>5, <1>6 DEF BootInv

LEMMA DrvInitReturnsInv == BootInv /\ DrvInitReturns /\ UNCHANGED historyVars => BootInv'
  <1> SUFFICES ASSUME BootInv, DrvInitReturns, UNCHANGED historyVars PROVE BootInv'
    OBVIOUS
  <1>1. /\ ipc = "quadWait" /\ ctl.ins = "NONE" /\ fifo = <<>>
        /\ found' = (id = ExpectedId)
        /\ UNCHANGED <<ctl, tcf, fifo, chip, bootBusy, polled, restarts>>
    BY DEF DrvInitReturns, historyVars, busVars, BusyOver, Busy
  <1>2. CASE id = ExpectedId
    <2>1. /\ ipc' = "loop" /\ drivStatus' = "READY" /\ found' = TRUE
          /\ UNCHANGED <<attempt, id>>
      BY <1>1, <1>2 DEF DrvInitReturns
    <2>2. Configured /\ ~chip.WIP
      BY <1>1, <1>2 DEF BootInv, HeardOrNone, Configured
    <2>3. BootTypeOK'
      BY <1>1, <2>1 DEF BootInv, BootTypeOK, InInit
    <2>4. BusOK'
      BY <1>1, <2>1 DEF BootInv, BusOK
    <2>5. HeardOrNone'
      BY <1>1, <2>1, <2>2 DEF HeardOrNone, InInit, Configured
    <2>6. FoundAtOnce'
      BY <1>1, <2>1, <2>2 DEF BootInv, FoundAtOnce
    <2> QED BY <2>3, <2>4, <2>5, <2>6 DEF BootInv
  <1>3. CASE id # ExpectedId
    <2>0. found' = FALSE
      BY <1>1, <1>3
    <2>1. bootBusy \/ ~chip.present
      BY <1>1, <1>3 DEF BootInv, BootTypeOK, FoundAtOnce
    <2>2. CASE LastAttempt
      <3>1. ipc' = "delay" /\ drivStatus' = "INIT_ERR" /\ UNCHANGED <<attempt, id>>
        BY <2>0, <2>2 DEF DrvInitReturns, FailedStatus
      <3>3. BootTypeOK'
        BY <1>1, <2>0, <3>1 DEF BootInv, BootTypeOK, InInit
      <3>4. BusOK'
        BY <1>1, <3>1 DEF BootInv, BusOK
      <3>5. HeardOrNone'
        BY <1>1, <2>0, <3>1 DEF HeardOrNone, InInit
      <3>6. FoundAtOnce'
        BY <1>1, <2>1 DEF FoundAtOnce
      <3> QED BY <3>3, <3>4, <3>5, <3>6 DEF BootInv
    <2>3. CASE ~LastAttempt
      <3>1. ipc' = "drvInit" /\ attempt' = 2 /\ id' = <<>> /\ UNCHANGED drivStatus
        BY <2>0, <2>3 DEF DrvInitReturns, LastAttempt, NextAttempt, BootInv, BootTypeOK
      <3>2. id' \in Seq(Bytes) /\ Len(id') = 0
        BY <3>1
      <3>3. BootTypeOK'
        BY <1>1, <2>0, <3>1, <3>2 DEF BootInv, BootTypeOK, InInit
      <3>4. BusOK'
        BY <1>1, <3>1 DEF BootInv, BusOK
      <3>5. HeardOrNone'
        BY <1>1, <2>0, <3>1 DEF HeardOrNone, InInit
      <3>6. FoundAtOnce'
        BY <1>1, <2>1 DEF FoundAtOnce
      <3> QED BY <3>3, <3>4, <3>5, <3>6 DEF BootInv
    <2> QED BY <2>2, <2>3
  <1> QED BY <1>2, <1>3

LEMMA DelayOverInv == BootInv /\ DelayOver /\ UNCHANGED historyVars => BootInv'
  <1> SUFFICES ASSUME BootInv, DelayOver, UNCHANGED historyVars PROVE BootInv'
    OBVIOUS
  <1>1. /\ ipc = "delay" /\ ipc' = "loop" /\ drivStatus' = "READY"
        /\ UNCHANGED <<attempt, id, found, ctl, tcf, fifo, chip, bootBusy, polled, restarts>>
    BY DEF DelayOver, busVars, historyVars
  <1>2. BootTypeOK'
    BY <1>1 DEF BootInv, BootTypeOK, InInit
  <1>3. BusOK'
    BY <1>1 DEF BootInv, BusOK
  <1>4. HeardOrNone'
    BY <1>1 DEF BootInv, HeardOrNone, InInit
  <1>5. FoundAtOnce'
    BY <1>1 DEF BootInv, FoundAtOnce
  <1> QED
    BY <1>2, <1>3, <1>4, <1>5 DEF BootInv

(* A program or an erase. *)
LEMMA BeginChangeInv == BootInv /\ BeginChange /\ UNCHANGED historyVars => BootInv'
  <1> SUFFICES ASSUME BootInv, BeginChange, UNCHANGED historyVars PROVE BootInv'
    OBVIOUS
  <1>1. /\ ipc = "loop" /\ found /\ ipc' = "change"
        /\ chip' = [chip EXCEPT !.WIP = TRUE]
        /\ UNCHANGED <<attempt, id, found, drivStatus, ctl, tcf, fifo, bootBusy, polled, restarts>>
    BY DEF BeginChange, historyVars
  <1>2. /\ chip' \in Chip /\ chip'.present = chip.present
        /\ chip'.lines = chip.lines /\ chip'.addrBytes = chip.addrBytes
    BY <1>1 DEF BootInv, BootTypeOK, Chip
  <1>3. BootTypeOK'
    BY <1>1, <1>2 DEF BootInv, BootTypeOK, InInit, Chip
  <1>4. BusOK'
    BY <1>1 DEF BootInv, BusOK
  <1>5. HeardOrNone'
    BY <1>1, <1>2 DEF BootInv, HeardOrNone, InInit, Configured
  <1>6. FoundAtOnce'
    BY <1>1, <1>2 DEF BootInv, FoundAtOnce
  <1> QED
    BY <1>3, <1>4, <1>5, <1>6 DEF BootInv

LEMMA ChangeOverInv == BootInv /\ ChangeOver /\ UNCHANGED historyVars => BootInv'
  <1> SUFFICES ASSUME BootInv, ChangeOver, UNCHANGED historyVars PROVE BootInv'
    OBVIOUS
  <1>1. /\ ipc = "change" /\ ipc' = "loop" /\ ~chip.WIP
        /\ UNCHANGED <<attempt, id, found, drivStatus, ctl, tcf, fifo, chip, bootBusy, polled, restarts>>
    BY DEF ChangeOver, StatusMatches, busVars, historyVars
  <1>2. BootTypeOK'
    BY <1>1 DEF BootInv, BootTypeOK, InInit
  <1>3. BusOK'
    BY <1>1 DEF BootInv, BusOK
  <1>4. HeardOrNone'
    BY <1>1 DEF BootInv, HeardOrNone, InInit, Configured
  <1>5. FoundAtOnce'
    BY <1>1 DEF BootInv, FoundAtOnce
  <1> QED
    BY <1>2, <1>3, <1>4, <1>5 DEF BootInv

(* A program that is not waited for. *)
LEMMA ProgramPolledInv == BootInv /\ ProgramPolled => BootInv'
  <1> SUFFICES ASSUME BootInv, ProgramPolled PROVE BootInv'
    OBVIOUS
  <1>1. /\ ipc = "loop" /\ found /\ polled' = TRUE
        /\ chip' = [chip EXCEPT !.WIP = TRUE]
        /\ UNCHANGED <<ipc, attempt, id, found, drivStatus, ctl, tcf, fifo, bootBusy, restarts>>
    BY DEF ProgramPolled, taskVars
  <1>2. /\ chip' \in Chip /\ chip'.present = chip.present
        /\ chip'.lines = chip.lines /\ chip'.addrBytes = chip.addrBytes
    BY <1>1 DEF BootInv, BootTypeOK, Chip
  <1>3. BootTypeOK'
    BY <1>1, <1>2 DEF BootInv, BootTypeOK, Chip
  <1>4. BusOK'
    BY <1>1 DEF BootInv, BusOK
  <1>5. HeardOrNone'
    BY <1>1, <1>2 DEF BootInv, HeardOrNone, InInit, Configured
  <1>6. FoundAtOnce'
    BY <1>1, <1>2 DEF BootInv, FoundAtOnce
  <1> QED
    BY <1>3, <1>4, <1>5, <1>6 DEF BootInv

LEMMA ChipDoneInv == BootInv /\ ChipDone /\ UNCHANGED historyVars => BootInv'
  <1> SUFFICES ASSUME BootInv, ChipDone, UNCHANGED historyVars PROVE BootInv'
    OBVIOUS
  <1>1. /\ chip.WIP /\ chip' = [chip EXCEPT !.WIP = FALSE]
        /\ UNCHANGED <<ipc, attempt, id, found, drivStatus, ctl, tcf, fifo, bootBusy, polled, restarts>>
    BY DEF ChipDone, taskVars, historyVars
  <1>2. /\ chip' \in Chip /\ chip'.present = chip.present /\ chip'.WIP = FALSE
        /\ chip'.lines = chip.lines /\ chip'.addrBytes = chip.addrBytes
    BY <1>1 DEF BootInv, BootTypeOK, Chip
  <1>3. BootTypeOK'
    BY <1>1, <1>2 DEF BootInv, BootTypeOK, Chip
  <1>4. BusOK'
    BY <1>1 DEF BootInv, BusOK
  <1>5. HeardOrNone'
    BY <1>1, <1>2 DEF BootInv, HeardOrNone, Configured, Listens
  <1>6. FoundAtOnce'
    BY <1>1, <1>2 DEF BootInv, FoundAtOnce, Listens
  <1> QED
    BY <1>3, <1>4, <1>5, <1>6 DEF BootInv

(* The end of a command without data: the chip has changed its mode if it   *)
(* has heard it.                                                           *)
LEMMA BusCommandInv == BootInv /\ BusCommand /\ UNCHANGED historyVars => BootInv'
  <1> SUFFICES ASSUME BootInv, BusCommand, UNCHANGED historyVars PROVE BootInv'
    OBVIOUS
  <1>1. /\ ctl.ins \in {"RST_QUAD", "ENT_QUAD", "EN4BYTEADDR"}
        /\ chip' = ChipAfter /\ ctl' = NoCommand /\ tcf' = TRUE
        /\ UNCHANGED <<ipc, attempt, id, found, drivStatus, fifo, bootBusy, polled, restarts>>
    BY DEF BusCommand, taskVars, historyVars
  <1>2. \/ ipc = "reset" /\ ctl.ins = "RST_QUAD"
        \/ ipc = "addrWait" /\ ctl.ins = "EN4BYTEADDR"
        \/ ipc = "quadWait" /\ ctl.ins = "ENT_QUAD"
    BY <1>1 DEF BootInv, BootTypeOK, BusOK, InInit
  <1>3. /\ chip' \in Chip /\ chip'.present = chip.present /\ chip'.WIP = chip.WIP
        /\ ctl.heard /\ ctl.ins = "RST_QUAD" => chip'.lines = 1
        /\ ctl.heard /\ ctl.ins = "ENT_QUAD" =>
              chip'.lines = 4 /\ chip'.addrBytes = chip.addrBytes
        /\ ctl.heard /\ ctl.ins = "EN4BYTEADDR" =>
              chip'.addrBytes = 4 /\ chip'.lines = chip.lines
        /\ ~ctl.heard => chip' = chip
    BY <1>1 DEF ChipAfter, BootInv, BootTypeOK, Chip
  <1>4. /\ ctl'.ins = "NONE" /\ ctl'.left = 0 /\ ctl'.heard = FALSE
        /\ ctl' \in [ins : {"NONE", "RST_QUAD", "RDID", "EN4BYTEADDR", "ENT_QUAD"},
                     left : 0 .. 3, heard : BOOLEAN]
    BY <1>1 DEF NoCommand
  <1>5. BootTypeOK'
    BY <1>1, <1>3, <1>4 DEF BootInv, BootTypeOK, Chip
  <1>6. BusOK'
    BY <1>1, <1>2, <1>4 DEF BootInv, BusOK
  <1>7. HeardOrNone'
    BY <1>1, <1>2, <1>3, <1>4 DEF BootInv, HeardOrNone, Listens, InInit
  <1>8. FoundAtOnce'
    BY <1>1, <1>2, <1>3, <1>4 DEF BootInv, BootTypeOK, FoundAtOnce
  <1> QED
    BY <1>5, <1>6, <1>7, <1>8 DEF BootInv

(* The next byte of the identification: what the chip sends if it has       *)
(* heard RDID.                                                             *)
LEMMA BusIdInv == BootInv /\ BusId /\ UNCHANGED historyVars => BootInv'
  <1> SUFFICES ASSUME BootInv, BusId, UNCHANGED historyVars PROVE BootInv'
    OBVIOUS
  <1> DEFINE Byte == IF ctl.heard THEN ExpectedId[4 - ctl.left] ELSE "none"
  <1>1. /\ ctl.ins = "RDID" /\ fifo' = Append(fifo, Byte)
        /\ UNCHANGED <<ipc, attempt, id, found, drivStatus, chip, bootBusy, polled, restarts>>
    BY DEF BusId, taskVars, historyVars
  <1>2. ipc \in {"tcWait", "DR"} /\ Len(id) + Len(fifo) + ctl.left = 3 /\ ctl.left \in 1 .. 3
    BY <1>1 DEF BootInv, BootTypeOK, BusOK, InInit
  <1>3. /\ ExpectedId[1] = "manId" /\ ExpectedId[2] = "memType" /\ ExpectedId[3] = "memCapacity"
        /\ Len(id) \in Nat /\ Len(fifo) \in Nat
    BY LenProperties DEF ExpectedId, BootInv, BootTypeOK
  <1>4. Byte \in Bytes /\ 4 - ctl.left = Len(id) + Len(fifo) + 1
    BY <1>2, <1>3 DEF Bytes
  <1>5. /\ fifo' \in Seq(Bytes) /\ Len(fifo') = Len(fifo) + 1
        /\ \A i \in 1 .. Len(fifo) : fifo'[i] = fifo[i]
        /\ fifo'[Len(fifo) + 1] = Byte
    <2>1. fifo \in Seq(Bytes)
      BY DEF BootInv, BootTypeOK
    <2> HIDE DEF Byte
    <2> QED BY <1>1, <1>4, <2>1, AppendProperties
  <1>6. /\ ctl' \in [ins : {"NONE", "RST_QUAD", "RDID", "EN4BYTEADDR", "ENT_QUAD"},
                     left : 0 .. 3, heard : BOOLEAN]
        /\ tcf' \in BOOLEAN /\ ctl'.left = ctl.left - 1
        /\ ctl'.ins \in {"NONE", "RDID"}
        /\ ctl'.ins = "RDID" <=> ctl'.left > 0
        /\ ctl'.ins = "RDID" => ctl'.heard = ctl.heard
    <2>0. ctl \in [ins : {"NONE", "RST_QUAD", "RDID", "EN4BYTEADDR", "ENT_QUAD"},
                   left : 0 .. 3, heard : BOOLEAN] /\ tcf \in BOOLEAN
      BY DEF BootInv, BootTypeOK
    <2>1. CASE ctl.left = 1
      <3>1. ctl' = NoCommand /\ tcf' = TRUE
        BY <2>1 DEF BusId
      <3> QED BY <2>1, <3>1 DEF NoCommand
    <2>2. CASE ctl.left # 1
      <3>1. ctl' = [ctl EXCEPT !.left = @ - 1] /\ tcf' = tcf
        BY <2>2 DEF BusId
      <3>2. ctl.left - 1 \in 1 .. 2
        BY <1>2, <2>2
      <3>3. /\ ctl' \in [ins : {"NONE", "RST_QUAD", "RDID", "EN4BYTEADDR", "ENT_QUAD"},
                         left : 0 .. 3, heard : BOOLEAN]
            /\ ctl'.left = ctl.left - 1 /\ ctl'.ins = ctl.ins /\ ctl'.heard = ctl.heard
        BY <2>0, <3>1, <3>2
      <3> QED BY <1>1, <2>0, <3>1, <3>2, <3>3
    <2> QED BY <2>1, <2>2
  <1>7. BootTypeOK'
    BY <1>1, <1>5, <1>6 DEF BootInv, BootTypeOK
  <1>8. BusOK'
    <2>1. Len(id') + Len(fifo') + ctl'.left = 3
      BY <1>1, <1>2, <1>3, <1>5, <1>6
    <2> QED BY <1>1, <1>2, <1>6, <2>1 DEF BootInv, BusOK
  <1>9. HeardOrNone'
    <2>1. CASE Listens
      BY <1>1, <1>2, <2>1 DEF BootInv, HeardOrNone, Listens, InInit
    <2>2. CASE ~Listens
      <3>1. /\ ~ctl.heard /\ \A i \in 1 .. Len(id) : id[i] = "none"
            /\ \A i \in 1 .. Len(fifo) : fifo[i] = "none"
        BY <1>1, <1>2, <2>2 DEF BootInv, HeardOrNone
      <3>2. ASSUME NEW i \in 1 .. Len(fifo) + 1 PROVE fifo'[i] = "none"
        <4>1. i \in 1 .. Len(fifo) \/ i = Len(fifo) + 1
          BY <1>3
        <4> QED BY <1>5, <3>1, <4>1
      <3>3. \A i \in 1 .. Len(fifo') : fifo'[i] = "none"
        BY <1>5, <3>2
      <3> QED BY <1>1, <1>2, <1>6, <3>1, <3>3 DEF BootInv, HeardOrNone, InInit
    <2> QED BY <2>1, <2>2
  <1>10. FoundAtOnce'
    <2> SUFFICES ASSUME chip.present /\ ~bootBusy PROVE FoundAtOnce'
      BY <1>1 DEF FoundAtOnce
    <2>1. /\ attempt = 1 /\ ~chip.WIP /\ Listens /\ ctl.heard
          /\ \A i \in 1 .. Len(id) : id[i] = ExpectedId[i]
          /\ \A i \in 1 .. Len(fifo) : fifo[i] = ExpectedId[Len(id) + i]
      BY <1>1, <1>2 DEF BootInv, FoundAtOnce
    <2>2. ASSUME NEW i \in 1 .. Len(fifo) + 1 PROVE fifo'[i] = ExpectedId[Len(id) + i]
      <3>1. CASE i \in 1 .. Len(fifo)
        BY <1>5, <2>1, <3>1
      <3>2. CASE i = Len(fifo) + 1
        <4>1. Byte = ExpectedId[Len(id) + i]
          BY <1>3, <1>4, <2>1, <3>2
        <4> QED BY <1>5, <3>2, <4>1
      <3> QED BY <1>3, <3>1, <3>2
    <2>3. \A i \in 1 .. Len(fifo') : fifo'[i] = ExpectedId[Len(id') + i]
      BY <1>1, <1>5, <2>2
    <2> QED BY <1>1, <1>2, <1>6, <2>1, <2>3 DEF FoundAtOnce, Listens
  <1> QED
    BY <1>7, <1>8, <1>9, <1>10 DEF BootInv

(* A step that leaves all of it alone. *)
LEMMA InitVarsUnchanged == BootInv /\ UNCHANGED initVars => BootInv'
  BY DEF BootInv, BootTypeOK, BusOK, HeardOrNone, FoundAtOnce, Listens, Configured,
         initVars, taskVars, busVars, historyVars

LEMMA BootInvStep == BootInv /\ [Next]_vars => BootInv'
  <1> SUFFICES ASSUME BootInv, [Next]_vars PROVE BootInv'
    OBVIOUS
  <1>0. CASE ProgramPolled
    BY <1>0, ProgramPolledInv
  <1>1. CASE BootStep /\ ~ProgramPolled
    <2>1. UNCHANGED historyVars
      BY <1>1 DEF BootStep
    <2>2. CASE DriverStep
      BY <2>1, <2>2, ResetQuadInv, ReadIdInv, TransferCompleteInv, ReadDRInv, Enter4ByteInv,
         EnterQuadInv, DrvInitReturnsInv, ChangeOverInv DEF DriverStep
    <2>3. CASE BusStep
      BY <2>1, <2>3, BusCommandInv, BusIdInv, ChipDoneInv DEF BusStep
    <2> QED BY <1>1, <2>1, <2>2, <2>3, DelayOverInv, BeginChangeInv DEF BootStep
  <1>2. CASE \E r \in Reader : ReaderStep(r) \/ Serve(r)
    BY <1>2, InitVarsUnchanged DEF ReaderStep, Serve
  <1>3. CASE Reset
    BY <1>3, RestartInv DEF Reset
  <1>4. CASE UNCHANGED vars
    BY <1>4, InitVarsUnchanged DEF vars
  <1> QED
    BY <1>0, <1>1, <1>2, <1>3, <1>4 DEF Next

LEMMA BootInvariant == Spec => []BootInv
  <1>1. Init => BootInv
    BY InitBootInv DEF Init
  <1> QED
    BY <1>1, BootInvStep, PTL DEF Spec

(* In the command loop an identified chip is in quad I/O with 4 byte        *)
(* addresses, after any number of resets at any moment.                    *)
THEOREM ReadyConfigured == Spec => []ReadyMeansConfigured
  <1>1. BootInv => ReadyMeansConfigured
    BY DEF BootInv, BootTypeOK, BusOK, HeardOrNone, ReadyMeansConfigured
  <1> QED
    BY <1>1, BootInvariant, PTL

(* drvInit fails twice only without a chip or after a reset that caught it  *)
(* busy.                                                                   *)
THEOREM FailureIsExplained == Spec => []FailureExplained
  <1>1. BootInv => FailureExplained
    BY DEF BootInv, BootTypeOK, BusOK, FoundAtOnce, FailureExplained
  <1> QED
    BY <1>1, BootInvariant, PTL

(* A command is given to a controller that is idle and whose FIFO is        *)
(* empty: the three reads of DR are what makes up for the flag that is     *)
(* never cleared.                                                          *)
THEOREM BusFreeForCommands == Spec => CommandsFindBusFree
  <1>1. BootInv /\ [Next]_vars => [ctl'.ins # "NONE" /\ ctl.ins # ctl'.ins => ~Busy]_vars
    <2> SUFFICES ASSUME BootInv, [Next]_vars, ctl'.ins # "NONE", ctl.ins # ctl'.ins
                 PROVE  ~Busy
      OBVIOUS
    <2>1. ~UNCHANGED initVars /\ ~Restart
      BY DEF initVars, busVars, Restart, NoCommand
    <2>2. BootStep
      BY <2>1 DEF Next, vars, ReaderStep, Serve, Reset
    <2>3. ~BusStep
      BY DEF BusStep, BusCommand, BusId, ChipDone, NoCommand, BootInv, BootTypeOK
    <2>4. ResetQuad \/ ReadId \/ Enter4Byte \/ EnterQuad
      BY <2>2, <2>3 DEF BootStep, DriverStep, TransferComplete, ReadDR, DrvInitReturns,
         ChangeOver, DelayOver, BeginChange, ProgramPolled, busVars
    <2>5. CASE ResetQuad
      BY <2>5 DEF ResetQuad, BootInv, BusOK, Busy
    <2>6. CASE ReadId \/ EnterQuad
      BY <2>6 DEF ReadId, EnterQuad, BusyOver
    <2>7. CASE Enter4Byte
      <3>1. /\ Len(id) = 3 /\ Len(id) + Len(fifo) + ctl.left = 3
            /\ Len(fifo) \in Nat /\ ctl.left \in Nat /\ ctl.ins \in {"NONE", "RDID"}
            /\ ctl.ins = "RDID" <=> ctl.left > 0
        BY <2>7, LenProperties DEF Enter4Byte, BootInv, BootTypeOK, BusOK
      <3>2. Len(fifo) = 0 /\ ctl.left = 0
        BY <3>1
      <3> QED BY <3>1, <3>2, EmptySeq DEF Busy, BootInv, BootTypeOK
    <2> QED BY <2>4, <2>5, <2>6, <2>7
  <1> QED
    BY <1>1, BootInvariant, PTL DEF Spec, CommandsFindBusFree
-----------------------------------------------------------------------------
(* The readers. *)

RomTypeOK ==
    /\ rpc \in [Reader -> {"poll", "closed", "open", "reading", "undefined"}]
    /\ file \in [Reader -> File \cup {NoFile}]
    /\ position \in [Reader -> Nat] /\ want \in [Reader -> Nat]
    /\ ended \in [Reader -> BOOLEAN]
    /\ got = [r \in Reader |-> got[r]]

(* No flash read has been served without a chip. *)
Clean == found \/ ipc \in InInit \cup {"delay"}

(* The bytes a read of a file can return, and the first n of them as they   *)
(* should be; loose says that a busy chip may have been read.              *)
Answers(f) == {Content(f, i) : i \in Int} \cup {Garbage}

RightAt(b, f, i, loose) == b = Content(f, i) \/ (loose /\ b = Garbage)

Right(s, f, n, loose) ==
    /\ s \in Seq(Answers(f)) /\ Len(s) = n
    /\ \A i \in 1 .. n : RightAt(s[i], f, i - 1, loose)

Fits(f) == f.script \/ f.addr + f.length <= QSPI_FLASH_SIZE

ReaderOK(r) ==
    /\ position[r] + want[r] <= file[r].length
    /\ rpc[r] # "reading" => want[r] = 0
    /\ rpc[r] \in {"poll", "closed", "undefined"} => position[r] = 0 /\ got[r] = <<>>
    /\ ended[r] => rpc[r] = "open"
    /\ ended[r] /\ Fits(file[r]) => position[r] = file[r].length
    /\ Clean => Right(got[r], file[r], position[r], polled)

RomInv == RomTypeOK /\ \A r \in Reader : ReaderOK(r)

LEMMA FileTypes ==
    ASSUME NEW f \in File \cup {NoFile}
    PROVE  f.addr \in Nat /\ f.length \in Nat /\ f.script \in BOOLEAN
  <1>1. CASE f \in File
    BY <1>1
  <1>2. CASE f = NoFile
    BY <1>2 DEF NoFile
  <1> QED BY <1>1, <1>2

LEMMA RightNone == ASSUME NEW f, NEW loose PROVE Right(<<>>, f, 0, loose)
  BY DEF Right

(* Right bytes followed by the next right bytes. *)
LEMMA RightGrows ==
    ASSUME NEW f, NEW p \in Nat, NEW n \in Nat, NEW loose, NEW s, Right(s, f, p, loose),
           NEW t, t = [i \in 1 .. n |-> t[i]],
           \A i \in 1 .. n : RightAt(t[i], f, p + i - 1, loose)
    PROVE  Right(s \o t, f, p + n, loose) /\ Len(t) = n
  <1> DEFINE S == Answers(f)
  <1>1. s \in Seq(S) /\ Len(s) = p
    BY DEF Right
  <1>2. t \in Seq(S) /\ Len(t) = n
    <2>1. ASSUME NEW i \in 1 .. n PROVE t[i] \in S
      <3>1. p + i - 1 \in Int
        OBVIOUS
      <3> QED BY <3>1 DEF RightAt, Answers
    <2> HIDE DEF S
    <2>2. t \in [1 .. n -> S]
      BY <2>1
    <2> QED BY <2>2
  <1> HIDE DEF S
  <1>3. /\ s \o t \in Seq(S) /\ Len(s \o t) = Len(s) + Len(t)
        /\ \A i \in 1 .. Len(s) + Len(t) :
              (s \o t)[i] = IF i <= Len(s) THEN s[i] ELSE t[i - Len(s)]
    BY <1>1, <1>2, ConcatProperties
  <1>4. ASSUME NEW i \in 1 .. p + n PROVE RightAt((s \o t)[i], f, i - 1, loose)
    <2>1. CASE i <= p
      <3>1. (s \o t)[i] = s[i] /\ i \in 1 .. p
        BY <1>1, <1>2, <1>3, <2>1
      <3> QED BY <3>1 DEF Right
    <2>2. CASE i > p
      <3>1. i - p \in 1 .. n /\ p + (i - p) - 1 = i - 1
        BY <2>2
      <3>2. (s \o t)[i] = t[i - p]
        BY <1>1, <1>2, <1>3, <2>2
      <3>3. RightAt(t[i - p], f, p + (i - p) - 1, loose)
        BY <3>1
      <3> QED BY <3>1, <3>2, <3>3
    <2>3. i <= p \/ i > p
      OBVIOUS
    <2> QED BY <2>1, <2>2, <2>3
  <1> QED
    BY <1>1, <1>2, <1>3, <1>4 DEF Right, S

(* Readers that start. *)
LEMMA StartInv ==
    /\ InitReaders => RomInv
    /\ ResetReaders => RomInv'
  <1>1. NoFile \in File \cup {NoFile} /\ NoFile.length = 0
    BY DEF NoFile
  <1>2. InitReaders => RomInv
    BY <1>1, RightNone DEF InitReaders, RomInv, RomTypeOK, ReaderOK, Start, All
  <1>3. ResetReaders => RomInv'
    BY <1>1, RightNone DEF ResetReaders, RomInv, Right, RomTypeOK, ReaderOK, Start, All
  <1> QED BY <1>2, <1>3

(* The driver task does not touch the readers. *)
LEMMA BootStepRom == BootInv /\ RomInv /\ BootStep /\ UNCHANGED romVars => RomInv'
  <1> SUFFICES ASSUME BootInv, RomInv, BootStep, UNCHANGED romVars PROVE RomInv'
    OBVIOUS
  <1>1. Clean' => Clean
    <2> SUFFICES ASSUME ~Clean PROVE ~Clean'
      OBVIOUS
    <2>1. ipc \in {"loop", "change"} /\ ~found
      BY DEF Clean, BootInv, BootTypeOK
    <2>2. ChangeOver \/ BusStep
      BY <2>1 DEF BootStep, DriverStep, ResetQuad, ReadId, TransferComplete, ReadDR, Enter4Byte,
         EnterQuad, DrvInitReturns, DelayOver, BeginChange, ProgramPolled
    <2>3. ipc' \in {"loop", "change"} /\ ~found'
      BY <2>1, <2>2 DEF ChangeOver, BusStep, BusCommand, BusId, ChipDone, taskVars
    <2> QED BY <2>3 DEF Clean, InInit
  <1>4. polled => polled'
    BY DEF BootStep, ProgramPolled, historyVars
  <1>2. ASSUME NEW r \in Reader PROVE ReaderOK(r)'
    <2>1. ReaderOK(r)
      BY DEF RomInv
    <2>2. UNCHANGED <<rpc, file, position, want, got, ended>>
      BY DEF romVars
    <2>3. Clean' => Right(got[r], file[r], position[r], polled)'
      BY <1>1, <1>4, <2>1, <2>2 DEF ReaderOK, Right, RightAt, Answers, Garbage, Content
    <2> QED BY <2>1, <2>2, <2>3 DEF ReaderOK, Fits
  <1>3. RomTypeOK'
    BY DEF RomInv, RomTypeOK, romVars
  <1> QED BY <1>2, <1>3 DEF RomInv

(* The state of one reader changes. *)
LEMMA OneReader ==
    ASSUME RomInv, UNCHANGED initVars, NEW r \in Reader, RomTypeOK', ReaderOK(r)',
           \A o \in Reader \ {r} :
               /\ rpc'[o] = rpc[o] /\ file'[o] = file[o] /\ position'[o] = position[o]
               /\ want'[o] = want[o] /\ got'[o] = got[o] /\ ended'[o] = ended[o]
    PROVE  RomInv'
  <1>1. ASSUME NEW o \in Reader \ {r} PROVE ReaderOK(o)'
    <2>1. ReaderOK(o)
      BY DEF RomInv
    <2>2. Clean' = Clean /\ polled' = polled
      BY DEF Clean, initVars, taskVars, historyVars
    <2> QED BY <2>1, <2>2 DEF ReaderOK
  <1> QED BY <1>1 DEF RomInv

LEMMA PollInv ==
    ASSUME RomInv, UNCHANGED initVars, NEW r \in Reader, Poll(r, drivStatus = "READY")
    PROVE  RomInv'
  <1>1. /\ rpc[r] = "poll" /\ rpc' = [rpc EXCEPT ![r] = "closed"]
        /\ UNCHANGED <<file, position, want, got, ended>>
    BY DEF Poll, Goes
  <1>2. RomTypeOK'
    BY <1>1 DEF RomInv, RomTypeOK
  <1>3. Clean' = Clean /\ polled' = polled
    BY DEF Clean, initVars, taskVars, historyVars
  <1>4. ReaderOK(r)'
    BY <1>1, <1>3 DEF RomInv, RomTypeOK, ReaderOK
  <1> QED BY <1>1, <1>2, <1>4, OneReader DEF RomInv, RomTypeOK

LEMMA FopenInv ==
    ASSUME RomInv, UNCHANGED initVars, NEW r \in Reader, Fopen(r)
    PROVE  RomInv'
  <1>1. /\ rpc[r] = "closed" /\ UNCHANGED <<position, want, got, ended>>
        /\ \/ \E f \in File : /\ file' = [file EXCEPT ![r] = f]
                              /\ rpc' = [rpc EXCEPT ![r] = "open"]
           \/ rpc' = [rpc EXCEPT ![r] = "undefined"] /\ file' = file
    BY DEF Fopen, Goes
  <1>2. RomTypeOK'
    BY <1>1 DEF RomInv, RomTypeOK
  <1>3. Clean' = Clean /\ polled' = polled
    BY DEF Clean, initVars, taskVars, historyVars
  <1>4. ReaderOK(r) /\ position[r] = 0 /\ want[r] = 0 /\ got[r] = <<>> /\ ~ended[r]
    BY <1>1 DEF RomInv, ReaderOK
  <1>5. file'[r].length \in Nat
    BY <1>2, FileTypes DEF RomTypeOK
  <1>6. rpc'[r] # "reading"
    BY <1>1 DEF RomInv, RomTypeOK
  <1>7. ReaderOK(r)'
    BY <1>1, <1>3, <1>4, <1>5, <1>6, RightNone DEF ReaderOK
  <1> QED BY <1>1, <1>2, <1>7, OneReader DEF RomInv, RomTypeOK

LEMMA FcloseInv ==
    ASSUME RomInv, UNCHANGED initVars, NEW r \in Reader, Fclose(r)
    PROVE  RomInv'
  <1>1. /\ rpc[r] = "open" /\ rpc' = [rpc EXCEPT ![r] = "closed"] /\ want' = want
        /\ file' = [file EXCEPT ![r] = NoFile] /\ position' = [position EXCEPT ![r] = 0]
        /\ got' = [got EXCEPT ![r] = <<>>] /\ ended' = [ended EXCEPT ![r] = FALSE]
    BY DEF Fclose, Goes
  <1>2. RomTypeOK'
    BY <1>1 DEF RomInv, RomTypeOK
  <1>3. /\ rpc'[r] = "closed" /\ file'[r] = NoFile /\ position'[r] = 0 /\ got'[r] = <<>>
        /\ ended'[r] = FALSE /\ want'[r] = 0
    BY <1>1 DEF RomInv, RomTypeOK, ReaderOK
  <1>4. NoFile.length = 0
    BY DEF NoFile
  <1>5. ReaderOK(r)'
    BY <1>3, <1>4, RightNone DEF ReaderOK
  <1> QED BY <1>1, <1>2, <1>5, OneReader DEF RomInv, RomTypeOK

(* What a fread does to the position and to the bytes got. *)
LEMMA FreadInv ==
    ASSUME RomInv, UNCHANGED initVars, NEW r \in Reader, Fread(r)
    PROVE  RomInv'
  <1> DEFINE f == file[r]
  <1>1. PICK len \in ReadLen :
          LET n == IF len > Remaining(r) THEN Remaining(r) ELSE len
              start == f.addr + position[r]
              served == ~f.script /\ n > 0 /\ start + n <= QSPI_FLASH_SIZE
              bytes == IF f.script THEN [i \in 1 .. n |-> Content(f, position[r] + i - 1)]
                       ELSE <<>>
          IN  /\ rpc[r] = "open"
              /\ IF served THEN Goes(r, "reading") /\ want' = [want EXCEPT ![r] = n]
                           ELSE UNCHANGED <<rpc, want>>
              /\ ended' = [ended EXCEPT ![r] = ~served /\ len > 0 /\ bytes = <<>>]
              /\ Delivered(r, bytes)
              /\ UNCHANGED file
    BY DEF Fread
  <1> DEFINE p == position[r]
             n == IF len > Remaining(r) THEN Remaining(r) ELSE len
             served == ~f.script /\ n > 0 /\ f.addr + p + n <= QSPI_FLASH_SIZE
             bytes == IF f.script THEN [i \in 1 .. n |-> Content(f, p + i - 1)] ELSE <<>>
  <1>2. /\ ReaderOK(r) /\ rpc[r] = "open" /\ want[r] = 0
        /\ f.addr \in Nat /\ f.length \in Nat /\ f.script \in BOOLEAN
        /\ p \in Nat /\ p <= f.length /\ len \in Nat /\ QSPI_FLASH_SIZE \in Nat
    <2>1. ReaderOK(r) /\ rpc[r] = "open" /\ f \in File \cup {NoFile} /\ p \in Nat /\ len \in Nat
      BY <1>1 DEF RomInv, RomTypeOK
    <2>2. f.addr \in Nat /\ f.length \in Nat /\ f.script \in BOOLEAN
      BY <2>1, FileTypes
    <2> QED BY <2>1, <2>2 DEF ReaderOK
  <1>3. n \in Nat /\ p + n <= f.length /\ (len > 0 /\ n = 0 => p = f.length)
    BY <1>2 DEF Remaining
  <1>4. /\ IF served THEN rpc' = [rpc EXCEPT ![r] = "reading"] /\ want' = [want EXCEPT ![r] = n]
                     ELSE UNCHANGED <<rpc, want>>
        /\ ended' = [ended EXCEPT ![r] = ~served /\ len > 0 /\ bytes = <<>>]
        /\ position' = [position EXCEPT ![r] = @ + Len(bytes)]
        /\ got' = [got EXCEPT ![r] = @ \o bytes]
        /\ file' = file
    BY <1>1 DEF Delivered, Goes
  <1>5. /\ Clean => Right(got[r] \o bytes, f, p + Len(bytes), polled)
        /\ Len(bytes) = IF f.script THEN n ELSE 0
    <2> DEFINE m == IF f.script THEN n ELSE 0
    <2>1. /\ bytes = [i \in 1 .. m |-> bytes[i]]
          /\ \A i \in 1 .. m : RightAt(bytes[i], f, p + i - 1, polled)
      <3>1. CASE f.script
        BY <3>1 DEF RightAt
      <3>2. CASE ~f.script
        <4>1. 1 .. 0 = {}
          OBVIOUS
        <4> QED BY <3>2, <4>1
      <3> QED BY <3>1, <3>2
    <2>2. m \in Nat
      BY <1>3
    <2>3. Len(bytes) = m
      BY <1>3
    <2>4. Clean => Right(got[r] \o bytes, f, p + m, polled)
      <3>1. Clean => Right(got[r], f, p, polled)
        BY <1>2 DEF ReaderOK
      <3> HIDE DEF bytes, n, p, f, m
      <3> QED BY <1>2, <2>1, <2>2, <3>1, RightGrows
    <2> QED BY <2>3, <2>4
  <1> HIDE DEF n, bytes
  <1>6. RomTypeOK'
    <2>1. (~served /\ len > 0 /\ bytes = <<>>) \in BOOLEAN /\ p + Len(bytes) \in Nat
      BY <1>2, <1>3, <1>5
    <2> QED BY <1>3, <1>4, <2>1 DEF RomInv, RomTypeOK
  <1>7. /\ file'[r] = f /\ position'[r] = p + Len(bytes) /\ got'[r] = got[r] \o bytes
        /\ ended'[r] = (~served /\ len > 0 /\ bytes = <<>>)
        /\ IF served THEN rpc'[r] = "reading" /\ want'[r] = n
                     ELSE rpc'[r] = "open" /\ want'[r] = 0
    BY <1>2, <1>4 DEF RomInv, RomTypeOK
  <1>8. ended'[r] /\ Fits(f) => position'[r] = f.length
    <2> SUFFICES ASSUME ~served, len > 0, bytes = <<>>, Fits(f) PROVE p + Len(bytes) = f.length
      BY <1>7
    <2>1. Len(bytes) = 0
      OBVIOUS
    <2>2. CASE f.script
      BY <1>2, <1>3, <1>5, <2>1, <2>2
    <2>3. CASE ~f.script
      BY <1>2, <1>3, <2>1, <2>3 DEF Fits
    <2> QED BY <2>2, <2>3
  <1>9. Clean' = Clean /\ polled' = polled
    BY DEF Clean, initVars, taskVars, historyVars
  <1>10. ReaderOK(r)'
    BY <1>2, <1>3, <1>5, <1>7, <1>8, <1>9 DEF ReaderOK
  <1> QED BY <1>4, <1>6, <1>10, OneReader DEF RomInv, RomTypeOK

(* The driver task serves a read: from an identified chip the bytes of the  *)
(* file, in quad I/O with 4 byte addresses.                                *)
LEMMA ServeInv ==
    ASSUME BootInv, RomInv, NEW r \in Reader, Serve(r)
    PROVE  RomInv'
  <1> DEFINE f == file[r]
             p == position[r]
             n == want[r]
             bytes == [i \in 1 .. n |->
                 IF Configured /\ ~chip.WIP THEN Content(f, p + i - 1) ELSE Garbage]
  <1>1. /\ ipc = "loop" /\ rpc[r] = "reading" /\ rpc' = [rpc EXCEPT ![r] = "open"]
        /\ want' = [want EXCEPT ![r] = 0]
        /\ position' = [position EXCEPT ![r] = @ + Len(bytes)]
        /\ got' = [got EXCEPT ![r] = @ \o bytes]
        /\ UNCHANGED <<file, ended>> /\ UNCHANGED initVars
    BY DEF Serve, FreadReturns, Delivered, Goes
  <1>2. /\ ReaderOK(r) /\ p \in Nat /\ n \in Nat /\ p + n <= f.length /\ ~ended[r]
        /\ f.length \in Nat
    BY <1>1, FileTypes DEF RomInv, RomTypeOK, ReaderOK
  <1>3. Len(bytes) = n
    BY <1>2
  <1>4. Clean => Right(got[r] \o bytes, f, p + n, polled)
    <2> SUFFICES ASSUME Clean PROVE Right(got[r] \o bytes, f, p + n, polled)
      OBVIOUS
    <2>1. Configured /\ (~polled => ~chip.WIP) /\ polled \in BOOLEAN
      BY <1>1 DEF Clean, InInit, BootInv, BootTypeOK, HeardOrNone
    <2>2. /\ bytes = [i \in 1 .. n |-> bytes[i]]
          /\ \A i \in 1 .. n : RightAt(bytes[i], f, p + i - 1, polled)
      BY <2>1 DEF RightAt
    <2>3. Right(got[r], f, p, polled)
      BY <1>2 DEF ReaderOK
    <2> QED
      <3> HIDE DEF bytes, n, p, f
      <3> QED BY <1>2, <2>2, <2>3, RightGrows
  <1> HIDE DEF bytes
  <1>5. RomTypeOK'
    <2>1. Len(bytes) \in Nat /\ p + Len(bytes) \in Nat
      BY <1>2, <1>3
    <2> QED BY <1>1, <2>1 DEF RomInv, RomTypeOK
  <1>6. /\ file'[r] = f /\ position'[r] = p + n /\ got'[r] = got[r] \o bytes
        /\ rpc'[r] = "open" /\ want'[r] = 0 /\ ended'[r] = ended[r]
    BY <1>1, <1>2, <1>3 DEF RomInv, RomTypeOK
  <1>7. Clean' = Clean /\ polled' = polled
    BY <1>1 DEF Clean, initVars, taskVars, historyVars
  <1>8. ReaderOK(r)'
    BY <1>2, <1>4, <1>6, <1>7 DEF ReaderOK
  <1> QED BY <1>1, <1>5, <1>8, OneReader DEF RomInv, RomTypeOK

LEMMA RomInvStep == BootInv /\ RomInv /\ [Next]_vars => RomInv'
  <1> SUFFICES ASSUME BootInv, RomInv, [Next]_vars PROVE RomInv'
    OBVIOUS
  <1>1. CASE BootStep /\ UNCHANGED romVars
    BY <1>1, BootStepRom
  <1>2. ASSUME NEW r \in Reader, ReaderStep(r) PROVE RomInv'
    BY <1>2, PollInv, FopenInv, FreadInv, FcloseInv DEF ReaderStep
  <1>3. ASSUME NEW r \in Reader, Serve(r) PROVE RomInv'
    BY <1>3, ServeInv
  <1>4. CASE Reset
    BY <1>4, StartInv DEF Reset
  <1>5. CASE UNCHANGED vars
    BY <1>5 DEF vars, RomInv, RomTypeOK, ReaderOK, Clean, initVars, taskVars, historyVars, romVars
  <1> QED
    BY <1>1, <1>2, <1>3, <1>4, <1>5 DEF Next

LEMMA RomInvariant == Spec => [](BootInv /\ RomInv)
  <1>1. Init => BootInv /\ RomInv
    BY InitBootInv, StartInv DEF Init
  <1> QED
    BY <1>1, BootInvStep, RomInvStep, PTL DEF Spec

(* Type correctness. *)
THEOREM TypeCorrect == Spec => []TypeOK
  <1>1. BootInv /\ RomInv => TypeOK
    BY DEF BootInv, BootTypeOK, RomInv, RomTypeOK, TypeOK, InInit, Bytes
  <1> QED
    BY <1>1, RomInvariant, PTL

(* What the readers get of an identified chip is their files, whatever the  *)
(* lengths, the interleaving, the erases, the DMA programs and the resets; *)
(* and after a program that is not waited for, each byte in its place is   *)
(* the file's or that of a bus no chip drives.                             *)
THEOREM ReadersGetFiles == Spec => []DeliveredIsFile
  <1>1. BootInv /\ RomInv => DeliveredIsFile
    BY DEF RomInv, ReaderOK, Clean, Right, RightAt, DeliveredIsFile
  <1> QED
    BY <1>1, RomInvariant, PTL

(* A read of 0 bytes is the end of a file that the flash holds. *)
THEOREM EndIsEnd == Spec => []EndMeansWhole
  <1>1. BootInv /\ RomInv => EndMeansWhole
    BY DEF RomInv, ReaderOK, Fits, EndMeansWhole
  <1> QED
    BY <1>1, RomInvariant, PTL
=============================================================================
