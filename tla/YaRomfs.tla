------------------------------- MODULE YaRomfs -------------------------------
(***************************************************************************)
(* The file reader of http/yaRomfsCore.c: yaromfs_fopen, yaromfs_fread and *)
(* yaromfs_fclose, called by several tasks, each with a handle of its own. *)
(* A fread of a file in flash is a call of qspiReadFlash, which blocks;    *)
(* its outcome comes from outside (FreadReturns).  The table of files is   *)
(* generated.                                                              *)
(***************************************************************************)
EXTENDS Integers, Sequences

CONSTANTS
    Reader,          \* the tasks
    Polls,           \* those that wait for READY first, like testQSPI
    File,            \* entries of the table: [addr, length, script]
    ReadLen,         \* lengths asked for
    QSPI_FLASH_SIZE

ASSUME FileAssumption ==
    /\ Polls \subseteq Reader
    /\ \A f \in File : f.addr \in Nat /\ f.length \in Nat /\ f.script \in BOOLEAN
    /\ ReadLen \subseteq Nat
    /\ QSPI_FLASH_SIZE \in Nat

VARIABLES
    rpc,      \* where a reader is
    file,     \* handle->file
    position, \* handle->position
    want,     \* bytes its qspiReadFlash is to deliver
    got,      \* bytes delivered since it opened the file
    ended     \* its last fread returned 0 to a request for more

romVars == <<rpc, file, position, want, got, ended>>

NoFile == [addr |-> 0, length |-> 0, script |-> FALSE]

(* The byte at an offset of a file, named by where it comes from. *)
Content(f, i) == <<IF f.script THEN "response" ELSE "flash", f.addr + i>>

(* Every reader at its start; the other variables by reader. *)
Start == [r \in Reader |-> IF r \in Polls THEN "poll" ELSE "closed"]
All(v) == [r \in Reader |-> v]

InitReaders ==
    /\ rpc = Start /\ file = All(NoFile) /\ position = All(0) /\ want = All(0)
    /\ got = All(<<>>) /\ ended = All(FALSE)

ResetReaders ==
    /\ rpc' = Start /\ file' = All(NoFile) /\ position' = All(0) /\ want' = All(0)
    /\ got' = All(<<>>) /\ ended' = All(FALSE)

Goes(r, where) == rpc' = [rpc EXCEPT ![r] = where]

(* testQSPI: while (qspiDriverStatus() != DRIV_QSPI_STATUS_READY) *)
Poll(r, ready) ==
    /\ rpc[r] = "poll" /\ ready
    /\ Goes(r, "closed")
    /\ UNCHANGED <<file, position, want, got, ended>>

(* NULL for an unknown file or for want of memory leaves the reader closed; *)
(* testQSPI reads through the NULL it got, which has no defined outcome.   *)
Fopen(r) ==
    /\ rpc[r] = "closed"
    /\ \/ \E f \in File : file' = [file EXCEPT ![r] = f] /\ Goes(r, "open")
       \/ r \in Polls /\ Goes(r, "undefined") /\ UNCHANGED file
    /\ UNCHANGED <<position, want, got, ended>>

(* (FromStart is a mutant: the position is not taken off.)                  *)
FromStart(r) == file[r].length
Remaining(r) == file[r].length - position[r]

Delivered(r, bytes) ==
    /\ position' = [position EXCEPT ![r] = @ + Len(bytes)]
    /\ got' = [got EXCEPT ![r] = @ \o bytes]

(* The end of the file and an error of qspiReadFlash both return 0. *)
Fread(r) == \E len \in ReadLen :
    LET n == IF len > Remaining(r) THEN Remaining(r) ELSE len
        start == file[r].addr + position[r]
        served == ~file[r].script /\ n > 0 /\ start + n <= QSPI_FLASH_SIZE
        bytes == IF file[r].script THEN [i \in 1 .. n |-> Content(file[r], position[r] + i - 1)]
                 ELSE <<>>
    IN  /\ rpc[r] = "open"
        /\ IF served THEN Goes(r, "reading") /\ want' = [want EXCEPT ![r] = n]
                     ELSE UNCHANGED <<rpc, want>>
        /\ ended' = [ended EXCEPT ![r] = ~served /\ len > 0 /\ bytes = <<>>]
        /\ Delivered(r, bytes)
        /\ UNCHANGED file

(* qspiReadFlash has delivered. *)
FreadReturns(r, bytes) ==
    /\ rpc[r] = "reading"
    /\ Delivered(r, bytes)
    /\ want' = [want EXCEPT ![r] = 0]
    /\ Goes(r, "open")
    /\ UNCHANGED <<file, ended>>

Fclose(r) ==
    /\ rpc[r] = "open"
    /\ file' = [file EXCEPT ![r] = NoFile]
    /\ position' = [position EXCEPT ![r] = 0]
    /\ got' = [got EXCEPT ![r] = <<>>]
    /\ ended' = [ended EXCEPT ![r] = FALSE]
    /\ Goes(r, "closed")
    /\ UNCHANGED want
=============================================================================
