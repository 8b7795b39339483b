------------------------------ MODULE MCMT25Q ------------------------------
EXTENDS MT25Q

MCCall(name, addr, n, blocking) ==
    [name |-> name, addr |-> addr, n |-> n, blocking |-> blocking]

(* Four sectors of two bytes, a page each.  A program over three pages and  *)
(* one past the end; erases with and without a wait, and of no sector; a   *)
(* lock of two sectors and a bit, one that is not at an end; a register    *)
(* with BP = 1; an OTP array that is too long.                             *)
MCOp ==
    {MCCall("PROGRAM", 1, 4, TRUE), MCCall("PROGRAM", 7, 2, TRUE),
     MCCall("SECTOR", 2, 2, FALSE), MCCall("SECTOR", 2, 2, TRUE), MCCall("SECTOR", 8, 2, TRUE),
     MCCall("SUBSECTOR", 4, 2, TRUE), MCCall("DIE", 0, 8, FALSE), MCCall("BULK", 0, 8, TRUE),
     MCCall("SUSPEND", 0, 0, TRUE), MCCall("RESUME", 0, 0, TRUE),
     MCCall("LOCK", 0, 5, TRUE), MCCall("LOCK", 6, 2, TRUE), MCCall("LOCK", 2, 2, TRUE),
     MCCall("UNLOCK", 0, 0, TRUE), MCCall("WRSR", 0, 4, TRUE),
     MCCall("EN4", 0, 0, TRUE), MCCall("EX4", 0, 0, TRUE), MCCall("REGISTER", 0, 0, TRUE),
     MCCall("PPB", 2, 2, TRUE), MCCall("PPB", 8, 2, TRUE), MCCall("CONFIG", 0, 0, TRUE),
     MCCall("OTP", 0, 1, TRUE), MCCall("OTP", 0, 2, TRUE)}

(* A program and an erase of what it has programmed. *)
MCEraseOp ==
    {MCCall("PROGRAM", 1, 4, TRUE), MCCall("SECTOR", 2, 2, TRUE), MCCall("SUBSECTOR", 4, 2, TRUE)}
=============================================================================
