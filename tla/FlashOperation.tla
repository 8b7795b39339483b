--------------------------- MODULE FlashOperation ---------------------------
(***************************************************************************)
(* What one call of readFlash, writeFlashPage or eraseSector promises to   *)
(* the driver task: the operation takes effect on the flash array at one   *)
(* instant between the call and the return, and never after the return.    *)
(***************************************************************************)
EXTENDS Integers, Sequences

CONSTANTS Cell, Byte

VARIABLES
    array,      \* the flash array
    operation,  \* the operation the driver task is in, or NoOperation
    performed,  \* has it taken effect?
    ram         \* what a read has delivered

vars == <<array, operation, performed, ram>>

NoOperation == [kind |-> "NONE", addr |-> 0, len |-> 0, bytes |-> <<>>]

(* The array after a program of bytes from a on, and after an erase. *)
Programmed(a, bytes) ==
    [c \in Cell |-> IF c \in a .. a + Len(bytes) - 1
                    THEN array[c] \cup bytes[c - a + 1] ELSE array[c]]

Erased(a, n) == [c \in Cell |-> IF c \in a .. a + n - 1 THEN {} ELSE array[c]]

Init ==
    /\ array = [c \in Cell |-> {}]
    /\ operation = NoOperation
    /\ performed = FALSE
    /\ ram = <<>>

Begin ==
    /\ operation = NoOperation
    /\ operation'.kind \in {"READ", "WRITE", "ERASE"}
    /\ performed' = FALSE
    /\ ram' = <<>>
    /\ UNCHANGED array

Perform ==
    /\ ~performed
    /\ performed' = TRUE
    /\ \/ /\ operation.kind = "READ"
          /\ ram' = [i \in 1 .. operation.len |-> array[operation.addr + i - 1]]
          /\ UNCHANGED array
       \/ /\ operation.kind = "WRITE"
          /\ array' = Programmed(operation.addr, operation.bytes)
          /\ UNCHANGED ram
       \/ /\ operation.kind = "ERASE"
          /\ array' = Erased(operation.addr, operation.len)
          /\ UNCHANGED ram
    /\ UNCHANGED operation

Return ==
    /\ operation # NoOperation
    /\ performed
    /\ operation' = NoOperation
    /\ performed' = FALSE
    /\ ram' = <<>>
    /\ UNCHANGED array

Next == Begin \/ Perform \/ Return

Spec == Init /\ [][Next]_vars
=============================================================================
