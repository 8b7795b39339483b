---------------------------- MODULE FlashService ----------------------------
(***************************************************************************)
(* What the QSPI flash driver promises to the tasks that call it, without  *)
(* a queue, a driver task or a notification.                               *)
(*                                                                         *)
(* A task's request is open from the call to the return.  While it is open *)
(* the service moves it forward a piece at a time: a read fetches the      *)
(* cells that follow the ones it already has, a write programs the cells   *)
(* that follow, an erase clears one sector.  The pieces of a read may fall *)
(* between the pieces of a write, but once a write has begun no other      *)
(* write and no erase takes effect before its last piece.                  *)
(*                                                                         *)
(* A cell holds the set of bytes programmed into it since its last erase:  *)
(* NOR programming only clears bits, so a second program of a cell ANDs    *)
(* into it, which is union on these sets; {} is the erased value 0xFF.     *)
(***************************************************************************)
EXTENDS Integers

CONSTANTS
    Task,          \* the tasks that call the driver
    Cell,          \* the cells of the flash
    NoTask         \* not a task

VARIABLES
    store,         \* the flash: a set of bytes for every cell
    online,        \* does the chip answer?
    request,       \* for every task, what is left of its open request
    buffer,        \* for every task, the memory its open request points to
    ret,           \* for every task, the result of its last request
    writing        \* the task whose write has begun and not ended, or NoTask

vars == <<store, online, request, buffer, ret, writing>>

(* No request is open. *)
Closed == [op |-> "NONE", next |-> 0, at |-> 0, left |-> 0]

Init ==
    /\ store \in [Cell -> {{}}]
    /\ online = FALSE
    /\ request = [t \in Task |-> Closed]
    /\ ret = [t \in Task |-> "ERR_NONE"]
    /\ buffer = [t \in Task |-> <<>>]
    /\ writing = NoTask

(* Task t opens a request; nothing else of the service changes. *)
Open(t) ==
    /\ request[t] = Closed
    /\ request'[t].op \in {"READ", "WRITE", "ERASE"}
    /\ request' = [request EXCEPT ![t] = request'[t]]
    /\ buffer' = [buffer EXCEPT ![t] = buffer'[t]]
    /\ ret' = [ret EXCEPT ![t] = "ERR_NONE"]
    /\ UNCHANGED <<store, online, writing>>

(* Task t's request is refused at the call, or needs no work. *)
Refuse(t) ==
    /\ request[t] = Closed
    /\ ret' = [ret EXCEPT ![t] = ret'[t]]
    /\ UNCHANGED <<store, online, request, buffer, writing>>

(* The first k cells of what is left of t's request are dealt with. *)
Advance(t, k) ==
    request' = [request EXCEPT ![t] =
        [op |-> @.op, next |-> @.next + k, at |-> @.at + k, left |-> @.left - k]]

(* The next k cells, read at one instant, go to their place in the buffer. *)
ReadSome(t) ==
    /\ request[t].op = "READ"
    /\ \E k \in 1..request[t].left :
        /\ Advance(t, k)
        /\ buffer' = [buffer EXCEPT ![t] = [i \in DOMAIN @ |->
                IF i \in request[t].at .. request[t].at + k - 1 /\ online
                THEN store[request[t].next + i - request[t].at]
                ELSE IF i \in request[t].at .. request[t].at + k - 1
                     THEN {}
                     ELSE @[i]]]
    /\ UNCHANGED <<store, online, ret, writing>>

(* The next k cells are programmed, each with its own byte of the buffer. *)
WriteSome(t) ==
    /\ request[t].op = "WRITE"
    /\ writing \in {NoTask, t}
    /\ \E k \in 1..request[t].left :
        /\ Advance(t, k)
        /\ store' = [c \in Cell |->
              IF online /\ c \in request[t].next .. request[t].next + k - 1
              THEN store[c] \cup buffer[t][request[t].at + c - request[t].next]
              ELSE store[c]]
        /\ writing' = IF k < request[t].left THEN t ELSE NoTask
    /\ UNCHANGED <<online, buffer, ret>>

(* The sector of left cells that starts at next is erased, or refused. *)
EraseSector(t) ==
    /\ request[t].op = "ERASE"
    /\ request[t].left > 0
    /\ writing = NoTask
    /\ Advance(t, request[t].left)
    /\ \/ /\ store' = [c \in Cell |->
                IF online /\ c \in request[t].next .. request[t].next + request[t].left - 1
                THEN {} ELSE store[c]]
          /\ UNCHANGED ret
       \/ /\ ret' = [ret EXCEPT ![t] = ret'[t]]
          /\ ret'[t] \in {"ERR_INVALID_SIZE", "ERR_INVALID_START_ADDR"}
          /\ UNCHANGED store
    /\ UNCHANGED <<online, buffer, writing>>

(* The call returns: only when nothing is left to do. *)
Return(t) ==
    /\ request[t].op # "NONE"
    /\ request[t].left = 0
    /\ request' = [request EXCEPT ![t] = Closed]
    /\ buffer' = [buffer EXCEPT ![t] = <<>>]
    /\ UNCHANGED <<store, online, ret, writing>>

(* The driver identifies the chip; from then on it answers. *)
Detect ==
    /\ ~online
    /\ online' = TRUE
    /\ UNCHANGED <<store, request, buffer, ret, writing>>

Next ==
    \/ \E t \in Task : Open(t) \/ Refuse(t) \/ ReadSome(t) \/ WriteSome(t)
                          \/ EraseSector(t) \/ Return(t)
    \/ Detect

Spec == Init /\ [][Next]_vars
=============================================================================
