---------------------------- MODULE CommandQueue ----------------------------
(***************************************************************************)
(* The queue QspiDriver relies on: a bounded sequence whose operations are *)
(* atomic, and a send to a full queue or a receive from an empty one that  *)
(* simply does not happen yet.                                             *)
(***************************************************************************)
EXTENDS Integers, Sequences

CONSTANTS
    Task, Item, NoItem,
    May,         \* for every task, the calls it makes: [how, item, wait]
    uxLength     \* the capacity

VARIABLES
    queue,
    call,        \* the call a task is in
    got          \* what its last receive or peek has returned

vars == <<queue, call, got>>

NoCall == [how |-> "none", item |-> NoItem, wait |-> FALSE]

Init == queue = <<>> /\ call = [t \in Task |-> NoCall] /\ got = [t \in Task |-> NoItem]

Make(t) ==
    /\ call[t] = NoCall
    /\ \E c \in May[t] : call' = [call EXCEPT ![t] = c]
    /\ UNCHANGED <<queue, got>>

Return(t) == call' = [call EXCEPT ![t] = NoCall]

Send(t) ==
    /\ call[t].how \in {"back", "front"} /\ Len(queue) < uxLength
    /\ queue' = IF call[t].how = "back" THEN Append(queue, call[t].item)
                                        ELSE <<call[t].item>> \o queue
    /\ Return(t) /\ UNCHANGED got

Receive(t) ==
    /\ call[t].how \in {"receive", "peek"} /\ queue # <<>>
    /\ got' = [got EXCEPT ![t] = Head(queue)]
    /\ queue' = IF call[t].how = "receive" THEN Tail(queue) ELSE queue
    /\ Return(t)

(* With no time to wait: errQUEUE_FULL, errQUEUE_EMPTY. *)
Refuse(t) ==
    /\ ~call[t].wait
    /\ \/ call[t].how \in {"back", "front"} /\ Len(queue) = uxLength
       \/ call[t].how \in {"receive", "peek"} /\ queue = <<>>
    /\ Return(t) /\ UNCHANGED <<queue, got>>

Next == \E t \in Task : Make(t) \/ Send(t) \/ Receive(t) \/ Refuse(t)

Spec == Init /\ [][Next]_vars
=============================================================================
