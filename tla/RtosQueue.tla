----------------------------- MODULE RtosQueue -----------------------------
(***************************************************************************)
(* The FreeRTOS queue under the driver: xQueueGenericSend, xQueueReceive   *)
(* and xQueuePeek of FreeRTOS_Source/queue.c on a ring of uxLength items.  *)
(* A call tries in a critical section; a call that cannot go on and may    *)
(* wait suspends the scheduler and looks again before it goes to sleep on  *)
(* an event list.  Between the two, and after a wake-up, any task may run. *)
(*                                                                         *)
(* The block time is 0 or portMAX_DELAY, which never ends                  *)
(* (INCLUDE_vTaskSuspend); no interrupt uses the queue, so that the locks  *)
(* of prvLockQueue count nothing, and it is in no queue set.  The event    *)
(* lists are in priority order; here any of their tasks may come first.    *)
(***************************************************************************)
EXTENDS Integers, FiniteSets

CONSTANTS
    Task, Item, NoItem,
    May,         \* for every task, the calls it makes: [how, item, wait]
    uxLength     \* the capacity

Calls == [how : {"back", "front"}, item : Item, wait : BOOLEAN]
         \cup [how : {"receive", "peek"}, item : {NoItem}, wait : BOOLEAN]

ASSUME QueueAssumption ==
    /\ uxLength \in Nat \ {0}
    /\ IsFiniteSet(Task)
    /\ NoItem \notin Item
    /\ May \in [Task -> SUBSET Calls]

VARIABLES
    buffer,              \* the ring, pcHead .. pcTail
    pcWriteTo,           \* index of the next item sent to the back
    pcReadFrom,          \* index before the first item
    uxMessagesWaiting,
    tpc,                 \* where a task is in its call
    call, got

ringVars == <<buffer, pcWriteTo, pcReadFrom, uxMessagesWaiting>>
vars == <<ringVars, tpc, call, got>>

NoCall == [how |-> "none", item |-> NoItem, wait |-> FALSE]

(* xQueueGenericReset of a new queue. *)
Init ==
    /\ buffer = [i \in 0 .. uxLength - 1 |-> NoItem]
    /\ pcWriteTo = 0 /\ pcReadFrom = uxLength - 1 /\ uxMessagesWaiting = 0
    /\ tpc = [t \in Task |-> "idle"]
    /\ call = [t \in Task |-> NoCall] /\ got = [t \in Task |-> NoItem]

Sends(t) == call[t].how \in {"back", "front"}
Receives(t) == call[t].how \in {"receive", "peek"}

xTasksWaitingToSend == {t \in Task : tpc[t] = "blocked" /\ Sends(t)}
xTasksWaitingToReceive == {t \in Task : tpc[t] = "blocked" /\ Receives(t)}

(* (NoWrap is a mutant: the read index is not set to the end of the ring.)  *)
NoWrap(i) == i - 1
Up(i) == IF i + 1 >= uxLength THEN 0 ELSE i + 1
Down(i) == IF i - 1 < 0 THEN uxLength - 1 ELSE i - 1

-----------------------------------------------------------------------------

Make(t) ==
    /\ tpc[t] = "idle"
    /\ \E c \in May[t] : call' = [call EXCEPT ![t] = c]
    /\ tpc' = [tpc EXCEPT ![t] = "try"]
    /\ UNCHANGED <<ringVars, got>>

(* The call returns and takes a task off an event list, if there is one.    *)
(* (WakesNone is a mutant: the list is not looked at.)                      *)
WakesNone(t, list) == tpc' = [tpc EXCEPT ![t] = "idle"]
Wakes(t, list) ==
    \/ list = {} /\ tpc' = [tpc EXCEPT ![t] = "idle"]
    \/ \E w \in list : tpc' = [tpc EXCEPT ![t] = "idle", ![w] = "try"]

Return(t) == call' = [call EXCEPT ![t] = NoCall]

(* prvCopyDataToQueue.  (FrontAfter is a mutant: the read index moves       *)
(* before the copy, as it does in a receive.)                              *)
CopyToBack(item) ==
    /\ buffer' = [buffer EXCEPT ![pcWriteTo] = item]
    /\ pcWriteTo' = Up(pcWriteTo) /\ UNCHANGED pcReadFrom

FrontAfter(item) ==
    /\ buffer' = [buffer EXCEPT ![Down(pcReadFrom)] = item]
    /\ pcReadFrom' = Down(pcReadFrom) /\ UNCHANGED pcWriteTo
CopyToFront(item) ==
    /\ buffer' = [buffer EXCEPT ![pcReadFrom] = item]
    /\ pcReadFrom' = Down(pcReadFrom) /\ UNCHANGED pcWriteTo

Send(t) ==
    /\ tpc[t] = "try" /\ Sends(t) /\ uxMessagesWaiting < uxLength
    /\ IF call[t].how = "back" THEN CopyToBack(call[t].item) ELSE CopyToFront(call[t].item)
    /\ uxMessagesWaiting' = uxMessagesWaiting + 1
    /\ Wakes(t, xTasksWaitingToReceive)
    /\ Return(t) /\ UNCHANGED got

Receive(t) ==
    /\ tpc[t] = "try" /\ call[t].how = "receive" /\ uxMessagesWaiting > 0
    /\ pcReadFrom' = Up(pcReadFrom)
    /\ got' = [got EXCEPT ![t] = buffer[Up(pcReadFrom)]]
    /\ uxMessagesWaiting' = uxMessagesWaiting - 1
    /\ Wakes(t, xTasksWaitingToSend)
    /\ Return(t) /\ UNCHANGED <<buffer, pcWriteTo>>

(* The read index is put back; another receiver may have the item. *)
Peek(t) ==
    /\ tpc[t] = "try" /\ call[t].how = "peek" /\ uxMessagesWaiting > 0
    /\ got' = [got EXCEPT ![t] = buffer[Up(pcReadFrom)]]
    /\ Wakes(t, xTasksWaitingToReceive)
    /\ Return(t) /\ UNCHANGED ringVars

(* (Always is a mutant: the task goes to sleep without a second look.)      *)
Always(t) == TRUE
MustWait(t) == IF Sends(t) THEN uxMessagesWaiting = uxLength ELSE uxMessagesWaiting = 0

Refuse(t) ==
    /\ tpc[t] = "try" /\ ~call[t].wait
    /\ IF Sends(t) THEN uxMessagesWaiting >= uxLength ELSE uxMessagesWaiting <= 0
    /\ tpc' = [tpc EXCEPT ![t] = "idle"]
    /\ Return(t) /\ UNCHANGED <<ringVars, got>>

(* The critical section is left; the scheduler is not yet suspended. *)
GoToWait(t) ==
    /\ tpc[t] = "try" /\ call[t].wait
    /\ IF Sends(t) THEN uxMessagesWaiting >= uxLength ELSE uxMessagesWaiting <= 0
    /\ tpc' = [tpc EXCEPT ![t] = "recheck"]
    /\ UNCHANGED <<ringVars, call, got>>

(* vTaskSuspendAll ... xTaskResumeAll: on the event list, or try again. *)
Recheck(t) ==
    /\ tpc[t] = "recheck"
    /\ tpc' = [tpc EXCEPT ![t] = IF MustWait(t) THEN "blocked" ELSE "try"]
    /\ UNCHANGED <<ringVars, call, got>>

Step(t) == Send(t) \/ Receive(t) \/ Peek(t) \/ Refuse(t) \/ GoToWait(t) \/ Recheck(t)

Next == \E t \in Task : Make(t) \/ Step(t)

Spec == Init /\ [][Next]_vars

-----------------------------------------------------------------------------

(* Type invariant. *)
TypeOK ==
    /\ buffer \in [0 .. uxLength - 1 -> Item \cup {NoItem}]
    /\ pcWriteTo \in 0 .. uxLength - 1 /\ pcReadFrom \in 0 .. uxLength - 1
    /\ uxMessagesWaiting \in 0 .. uxLength
    /\ tpc \in [Task -> {"idle", "try", "recheck", "blocked"}]
    /\ call \in [Task -> Calls \cup {NoCall}]
    /\ got \in [Task -> Item \cup {NoItem}]
    /\ \A t \in Task : tpc[t] = "idle" <=> call[t] = NoCall

(* No wake-up is lost: while a sender sleeps, every free place is promised  *)
(* to a sender that is awake and yet to try, and while a receiver sleeps,  *)
(* every item to a receiver that is; although a task that finds the queue  *)
(* full is preempted before it sleeps, although a task that was woken can  *)
(* be overtaken, and although a peek leaves its item in the queue.         *)
NoLostWakeup ==
    /\ xTasksWaitingToSend # {} =>
         uxLength - uxMessagesWaiting <= Cardinality({t \in Task : tpc[t] = "try" /\ Sends(t)})
    /\ xTasksWaitingToReceive # {} =>
         uxMessagesWaiting <= Cardinality({t \in Task : tpc[t] = "try" /\ Receives(t)})

(* The items from the first to the last. *)
Slot(i) == IF pcReadFrom + i >= uxLength THEN pcReadFrom + i - uxLength ELSE pcReadFrom + i
Items == [i \in 1 .. uxMessagesWaiting |-> buffer[Slot(i)]]

Q == INSTANCE CommandQueue WITH queue <- Items

(* The ring, its two indices and its counter, used from both ends, behave   *)
(* as the bounded sequence of CommandQueue: no item is lost, duplicated,   *)
(* overwritten or out of order.                                            *)
ImplementsQueue == Q!Spec
=============================================================================
