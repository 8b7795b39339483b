-------------------------- MODULE RtosQueue_proofs --------------------------
(***************************************************************************)
(* Theorems about RtosQueue, for any tasks making any calls and any        *)
(* capacity: the ring is consistent, no wake-up is lost, and the queue     *)
(* implements CommandQueue.                                                *)
(***************************************************************************)
EXTENDS RtosQueue, SequenceTheorems, FiniteSetTheorems, TLAPS

USE QueueAssumption

(* The write index is the place behind the last item. *)
RingOK ==
    pcWriteTo = IF uxMessagesWaiting = uxLength THEN Slot(1) ELSE Slot(uxMessagesWaiting + 1)

Inv == TypeOK /\ RingOK

-----------------------------------------------------------------------------
(* The ring and the types. *)

(* A wake-up moves tasks between the places they can be in, and leaves      *)
(* awake whom it does not return.                                          *)
LEMMA WakesType ==
    ASSUME NEW t \in Task, NEW list \in SUBSET Task, TypeOK, Wakes(t, list),
           \A w \in list : tpc[w] = "blocked", tpc[t] = "try"
    PROVE  /\ tpc' \in [Task -> {"idle", "try", "recheck", "blocked"}]
           /\ \A s \in Task : tpc'[s] = "idle" <=> s = t \/ tpc[s] = "idle"
  BY DEF TypeOK, Wakes

(* Returning ends the call of one task. *)
LEMMA ReturnType ==
    ASSUME NEW t \in Task, TypeOK, Return(t)
    PROVE  /\ call' \in [Task -> Calls \cup {NoCall}]
           /\ \A s \in Task : call'[s] = IF s = t THEN NoCall ELSE call[s]
  BY DEF TypeOK, Return

LEMMA InitInv == Init => Inv
  BY DEF Init, Inv, TypeOK, RingOK, Slot

(* Every step keeps the ring consistent. *)
LEMMA NextInv == Inv /\ [Next]_vars => Inv'
  <1> SUFFICES ASSUME Inv, [Next]_vars PROVE Inv'
    OBVIOUS
  <1> USE DEF Inv
  <1>1. ASSUME NEW t \in Task, Make(t) PROVE Inv'
    <2>1. PICK c \in May[t] : call' = [call EXCEPT ![t] = c]
      BY <1>1 DEF Make
    <2>2. c \in Calls /\ c # NoCall
      BY DEF Calls, NoCall
    <2>3. TypeOK'
      BY <1>1, <2>1, <2>2 DEF Make, TypeOK, ringVars
    <2>4. RingOK'
      BY <1>1 DEF Make, RingOK, Slot, ringVars
    <2> QED BY <2>3, <2>4
  <1>2. ASSUME NEW t \in Task, Send(t) PROVE Inv'
    <2>1. call[t].item \in Item
      BY <1>2 DEF Send, Sends, TypeOK, Calls, NoCall
    <2>2. /\ tpc' \in [Task -> {"idle", "try", "recheck", "blocked"}]
          /\ \A s \in Task : tpc'[s] = "idle" <=> s = t \/ tpc[s] = "idle"
      BY <1>2, WakesType DEF Send, xTasksWaitingToReceive
    <2>3. /\ call' \in [Task -> Calls \cup {NoCall}]
          /\ \A s \in Task : call'[s] = IF s = t THEN NoCall ELSE call[s]
      BY <1>2, ReturnType DEF Send
    <2>4. CASE call[t].how = "back"
      <3>1. TypeOK'
        BY <1>2, <2>1, <2>2, <2>3, <2>4 DEF Send, CopyToBack, Up, TypeOK
      <3>2. /\ pcWriteTo' = Up(pcWriteTo) /\ pcReadFrom' = pcReadFrom
            /\ uxMessagesWaiting' = uxMessagesWaiting + 1
            /\ uxMessagesWaiting < uxLength
        BY <1>2, <2>4 DEF Send, CopyToBack
      <3>3. /\ pcReadFrom \in 0 .. uxLength - 1 /\ uxMessagesWaiting \in 0 .. uxLength - 1
            /\ pcWriteTo = Slot(uxMessagesWaiting + 1)
        BY <3>2 DEF TypeOK, RingOK
      <3>4. RingOK'
        BY <3>2, <3>3 DEF Up, RingOK, Slot
      <3> QED BY <3>1, <3>4
    <2>5. CASE call[t].how # "back"
      <3>1. /\ pcReadFrom' = Down(pcReadFrom) /\ pcWriteTo' = pcWriteTo
            /\ buffer' = [buffer EXCEPT ![pcReadFrom] = call[t].item]
            /\ uxMessagesWaiting' = uxMessagesWaiting + 1
            /\ uxMessagesWaiting < uxLength /\ got' = got
        BY <1>2, <2>5 DEF Send, CopyToFront
      <3>2. /\ pcReadFrom \in 0 .. uxLength - 1 /\ uxMessagesWaiting \in 0 .. uxLength - 1
            /\ pcWriteTo = Slot(uxMessagesWaiting + 1)
        BY <3>1 DEF TypeOK, RingOK
      <3>3. pcReadFrom' \in 0 .. uxLength - 1 /\ uxMessagesWaiting' \in 0 .. uxLength
        BY <3>1, <3>2 DEF Down
      <3>4. TypeOK'
        BY <2>1, <2>2, <2>3, <3>1, <3>3 DEF TypeOK
      <3>5. RingOK'
        BY <3>1, <3>2 DEF Down, RingOK, Slot
      <3> QED BY <3>4, <3>5
    <2> QED BY <2>4, <2>5
  <1>3. ASSUME NEW t \in Task, Receive(t) PROVE Inv'
    <2>2. /\ tpc' \in [Task -> {"idle", "try", "recheck", "blocked"}]
          /\ \A s \in Task : tpc'[s] = "idle" <=> s = t \/ tpc[s] = "idle"
      BY <1>3, WakesType DEF Receive, xTasksWaitingToSend
    <2>3. /\ call' \in [Task -> Calls \cup {NoCall}]
          /\ \A s \in Task : call'[s] = IF s = t THEN NoCall ELSE call[s]
      BY <1>3, ReturnType DEF Receive
    <2>1. Up(pcReadFrom) \in 0 .. uxLength - 1 /\ uxMessagesWaiting' \in 0 .. uxLength
      BY <1>3 DEF Receive, Up, TypeOK
    <2>4. TypeOK'
      BY <1>3, <2>1, <2>2, <2>3 DEF Receive, TypeOK
    <2>5. RingOK'
      BY <1>3 DEF Receive, Up, TypeOK, RingOK, Slot
    <2> QED BY <2>4, <2>5
  <1>4. ASSUME NEW t \in Task, Peek(t) PROVE Inv'
    <2>2. /\ tpc' \in [Task -> {"idle", "try", "recheck", "blocked"}]
          /\ \A s \in Task : tpc'[s] = "idle" <=> s = t \/ tpc[s] = "idle"
      BY <1>4, WakesType DEF Peek, xTasksWaitingToReceive
    <2>3. /\ call' \in [Task -> Calls \cup {NoCall}]
          /\ \A s \in Task : call'[s] = IF s = t THEN NoCall ELSE call[s]
      BY <1>4, ReturnType DEF Peek
    <2>1. Up(pcReadFrom) \in 0 .. uxLength - 1
      BY DEF Up, TypeOK
    <2>4. TypeOK'
      BY <1>4, <2>1, <2>2, <2>3 DEF Peek, TypeOK, ringVars
    <2>5. RingOK'
      BY <1>4 DEF Peek, RingOK, Slot, ringVars
    <2> QED BY <2>4, <2>5
  <1>5. ASSUME NEW t \in Task, Refuse(t) PROVE Inv'
    <2>1. TypeOK'
      BY <1>5, ReturnType DEF Refuse, TypeOK, ringVars
    <2>2. RingOK'
      BY <1>5 DEF Refuse, RingOK, Slot, ringVars
    <2> QED BY <2>1, <2>2
  <1>6. ASSUME NEW t \in Task, GoToWait(t) PROVE Inv'
    <2>1. TypeOK'
      BY <1>6 DEF GoToWait, TypeOK, ringVars
    <2>2. RingOK'
      BY <1>6 DEF GoToWait, RingOK, Slot, ringVars
    <2> QED BY <2>1, <2>2
  <1>7. ASSUME NEW t \in Task, Recheck(t) PROVE Inv'
    <2>1. TypeOK'
      BY <1>7 DEF Recheck, TypeOK, ringVars
    <2>2. RingOK'
      BY <1>7 DEF Recheck, RingOK, Slot, ringVars
    <2> QED BY <2>1, <2>2
  <1>8. CASE UNCHANGED vars
    BY <1>8 DEF vars, ringVars, TypeOK, RingOK, Slot
  <1> QED
    BY <1>1, <1>2, <1>3, <1>4, <1>5, <1>6, <1>7, <1>8 DEF Next, Step

(* The types, and with them the indices, stay in range for every capacity.  *)
THEOREM TypeCorrect == Spec => []TypeOK
  <1>1. Inv => TypeOK
    BY DEF Inv
  <1> QED
    BY InitInv, NextInv, <1>1, PTL DEF Spec

-----------------------------------------------------------------------------
(* The ring as a sequence. *)

Any == Item \cup {NoItem}

(* The items are as many as the counter says, each in its slot. *)
ItemsFacts ==
    /\ Items \in Seq(Any)
    /\ Len(Items) = uxMessagesWaiting
    /\ \A i \in 1 .. uxMessagesWaiting : Items[i] = buffer[Slot(i)]
    /\ \A i \in 1 .. uxLength : Slot(i) \in 0 .. uxLength - 1

LEMMA ItemsProperties == TypeOK => ItemsFacts
  <1> SUFFICES ASSUME TypeOK PROVE ItemsFacts
    OBVIOUS
  <1>1. \A i \in 1 .. uxLength : Slot(i) \in 0 .. uxLength - 1
    BY DEF TypeOK, Slot
  <1>2. uxMessagesWaiting \in Nat /\ \A i \in 1 .. uxMessagesWaiting : buffer[Slot(i)] \in Any
    BY <1>1 DEF TypeOK, Any
  <1>3. Items \in [1 .. uxMessagesWaiting -> Any]
    BY <1>2 DEF Items
  <1>4. Items \in Seq(Any) /\ Len(Items) = uxMessagesWaiting
    BY <1>2, <1>3
  <1> QED
    BY <1>1, <1>4 DEF Items, ItemsFacts

LEMMA ItemsPropertiesNext == TypeOK' => ItemsFacts'
  BY ItemsProperties, PTL

(* A send to the back appends. *)
LEMMA BackAppends ==
    ASSUME Inv, TypeOK', NEW item \in Item, uxMessagesWaiting < uxLength, CopyToBack(item),
           uxMessagesWaiting' = uxMessagesWaiting + 1
    PROVE  Items' = Append(Items, item)
  <1>1. /\ pcReadFrom \in 0 .. uxLength - 1 /\ uxMessagesWaiting \in 0 .. uxLength - 1
        /\ pcWriteTo = Slot(uxMessagesWaiting + 1) /\ pcWriteTo \in 0 .. uxLength - 1
        /\ buffer \in [0 .. uxLength - 1 -> Any]
    BY DEF Inv, TypeOK, RingOK, Any
  <1>2. /\ Items \in Seq(Any) /\ Len(Items) = uxMessagesWaiting
        /\ \A i \in 1 .. uxMessagesWaiting : Items[i] = buffer[Slot(i)]
    BY ItemsProperties DEF Inv, ItemsFacts
  <1>3. /\ Items' \in Seq(Any) /\ Len(Items') = uxMessagesWaiting + 1
        /\ \A i \in 1 .. uxMessagesWaiting + 1 : Items'[i] = buffer'[Slot(i)']
    BY ItemsPropertiesNext DEF ItemsFacts, Any
  <1>4. \A i \in 1 .. uxLength : Slot(i)' = Slot(i)
    BY DEF CopyToBack, Slot
  <1>5. \A i \in 1 .. uxMessagesWaiting : Slot(i) # pcWriteTo /\ Slot(i) \in 0 .. uxLength - 1
    BY <1>1 DEF Slot
  <1>6. \A i \in 1 .. uxMessagesWaiting : Items'[i] = Items[i]
    BY <1>1, <1>2, <1>3, <1>4, <1>5 DEF CopyToBack
  <1>7. Items'[uxMessagesWaiting + 1] = item
    BY <1>1, <1>3, <1>4 DEF CopyToBack
  <1>8. /\ Append(Items, item) \in Seq(Any)
        /\ Len(Append(Items, item)) = uxMessagesWaiting + 1
        /\ \A i \in 1 .. uxMessagesWaiting : Append(Items, item)[i] = Items[i]
        /\ Append(Items, item)[uxMessagesWaiting + 1] = item
    BY <1>1, <1>2, AppendProperties DEF Any
  <1>9. \A i \in 1 .. uxMessagesWaiting + 1 : Items'[i] = Append(Items, item)[i]
    BY <1>1, <1>6, <1>7, <1>8
  <1> QED
    BY <1>3, <1>8, <1>9, SeqEqual

(* A send to the front prepends. *)
LEMMA FrontPrepends ==
    ASSUME Inv, TypeOK', NEW item \in Item, uxMessagesWaiting < uxLength, CopyToFront(item),
           uxMessagesWaiting' = uxMessagesWaiting + 1
    PROVE  Items' = <<item>> \o Items
  <1>1. /\ pcReadFrom \in 0 .. uxLength - 1 /\ uxMessagesWaiting \in 0 .. uxLength - 1
        /\ buffer \in [0 .. uxLength - 1 -> Any]
    BY DEF Inv, TypeOK, Any
  <1>2. /\ Items \in Seq(Any) /\ Len(Items) = uxMessagesWaiting
        /\ \A i \in 1 .. uxMessagesWaiting : Items[i] = buffer[Slot(i)]
    BY ItemsProperties DEF Inv, ItemsFacts
  <1>3. /\ Items' \in Seq(Any) /\ Len(Items') = uxMessagesWaiting + 1
        /\ \A i \in 1 .. uxMessagesWaiting + 1 : Items'[i] = buffer'[Slot(i)']
    BY ItemsPropertiesNext DEF ItemsFacts, Any
  <1>4. Slot(1)' = pcReadFrom /\ \A i \in 1 .. uxMessagesWaiting : Slot(i + 1)' = Slot(i)
    BY <1>1 DEF CopyToFront, Down, Slot
  <1>5. \A i \in 1 .. uxMessagesWaiting : Slot(i) # pcReadFrom /\ Slot(i) \in 0 .. uxLength - 1
    BY <1>1 DEF Slot
  <1>6. \A i \in 1 .. uxMessagesWaiting : Items'[i + 1] = Items[i]
    <2> SUFFICES ASSUME NEW i \in 1 .. uxMessagesWaiting PROVE Items'[i + 1] = Items[i]
      OBVIOUS
    <2>1. i + 1 \in 1 .. uxMessagesWaiting + 1
      BY <1>1
    <2>2. Items'[i + 1] = buffer'[Slot(i + 1)']
      BY <1>3, <2>1
    <2>3. buffer'[Slot(i)] = buffer[Slot(i)]
      BY <1>1, <1>5 DEF CopyToFront
    <2> QED BY <1>2, <1>4, <2>2, <2>3
  <1>7. Items'[1] = item
    BY <1>1, <1>3, <1>4 DEF CopyToFront
  <1>8. /\ <<item>> \o Items \in Seq(Any)
        /\ Len(<<item>> \o Items) = uxMessagesWaiting + 1
        /\ \A i \in 1 .. uxMessagesWaiting + 1 :
              (<<item>> \o Items)[i] = IF i = 1 THEN item ELSE Items[i - 1]
    <2>1. <<item>> \in Seq(Any) /\ Len(<<item>>) = 1 /\ <<item>>[1] = item
      BY DEF Any
    <2>2. /\ <<item>> \o Items \in Seq(Any)
          /\ Len(<<item>> \o Items) = 1 + Len(Items)
          /\ \A i \in 1 .. 1 + Len(Items) : (<<item>> \o Items)[i] =
                IF i <= 1 THEN <<item>>[i] ELSE Items[i - 1]
      BY <1>2, <2>1, ConcatProperties
    <2> QED BY <1>1, <1>2, <2>1, <2>2
  <1>9. \A i \in 1 .. uxMessagesWaiting + 1 : Items'[i] = (<<item>> \o Items)[i]
    <2> SUFFICES ASSUME NEW i \in 1 .. uxMessagesWaiting + 1
                 PROVE  Items'[i] = (<<item>> \o Items)[i]
      OBVIOUS
    <2>1. CASE i = 1
      BY <1>7, <1>8, <2>1
    <2>2. CASE i # 1
      <3>1. i - 1 \in 1 .. uxMessagesWaiting /\ (i - 1) + 1 = i
        BY <1>1, <2>2
      <3>2. Items'[(i - 1) + 1] = Items[i - 1]
        BY <1>6, <3>1
      <3> QED BY <1>8, <2>2, <3>1, <3>2
    <2> QED BY <2>1, <2>2
  <1> QED
    BY <1>3, <1>8, <1>9, SeqEqual

(* A receive takes the head. *)
LEMMA ReceiveTakesHead ==
    ASSUME Inv, TypeOK', uxMessagesWaiting > 0, pcReadFrom' = Up(pcReadFrom),
           buffer' = buffer, uxMessagesWaiting' = uxMessagesWaiting - 1
    PROVE  Items' = Tail(Items)
  <1>1. /\ pcReadFrom \in 0 .. uxLength - 1 /\ uxMessagesWaiting \in 1 .. uxLength
    BY DEF Inv, TypeOK
  <1>2. /\ Items \in Seq(Any) /\ Len(Items) = uxMessagesWaiting
        /\ \A i \in 1 .. uxMessagesWaiting : Items[i] = buffer[Slot(i)]
    BY ItemsProperties DEF Inv, ItemsFacts
  <1>3. /\ Items' \in Seq(Any) /\ Len(Items') = uxMessagesWaiting - 1
        /\ \A i \in 1 .. uxMessagesWaiting - 1 : Items'[i] = buffer[Slot(i)']
    BY ItemsPropertiesNext DEF ItemsFacts, Any
  <1>4. \A i \in 1 .. uxMessagesWaiting - 1 : Slot(i)' = Slot(i + 1)
    BY <1>1 DEF Up, Slot
  <1>5. Items # <<>>
    BY <1>1, <1>2
  <1>6. /\ Tail(Items) \in Seq(Any) /\ Len(Tail(Items)) = uxMessagesWaiting - 1
        /\ \A i \in 1 .. uxMessagesWaiting - 1 : Tail(Items)[i] = Items[i + 1]
    BY <1>2, <1>5, HeadTailProperties
  <1>7. \A i \in 1 .. uxMessagesWaiting - 1 : Items'[i] = Tail(Items)[i]
    <2> SUFFICES ASSUME NEW i \in 1 .. uxMessagesWaiting - 1 PROVE Items'[i] = Tail(Items)[i]
      OBVIOUS
    <2>1. i + 1 \in 1 .. uxMessagesWaiting
      BY <1>1
    <2> QED BY <1>2, <1>3, <1>4, <1>6, <2>1
  <1> QED
    BY <1>3, <1>6, <1>7, SeqEqual

(* What a receive or a peek returns is the head. *)
LEMMA ReadsHead ==
    ASSUME TypeOK, uxMessagesWaiting > 0
    PROVE  Items # <<>> /\ Head(Items) = buffer[Up(pcReadFrom)]
  <1>1. /\ Items \in Seq(Any) /\ Len(Items) = uxMessagesWaiting
        /\ \A i \in 1 .. uxMessagesWaiting : Items[i] = buffer[Slot(i)]
    BY ItemsProperties DEF ItemsFacts
  <1>2. uxMessagesWaiting \in Nat /\ Slot(1) = Up(pcReadFrom)
    BY DEF TypeOK, Slot, Up
  <1> QED BY <1>1, <1>2

-----------------------------------------------------------------------------
(* The refinement. *)

LEMMA InitRefines == Init => Q!Init
  BY DEF Init, Items, Q!Init, NoCall, Q!NoCall

(* Every step of the ring is a step of the sequence, or none. *)
LEMMA NextRefines == Inv /\ Inv' /\ [Next]_vars => [Q!Next]_Q!vars
  <1> SUFFICES ASSUME Inv, Inv', [Next]_vars PROVE [Q!Next]_Q!vars
    OBVIOUS
  <1>0. TypeOK /\ TypeOK' /\ Len(Items) = uxMessagesWaiting /\ NoCall = Q!NoCall
    BY ItemsProperties DEF Inv, ItemsFacts, NoCall, Q!NoCall
  <1>1. ASSUME NEW t \in Task, Make(t) PROVE Q!Make(t)
    <2>1. Items' = Items
      BY <1>1 DEF Make, Items, Slot, ringVars
    <2> QED BY <1>0, <1>1, <2>1 DEF Make, Q!Make, TypeOK
  <1>2. ASSUME NEW t \in Task, Send(t) PROVE Q!Send(t)
    <2>1. call[t].item \in Item
      BY <1>0, <1>2 DEF Send, Sends, TypeOK, Calls, NoCall
    <2>2. Items' = IF call[t].how = "back" THEN Append(Items, call[t].item)
                                          ELSE <<call[t].item>> \o Items
      BY <1>0, <1>2, <2>1, BackAppends, FrontPrepends DEF Send
    <2> QED BY <1>0, <1>2, <2>2 DEF Send, Sends, Return, Q!Send, Q!Return
  <1>3. ASSUME NEW t \in Task, Receive(t) PROVE Q!Receive(t)
    <2>1. Items' = Tail(Items)
      BY <1>0, <1>3, ReceiveTakesHead DEF Receive
    <2>2. Items # <<>> /\ Head(Items) = buffer[Up(pcReadFrom)]
      BY <1>0, <1>3, ReadsHead DEF Receive
    <2> QED BY <1>0, <1>3, <2>1, <2>2 DEF Receive, Return, Q!Receive, Q!Return
  <1>4. ASSUME NEW t \in Task, Peek(t) PROVE Q!Receive(t)
    <2>1. Items' = Items
      BY <1>4 DEF Peek, Items, Slot, ringVars
    <2>2. Items # <<>> /\ Head(Items) = buffer[Up(pcReadFrom)]
      BY <1>0, <1>4, ReadsHead DEF Peek
    <2> QED BY <1>0, <1>4, <2>1, <2>2 DEF Peek, Return, Q!Receive, Q!Return
  <1>5. ASSUME NEW t \in Task, Refuse(t) PROVE Q!Refuse(t)
    <2>1. Items' = Items
      BY <1>5 DEF Refuse, Items, Slot, ringVars
    <2>2. uxMessagesWaiting \in 0 .. uxLength /\ call[t] # NoCall
      BY <1>0, <1>5 DEF Refuse, TypeOK
    <2>3. Sends(t) \/ Receives(t)
      BY <1>0, <2>2 DEF Sends, Receives, TypeOK, Calls
    <2>4. uxMessagesWaiting = 0 => Items = <<>>
      BY DEF Items
    <2> QED
      BY <1>0, <1>5, <2>1, <2>2, <2>3, <2>4
      DEF Refuse, Sends, Receives, Return, Q!Refuse, Q!Return
  <1>6. ASSUME NEW t \in Task, GoToWait(t) \/ Recheck(t) PROVE UNCHANGED Q!vars
    BY <1>6 DEF GoToWait, Recheck, ringVars, Q!vars, Items, Slot
  <1>7. CASE UNCHANGED vars
    BY <1>7 DEF vars, ringVars, Q!vars, Items, Slot
  <1> QED
    BY <1>1, <1>2, <1>3, <1>4, <1>5, <1>6, <1>7 DEF Next, Step, Q!Next

(* The FreeRTOS queue is the bounded sequence QspiDriver takes it for: for  *)
(* every capacity, every set of tasks, and calls of every kind.            *)
THEOREM QueueImplemented == Spec => ImplementsQueue
  <1>1. Spec => []Inv
    BY InitInv, NextInv, PTL DEF Spec
  <1> QED
    BY <1>1, InitRefines, NextRefines, PTL DEF Spec, ImplementsQueue, Q!Spec

-----------------------------------------------------------------------------
(* Wake-ups. *)

(* The tasks that are awake and yet to try. *)
TryingToSend == {t \in Task : tpc[t] = "try" /\ Sends(t)}
TryingToReceive == {t \in Task : tpc[t] = "try" /\ Receives(t)}

SendersPromised ==
    xTasksWaitingToSend # {} => uxLength - uxMessagesWaiting <= Cardinality(TryingToSend)
ReceiversPromised ==
    xTasksWaitingToReceive # {} => uxMessagesWaiting <= Cardinality(TryingToReceive)

WakeInv == TypeOK /\ SendersPromised /\ ReceiversPromised

(* Sets of tasks are finite, and their sizes follow their changes by one.   *)
LEMMA TaskSets ==
    ASSUME NEW S \in SUBSET Task
    PROVE  /\ Cardinality(S) \in Nat
           /\ \A t \in S : Cardinality(S \ {t}) = Cardinality(S) - 1
           /\ \A t \in Task \ S : Cardinality(S \cup {t}) = Cardinality(S) + 1
  <1>1. IsFiniteSet(S)
    BY FS_Subset
  <1> QED
    BY <1>1, FS_CardinalityType, FS_AddElement, FS_RemoveElement

(* The task that returns leaves its set; the one it wakes, if any waits,    *)
(* moves from the event list to the set of those yet to try.               *)
LEMMA SenderReturns ==
    ASSUME TypeOK, NEW t \in Task, tpc[t] = "try", Sends(t), Return(t),
           Wakes(t, xTasksWaitingToReceive)
    PROVE  /\ TryingToSend' = TryingToSend \ {t}
           /\ xTasksWaitingToSend' = xTasksWaitingToSend
           /\ \/ /\ xTasksWaitingToReceive = {} /\ xTasksWaitingToReceive' = {}
              \/ \E w \in Task \ TryingToReceive :
                    TryingToReceive' = TryingToReceive \cup {w}
  <1>1. CASE xTasksWaitingToReceive = {} /\ tpc' = [tpc EXCEPT ![t] = "idle"]
    BY <1>1 DEF TypeOK, Return, Sends, Receives, NoCall, TryingToSend, TryingToReceive,
                xTasksWaitingToSend, xTasksWaitingToReceive
  <1>2. ASSUME NEW w \in xTasksWaitingToReceive,
               tpc' = [tpc EXCEPT ![t] = "idle", ![w] = "try"]
        PROVE  /\ TryingToSend' = TryingToSend \ {t}
               /\ xTasksWaitingToSend' = xTasksWaitingToSend
               /\ w \in Task \ TryingToReceive
               /\ TryingToReceive' = TryingToReceive \cup {w}
    BY <1>2 DEF TypeOK, Return, Sends, Receives, NoCall, TryingToSend, TryingToReceive,
                xTasksWaitingToSend, xTasksWaitingToReceive
  <1> QED
    BY <1>1, <1>2 DEF Wakes

LEMMA ReceiverReturns ==
    ASSUME TypeOK, NEW t \in Task, tpc[t] = "try", Receives(t), Return(t),
           Wakes(t, xTasksWaitingToSend)
    PROVE  /\ TryingToReceive' = TryingToReceive \ {t}
           /\ xTasksWaitingToReceive' = xTasksWaitingToReceive
           /\ \/ /\ xTasksWaitingToSend = {} /\ xTasksWaitingToSend' = {}
              \/ \E w \in Task \ TryingToSend : TryingToSend' = TryingToSend \cup {w}
  <1>1. CASE xTasksWaitingToSend = {} /\ tpc' = [tpc EXCEPT ![t] = "idle"]
    BY <1>1 DEF TypeOK, Return, Sends, Receives, NoCall, TryingToSend, TryingToReceive,
                xTasksWaitingToSend, xTasksWaitingToReceive
  <1>2. ASSUME NEW w \in xTasksWaitingToSend,
               tpc' = [tpc EXCEPT ![t] = "idle", ![w] = "try"]
        PROVE  /\ TryingToReceive' = TryingToReceive \ {t}
               /\ xTasksWaitingToReceive' = xTasksWaitingToReceive
               /\ w \in Task \ TryingToSend
               /\ TryingToSend' = TryingToSend \cup {w}
    BY <1>2 DEF TypeOK, Return, Sends, Receives, NoCall, TryingToSend, TryingToReceive,
                xTasksWaitingToSend, xTasksWaitingToReceive
  <1> QED
    BY <1>1, <1>2 DEF Wakes

LEMMA PeekReturns ==
    ASSUME TypeOK, NEW t \in Task, tpc[t] = "try", Receives(t), Return(t),
           Wakes(t, xTasksWaitingToReceive)
    PROVE  /\ TryingToSend' = TryingToSend
           /\ xTasksWaitingToSend' = xTasksWaitingToSend
           /\ \/ /\ xTasksWaitingToReceive = {} /\ xTasksWaitingToReceive' = {}
              \/ \E w \in Task \ TryingToReceive :
                    TryingToReceive' = (TryingToReceive \ {t}) \cup {w}
  <1>1. CASE xTasksWaitingToReceive = {} /\ tpc' = [tpc EXCEPT ![t] = "idle"]
    BY <1>1 DEF TypeOK, Return, Sends, Receives, NoCall, TryingToSend, TryingToReceive,
                xTasksWaitingToSend, xTasksWaitingToReceive
  <1>2. ASSUME NEW w \in xTasksWaitingToReceive,
               tpc' = [tpc EXCEPT ![t] = "idle", ![w] = "try"]
        PROVE  /\ TryingToSend' = TryingToSend
               /\ xTasksWaitingToSend' = xTasksWaitingToSend
               /\ w \in Task \ TryingToReceive
               /\ TryingToReceive' = (TryingToReceive \ {t}) \cup {w}
    BY <1>2 DEF TypeOK, Return, Sends, Receives, NoCall, TryingToSend, TryingToReceive,
                xTasksWaitingToSend, xTasksWaitingToReceive
  <1> QED
    BY <1>1, <1>2 DEF Wakes

(* A task that cannot go on makes no promise false: there is no place, or   *)
(* no item, to promise.                                                    *)
LEMMA Stuck ==
    ASSUME TypeOK', SendersPromised, ReceiversPromised, UNCHANGED uxMessagesWaiting,
           \/ /\ uxMessagesWaiting = uxLength
              /\ UNCHANGED <<TryingToReceive, xTasksWaitingToReceive>>
           \/ /\ uxMessagesWaiting = 0
              /\ UNCHANGED <<TryingToSend, xTasksWaitingToSend>>
    PROVE  SendersPromised' /\ ReceiversPromised'
  <1>1. Cardinality(TryingToSend') \in Nat /\ Cardinality(TryingToReceive') \in Nat
    <2>1. TryingToSend' \in SUBSET Task /\ TryingToReceive' \in SUBSET Task
      BY DEF TryingToSend, TryingToReceive
    <2> QED BY <2>1, TaskSets
  <1> QED
    BY <1>1 DEF SendersPromised, ReceiversPromised

(* One more task that tries breaks no promise either. *)
LEMMA MoreTry ==
    ASSUME SendersPromised, ReceiversPromised, TypeOK, UNCHANGED uxMessagesWaiting,
           UNCHANGED <<xTasksWaitingToSend, xTasksWaitingToReceive>>,
           TryingToSend \subseteq TryingToSend', TryingToReceive \subseteq TryingToReceive'
    PROVE  SendersPromised' /\ ReceiversPromised'
  <1>1. TryingToSend' \in SUBSET Task /\ TryingToReceive' \in SUBSET Task
    BY DEF TryingToSend, TryingToReceive
  <1>2. IsFiniteSet(TryingToSend') /\ IsFiniteSet(TryingToReceive')
    BY <1>1, FS_Subset
  <1>3. /\ Cardinality(TryingToSend) <= Cardinality(TryingToSend')
        /\ Cardinality(TryingToReceive) <= Cardinality(TryingToReceive')
    BY <1>2, FS_Subset
  <1>4. /\ Cardinality(TryingToSend) \in Nat /\ Cardinality(TryingToSend') \in Nat
        /\ Cardinality(TryingToReceive) \in Nat /\ Cardinality(TryingToReceive') \in Nat
    <2>1. TryingToSend \in SUBSET Task /\ TryingToReceive \in SUBSET Task
      BY DEF TryingToSend, TryingToReceive
    <2> QED BY <1>1, <2>1, TaskSets
  <1>5. uxMessagesWaiting \in Nat
    BY DEF TypeOK
  <1> QED
    BY <1>3, <1>4, <1>5 DEF SendersPromised, ReceiversPromised

(* Every step keeps the promises. *)
LEMMA NextWake == WakeInv /\ TypeOK' /\ [Next]_vars => WakeInv'
  <1> SUFFICES ASSUME WakeInv, TypeOK', [Next]_vars
               PROVE  SendersPromised' /\ ReceiversPromised'
    BY DEF WakeInv
  <1>0. /\ TypeOK /\ SendersPromised /\ ReceiversPromised
        /\ uxMessagesWaiting \in Nat /\ uxMessagesWaiting <= uxLength
    BY DEF WakeInv, TypeOK
  <1>c. /\ TryingToSend \in SUBSET Task /\ TryingToReceive \in SUBSET Task
        /\ Cardinality(TryingToSend) \in Nat /\ Cardinality(TryingToReceive) \in Nat
    <2>1. TryingToSend \in SUBSET Task /\ TryingToReceive \in SUBSET Task
      BY DEF TryingToSend, TryingToReceive
    <2> QED BY <2>1, TaskSets
  <1>1. ASSUME NEW t \in Task, Make(t) PROVE SendersPromised' /\ ReceiversPromised'
    <2>1. /\ UNCHANGED <<xTasksWaitingToSend, xTasksWaitingToReceive>>
          /\ TryingToSend \subseteq TryingToSend' /\ TryingToReceive \subseteq TryingToReceive'
      BY <1>0, <1>1 DEF Make, TypeOK, TryingToSend, TryingToReceive, Sends, Receives,
                        xTasksWaitingToSend, xTasksWaitingToReceive
    <2> QED BY <1>0, <1>1, <2>1, MoreTry DEF Make, ringVars
  <1>2. ASSUME NEW t \in Task, Send(t) PROVE SendersPromised' /\ ReceiversPromised'
    <2>1. /\ TryingToSend' = TryingToSend \ {t}
          /\ xTasksWaitingToSend' = xTasksWaitingToSend
          /\ \/ xTasksWaitingToReceive' = {}
             \/ /\ xTasksWaitingToReceive # {}
                /\ \E w \in Task \ TryingToReceive :
                      TryingToReceive' = TryingToReceive \cup {w}
      <3>1. \/ /\ xTasksWaitingToReceive = {} /\ xTasksWaitingToReceive' = {}
            \/ xTasksWaitingToReceive # {}
        BY <1>0, <1>2, SenderReturns DEF Send, Wakes, TypeOK, Return, Receives, NoCall,
                                        xTasksWaitingToReceive
      <3> QED BY <1>0, <1>2, <3>1, SenderReturns DEF Send
    <2>2. Cardinality(TryingToSend') = Cardinality(TryingToSend) - 1
      BY <1>c, <1>2, <2>1, TaskSets DEF Send, TryingToSend
    <2>3. xTasksWaitingToReceive' # {} =>
             Cardinality(TryingToReceive') = Cardinality(TryingToReceive) + 1
      BY <1>c, <2>1, TaskSets
    <2> QED BY <1>0, <1>c, <1>2, <2>1, <2>2, <2>3 DEF Send, SendersPromised, ReceiversPromised
  <1>3. ASSUME NEW t \in Task, Receive(t) PROVE SendersPromised' /\ ReceiversPromised'
    <2>0. Receives(t)
      BY <1>3 DEF Receive, Receives
    <2>1. /\ TryingToReceive' = TryingToReceive \ {t}
          /\ xTasksWaitingToReceive' = xTasksWaitingToReceive
          /\ \/ xTasksWaitingToSend' = {}
             \/ /\ xTasksWaitingToSend # {}
                /\ \E w \in Task \ TryingToSend : TryingToSend' = TryingToSend \cup {w}
      <3>1. \/ /\ xTasksWaitingToSend = {} /\ xTasksWaitingToSend' = {}
            \/ xTasksWaitingToSend # {}
        BY <1>0, <1>3, <2>0 DEF Receive, Wakes, TypeOK, Return, Sends, NoCall,
                               xTasksWaitingToSend
      <3> QED BY <1>0, <1>3, <2>0, <3>1, ReceiverReturns DEF Receive
    <2>2. Cardinality(TryingToReceive') = Cardinality(TryingToReceive) - 1
      BY <1>c, <1>3, <2>0, <2>1, TaskSets DEF Receive, TryingToReceive
    <2>3. xTasksWaitingToSend' # {} => Cardinality(TryingToSend') = Cardinality(TryingToSend) + 1
      BY <1>c, <2>1, TaskSets
    <2> QED BY <1>0, <1>c, <1>3, <2>1, <2>2, <2>3 DEF Receive, SendersPromised, ReceiversPromised
  <1>4. ASSUME NEW t \in Task, Peek(t) PROVE SendersPromised' /\ ReceiversPromised'
    <2>0. Receives(t)
      BY <1>4 DEF Peek, Receives
    <2>1. /\ TryingToSend' = TryingToSend
          /\ xTasksWaitingToSend' = xTasksWaitingToSend
          /\ \/ xTasksWaitingToReceive' = {}
             \/ /\ xTasksWaitingToReceive # {}
                /\ \E w \in Task \ TryingToReceive :
                      TryingToReceive' = (TryingToReceive \ {t}) \cup {w}
      <3>1. \/ /\ xTasksWaitingToReceive = {} /\ xTasksWaitingToReceive' = {}
            \/ xTasksWaitingToReceive # {}
        BY <1>0, <1>4, <2>0 DEF Peek, Wakes, TypeOK, Return, Receives, NoCall,
                               xTasksWaitingToReceive
      <3> QED BY <1>0, <1>4, <2>0, <3>1, PeekReturns DEF Peek
    <2>2. xTasksWaitingToReceive' # {} =>
             Cardinality(TryingToReceive') = Cardinality(TryingToReceive)
      <3> SUFFICES ASSUME NEW w \in Task \ TryingToReceive,
                          TryingToReceive' = (TryingToReceive \ {t}) \cup {w}
                   PROVE  Cardinality(TryingToReceive') = Cardinality(TryingToReceive)
        BY <2>1
      <3>1. Cardinality(TryingToReceive \ {t}) = Cardinality(TryingToReceive) - 1
        BY <1>c, <1>4, <2>0, TaskSets DEF Peek, TryingToReceive
      <3>2. /\ TryingToReceive \ {t} \in SUBSET Task
            /\ w \in Task \ (TryingToReceive \ {t})
        BY <1>c
      <3>3. Cardinality((TryingToReceive \ {t}) \cup {w}) = Cardinality(TryingToReceive \ {t}) + 1
        BY <3>2, TaskSets
      <3> QED BY <1>c, <3>1, <3>3
    <2> QED BY <1>0, <1>4, <2>1, <2>2 DEF Peek, ringVars, SendersPromised, ReceiversPromised
  <1>5. ASSUME NEW t \in Task, Refuse(t) \/ GoToWait(t)
        PROVE  SendersPromised' /\ ReceiversPromised'
    <2>1. CASE Sends(t)
      BY <1>0, <1>5, <2>1, Stuck
      DEF Refuse, GoToWait, Return, TypeOK, ringVars, Sends, Receives, NoCall,
          TryingToReceive, xTasksWaitingToReceive
    <2>2. CASE ~Sends(t)
      BY <1>0, <1>5, <2>2, Stuck
      DEF Refuse, GoToWait, Return, TypeOK, ringVars, Sends, NoCall,
          TryingToSend, xTasksWaitingToSend
    <2> QED BY <2>1, <2>2
  <1>6. ASSUME NEW t \in Task, Recheck(t) PROVE SendersPromised' /\ ReceiversPromised'
    <2>1. CASE MustWait(t) /\ Sends(t)
      BY <1>0, <1>6, <2>1, Stuck
      DEF Recheck, MustWait, TypeOK, ringVars, Sends, Receives,
          TryingToReceive, xTasksWaitingToReceive
    <2>2. CASE MustWait(t) /\ ~Sends(t)
      BY <1>0, <1>6, <2>2, Stuck
      DEF Recheck, MustWait, TypeOK, ringVars, Sends, TryingToSend, xTasksWaitingToSend
    <2>3. CASE ~MustWait(t)
      <3>1. /\ UNCHANGED <<xTasksWaitingToSend, xTasksWaitingToReceive>>
            /\ TryingToSend \subseteq TryingToSend' /\ TryingToReceive \subseteq TryingToReceive'
        BY <1>0, <1>6, <2>3 DEF Recheck, TypeOK, TryingToSend, TryingToReceive, Sends, Receives,
                               xTasksWaitingToSend, xTasksWaitingToReceive
      <3> QED BY <1>0, <1>6, <3>1, MoreTry DEF Recheck, ringVars
    <2> QED BY <2>1, <2>2, <2>3
  <1>7. CASE UNCHANGED vars
    BY <1>0, <1>7 DEF vars, ringVars, SendersPromised, ReceiversPromised, TryingToSend,
                      TryingToReceive, Sends, Receives, xTasksWaitingToSend, xTasksWaitingToReceive
  <1> QED
    BY <1>1, <1>2, <1>3, <1>4, <1>5, <1>6, <1>7 DEF Next, Step

(* No wake-up is lost, for any number of tasks and places. *)
THEOREM NoWakeupLost == Spec => []NoLostWakeup
  <1>1. Spec => []TypeOK
    BY TypeCorrect
  <1>2. Init => WakeInv
    BY InitInv DEF Init, Inv, WakeInv, SendersPromised, ReceiversPromised,
                   xTasksWaitingToSend, xTasksWaitingToReceive
  <1>3. WakeInv => NoLostWakeup
    BY DEF WakeInv, SendersPromised, ReceiversPromised, NoLostWakeup,
           TryingToSend, TryingToReceive
  <1> QED
    BY <1>1, <1>2, <1>3, NextWake, PTL DEF Spec
=============================================================================
