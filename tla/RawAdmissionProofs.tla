------------------------- MODULE RawAdmissionProofs -------------------------
(***************************************************************************)
(* Proofs about the raw proxy's cap, for any number of requests, whoever   *)
(* goes away, and any sequence of limits.                                  *)
(***************************************************************************)
EXTENDS RawAdmission, Integers, FiniteSetTheorems, TLAPS

Inv == TypeOK /\ SlotsAccounted /\ WaitersCounted /\ NoLostWakeup

LEMMA InitInv == Init => Inv
<1>. SUFFICES ASSUME Init PROVE Inv
  OBVIOUS
<1>1. limit \in Nat \ {0}
  BY SettingsAssumption DEF Init, AtLeastOne
<1>2. TypeOK
  BY <1>1 DEF Init, TypeOK, Places
<1>3. Queued = {}
  BY DEF Init, Queued
<1>4. SlotsAccounted /\ WaitersCounted
  BY <1>3, FS_EmptySet DEF Init, SlotsAccounted, WaitersCounted
<1>5. NoLostWakeup
  BY DEF Init, NoLostWakeup
<1>. QED  BY <1>2, <1>4, <1>5 DEF Inv

\* r moves from place to place; everybody else stays.
LEMMA Moved ==
  ASSUME TypeOK, NEW r \in Requests, NEW l \in Places, Goto(r, l)
  PROVE  /\ pc' \in [Requests -> Places]
         /\ pc'[r] = l
         /\ \A s \in Requests \ {r} : pc'[s] = pc[s]
  BY DEF TypeOK, Goto

LEMMA QueuedIsFinite ==
  /\ IsFiniteSet(Queued)
  /\ Cardinality(Queued) \in Nat
<1>1. Queued \in SUBSET Requests
  BY DEF Queued
<1>. QED  BY <1>1, RequestsAssumption, FS_Subset, FS_CardinalityType

LEMMA PermitIsFinite ==
  ASSUME TypeOK
  PROVE  IsFiniteSet(permit) /\ Cardinality(permit) \in Nat
<1>1. permit \in SUBSET Requests
  BY DEF TypeOK
<1>. QED  BY <1>1, RequestsAssumption, FS_Subset, FS_CardinalityType

\* The count of waiters covers those who wait: nobody new, somebody more, or
\* somebody less.
LEMMA SameQueue ==
  ASSUME Queued' = Queued, waiting' = waiting, WaitersCounted
  PROVE  WaitersCounted'
  BY DEF WaitersCounted

LEMMA StepTypeOK == TypeOK /\ WaitersCounted /\ [Next]_vars => TypeOK'
<1>. SUFFICES ASSUME TypeOK, WaitersCounted, [Next]_vars PROVE TypeOK'
  OBVIOUS
<1>1. ASSUME NEW r \in Requests, Settle(r)
      PROVE  TypeOK'
  <2>1. pc' \in [Requests -> Places]
    BY <1>1, Moved DEF Settle, Places
  <2>2. r \in Queued
    BY <1>1 DEF Settle, Queued
  <2>3. waiting > 0
    BY <2>2, QueuedIsFinite, FS_EmptySet DEF WaitersCounted, TypeOK
  <2>. QED  BY <1>1, <2>1, <2>3 DEF Settle, TypeOK
<1>2. ASSUME NEW r \in Requests,
             \/ Admit(r) \/ Refuse(r) \/ Queue(r) \/ Arm(r) \/ Win(r) \/ Sleep(r) \/ Wake(r)
             \/ Expire(r) \/ Disconnect(r) \/ Finish(r) \/ Notify(r)
      PROVE  TypeOK'
  <2>1. pc' \in [Requests -> Places]
    BY <1>2, Moved DEF Admit, Refuse, Queue, Arm, Win, Sleep, Wake, Expire, Disconnect,
       Finish, Notify, Places, TypeOK
  <2>2. active' \in Nat /\ waiting' \in Nat /\ limit' \in Nat \ {0}
    BY <1>2 DEF Admit, Refuse, Queue, Arm, Win, Sleep, Wake, Expire, Disconnect, Finish,
       Notify, TakeSlot, TypeOK
  <2>3. permit' \in SUBSET Requests /\ refused' \in SUBSET Requests
        /\ armed' \in SUBSET Requests
    BY <1>2 DEF Admit, Refuse, Queue, Arm, Win, Sleep, Wake, Expire, Disconnect, Finish,
       Notify, TakeSlot, TypeOK
  <2>4. reloading' \in BOOLEAN
    BY <1>2 DEF Admit, Refuse, Queue, Arm, Win, Sleep, Wake, Expire, Disconnect, Finish,
       Notify, TypeOK
  <2>. QED  BY <2>1, <2>2, <2>3, <2>4 DEF TypeOK
<1>3. CASE \/ \E n \in Limits : set(n)
           \/ NotifySet
           \/ UNCHANGED vars
  <2>1. /\ active' \in Nat /\ limit' \in Nat \ {0} /\ waiting' \in Nat
        /\ permit' \in SUBSET Requests /\ refused' \in SUBSET Requests
        /\ armed' \in SUBSET Requests
    BY <1>3, SettingsAssumption DEF set, NotifySet, vars, AtLeastOne, TypeOK
  <2>2. reloading' \in BOOLEAN /\ pc' \in [Requests -> Places]
    BY <1>3 DEF set, NotifySet, vars, TypeOK
  <2>. QED  BY <2>1, <2>2 DEF TypeOK
<1>. QED  BY <1>1, <1>2, <1>3 DEF Next

LEMMA StepSlots == TypeOK /\ SlotsAccounted /\ [Next]_vars => SlotsAccounted'
<1>. SUFFICES ASSUME TypeOK, SlotsAccounted, [Next]_vars PROVE SlotsAccounted'
  OBVIOUS
<1>0. IsFiniteSet(permit) /\ Cardinality(permit) \in Nat
  BY PermitIsFinite
<1>1. ASSUME NEW r \in Requests, Admit(r) \/ Win(r)
      PROVE  SlotsAccounted'
  <2>1. /\ r \notin permit
        /\ permit' = permit \cup {r}
        /\ active' = active + 1
    BY <1>1 DEF Admit, Win, TakeSlot, SlotsAccounted
  <2>2. Cardinality(permit') = Cardinality(permit) + 1
    BY <1>0, <2>1, FS_AddElement
  <2>3. pc'[r] \in {"serving", "settling"} /\ \A s \in Requests \ {r} : pc'[s] = pc[s]
    BY <1>1, Moved DEF Admit, Win, Places
  <2>. QED  BY <2>1, <2>2, <2>3 DEF SlotsAccounted
<1>2. ASSUME NEW r \in Requests, Finish(r)
      PROVE  SlotsAccounted'
  <2>1. r \in permit
    BY <1>2 DEF Finish, SlotsAccounted
  <2>2. Cardinality(permit \ {r}) = Cardinality(permit) - 1
    BY <1>0, <2>1, FS_RemoveElement
  <2>3. Cardinality(permit) # 0
    BY <1>0, <2>1, FS_EmptySet
  <2>4. pc'[r] = "released" /\ \A s \in Requests \ {r} : pc'[s] = pc[s]
    BY <1>2, Moved DEF Finish, Places
  <2>. QED  BY <1>0, <1>2, <2>2, <2>3, <2>4 DEF Finish, SlotsAccounted
<1>3. ASSUME NEW r \in Requests,
             \/ Refuse(r) \/ Queue(r) \/ Arm(r) \/ Sleep(r) \/ Wake(r) \/ Expire(r)
             \/ Settle(r) \/ Disconnect(r) \/ Notify(r)
      PROVE  SlotsAccounted'
  <2>1. /\ UNCHANGED <<active, permit>>
        /\ \A s \in Requests \ {r} : pc'[s] = pc[s]
        /\ r \in permit => pc'[r] = "serving"
        /\ pc'[r] = "serving" => r \in permit
    <3>1. CASE Settle(r)
      BY <3>1, Moved DEF Settle, Places
    <3>2. CASE ~ Settle(r)
      <4>1. /\ UNCHANGED <<active, permit>>
            /\ pc[r] \notin {"settling", "serving"}
            /\ pc'[r] # "serving"
            /\ \A s \in Requests \ {r} : pc'[s] = pc[s]
        BY <1>3, <3>2, Moved DEF Refuse, Queue, Arm, Sleep, Wake, Expire, Disconnect,
           Notify, Places
      <4>. QED  BY <4>1 DEF SlotsAccounted
    <3>. QED  BY <3>1, <3>2
  <2>. QED  BY <2>1 DEF SlotsAccounted
<1>4. CASE \/ \E n \in Limits : set(n)
           \/ NotifySet
           \/ UNCHANGED vars
  BY <1>4 DEF set, NotifySet, vars, SlotsAccounted
<1>. QED  BY <1>1, <1>2, <1>3, <1>4 DEF Next

LEMMA StepWaiters == TypeOK /\ WaitersCounted /\ [Next]_vars => WaitersCounted'
<1>. SUFFICES ASSUME TypeOK, WaitersCounted, [Next]_vars PROVE WaitersCounted'
  OBVIOUS
<1>0. IsFiniteSet(Queued) /\ Cardinality(Queued) \in Nat /\ waiting \in Nat
  BY QueuedIsFinite DEF TypeOK
<1>1. ASSUME NEW r \in Requests, Queue(r)
      PROVE  WaitersCounted'
  <2>1. Queued' = Queued \cup {r}
    BY <1>1, Moved DEF Queue, Queued, Places
  <2>2. r \notin Queued
    BY <1>1 DEF Queue, Queued
  <2>3. Cardinality(Queued \cup {r}) = Cardinality(Queued) + 1
    BY <1>0, <2>2, FS_AddElement
  <2>4. waiting' = waiting + 1
    BY <1>1 DEF Queue
  <2>. QED  BY <1>0, <2>1, <2>3, <2>4 DEF WaitersCounted
<1>2. ASSUME NEW r \in Requests, Settle(r) \/ Disconnect(r)
      PROVE  WaitersCounted'
  <2>1. r \in Queued
    BY <1>2 DEF Settle, Disconnect, Queued
  <2>2. Queued' = Queued \ {r}
    BY <1>2, Moved DEF Settle, Disconnect, Queued, Places
  <2>3. Cardinality(Queued \ {r}) = Cardinality(Queued) - 1
    BY <1>0, <2>1, FS_RemoveElement
  <2>4. waiting' \in {waiting - 1, waiting}
    BY <1>2 DEF Settle, Disconnect
  <2>. QED  BY <1>0, <2>2, <2>3, <2>4 DEF WaitersCounted
<1>3. ASSUME NEW r \in Requests,
             \/ Admit(r) \/ Refuse(r) \/ Arm(r) \/ Win(r) \/ Sleep(r) \/ Wake(r)
             \/ Expire(r) \/ Finish(r) \/ Notify(r)
      PROVE  WaitersCounted'
  <2>1. Queued' = Queued
    BY <1>3, Moved DEF Admit, Refuse, Arm, Win, Sleep, Wake, Expire, Finish, Notify,
       Queued, Places
  <2>2. waiting' = waiting
    BY <1>3 DEF Admit, Refuse, Arm, Win, Sleep, Wake, Expire, Finish, Notify
  <2>. QED  BY <2>1, <2>2, SameQueue
<1>4. CASE \/ \E n \in Limits : set(n)
           \/ NotifySet
           \/ UNCHANGED vars
  BY <1>4 DEF set, NotifySet, vars, Queued, WaitersCounted
<1>. QED  BY <1>1, <1>2, <1>3, <1>4 DEF Next

LEMMA StepWakeup == TypeOK /\ NoLostWakeup /\ [Next]_vars => NoLostWakeup'
<1>. SUFFICES ASSUME TypeOK, NoLostWakeup, [Next]_vars PROVE NoLostWakeup'
  OBVIOUS
<1>1. ASSUME NEW r \in Requests,
             \/ Admit(r) \/ Refuse(r) \/ Queue(r) \/ Arm(r) \/ Win(r) \/ Wake(r)
             \/ Expire(r) \/ Settle(r) \/ Disconnect(r)
      PROVE  NoLostWakeup'
  <2>1. /\ active' < limit' => active < limit
        /\ reloading' = reloading
        /\ \A s \in Requests \ {r} : pc'[s] = pc[s] /\ (s \in armed' => s \in armed)
        /\ pc[r] # "released"
        /\ pc'[r] = "asleep" => pc'[r] = pc[r] /\ (r \in armed' => r \in armed)
    BY <1>1, Moved DEF Admit, Refuse, Queue, Arm, Win, Wake, Expire, Settle, Disconnect,
       TakeSlot, Places, TypeOK
  <2>. QED  BY <2>1 DEF NoLostWakeup
<1>2. ASSUME NEW r \in Requests, Sleep(r)
      PROVE  NoLostWakeup'
  BY <1>2 DEF Sleep, NoLostWakeup, TypeOK
<1>3. ASSUME NEW r \in Requests, Finish(r)
      PROVE  NoLostWakeup'
  <2>1. pc'[r] = "released"
    BY <1>3, Moved DEF Finish, Places
  <2>. QED  BY <2>1 DEF NoLostWakeup
<1>4. ASSUME armed' = {} \/ reloading'
      PROVE  NoLostWakeup'
  BY <1>4 DEF NoLostWakeup
<1>5. ASSUME NEW r \in Requests, Notify(r)
      PROVE  NoLostWakeup'
  BY <1>4, <1>5 DEF Notify
<1>6. CASE (\E n \in Limits : set(n)) \/ NotifySet
  BY <1>4, <1>6 DEF set, NotifySet
<1>7. CASE UNCHANGED vars
  BY <1>7 DEF vars, NoLostWakeup
<1>. QED  BY <1>1, <1>2, <1>3, <1>5, <1>6, <1>7 DEF Next

LEMMA InvHolds == Spec => []Inv
<1>1. Inv /\ [Next]_vars => Inv'
  BY StepTypeOK, StepSlots, StepWaiters, StepWakeup DEF Inv
<1>. QED  BY <1>1, InitInv, PTL DEF Spec

\* Every variable has its type; neither of the two counts wraps below zero.
THEOREM TypeCorrect == Spec => []TypeOK
  BY InvHolds, PTL DEF Inv

\* A slot is taken for each permit and for nothing else.
THEOREM SlotsAreAccounted == Spec => []SlotsAccounted
  BY InvHolds, PTL DEF Inv

\* The count of waiters never falls below the waiters: `waiting -= 1` is safe.
THEOREM WaitersAreCounted == Spec => []WaitersCounted
  BY InvHolds, PTL DEF Inv

\* No waiter sleeps through a free slot.
THEOREM WakeupsAreNotLost == Spec => []NoLostWakeup
  BY InvHolds, PTL DEF Inv
=============================================================================
