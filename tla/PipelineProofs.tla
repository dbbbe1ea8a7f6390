--------------------------- MODULE PipelineProofs ---------------------------
(***************************************************************************)
(* Proofs about the pipeline of one backend, for any tasks, raw requests   *)
(* and models, and any sizes.                                              *)
(***************************************************************************)
EXTENDS Pipeline, FiniteSetTheorems, TLAPS

-----------------------------------------------------------------------------
(* The transition lock *)

Locked == {"revalidating"} \cup {"sending", "serving", "unloading"}

\* Who is past the lock holds it alone, or shares it and has found its runner.
\* Nothing need be known of the queue: it only says whose turn it is.
LockInv == /\ pc \in [Requests -> Places]
           /\ writer # NoOne => readers = {}
           /\ \A r \in Requests : pc[r] \in Locked => writer = r \/ r \in readers \cap believed
           /\ \A r \in Requests : pc[r] = "rechecking" => r \in readers \cap believed

LEMMA LockInit == Init => LockInv
  BY DEF Init, LockInv, Locked, Places

\* The guards that a request drops are its own.
LEMMA EndKeepsLock == ASSUME LockInv, NEW r \in Requests, End(r), UNCHANGED believed
                      PROVE  LockInv'
  BY RequestsAssumption DEF LockInv, Locked, Places, End, GiveBack, Goto, Requests

LEMMA LockStep == LockInv /\ [Next]_vars => LockInv'
<1>. SUFFICES ASSUME LockInv, [Next]_vars PROVE LockInv'
  OBVIOUS
<1>. USE RequestsAssumption DEF LockInv, Locked, Places, Goto, Requests, locks, ollama
<1>1. ASSUME NEW t \in Tasks, Route(t) \/ Begin(t) \/ Admit(t)
      PROVE  LockInv'
  BY <1>1 DEF Arrives, Route, Begin, Admit
<1>2. ASSUME NEW t \in Tasks, make_room(t) \/ evict_idle_models(t) \/ Evicted(t)
      PROVE  LockInv'
  BY <1>2 DEF make_room, evict_idle_models, Evicted
<1>3. ASSUME NEW t \in Tasks, Reserve(t) \/ Yield(t) \/ ReserveYielded(t) \/ Readmit(t)
      PROVE  LockInv'
  BY <1>3 DEF Reserve, Yield, ReserveYielded, Readmit
<1>4. ASSUME NEW t \in Tasks, Recheck(t)
      PROVE  LockInv'
  BY <1>4 DEF Recheck
<1>5. ASSUME NEW t \in Tasks, Revalidate(t)
      PROVE  LockInv'
  <2>1. CASE End(t)
    BY <1>5, <2>1, EndKeepsLock DEF Revalidate
  <2>2. CASE Goto(t, "sending") /\ UNCHANGED locks
    BY <1>5, <2>2 DEF Revalidate
  <2>. QED  BY <1>5, <2>1, <2>2 DEF Revalidate
<1>6. ASSUME NEW t \in Tasks, Leave(t)
      PROVE  LockInv'
  BY <1>6, EndKeepsLock DEF Leave
<1>7. ASSUME NEW t \in Tasks, ReleaseEarly(t)
      PROVE  LockInv'
  BY <1>7 DEF ReleaseEarly
<1>8. ASSUME NEW r \in Requests, Lock(r)
      PROVE  LockInv'
  BY <1>8 DEF Arrives, Lock
<1>9. ASSUME NEW r \in Raws, RawCapacity(r)
      PROVE  LockInv'
  <2>1. CASE End(r)
    BY <1>9, <2>1, EndKeepsLock DEF RawCapacity
  <2>2. CASE Goto(r, "sending") /\ UNCHANGED <<slots, reserved, locks>>
    BY <1>9, <2>2 DEF RawCapacity
  <2>. QED  BY <1>9, <2>1, <2>2 DEF RawCapacity
<1>10. ASSUME NEW r \in Requests, Serve(r)
       PROVE  LockInv'
  BY <1>10 DEF Serve
<1>11. ASSUME NEW r \in Requests, Complete(r)
       PROVE  LockInv'
  <2>1. CASE End(r)
    BY <1>11, <2>1, EndKeepsLock DEF Complete
  <2>2. CASE Goto(r, "unloading") /\ UNCHANGED <<slots, reserved, locks>>
    BY <1>11, <2>2 DEF Complete
  <2>. QED  BY <1>11, <2>1, <2>2 DEF Complete
<1>12. ASSUME NEW r \in Requests, Abandon(r)
       PROVE  LockInv'
  BY <1>12, EndKeepsLock DEF Abandon
<1>13. CASE Grant
  BY <1>13 DEF Grant
<1>14. ASSUME NEW m \in Runners, Unload(m)
       PROVE  LockInv'
  BY <1>14 DEF Unload
<1>15. CASE UNCHANGED vars
  BY <1>15 DEF vars
<1>. QED
  BY <1>1, <1>2, <1>3, <1>4, <1>5, <1>6, <1>7, <1>8, <1>9, <1>10, <1>11, <1>12, <1>13, <1>14,
     <1>15 DEF Next, TaskStep, RequestStep

LEMMA LockHolds == Spec => []LockInv
  BY LockInit, LockStep, PTL DEF Spec

\* Two requests are with Ollama at once only if both have found their runner
\* resident under the lock.
THEOREM NobodyLoadsBeside == Spec => []ColdAlone
<1>1. LockInv => ColdAlone
  BY RequestsAssumption DEF LockInv, ColdAlone, Sent, Locked
<1>. QED  BY <1>1, LockHolds, PTL

-----------------------------------------------------------------------------
(* Types *)

LEMMA EndKeepsType ==
  ASSUME TypeOK, NEW r \in Requests, End(r), UNCHANGED <<believed, loaded, victims>>,
         unloads' \in SUBSET Runners
  PROVE  TypeOK'
  BY DEF TypeOK, End, GiveBack, Goto, Places

LEMMA TypeStep == LockInv /\ LockInv' /\ TypeOK /\ [Next]_vars => TypeOK'
<1>. SUFFICES ASSUME LockInv, LockInv', TypeOK, [Next]_vars PROVE TypeOK'
  OBVIOUS
<1>0. pc' \in [Requests -> Places] /\ (writer' # NoOne => readers' = {})
  BY DEF LockInv
<1>. USE <1>0, ModelsAssumption DEF TypeOK, locks, ollama
<1>1. ASSUME NEW t \in Tasks, Route(t) \/ Begin(t) \/ Admit(t) \/ Reserve(t) \/ Yield(t)
                              \/ ReserveYielded(t) \/ Readmit(t) \/ ReleaseEarly(t) \/ Evicted(t)
      PROVE  TypeOK'
  BY <1>1 DEF Arrives, Route, Begin, Admit, Reserve, Reserved, Yield, ReserveYielded, Readmit, ReleaseEarly, Evicted
<1>2. ASSUME NEW t \in Tasks, make_room(t)
      PROVE  TypeOK'
  <2>1. victims' \in [Tasks -> SUBSET Runners]
    BY <1>2 DEF make_room, plan
  <2>. QED  BY <1>2, <2>1 DEF make_room
<1>3. ASSUME NEW t \in Tasks, evict_idle_models(t)
      PROVE  TypeOK'
  <2>1. PICK m \in victims[t] : /\ victims' = [victims EXCEPT ![t] = @ \ {m}]
                                /\ unloads' = IF Busy(m) THEN unloads ELSE unloads \cup {m}
    BY <1>3 DEF evict_idle_models
  <2>2. victims' \in [Tasks -> SUBSET Runners] /\ unloads' \in SUBSET Runners
    BY <2>1
  <2>. QED  BY <1>3, <2>2 DEF evict_idle_models
<1>4. ASSUME NEW t \in Tasks, Recheck(t)
      PROVE  TypeOK'
  BY <1>4 DEF Recheck
<1>5. ASSUME NEW t \in Tasks, Revalidate(t) \/ Leave(t)
      PROVE  TypeOK'
  <2>1. CASE End(t)
    BY <1>5, <2>1, EndKeepsType DEF Revalidate, Leave, Requests
  <2>2. CASE ~ End(t)
    BY <1>5, <2>2 DEF Revalidate, Leave
  <2>. QED  BY <2>1, <2>2
<1>6. ASSUME NEW r \in Requests, Lock(r) \/ Serve(r)
      PROVE  TypeOK'
  BY <1>6, RequestsAssumption DEF Arrives, Lock, Serve
<1>7. ASSUME NEW r \in Requests, RawCapacity(r) \/ Complete(r) \/ Abandon(r)
      PROVE  TypeOK'
  <2>1. unloads' \in SUBSET Runners
    BY <1>7, RequestsAssumption DEF RawCapacity, Complete, Abandon
  <2>2. CASE End(r)
    BY <1>7, <2>1, <2>2, EndKeepsType DEF RawCapacity, Complete, Abandon
  <2>3. CASE ~ End(r)
    BY <1>7, <2>1, <2>3 DEF RawCapacity, Complete, Abandon
  <2>. QED  BY <2>2, <2>3
<1>8. CASE Grant
  BY <1>8 DEF Grant
<1>9. ASSUME NEW m \in Runners, Unload(m)
      PROVE  TypeOK'
  BY <1>9 DEF Unload
<1>10. CASE UNCHANGED vars
  BY <1>10 DEF vars
<1>. QED
  BY <1>1, <1>2, <1>3, <1>4, <1>5, <1>6, <1>7, <1>8, <1>9, <1>10 DEF Next, TaskStep, RequestStep, Requests

\* Every variable but the queue of the lock has its type, and the lock is either
\* shared by tasks or held alone.
THEOREM TypeCorrect == Spec => []TypeOK
<1>1. Init => TypeOK
  BY DEF Init, TypeOK, Places
<1>. QED  BY <1>1, LockInit, LockStep, TypeStep, PTL DEF Spec

-----------------------------------------------------------------------------
(* Slots *)

Asking == {"queued", "requeued"}

\* Before it is admitted, and while it has given its slot back, a task has none.
SlotInv == /\ pc \in [Requests -> Places]
           /\ slots \subseteq Tasks
           /\ \A t \in Tasks : pc[t] \in {"idle", "routed", "yielded"} \cup Asking => t \notin slots

\* What SlotPool sees of a task.
asking == {t \in Tasks : pc[t] \in Asking}
units  == [t \in Tasks |-> IF t \in slots THEN 1 ELSE 0]

LEMMA SlotInit == Init => SlotInv
  BY DEF Init, SlotInv, Places

LEMMA SlotStep == SlotInv /\ [Next]_vars => SlotInv'
<1>. SUFFICES ASSUME SlotInv, [Next]_vars PROVE SlotInv'
  OBVIOUS
<1>. USE RequestsAssumption DEF SlotInv, Asking, Places, Goto, Requests, locks, ollama
<1>1. ASSUME NEW t \in Tasks, Route(t) \/ Begin(t) \/ Admit(t)
      PROVE  SlotInv'
  BY <1>1 DEF Arrives, Route, Begin, Admit
<1>2. ASSUME NEW t \in Tasks, make_room(t) \/ evict_idle_models(t) \/ Evicted(t)
      PROVE  SlotInv'
  BY <1>2 DEF make_room, evict_idle_models, Evicted
<1>3. ASSUME NEW t \in Tasks, Reserve(t) \/ Yield(t) \/ ReserveYielded(t) \/ Readmit(t)
      PROVE  SlotInv'
  BY <1>3 DEF Reserve, Yield, ReserveYielded, Readmit
<1>4. ASSUME NEW t \in Tasks, Recheck(t) \/ ReleaseEarly(t)
      PROVE  SlotInv'
  BY <1>4 DEF Recheck, ReleaseEarly
<1>5. ASSUME NEW r \in Requests, End(r)
      PROVE  SlotInv'
  BY <1>5 DEF End, GiveBack
<1>6. ASSUME NEW t \in Tasks, Revalidate(t)
      PROVE  SlotInv'
  BY <1>5, <1>6 DEF Revalidate
<1>7. ASSUME NEW r \in Requests, Leave(r) \/ Abandon(r)
      PROVE  SlotInv'
  BY <1>5, <1>7 DEF Leave, Abandon
<1>8. ASSUME NEW r \in Raws, RawCapacity(r)
      PROVE  SlotInv'
  BY <1>5, <1>8 DEF RawCapacity
<1>9. ASSUME NEW r \in Requests, Complete(r)
      PROVE  SlotInv'
  BY <1>5, <1>9 DEF Complete
<1>10. ASSUME NEW r \in Requests, Lock(r) \/ Serve(r)
       PROVE  SlotInv'
  BY <1>10 DEF Arrives, Lock, Serve
<1>11. CASE Grant
  BY <1>11 DEF Grant
<1>12. ASSUME NEW m \in Runners, Unload(m)
       PROVE  SlotInv'
  BY <1>12 DEF Unload
<1>13. CASE UNCHANGED vars
  BY <1>13 DEF vars
<1>. QED
  BY <1>1, <1>2, <1>3, <1>4, <1>6, <1>7, <1>8, <1>9, <1>10, <1>11, <1>12, <1>13
  DEF Next, TaskStep, RequestStep

\* There are finitely many slots in use, and one more or less is counted so.
LEMMA SlotsAreFinite ==
  ASSUME SlotInv, NEW t
  PROVE  /\ Cardinality(slots) \in Nat
         /\ t \notin slots => Cardinality(slots \cup {t}) = Cardinality(slots) + 1
         /\ t \in slots => Cardinality(slots \ {t}) = Cardinality(slots) - 1
<1>1. IsFiniteSet(slots)
  BY RequestsAssumption, FS_Subset DEF SlotInv, Requests
<1>. QED  BY <1>1, FS_CardinalityType, FS_AddElement, FS_RemoveElement

LEMMA SlotTaken ==
  ASSUME SlotInv, NEW t \in Tasks, pc[t] \in Asking, Cardinality(slots) < Slots,
         slots' = slots \cup {t}, NEW l \in Places \ Asking, Goto(t, l)
  PROVE  Pool!Enter(t)
<1>1. t \notin slots /\ t \in asking
  BY DEF SlotInv, asking
<1>2. asking' = asking \ {t}
  BY DEF SlotInv, asking, Goto, Requests
<1>3. units' = [units EXCEPT ![t] = 1]
  BY DEF units
<1>4. Pool!Due(t, Slots) = 1
  BY SizesAssumption DEF Pool!Due
<1>5. /\ Cardinality(slots) + 1 <= Slots
      /\ Cardinality(slots)' = Cardinality(slots) + 1
  BY <1>1, SlotsAreFinite, SizesAssumption
<1>. QED  BY <1>1, <1>2, <1>3, <1>4, <1>5 DEF Pool!Enter, asking, units, Asking

LEMMA SlotReturned ==
  ASSUME SlotInv, NEW t \in slots, slots' = slots \ {t}, asking' = asking
  PROVE  Pool!Exit(t)
<1>1. t \in Tasks /\ units[t] = 1
  BY DEF SlotInv, units
<1>2. units' = [units EXCEPT ![t] = 0]
  BY DEF units
<1>3. Cardinality(slots)' = Cardinality(slots) - 1
  BY SlotsAreFinite
<1>. QED  BY <1>1, <1>2, <1>3 DEF Pool!Exit, asking, units, Asking

\* A task that ends gives its slot back, or leaves the queue, or had neither.
LEMMA EndLeavesPool ==
  ASSUME SlotInv, NEW r \in Requests, End(r)
  PROVE  [Pool!PoolNext]_(Pool!pvars)
<1>1. slots' = slots \ {r} /\ pc' = [pc EXCEPT ![r] = "done"]
  BY DEF End, GiveBack, Goto
<1>2. asking' = asking \ {r}
  BY <1>1 DEF asking, Asking, SlotInv, Requests
<1>3. CASE r \in slots
  <2>1. r \in Tasks /\ asking' = asking
    BY <1>2, <1>3 DEF SlotInv, asking
  <2>. QED  BY <1>1, <1>3, <2>1, SlotReturned DEF Pool!PoolNext
<1>4. CASE r \notin slots
  <2>1. slots' = slots /\ units' = units
    BY <1>1, <1>4 DEF units
  <2>2. CASE r \in asking
    BY <1>2, <2>1, <2>2 DEF asking, units, Asking, Pool!GiveUp, Pool!PoolNext
  <2>3. CASE r \notin asking
    BY <1>2, <2>1, <2>3 DEF asking, units, Asking, Pool!pvars
  <2>. QED  BY <2>2, <2>3
<1>. QED  BY <1>3, <1>4

LEMMA StepUsesSlots == SlotInv /\ [Next]_vars => [Pool!PoolNext]_(Pool!pvars)
<1>. SUFFICES ASSUME SlotInv, [Next]_vars PROVE [Pool!PoolNext]_(Pool!pvars)
  OBVIOUS
<1>0. pc \in [Requests -> Places] /\ Tasks \subseteq Requests
  BY DEF SlotInv, Requests
<1>1. ASSUME NEW t \in Tasks, Begin(t) \/ ReserveYielded(t)
      PROVE  Pool!PoolNext
  <2>1. t \notin asking /\ units[t] = 0
    BY <1>1 DEF Begin, ReserveYielded, SlotInv, asking, units, Asking
  <2>2. asking' = asking \cup {t} /\ slots' = slots
    BY <1>0, <1>1 DEF Begin, ReserveYielded, asking, Asking, Goto
  <2>. QED  BY <2>1, <2>2 DEF asking, units, Asking, Pool!Ask, Pool!PoolNext
<1>2. ASSUME NEW t \in Tasks, Admit(t) \/ Readmit(t)
      PROVE  Pool!PoolNext
  BY <1>2, SlotTaken DEF Admit, Readmit, Asking, Places, Pool!PoolNext
<1>3. ASSUME NEW t \in Tasks, Yield(t)
      PROVE  [Pool!PoolNext]_(Pool!pvars)
  <2>1. asking' = asking /\ slots' = slots \ {t}
    BY <1>0, <1>3 DEF Yield, asking, Asking, Goto
  <2>2. CASE t \in slots
    BY <2>1, <2>2, SlotReturned DEF Pool!PoolNext
  <2>3. CASE t \notin slots
    BY <2>1, <2>3 DEF Pool!pvars, asking, Asking
  <2>. QED  BY <2>2, <2>3
<1>4. ASSUME NEW r \in Requests, End(r)
      PROVE  [Pool!PoolNext]_(Pool!pvars)
  BY <1>4, EndLeavesPool
<1>5. CASE Grant
  <2>1. PICK r : pc' = [pc EXCEPT ![r] = "rechecking"] \/ pc' = [pc EXCEPT ![r] = "revalidating"]
    BY <1>5 DEF Grant, Goto
  <2>2. slots' = slots /\ units' = units
    BY <1>5 DEF Grant, units
  <2>3. asking' = asking \ {r}
    BY <1>0, <2>1 DEF asking, Asking
  <2>4. CASE r \in asking
    BY <2>2, <2>3, <2>4 DEF asking, units, Asking, Pool!GiveUp, Pool!PoolNext
  <2>5. CASE r \notin asking
    BY <2>2, <2>3, <2>5 DEF asking, units, Asking, Pool!pvars
  <2>. QED  BY <2>4, <2>5
<1>6. ASSUME slots' = slots, asking' = asking
      PROVE  UNCHANGED Pool!pvars
  BY <1>6 DEF Pool!pvars, asking, Asking
<1>7. ASSUME NEW t \in Tasks,
             \/ Route(t) \/ make_room(t) \/ evict_idle_models(t) \/ Evicted(t) \/ Reserve(t)
             \/ Recheck(t) \/ ReleaseEarly(t)
      PROVE  slots' = slots /\ asking' = asking
  BY <1>0, <1>7 DEF Arrives, Route, make_room, evict_idle_models, Evicted, Reserve, Recheck, ReleaseEarly,
     asking, Asking, Goto
<1>8. ASSUME NEW t \in Tasks, Revalidate(t)
      PROVE  End(t) \/ (slots' = slots /\ asking' = asking)
  BY <1>0, <1>8 DEF Revalidate, asking, Asking, Goto
<1>9. ASSUME NEW r \in Raws, RawCapacity(r)
      PROVE  End(r) \/ (slots' = slots /\ asking' = asking)
  BY <1>0, <1>9, RequestsAssumption DEF RawCapacity, asking, Asking, Goto
<1>10. ASSUME NEW r \in Requests, Complete(r)
       PROVE  End(r) \/ (slots' = slots /\ asking' = asking)
  BY <1>0, <1>10 DEF Complete, asking, Asking, Goto
<1>11. ASSUME NEW r \in Requests, Leave(r) \/ Abandon(r)
       PROVE  End(r)
  BY <1>11 DEF Leave, Abandon
<1>12. ASSUME NEW r \in Requests, Lock(r) \/ Serve(r)
       PROVE  slots' = slots /\ asking' = asking
  BY <1>0, <1>12, RequestsAssumption DEF Arrives, Lock, Serve, asking, Asking, Goto
<1>13. ASSUME NEW m \in Runners, Unload(m)
       PROVE  slots' = slots /\ asking' = asking
  BY <1>13 DEF Unload, asking
<1>14. ASSUME UNCHANGED vars
       PROVE  slots' = slots /\ asking' = asking
  BY <1>14 DEF vars, asking
<1>. QED
  BY <1>0, <1>1, <1>2, <1>3, <1>4, <1>5, <1>6, <1>7, <1>8, <1>9, <1>10, <1>11, <1>12, <1>13, <1>14
  DEF Next, TaskStep, RequestStep, Requests

\* The tasks use the pool as the weighted semaphore it promises to be.
THEOREM SlotsAreUsedProperly == Spec => UsesSlots
<1>1. Init => Pool!PoolInit
  <2>. SUFFICES ASSUME Init PROVE Pool!PoolInit
    OBVIOUS
  <2>1. {t \in Tasks : pc[t] \in {"queued", "requeued"}} = {}
    BY DEF Init, Requests
  <2>2. slots = {} /\ Cardinality(slots) = 0
    BY FS_EmptySet DEF Init
  <2>. QED  BY <2>1, <2>2, SizesAssumption DEF Pool!PoolInit
<1>2. Spec => []SlotInv
  BY SlotInit, SlotStep, PTL DEF Spec
<1>. QED  BY <1>1, <1>2, StepUsesSlots, PTL DEF Spec, UsesSlots, Pool!PoolSpec
-----------------------------------------------------------------------------
(* Waiting *)

LEMMA WithoutKeepsOthers ==
  ASSUME NEW S, NEW q \in Seq(S), NEW r
  PROVE  /\ Without(q, r) \in Seq(S)
         /\ \A i \in DOMAIN q : q[i] # r => \E j \in DOMAIN Without(q, r) : Without(q, r)[j] = q[i]
<1>1. CASE ~ \E i \in DOMAIN q : q[i] = r
  BY <1>1 DEF Without
<1>2. CASE \E i \in DOMAIN q : q[i] = r
  <2>. DEFINE n == CHOOSE i \in DOMAIN q : q[i] = r
              a == SubSeq(q, 1, n - 1)
              b == SubSeq(q, n + 1, Len(q))
  <2>1. n \in 1 .. Len(q) /\ q[n] = r
    BY <1>2
  <2>2. Without(q, r) = a \o b
    BY <1>2 DEF Without
  <2>. HIDE DEF n
  <2>3. /\ a \in Seq(S) /\ Len(a) = n - 1
        /\ \A i \in 1 .. n - 1 : a[i] = q[i]
    BY <2>1
  <2>4. /\ b \in Seq(S) /\ Len(b) = Len(q) - n
        /\ \A i \in 1 .. Len(q) - n : b[i] = q[n + i]
    BY <2>1
  <2>. HIDE DEF a, b
  <2>5. a \o b \in Seq(S) /\ Len(a \o b) = Len(q) - 1
    <3>1. a \o b \in Seq(S) /\ Len(a \o b) = Len(a) + Len(b)
      BY <2>3, <2>4
    <3>2. Len(q) \in Nat
      OBVIOUS
    <3>. QED  BY <2>1, <2>3, <2>4, <3>1, <3>2
  <2>6. ASSUME NEW i \in DOMAIN q, q[i] # r
        PROVE  \E j \in DOMAIN (a \o b) : (a \o b)[j] = q[i]
    <3>0. i \in 1 .. Len(q) /\ i # n
      BY <2>1, <2>6
    <3>1. CASE i < n
      <4>1. i \in 1 .. Len(a \o b) /\ (a \o b)[i] = q[i]
        BY <2>1, <2>3, <2>4, <2>5, <3>0, <3>1
      <4>. QED  BY <2>5, <4>1
    <3>2. CASE i > n
      <4>1. i - n \in 1 .. Len(q) - n /\ b[i - n] = q[i]
        BY <2>1, <2>4, <3>0, <3>2
      <4>2. i - 1 \in 1 .. Len(a \o b) /\ (a \o b)[i - 1] = b[i - n]
        BY <2>1, <2>3, <2>4, <2>5, <3>0, <3>2
      <4>. QED  BY <2>5, <4>1, <4>2
    <3>. QED  BY <2>1, <3>0, <3>1, <3>2
  <2>. QED  BY <2>2, <2>5, <2>6
<1>. QED  BY <1>1, <1>2

InQueue(r) == \E i \in DOMAIN queue : queue[i] = r

LockPlaces == {"locking", "waiting", "rechecking"} \cup Locked

\* Where a request can be that holds something, and that whoever waits for the
\* lock is in its queue.
HoldInv ==
  /\ pc \in [Requests -> Places]
  /\ believed \subseteq Tasks /\ slots \subseteq Tasks
  /\ reserved \subseteq Tasks /\ readers \subseteq Tasks
  /\ \A r \in Raws : pc[r] \in {"idle", "waiting", "revalidating", "sending", "serving", "done"}
  /\ \A t \in slots : pc[t] \in {"sizing", "evicting", "reserving"} \cup LockPlaces
  /\ \A t \in reserved : pc[t] \in {"requeued"} \cup LockPlaces
  /\ \A t \in readers : pc[t] \in {"rechecking"} \cup Locked
  /\ writer # NoOne => writer \in Requests /\ pc[writer] \in Locked

QueueInv == /\ pc \in [Requests -> Places]
            /\ queue \in Seq(Requests)
            /\ \A r \in Requests : pc[r] = "waiting" => InQueue(r)

LEMMA HoldInit == Init => HoldInv /\ QueueInv
  BY RequestsAssumption DEF Init, HoldInv, QueueInv, Places, Requests

LEMMA EndKeepsHold == ASSUME HoldInv, NEW r \in Requests, End(r), UNCHANGED believed
                      PROVE  HoldInv'
  BY RequestsAssumption DEF HoldInv, LockPlaces, Locked, Places, End, GiveBack, Goto, Requests

LEMMA HoldStep == HoldInv /\ QueueInv /\ [Next]_vars => HoldInv'
<1>. SUFFICES ASSUME HoldInv, QueueInv, [Next]_vars PROVE HoldInv'
  OBVIOUS
<1>. USE RequestsAssumption DEF HoldInv, LockPlaces, Locked, Places, Goto, Requests, locks, ollama
<1>1. ASSUME NEW t \in Tasks, Route(t) \/ Begin(t) \/ Admit(t)
      PROVE  HoldInv'
  BY <1>1 DEF Arrives, Route, Begin, Admit
<1>2. ASSUME NEW t \in Tasks, make_room(t) \/ evict_idle_models(t) \/ Evicted(t)
      PROVE  HoldInv'
  BY <1>2 DEF make_room, evict_idle_models, Evicted
<1>3. ASSUME NEW t \in Tasks, Reserve(t) \/ ReserveYielded(t)
      PROVE  HoldInv'
  BY <1>3 DEF Reserve, Reserved, ReserveYielded
<1>4. ASSUME NEW t \in Tasks, Yield(t) \/ Readmit(t)
      PROVE  HoldInv'
  BY <1>4 DEF Yield, Readmit
<1>5. ASSUME NEW t \in Tasks, Recheck(t)
      PROVE  HoldInv'
  <2>1. t # writer
    BY <1>5 DEF Recheck
  <2>. QED  BY <1>5, <2>1 DEF Recheck
<1>6. ASSUME NEW t \in Tasks, Revalidate(t)
      PROVE  HoldInv'
  <2>1. CASE End(t)
    BY <1>6, <2>1, EndKeepsHold DEF Revalidate
  <2>2. CASE /\ reserved' = IF Resident(t) THEN reserved ELSE reserved \cup {t}
             /\ Goto(t, "sending") /\ UNCHANGED <<slots, locks>>
    BY <1>6, <2>2 DEF Revalidate
  <2>. QED  BY <1>6, <2>1, <2>2 DEF Revalidate
<1>7. ASSUME NEW r \in Requests, Leave(r) \/ Abandon(r)
      PROVE  HoldInv'
  BY <1>7, EndKeepsHold DEF Leave, Abandon
<1>8. ASSUME NEW t \in Tasks, ReleaseEarly(t)
      PROVE  HoldInv'
  BY <1>8 DEF ReleaseEarly
<1>9. ASSUME NEW r \in Requests, Lock(r)
      PROVE  HoldInv'
  BY <1>9 DEF Arrives, Lock
<1>10. ASSUME NEW r \in Raws, RawCapacity(r)
       PROVE  HoldInv'
  <2>1. CASE End(r)
    BY <1>10, <2>1, EndKeepsHold DEF RawCapacity
  <2>2. CASE Goto(r, "sending") /\ UNCHANGED <<slots, reserved, locks>>
    BY <1>10, <2>2 DEF RawCapacity
  <2>. QED  BY <1>10, <2>1, <2>2 DEF RawCapacity
<1>11. ASSUME NEW r \in Requests, Serve(r)
       PROVE  HoldInv'
  BY <1>11 DEF Serve
<1>12. ASSUME NEW r \in Requests, Complete(r)
       PROVE  HoldInv'
  <2>1. CASE End(r)
    BY <1>12, <2>1, EndKeepsHold DEF Complete
  <2>2. CASE r \in Unloaders /\ Goto(r, "unloading") /\ UNCHANGED <<slots, reserved, locks>>
    BY <1>12, <2>2 DEF Complete
  <2>. QED  BY <1>12, <2>1, <2>2 DEF Complete
<1>13. CASE Grant
  <2>. DEFINE h == Head(queue)
  <2>1. h \in Requests /\ UNCHANGED <<believed, slots, reserved>> /\ writer = NoOne
    BY <1>13 DEF QueueInv, Grant
  <2>2. \/ /\ h \in believed /\ readers' = readers \cup {h} /\ writer' = writer
           /\ pc' = [pc EXCEPT ![h] = "rechecking"]
        \/ /\ writer' = h /\ readers' = readers
           /\ pc' = [pc EXCEPT ![h] = "revalidating"]
    BY <1>13 DEF Grant
  <2>. HIDE DEF h
  <2>. QED  BY <2>1, <2>2
<1>14. ASSUME NEW m \in Runners, Unload(m)
       PROVE  HoldInv'
  BY <1>14 DEF Unload
<1>15. CASE UNCHANGED vars
  BY <1>15 DEF vars
<1>. QED
  BY <1>1, <1>2, <1>3, <1>4, <1>5, <1>6, <1>7, <1>8, <1>9, <1>10, <1>11, <1>12, <1>13, <1>14,
     <1>15 DEF Next, TaskStep, RequestStep

\* Who comes to wait enters the queue, and who leaves it takes no other along.
LEMMA QueueStep == QueueInv /\ [Next]_vars => QueueInv'
<1>. SUFFICES ASSUME QueueInv, [Next]_vars PROVE QueueInv'
  OBVIOUS
<1>0. Tasks \subseteq Requests /\ Raws \subseteq Requests
  BY DEF Requests
<1>1. ASSUME queue' = queue, NEW r \in Requests, NEW l \in Places, l # "waiting",
             Goto(r, l) \/ pc' = pc
      PROVE  QueueInv'
  BY <1>1 DEF QueueInv, InQueue, Goto
<1>2. ASSUME NEW r \in Requests, queue' = Append(queue, r), Goto(r, "waiting")
      PROVE  QueueInv'
  <2>1. queue' \in Seq(Requests) /\ pc' \in [Requests -> Places]
    BY <1>2 DEF QueueInv, Goto, Places
  <2>2. ASSUME NEW s \in Requests, pc'[s] = "waiting"
        PROVE  InQueue(s)'
    <3>1. CASE s = r
      <4>1. Len(queue) + 1 \in DOMAIN queue' /\ queue'[Len(queue) + 1] = s
        BY <1>2, <3>1 DEF QueueInv
      <4>. QED  BY <4>1 DEF InQueue
    <3>2. CASE s # r
      <4>1. PICK i \in DOMAIN queue : queue[i] = s
        BY <1>2, <2>2, <3>2 DEF QueueInv, InQueue, Goto
      <4>2. i \in DOMAIN queue' /\ queue'[i] = s
        BY <1>2, <4>1 DEF QueueInv
      <4>. QED  BY <4>2 DEF InQueue
    <3>. QED  BY <3>1, <3>2
  <2>. QED  BY <2>1, <2>2 DEF QueueInv
<1>3. ASSUME NEW r \in Requests, End(r)
      PROVE  QueueInv'
  <2>1. queue' = Without(queue, r) /\ pc' = [pc EXCEPT ![r] = "done"]
    BY <1>3 DEF End, GiveBack, Goto
  <2>2. queue' \in Seq(Requests) /\ pc' \in [Requests -> Places]
    BY <2>1, WithoutKeepsOthers DEF QueueInv, Places
  <2>3. ASSUME NEW s \in Requests, pc'[s] = "waiting"
        PROVE  InQueue(s)'
    <3>1. s # r /\ pc[s] = "waiting"
      BY <2>1, <2>3 DEF QueueInv
    <3>2. PICK i \in DOMAIN queue : queue[i] = s
      BY <3>1 DEF QueueInv, InQueue
    <3>3. PICK j \in DOMAIN queue' : queue'[j] = s
      BY <2>1, <3>1, <3>2, WithoutKeepsOthers DEF QueueInv
    <3>. QED  BY <3>3 DEF InQueue
  <2>. QED  BY <2>2, <2>3 DEF QueueInv
<1>4. CASE Grant
  <2>. DEFINE h == Head(queue)
  <2>1. /\ queue \in Seq(Requests) /\ queue # << >> /\ queue' = Tail(queue)
        /\ pc' = [pc EXCEPT ![h] = "rechecking"] \/ pc' = [pc EXCEPT ![h] = "revalidating"]
    BY <1>4 DEF Grant, Goto, QueueInv
  <2>2. queue' \in Seq(Requests) /\ pc' \in [Requests -> Places]
    BY <2>1 DEF QueueInv, Places
  <2>3. ASSUME NEW s \in Requests, pc'[s] = "waiting"
        PROVE  InQueue(s)'
    <3>1. s # h /\ pc[s] = "waiting"
      BY <2>1, <2>3 DEF QueueInv
    <3>2. PICK i \in DOMAIN queue : queue[i] = s
      BY <3>1 DEF QueueInv, InQueue
    <3>3. i # 1
      BY <2>1, <3>1, <3>2
    <3>4. i - 1 \in DOMAIN queue' /\ queue'[i - 1] = s
      BY <2>1, <3>2, <3>3
    <3>. QED  BY <3>4 DEF InQueue
  <2>. QED  BY <2>2, <2>3 DEF QueueInv
<1>5. ASSUME NEW t \in Tasks, Route(t) \/ Begin(t) \/ Admit(t) \/ make_room(t) \/ Evicted(t)
      PROVE  QueueInv'
  BY <1>0, <1>1, <1>5 DEF Route, Begin, Admit, make_room, Evicted, locks, Places
<1>6. ASSUME NEW t \in Tasks, evict_idle_models(t) \/ ReleaseEarly(t)
      PROVE  QueueInv'
  BY <1>6 DEF evict_idle_models, ReleaseEarly, locks, QueueInv, InQueue
<1>7. ASSUME NEW t \in Tasks, Reserve(t) \/ Yield(t) \/ ReserveYielded(t) \/ Readmit(t)
      PROVE  QueueInv'
  BY <1>0, <1>1, <1>7 DEF Reserve, Yield, ReserveYielded, Readmit, locks, Places
<1>8. ASSUME NEW t \in Tasks, Recheck(t)
      PROVE  QueueInv'
  BY <1>0, <1>1, <1>2, <1>8 DEF Recheck, locks, Places
<1>9. ASSUME NEW t \in Tasks, Revalidate(t)
      PROVE  QueueInv'
  BY <1>0, <1>1, <1>3, <1>9 DEF Revalidate, locks, Places
<1>10. ASSUME NEW r \in Raws, RawCapacity(r)
       PROVE  QueueInv'
  BY <1>0, <1>1, <1>3, <1>10 DEF RawCapacity, locks, Places
<1>11. ASSUME NEW r \in Requests, Serve(r)
       PROVE  QueueInv'
  BY <1>1, <1>11 DEF Serve, locks, Places
<1>12. ASSUME NEW r \in Requests, Complete(r)
       PROVE  QueueInv'
  BY <1>1, <1>3, <1>12 DEF Complete, locks, Places
<1>13. ASSUME NEW r \in Requests, Leave(r) \/ Abandon(r)
       PROVE  QueueInv'
  BY <1>3, <1>13 DEF Leave, Abandon
<1>14. ASSUME NEW r \in Requests, Lock(r)
       PROVE  QueueInv'
  BY <1>2, <1>14 DEF Lock
<1>15. ASSUME NEW m \in Runners, Unload(m)
       PROVE  QueueInv'
  BY <1>15 DEF Unload, locks, QueueInv, InQueue
<1>16. CASE UNCHANGED vars
  BY <1>16 DEF vars, locks, QueueInv, InQueue
<1>. QED
  BY <1>0, <1>3, <1>4, <1>5, <1>6, <1>7, <1>8, <1>9, <1>10, <1>11, <1>12, <1>13, <1>14, <1>15, <1>16
  DEF Next, TaskStep, RequestStep

\* If nobody's own next step is free, whoever has a slot waits for the lock, and
\* nobody holds the lock.
LEMMA SomebodyGoesOn == HoldInv /\ QueueInv => NoCircularWait
<1>. SUFFICES ASSUME HoldInv, QueueInv PROVE NoCircularWait
  OBVIOUS
<1>1. ASSUME NEW t \in Tasks, pc[t] = "yielded"
      PROVE  t \notin slots \cup reserved \cup readers \cup {writer}
  BY <1>1, RequestsAssumption DEF HoldInv, LockPlaces, Locked, Requests
<1>2. ASSUME NEW r \in Requests, pc[r] \notin {"idle", "yielded", "done"},
             \A s \in Requests : ~ FreeToGo(s)
      PROVE  Grantable
  <2>1. ASSUME NEW s \in Requests
        PROVE  \/ pc[s] \in {"idle", "yielded", "done", "waiting"}
               \/ pc[s] \in Asking /\ ~ (Cardinality(slots) < Slots)
    <3>1. CASE s \in Tasks
      BY <1>2, <3>1 DEF HoldInv, FreeToGo, Places, Asking
    <3>2. CASE s \in Raws
      BY <1>2, <3>2 DEF HoldInv, FreeToGo
    <3>. QED  BY <3>1, <3>2 DEF Requests
  <2>2. writer = NoOne
    BY <2>1 DEF HoldInv, Locked, Asking
  <2>3. readers = {}
    BY <2>1 DEF HoldInv, Locked, Asking, Requests
  <2>4. \E s \in Requests : pc[s] = "waiting"
    <3>1. CASE pc[r] = "waiting"
      BY <3>1
    <3>2. CASE pc[r] # "waiting"
      <4>1. ~ (Cardinality(slots) < Slots)
        BY <1>2, <2>1, <3>2
      <4>2. slots # {}
        BY <4>1, FS_EmptySet, SizesAssumption
      <4>3. PICK t \in slots : pc[t] \in {"sizing", "evicting", "reserving"} \cup LockPlaces
        BY <4>2 DEF HoldInv
      <4>4. t \in Requests
        BY DEF HoldInv, Requests
      <4>. QED  BY <2>1, <4>3, <4>4 DEF LockPlaces, Locked, Asking
    <3>. QED  BY <3>1, <3>2
  <2>5. queue # << >>
    BY <2>4 DEF QueueInv, InQueue
  <2>. QED  BY <2>2, <2>3, <2>5 DEF Grantable
<1>. QED  BY <1>1, <1>2 DEF NoCircularWait

\* Slots, memory and the lock are taken in an order that leaves no circle of
\* requests that wait for each other, with no deadline to break one.
THEOREM NobodyWaitsInACircle == Spec => []NoCircularWait
<1>1. Spec => [](HoldInv /\ QueueInv)
  BY HoldInit, HoldStep, QueueStep, PTL DEF Spec
<1>. QED  BY <1>1, SomebodyGoesOn, PTL
=============================================================================
