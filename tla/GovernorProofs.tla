--------------------------- MODULE GovernorProofs ---------------------------
(***************************************************************************)
(* Proofs about the resource governor, for any requests, demands and       *)
(* reserves: the shared count of reserved bytes is what the permits hold.  *)
(***************************************************************************)
EXTENDS Governor, FiniteSetTheorems, TLAPS

\* Only a load that may go on has a permit, and the bytes of the permits are
\* finitely many.
Inv == /\ permit \in [Requests -> Nat]
       /\ pc \in [Requests -> Places]
       /\ \A r \in Requests : pc[r] \notin {"loading", "running"} => permit[r] = 0
       /\ IsFiniteSet(Permits)
       /\ ReservedAccounted

LEMMA ByteBlock ==
  ASSUME NEW r, NEW n \in Nat
  PROVE  IsFiniteSet({r} \X (1 .. n)) /\ Cardinality({r} \X (1 .. n)) = n
<1>1. IsFiniteSet({r}) /\ Cardinality({r}) = 1
  BY FS_Singleton
<1>2. IsFiniteSet(1 .. n) /\ Cardinality(1 .. n) = n
  BY FS_Interval
<1>3. \A S, T : IsFiniteSet(S) /\ IsFiniteSet(T) =>
        IsFiniteSet(S \X T) /\ Cardinality(S \X T) = Cardinality(S) * Cardinality(T)
  BY FS_Product
<1>4. /\ IsFiniteSet({r} \X (1 .. n))
      /\ Cardinality({r} \X (1 .. n)) = Cardinality({r}) * Cardinality(1 .. n)
  BY <1>1, <1>2, <1>3, ZenonT(60)
<1>. QED  BY <1>1, <1>2, <1>4

LEMMA InitInv == Init => Inv
<1>. SUFFICES ASSUME Init PROVE Inv
  OBVIOUS
<1>1. Permits = {}
  BY DEF Init, Permits
<1>2. permit \in [Requests -> Nat] /\ pc \in [Requests -> Places] /\ \A r \in Requests : permit[r] = 0
  BY DEF Init, Places
<1>. QED  BY <1>1, <1>2, FS_EmptySet DEF Init, Inv, ReservedAccounted

\* A reservation adds the bytes of one request.
LEMMA ReserveStep ==
  ASSUME Inv, NEW r \in Requests, try_reserve(r)
  PROVE  Inv'
<1>. DEFINE block == {r} \X (1 .. Bytes[r])
<1>1. Bytes[r] \in Nat /\ IsFiniteSet(block) /\ Cardinality(block) = Bytes[r]
  BY BytesAssumption, ByteBlock
<1>2. /\ permit' = [permit EXCEPT ![r] = Bytes[r]] /\ reserved' = reserved + Bytes[r]
      /\ pc' = [pc EXCEPT ![r] = "loading"]
      /\ permit[r] = 0
  BY DEF Inv, try_reserve, Goto
<1>3. \A q \in Requests : permit'[q] = IF q = r THEN Bytes[r] ELSE permit[q]
  BY <1>2 DEF Inv
<1>4. Permits' = Permits \cup block /\ Permits \cap block = {}
  BY <1>2, <1>3 DEF Permits
<1>5. /\ IsFiniteSet(Permits \cup block)
      /\ Cardinality(Permits \cup block) = Cardinality(Permits) + Cardinality(block) - Cardinality(Permits \cap block)
  BY <1>1, FS_Union DEF Inv
<1>6. Cardinality(Permits \cap block) = 0
  BY <1>4, FS_EmptySet
<1>7. Cardinality(Permits) \in Nat /\ reserved = Cardinality(Permits)
  BY FS_CardinalityType DEF Inv, ReservedAccounted
<1>8. reserved' = Cardinality(Permits')
  BY <1>1, <1>2, <1>4, <1>5, <1>6, <1>7
<1>9. /\ permit' \in [Requests -> Nat] /\ pc' \in [Requests -> Places]
      /\ \A q \in Requests : pc'[q] \notin {"loading", "running"} => permit'[q] = 0
  BY <1>1, <1>2 DEF Inv, Places
<1>. QED  BY <1>4, <1>5, <1>8, <1>9 DEF Inv, ReservedAccounted

\* A release, early or at the end, takes away the bytes of one request.
LEMMA ReleaseStep ==
  ASSUME Inv, NEW r \in Requests, GiveBack(r), pc' = pc \/ pc' = [pc EXCEPT ![r] = "idle"]
  PROVE  Inv'
<1>. DEFINE block == {r} \X (1 .. permit[r])
<1>1. permit[r] \in Nat /\ IsFiniteSet(block) /\ Cardinality(block) = permit[r]
  BY ByteBlock DEF Inv
<1>2. permit' = [permit EXCEPT ![r] = 0] /\ reserved' = reserved - permit[r]
  BY DEF GiveBack
<1>3. \A q \in Requests : permit'[q] = IF q = r THEN 0 ELSE permit[q]
  BY <1>2 DEF Inv
<1>4. Permits' = Permits \ block /\ Permits \cap block = block
  BY <1>2, <1>3 DEF Permits
<1>5. /\ IsFiniteSet(Permits \ block)
      /\ Cardinality(Permits \ block) = Cardinality(Permits) - Cardinality(Permits \cap block)
  BY FS_Difference DEF Inv
<1>6. reserved = Cardinality(Permits)
  BY DEF Inv, ReservedAccounted
<1>7. reserved' = Cardinality(Permits')
  BY <1>1, <1>2, <1>4, <1>5, <1>6
<1>8. /\ permit' \in [Requests -> Nat] /\ pc' \in [Requests -> Places]
      /\ \A q \in Requests : pc'[q] \notin {"loading", "running"} => permit'[q] = 0
  BY <1>2 DEF Inv, Places
<1>. QED  BY <1>4, <1>5, <1>7, <1>8 DEF Inv, ReservedAccounted

\* Every other step leaves the count and the permits alone, and takes nobody
\* away from a load.
LEMMA OtherStep ==
  ASSUME Inv, UNCHANGED <<reserved, permit>>, pc' \in [Requests -> Places],
         \A r \in Requests : pc[r] \in {"loading", "running"} => pc'[r] \in {"loading", "running"}
  PROVE  Inv'
  BY DEF Inv, Permits, ReservedAccounted

LEMMA InvStep == Inv /\ [Next]_vars => Inv'
<1>. SUFFICES ASSUME Inv, [Next]_vars PROVE Inv'
  OBVIOUS
<1>. USE DEF Goto, Places
<1>1. ASSUME NEW r \in Requests, try_reserve(r)
      PROVE  Inv'
  BY <1>1, ReserveStep
<1>2. ASSUME NEW r \in Requests, ReleaseEarly(r) \/ Finish(r)
      PROVE  Inv'
  BY <1>2, ReleaseStep DEF ReleaseEarly, Finish
<1>3. ASSUME NEW r \in Requests, Start(r) \/ Enable(r) \/ ReadCached(r) \/ BeginSample(r)
                                 \/ EndSample(r) \/ CancelSample(r)
      PROVE  Inv'
  BY <1>3, OtherStep DEF Inv, Start, Enable, ReadCached, BeginSample, EndSample, CancelSample, See
<1>4. ASSUME NEW r \in Requests, Hold(r) \/ Wake(r) \/ Expire(r) \/ Load(r) \/ Notify(r) \/ Unload(r)
      PROVE  Inv'
  BY <1>4, OtherStep DEF Inv, Hold, Wake, Expire, Load, Notify, Unload
<1>5. CASE SamplerReads \/ GrowOld \/ invalidate \/ UNCHANGED vars
  BY <1>5, OtherStep DEF Inv, SamplerReads, GrowOld, invalidate, vars
<1>. QED  BY <1>1, <1>2, <1>3, <1>4, <1>5 DEF Next

\* No byte leaks and none is given back twice: a permit that is released early
\* and then dropped, a reservation that is refused after it was found to fit and a
\* reader that is cancelled leave the shared count at the sum of the permits.
THEOREM ReservationsAreAccounted == Spec => []ReservedAccounted
  BY InitInv, InvStep, PTL DEF Spec, Inv

-----------------------------------------------------------------------------
(* Types *)

LEMMA MarkIsSample == \A s \in Sample : Older(s) \in Sample
  BY DEF Sample, Older

LEMMA InitType == Init => TypeOK
<1>. SUFFICES ASSUME Init PROVE TypeOK
  OBVIOUS
<1>1. Taken \in Sample
  BY DEF Taken, Sample
<1>2. [sample |-> Taken, reserved |-> 0] \in [sample : Sample, reserved : Nat]
  BY <1>1
<1>3. seen \in [Requests -> [sample : Sample, reserved : Nat]]
  BY <1>2 DEF Init
<1>. QED  BY <1>3 DEF Init, TypeOK, Places

LEMMA ReservedIsNat == Inv => reserved \in Nat
  BY FS_CardinalityType DEF Inv, ReservedAccounted

LEMMA TypeStep == Inv /\ TypeOK /\ [Next]_vars => TypeOK'
<1>. SUFFICES ASSUME Inv, TypeOK, [Next]_vars PROVE TypeOK'
  OBVIOUS
<1>0. reserved' \in Nat /\ permit' \in [Requests -> Nat] /\ pc' \in [Requests -> Places]
  BY InvStep, ReservedIsNat, FS_CardinalityType DEF Inv, ReservedAccounted
<1>. USE <1>0 DEF TypeOK
<1>1. ASSUME NEW r \in Requests, Start(r) \/ Enable(r) \/ try_reserve(r) \/ Hold(r) \/ Wake(r) \/ Expire(r)
                                 \/ Load(r) \/ Notify(r) \/ Unload(r) \/ CancelSample(r)
      PROVE  TypeOK'
  BY <1>1 DEF Start, Enable, try_reserve, Hold, Wake, Expire, Load, Notify, Unload, CancelSample
<1>2. ASSUME NEW r \in Requests, ReadCached(r) \/ EndSample(r)
      PROVE  TypeOK'
  <2>1. \E s \in Sample : seen' = [seen EXCEPT ![r] = [sample |-> s, reserved |-> reserved]]
    BY <1>2 DEF ReadCached, EndSample, See, NeedsSample
  <2>2. seen' \in [Requests -> [sample : Sample, reserved : Nat]]
    BY <2>1
  <2>. QED  BY <1>2, <2>2 DEF ReadCached, EndSample
<1>3. ASSUME NEW r \in Requests, BeginSample(r)
      PROVE  TypeOK'
  BY <1>3 DEF BeginSample
<1>4. ASSUME NEW r \in Requests, ReleaseEarly(r) \/ Finish(r)
      PROVE  TypeOK'
  BY <1>4 DEF ReleaseEarly, Finish, GiveBack
<1>5. CASE SamplerReads
  BY <1>5 DEF SamplerReads, Sample
<1>6. CASE invalidate
  <2>1. saved' \in Sample \cup {NoSample} /\ pending' \in Sample \cup {NoSample, Running}
    BY <1>6, MarkIsSample DEF invalidate, Older
  <2>. QED  BY <1>6, <2>1 DEF invalidate
<1>7. CASE GrowOld \/ UNCHANGED vars
  BY <1>7 DEF GrowOld, vars
<1>. QED  BY <1>1, <1>2, <1>3, <1>4, <1>5, <1>6, <1>7 DEF Next

\* Every variable has its type; the count of reserved bytes never wraps below zero.
THEOREM TypeCorrect == Spec => []TypeOK
  BY InitInv, InvStep, InitType, TypeStep, PTL DEF Spec

-----------------------------------------------------------------------------
(* Wakeups *)

\* What a registered request has seen of the count is not above the count, unless a
\* notification is on its way; nobody releases without one.
SeenIsBelow ==
  \A r \in Requests : signals = {} /\ pc[r] = "assess" /\ r \in armed => seen[r].reserved <= reserved

WakeInv == SeenIsBelow /\ NoLostWakeup

LEMMA AvailableIsInt == \A s \in Sample : Available(s) \in Int
<1>. SUFFICES ASSUME NEW s \in Sample PROVE Available(s) \in Int
  OBVIOUS
<1>. DEFINE block == [r \in s.saw |-> {r} \X (1 .. Bytes[r])]
            blocks == {block[r] : r \in s.saw}
<1>1. s.saw \subseteq Requests
  BY DEF Sample
<1>2. IsFiniteSet(s.saw)
  BY <1>1, RequestsAssumption, FS_Subset
<1>3. IsFiniteSet(blocks)
  <2>1. block \in Surjection(s.saw, blocks)
    BY DEF Surjection
  <2>. QED  BY <1>2, <2>1, FS_Surjection
<1>4. ASSUME NEW b \in blocks PROVE IsFiniteSet(b)
  <2>1. PICK r \in s.saw : b = {r} \X (1 .. Bytes[r])
    OBVIOUS
  <2>2. Bytes[r] \in Nat
    BY <1>1, BytesAssumption
  <2>. QED  BY <2>1, <2>2, ByteBlock
<1>5. IsFiniteSet(UNION blocks)
  BY <1>3, <1>4, FS_UNION
<1>6. UNION blocks = BytesOf(s.saw)
  BY DEF BytesOf
<1>7. Cardinality(BytesOf(s.saw)) \in Nat
  BY <1>5, <1>6, FS_CardinalityType
<1>. QED  BY <1>7, PolicyAssumption DEF Available

LEMMA HoldStep ==
  ASSUME TypeOK, WakeInv, NEW r \in Requests, Hold(r)
  PROVE  WakeInv'
<1>1. /\ pc[r] = "assess" /\ ~ (Admissible(r) /\ FitsNow(r))
      /\ pc' = [pc EXCEPT ![r] = "asleep"]
      /\ UNCHANGED <<reserved, seen, armed, signals>>
  BY DEF Hold, Goto
<1>2. SeenIsBelow'
  BY <1>1 DEF WakeInv, SeenIsBelow, TypeOK
<1>3. Bytes[r] \in Nat /\ Margin(r) \in Nat /\ Margin(r) <= ResumeReserve /\ MaxBytes \in Nat /\ ResumeReserve \in Nat
  BY BytesAssumption, PolicyAssumption DEF Margin
<1>4. /\ seen[r].sample \in Sample /\ seen[r].reserved \in Nat /\ reserved \in Nat
      /\ Available(seen[r].sample) \in Int
  BY AvailableIsInt DEF TypeOK
<1>5. ASSUME signals = {}, r \in armed
      PROVE  \/ seen[r].sample.held
             \/ reserved + Bytes[r] + ResumeReserve > MaxBytes
             \/ Available(seen[r].sample) < reserved + Bytes[r] + ResumeReserve
  <2>1. seen[r].reserved <= reserved
    BY <1>1, <1>5 DEF WakeInv, SeenIsBelow
  <2>. QED  BY <1>1, <1>3, <1>4, <2>1 DEF Admissible, FitsNow
<1>6. NoLostWakeup'
  <2>1. \A q \in Requests : q # r => pc'[q] = pc[q]
    BY <1>1 DEF TypeOK
  <2>2. \A s : Available(s)' = Available(s)
    BY DEF Available, BytesOf
  <2>. QED  BY <1>1, <1>5, <2>1, <2>2 DEF WakeInv, NoLostWakeup
<1>. QED  BY <1>2, <1>6 DEF WakeInv

LEMMA WakeStep == TypeOK /\ TypeOK' /\ WakeInv /\ [Next]_vars => WakeInv'
<1>. SUFFICES ASSUME TypeOK, TypeOK', WakeInv, [Next]_vars PROVE WakeInv'
  OBVIOUS
<1>0. \A s : Available(s)' = Available(s)
  BY DEF Available, BytesOf
<1>. USE <1>0 DEF WakeInv, SeenIsBelow, NoLostWakeup, TypeOK, Goto
<1>1. ASSUME NEW r \in Requests, Start(r) \/ Enable(r) \/ BeginSample(r) \/ CancelSample(r)
                                 \/ Wake(r) \/ Expire(r) \/ Load(r) \/ Unload(r)
      PROVE  WakeInv'
  BY <1>1 DEF Start, Enable, BeginSample, CancelSample, Wake, Expire, Load, Unload
<1>2. ASSUME NEW r \in Requests, ReadCached(r) \/ EndSample(r)
      PROVE  WakeInv'
  <2>1. /\ seen' = [seen EXCEPT ![r] = [sample |-> seen'[r].sample, reserved |-> reserved]]
        /\ pc' = [pc EXCEPT ![r] = "assess"]
        /\ UNCHANGED <<reserved, armed, signals>>
    BY <1>2 DEF ReadCached, EndSample, See
  <2>2. seen'[r].reserved = reserved
    BY <2>1
  <2>3. \A q \in Requests : q # r => seen'[q] = seen[q] /\ pc'[q] = pc[q]
    BY <2>1
  <2>4. pc'[r] = "assess"
    BY <2>1
  <2>5. SeenIsBelow'
    BY <2>1, <2>2, <2>3
  <2>6. NoLostWakeup'
    BY <2>1, <2>3, <2>4
  <2>. QED  BY <2>5, <2>6
<1>3. ASSUME NEW r \in Requests, try_reserve(r)
      PROVE  WakeInv'
  <2>1. /\ armed' = armed \ {r} /\ reserved' = reserved + Bytes[r] /\ Bytes[r] \in Nat
        /\ UNCHANGED <<seen, signals>>
        /\ \A q \in Requests : q # r => pc'[q] = pc[q]
    BY <1>3, BytesAssumption DEF try_reserve
  <2>2. SeenIsBelow'
    BY <2>1
  <2>3. \A q \in Requests : Available(seen[q].sample) \in Int
    BY AvailableIsInt
  <2>4. NoLostWakeup'
    BY <2>1, <2>3, BytesAssumption, PolicyAssumption
  <2>. QED  BY <2>2, <2>4
<1>4. ASSUME NEW r \in Requests, Hold(r)
      PROVE  WakeInv'
  BY <1>4, HoldStep
<1>5. ASSUME NEW r \in Requests, GiveBack(r), UNCHANGED <<seen, armed>>,
             pc' = pc \/ pc' = [pc EXCEPT ![r] = "idle"]
      PROVE  WakeInv'
  <2>1. CASE permit[r] > 0
    <3>1. signals' # {}
      BY <1>5, <2>1 DEF GiveBack
    <3>. QED  BY <3>1
  <2>2. CASE permit[r] = 0
    <3>1. reserved' = reserved /\ signals' = signals
      BY <1>5, <2>2 DEF GiveBack
    <3>. QED  BY <1>5, <3>1
  <2>. QED  BY <2>1, <2>2
<1>6. ASSUME NEW r \in Requests, ReleaseEarly(r) \/ Finish(r)
      PROVE  WakeInv'
  BY <1>5, <1>6 DEF ReleaseEarly, Finish
<1>7. ASSUME NEW r \in Requests, Notify(r)
      PROVE  WakeInv'
  BY <1>7 DEF Notify
<1>8. CASE SamplerReads \/ GrowOld \/ invalidate \/ UNCHANGED vars
  BY <1>8 DEF SamplerReads, GrowOld, invalidate, vars
<1>. QED  BY <1>1, <1>2, <1>3, <1>4, <1>6, <1>7, <1>8 DEF Next

\* A request registers before it looks, so that it never sleeps while what it has
\* seen would admit it, unless a notification is on its way.
THEOREM WakeupsAreNotLost == Spec => []NoLostWakeup
<1>1. Init => WakeInv
  BY DEF Init, WakeInv, SeenIsBelow, NoLostWakeup
<1>. QED  BY <1>1, InitInv, InvStep, InitType, TypeStep, WakeStep, PTL DEF Spec, WakeInv
=============================================================================
