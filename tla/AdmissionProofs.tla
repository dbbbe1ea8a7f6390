-------------------------- MODULE AdmissionProofs ---------------------------
(***************************************************************************)
(* Proofs about the admission pool, for any number of requests, any costs, *)
(* priorities and weights, any bypass bound and any sequence of reloads.   *)
(***************************************************************************)
EXTENDS Admission, Integers, FiniteSetTheorems, TLAPS

-----------------------------------------------------------------------------
(* Type correctness *)

LEMMA InitTypeOK == Init => TypeOK
<1>. SUFFICES ASSUME Init PROVE TypeOK
  OBVIOUS
<1>1. /\ ceiling \in Nat \ {0}
      /\ limit \in 1 .. ceiling
      /\ maxWaiters \in Nat \ {0}
  BY SettingsAssumption DEF Init, AtLeastOne
<1>2. pc \in [Requests -> Quiet \cup Signalling]
  BY DEF Init, Quiet
<1>. QED  BY <1>1, <1>2, WeightsAssumption DEF Init, TypeOK

\* What the selection returns has the type of a grant and of credits, whatever
\* CHOOSE picks, because only waiters are asked about.
LEMMA SpendType ==
  ASSUME NEW cr \in [Classes -> Nat], NEW r \in Requests
  PROVE  Spend(cr, r) \in [Classes -> Nat]
<1>1. Priority[r] \in Classes
  BY PriorityAssumption
<1>. QED
  BY <1>1 DEF Spend

LEMMA BypassType ==
  ASSUME TypeOK
  PROVE  record_capacity_bypasses \in [Requests -> Nat]
  BY DEF TypeOK, record_capacity_bypasses

LEMMA ChargeType ==
  ASSUME TypeOK, NEW r \in Requests
  PROVE  /\ charge(r) \in 1 .. limit
         /\ free \in Nat
         /\ free <= limit
         /\ Least(Cost[r], limit) <= charge(r)
  BY CostAssumption DEF TypeOK, charge, free, Least, AtLeastOne

-----------------------------------------------------------------------------
(* The line *)

\* The queue is a line: of two waiters exactly one is in front of the other,
\* so "the oldest such request" (admission.rs:335) is well defined after any
\* series of arrivals, departures and handoffs between the two queues.
QueueIsALine ==
  /\ \A r \in Requests : ahead[r] \subseteq waiting \ {r}
  /\ \A r, s \in waiting : r # s => (r \in ahead[s] <=> s \notin ahead[r])
  /\ \A r, s, t \in waiting : r \in ahead[s] /\ s \in ahead[t] => r \in ahead[t]

\* Every nonempty set of waiters has a front.
LEMMA FrontExists ==
  ASSUME TypeOK, QueueIsALine, NEW S \in SUBSET waiting, S # {}
  PROVE  \E r \in S : ahead[r] \cap S = {}
<1>. DEFINE T == {ahead[r] : r \in S}
<1>1. T # {} /\ T \subseteq FiniteSubsetsOf(Requests)
  <2>1. \A r \in S : ahead[r] \in SUBSET Requests
    BY DEF TypeOK
  <2>2. FiniteSubsetsOf(Requests) = SUBSET Requests
    BY RequestsAssumption, FS_FiniteSubsetsOfFinite
  <2>. QED  BY <2>1, <2>2
<1>2. IsWellFoundedOn(StrictSubsetOrdering(Requests), FiniteSubsetsOf(Requests))
  BY FS_StrictSubsetOrderingWellFounded
<1>3. \E x \in T : \A y \in T : <<y, x>> \notin StrictSubsetOrdering(Requests)
  <2>. HIDE DEF T
  <2>. QED  BY <1>1, <1>2, WFMin
<1>4. PICK r \in S : \A s \in S : <<ahead[s], ahead[r]>> \notin StrictSubsetOrdering(Requests)
  BY <1>3
<1>5. ASSUME NEW s \in S, s \in ahead[r]
      PROVE  FALSE
  <2>1. r \in waiting /\ s \in waiting /\ r \in Requests /\ s \in Requests
    BY <1>5 DEF TypeOK
  <2>2. ahead[s] \subseteq ahead[r]
    <3>1. ASSUME NEW q \in ahead[s]
          PROVE  q \in ahead[r]
      BY <2>1, <3>1, <1>5 DEF QueueIsALine
    <3>. QED  BY <3>1
  <2>3. ahead[s] # ahead[r]
    BY <2>1, <1>5 DEF QueueIsALine
  <2>4. ahead[s] \in SUBSET Requests /\ ahead[r] \in SUBSET Requests
    BY <2>1 DEF TypeOK
  <2>. QED  BY <2>2, <2>3, <2>4, <1>4 DEF StrictSubsetOrdering
<1>. QED  BY <1>4, <1>5

LEMMA OldestIsIn ==
  ASSUME TypeOK, QueueIsALine, NEW S \in SUBSET waiting, S # {}
  PROVE  /\ Oldest(S) \in S
         /\ ahead[Oldest(S)] \cap S = {}
  BY FrontExists DEF Oldest

LEMMA FirstIsIn ==
  ASSUME TypeOK, QueueIsALine, NEW S \in SUBSET waiting, S # {}
  PROVE  First(S) \in S
<1>1. \A r \in S : Priority[r] \in 0 .. 2
  BY PriorityAssumption DEF Classes, TypeOK
<1>2. PICK c \in 0 .. 2 : /\ \E r \in S : Priority[r] = c
                          /\ \A r \in S : c <= Priority[r]
  <2>1. CASE \E r \in S : Priority[r] = 0
    BY <2>1, <1>1
  <2>2. CASE /\ ~ \E r \in S : Priority[r] = 0
             /\ \E r \in S : Priority[r] = 1
    <3>1. \A r \in S : 1 <= Priority[r]
      BY <2>2, <1>1
    <3>. QED  BY <2>2, <3>1
  <2>3. CASE ~ \E r \in S : Priority[r] = 0 \/ Priority[r] = 1
    <3>1. \A r \in S : Priority[r] = 2
      BY <2>3, <1>1
    <3>. QED  BY <3>1
  <2>. QED  BY <2>1, <2>2, <2>3
<1>3. {r \in S : Priority[r] = c} \in SUBSET waiting /\ {r \in S : Priority[r] = c} # {}
  BY <1>2
<1>4. PICK f \in {r \in S : Priority[r] = c} : ahead[f] \cap {r \in S : Priority[r] = c} = {}
  BY <1>3, FrontExists
<1>5. ASSUME NEW s \in S \ {f}
      PROVE  GoesBefore(f, s)
  <2>1. f \in waiting /\ s \in waiting /\ f # s /\ Priority[f] = c
    BY <1>4
  <2>2. CASE Priority[s] = c
    <3>1. s \notin ahead[f]
      BY <1>4, <2>2
    <3>2. f \in ahead[s]
      BY <2>1, <3>1 DEF QueueIsALine
    <3>. QED  BY <2>1, <2>2, <3>2 DEF GoesBefore
  <2>3. CASE Priority[s] # c
    <3>1. c < Priority[s]
      BY <1>1, <1>2, <2>3
    <3>. QED  BY <2>1, <3>1 DEF GoesBefore
  <2>. QED  BY <2>2, <2>3
<1>. QED  BY <1>4, <1>5 DEF First

\* A selection is a waiter that fits, or nobody.
LEMMA SelectedIsQueued ==
  ASSUME TypeOK, QueueIsALine
  PROVE  /\ selected_waiter.ticket \in waiting \cup {NoTicket}
         /\ selected_waiter.ticket # NoTicket => Fits(selected_waiter.ticket)
         /\ selected_waiter.credits \in [Classes -> Nat]
         /\ (selected_waiter.ticket # NoTicket /\ Starved # {})
              => selected_waiter.ticket = Oldest(Starved)
<1>1. /\ Starved \in SUBSET waiting
      /\ Eligible(credits) \in SUBSET waiting
      /\ Eligible(Weights) \in SUBSET waiting
  BY DEF Starved, Eligible
<1>2. NoTicket \notin waiting /\ waiting \subseteq Requests
  BY RequestsAssumption DEF TypeOK
<1>3. credits \in [Classes -> Nat] /\ Weights \in [Classes -> Nat]
  BY WeightsAssumption DEF TypeOK
<1>4. CASE Starved # {}
  <2>1. Oldest(Starved) \in waiting
    BY <1>1, <1>4, OldestIsIn
  <2>2. Spend(credits, Oldest(Starved)) \in [Classes -> Nat]
    BY <1>2, <1>3, <2>1, SpendType
  <2>. QED  BY <1>2, <1>3, <1>4, <2>1, <2>2 DEF selected_waiter, Select
<1>5. CASE Starved = {} /\ Eligible(credits) # {}
  <2>1. First(Eligible(credits)) \in Eligible(credits)
    BY <1>1, <1>5, FirstIsIn
  <2>2. First(Eligible(credits)) \in waiting /\ Fits(First(Eligible(credits)))
    BY <2>1 DEF Eligible
  <2>3. Spend(credits, First(Eligible(credits))) \in [Classes -> Nat]
    BY <1>2, <1>3, <2>2, SpendType
  <2>. QED  BY <1>2, <1>5, <2>2, <2>3 DEF selected_waiter, Select
<1>6. CASE Starved = {} /\ Eligible(credits) = {} /\ Eligible(Weights) # {}
  <2>1. First(Eligible(Weights)) \in Eligible(Weights)
    BY <1>1, <1>6, FirstIsIn
  <2>2. First(Eligible(Weights)) \in waiting /\ Fits(First(Eligible(Weights)))
    BY <2>1 DEF Eligible
  <2>3. Spend(Weights, First(Eligible(Weights))) \in [Classes -> Nat]
    BY <1>2, <1>3, <2>2, SpendType
  <2>. QED  BY <1>2, <1>6, <2>2, <2>3 DEF selected_waiter, Select
<1>7. CASE Starved = {} /\ Eligible(credits) = {} /\ Eligible(Weights) = {}
  BY <1>3, <1>7 DEF selected_waiter
<1>. QED  BY <1>4, <1>5, <1>6, <1>7

-----------------------------------------------------------------------------
(* Who is where *)

Core == TypeOK /\ RegisteredOnce /\ GrantedIsQueued /\ QueueIsALine

LEMMA TurnIsQueued ==
  ASSUME Core
  PROVE  /\ Turn.ticket \in waiting \cup {NoTicket}
         /\ Turn.credits \in [Classes -> Nat]
         /\ Selects => /\ Turn = selected_waiter
                       /\ Turn.ticket \in waiting
                       /\ Fits(Turn.ticket)
         /\ ~ Selects => Turn.ticket = granted
<1>1. /\ selected_waiter.ticket \in waiting \cup {NoTicket}
      /\ selected_waiter.ticket # NoTicket => Fits(selected_waiter.ticket)
      /\ selected_waiter.credits \in [Classes -> Nat]
  BY SelectedIsQueued DEF Core
<1>2. /\ TypeOK
      /\ GrantedIsQueued
  BY DEF Core
<1>3. CASE granted = NoTicket
  BY <1>1, <1>3 DEF Turn, Selects
<1>4. CASE granted # NoTicket
  BY <1>2, <1>4 DEF Turn, Selects, GrantedIsQueued, TypeOK
<1>. QED  BY <1>3, <1>4

\* A request joins at the back: the line stays a line.
LEMMA PushKeepsLine ==
  ASSUME TypeOK, QueueIsALine, NEW r \in Requests, r \notin waiting, Push(r)
  PROVE  /\ QueueIsALine'
         /\ waiting' \in SUBSET Requests
         /\ ahead' \in [Requests -> SUBSET Requests]
         /\ bypass' \in [Requests -> Nat]
<1>1. /\ waiting' \in SUBSET Requests
      /\ ahead' \in [Requests -> SUBSET Requests]
      /\ bypass' \in [Requests -> Nat]
      /\ waiting' = waiting \cup {r}
      /\ ahead'[r] = waiting
      /\ \A s \in Requests \ {r} : ahead'[s] = ahead[s]
  BY DEF Push, TypeOK
<1>2. /\ waiting \subseteq Requests
      /\ \A s \in Requests : ahead[s] \subseteq waiting \ {s}
  BY DEF TypeOK, QueueIsALine
<1>3. \A s \in Requests : ahead'[s] \subseteq waiting' \ {s}
  BY <1>1, <1>2
<1>4. \A s, t \in waiting' : s # t => (s \in ahead'[t] <=> t \notin ahead'[s])
  BY <1>1, <1>2 DEF QueueIsALine
<1>5. \A s, t, u \in waiting' : s \in ahead'[t] /\ t \in ahead'[u] => s \in ahead'[u]
  BY <1>1, <1>2 DEF QueueIsALine
<1>. QED  BY <1>1, <1>3, <1>4, <1>5 DEF QueueIsALine

\* A request leaves from anywhere: the line closes behind it.
LEMMA UnlinkKeepsLine ==
  ASSUME TypeOK, QueueIsALine, NEW r \in Requests,
         NEW counts \in [Requests -> Nat], Unlink(r, counts)
  PROVE  /\ QueueIsALine'
         /\ waiting' \in SUBSET Requests
         /\ ahead' \in [Requests -> SUBSET Requests]
         /\ bypass' \in [Requests -> Nat]
<1>1. /\ waiting' \in SUBSET Requests
      /\ ahead' \in [Requests -> SUBSET Requests]
      /\ bypass' \in [Requests -> Nat]
      /\ waiting' = waiting \ {r}
      /\ ahead'[r] = {}
      /\ \A s \in Requests \ {r} : ahead'[s] = ahead[s] \ {r}
  BY DEF Unlink, TypeOK
<1>2. /\ waiting \subseteq Requests
      /\ \A s \in Requests : ahead[s] \subseteq waiting \ {s}
  BY DEF TypeOK, QueueIsALine
<1>3. \A s \in Requests : ahead'[s] \subseteq waiting' \ {s}
  BY <1>1, <1>2
<1>4. \A s, t \in waiting' : s # t => (s \in ahead'[t] <=> t \notin ahead'[s])
  BY <1>1, <1>2 DEF QueueIsALine
<1>5. \A s, t, u \in waiting' : s \in ahead'[t] /\ t \in ahead'[u] => s \in ahead'[u]
  BY <1>1, <1>2 DEF QueueIsALine
<1>. QED  BY <1>1, <1>3, <1>4, <1>5 DEF QueueIsALine

LEMMA InitCore == Init => Core
<1>. SUFFICES ASSUME Init PROVE Core
  OBVIOUS
<1>1. TypeOK
  BY InitTypeOK
<1>2. RegisteredOnce
  BY DEF Init, RegisteredOnce, InQueue
<1>3. GrantedIsQueued /\ QueueIsALine
  BY DEF Init, GrantedIsQueued, QueueIsALine
<1>. QED  BY <1>1, <1>2, <1>3 DEF Core

LEMMA CoreStep == Core /\ [Next]_vars => Core'
<1>. SUFFICES ASSUME Core, [Next]_vars PROVE Core'
  OBVIOUS
<1>. USE DEF Quiet, Signalling
<1>0. TypeOK /\ RegisteredOnce /\ GrantedIsQueued /\ QueueIsALine
  BY DEF Core
<1>a. \A l \in Quiet \cup Signalling, r \in Requests :
        Goto(r, l) => /\ pc' \in [Requests -> Quiet \cup Signalling]
                      /\ pc'[r] = l
                      /\ \A s \in Requests \ {r} : pc'[s] = pc[s]
  BY <1>0 DEF TypeOK, Goto
<1>b. waiting \subseteq Requests /\ NoTicket \notin Requests
  BY <1>0, RequestsAssumption DEF TypeOK
<1>1. ASSUME NEW r \in Requests, Acquire(r)
      PROVE  Core'
  <2>1. r \notin waiting /\ Push(r) /\ Goto(r, "queued") /\ pc[r] = "idle"
    BY <1>0, <1>1 DEF Acquire, RegisteredOnce, InQueue
  <2>2. /\ QueueIsALine'
        /\ waiting' \in SUBSET Requests
        /\ ahead' \in [Requests -> SUBSET Requests]
        /\ bypass' \in [Requests -> Nat]
    BY <1>0, <2>1, PushKeepsLine
  <2>3. TypeOK'
    BY <1>0, <1>1, <1>a, <2>1, <2>2 DEF Acquire, TypeOK
  <2>4. RegisteredOnce'
    BY <1>0, <1>1, <1>a, <2>1 DEF Acquire, Push, RegisteredOnce, InQueue
  <2>5. GrantedIsQueued'
    BY <1>0, <1>1 DEF Acquire, Push, GrantedIsQueued
  <2>. QED  BY <2>2, <2>3, <2>4, <2>5 DEF Core
<1>2. ASSUME NEW r \in Requests, Enable(r)
      PROVE  Core'
  <2>1. TypeOK'
    BY <1>0, <1>2, <1>a DEF Enable, TypeOK
  <2>2. RegisteredOnce'
    BY <1>0, <1>2, <1>a DEF Enable, RegisteredOnce, InQueue
  <2>3. GrantedIsQueued' /\ QueueIsALine'
    BY <1>0, <1>2 DEF Enable, GrantedIsQueued, QueueIsALine
  <2>. QED  BY <2>1, <2>2, <2>3 DEF Core
<1>3. ASSUME NEW r \in Requests, Claim(r)
      PROVE  Core'
  <2>. DEFINE counts == IF Selects THEN record_capacity_bypasses ELSE bypass
  <2>1. counts \in [Requests -> Nat]
    BY <1>0, BypassType DEF TypeOK
  <2>2. Unlink(r, counts) /\ Goto(r, "claimed") /\ pc[r] = "armed"
    BY <1>3 DEF Claim
  <2>3. /\ QueueIsALine'
        /\ waiting' \in SUBSET Requests
        /\ ahead' \in [Requests -> SUBSET Requests]
        /\ bypass' \in [Requests -> Nat]
    <3>. HIDE DEF counts
    <3>. QED  BY <1>0, <2>1, <2>2, UnlinkKeepsLine
  <2>4. credits' \in [Classes -> Nat]
    BY <1>3, TurnIsQueued DEF Claim
  <2>5. charge(r) \in Nat /\ charge(r) > 0
    BY <1>0, ChargeType DEF TypeOK
  <2>6. active' \in Nat /\ units' \in [Requests -> Nat]
    BY <1>0, <1>3, <2>5 DEF Claim, TypeOK
  <2>7. TypeOK'
    BY <1>0, <1>3, <1>a, <2>2, <2>3, <2>4, <2>6 DEF Claim, TypeOK
  <2>8. waiting' = waiting \ {r}
    BY <2>2 DEF Unlink
  <2>9. /\ units'[r] > 0
        /\ \A s \in Requests \ {r} : units'[s] = units[s]
        /\ resourceWaiting' = resourceWaiting
    BY <1>0, <1>3, <2>5 DEF Claim, TypeOK
  <2>10. RegisteredOnce'
    BY <1>0, <1>a, <2>2, <2>8, <2>9 DEF RegisteredOnce, InQueue
  <2>11. GrantedIsQueued'
    BY <1>3 DEF Claim, GrantedIsQueued
  <2>. QED  BY <2>3, <2>7, <2>10, <2>11 DEF Core
<1>4. ASSUME NEW r \in Requests, Defer(r)
      PROVE  Core'
  <2>1. /\ granted' \in waiting \cup {NoTicket}
        /\ credits' \in [Classes -> Nat]
    BY <1>4, TurnIsQueued DEF Defer
  <2>2. bypass' \in [Requests -> Nat]
    BY <1>0, <1>4, BypassType DEF Defer, TypeOK
  <2>3. /\ pc[r] = "armed"
        /\ Goto(r, "picked") \/ Goto(r, "asleep")
    BY <1>4 DEF Defer
  <2>4. TypeOK'
    BY <1>0, <1>4, <1>a, <1>b, <2>1, <2>2, <2>3 DEF Defer, TypeOK
  <2>5. RegisteredOnce'
    BY <1>0, <1>4, <1>a, <2>3 DEF Defer, RegisteredOnce, InQueue
  <2>6. GrantedIsQueued' /\ QueueIsALine'
    BY <1>0, <1>4, <2>1 DEF Defer, GrantedIsQueued, QueueIsALine
  <2>. QED  BY <2>4, <2>5, <2>6 DEF Core
<1>5. ASSUME NEW r \in Requests, Wake(r) \/ Abandon(r)
      PROVE  Core'
  <2>1. TypeOK'
    BY <1>0, <1>5, <1>a DEF Wake, Abandon, TypeOK
  <2>2. RegisteredOnce'
    BY <1>0, <1>5, <1>a DEF Wake, Abandon, RegisteredOnce, InQueue
  <2>3. GrantedIsQueued' /\ QueueIsALine'
    BY <1>0, <1>5 DEF Wake, Abandon, GrantedIsQueued, QueueIsALine
  <2>. QED  BY <2>1, <2>2, <2>3 DEF Core
<1>6. ASSUME NEW r \in Requests, Leave(r)
      PROVE  Core'
  <2>1. Unlink(r, bypass) /\ Goto(r, "left") /\ pc[r] = "leaving"
    BY <1>6 DEF Leave
  <2>2. /\ QueueIsALine'
        /\ waiting' \in SUBSET Requests
        /\ ahead' \in [Requests -> SUBSET Requests]
        /\ bypass' \in [Requests -> Nat]
    BY <1>0, <2>1, UnlinkKeepsLine DEF TypeOK
  <2>3. waiting' = waiting \ {r}
    BY <2>1 DEF Unlink
  <2>4. TypeOK'
    BY <1>0, <1>6, <1>a, <2>1, <2>2 DEF Leave, TypeOK
  <2>5. RegisteredOnce'
    BY <1>0, <1>6, <1>a, <2>1, <2>3 DEF Leave, RegisteredOnce, InQueue
  <2>6. GrantedIsQueued'
    BY <1>0, <1>6, <2>3 DEF Leave, GrantedIsQueued
  <2>. QED  BY <2>2, <2>4, <2>5, <2>6 DEF Core
<1>7. ASSUME NEW r \in Requests, Release(r) \/ Yield(r)
      PROVE  Core'
  <2>1. GiveBack(r) /\ (Goto(r, "released") \/ Goto(r, "yielded"))
    BY <1>7 DEF Release, Yield
  <2>2. /\ active' \in Nat
        /\ units' \in [Requests -> Nat]
        /\ units'[r] = 0
        /\ \A s \in Requests \ {r} : units'[s] = units[s]
    BY <1>0, <2>1 DEF GiveBack, TypeOK
  <2>3. TypeOK'
    BY <1>0, <1>7, <1>a, <2>1, <2>2 DEF Release, Yield, TypeOK
  <2>4. RegisteredOnce'
    BY <1>0, <1>7, <1>a, <2>2 DEF Release, Yield, RegisteredOnce, InQueue
  <2>5. GrantedIsQueued' /\ QueueIsALine'
    BY <1>0, <1>7 DEF Release, Yield, GrantedIsQueued, QueueIsALine
  <2>. QED  BY <2>3, <2>4, <2>5 DEF Core
<1>8. ASSUME NEW r \in Requests, RegisterResourceWait(r) \/ DropResourceWait(r)
      PROVE  Core'
  <2>1. TypeOK'
    BY <1>0, <1>8, <1>a DEF RegisterResourceWait, DropResourceWait, TypeOK
  <2>2. RegisteredOnce'
    BY <1>0, <1>8, <1>a
    DEF RegisterResourceWait, DropResourceWait, RegisteredOnce, InQueue
  <2>3. GrantedIsQueued' /\ QueueIsALine'
    BY <1>0, <1>8
    DEF RegisterResourceWait, DropResourceWait, GrantedIsQueued, QueueIsALine
  <2>. QED  BY <2>1, <2>2, <2>3 DEF Core
<1>9. ASSUME NEW r \in Requests, Requeue(r)
      PROVE  Core'
  <2>1. r \notin waiting /\ Push(r) /\ Goto(r, "queued") /\ pc[r] = "resource"
    BY <1>0, <1>9 DEF Requeue, RegisteredOnce, InQueue
  <2>2. /\ QueueIsALine'
        /\ waiting' \in SUBSET Requests
        /\ ahead' \in [Requests -> SUBSET Requests]
        /\ bypass' \in [Requests -> Nat]
    BY <1>0, <2>1, PushKeepsLine
  <2>3. TypeOK'
    BY <1>0, <1>9, <1>a, <2>1, <2>2 DEF Requeue, TypeOK
  <2>4. RegisteredOnce'
    BY <1>0, <1>9, <1>a, <2>1 DEF Requeue, Push, RegisteredOnce, InQueue
  <2>5. GrantedIsQueued'
    BY <1>0, <1>9 DEF Requeue, Push, GrantedIsQueued
  <2>. QED  BY <2>2, <2>3, <2>4, <2>5 DEF Core
<1>10. ASSUME NEW r \in Requests, Notify(r)
       PROVE  Core'
  <2>1. Goto(r, After[pc[r]]) /\ After[pc[r]] \in Quiet
    BY <1>10 DEF Notify, After
  <2>2. TypeOK'
    BY <1>0, <1>10, <1>a, <2>1 DEF Notify, TypeOK
  <2>3. RegisteredOnce'
    BY <1>0, <1>10, <1>a, <2>1 DEF Notify, RegisteredOnce, InQueue, After
  <2>4. GrantedIsQueued' /\ QueueIsALine'
    BY <1>0, <1>10 DEF Notify, GrantedIsQueued, QueueIsALine
  <2>. QED  BY <2>2, <2>3, <2>4 DEF Core
<1>11. CASE Reconfigure \/ NotifyResized
  <2>1. /\ ceiling' \in Nat \ {0}
        /\ limit' \in 1 .. ceiling'
        /\ maxWaiters' \in Nat \ {0}
    BY <1>0, <1>11, SettingsAssumption
    DEF Reconfigure, NotifyResized, set_ceiling, set_limit, set_max_waiters, Resized,
        Least, AtLeastOne, TypeOK
  <2>2. /\ UNCHANGED <<active, waiting, ahead, bypass, resourceWaiting, credits,
                       granted, units, pc>>
        /\ armed' \in SUBSET Requests
        /\ reloading' \in BOOLEAN
    BY <1>0, <1>11
    DEF Reconfigure, NotifyResized, set_ceiling, set_limit, set_max_waiters, Resized, TypeOK
  <2>3. TypeOK'
    BY <1>0, <2>1, <2>2 DEF TypeOK
  <2>4. RegisteredOnce' /\ GrantedIsQueued' /\ QueueIsALine'
    BY <1>0, <2>2 DEF RegisteredOnce, GrantedIsQueued, QueueIsALine
  <2>. QED  BY <2>3, <2>4 DEF Core
<1>12. CASE UNCHANGED vars
  BY <1>0, <1>12
  DEF vars, Core, TypeOK, RegisteredOnce, GrantedIsQueued, QueueIsALine
<1>. QED
  BY <1>1, <1>2, <1>3, <1>4, <1>5, <1>6, <1>7, <1>8, <1>9, <1>10, <1>11, <1>12 DEF Next

LEMMA CoreHolds == Spec => []Core
  BY InitCore, CoreStep, PTL DEF Spec

\* The types, for every instance.
THEOREM TypeCorrect == Spec => []TypeOK
  BY CoreHolds, PTL DEF Core

\* A request is registered in exactly the place its control state calls for.
THEOREM OnePlace == Spec => []RegisteredOnce
  BY CoreHolds, PTL DEF Core

\* `granted admission waiter must remain queued`: the expect of
\* admission.rs:451 never fires.
THEOREM GrantStaysQueued == Spec => []GrantedIsQueued
  BY CoreHolds, PTL DEF Core

-----------------------------------------------------------------------------
(* Wakeups *)

\* A poll that selects nobody leaves the pool in a state where nobody would be
\* selected, although it may have started a new round of credits.
LEMMA NobodyStaysNobody ==
  ASSUME Core, selected_waiter.ticket = NoTicket, credits' = selected_waiter.credits,
         UNCHANGED <<active, limit, waiting, ahead, bypass>>
  PROVE  selected_waiter'.ticket = NoTicket
<1>1. /\ Starved \in SUBSET waiting
      /\ Eligible(credits) \in SUBSET waiting
      /\ Eligible(Weights) \in SUBSET waiting
      /\ NoTicket \notin waiting
      /\ TypeOK /\ QueueIsALine
  BY RequestsAssumption DEF Starved, Eligible, Core, TypeOK
<1>2. /\ Starved' = Starved
      /\ Oldest(Starved)' = Oldest(Starved)
      /\ \A r : Fits(r)' = Fits(r)
  BY DEF Starved, Oldest, Fits, charge, free
<1>3. CASE Starved # {}
  <2>1. Oldest(Starved) \in waiting
    BY <1>1, <1>3, OldestIsIn
  <2>2. ~ Fits(Oldest(Starved)) /\ credits' = credits
    BY <1>1, <1>3, <2>1 DEF selected_waiter, Select
  <2>3. ~ Fits(Oldest(Starved))'
    BY <1>2, <2>2 DEF Fits, charge, free
  <2>. QED  BY <1>2, <1>3, <2>3 DEF selected_waiter
<1>4. CASE Starved = {}
  <2>1. Eligible(credits) = {}
    BY <1>1, <1>4, FirstIsIn DEF selected_waiter, Select
  <2>2. Eligible(Weights) = {}
    BY <1>1, <1>4, <2>1, FirstIsIn DEF selected_waiter, Select
  <2>3. credits' = Weights
    BY <1>4, <2>1, <2>2 DEF selected_waiter
  <2>4. Eligible(Weights)' = {} /\ Eligible(credits)' = {}
    BY <2>2, <2>3 DEF Eligible, Fits, charge, free
  <2>. QED  BY <1>2, <1>4, <2>4 DEF selected_waiter
<1>. QED  BY <1>3, <1>4

LEMMA InitWakeup == Init => NoLostWakeup
  BY DEF Init, NoLostWakeup, selected_waiter, Starved, Eligible

LEMMA WakeupStep == Core /\ NoLostWakeup /\ [Next]_vars => NoLostWakeup'
<1>. SUFFICES ASSUME Core, NoLostWakeup, [Next]_vars PROVE NoLostWakeup'
  OBVIOUS
<1>0. TypeOK /\ RegisteredOnce /\ GrantedIsQueued
  BY DEF Core
<1>a. ASSUME NEW r \in Requests, NEW l \in Quiet \cup Signalling, Goto(r, l)
      PROVE  /\ pc'[r] = l
             /\ \A s \in Requests \ {r} : pc'[s] = pc[s]
  BY <1>0, <1>a DEF TypeOK, Goto
<1>b. /\ waiting \subseteq Requests
      /\ NoTicket \notin Requests
      /\ selected_waiter.ticket \in waiting \cup {NoTicket}
  BY <1>0, RequestsAssumption, SelectedIsQueued DEF TypeOK, Core
<1>1. ASSUME NEW r \in Requests, NEW l \in Signalling, Goto(r, l)
      PROVE  NoLostWakeup'
  BY <1>1, <1>a DEF NoLostWakeup, SignalPending
<1>2. ASSUME reloading'
      PROVE  NoLostWakeup'
  BY <1>2 DEF NoLostWakeup, SignalPending
\* r moves, still in the queue and awake, and nothing else changes.
<1>3. ASSUME NEW r \in Requests, Enable(r) \/ Wake(r) \/ Abandon(r)
      PROVE  NoLostWakeup'
  <2>1. /\ pc[r] \in {"loop", "asleep", "armed"}
        /\ pc'[r] \in {"loop", "armed", "leaving"}
        /\ \A s \in Requests \ {r} : pc'[s] = pc[s] /\ (s \in armed' <=> s \in armed)
        /\ UNCHANGED <<active, limit, waiting, ahead, bypass, credits, granted, reloading>>
    BY <1>3, <1>a DEF Enable, Wake, Abandon, Quiet
  <2>2. r \in waiting
    BY <1>0, <2>1 DEF RegisteredOnce, InQueue
  <2>3. SignalPending' <=> SignalPending
    BY <2>1 DEF SignalPending, Signalling
  <2>4. /\ ~ Dormant(r)'
        /\ \A s \in Requests \ {r} : Dormant(s)' <=> Dormant(s)
    BY <2>1 DEF Dormant
  <2>5. \A s \in Requests : Fits(s)' <=> Fits(s)
    BY <2>1 DEF Fits, charge, free
  <2>6. ~ SignalPending' /\ granted' # NoTicket /\ Fits(granted)' => ~ Dormant(granted)'
    BY <1>0, <2>1, <2>3, <2>4, <2>5 DEF NoLostWakeup, TypeOK, Dormant, Fits, charge, free
  <2>7. \E s \in waiting' : ~ Dormant(s)'
    BY <2>1, <2>2, <2>4
  <2>. QED  BY <2>6, <2>7 DEF NoLostWakeup
<1>4. ASSUME NEW r \in Requests, Defer(r), ~ Selects
      PROVE  NoLostWakeup'
  <2>1. /\ Turn.ticket = granted
        /\ granted' = granted
        /\ UNCHANGED <<active, limit, waiting, ahead, bypass, armed, reloading>>
        /\ Goto(r, "asleep")
        /\ pc[r] = "armed"
        /\ ~ (granted = r /\ Fits(r))
        /\ credits' = Turn.credits
    BY <1>4, TurnIsQueued DEF Defer
  <2>2. SignalPending' <=> SignalPending
    BY <1>a, <2>1 DEF SignalPending, Signalling, Quiet
  <2>3. CASE granted = NoTicket
    <3>1. selected_waiter.ticket = NoTicket /\ credits' = selected_waiter.credits
      BY <1>4, <2>1, <2>3 DEF Selects, Turn
    <3>2. selected_waiter'.ticket = NoTicket
      BY <2>1, <3>1, NobodyStaysNobody
    <3>. QED  BY <2>1, <2>3, <3>2 DEF NoLostWakeup
  <2>4. CASE granted # NoTicket
    <3>1. Fits(granted)' <=> Fits(granted)
      BY <2>1 DEF Fits, charge, free
    <3>2. granted # r => (Dormant(granted)' <=> Dormant(granted))
      BY <1>0, <1>a, <2>1, <2>4 DEF Dormant, TypeOK, Quiet
    <3>. QED  BY <2>1, <2>2, <2>4, <3>1, <3>2 DEF NoLostWakeup
  <2>. QED  BY <2>3, <2>4
<1>5. ASSUME NEW r \in Requests, RegisterResourceWait(r)
      PROVE  NoLostWakeup'
  <2>1. /\ Goto(r, "yielding") /\ pc[r] = "holding" /\ r \notin waiting
        /\ UNCHANGED <<active, limit, waiting, ahead, bypass, credits, granted, armed,
                       reloading>>
    BY <1>0, <1>5 DEF RegisterResourceWait, RegisteredOnce, InQueue
  <2>2. SignalPending' <=> SignalPending
    BY <1>a, <2>1 DEF SignalPending, Signalling, Quiet
  <2>3. \A s \in waiting : Dormant(s)' <=> Dormant(s)
    BY <1>a, <1>b, <2>1 DEF Dormant, Quiet
  <2>4. /\ Fits(granted)' <=> Fits(granted)
        /\ Dormant(granted)' <=> Dormant(granted)
    BY <1>0, <1>a, <2>1 DEF Fits, charge, free, Dormant, TypeOK, Quiet, RegisteredOnce,
       GrantedIsQueued, InQueue
  <2>5. selected_waiter' = selected_waiter
    BY <2>1 DEF selected_waiter, Starved, Eligible, Select, Spend, Oldest, First,
       GoesBefore, Fits, charge, free
  <2>. QED  BY <2>1, <2>2, <2>3, <2>4, <2>5 DEF NoLostWakeup
\* Everything armed fires: nobody is dormant.
<1>6. ASSUME armed' = {},
             UNCHANGED <<active, limit, waiting, ahead, bypass, credits, granted>>
      PROVE  NoLostWakeup'
  <2>1. selected_waiter' = selected_waiter
    BY <1>6 DEF selected_waiter, Starved, Eligible, Select, Spend, Oldest, First,
       GoesBefore, Fits, charge, free
  <2>2. \A s : ~ Dormant(s)'
    BY <1>6 DEF Dormant
  <2>. QED  BY <1>6, <1>b, <2>1, <2>2 DEF NoLostWakeup
<1>7. ASSUME NEW q \in QueueLimits, set_max_waiters(q)
      PROVE  NoLostWakeup'
  <2>1. UNCHANGED <<active, limit, waiting, ahead, bypass, credits, granted, armed,
                    reloading, pc>>
    BY <1>7 DEF set_max_waiters
  <2>. QED
    BY <2>1 DEF NoLostWakeup, SignalPending, Dormant, selected_waiter, Starved, Eligible,
       Select, Spend, Oldest, First, GoesBefore, Fits, charge, free
<1>8. CASE UNCHANGED vars
  BY <1>8 DEF vars, NoLostWakeup, SignalPending, Dormant, selected_waiter, Starved,
     Eligible, Select, Spend, Oldest, First, GoesBefore, Fits, charge, free
<1>9. ASSUME NEW r \in Requests,
             \/ Acquire(r) \/ Claim(r) \/ Leave(r) \/ Release(r) \/ Yield(r)
             \/ Requeue(r) \/ DropResourceWait(r) \/ (Defer(r) /\ Selects)
      PROVE  NoLostWakeup'
  <2>1. \E l \in Signalling : Goto(r, l)
    BY <1>9 DEF Acquire, Claim, Leave, Release, Yield, Requeue, DropResourceWait, Defer,
       Signalling
  <2>. QED  BY <1>1, <2>1
<1>10. ASSUME NEW r \in Requests, Notify(r)
       PROVE  NoLostWakeup'
  BY <1>6, <1>10 DEF Notify
<1>11. CASE Reconfigure \/ NotifyResized
  BY <1>2, <1>6, <1>7, <1>11 DEF Reconfigure, NotifyResized, set_ceiling, set_limit, Resized
<1>. QED
  BY <1>3, <1>4, <1>5, <1>8, <1>9, <1>10, <1>11 DEF Next

\* No reachable state has every waiter asleep while capacity somebody could
\* take is free and no notification is on its way: arming the Notified future
\* before taking the lock, and notifying after every change, is enough.
THEOREM WakeupsAreNotLost == Spec => []NoLostWakeup
<1>1. Core /\ NoLostWakeup /\ [Next]_vars => (Core /\ NoLostWakeup)'
  BY CoreStep, WakeupStep
<1>2. Init => Core /\ NoLostWakeup
  BY InitCore, InitWakeup
<1>. QED  BY <1>1, <1>2, PTL DEF Spec

-----------------------------------------------------------------------------
(* Accounting *)

LEMMA UnitBlock ==
  ASSUME NEW r, NEW n \in Nat
  PROVE  /\ IsFiniteSet({r} \X (1 .. n))
         /\ Cardinality({r} \X (1 .. n)) = n
<1>1. IsFiniteSet({r}) /\ Cardinality({r}) = 1
  BY FS_Singleton
<1>2. IsFiniteSet(1 .. n) /\ Cardinality(1 .. n) = n
  BY FS_Interval
<1>3. \A S, T : IsFiniteSet(S) /\ IsFiniteSet(T) =>
        IsFiniteSet(S \X T) /\ Cardinality(S \X T) = Cardinality(S) * Cardinality(T)
  BY FS_Product
<1>4. /\ IsFiniteSet({r} \X (1 .. n))
      /\ Cardinality({r} \X (1 .. n)) = Cardinality({r}) * Cardinality(1 .. n)
  BY <1>1, <1>2, <1>3, ZenonT(60)
<1>. QED  BY <1>1, <1>2, <1>4

Accounted == IsFiniteSet(HeldUnits) /\ UnitsAccounted

LEMMA InitAccounted == Init => Accounted
<1>. SUFFICES ASSUME Init PROVE Accounted
  OBVIOUS
<1>1. HeldUnits = {}
  BY DEF Init, HeldUnits
<1>. QED  BY <1>1, FS_EmptySet DEF Init, Accounted, UnitsAccounted

\* What a release gives back is part of what is charged.
LEMMA GiveBackKeepsAccount ==
  ASSUME TypeOK, Accounted, NEW r \in Requests, GiveBack(r)
  PROVE  Accounted' /\ active' = active - units[r] /\ units[r] <= active
<1>. DEFINE block == {r} \X (1 .. units[r])
<1>1. IsFiniteSet(block) /\ Cardinality(block) = units[r]
  BY UnitBlock DEF TypeOK
<1>2. block \subseteq HeldUnits
  BY DEF HeldUnits
<1>3. HeldUnits' = HeldUnits \ block
  BY DEF HeldUnits, GiveBack, TypeOK
<1>4. /\ IsFiniteSet(HeldUnits \ block)
      /\ Cardinality(HeldUnits \ block) = Cardinality(HeldUnits) - Cardinality(HeldUnits \cap block)
  BY FS_Difference DEF Accounted
<1>5. HeldUnits \cap block = block
  BY <1>2
<1>6. Cardinality(block) <= Cardinality(HeldUnits)
  BY <1>2, FS_Subset DEF Accounted
<1>7. active \in Nat /\ units[r] \in Nat /\ active = Cardinality(HeldUnits)
  BY DEF TypeOK, Accounted, UnitsAccounted
<1>8. units[r] <= active /\ active' = active - units[r]
  BY <1>1, <1>6, <1>7 DEF GiveBack
<1>9. active' = Cardinality(HeldUnits')
  BY <1>1, <1>3, <1>4, <1>5, <1>7, <1>8
<1>. QED  BY <1>3, <1>4, <1>8, <1>9 DEF Accounted, UnitsAccounted

LEMMA ClaimKeepsAccount ==
  ASSUME Core, Accounted, NEW r \in Requests, Claim(r)
  PROVE  Accounted'
<1>. DEFINE block == {r} \X (1 .. charge(r))
<1>0. charge(r) \in Nat
  BY ChargeType DEF Core, TypeOK
<1>1. IsFiniteSet(block) /\ Cardinality(block) = charge(r)
  BY <1>0, UnitBlock
<1>2. units \in [Requests -> Nat] /\ units[r] = 0
  BY DEF Core, TypeOK, RegisteredOnce, Claim
<1>3. /\ units' = [units EXCEPT ![r] = charge(r)]
      /\ active' = active + charge(r)
  BY DEF Claim
<1>4. HeldUnits' = HeldUnits \cup block /\ HeldUnits \cap block = {}
  <2>1. \A s \in Requests : units'[s] = IF s = r THEN charge(r) ELSE units[s]
    BY <1>2, <1>3
  <2>. QED  BY <1>2, <2>1 DEF HeldUnits
<1>5. /\ IsFiniteSet(HeldUnits \cup block)
      /\ Cardinality(HeldUnits \cup block)
           = Cardinality(HeldUnits) + Cardinality(block) - Cardinality(HeldUnits \cap block)
  BY <1>1, FS_Union DEF Accounted
<1>6. Cardinality(HeldUnits \cap block) = 0
  BY <1>4, FS_EmptySet
<1>7. active \in Nat /\ active = Cardinality(HeldUnits)
  BY DEF Core, TypeOK, Accounted, UnitsAccounted
<1>8. active' = Cardinality(HeldUnits')
  BY <1>0, <1>1, <1>3, <1>4, <1>5, <1>6, <1>7
<1>. QED  BY <1>4, <1>5, <1>8 DEF Accounted, UnitsAccounted

LEMMA AccountStep == Core /\ Accounted /\ [Next]_vars => Accounted'
<1>. SUFFICES ASSUME Core, Accounted, [Next]_vars PROVE Accounted'
  OBVIOUS
<1>1. ASSUME NEW r \in Requests, Claim(r)
      PROVE  Accounted'
  BY <1>1, ClaimKeepsAccount
<1>2. ASSUME NEW r \in Requests, Release(r) \/ Yield(r)
      PROVE  Accounted'
  BY <1>2, GiveBackKeepsAccount DEF Core, Release, Yield
<1>3. ASSUME UNCHANGED <<active, units>>
      PROVE  Accounted'
  BY <1>3 DEF Accounted, UnitsAccounted, HeldUnits
<1>4. ASSUME NEW r \in Requests,
             \/ Acquire(r) \/ Enable(r) \/ Defer(r) \/ Wake(r) \/ Abandon(r) \/ Leave(r)
             \/ Notify(r) \/ RegisterResourceWait(r) \/ Requeue(r) \/ DropResourceWait(r)
      PROVE  Accounted'
  BY <1>3, <1>4 DEF Acquire, Enable, Defer, Wake, Abandon, Leave, Notify,
     RegisterResourceWait, Requeue, DropResourceWait
<1>5. CASE Reconfigure \/ NotifyResized \/ UNCHANGED vars
  BY <1>3, <1>5 DEF Reconfigure, NotifyResized, set_ceiling, set_limit, set_max_waiters,
     Resized, vars
<1>. QED  BY <1>1, <1>2, <1>4, <1>5 DEF Next

LEMMA AccountHolds == Spec => [](Core /\ Accounted)
<1>1. Core /\ Accounted /\ [Next]_vars => (Core /\ Accounted)'
  BY CoreStep, AccountStep
<1>2. Init => Core /\ Accounted
  BY InitCore, InitAccounted
<1>. QED  BY <1>1, <1>2, PTL DEF Spec

\* The pool charges exactly the units its permits hold.
THEOREM UnitsAreAccounted == Spec => []UnitsAccounted
<1>1. Core /\ Accounted => UnitsAccounted
  BY DEF Accounted
<1>. QED  BY <1>1, AccountHolds, PTL

-----------------------------------------------------------------------------
(* Refinement *)

LEMMA InitRefines == Init => Pool!PoolInit
<1>. SUFFICES ASSUME Init PROVE Pool!PoolInit
  OBVIOUS
<1>1. limit \in Nat \ {0}
  BY InitTypeOK DEF TypeOK
<1>. QED  BY <1>1 DEF Init, Pool!PoolInit

LEMMA StepRefines ==
  Core /\ Core' /\ Accounted /\ [Next]_vars => [Pool!PoolNext]_(Pool!pvars)
<1>. SUFFICES ASSUME Core, Core', Accounted, [Next]_vars
              PROVE  Pool!PoolNext \/ UNCHANGED <<waiting, units, active, limit, ceiling>>
  BY DEF Pool!pvars
<1>0. TypeOK /\ RegisteredOnce /\ TypeOK'
  BY DEF Core
<1>1. ASSUME NEW r \in Requests, Acquire(r) \/ Requeue(r)
      PROVE  Pool!Ask(r)
  <2>1. r \notin waiting /\ units[r] = 0
    BY <1>0, <1>1 DEF Acquire, Requeue, RegisteredOnce, InQueue, TypeOK
  <2>. QED  BY <1>1, <2>1 DEF Acquire, Requeue, Push, Pool!Ask
<1>2. ASSUME NEW r \in Requests, Claim(r)
      PROVE  Pool!Enter(r)
  <2>1. /\ charge(r) = Pool!Due(r, limit)
        /\ charge(r) \in 1 .. limit
    BY <1>0, ChargeType DEF charge, Least, AtLeastOne, Pool!Due
  <2>2. active + charge(r) <= limit
    BY <1>0, <1>2, <2>1 DEF Claim, Fits, free, TypeOK
  <2>3. r \in waiting
    BY <1>0, <1>2 DEF Claim, RegisteredOnce, InQueue
  <2>. QED  BY <1>2, <2>1, <2>2, <2>3 DEF Claim, Unlink, Pool!Enter
<1>3. ASSUME NEW r \in Requests, Leave(r)
      PROVE  Pool!GiveUp(r)
  <2>1. r \in waiting
    BY <1>0, <1>3 DEF Leave, RegisteredOnce, InQueue
  <2>. QED  BY <1>3, <2>1 DEF Leave, Unlink, Pool!GiveUp
<1>4. ASSUME NEW r \in Requests, Release(r) \/ Yield(r)
      PROVE  Pool!Exit(r)
  <2>1. units[r] > 0
    BY <1>0, <1>4 DEF Release, Yield, RegisteredOnce
  <2>2. GiveBack(r) /\ UNCHANGED <<waiting, limit, ceiling>>
    BY <1>4 DEF Release, Yield
  <2>3. active' = active - units[r]
    BY <1>0, <2>2, GiveBackKeepsAccount
  <2>. QED  BY <2>1, <2>2, <2>3 DEF GiveBack, Pool!Exit
<1>5. ASSUME NEW r \in Requests,
             \/ Enable(r) \/ Defer(r) \/ Wake(r) \/ Abandon(r) \/ Notify(r)
             \/ RegisterResourceWait(r) \/ DropResourceWait(r)
      PROVE  UNCHANGED <<waiting, units, active, limit, ceiling>>
  BY <1>5 DEF Enable, Defer, Wake, Abandon, Notify, RegisterResourceWait, DropResourceWait
<1>6. CASE Reconfigure \/ NotifyResized
  <2>1. UNCHANGED <<waiting, units, active>>
    BY <1>6 DEF Reconfigure, NotifyResized, set_ceiling, set_limit, set_max_waiters, Resized
  <2>2. Pool!Resize
    BY <1>0, <2>1 DEF TypeOK, Pool!Resize
  <2>. QED  BY <2>2 DEF Pool!PoolNext
<1>7. CASE UNCHANGED vars
  BY <1>7 DEF vars
<1>. QED
  BY <1>1, <1>2, <1>3, <1>4, <1>5, <1>6, <1>7 DEF Next, Pool!PoolNext

\* Queue, credits, grants and wakeups implement a plain weighted semaphore.
THEOREM Refinement == Spec => ImplementsSlotPool
<1>1. Init => Pool!PoolInit
  BY InitRefines
<1>2. Core /\ Core' /\ Accounted /\ [Next]_vars => [Pool!PoolNext]_(Pool!pvars)
  BY StepRefines
<1>. QED  BY <1>1, <1>2, AccountHolds, PTL DEF Spec, ImplementsSlotPool, Pool!PoolSpec

-----------------------------------------------------------------------------
(* The bound on bypasses *)

Bound == MaxBypasses + Cardinality(Requests) - 1

LEMMA AheadIsShort ==
  ASSUME TypeOK, QueueIsALine, NEW r \in Requests, NEW S \in SUBSET (ahead[r])
  PROVE  /\ IsFiniteSet(S)
         /\ Cardinality(S) \in Nat
         /\ Cardinality(S) <= Cardinality(ahead[r])
         /\ Cardinality(S) <= Cardinality(Requests) - 1
         /\ Cardinality(Requests) \in Nat
<1>1. ahead[r] \subseteq Requests \ {r}
  BY DEF TypeOK, QueueIsALine
<1>2. /\ IsFiniteSet(Requests \ {r})
      /\ Cardinality(Requests \ {r}) = Cardinality(Requests) - 1
  BY RequestsAssumption, FS_RemoveElement
<1>3. IsFiniteSet(ahead[r]) /\ Cardinality(ahead[r]) <= Cardinality(Requests) - 1
  BY <1>1, <1>2, FS_Subset
<1>4. IsFiniteSet(S) /\ Cardinality(S) <= Cardinality(ahead[r])
  BY <1>3, FS_Subset
<1>5. Cardinality(S) \in Nat /\ Cardinality(ahead[r]) \in Nat /\ Cardinality(Requests) \in Nat
  BY <1>3, <1>4, RequestsAssumption, FS_CardinalityType
<1>. QED  BY <1>3, <1>4, <1>5

\* A selection passes a waiter below the bound, or takes somebody from in
\* front of it.
LEMMA SelectionKeepsBound ==
  ASSUME Core, BypassBound, Selects, NEW s \in waiting, s # Turn.ticket
  PROVE  record_capacity_bypasses[s] + Cardinality(ahead[s] \ {Turn.ticket}) <= Bound
<1>. DEFINE o == Turn.ticket
<1>0. /\ TypeOK /\ QueueIsALine
      /\ s \in Requests
      /\ o \in waiting
      /\ granted = NoTicket
      /\ NoTicket \notin Requests
      /\ MaxBypasses \in Nat
      /\ bypass[s] \in Nat
  BY TurnIsQueued, RequestsAssumption, BypassAssumption DEF Core, TypeOK, Selects
<1>1. /\ Cardinality(ahead[s] \ {o}) \in Nat
      /\ Cardinality(ahead[s] \ {o}) <= Cardinality(ahead[s])
      /\ Cardinality(ahead[s] \ {o}) <= Cardinality(Requests) - 1
      /\ Cardinality(ahead[s]) \in Nat
      /\ Cardinality(Requests) \in Nat
      /\ IsFiniteSet(ahead[s])
  BY <1>0, AheadIsShort
<1>2. ahead[s] \ {granted} = ahead[s]
  BY <1>0 DEF TypeOK
<1>3. bypass[s] + Cardinality(ahead[s]) <= Bound
  BY <1>2 DEF BypassBound, Bound
<1>4. record_capacity_bypasses[s] \in {bypass[s], bypass[s] + 1}
  BY <1>0 DEF record_capacity_bypasses
<1>5. CASE record_capacity_bypasses[s] = bypass[s]
  BY <1>0, <1>1, <1>3, <1>5 DEF Bound
<1>6. CASE bypass[s] < MaxBypasses
  BY <1>0, <1>1, <1>4, <1>6 DEF Bound
<1>7. CASE bypass[s] >= MaxBypasses
  <2>1. s \in Starved
    BY <1>7 DEF Starved
  <2>2. Starved \in SUBSET waiting
    BY DEF Starved
  <2>3. o = Oldest(Starved)
    BY <1>0, <2>1, SelectedIsQueued, TurnIsQueued DEF Selects
  <2>4. o \in Starved /\ s \notin ahead[o]
    BY <1>0, <2>1, <2>2, <2>3, OldestIsIn
  <2>5. o \in ahead[s]
    BY <1>0, <2>2, <2>4 DEF QueueIsALine
  <2>6. Cardinality(ahead[s] \ {o}) = Cardinality(ahead[s]) - 1
    BY <1>1, <2>5, FS_RemoveElement
  <2>. QED  BY <1>0, <1>1, <1>3, <1>4, <2>6 DEF Bound
<1>. QED  BY <1>0, <1>5, <1>6, <1>7

LEMMA InitBound == Init => BypassBound
  BY DEF Init, BypassBound

\* Nobody else's place gets worse.
LEMMA ShorterLineKeepsBound ==
  ASSUME Core, BypassBound, NEW s \in waiting,
         NEW S \in SUBSET (ahead[s] \ {granted})
  PROVE  bypass[s] + Cardinality(S) <= Bound
<1>1. TypeOK /\ QueueIsALine /\ s \in Requests /\ bypass[s] \in Nat /\ MaxBypasses \in Nat
  BY BypassAssumption DEF Core, TypeOK
<1>2. /\ IsFiniteSet(ahead[s] \ {granted})
      /\ Cardinality(ahead[s] \ {granted}) \in Nat
      /\ Cardinality(S) \in Nat
      /\ Cardinality(Requests) \in Nat
  BY <1>1, AheadIsShort
<1>3. Cardinality(S) <= Cardinality(ahead[s] \ {granted})
  BY <1>2, FS_Subset
<1>4. bypass[s] + Cardinality(ahead[s] \ {granted}) <= Bound
  BY DEF BypassBound, Bound
<1>. QED  BY <1>1, <1>2, <1>3, <1>4 DEF Bound

LEMMA PushKeepsBound ==
  ASSUME Core, Core', BypassBound, NEW r \in Requests, Push(r), granted' = granted
  PROVE  BypassBound'
<1>1. TypeOK /\ QueueIsALine /\ MaxBypasses \in Nat
  BY BypassAssumption DEF Core
<1>2. /\ waiting' = waiting \cup {r}
      /\ ahead'[r] = waiting
      /\ bypass'[r] = 0
      /\ \A s \in Requests \ {r} : ahead'[s] = ahead[s] /\ bypass'[s] = bypass[s]
  BY <1>1 DEF Push, TypeOK
<1>3. 0 + Cardinality(waiting \ {granted}) <= Bound
  <2>1. waiting \ {granted} \subseteq Requests \ {r}
    BY <1>1, <1>2 DEF Core, TypeOK, QueueIsALine
  <2>2. /\ IsFiniteSet(Requests \ {r})
        /\ Cardinality(Requests \ {r}) = Cardinality(Requests) - 1
        /\ Cardinality(Requests) \in Nat
    BY RequestsAssumption, FS_RemoveElement, FS_CardinalityType
  <2>3. IsFiniteSet(waiting \ {granted})
        /\ Cardinality(waiting \ {granted}) <= Cardinality(Requests \ {r})
    BY <2>1, <2>2, FS_Subset
  <2>4. Cardinality(waiting \ {granted}) \in Nat
    BY <2>3, FS_CardinalityType
  <2>. QED  BY <1>1, <2>2, <2>3, <2>4 DEF Bound
<1>4. \A s \in waiting' \ {r} : bypass[s] + Cardinality(ahead[s] \ {granted}) <= Bound
  BY <1>2 DEF BypassBound, Bound
<1>5. \A s \in waiting' \ {r} : s \in Requests
  BY <1>1, <1>2 DEF TypeOK
<1>. QED  BY <1>2, <1>3, <1>4, <1>5 DEF BypassBound, Bound

LEMMA BoundStep == Core /\ Core' /\ BypassBound /\ [Next]_vars => BypassBound'
<1>. SUFFICES ASSUME Core, Core', BypassBound, [Next]_vars PROVE BypassBound'
  OBVIOUS
<1>0. /\ TypeOK /\ RegisteredOnce /\ GrantedIsQueued /\ QueueIsALine
      /\ waiting \subseteq Requests
      /\ NoTicket \notin Requests
  BY RequestsAssumption DEF Core, TypeOK
<1>1. ASSUME NEW r \in Requests, Acquire(r) \/ Requeue(r)
      PROVE  BypassBound'
  BY <1>1, PushKeepsBound DEF Acquire, Requeue
<1>2. ASSUME NEW r \in Requests, Claim(r)
      PROVE  BypassBound'
  <2>1. /\ waiting' = waiting \ {r}
        /\ granted' = NoTicket
        /\ Turn.ticket = r
        /\ \A s \in waiting \ {r} :
             /\ ahead'[s] = ahead[s] \ {r}
             /\ bypass'[s] = IF Selects THEN record_capacity_bypasses[s] ELSE bypass[s]
    BY <1>0, <1>2, BypassType DEF Claim, Unlink, TypeOK
  <2>2. ASSUME NEW s \in waiting \ {r}
        PROVE  bypass'[s] + Cardinality(ahead'[s] \ {granted'}) <= Bound
    <3>1. ahead'[s] \ {granted'} = ahead[s] \ {r}
      BY <1>0, <2>1 DEF TypeOK
    <3>2. CASE Selects
      BY <2>1, <3>1, <3>2, SelectionKeepsBound
    <3>3. CASE ~ Selects
      <4>1. granted = r
        BY <2>1, <3>3, TurnIsQueued
      <4>. QED  BY <2>1, <3>1, <3>3, <4>1, ShorterLineKeepsBound
    <3>. QED  BY <3>2, <3>3
  <2>. QED  BY <2>1, <2>2 DEF BypassBound, Bound
<1>3. ASSUME NEW r \in Requests, Defer(r), Selects
      PROVE  BypassBound'
  <2>1. /\ waiting' = waiting /\ ahead' = ahead
        /\ granted' = Turn.ticket
        /\ bypass' = record_capacity_bypasses
        /\ granted = NoTicket
        /\ Turn.ticket \in waiting /\ Fits(Turn.ticket)
    BY <1>3, TurnIsQueued DEF Defer, Selects
  <2>2. ASSUME NEW s \in waiting, s # Turn.ticket
        PROVE  bypass'[s] + Cardinality(ahead'[s] \ {granted'}) <= Bound
    BY <1>3, <2>1, <2>2, SelectionKeepsBound
  <2>3. ASSUME NEW s \in waiting, s = Turn.ticket
        PROVE  bypass'[s] + Cardinality(ahead'[s] \ {granted'}) <= Bound
    <3>1. record_capacity_bypasses[s] = bypass[s]
      <4>1. Least(Cost[s], limit) <= charge(s) /\ charge(s) <= free
        BY <1>0, <2>1, <2>3, ChargeType DEF Fits
      <4>2. Least(Cost[s], limit) \in Nat /\ charge(s) \in Nat /\ free \in Nat
        BY <1>0, ChargeType, CostAssumption DEF Least, TypeOK
      <4>3. ~ (Least(Cost[s], limit) > free)
        BY <4>1, <4>2
      <4>. QED  BY <1>0, <4>3 DEF record_capacity_bypasses
    <3>2. ahead[s] \ {Turn.ticket} \subseteq ahead[s] \ {granted}
      BY <1>0, <2>1 DEF TypeOK
    <3>. QED  BY <2>1, <2>3, <3>1, <3>2, ShorterLineKeepsBound
  <2>. QED  BY <2>1, <2>2, <2>3 DEF BypassBound, Bound
<1>4. ASSUME NEW r \in Requests, Leave(r)
      PROVE  BypassBound'
  <2>1. /\ waiting' = waiting \ {r}
        /\ granted' = IF granted = r THEN NoTicket ELSE granted
        /\ \A s \in waiting \ {r} : ahead'[s] = ahead[s] \ {r} /\ bypass'[s] = bypass[s]
    BY <1>0, <1>4 DEF Leave, Unlink, TypeOK
  <2>2. ASSUME NEW s \in waiting \ {r}
        PROVE  bypass'[s] + Cardinality(ahead'[s] \ {granted'}) <= Bound
    <3>1. ahead'[s] \ {granted'} \subseteq ahead[s] \ {granted}
      BY <2>1
    <3>. QED  BY <2>1, <3>1, ShorterLineKeepsBound
  <2>. QED  BY <2>1, <2>2 DEF BypassBound, Bound
<1>5. ASSUME UNCHANGED <<waiting, ahead, bypass, granted>>
      PROVE  BypassBound'
  BY <1>5 DEF BypassBound
<1>6. ASSUME NEW r \in Requests,
             \/ Enable(r) \/ Wake(r) \/ Abandon(r) \/ Notify(r) \/ Release(r) \/ Yield(r)
             \/ RegisterResourceWait(r) \/ DropResourceWait(r) \/ (Defer(r) /\ ~ Selects)
      PROVE  BypassBound'
  BY <1>5, <1>6, TurnIsQueued DEF Enable, Wake, Abandon, Notify, Release, Yield,
     RegisterResourceWait, DropResourceWait, Defer
<1>7. CASE Reconfigure \/ NotifyResized \/ UNCHANGED vars
  BY <1>5, <1>7 DEF Reconfigure, NotifyResized, set_ceiling, set_limit, set_max_waiters,
     Resized, vars
<1>. QED  BY <1>1, <1>2, <1>3, <1>4, <1>6, <1>7 DEF Next

\* However many requests arrive, a waiter that does not fit is passed at most
\* MaxBypasses times, and then once more for each waiter that was in front.
THEOREM BypassesAreBounded == Spec => []BypassBound
<1>1. Init => BypassBound
  BY InitBound
<1>2. Core /\ Core' /\ BypassBound /\ [Next]_vars => BypassBound'
  BY BoundStep
<1>. QED  BY <1>1, <1>2, CoreHolds, PTL DEF Spec
=============================================================================
