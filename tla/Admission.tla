----------------------------- MODULE Admission ------------------------------
(***************************************************************************)
(* The managed admission pool (platform/admission.rs): a weighted          *)
(* semaphore shared by the tasks of the gateway, with 3:2:1 weighted       *)
(* round-robin between priorities, backfill of spare capacity bounded by a *)
(* bypass count, a queue limit shared by slot waiters and resource         *)
(* waiters, and a limit that the adaptive controller and configuration     *)
(* reloads move while tasks run.                                           *)
(*                                                                         *)
(* The pool's state is guarded by one mutex and every critical section is  *)
(* one action.  What happens between critical sections is what can go      *)
(* wrong, so it is kept: a request first arms its Notified future, then    *)
(* takes the lock, then sleeps; and whoever changes the state calls        *)
(* notify_waiters only after it has released the lock.                     *)
(*                                                                         *)
(* A ticket is written as the request that holds it: a request has at most *)
(* one live registration.  The Vec of waiters is the set waiting with, for *)
(* each waiter, the set of waiters in front of it.                         *)
(***************************************************************************)
EXTENDS Naturals, FiniteSets

CONSTANTS Requests,     \* the requests that may use the pool
          Cost,         \* Cost[r]: units asked for r
          Priority,     \* Priority[r]: 0 interactive, 1 normal, 2 background
          Weights,      \* PRIORITY_WEIGHTS
          MaxBypasses,  \* MAX_CAPACITY_BYPASSES
          Ceilings,     \* values a configuration gives to the ceiling
          Limits,       \* values the adaptive controller asks for
          QueueLimits,  \* values a configuration gives to max_waiters
          NoTicket      \* granted is None

Classes == 0 .. 2

ASSUME RequestsAssumption == IsFiniteSet(Requests) /\ NoTicket \notin Requests
ASSUME CostAssumption     == Cost \in [Requests -> Nat]
ASSUME PriorityAssumption == Priority \in [Requests -> Classes]
ASSUME WeightsAssumption  == Weights \in [Classes -> Nat \ {0}]
ASSUME BypassAssumption   == MaxBypasses \in Nat \ {0}
ASSUME SettingsAssumption == /\ Ceilings \subseteq Nat
                             /\ Limits \subseteq Nat
                             /\ QueueLimits \subseteq Nat

VARIABLES
  active,           \* units charged to admitted tasks
  limit,            \* current capacity
  ceiling,          \* configured maximum of limit
  maxWaiters,       \* bound on the queue depth
  waiting,          \* requests queued for units
  ahead,            \* ahead[r]: the waiters in front of waiter r
  bypass,           \* bypass[r]: selections made while waiter r did not fit
  resourceWaiting,  \* requests that gave their slot back to wait for memory
  credits,          \* remaining credits of each class in this round
  granted,          \* the waiter that owns the next charge
  units,            \* units[r]: the charge of r's permit, 0 when it has none
  armed,            \* requests whose Notified future is enabled, not yet fired
  reloading,        \* a limit change whose notify_waiters is still to come
  pc                \* where each request is

\* Where a request can be.  The last six are just after a critical section,
\* with the call to notify_waiters still to come.
Quiet      == {"idle", "loop", "armed", "asleep", "leaving", "holding", "yielding", "resource"}
Signalling == {"queued", "picked", "claimed", "yielded", "released", "left"}

vars == <<active, limit, ceiling, maxWaiters, waiting, ahead, bypass, resourceWaiting,
          credits, granted, units, armed, reloading, pc>>

Least(a, b) == IF a < b THEN a ELSE b
AtLeastOne(n) == IF n = 0 THEN 1 ELSE n

queue_depth == Cardinality(waiting) + Cardinality(resourceWaiting)

HasRoom == queue_depth < maxWaiters

free == IF active < limit THEN limit - active ELSE 0
charge(r) == AtLeastOne(Least(Cost[r], limit))
\* Mutant: any free unit is enough.
Fits_AnyUnit(r) == free > 0
Fits(r) == charge(r) <= free

-----------------------------------------------------------------------------
(* Selection: which waiter owns the next charge. *)

\* The element of S that is first in the queue.
Oldest(S) == CHOOSE r \in S : ahead[r] \cap S = {}

\* Mutant: capacity is kept only for those that fit anyway.
Starved_ThatFit == {r \in waiting : bypass[r] >= MaxBypasses /\ Fits(r)}

\* Waiters passed over so often that released capacity is kept for them.
Starved == {r \in waiting : bypass[r] >= MaxBypasses}

\* Waiters that fit and whose class has a credit left in cr.
Eligible(cr) == {r \in waiting : Fits(r) /\ cr[Priority[r]] > 0}

\* Mutant: the back of the queue is served first.
GoesBefore_LastIn(r, s) == \/ Priority[r] < Priority[s]
                           \/ Priority[r] = Priority[s] /\ s \in ahead[r]

\* Classes are served in order, and within a class the front of the queue is.
GoesBefore(r, s) == \/ Priority[r] < Priority[s]
                    \/ Priority[r] = Priority[s] /\ r \in ahead[s]
First(S) == CHOOSE r \in S : \A s \in S \ {r} : GoesBefore(r, s)

Spend(cr, r) == [cr EXCEPT ![Priority[r]] = IF @ = 0 THEN 0 ELSE @ - 1]
Select(r, cr) == [ticket |-> r, credits |-> Spend(cr, r)]

\* The waiter chosen (NoTicket when none is) and the credits left.  A look that
\* finds nobody eligible starts a new round, even when nobody fits at all.
selected_waiter ==
  IF Starved # {}
  THEN IF Fits(Oldest(Starved)) THEN Select(Oldest(Starved), credits)
                                ELSE [ticket |-> NoTicket, credits |-> credits]
  ELSE IF Eligible(credits) # {} THEN Select(First(Eligible(credits)), credits)
  ELSE IF Eligible(Weights) # {} THEN Select(First(Eligible(Weights)), Weights)
  ELSE [ticket |-> NoTicket, credits |-> Weights]

\* Everyone a selection leaves behind because it does not fit is bypassed.
record_capacity_bypasses ==
  [r \in Requests |-> IF r \in waiting /\ Least(Cost[r], limit) > free
                      THEN bypass[r] + 1 ELSE bypass[r]]

\* A poll keeps a grant that is out, and makes one when there is none.
Turn == IF granted = NoTicket THEN selected_waiter
                              ELSE [ticket |-> granted, credits |-> credits]
Selects == granted = NoTicket /\ selected_waiter.ticket # NoTicket

-----------------------------------------------------------------------------
(* The queue. *)

Goto(r, l) == pc' = [pc EXCEPT ![r] = l]

Push(r) == /\ waiting' = waiting \cup {r}
           /\ ahead' = [ahead EXCEPT ![r] = waiting]
           /\ bypass' = [bypass EXCEPT ![r] = 0]

\* The queue without r, given the bypass counts of the others.
Unlink(r, counts) == /\ waiting' = waiting \ {r}
                     /\ ahead' = [s \in Requests |-> IF s = r THEN {} ELSE ahead[s] \ {r}]
                     /\ bypass' = [counts EXCEPT ![r] = 0]

-----------------------------------------------------------------------------
Init == /\ ceiling \in {AtLeastOne(c) : c \in Ceilings}
        /\ limit = ceiling
        /\ maxWaiters \in {AtLeastOne(q) : q \in QueueLimits}
        /\ active = 0
        /\ waiting = {}
        /\ ahead = [r \in Requests |-> {}]
        /\ bypass = [r \in Requests |-> 0]
        /\ resourceWaiting = {}
        /\ credits = Weights
        /\ granted = NoTicket
        /\ units = [r \in Requests |-> 0]
        /\ armed = {}
        /\ reloading = FALSE
        /\ pc = [r \in Requests |-> "idle"]

\* acquire: a request joins the queue.  One whose deadline has passed, or that
\* finds the queue full, is turned away and leaves no trace.
Acquire(r) == /\ pc[r] = "idle"
              /\ HasRoom
              /\ Push(r)
              /\ Goto(r, "queued")
              /\ UNCHANGED <<active, limit, ceiling, maxWaiters, resourceWaiting,
                             credits, granted, units, armed, reloading>>

\* The Notified future is created and enabled before the state is looked at.
Enable(r) == /\ pc[r] = "loop"
             /\ armed' = armed \cup {r}
             /\ Goto(r, "armed")
             /\ UNCHANGED <<active, limit, ceiling, maxWaiters, waiting, ahead, bypass,
                            resourceWaiting, credits, granted, units, reloading>>

\* The request owns the grant, old or new, and it still fits: it is admitted.
Claim(r) == /\ pc[r] = "armed"
            /\ Turn.ticket = r
            /\ Fits(r)
            /\ credits' = Turn.credits
            /\ Unlink(r, IF Selects THEN record_capacity_bypasses ELSE bypass)
            /\ active' = active + charge(r)
            /\ units' = [units EXCEPT ![r] = charge(r)]
            /\ granted' = NoTicket
            /\ Goto(r, "claimed")
            /\ UNCHANGED <<limit, ceiling, maxWaiters, resourceWaiting, armed, reloading>>

\* The request may choose who is next, and then sleeps: it is not its turn, or
\* the limit fell after its turn came.
Defer(r) == /\ pc[r] = "armed"
            /\ ~ (Turn.ticket = r /\ Fits(r))
            /\ credits' = Turn.credits
            /\ granted' = Turn.ticket
            /\ bypass' = IF Selects THEN record_capacity_bypasses ELSE bypass
            /\ Goto(r, IF Selects THEN "picked" ELSE "asleep")
            /\ UNCHANGED <<active, limit, ceiling, maxWaiters, waiting, ahead,
                           resourceWaiting, units, armed, reloading>>

\* The Notified future has fired.
Wake(r) == /\ pc[r] = "asleep"
           /\ r \notin armed
           /\ Goto(r, "loop")
           /\ UNCHANGED <<active, limit, ceiling, maxWaiters, waiting, ahead, bypass,
                          resourceWaiting, credits, granted, units, armed, reloading>>

\* The deadline passes, at the lock or in the sleep, or the client goes away in
\* the sleep; the registration is about to be dropped.
Abandon(r) == /\ pc[r] \in {"armed", "asleep"}
              /\ Goto(r, "leaving")
              /\ armed' = armed \ {r}
              /\ UNCHANGED <<active, limit, ceiling, maxWaiters, waiting, ahead, bypass,
                             resourceWaiting, credits, granted, units, reloading>>

\* AdmissionWaitGuard::drop: the place in the queue and the grant go together.
Leave(r) == /\ pc[r] = "leaving"
            /\ Unlink(r, bypass)
            /\ granted' = IF granted = r THEN NoTicket ELSE granted
            /\ Goto(r, "left")
            /\ UNCHANGED <<active, limit, ceiling, maxWaiters, resourceWaiting, credits,
                           units, armed, reloading>>

\* Mutant: the charge is worked out again, under the limit of today.
GiveBack_Recomputed(r) == /\ active' = IF active < charge(r) THEN 0 ELSE active - charge(r)
                          /\ units' = [units EXCEPT ![r] = 0]

GiveBack(r) == /\ active' = IF active < units[r] THEN 0 ELSE active - units[r]
               /\ units' = [units EXCEPT ![r] = 0]

\* AdmissionPermit::drop, when the task is over or is cancelled.
Release(r) == /\ pc[r] = "holding"
              /\ GiveBack(r)
              /\ Goto(r, "released")
              /\ UNCHANGED <<limit, ceiling, maxWaiters, waiting, ahead, bypass,
                             resourceWaiting, credits, granted, armed, reloading>>

\* An admitted task that memory does not allow yet takes a place among the
\* resource waiters before it lets its slot go.
RegisterResourceWait(r) ==
  /\ pc[r] = "holding"
  /\ HasRoom
  /\ resourceWaiting' = resourceWaiting \cup {r}
  /\ Goto(r, "yielding")
  /\ UNCHANGED <<active, limit, ceiling, maxWaiters, waiting, ahead, bypass, credits,
                 granted, units, armed, reloading>>

Yield(r) == /\ pc[r] = "yielding"
            /\ GiveBack(r)
            /\ Goto(r, "yielded")
            /\ UNCHANGED <<limit, ceiling, maxWaiters, waiting, ahead, bypass,
                           resourceWaiting, credits, granted, armed, reloading>>

\* ResourceWaitGuard::acquire: memory is there, the registration moves to the
\* back of the slot queue under one lock and without a look at max_waiters.
Requeue(r) == /\ pc[r] = "resource"
              /\ resourceWaiting' = resourceWaiting \ {r}
              /\ Push(r)
              /\ Goto(r, "queued")
              /\ UNCHANGED <<active, limit, ceiling, maxWaiters, credits, granted, units,
                             armed, reloading>>

\* ResourceWaitGuard::drop: memory never came, or the client went away.
DropResourceWait(r) ==
  /\ pc[r] = "resource"
  /\ resourceWaiting' = resourceWaiting \ {r}
  /\ Goto(r, "left")
  /\ UNCHANGED <<active, limit, ceiling, maxWaiters, waiting, ahead, bypass, credits,
                 granted, units, armed, reloading>>

After == [queued |-> "loop", picked |-> "asleep", claimed |-> "holding",
          yielded |-> "resource", released |-> "idle", left |-> "idle"]

\* Mutant: notify_one.
Notify_One(r) ==
  /\ pc[r] \in Signalling
  /\ armed' \in IF armed = {} THEN {{}} ELSE {armed \ {s} : s \in armed}
  /\ Goto(r, After[pc[r]])
  /\ UNCHANGED <<active, limit, ceiling, maxWaiters, waiting, ahead, bypass,
                 resourceWaiting, credits, granted, units, reloading>>

\* notify_waiters fires every armed future, the caller's own included.
Notify(r) == /\ pc[r] \in Signalling
             /\ armed' = {}
             /\ Goto(r, After[pc[r]])
             /\ UNCHANGED <<active, limit, ceiling, maxWaiters, waiting, ahead, bypass,
                            resourceWaiting, credits, granted, units, reloading>>

-----------------------------------------------------------------------------
(* Configuration reloads and the adaptive controller. *)

Resized == /\ reloading' = TRUE
           /\ UNCHANGED <<active, maxWaiters, waiting, ahead, bypass, resourceWaiting,
                          credits, granted, units, armed, pc>>

\* The limit follows the ceiling down, and up only from the old ceiling.
set_ceiling(c) == /\ ~ reloading
                  /\ ceiling' = AtLeastOne(c)
                  /\ limit' = IF limit >= ceiling \/ limit > ceiling'
                              THEN ceiling' ELSE limit
                  /\ Resized

set_limit(n) == /\ ~ reloading
                /\ limit' = AtLeastOne(Least(n, ceiling))
                /\ ceiling' = ceiling
                /\ Resized

NotifyResized == /\ reloading
                 /\ reloading' = FALSE
                 /\ armed' = {}
                 /\ UNCHANGED <<active, limit, ceiling, maxWaiters, waiting, ahead, bypass,
                                resourceWaiting, credits, granted, units, pc>>

set_max_waiters(q) == /\ maxWaiters' = AtLeastOne(q)
                      /\ UNCHANGED <<active, limit, ceiling, waiting, ahead, bypass,
                                     resourceWaiting, credits, granted, units, armed,
                                     reloading, pc>>

-----------------------------------------------------------------------------
Reconfigure == \/ \E c \in Ceilings : set_ceiling(c)
               \/ \E n \in Limits : set_limit(n)
               \/ \E q \in QueueLimits : set_max_waiters(q)

Next == \/ \E r \in Requests : \/ Acquire(r) \/ Enable(r) \/ Claim(r) \/ Defer(r)
                               \/ Wake(r) \/ Abandon(r) \/ Leave(r) \/ Notify(r)
                               \/ Release(r) \/ RegisterResourceWait(r) \/ Yield(r)
                               \/ Requeue(r) \/ DropResourceWait(r)
        \/ Reconfigure
        \/ NotifyResized

Spec == Init /\ [][Next]_vars

\* A request moves on unless it is outside the pool or asleep with a Notified
\* future that has not fired: the executor keeps polling every task that is
\* awake, and a task that holds a slot or waits for memory has a deadline, so
\* neither lasts for ever.  Nothing is assumed of arrivals, of timeouts and
\* clients that go away in the sleep, or of reloads.
Runnable(r) == pc[r] # "idle" /\ ~ (pc[r] = "asleep" /\ r \in armed)
Moves(r) == Runnable(r) /\ \E l \in Quiet \cup Signalling : Goto(r, l)

Fairness == /\ \A r \in Requests : WF_pc(Moves(r))
            /\ WF_reloading(NotifyResized)

FairSpec == Spec /\ Fairness

-----------------------------------------------------------------------------
(* Properties *)

\* The queue holds exactly the requests the control state says are queued, a
\* permit is held exactly where one was taken, and the limit stays between one
\* and the ceiling whatever reloads and the controller do.
InQueue == {"queued", "loop", "armed", "picked", "asleep", "leaving"}

TypeOK == /\ ceiling \in Nat \ {0}
          /\ limit \in 1 .. ceiling
          /\ active \in Nat
          /\ maxWaiters \in Nat \ {0}
          /\ waiting \in SUBSET Requests
          /\ ahead \in [Requests -> SUBSET Requests]
          /\ bypass \in [Requests -> Nat]
          /\ resourceWaiting \in SUBSET Requests
          /\ credits \in [Classes -> Nat]
          /\ granted \in Requests \cup {NoTicket}
          /\ units \in [Requests -> Nat]
          /\ armed \in SUBSET Requests
          /\ reloading \in BOOLEAN
          /\ pc \in [Requests -> Quiet \cup Signalling]

\* Every request is registered in exactly the one place its control state
\* calls for: a cancelled, timed out or admitted request leaves nothing behind
\* in the queue, and no permit outlives its holder (the Drop impls of the two
\* guards and of AdmissionPermit).
RegisteredOnce ==
  /\ waiting = {r \in Requests : pc[r] \in InQueue}
  /\ resourceWaiting = {r \in Requests : pc[r] \in {"yielding", "yielded", "resource"}}
  /\ {r \in Requests : units[r] > 0}
       = {r \in Requests : pc[r] \in {"claimed", "holding", "yielding"}}

\* `granted admission waiter must remain queued` (admission.rs:451): whatever
\* leaves the queue takes its grant with it, so the expect never fires.
GrantedIsQueued == granted # NoTicket => granted \in waiting

\* The pool charges exactly what its permits hold, so the saturating
\* subtraction of a release never hides a unit (AdmissionPermit::drop).
HeldUnits == UNION {{r} \X (1 .. units[r]) : r \in Requests}
UnitsAccounted == active = Cardinality(HeldUnits)

\* Nothing is asleep for good: when a grant could be taken, or a waiter could
\* be selected, either a notification is on its way or a request that will
\* look at the pool is awake.
SignalPending == reloading \/ \E r \in Requests : pc[r] \in Signalling
Dormant(r) == pc[r] = "asleep" /\ r \in armed

NoLostWakeup ==
  ~ SignalPending =>
    /\ granted # NoTicket /\ Fits(granted) => ~ Dormant(granted)
    /\ granted = NoTicket /\ selected_waiter.ticket # NoTicket
         => \E r \in waiting : ~ Dormant(r)

\* A waiter that larger or luckier requests have passed MaxBypasses times is
\* passed only by older waiters in the same position: it sees at most one more
\* selection for each waiter that was in front of it.
BypassBound ==
  \A r \in waiting :
    bypass[r] + Cardinality(ahead[r] \ {granted})
      <= MaxBypasses + Cardinality(Requests) - 1

\* "low-priority work makes bounded progress instead of starving behind a
\* continuous interactive stream" (routing.rs:57).  It does not: every poll of
\* a full pool finds nobody who fits and starts a new round, so the credits
\* below interactive are never reached while interactive requests keep coming.
NoStarvation == \A r \in Requests : []<>(r \notin waiting)

\* What the code does give: an interactive request leaves the queue whatever
\* its cost, although others keep arriving, the limit keeps moving and nobody
\* ever gives up.  This needs every wakeup, the order within the class, and the
\* reservation made after MaxBypasses selections.
InteractiveProgress ==
  \A r \in Requests : Priority[r] = 0 => []<>(r \notin waiting)

\* The queue, the grants, the wakeups and the handoffs implement a plain
\* weighted semaphore whose waiters are the queue: nothing is charged past the
\* limit in force at that moment, a lowered limit revokes nothing, and what a
\* task gives back is what it was charged.
Pool == INSTANCE SlotPool WITH asking <- waiting
ImplementsSlotPool == Pool!PoolSpec
=============================================================================
