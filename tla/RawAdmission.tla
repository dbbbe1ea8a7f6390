---------------------------- MODULE RawAdmission ----------------------------
(***************************************************************************)
(* The concurrency cap of the raw proxy (proxy/admission.rs): generation   *)
(* requests take one of limit slots or wait for one until a deadline.      *)
(* Waiters are woken together and race for a slot that is freed.  A slot   *)
(* is held to the end of the response body.                                *)
(*                                                                         *)
(* The Notified future is created before the lock is taken and receives    *)
(* every notify_waiters from then on.  A request whose client goes away    *)
(* is dropped where it awaits.                                             *)
(***************************************************************************)
EXTENDS Naturals, FiniteSets

CONSTANTS Requests,     \* generation requests of the raw proxy
          Impatient,    \* requests whose client may go away while they wait
          QueueFactor,  \* waiters allowed per slot: eight
          Limits        \* values a configuration gives to the limit

ASSUME RequestsAssumption == IsFiniteSet(Requests) /\ Impatient \subseteq Requests
ASSUME SettingsAssumption == QueueFactor \in Nat /\ Limits \subseteq Nat

VARIABLES
  active,     \* slots taken
  limit,      \* slots there are
  waiting,    \* the count of waiters
  permit,     \* requests that hold a RawPermit
  refused,    \* requests turned away by the last decision made about them
  armed,      \* waiters whose Notified future has not fired
  reloading,  \* a new limit is set and notify_waiters is still to come
  pc

vars == <<active, limit, waiting, permit, refused, armed, reloading, pc>>

AtLeastOne(n) == IF n = 0 THEN 1 ELSE n
Goto(r, l) == pc' = [pc EXCEPT ![r] = l]

\* Requests counted, rightly, among the waiters.
Queued == {r \in Requests : pc[r] \in {"loop", "armed", "asleep", "settling"}}

Init == /\ active = 0
        /\ limit \in {AtLeastOne(n) : n \in Limits}
        /\ waiting = 0
        /\ permit = {}
        /\ refused = {}
        /\ armed = {}
        /\ reloading = FALSE
        /\ pc = [r \in Requests |-> "idle"]

TakeSlot(r) == /\ active < limit
               /\ active' = active + 1
               /\ permit' = permit \cup {r}

\* acquire, first look: a slot is free.
Admit(r) == /\ pc[r] = "idle"
            /\ TakeSlot(r)
            /\ refused' = refused \ {r}
            /\ Goto(r, "serving")
            /\ UNCHANGED <<limit, waiting, armed, reloading>>

\* acquire, first look: too many are waiting.  (A deadline that has already
\* passed turns a request away too, and leaves no trace.)
Refuse(r) == /\ pc[r] = "idle"
             /\ active >= limit
             /\ waiting >= limit * QueueFactor
             /\ refused' = refused \cup {r}
             /\ UNCHANGED <<active, limit, waiting, permit, armed, reloading, pc>>

Queue(r) == /\ pc[r] = "idle"
            /\ active >= limit
            /\ waiting < limit * QueueFactor
            /\ waiting' = waiting + 1
            /\ refused' = refused \ {r}
            /\ Goto(r, "loop")
            /\ UNCHANGED <<active, limit, permit, armed, reloading>>

Arm(r) == /\ pc[r] = "loop"
          /\ armed' = armed \cup {r}
          /\ Goto(r, "armed")
          /\ UNCHANGED <<active, limit, waiting, permit, refused, reloading>>

Win(r) == /\ pc[r] = "armed"
          /\ TakeSlot(r)
          /\ armed' = armed \ {r}
          /\ Goto(r, "settling")
          /\ UNCHANGED <<limit, waiting, refused, reloading>>

Sleep(r) == /\ pc[r] = "armed"
            /\ active >= limit
            /\ Goto(r, "asleep")
            /\ UNCHANGED <<active, limit, waiting, permit, refused, armed, reloading>>

Wake(r) == /\ pc[r] = "asleep"
           /\ r \notin armed
           /\ Goto(r, "loop")
           /\ UNCHANGED <<active, limit, waiting, permit, refused, armed, reloading>>

\* Mutant: the waiter is uncounted here too.
Expire_Uncounts(r) == /\ pc[r] = "asleep"
                      /\ armed' = armed \ {r}
                      /\ waiting' = waiting - 1
                      /\ Goto(r, "settling")
                      /\ UNCHANGED <<active, limit, permit, refused, reloading>>

\* timeout_at fires.
Expire(r) == /\ pc[r] = "asleep"
             /\ armed' = armed \ {r}
             /\ Goto(r, "settling")
             /\ UNCHANGED <<active, limit, waiting, permit, refused, reloading>>

\* Mutant: a permit won is lost.
Settle_LosesPermit(r) == /\ pc[r] = "settling"
                         /\ waiting' = waiting - 1
                         /\ Goto(r, "idle")
                         /\ UNCHANGED <<active, limit, permit, refused, armed, reloading>>

\* The loop is left, with a permit or without: the waiter is uncounted.
Settle(r) == /\ pc[r] = "settling"
             /\ waiting' = waiting - 1
             /\ Goto(r, IF r \in permit THEN "serving" ELSE "idle")
             /\ UNCHANGED <<active, limit, permit, refused, armed, reloading>>

\* The client goes away: the future is dropped at its await, and the line that
\* uncounts the waiter is never reached.
Disconnect(r) == /\ r \in Impatient
                 /\ pc[r] = "asleep"
                 /\ armed' = armed \ {r}
                 /\ Goto(r, "idle")
                 /\ UNCHANGED <<active, limit, waiting, permit, refused, reloading>>

\* The end of the body, an upstream error, a refusal further on, or a client
\* that goes away while it is served: the permit is dropped.
Finish(r) == /\ pc[r] = "serving"
             /\ active' = IF active = 0 THEN 0 ELSE active - 1
             /\ permit' = permit \ {r}
             /\ Goto(r, "released")
             /\ UNCHANGED <<limit, waiting, refused, armed, reloading>>

Notify(r) == /\ pc[r] = "released"
             /\ armed' = {}
             /\ Goto(r, "idle")
             /\ UNCHANGED <<active, limit, waiting, permit, refused, reloading>>

set(n) == /\ ~ reloading
          /\ limit' = AtLeastOne(n)
          /\ reloading' = TRUE
          /\ UNCHANGED <<active, waiting, permit, refused, armed, pc>>

\* Mutant: nobody is told of the new limit.
NotifySet_Nobody == /\ reloading
                    /\ reloading' = FALSE
                    /\ UNCHANGED <<active, limit, waiting, permit, refused, armed, pc>>

NotifySet == /\ reloading
             /\ reloading' = FALSE
             /\ armed' = {}
             /\ UNCHANGED <<active, limit, waiting, permit, refused, pc>>

Next == \/ \E r \in Requests : \/ Admit(r) \/ Refuse(r) \/ Queue(r) \/ Arm(r) \/ Win(r)
                               \/ Sleep(r) \/ Wake(r) \/ Expire(r) \/ Settle(r)
                               \/ Disconnect(r) \/ Finish(r) \/ Notify(r)
        \/ \E n \in Limits : set(n)
        \/ NotifySet

Spec == Init /\ [][Next]_vars

-----------------------------------------------------------------------------
(* Properties *)

Places == {"idle", "loop", "armed", "asleep", "settling", "serving", "released"}

TypeOK == /\ active \in Nat
          /\ limit \in Nat \ {0}
          /\ waiting \in Nat
          /\ permit \in SUBSET Requests
          /\ refused \in SUBSET Requests
          /\ armed \in SUBSET Requests
          /\ reloading \in BOOLEAN
          /\ pc \in [Requests -> Places]

\* A slot is taken exactly for each permit, and a permit lives where the
\* request is settling or being served: no path out of the proxy keeps a slot.
SlotsAccounted ==
  /\ active = Cardinality(permit)
  /\ \A r \in Requests : /\ pc[r] = "serving" => r \in permit
                         /\ r \in permit => pc[r] \in {"settling", "serving"}

\* Every waiter is counted, so `waiting -= 1` never wraps below zero, whoever
\* goes away.
WaitersCounted == Cardinality(Queued) <= waiting

\* While a slot is free, no waiter sleeps on a future that nothing will fire.
NoLostWakeup ==
  active < limit =>
    \/ reloading
    \/ \E r \in Requests : pc[r] = "released"
    \/ \A r \in Requests : ~ (pc[r] = "asleep" /\ r \in armed)

\* "The waiting count is bounded at eight per slot" (proxy/admission.rs:108): a
\* request is turned away for the length of the queue only when that many
\* requests wait.  A client that goes away while it waits stays counted for
\* ever, so this fails.
RefusedOnlyWhenFull ==
  [][\A r \in Requests : Refuse(r) => Cardinality(Queued) >= limit * QueueFactor]_vars
=============================================================================
