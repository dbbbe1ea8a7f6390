------------------------------ MODULE SlotPool ------------------------------
(***************************************************************************)
(* What the managed admission pool promises, with no queue, no tickets and *)
(* no wakeups: a weighted semaphore whose limit may change while it is in  *)
(* use.  A request asks, and later enters with a charge that fits under    *)
(* the limit of that moment, or gives up; a lowered limit revokes nothing. *)
(* Admission implements it; Pipeline keeps to it.                          *)
(***************************************************************************)
EXTENDS Naturals

CONSTANTS Requests,     \* the requests that may use the pool
          Cost          \* Cost[r]: the units the routing policy asks for r

VARIABLES asking,       \* requests that have asked for units and hold none
          units,        \* units[r]: what r holds, 0 outside
          active,       \* units handed out
          limit,        \* current capacity
          ceiling       \* configured maximum of limit

pvars == <<asking, units, active, limit, ceiling>>

\* The least a request pays is one unit, the most is the whole current limit.
Due(r, lim) == LET c == IF Cost[r] < lim THEN Cost[r] ELSE lim
               IN  IF c = 0 THEN 1 ELSE c

PoolInit == /\ asking = {}
            /\ units = [r \in Requests |-> 0]
            /\ active = 0
            /\ limit \in Nat \ {0}
            /\ ceiling = limit

Ask(r) == /\ r \notin asking
          /\ units[r] = 0
          /\ asking' = asking \cup {r}
          /\ UNCHANGED <<units, active, limit, ceiling>>

GiveUp(r) == /\ r \in asking
             /\ asking' = asking \ {r}
             /\ UNCHANGED <<units, active, limit, ceiling>>

Enter(r) == /\ r \in asking
            /\ active + Due(r, limit) <= limit
            /\ asking' = asking \ {r}
            /\ units' = [units EXCEPT ![r] = Due(r, limit)]
            /\ active' = active + Due(r, limit)
            /\ UNCHANGED <<limit, ceiling>>

Exit(r) == /\ units[r] > 0
           /\ active' = active - units[r]
           /\ units' = [units EXCEPT ![r] = 0]
           /\ UNCHANGED <<asking, limit, ceiling>>

\* Capacity moves freely below the ceiling; no unit already held is touched.
Resize == /\ ceiling' \in Nat \ {0}
          /\ limit' \in 1 .. ceiling'
          /\ UNCHANGED <<asking, units, active>>

PoolNext == \/ \E r \in Requests : Ask(r) \/ GiveUp(r) \/ Enter(r) \/ Exit(r)
            \/ Resize

PoolSpec == PoolInit /\ [][PoolNext]_pvars
=============================================================================
