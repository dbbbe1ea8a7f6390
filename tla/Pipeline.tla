------------------------------ MODULE Pipeline ------------------------------
(***************************************************************************)
(* One backend's execution pipeline (execution/pipeline.rs, memory.rs):    *)
(* the order in which a managed task takes its slot, its memory and the    *)
(* transition lock, the eviction of idle runners that it starts on the     *)
(* way, and the raw requests (proxy/mod.rs) that take the lock as well.    *)
(*                                                                         *)
(* Slots are counted here; their queue is module Admission, the sample and *)
(* the wait behind a reservation module Governor.  The lock is tokio's     *)
(* fair RwLock: first come, first served.  A runner takes one unit of      *)
(* memory.  Each request runs once.                                        *)
(***************************************************************************)
EXTENDS Naturals, FiniteSets, Sequences

CONSTANTS Tasks,      \* managed tasks
          Raws,       \* raw generation requests
          Runners,    \* models that Ollama may load
          ModelOf,    \* the model of each request
          Unloaders,  \* tasks with keep_alive 0
          Slots,      \* units of the admission pool; a task takes one
          Room,       \* runners that fit in memory
          Arrivals,   \* bound on the requests that arrive
          NoOne

Requests == Tasks \cup Raws

ASSUME RequestsAssumption == /\ IsFiniteSet(Requests) /\ NoOne \notin Requests
                             /\ Tasks \cap Raws = {} /\ Unloaders \subseteq Tasks
ASSUME ModelsAssumption   == IsFiniteSet(Runners) /\ \A r \in Requests : ModelOf[r] \in Runners
ASSUME SizesAssumption    == {Slots, Room, Arrivals} \subseteq Nat \ {0}

VARIABLES
  believed,  \* tasks whose runner was resident when they last looked
  slots,     \* tasks that hold a slot
  reserved,  \* tasks with memory reserved for a load
  readers,   \* tasks that hold the transition lock shared
  writer,    \* the request that holds it alone
  queue,     \* who waits for it
  loaded,    \* runners in memory (Ollama)
  unloads,   \* unload requests on their way, or waiting for a busy runner
  victims,   \* victims[t]: what the eviction started by t has still to do
  pc

locks == <<readers, writer, queue>>
ollama == <<loaded, unloads>>
vars == <<believed, slots, reserved, locks, ollama, victims, pc>>

Init == /\ believed = {}
        /\ slots = {}
        /\ reserved = {}
        /\ readers = {} /\ writer = NoOne /\ queue = << >>
        /\ loaded \in {S \in SUBSET Runners : Cardinality(S) <= Room}
        /\ unloads = {}
        /\ victims = [t \in Tasks |-> {}]
        /\ pc = [r \in Requests |-> "idle"]

Goto(r, l) == pc' = [pc EXCEPT ![r] = l]
Resident(r) == ModelOf[r] \in loaded
Fits(n) == Cardinality(loaded) + Cardinality(reserved) + n <= Room

\* A request waits for the lock in one place at most.
Without(q, r) == IF \E i \in DOMAIN q : q[i] = r
                   THEN LET i == CHOOSE i \in DOMAIN q : q[i] = r
                        IN SubSeq(q, 1, i - 1) \o SubSeq(q, i + 1, Len(q))
                   ELSE q

\* The guards of a request go out of scope, whichever it holds.
GiveBack(r) == /\ slots' = slots \ {r}
               /\ reserved' = reserved \ {r}
               /\ readers' = readers \ {r}
               /\ writer' = IF writer = r THEN NoOne ELSE writer
               /\ queue' = Without(queue, r)
End(r) == GiveBack(r) /\ Goto(r, "done")

\* Tasks that are counted in the activity of their model.
Active == {t \in Tasks : pc[t] \notin {"idle", "routed", "done"}}

-----------------------------------------------------------------------------
(* Slot and memory *)

Arrives(r) == pc[r] = "idle" /\ Cardinality({o \in Requests : pc[o] # "idle"}) < Arrivals

\* /api/ps is read while the route is selected.
Route(t) == /\ Arrives(t)
            /\ believed' = IF Resident(t) THEN believed \cup {t} ELSE believed
            /\ Goto(t, "routed")
            /\ UNCHANGED <<slots, reserved, locks, ollama, victims>>

\* The task counts as activity of its model from here.
Begin(t) == /\ pc[t] = "routed"
            /\ Goto(t, "queued")
            /\ UNCHANGED <<believed, slots, reserved, locks, ollama, victims>>

Admit(t) == /\ pc[t] = "queued"
            /\ Cardinality(slots) < Slots
            /\ slots' = slots \cup {t}
            /\ Goto(t, "sizing")
            /\ UNCHANGED <<believed, reserved, locks, ollama, victims>>

\* Runners without a task, hence never that of the task that plans: the choice
\* among them is one of cost.
Busy(m) == \E t \in Active : ModelOf[t] = m
plan == SUBSET {m \in loaded : ~ Busy(m)}

\* The plan is made once, when the load does not fit.
make_room(t) ==
  /\ pc[t] = "sizing"
  /\ IF Resident(t) \/ Fits(1) THEN victims' = victims
     ELSE \E S \in plan : victims' = [victims EXCEPT ![t] = S]
  /\ Goto(t, "evicting")
  /\ UNCHANGED <<believed, slots, reserved, locks, ollama>>

\* The eviction runs by itself, to its end.  A runner that a task has begun to use
\* since the plan was made is left alone; one that begins later is too late.
evict_idle_models(t) ==
  \E m \in victims[t] : /\ victims' = [victims EXCEPT ![t] = @ \ {m}]
                        /\ unloads' = IF Busy(m) THEN unloads ELSE unloads \cup {m}
                        /\ UNCHANGED <<believed, slots, reserved, locks, loaded, pc>>

Evicted(t) == /\ pc[t] = "evicting"
              /\ victims[t] = {}
              /\ Goto(t, "reserving")
              /\ UNCHANGED <<believed, slots, reserved, locks, ollama, victims>>

\* A resident runner needs no memory.
Reserved(t) == \/ Resident(t) /\ UNCHANGED reserved
               \/ ~ Resident(t) /\ Fits(1) /\ reserved' = reserved \cup {t}

Reserve(t) == /\ pc[t] = "reserving"
              /\ Reserved(t)
              /\ Goto(t, "locking")
              /\ UNCHANGED <<believed, slots, locks, ollama, victims>>

\* Mutant: the slot is kept.
Yield_KeepsSlot(t) == /\ pc[t] = "reserving"
                      /\ ~ Resident(t) /\ ~ Fits(1)
                      /\ Goto(t, "yielded")
                      /\ UNCHANGED <<believed, slots, reserved, locks, ollama, victims>>

\* SLOT_HELD_RESOURCE_WAIT is over: the task becomes a resource waiter.
Yield(t) == /\ pc[t] = "reserving"
            /\ ~ Resident(t) /\ ~ Fits(1)
            /\ slots' = slots \ {t}
            /\ Goto(t, "yielded")
            /\ UNCHANGED <<believed, reserved, locks, ollama, victims>>

ReserveYielded(t) == /\ pc[t] = "yielded"
                     /\ Reserved(t)
                     /\ Goto(t, "requeued")
                     /\ UNCHANGED <<believed, slots, locks, ollama, victims>>

Readmit(t) == /\ pc[t] = "requeued"
              /\ Cardinality(slots) < Slots
              /\ slots' = slots \cup {t}
              /\ Goto(t, "locking")
              /\ UNCHANGED <<believed, reserved, locks, ollama, victims>>

-----------------------------------------------------------------------------
(* The transition lock *)

Lock(r) == /\ \/ pc[r] = "locking"
              \/ r \in Raws /\ Arrives(r)
           /\ queue' = Append(queue, r)
           /\ Goto(r, "waiting")
           /\ UNCHANGED <<believed, slots, reserved, readers, writer, ollama, victims>>

\* The shared side for those that believe in their runner, the exclusive side
\* for the others.
Grant == /\ queue # << >> /\ writer = NoOne
         /\ LET r == Head(queue) IN
              \/ /\ r \in believed
                 /\ readers' = readers \cup {r}
                 /\ Goto(r, "rechecking")
                 /\ UNCHANGED writer
              \/ /\ r \notin believed /\ readers = {}
                 /\ writer' = r
                 /\ Goto(r, "revalidating")
                 /\ UNCHANGED readers
         /\ queue' = Tail(queue)
         /\ UNCHANGED <<believed, slots, reserved, ollama, victims>>

\* Mutant: a task whose runner is gone stays on the shared side.
Recheck_StaysShared(t) ==
  /\ pc[t] = "rechecking"
  /\ believed' = IF Resident(t) THEN believed ELSE believed \ {t}
  /\ Goto(t, "revalidating")
  /\ UNCHANGED <<slots, reserved, locks, ollama, victims>>

\* Mutant: the shared side is kept while the exclusive one is waited for.
Recheck_KeepsShared(t) ==
  /\ pc[t] = "rechecking"
  /\ \/ /\ Resident(t)
        /\ Goto(t, "revalidating")
        /\ UNCHANGED <<believed, queue>>
     \/ /\ believed' = believed \ {t}
        /\ queue' = Append(queue, t)
        /\ Goto(t, "waiting")
  /\ UNCHANGED <<slots, reserved, readers, writer, ollama, victims>>

\* Residency is looked at again under the shared lock; a runner that is gone,
\* or cannot be seen, sends the task to the exclusive side.
Recheck(t) ==
  /\ pc[t] = "rechecking"
  /\ \/ /\ Resident(t)
        /\ Goto(t, "revalidating")
        /\ UNCHANGED <<believed, locks>>
     \/ /\ believed' = believed \ {t}
        /\ readers' = readers \ {t}
        /\ queue' = Append(queue, t)
        /\ Goto(t, "waiting")
        /\ UNCHANGED writer
  /\ UNCHANGED <<slots, reserved, ollama, victims>>

\* What has been reserved before is not asked for again.
Covered(t) == Resident(t) \/ t \in reserved \/ Fits(1)

\* Mutant: the task waits for memory here too.
Revalidate_Waits(t) == /\ pc[t] = "revalidating"
                       /\ Covered(t)
                       /\ reserved' = IF Resident(t) THEN reserved ELSE reserved \cup {t}
                       /\ Goto(t, "sending")
                       /\ UNCHANGED <<believed, slots, locks, ollama, victims>>

\* The reservation is checked again without waiting.
Revalidate(t) == /\ pc[t] = "revalidating"
                 /\ \/ /\ Covered(t)
                       /\ reserved' = IF Resident(t) THEN reserved ELSE reserved \cup {t}
                       /\ Goto(t, "sending")
                       /\ UNCHANGED <<slots, locks>>
                    \/ ~ Covered(t) /\ End(t)
                 /\ UNCHANGED <<believed, ollama, victims>>

\* A raw request waits for pressure to clear, for RAW_PRESSURE_WAIT at most.
RawCapacity(r) == /\ pc[r] = "revalidating"
                  /\ \/ Goto(r, "sending") /\ UNCHANGED <<slots, reserved, locks>>
                     \/ End(r)
                  /\ UNCHANGED <<believed, ollama, victims>>

-----------------------------------------------------------------------------
(* At Ollama *)

Sent(r) == pc[r] \in {"sending", "serving", "unloading"}

\* The request arrives; Ollama loads what it needs.
Serve(r) == /\ pc[r] = "sending"
            /\ loaded' = loaded \cup {ModelOf[r]}
            /\ Goto(r, "serving")
            /\ UNCHANGED <<believed, slots, reserved, locks, unloads, victims>>

\* The residency watch gives the reservation back as soon as it sees the runner,
\* whoever had it loaded.
ReleaseEarly(t) == /\ Sent(t)
                   /\ t \in reserved /\ Resident(t)
                   /\ reserved' = reserved \ {t}
                   /\ UNCHANGED <<believed, slots, locks, ollama, victims, pc>>

\* A task with keep_alive 0 unloads its runner itself, under its lock.
Complete(r) == /\ pc[r] = "serving"
               /\ \/ r \notin Unloaders /\ End(r) /\ UNCHANGED unloads
                  \/ /\ r \in Unloaders
                     /\ unloads' = unloads \cup {ModelOf[r]}
                     /\ Goto(r, "unloading")
                     /\ UNCHANGED <<slots, reserved, locks>>
               /\ UNCHANGED <<believed, loaded, victims>>

Leave(t) == /\ pc[t] = "unloading"
            /\ End(t)
            /\ UNCHANGED <<believed, ollama, victims>>

\* A runner goes away once nobody is served by it: because it has been asked
\* to, or because its keep_alive ran out.
Unload(m) == /\ \A r \in Requests : pc[r] = "serving" => ModelOf[r] # m
             /\ loaded' = loaded \ {m}
             /\ unloads' = unloads \ {m}
             /\ UNCHANGED <<believed, slots, reserved, locks, victims, pc>>

\* A deadline, a cancellation or a client that goes away.
Abandon(r) == /\ pc[r] \notin {"idle", "done"}
              /\ End(r)
              /\ UNCHANGED <<believed, ollama, victims>>

-----------------------------------------------------------------------------
TaskStep(t) == \/ Begin(t) \/ Admit(t) \/ make_room(t) \/ evict_idle_models(t) \/ Evicted(t)
               \/ Reserve(t) \/ Yield(t) \/ ReserveYielded(t) \/ Readmit(t)
               \/ Recheck(t) \/ Revalidate(t) \/ Leave(t)
RequestStep(r) == \/ pc[r] # "idle" /\ Lock(r)
                  \/ r \in Raws /\ RawCapacity(r)
                  \/ Serve(r) \/ Complete(r)

Next == \/ \E t \in Tasks : Route(t) \/ TaskStep(t) \/ ReleaseEarly(t)
        \/ \E r \in Requests : RequestStep(r) \/ Abandon(r)
        \/ \E r \in Raws : Lock(r)
        \/ Grant
        \/ \E m \in Runners : Unload(m)

Spec == Init /\ [][Next]_vars

\* A request that can go on is polled, the lock is granted in turn, Ollama
\* answers.  No deadline is needed for what follows, no client goes away by
\* duty, and no runner that holds memory ever has to leave it.
FairSpec == /\ Spec
            /\ \A r \in Requests : WF_vars(RequestStep(r) \/ (r \in Tasks /\ TaskStep(r)))
            /\ WF_vars(Grant)

-----------------------------------------------------------------------------
(* Properties *)

Places == {"idle", "routed", "queued", "sizing", "evicting", "reserving", "yielded", "requeued",
           "locking", "waiting", "rechecking", "revalidating", "sending", "serving",
           "unloading", "done"}

\* The types; the lock is either shared or held alone, and only tasks share it.
TypeOK == /\ {believed, slots, reserved, readers} \subseteq SUBSET Tasks
          /\ writer # NoOne => readers = {}
          /\ {loaded, unloads} \subseteq SUBSET Runners
          /\ victims \in [Tasks -> SUBSET Runners]
          /\ pc \in [Requests -> Places]

\* "Nonresident tasks take that backend's exclusive lock so a cold load cannot
\* race another managed task" (docs/ARCHITECTURE.md:453): of two requests that
\* are with Ollama at once, both have found their runner resident under the
\* lock, however stale their first look was.
ColdAlone == \A r, s \in Requests : Sent(r) /\ Sent(s) /\ r # s => {r, s} \subseteq believed

\* "One consistent order removes that entirely" (pipeline.rs:171), "a cold load
\* does not block resident requests" (pipeline.rs:194), "never wait for pressure
\* recovery while holding that guard" (memory.rs:215): without any deadline, and
\* although memory may never become free, every request ends or comes to wait
\* for memory with nothing in its hands that another request waits for.
OnlyMemoryBlocks == \A r \in Requests : []<>(pc[r] \in {"idle", "yielded", "done"})

\* "One consistent order removes that entirely" (pipeline.rs:171), at every moment:
\* whoever waits for memory holds nothing, and unless all that is left are such
\* waiters, the lock can be granted or somebody's next step waits for nobody.
FreeToGo(r) == \/ pc[r] \in {"revalidating", "sending", "serving"}
               \/ /\ r \in Tasks
                  /\ \/ pc[r] \in {"routed", "sizing", "evicting", "reserving", "locking",
                                   "rechecking", "unloading"}
                     \/ pc[r] \in {"queued", "requeued"} /\ Cardinality(slots) < Slots
Grantable == queue # << >> /\ writer = NoOne /\ (Head(queue) \in believed \/ readers = {})
NoCircularWait ==
  /\ \A t \in Tasks : pc[t] = "yielded" => t \notin slots \cup reserved \cup readers \cup {writer}
  /\ (\E r \in Requests : pc[r] \notin {"idle", "yielded", "done"}) =>
       Grantable \/ \E r \in Requests : FreeToGo(r)

\* The pipeline uses its pool as a weighted semaphore: it asks before it
\* enters, again after it has given its slot back to wait for memory, and it
\* leaves once, whichever way a task ends.
Pool == INSTANCE SlotPool WITH
          Requests <- Tasks,
          Cost     <- [t \in Tasks |-> 1],
          asking   <- {t \in Tasks : pc[t] \in {"queued", "requeued"}},
          units    <- [t \in Tasks |-> IF t \in slots THEN 1 ELSE 0],
          active   <- Cardinality(slots),
          limit    <- Slots,
          ceiling  <- Slots
UsesSlots == Pool!PoolSpec
=============================================================================
