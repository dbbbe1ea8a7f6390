------------------------------ MODULE Governor ------------------------------
(***************************************************************************)
(* The resource governor (resources/governor.rs): memory is reserved       *)
(* against a cached sample of the host, by requests that wait until their  *)
(* demand fits.  A reservation is given back once its load is in memory,   *)
(* or when the task is over (execution/pipeline.rs); an eviction of idle   *)
(* runners invalidates the cached sample (execution/memory.rs).            *)
(*                                                                         *)
(* The async mutex around the sample is held while a sample is awaited;    *)
(* the sampler is a blocking task that outlives the reader who began it.   *)
(* reservations is an atomic: its compare-exchange loop is one action.     *)
(***************************************************************************)
EXTENDS Integers, FiniteSets

CONSTANTS Requests,       \* requests, each with a cold load of its own
          Bytes,          \* Bytes[r]: what the load of r takes
          Total,          \* memory of the host
          HoldReserve,    \* headroom of a first attempt
          ResumeReserve,  \* headroom of the later attempts
          Advisory,       \* LowMemoryMode::Advisory
          MaxBytes,       \* u64::MAX
          NoOne, NoSample, Running

ASSUME RequestsAssumption == IsFiniteSet(Requests) /\ NoOne \notin Requests
ASSUME MarksAssumption    == NoSample # Running /\ {NoSample, Running} \cap [saw : SUBSET Requests, held : BOOLEAN, old : BOOLEAN] = {}
ASSUME BytesAssumption    == Bytes \in [Requests -> Nat]
ASSUME PolicyAssumption   == /\ Total \in Nat /\ MaxBytes \in Nat
                             /\ HoldReserve \in Nat /\ ResumeReserve \in Nat
                             /\ HoldReserve < ResumeReserve
                             /\ Advisory \in BOOLEAN

VARIABLES
  loaded,     \* requests whose load is in the memory of the host
  reserved,   \* the shared count of reserved bytes
  permit,     \* permit[r]: bytes of r's ResourcePermit
  saved,      \* the cached sample
  fresh,      \* the cached sample is younger than sample_interval
  stale,      \* the next snapshot must sample afresh
  pending,    \* the sample being taken: none, running, or a sample
  lock,       \* who holds the mutex of the sample across its await
  seen,       \* seen[r]: the snapshot r works with
  retrying,   \* requests that have been held before
  armed,      \* requests whose Notified future has not fired
  signals,    \* requests about to call notify_waiters
  unloaded,   \* an eviction is over and is about to invalidate the sample
  pc

vars == <<loaded, reserved, permit, saved, fresh, stale, pending, lock, seen,
          retrying, armed, signals, unloaded, pc>>

\* A sample tells which loads it found in memory and whether a pressure hold
\* applies; old marks one read before the last invalidation.
Sample == [saw : SUBSET Requests, held : BOOLEAN, old : BOOLEAN]
Taken == [saw |-> {}, held |-> FALSE, old |-> FALSE]

BytesOf(S) == UNION {{r} \X (1 .. Bytes[r]) : r \in S}
Available(s) == Total - Cardinality(BytesOf(s.saw))
Margin(r) == IF r \in retrying THEN ResumeReserve ELSE HoldReserve
Goto(r, l) == pc' = [pc EXCEPT ![r] = l]
Older(s) == IF s \in Sample THEN [s EXCEPT !.old = TRUE] ELSE s

Init == /\ loaded = {}
        /\ reserved = 0
        /\ permit = [r \in Requests |-> 0]
        /\ saved = NoSample
        /\ fresh = FALSE
        /\ stale = FALSE
        /\ pending = NoSample
        /\ lock = NoOne
        /\ seen = [r \in Requests |-> [sample |-> Taken, reserved |-> 0]]
        /\ retrying = {}
        /\ armed = {}
        /\ signals = {}
        /\ unloaded = FALSE
        /\ pc = [r \in Requests |-> "idle"]

Start(r) == /\ pc[r] = "idle"
            /\ r \notin signals
            /\ r \notin loaded
            /\ retrying' = retrying \ {r}
            /\ Goto(r, "loop")
            /\ UNCHANGED <<loaded, reserved, permit, saved, fresh, stale, pending, lock, seen, armed, signals, unloaded>>

\* Registered before capacity is observed.
Enable(r) == /\ pc[r] = "loop"
             /\ armed' = armed \cup {r}
             /\ Goto(r, "armed")
             /\ UNCHANGED <<loaded, reserved, permit, saved, fresh, stale, pending, lock, seen, retrying, signals, unloaded>>

-----------------------------------------------------------------------------
(* snapshot *)

NeedsSample == stale \/ saved = NoSample \/ ~ fresh
See(r, s) == /\ seen' = [seen EXCEPT ![r] = [sample |-> s, reserved |-> reserved]]
             /\ Goto(r, "assess")

ReadCached(r) == /\ pc[r] = "armed"
                 /\ lock = NoOne
                 /\ ~ NeedsSample
                 /\ See(r, saved)
                 /\ UNCHANGED <<loaded, reserved, permit, saved, fresh, stale, pending,
                                lock, retrying, armed, signals, unloaded>>

\* A sample that somebody else began, and left, is awaited like a new one.
BeginSample(r) == /\ pc[r] = "armed"
                  /\ lock = NoOne
                  /\ NeedsSample
                  /\ stale' = FALSE
                  /\ pending' = IF pending = NoSample THEN Running ELSE pending
                  /\ lock' = r
                  /\ Goto(r, "sampling")
                  /\ UNCHANGED <<loaded, reserved, permit, saved, fresh, seen, retrying,
                                 armed, signals, unloaded>>

\* The blocking task reads the host.
SamplerReads ==
  /\ pending = Running
  /\ \E held \in BOOLEAN : pending' = [saw |-> loaded, held |-> held, old |-> FALSE]
  /\ UNCHANGED <<loaded, reserved, permit, saved, fresh, stale, lock, seen, retrying, armed,
                 signals, unloaded, pc>>

EndSample(r) == /\ pc[r] = "sampling"
                /\ pending \in Sample
                /\ saved' = pending
                /\ pending' = NoSample
                /\ fresh' = TRUE
                /\ lock' = NoOne
                /\ See(r, pending)
                /\ UNCHANGED <<loaded, reserved, permit, stale, retrying, armed,
                               signals, unloaded>>

\* The reader's deadline passes or its client goes away: only the lock is let
\* go, and the sampler runs on.
CancelSample(r) == /\ pc[r] = "sampling"
                   /\ lock' = NoOne
                   /\ armed' = armed \ {r}
                   /\ Goto(r, "idle")
                   /\ UNCHANGED <<loaded, reserved, permit, saved, fresh, stale, pending,
                                  seen, retrying, signals, unloaded>>

\* sample_interval passes.
GrowOld == /\ fresh
           /\ fresh' = FALSE
           /\ UNCHANGED <<loaded, reserved, permit, saved, stale, pending, lock,
                          seen, retrying, armed, signals, unloaded, pc>>

-----------------------------------------------------------------------------
(* wait_for_demand *)

\* assess_demand looks at the snapshot's own count of reserved bytes;
\* try_reserve then looks at the real one, which may have moved.
Admissible(r) ==
  LET s == seen[r] IN
  /\ ~ s.sample.held
  /\ s.reserved + Bytes[r] + Margin(r) <= MaxBytes
  /\ Advisory \/ Available(s.sample) - s.reserved >= Bytes[r] + Margin(r)
FitsNow(r) == /\ reserved + Bytes[r] + Margin(r) <= MaxBytes
              /\ Advisory \/ Available(seen[r].sample) >= reserved + Bytes[r] + Margin(r)

try_reserve(r) == /\ pc[r] = "assess"
                  /\ Admissible(r) /\ FitsNow(r)
                  /\ reserved' = reserved + Bytes[r]
                  /\ permit' = [permit EXCEPT ![r] = Bytes[r]]
                  /\ armed' = armed \ {r}
                  /\ Goto(r, "loading")
                  /\ UNCHANGED <<loaded, saved, fresh, stale, pending, lock, seen,
                                 retrying, signals, unloaded>>

\* Mutant: the bytes are taken first and not given back on a refusal.
Hold_Reserves(r) == /\ pc[r] = "assess"
                    /\ ~ (Admissible(r) /\ FitsNow(r))
                    /\ reserved' = IF Admissible(r) THEN reserved + Bytes[r] ELSE reserved
                    /\ retrying' = retrying \cup {r}
                    /\ Goto(r, "asleep")
                    /\ UNCHANGED <<loaded, permit, saved, fresh, stale, pending, lock, seen, armed, signals, unloaded>>

Hold(r) == /\ pc[r] = "assess"
           /\ ~ (Admissible(r) /\ FitsNow(r))
           /\ retrying' = retrying \cup {r}
           /\ Goto(r, "asleep")
           /\ UNCHANGED <<loaded, reserved, permit, saved, fresh, stale, pending, lock, seen, armed, signals, unloaded>>

\* A release, or the sampling tick.
Wake(r) == /\ pc[r] = "asleep"
           /\ armed' = armed \ {r}
           /\ Goto(r, "loop")
           /\ UNCHANGED <<loaded, reserved, permit, saved, fresh, stale, pending, lock, seen, retrying, signals, unloaded>>

\* The deadline passes, or the client goes away.
Expire(r) == /\ pc[r] = "asleep"
             /\ armed' = armed \ {r}
             /\ Goto(r, "idle")
             /\ UNCHANGED <<loaded, reserved, permit, saved, fresh, stale, pending, lock, seen, retrying, signals, unloaded>>

-----------------------------------------------------------------------------
(* A permit, to its end. *)

\* Ollama loads the runner.
Load(r) == /\ pc[r] = "loading"
           /\ loaded' = loaded \cup {r}
           /\ Goto(r, "running")
           /\ UNCHANGED <<reserved, permit, saved, fresh, stale, pending, lock,
                          seen, retrying, armed, signals, unloaded>>

\* Mutant: nobody is told.
GiveBack_Quietly(r) == /\ reserved' = reserved - permit[r]
                       /\ permit' = [permit EXCEPT ![r] = 0]
                       /\ UNCHANGED signals

\* ResourcePermit::release: mem::take, fetch_sub, then notify_waiters.
GiveBack(r) == /\ reserved' = reserved - permit[r]
               /\ permit' = [permit EXCEPT ![r] = 0]
               /\ signals' = IF permit[r] > 0 THEN signals \cup {r} ELSE signals

\* The residency watch of the pipeline has seen the runner.
ReleaseEarly(r) == /\ pc[r] = "running"
                   /\ permit[r] > 0
                   /\ GiveBack(r)
                   /\ UNCHANGED <<loaded, saved, fresh, stale, pending, lock, seen,
                                  retrying, armed, unloaded, pc>>

\* The task ends: the permit is dropped.
Finish(r) == /\ pc[r] \in {"loading", "running"}
             /\ r \notin signals
             /\ GiveBack(r)
             /\ Goto(r, "idle")
             /\ UNCHANGED <<loaded, saved, fresh, stale, pending, lock, seen,
                            retrying, armed, unloaded>>

Notify(r) == /\ r \in signals
             /\ signals' = signals \ {r}
             /\ armed' = {}
             /\ UNCHANGED <<loaded, reserved, permit, saved, fresh, stale, pending, lock, seen, retrying, unloaded, pc>>

\* An idle runner is evicted, and the cached sample is then invalidated.
Unload(r) == /\ r \in loaded
             /\ pc[r] = "idle"
             /\ loaded' = loaded \ {r}
             /\ unloaded' = TRUE
             /\ UNCHANGED <<reserved, permit, saved, fresh, stale, pending, lock,
                            seen, retrying, armed, signals, pc>>

invalidate == /\ unloaded
              /\ lock = NoOne
              /\ stale' = TRUE
              /\ unloaded' = FALSE
              /\ saved' = Older(saved)
              /\ pending' = Older(pending)
              /\ UNCHANGED <<loaded, reserved, permit, fresh, lock, seen, retrying,
                             armed, signals, pc>>

Next == \/ \E r \in Requests : \/ Start(r) \/ Enable(r) \/ ReadCached(r) \/ BeginSample(r)
                               \/ EndSample(r) \/ CancelSample(r) \/ try_reserve(r)
                               \/ Hold(r) \/ Wake(r) \/ Expire(r) \/ Load(r)
                               \/ ReleaseEarly(r) \/ Finish(r) \/ Notify(r) \/ Unload(r)
        \/ SamplerReads
        \/ GrowOld
        \/ invalidate

Spec == Init /\ [][Next]_vars

-----------------------------------------------------------------------------
(* Properties *)

Places == {"idle", "loop", "armed", "sampling", "assess", "asleep", "loading", "running"}

TypeOK == /\ loaded \in SUBSET Requests
          /\ reserved \in Nat
          /\ permit \in [Requests -> Nat]
          /\ saved \in Sample \cup {NoSample}
          /\ pending \in Sample \cup {NoSample, Running}
          /\ lock \in Requests \cup {NoOne}
          /\ seen \in [Requests -> [sample : Sample, reserved : Nat]]
          /\ retrying \in SUBSET Requests
          /\ armed \in SUBSET Requests
          /\ signals \in SUBSET Requests
          /\ fresh \in BOOLEAN /\ stale \in BOOLEAN /\ unloaded \in BOOLEAN
          /\ pc \in [Requests -> Places]

\* The atomic count is the sum of the permits that are out: an early release
\* followed by the drop, a refusal after the assessment, or a reader that is
\* cancelled neither leaks bytes nor wraps the count below zero.
Permits == UNION {{r} \X (1 .. permit[r]) : r \in Requests}
ReservedAccounted == reserved = Cardinality(Permits)

\* A request that sleeps would still be refused with what it has seen, unless a
\* notification is on its way: "Register before observing capacity, so a
\* concurrent release cannot be missed" (governor.rs:312).
NoLostWakeup ==
  \A r \in Requests :
    signals = {} /\ pc[r] = "asleep" /\ r \in armed =>
      \/ seen[r].sample.held
      \/ reserved + Bytes[r] + ResumeReserve > MaxBytes
      \/ Available(seen[r].sample) < reserved + Bytes[r] + ResumeReserve

\* "Make the next snapshot sample afresh, after FreeLlama itself changed what
\* the host holds" (governor.rs:148).  A reader that is cancelled has already
\* cleared the mark, and may leave a sample that was read before it.
FreshAfterInvalidate ==
  [][\A r \in Requests : pc[r] # "assess" /\ pc'[r] = "assess" => ~ seen'[r].sample.old]_vars
=============================================================================
