------------------------------- MODULE Breaker -------------------------------
(***************************************************************************)
(* The circuit breaker of one backend (platform/runtime/breaker.rs) with   *)
(* the managed tasks that pass it (run_session_task and                    *)
(* forward_managed_task).  A task checks the breaker before it queues,     *)
(* keeps the probe of a half-open circuit while it queues and runs, and    *)
(* reports one outcome, or none when it fails or is cancelled before       *)
(* Ollama has answered.                                                    *)
(***************************************************************************)
EXTENDS Naturals, FiniteSets

CONSTANTS Tasks,        \* managed tasks of the backend
          Threshold,    \* breaker_failures; 0 turns the breaker off
          MaxFailures   \* where saturating_add stops; u32::MAX in the code

ASSUME ThresholdAssumption == Threshold \in Nat /\ MaxFailures \in Nat /\ MaxFailures >= Threshold

VARIABLES
  failures,     \* consecutive_failures
  circuit,      \* open_until: none, in the future, or in the past
  probing,      \* probe_in_flight
  probe,        \* tasks that own a BreakerProbe
  outcome,      \* outcome[t]: whether Ollama answered t well
  pc

vars == <<failures, circuit, probing, probe, outcome, pc>>

Init == /\ failures = 0
        /\ circuit = "closed"
        /\ probing = FALSE
        /\ probe = {}
        /\ outcome = [t \in Tasks |-> FALSE]
        /\ pc = [t \in Tasks |-> "idle"]

Goto(t, l) == pc' = [pc EXCEPT ![t] = l]

\* check: a closed circuit lets everybody through.
Pass(t) == /\ pc[t] = "idle"
           /\ circuit = "closed"
           /\ Goto(t, "queued")
           /\ UNCHANGED <<failures, circuit, probing, probe, outcome>>

\* check: a circuit past its cooldown lets one request through, with a probe.
\* A circuit that is open, or being probed, refuses and nothing changes.
Probe(t) == /\ pc[t] = "idle"
            /\ circuit = "cooled"
            /\ ~ probing
            /\ probing' = TRUE
            /\ probe' = probe \cup {t}
            /\ Goto(t, "queued")
            /\ UNCHANGED <<failures, circuit, outcome>>

\* Mutants: a drop clears the flag of another task's probe, or clears nothing.
DropProbe_Anyone(t) == /\ probe' = probe \ {t}
                       /\ probing' = FALSE
DropProbe_Stuck(t) == /\ probe' = probe \ {t}
                      /\ UNCHANGED probing

\* The probe's Drop impl clears the flag of the backend.
DropProbe(t) == /\ probe' = probe \ {t}
                /\ probing' = IF t \in probe THEN FALSE ELSE probing

\* Admission, memory, the transition lock, a cancellation or a deadline ends
\* the task before Ollama has answered: no outcome is recorded.
Abort(t) == /\ pc[t] \in {"queued", "upstream"}
            /\ DropProbe(t)
            /\ Goto(t, "idle")
            /\ UNCHANGED <<failures, circuit, outcome>>

Forward(t) == /\ pc[t] = "queued"
              /\ Goto(t, "upstream")
              /\ UNCHANGED <<failures, circuit, probing, probe, outcome>>

\* The upstream call is over, retries included.
Answer(t) == /\ pc[t] = "upstream"
             /\ \E ok \in BOOLEAN : outcome' = [outcome EXCEPT ![t] = ok]
             /\ Goto(t, "answered")
             /\ UNCHANGED <<failures, circuit, probing, probe>>

\* record_upstream_outcome drops the probe and then records, under two locks.
EndProbe(t) == /\ pc[t] = "answered"
               /\ DropProbe(t)
               /\ Goto(t, "recording")
               /\ UNCHANGED <<failures, circuit, outcome>>

RecordSuccess(t) == /\ pc[t] = "recording"
                    /\ outcome[t]
                    /\ failures' = 0
                    /\ circuit' = "closed"
                    /\ Goto(t, "idle")
                    /\ UNCHANGED <<probing, probe, outcome>>

\* A failure opens the circuit at the threshold, and reopens one that is open
\* or half-open whoever reports it.
Opens == Threshold > 0 /\ (circuit # "closed" \/ failures + 1 >= Threshold)

RecordFailure(t) ==
  /\ pc[t] = "recording"
  /\ ~ outcome[t]
  /\ failures' = IF failures < MaxFailures THEN failures + 1 ELSE failures
  /\ circuit' = IF Opens THEN "open" ELSE circuit
  /\ Goto(t, "idle")
  /\ UNCHANGED <<probing, probe, outcome>>

\* open_until passes.
Cool == /\ circuit = "open"
        /\ circuit' = "cooled"
        /\ UNCHANGED <<failures, probing, probe, outcome, pc>>

Next == \/ \E t \in Tasks : \/ Pass(t) \/ Probe(t) \/ Abort(t) \/ Forward(t) \/ Answer(t)
                            \/ EndProbe(t) \/ RecordSuccess(t) \/ RecordFailure(t)
        \/ Cool

Spec == Init /\ [][Next]_vars

\* Every task has a deadline, so one that has passed the breaker moves on, and
\* the cooldown is a matter of time.
Moves(t) == pc[t] # "idle" /\ \E l \in {"idle", "queued", "upstream", "answered", "recording"} :
                                Goto(t, l)
Fairness == WF_circuit(Cool) /\ \A t \in Tasks : WF_pc(Moves(t))
FairSpec == Spec /\ Fairness

-----------------------------------------------------------------------------
(* Properties *)

TypeOK == /\ failures \in Nat
          /\ circuit \in {"closed", "open", "cooled"}
          /\ probing \in BOOLEAN
          /\ probe \in SUBSET Tasks
          /\ outcome \in [Tasks -> BOOLEAN]
          /\ pc \in [Tasks -> {"idle", "queued", "upstream", "answered", "recording"}]

\* probe_in_flight is set exactly while one task owns the probe, through every
\* late outcome, reopening and cancellation: no second probe is handed out and
\* none is leaked ("The single request allowed through", breaker.rs:30).
ProbeOwned == /\ \A s, t \in probe : s = t
              /\ probing <=> probe # {}
              /\ \A t \in probe : pc[t] \in {"queued", "upstream", "answered"}

\* The circuit is closed only while the failures in a row are below the
\* threshold: no late success of an older request leaves it closed with its
\* count at the threshold, and no failure goes by uncounted.
ClosedMeansBelow == circuit = "closed" /\ Threshold > 0 => failures < Threshold

\* A cancelled or failed probe does not block the backend: whatever happens to
\* the task that owns the probe, the circuit becomes able to let a request
\* through again.
ProbeSlotFrees == []<>~ probing
=============================================================================
