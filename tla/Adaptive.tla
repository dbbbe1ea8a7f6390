------------------------------ MODULE Adaptive ------------------------------
(***************************************************************************)
(* The adaptive concurrency limiter of one backend (runtime/adaptive.rs)   *)
(* with the completions that feed it (observe_completion and the guard of  *)
(* forward_managed_task) and the reloads that move the ceiling of its pool *)
(* or turn it off.  The limiter has a lock and the pool has another: what  *)
(* is read of the pool is acted on in a later step.                        *)
(*                                                                         *)
(* The streak and the samples of a baseline stop at the thresholds they    *)
(* are compared with; rates are whole numbers.                             *)
(***************************************************************************)
EXTENDS Naturals

CONSTANTS Forwards,    \* managed forwards of the backend
          Profiles,    \* execution profiles; None when observations are not comparable
          KindOf,      \* KindOf[p]: the task of profile p, which has one baseline
          Responses,   \* counts and durations Ollama may answer with
          Second,      \* nanoseconds of a second
          Ceilings,    \* values a configuration gives to the ceiling
          Streak,      \* HEALTHY_STREAK_FOR_INCREASE
          MinSamples,  \* BASELINE_MIN_SAMPLES
          None         \* an absent Option

VARIABLES
  limit, ceiling,  \* the pool's
  on,              \* whether adaptive_concurrency applies to this backend
  streak,          \* healthy_streak
  last,            \* last_profile
  baseline,        \* baseline_tps, one for each task
  recent,          \* a decrease less than DECREASE_SPACING ago
  target,          \* what observe, which holds the lock, is about to give to set_limit
  guards,          \* forwards with an AdaptiveCompletionGuard that is not completed
  stage,           \* where each forward is
  event, row       \* history: the profile of the healthy completions that have
                   \* come one after the other, and how many up to Streak

vars == <<limit, ceiling, on, streak, last, baseline, recent, target, guards, stage, event, row>>

Init == /\ limit \in Ceilings /\ ceiling = limit
        /\ on \in BOOLEAN
        /\ streak = 0 /\ last = None
        /\ baseline = [k \in {KindOf[p] : p \in Profiles} |-> None]
        /\ recent = FALSE /\ target = None
        /\ guards = {} /\ stage = [f \in Forwards |-> "idle"]
        /\ event = None /\ row = 0

-----------------------------------------------------------------------------
(* Rates of a completion (execution/feedback.rs); None when they are not known *)

tokens_per_second(count, duration) ==
  IF None \in {count, duration} \/ duration = 0 THEN None ELSE (count * Second) \div duration

\* Nanoseconds for a token; embeddings count the whole call and their input.
feedback_work_unit_ns(task, response) ==
  LET duration == IF task = "embedding" THEN response.total_duration ELSE response.eval_duration
      units    == IF task = "embedding" THEN response.prompt_eval_count ELSE response.eval_count
  IN IF {None, 0} \cap {duration, units} # {} \/ duration < units THEN None ELSE duration \div units

adaptive_throughput_metric(task, response) ==
  LET unit == feedback_work_unit_ns(task, response)
      rate == IF task = "embedding"
                THEN IF unit = None THEN None ELSE tokens_per_second(1, unit)
                ELSE tokens_per_second(response.eval_count, response.eval_duration)
  IN IF rate = 0 THEN None ELSE rate

-----------------------------------------------------------------------------
Low(a, b) == IF a < b THEN a ELSE b
To(f, s) == stage' = [stage EXCEPT ![f] = s]
Unlocked == target = None

-----------------------------------------------------------------------------
(* Reloads *)

\* set_ceiling: the limit follows down, and up when it was at the ceiling.
SetCeiling == /\ \E c \in Ceilings \ {ceiling} :
                   /\ ceiling' = c
                   /\ limit' = IF limit >= ceiling \/ limit > c THEN c ELSE limit
              /\ UNCHANGED <<on, streak, last, baseline, recent, target, guards, stage, event, row>>

Switch == /\ on' = ~ on
          /\ UNCHANGED <<limit, ceiling, streak, last, baseline, recent, target, guards, stage, event, row>>

-----------------------------------------------------------------------------
(* Completions *)

Begin(f) == /\ stage[f] = "idle"
            /\ guards' = IF on THEN guards \cup {f} ELSE guards
            /\ To(f, "running")
            /\ UNCHANGED <<limit, ceiling, on, streak, last, baseline, recent, target, event, row>>

\* Mutant: the guard does nothing.
Abandon_Bridges(f) ==
  /\ stage[f] # "idle" /\ (f \in guards => Unlocked)
  /\ To(f, "idle")
  /\ guards' = guards \ {f}
  /\ IF f \in guards THEN event' = None /\ row' = 0 ELSE UNCHANGED <<event, row>>
  /\ UNCHANGED <<limit, ceiling, on, streak, last, baseline, recent, target>>

\* A forward that is cancelled, fails or is not valid drops its guard.  One that
\* began while the limiter was off has none, and its end is not noticed.
Abandon(f) ==
  /\ stage[f] # "idle" /\ (f \in guards => Unlocked)
  /\ To(f, "idle")
  /\ guards' = guards \ {f}
  /\ IF f \in guards THEN streak' = 0 /\ last' = None /\ event' = None /\ row' = 0
                     ELSE UNCHANGED <<streak, last, event, row>>
  /\ UNCHANGED <<limit, ceiling, on, baseline, recent, target>>

\* observe_completion: when the limiter is on the host is sampled first.
Judge(f) == /\ stage[f] = "running" /\ on
            /\ To(f, "judging")
            /\ UNCHANGED <<limit, ceiling, on, streak, last, baseline, recent, target, guards, event, row>>
Ignore(f) == /\ stage[f] = "running" /\ ~ on /\ Unlocked
             /\ streak' = 0 /\ last' = None /\ event' = None /\ row' = 0
             /\ To(f, "idle")
             /\ guards' = guards \ {f}
             /\ UNCHANGED <<limit, ceiling, on, baseline, recent, target>>

\* Comparable throughput below 70% of the baseline.
Slow(p, tps) ==
  LET known == baseline[KindOf[p]]
  IN /\ known # None
     /\ known.profile = p /\ known.samples >= MinSamples
     /\ 10 * tps < 7 * known.rate

Broken == streak' = 0 /\ event' = None /\ row' = 0

\* A failed call, or pressure on the memory of the host, or a slow completion.  A failed
\* forward ends by dropping its guard; decreases are spaced.
Bad(f) ==
  /\ stage[f] = "judging" /\ Unlocked
  /\ \E failed \in BOOLEAN : IF failed THEN To(f, "failed") /\ UNCHANGED guards
                                       ELSE To(f, "idle") /\ guards' = guards \ {f}
  /\ Broken
  /\ target' = IF recent THEN None ELSE [limit |-> limit \div 2, decrease |-> TRUE]
  /\ UNCHANGED <<limit, ceiling, on, last, baseline, recent>>

\* Nothing comparable: no profile, or a profile and no valid rate.
Unknown(f) ==
  /\ stage[f] = "judging" /\ Unlocked
  /\ Broken
  /\ last' \in {None, last}
  /\ To(f, "idle")
  /\ guards' = guards \ {f}
  /\ UNCHANGED <<limit, ceiling, on, baseline, recent, target>>

\* A new profile replaces the baseline of its task; else the rate moves by a fifth.
Learned(p, tps) ==
  LET known == baseline[KindOf[p]]
  IN IF known = None \/ known.profile # p
       THEN [profile |-> p, rate |-> tps, samples |-> 1]
       ELSE [profile |-> p, rate |-> (8 * known.rate + 2 * tps) \div 10,
             samples |-> Low(known.samples + 1, MinSamples)]

\* Mutant: the profile of the streak is not saved.
InARow_Forgotten(p) == 1
InARow(p) == IF last = p THEN Low(streak + 1, Streak) ELSE 1

Healthy(f, p, tps) ==
  /\ stage[f] = "judging" /\ Unlocked
  /\ ~ Slow(p, tps)
  /\ last' = p
  /\ baseline' = [baseline EXCEPT ![KindOf[p]] = Learned(p, tps)]
  /\ IF InARow(p) >= Streak /\ limit < ceiling
       THEN streak' = 0 /\ target' = [limit |-> limit + 1, decrease |-> FALSE]
       ELSE streak' = InARow(p) /\ UNCHANGED target
  /\ event' = p
  /\ row' = IF event = p THEN Low(row + 1, Streak) ELSE 1
  /\ To(f, "idle")
  /\ guards' = guards \ {f}
  /\ UNCHANGED <<limit, ceiling, on, recent>>

Observe(f) ==
  \/ Unknown(f)
  \/ \E p \in Profiles, response \in Responses :
       LET tps == adaptive_throughput_metric(KindOf[p], response)
       IN tps # None /\ Healthy(f, p, tps)
  \/ Bad(f)

\* set_limit, under the lock of the pool; the lock of the limiter ends with it.
SetLimit ==
  /\ target # None
  /\ limit' = IF target.limit < 1 THEN 1 ELSE Low(target.limit, ceiling)
  /\ recent' = (target.decrease \/ recent)
  /\ row' = 0
  /\ target' = None
  /\ UNCHANGED <<ceiling, on, streak, last, baseline, guards, stage, event>>

\* DECREASE_SPACING passes.
Elapse == /\ recent /\ Unlocked
          /\ recent' = FALSE
          /\ UNCHANGED <<limit, ceiling, on, streak, last, baseline, target, guards, stage, event, row>>

Next == \/ SetCeiling \/ Switch \/ SetLimit \/ Elapse
        \/ \E f \in Forwards : Begin(f) \/ Abandon(f) \/ Judge(f) \/ Ignore(f) \/ Observe(f)

Spec == Init /\ [][Next]_vars

-----------------------------------------------------------------------------
(* Properties *)

\* "Up (+1 unit) after five consecutive comparable healthy rate observations ...
\* incomplete and canceled execution break the recovery streak"
\* (docs/MONITORING.md:183): between two raises there are Streak healthy
\* completions of one profile with nothing else in between that the limiter watches, whichever
\* forwards overlap, and through reloads that move the ceiling or turn it off.
RaiseIsEarned == [][limit' > limit /\ UNCHANGED ceiling => row = Streak]_vars

\* A reduced limit comes back: while the limiter is on and all that completes is
\* healthy and of one profile, the limit reaches its ceiling again and again,
\* although the ceiling keeps moving.
LimitRecovers == \A p \in Profiles : <>[](on /\ event = p) => []<>(limit = ceiling)
=============================================================================
