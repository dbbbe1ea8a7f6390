------------------------------ MODULE Services ------------------------------
(***************************************************************************)
(* The services of the gateway that share no state with each other, side   *)
(* by side: a behaviour is one of a single service, which is chosen at the *)
(* start, and the others stay as they begin.                               *)
(***************************************************************************)
EXTENDS Breaker, PressureSignals, Footprint, RuntimeFile

CONSTANTS
  Forwards, Profiles, KindOf, Responses, Second, Ceilings, Streak, MinSamples,  \* Adaptive
  Completions, Viewers, Contexts, Bytes, MaxRestarts,                           \* Learning
  Callers, Installed, CpuModels,                                                \* Catalogue
  Batches, MaxItems, DefaultWidth, Shares,                                      \* Batch
  Reloaders, MaxEdits                                                           \* Settings

\* A ceiling is at least one (set_ceiling of admission.rs), as is the streak.
ASSUME CeilingsAssumption == Ceilings \subseteq Nat \ {0}
ASSUME StreakAssumption   == Streak \in Nat \ {0}

\* An Option that is absent is no time.
ASSUME NoneAssumption == None \notin Nat

\* The classes are few, every one has a share, and every item of a batch has a class.
ASSUME SharesAssumption  == /\ IsFiniteSet(DOMAIN Shares) /\ DOMAIN Shares \subseteq Nat
                            /\ Shares \in [DOMAIN Shares -> Nat \ {0}]
ASSUME BatchesAssumption == \A b \in Batches : b.tasks \in Seq([id : STRING, class : DOMAIN Shares,
                                                             defer : BOOLEAN, independent : BOOLEAN])

VARIABLES
  service,
  healthy, aged,
  limit, ceiling, on, streak, profile, baseline, recent, target, guards, stage, event, row,
  samples, generation, persisted, age, save, feedback, stored, copy, wrote, told, failing,
  writing, restarts,
  loaded, cache, fresh, filler, at, ps, models, answer, beheld,
  items, asked, pending, credits, running, outcomes, results, passed, state,
  modified, failed, step, seen, held, clashed

Ho == INSTANCE PressureHolds
Ad == INSTANCE Adaptive WITH last <- profile
Le == INSTANCE Learning WITH Tasks <- Completions, pc <- writing
Ca == INSTANCE Catalogue
Ba == INSTANCE Batch
Se == INSTANCE Settings WITH pc <- step

-----------------------------------------------------------------------------
(* One service at a time *)

hoVars == <<holds, healthy, aged, last, well>>
adVars == <<limit, ceiling, on, streak, profile, baseline, recent, target, guards, stage, event, row>>
leVars == <<samples, generation, persisted, disk, age, save, feedback, stored, copy, wrote, told,
            failing, writing, restarts>>
caVars == <<loaded, cache, fresh, filler, at, ps, models, answer, beheld>>
baVars == <<items, asked, pending, credits, running, outcomes, results, passed, state>>
seVars == <<edits, current, modified, failed, pools, step, seen, held, clashed>>
AllVars == <<service, vars, hoVars, adVars, leVars, caVars, baVars, seVars>>

\* A service that is not chosen begins in one of its initial states.
StandingFile == CHOOSE v \in Versions : load(v) # Invalid /\ validate(resolve(load(v)).warming.value)
StandingBatch == CHOOSE b \in Batches : TRUE
ServicesInit ==
  /\ service \in {"breaker", "holds", "adaptive", "learning", "catalogue", "batch", "settings"}
  /\ Init /\ Ho!Init /\ Ad!Init /\ Le!Init /\ Ca!Init /\ Ba!Init /\ Se!Init
  /\ service # "adaptive" => ceiling = (CHOOSE c \in Ceilings : TRUE) /\ on
  /\ service # "batch" => items = StandingBatch.tasks /\ asked = StandingBatch.max_parallelism
  /\ service # "settings" => edits = <<StandingFile>>

Breakers   == /\ service = "breaker" /\ Next
              /\ UNCHANGED <<service, hoVars, adVars, leVars, caVars, baVars, seVars>>
Pressures  == /\ service = "holds" /\ Ho!Next
              /\ UNCHANGED <<service, vars, adVars, leVars, caVars, baVars, seVars>>
Limiters   == /\ service = "adaptive" /\ Ad!Next
              /\ UNCHANGED <<service, vars, hoVars, leVars, caVars, baVars, seVars>>
Learnings  == /\ service = "learning" /\ Le!Next
              /\ UNCHANGED <<service, vars, hoVars, adVars, caVars, baVars, seVars>>
Catalogues == /\ service = "catalogue" /\ Ca!Next
              /\ UNCHANGED <<service, vars, hoVars, adVars, leVars, baVars, seVars>>
Batching   == /\ service = "batch" /\ Ba!Next
              /\ UNCHANGED <<service, vars, hoVars, adVars, leVars, caVars, seVars>>
Reloading  == /\ service = "settings" /\ Se!Next
              /\ UNCHANGED <<service, vars, hoVars, adVars, leVars, caVars, baVars>>

ServicesNext == Breakers \/ Pressures \/ Limiters \/ Learnings \/ Catalogues \/ Batching \/ Reloading

\* The fairness of each service, while it is the one that runs: tasks have
\* deadlines, time passes, the host is sampled again and again, requests keep
\* coming, and a completion that has begun to be judged goes on.
ServicesFairness ==
  /\ WF_circuit(service = "breaker" /\ Cool)
  /\ \A t \in Tasks : WF_pc(service = "breaker" /\ Moves(t))
  /\ WF_hoVars(service = "holds" /\ Ho!Sample)
  /\ \A r \in Reasons : WF_hoVars(service = "holds" /\ Ho!Age(r))
  /\ WF_adVars(service = "adaptive" /\ Ad!SetLimit)
  /\ \A f \in Forwards :
       WF_adVars(service = "adaptive" /\ (Ad!Begin(f) \/ Ad!Judge(f) \/ Ad!Observe(f)))

ServicesSpec == ServicesInit /\ [][ServicesNext]_AllVars /\ ServicesFairness

-----------------------------------------------------------------------------
(* What the services promise; each formula is about the variables of one *)

RaiseIsEarned       == Ad!RaiseIsEarned
LimitRecovers       == Ad!LimitRecovers
FreshResidency      == Ca!FreshResidency
FairStart           == Ba!FairStart
EveryItemAnswered   == Ba!EveryItemAnswered
SettledMeansApplied == Se!SettledMeansApplied
=============================================================================
