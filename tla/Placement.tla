------------------------------ MODULE Placement -----------------------------
(***************************************************************************)
(* Which backend serves a managed task (execution/select.rs), the speed    *)
(* that is learned for it (platform/feedback.rs) and what makes a run      *)
(* comparable (profile_from_observations).  The two backends are the       *)
(* primary one, "gpu", and the optional CPU one, "cpu".  A route candidate *)
(* is a record or None; pools are their receipts.                          *)
(***************************************************************************)
EXTENDS Integers, Sequences, FiniteSets

CONSTANTS None,        \* an absent Option
          Unreadable,  \* the answer to /api/ps when there is none
          MinSamples,  \* MIN_FEEDBACK_SAMPLES
          MinGain      \* MIN_FEEDBACK_IMPROVEMENT_PERCENT

Other(backend) == IF backend = "cpu" THEN "gpu" ELSE "cpu"

-----------------------------------------------------------------------------
(* Observed placement *)

\* What /api/ps proves about the processor, from the two sizes.
Processor(size, vram) ==
  CASE vram = 0 -> "cpu"
    [] vram \notin {None, 0} /\ size \notin {None, 0} /\ vram >= size -> "gpu"
    [] vram \notin {None, 0} /\ size \notin {None, 0} /\ vram < size -> "mixed"
    [] OTHER -> "unknown"

physical_placement_observation(requested, size, vram) ==
  LET processor == Processor(size, vram)
  IN [processor |-> processor,
      status    |-> CASE processor = "unknown" -> "unavailable"
                      [] processor = requested -> "verified"
                      [] OTHER -> "mismatch"]

\* After a run: the entry of the model in /api/ps, None when the model is not
\* there, Unreadable when nobody answers.
observe_physical_placement(requested, entry) ==
  CASE entry = Unreadable -> [processor |-> "unknown", status |-> "unavailable", context |-> None, digest |-> None]
    [] entry = None -> [processor |-> "unknown", status |-> "not_resident", context |-> None, digest |-> None]
    [] OTHER -> LET seen == physical_placement_observation(requested, entry.size, entry.vram)
                IN [processor |-> seen.processor, status |-> seen.status,
                    context |-> entry.context, digest |-> entry.digest]

\* An unload is reported as done only when the model is seen to be gone.
unload_after_observation(answered, entry) ==
  IF answered /\ observe_physical_placement("gpu", entry).status = "not_resident" THEN "verified" ELSE "failed"

-----------------------------------------------------------------------------
(* Which runs are comparable *)

\* The counters of the pool that must not move while a run is measured.
unchanged_admission_interval(start, end) == start = end

\* The key under which speed is learned, None with any of the doubts the code
\* names; nothing but this serial, warm run was on the backend.
profile_from_observations(e) ==
  IF /\ e.placement.status = "verified"
     /\ e.placement.digest # None /\ e.catalog_digest = e.placement.digest
     /\ e.placement.context \notin {None, 0} /\ e.body.num_ctx = e.placement.context
     /\ e.warm
     /\ e.dispatch.in_flight = 1 /\ unchanged_admission_interval(e.dispatch, e.completion)
     /\ e.dispatch_settings # None /\ e.completion_settings = e.dispatch_settings
    THEN [task |-> e.task, model |-> e.model, digest |-> e.placement.digest,
          processor |-> e.placement.processor, context |-> e.placement.context,
          controls |-> e.body, settings |-> e.dispatch_settings,
          limit |-> e.dispatch.slots_total, units |-> e.dispatch.active_units]
    ELSE None

\* The charge of AdmissionState::charge: at least one, at most the limit.
Charge(cost, total) == IF cost < 1 THEN 1 ELSE IF cost > total THEN total ELSE cost

Receipt(total, units, running) == [slots_total |-> total, active_units |-> units, in_flight |-> running]

\* What forward_managed_task makes of a run: a resident one alone at dispatch,
\* with the counters and the settings read before and after.
CompletedProfile(run) ==
  LET alone == run.mode = "resident_shared" /\ run.dispatch.in_flight = 1
      settings == IF alone THEN run.settings_before ELSE None
  IN profile_from_observations(
       [task |-> run.task, model |-> run.model, catalog_digest |-> run.catalog_digest, body |-> run.body,
        placement |-> observe_physical_placement(run.placement, run.entry),
        dispatch |-> run.dispatch, completion |-> run.completion,
        dispatch_settings |-> settings,
        completion_settings |-> IF settings # None /\ unchanged_admission_interval(run.dispatch, run.completion)
                                  THEN run.settings_after ELSE None,
        warm |-> run.mode = "resident_shared"])

\* Mutant: the cost that was asked for stands for the one that is charged.
Prospective_Uncapped(total, cost) == Receipt(total, cost, 1)

\* The receipt the pool would show if the task were alone on it.
Prospective(total, cost) == Receipt(total, Charge(cost, total), 1)

\* The profile a candidate would be learned under, asked on an idle backend
\* for a task with an explicit context.
routing_profile(ask) ==
  IF /\ ask.context # None /\ ask.operation # "warm"
     /\ ask.before.in_flight = 0 /\ ask.before.active_units = 0
     /\ ask.settings # None /\ ask.entry \notin {None, Unreadable}
     /\ unchanged_admission_interval(ask.before, ask.after)
    THEN LET then == Prospective(ask.before.slots_total, ask.cost)
         IN profile_from_observations(
              [task |-> ask.task, model |-> ask.model, catalog_digest |-> ask.catalog_digest, body |-> ask.body,
               placement |-> observe_physical_placement(ask.placement, ask.entry),
               dispatch |-> then, completion |-> then,
               dispatch_settings |-> ask.settings, completion_settings |-> ask.settings, warm |-> TRUE])
    ELSE None

\* The run the request becomes when nothing else happens on its backend: it is
\* charged by the pool, finds its runner resident and is alone throughout.
Served(ask) ==
  LET alone == Receipt(ask.before.slots_total, Charge(ask.cost, ask.before.slots_total), 1)
  IN [task |-> ask.task, model |-> ask.model, catalog_digest |-> ask.catalog_digest, body |-> ask.body,
      placement |-> ask.placement, entry |-> ask.entry, mode |-> "resident_shared",
      dispatch |-> alone, completion |-> alone, settings_before |-> ask.settings, settings_after |-> ask.settings]

-----------------------------------------------------------------------------
(* What is learned *)

NoStats == [model |-> None, completed |-> 0, profile |-> None, samples |-> 0, total |-> 0]

\* A run of another model starts the record over, profile and all.
record(stats, model) ==
  [(IF stats.model \in {None, model} THEN stats ELSE NoStats) EXCEPT !.model = model, !.completed = @ + 1]

\* Mutant: the samples of another profile are kept.
record_profile_Mixes(stats, profile, work) ==
  [stats EXCEPT !.profile = profile, !.samples = @ + 1, !.total = @ + work]

\* One profile per task: a sample of another one starts a new average.
record_profile(stats, profile, work) ==
  LET kept == stats.profile = profile
  IN [stats EXCEPT !.profile = profile,
                   !.samples = (IF kept THEN @ ELSE 0) + 1,
                   !.total   = (IF kept THEN @ ELSE 0) + work]

average_for_profile(stats, profile) ==
  IF stats.profile = profile /\ stats.samples >= MinSamples /\ stats.total > 0
    THEN stats.total \div stats.samples ELSE None

\* One accepted completion, as forward_managed_task records it: the placement
\* was verified, the profile and the work may be unknown.
Learn(stats, run) ==
  LET seen == record(stats, run.model)
  IN IF run.profile # None /\ run.work # None THEN record_profile(seen, run.profile, run.work) ELSE seen

LearnAll(runs) ==
  LET after[n \in 0..Len(runs)] == IF n = 0 THEN NoStats ELSE Learn(after[n - 1], runs[n])
  IN after[Len(runs)]

-----------------------------------------------------------------------------
(* The choice of the backend *)

meaningfully_faster(candidate, baseline) == candidate * 100 < baseline * (100 - MinGain)

\* The backend that is asked for unless only the other one is free.
Leaning(ready, backend, reason) ==
  IF ready[backend] \/ ~ ready[Other(backend)] THEN <<backend, reason>>
  ELSE <<Other(backend), "backend_capacity_available">>

desired_placement(s) ==
  LET ready == [gpu |-> s.free.gpu >= s.cost.gpu, cpu |-> s.cpu_configured /\ s.free.cpu >= s.cost.cpu]
      faster == {b \in {"gpu", "cpu"} : s.work.gpu # None /\ s.work.cpu # None
                                           /\ meaningfully_faster(s.work[b], s.work[Other(b)])}
  IN CASE s.preference = "prefer_cpu" -> Leaning(ready, "cpu", "preferred_backend_eligible")
       [] s.preference = "prefer_gpu" -> Leaning(ready, "gpu", "preferred_backend_eligible")
       [] s.preference = "auto" /\ (s.pinned \/ s.objective = "quality") -> None
       [] OTHER -> CASE faster # {} -> Leaning(ready, CHOOSE b \in faster : TRUE, "measured_backend_faster")
                     [] faster = {} /\ ready.gpu # ready.cpu ->
                          <<IF ready.cpu THEN "cpu" ELSE "gpu", "backend_capacity_available">>
                     [] OTHER -> None

\* Scores are looked up for an automatic placement with a throughput objective
\* and a candidate on each side.
matching_route_profile_scores(in, stats, asks) ==
  IF in.pinned \/ in.preference # "auto" \/ in.objective \notin {"fastest", "balanced"}
       \/ None \in {in.candidate.gpu, in.candidate.cpu}
    THEN [gpu |-> None, cpu |-> None]
    ELSE [b \in {"gpu", "cpu"} |->
            LET profile == routing_profile(asks[b])
            IN IF profile = None THEN None ELSE average_for_profile(stats[b], profile)]

\* The route: the candidate of the desired backend, or the router's own choice
\* among all models when there is none; None for an error.
select_managed_route(in, stats, asks) ==
  LET desired == desired_placement([pinned |-> in.pinned, objective |-> in.objective, preference |-> in.preference,
                    work |-> matching_route_profile_scores(in, stats, asks), free |-> in.free,
                    cost |-> [b \in {"gpu", "cpu"} |-> Charge(in.cost, in.total[b])], cpu_configured |-> in.cpu_configured])
      preferred == IF desired = None \/ in.pinned THEN None ELSE in.candidate[desired[1]]
      route     == IF preferred # None THEN preferred ELSE in.default
  IN IF route = None THEN None
     ELSE IF in.evidence = "observed"
               /\ physical_placement_observation(route.backend, route.size, route.vram).status # "verified"
            THEN None
     ELSE [route     |-> route,
           reason    |-> CASE in.explicit -> "explicit_model"
                           [] ~ in.explicit /\ in.pinned -> "session_affinity"
                           [] ~ in.pinned /\ preferred # None -> desired[2]
                           [] ~ in.pinned /\ preferred = None /\ desired # None -> "preferred_backend_unavailable_or_ineligible"
                           [] OTHER -> "router_default",
           satisfied |-> in.preference \in {"auto", "prefer_" \o route.backend}]

-----------------------------------------------------------------------------
(* Properties *)

\* A run that nothing disturbed is recorded under the very profile the router
\* asks about for the next request of its kind, so what is learned is found
\* again; one during which the pool or the settings moved is not recorded.
LearnedIsFound(ask, completion, after) ==
  LET asked == routing_profile(ask)
      moved == [Served(ask) EXCEPT !.completion = completion, !.settings_after = after]
  IN asked # None =>
       /\ CompletedProfile(Served(ask)) = asked
       /\ moved # Served(ask) => CompletedProfile(moved) = None

\* An automatic placement leaves the router's own choice for two reasons only:
\* on enough undisturbed runs of this very request the other backend was
\* faster by the margin, or it is free while the chosen one is not.
PlacementIsEarned(in, runs, asks) ==
  LET d == select_managed_route(in, [b \in {"gpu", "cpu"} |-> LearnAll(runs[b])], asks)
      own(b) == {i \in DOMAIN runs[b] : runs[b][i].profile = routing_profile(asks[b]) /\ runs[b][i].work # None}
      free(b) == in.free[b] >= Charge(in.cost, in.total[b]) /\ (b = "cpu" => in.cpu_configured)
      faster(b, o) ==
        /\ Cardinality(own(b)) >= MinSamples /\ Cardinality(own(o)) >= MinSamples
        /\ \E i \in own(b), j \in own(o) : meaningfully_faster(runs[b][i].work, runs[o][j].work)
  IN d # None /\ d.route # in.default /\ in.preference = "auto" =>
       /\ ~ in.pinned /\ in.objective # "quality"
       /\ \/ faster(d.route.backend, Other(d.route.backend))
          \/ free(d.route.backend) /\ ~ free(Other(d.route.backend))
=============================================================================
