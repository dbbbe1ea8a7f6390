------------------------------ MODULE Routing -------------------------------
(***************************************************************************)
(* The choice of a model (platform/routing.rs), a pure function of the     *)
(* request, the catalogue and the affinity of the session.  A catalogue is *)
(* a set of models: where the code depends on the order of its slice the   *)
(* names, which are unique, decide.  A name is a pair of numbers, family   *)
(* and tag, ordered as its string is; contexts are counted in Ki tokens.   *)
(* The benchmarks, policies and loops of a model are functions whose       *)
(* domain is what has been measured or configured.                         *)
(***************************************************************************)
EXTENDS Integers, FiniteSets

CONSTANTS None,      \* an absent Option
          Latest,    \* the tag "latest"
          MaxRank,   \* usize::MAX, the rank of a model no policy names
          MaxNumCtx  \* u32::MAX

ranking_capability(task) ==
  CASE task \in {"tools", "browser"} -> "tools"
    [] task \in {"vision", "embedding"} -> task
    [] OTHER -> "completion"

requirements(input) ==
  input.required \cup {ranking_capability(input.task)}
    \cup (IF input.task \in {"tools", "browser", "code_repair"} THEN {"completion", "tools"} ELSE {})

\* LoopRecord::keeps_looping: two loops in at most twice as many runs.
keeps_looping(record) == record.loops >= 2 /\ 2 * record.loops >= record.runs

qualified(m, task) == task \in DOMAIN m.policy_rank
measured(m, task) == ranking_capability(task) \in DOMAIN m.benchmark

general_fallback_fit(m, task) ==
  \/ qualified(m, task)
  \/ ~ (task \in DOMAIN m.observed_loops /\ keeps_looping(m.observed_loops[task]))

-----------------------------------------------------------------------------
(* Which models may serve the request *)

HasRoom(m, input) == input.context = None \/ (m.window # None /\ input.context <= m.window)

CapabilityEligible(input, models) ==
  {m \in models : requirements(input) \subseteq m.capabilities /\ HasRoom(m, input)}

\* Mutant: one policy alone does not restrict a balanced objective.
eligible_for_objective_TwoVouched(input, able) ==
  LET vouched == {m \in able : qualified(m, input.task)}
  IN CASE input.model # None \/ input.objective = "fastest" -> able
       [] Cardinality(vouched) <= 1 /\ input.objective = "balanced" -> able
       [] OTHER -> vouched

\* A quality objective needs a policy; a balanced one does without when no
\* eligible model has one; an empty result is the error of the code.
eligible_for_objective(input, able) ==
  LET vouched == {m \in able : qualified(m, input.task)}
  IN CASE input.model # None \/ input.objective = "fastest" -> able
       [] vouched = {} /\ input.objective = "balanced" -> able
       [] OTHER -> vouched

Eligible(input, models) == eligible_for_objective(input, CapabilityEligible(input, models))

\* The one installed model a name denotes, as a set: exact, latest, or the only
\* tag of the family; a name with a tag is never taken for another one.
installed_model(models, requested) ==
  LET exact  == {m \in models : m.name = requested}
      family == {m \in models : requested[2] = None /\ m.name[1] = requested[1]}
      latest == {m \in family : m.name[2] = Latest}
  IN CASE exact # {} -> exact
       [] exact = {} /\ latest # {} -> latest
       [] exact = {} /\ latest = {} /\ Cardinality(family) = 1 -> family
       [] OTHER -> {}

-----------------------------------------------------------------------------
(* The order of the candidates *)

\* Comparators chained with then_with: the first difference decides.
Above(a, b) == \E i \in DOMAIN a : a[i] > b[i] /\ \A j \in 1..(i - 1) : a[j] = b[j]

One(holds) == IF holds THEN 1 ELSE 0
Fit(m, task) == One(general_fallback_fit(m, task))
Score(m, task) == IF measured(m, task) THEN m.benchmark[ranking_capability(task)] ELSE 0
policy_preference(m, task) == - (IF qualified(m, task) THEN m.policy_rank[task] ELSE MaxRank)

\* l is taken before r.
compare_candidates(l, r, input) ==
  LET t == input.task
      Key(m) ==
        CASE input.objective = "fastest"  -> <<Fit(m, t), Score(m, t), - m.size>>
          [] input.objective = "balanced" -> <<Fit(m, t), One(measured(m, t)), One(m.resident),
                                               Score(m, t), policy_preference(m, t)>>
          [] OTHER                        -> <<policy_preference(m, t)>>
      Names(m) == <<- m.name[1], - m.name[2]>>
  IN Above(Key(l), Key(r)) \/ (Key(l) = Key(r) /\ Above(Names(l), Names(r)))

Best(candidates, input) ==
  {m \in candidates : \A o \in candidates \ {m} : compare_candidates(m, o, input)}

\* Mutant: affinity keeps a model that repeats itself.
Affine_Anyway(input, models, assigned) ==
  {m \in Eligible(input, models) : m.name = assigned}

\* The model the session is bound to, when it is still eligible and fit.
Affine(input, models, assigned) ==
  {m \in Eligible(input, models) : m.name = assigned /\ general_fallback_fit(m, input.task)}

\* The model taken, as a set that is empty when the route is refused.
Chosen(input, models, assigned) ==
  LET eligible == Eligible(input, models)
      affine   == Affine(input, models, assigned)
  IN CASE input.model # None -> installed_model(models, input.model) \cap eligible
       [] input.model = None /\ affine # {} -> affine
       [] OTHER -> Best(eligible, input)

-----------------------------------------------------------------------------
(* The request profile and the grade *)

requested_context(input) ==
  CASE input.context # None -> input.context
    [] input.task \in {"browser", "tools", "code_repair"} -> 8
    [] input.task = "long_context" -> 32
    [] input.task = "embedding" -> 2
    [] OTHER -> 16

thinking_or_off(m, effort) == IF "thinking" \in m.capabilities THEN effort ELSE "off"

Least(numbers) == CHOOSE n \in numbers : \A o \in numbers : n <= o

\* The policy's own options win over those of the task.
profile(input, m) ==
  LET t      == input.task
      policy == IF t \in DOMAIN m.policy_options THEN m.policy_options[t] ELSE [think |-> None, num_predict |-> None]
      effort == IF t \in {"code_repair", "coding", "long_context"} THEN thinking_or_off(m, "medium") ELSE "off"
      length == CASE t = "browser" -> 64 [] t = "tools" -> 256 [] t = "embedding" -> 0
                  [] t \in {"vision", "completion"} -> 512 [] OTHER -> 2048
  IN [num_ctx |-> Least({requested_context(input), MaxNumCtx}
                        \cup (IF m.window = None THEN {} ELSE {m.window})),
      num_predict |-> IF policy.num_predict = None THEN length ELSE policy.num_predict,
      think |-> CASE policy.think = None -> effort
                  [] policy.think = TRUE -> thinking_or_off(m, "on")
                  [] OTHER -> "off",
      strict |-> t \in {"browser", "tools", "code_repair"}]

sent_window_fit(m, options) ==
  CASE m.window = None -> "unknown"
    [] m.window # None /\ options.num_ctx <= m.window -> "fits"
    [] OTHER -> "insufficient_context"

route_evidence(m, task) ==
  [confidence |-> IF qualified(m, task) /\ measured(m, task) THEN "medium" ELSE "low",
   evidence   |-> CASE qualified(m, task) -> "configured_task_policy"
                    [] ~ qualified(m, task) /\ measured(m, task) -> "functional_throughput_screen"
                    [] OTHER -> "capability_metadata_only"]

confidence_rank == [low |-> 1, medium |-> 2]

\* An unknown minimum refuses every route.
enforce_min_confidence(input, grade) ==
  \/ input.min_confidence = None
  \/ /\ input.min_confidence \in DOMAIN confidence_rank
     /\ confidence_rank[grade] >= confidence_rank[input.min_confidence]

\* Why the others lost.
rejected_candidates(input, models, m) ==
  {[name |-> o.name, reason |-> route_evidence(o, input.task).evidence] : o \in Eligible(input, models) \ {m}}

push_selection_reasons(input, m, assigned) ==
  CASE input.model # None -> {"explicit_model"}
    [] input.model = None /\ assigned = m.name -> {"session_affinity"}
    [] OTHER -> {route_evidence(m, input.task).evidence} \cup (IF m.resident THEN {"resident"} ELSE {})

reasons(input, m, assigned) ==
  push_selection_reasons(input, m, assigned)
    \cup (IF input.model = None /\ ~ general_fallback_fit(m, input.task) THEN {"repeats_last_resort"} ELSE {})
    \cup (IF requested_context(input) > profile(input, m).num_ctx THEN {"context_clamped"} ELSE {})

\* The decision, or None for the error.
select_route(input, models, assigned) ==
  LET chosen == Chosen(input, models, assigned)
      m      == CHOOSE x \in chosen : TRUE
  IN IF chosen = {} \/ ~ enforce_min_confidence(input, route_evidence(m, input.task).confidence)
       THEN None
       ELSE [selected |-> m.name,
             options  |-> profile(input, m),
             window   |-> sent_window_fit(m, profile(input, m)),
             grade    |-> route_evidence(m, input.task),
             rejected |-> rejected_candidates(input, models, m),
             reasons  |-> reasons(input, m, assigned)]

-----------------------------------------------------------------------------
(* Properties *)

\* A candidate that lost had no part in the decision: without it, whatever it
\* is, the same model is selected with the same options and the same grade.
\* This needs one order of the candidates for each objective, and a filter by
\* objective that looks at the winner's evidence alone.
LosersDoNotMatter(input, models, assigned) ==
  LET route == select_route(input, models, assigned)
  IN route # None => \A o \in models :
       (\E r \in route.rejected : r.name = o.name)
         => LET less == select_route(input, models \ {o}, assigned)
            IN /\ less # None
               /\ less.selected = route.selected
               /\ less.options = route.options
               /\ less.grade = route.grade

\* An automatic choice, by rank or by affinity, takes a model that keeps
\* repeating itself on this kind of task only when every model that may serve
\* the request does (doc of general_fallback_fit).
RepeatsOnlyAsLastResort(input, models, assigned) ==
  LET route == select_route(input, models, assigned)
  IN route # None /\ input.model = None =>
       \A m \in models : m.name = route.selected /\ ~ general_fallback_fit(m, input.task)
         => \A o \in Eligible(input, models) : ~ general_fallback_fit(o, input.task)
=============================================================================
