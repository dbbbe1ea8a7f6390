---------------------------- MODULE ManagedRequest --------------------------
(***************************************************************************)
(* What a managed task becomes before it waits for anything: the checks,   *)
(* the size of its context, how long its runner is kept and the body that  *)
(* is sent (execution/request.rs, context.rs, warming.rs and the first     *)
(* part of run_session_task).  Tokens are counted in units of 512: an      *)
(* input carries the estimate of its texts instead of the texts.  The      *)
(* decision d is the profile of Routing: num_ctx, num_predict and think.   *)
(***************************************************************************)
EXTENDS Integers, FiniteSets

CONSTANTS None,            \* an absent Option
          TemplateMargin,  \* TEMPLATE_MARGIN
          Buckets,         \* the automatic context sizes; the largest is AUTO_CONTEXT_LIMIT
          CpuThreads       \* cpu_num_thread(), None where Ollama chooses

Least(numbers) == CHOOSE n \in numbers : \A o \in numbers : n <= o
Largest(numbers) == CHOOSE n \in numbers : \A o \in numbers : n >= o
Known(a, b) == IF a # None THEN a ELSE b   \* Option::or
Or0(a) == Known(a, 0)

-----------------------------------------------------------------------------
(* Requirements and checks *)

required_capabilities(t) ==
  t.required \cup (IF t.tools # None THEN {"tools"} ELSE {}) \cup (IF t.images THEN {"vision"} ELSE {})

\* An automatic choice reads images only with a policy that vouches for it.
VisionVouched(t, m) == t.images /\ t.model = None => "vision" \in m.qualified

\* The controls that belong to routing, and the ones Ollama would reject.
ControlsAccepted(t) ==
  /\ {"num_ctx", "num_gpu"} \cap DOMAIN t.options = {}
  /\ t.format \in {None, "json", "schema"}
  /\ t.think \in {None, "true", "false", "low", "medium", "high"}
  /\ t.top_logprobs # None => t.logprobs = TRUE
  /\ t.task = "embedding" => <<t.format, t.think, t.logprobs, t.top_logprobs>> = <<None, None, None, None>>

\* The caller's options win over those of the task; None is the refusal.
apply_request_options(t, d) ==
  IF ControlsAccepted(t)
    THEN [d EXCEPT !.num_predict = IF "num_predict" \in DOMAIN t.options THEN t.options["num_predict"] ELSE @,
                   !.think = Known(t.think, @)]
    ELSE None

-----------------------------------------------------------------------------
(* The size of the context *)

has_unestimated_modality(t) == t.task \in {"embedding", "vision"} \/ t.images \/ t.structured

\* An embedding has no messages; a schema counts as text.
Estimate(t) == t.text + Or0(t.tools) + (IF t.format = "schema" THEN t.schema ELSE 0)
\* Media left out, the rest of the messages is what can be estimated.
ScopedEstimate(t) ==
  (IF has_unestimated_modality(t) THEN t.plain ELSE t.text)
    + Or0(t.tools) + (IF t.format = "schema" THEN t.schema ELSE 0)

Sized(mode, tokens) == [mode |-> mode, num_ctx |-> tokens]

\* num_predict as a u64: a negative budget is unbounded and not a number.
OutputBudget(d) == IF d.num_predict # None /\ d.num_predict >= 0 THEN d.num_predict ELSE None

size_scoped_explicit_context(t, d) ==
  IF ScopedEstimate(t) + OutputBudget(d) + TemplateMargin > d.num_ctx THEN None
  ELSE Sized(IF has_unestimated_modality(t) THEN "scope_explicit_multimodal" ELSE "scope_explicit_estimate", d.num_ctx)

\* The smallest size that holds the estimate, up to what the model advertises.
AutomaticContext(t, d, m) ==
  LET required == Estimate(t) + OutputBudget(d) + TemplateMargin
      cap      == Least({Known(m.window, d.num_ctx), Largest(Buckets)})
      enough   == {b \in Buckets : b >= required}
  IN IF required > cap THEN None
     ELSE Sized("prompt_estimate", Least({cap} \cup (IF enough = {} THEN {} ELSE {Least(enough)})))

size_context(t, d, m) ==
  CASE t.operation = "warm" -> Sized("warm_profile", d.num_ctx)
    [] t.operation = "run" /\ t.scoped ->
         CASE OutputBudget(d) \in {None, 0} -> None
           [] OutputBudget(d) \notin {None, 0} /\ t.context # None -> size_scoped_explicit_context(t, d)
           [] OutputBudget(d) \notin {None, 0} /\ t.context = None /\ has_unestimated_modality(t) -> None
           [] OTHER -> AutomaticContext(t, d, m)
    [] OTHER ->
         CASE t.context # None -> Sized("explicit", d.num_ctx)
           [] t.context = None /\ (has_unestimated_modality(t) \/ OutputBudget(d) = None) -> Sized("profile", d.num_ctx)
           [] OTHER -> AutomaticContext(t, d, m)

\* The window of a loaded runner of the same revision that has room to spare.
reuse_resident_context(sized, m, loaded) ==
  IF /\ loaded # None
     /\ m.digest # None /\ loaded.digest = m.digest
     /\ loaded.context # None /\ loaded.context > sized.num_ctx
    THEN loaded.context ELSE None

\* The tier Ollama takes from the free video memory, in GiB.
vram_tier_default_context(gib) == CASE gib >= 47 -> 512 [] gib \in 23..46 -> 64 [] OTHER -> 8

\* The context Ollama loads with when it is not told one, as far as it is known.
ollama_default_context(m, host) ==
  LET told == Known(m.modelfile, Known(host.configured, host.environment))
  IN CASE told # None -> told
       [] told = None /\ (host.placement = "cpu" \/ host.unified \/ host.vram = None) -> None
       [] OTHER -> vram_tier_default_context(IF host.vram > host.overhead THEN host.vram - host.overhead ELSE 0)

\* Mutant: whatever is loaded, the default is left to Ollama.
context_left_to_ollama_Reloads(sized, reused, m, host, resident, loaded) ==
  LET default == ollama_default_context(m, host)
  IN IF /\ host.mode = "ollama_default" /\ sized.mode = "prompt_estimate" /\ reused = None
        /\ default # None /\ default >= sized.num_ctx /\ default <= host.auto_context_max
        /\ default <= Known(m.window, default)
       THEN default ELSE None

\* The default covers the request and no loaded runner would be reloaded by it.
context_left_to_ollama(sized, reused, m, host, resident, loaded) ==
  LET default == ollama_default_context(m, host)
  IN IF /\ host.mode = "ollama_default" /\ sized.mode = "prompt_estimate" /\ reused = None
        /\ default # None /\ default >= sized.num_ctx /\ default <= host.auto_context_max
        /\ default <= Known(m.window, default)
        /\ ~ (resident /\ loaded # None /\ loaded.context \notin {None, default})
       THEN default ELSE None

\* The one local refusal: the file alone is above four fifths of the host.
memory_kv_preflight(m, host) ==
  host.local /\ host.total # None /\ 5 * m.size > 4 * host.total

-----------------------------------------------------------------------------
(* How long the runner is kept *)

requests_immediate_unload(keep) == keep = "0"

Between(n, low, high) == IF n < low THEN low ELSE IF n > high THEN high ELSE n

\* Reuse and a slow load keep a runner longer, pressure shorter (in percent).
duration(policy, usage, holding) ==
  LET wanted == policy.base + usage.recent_uses * policy.reuse_gain + Or0(usage.load) * policy.load_multiplier
  IN Between((wanted * (IF holding THEN policy.pressure ELSE 100)) \div 100, policy.min, policy.max)

\* A caller that wants no residency gets a short one, for the observation.
keep_alive(t, policy, usage, holding) ==
  CASE requests_immediate_unload(t.keep_alive) -> 30
    [] t.keep_alive # None /\ ~ requests_immediate_unload(t.keep_alive) -> t.keep_alive
    [] OTHER -> duration(policy, usage, holding)

-----------------------------------------------------------------------------
(* The body *)

task_cost_for(t, base) == IF t.task = "embedding" THEN ((t.items + 3) \div 4) * base ELSE base

\* What the managed CPU backend adds; the primary one is left alone.
apply_execution_options(t, placement) ==
  [num_gpu    |-> IF placement = "cpu" THEN 0 ELSE None,
   num_thread |-> IF placement # "cpu" \/ CpuThreads = None THEN None
                  ELSE IF "num_thread" \in DOMAIN t.options THEN t.options["num_thread"] ELSE CpuThreads]

\* Where the body goes, None when the task carries nothing to send.
Path(t) ==
  CASE t.operation = "warm" -> "/api/chat"
    [] t.operation = "run" /\ t.task = "embedding" -> IF t.items > 0 THEN "/api/embed" ELSE None
    [] OTHER -> IF t.text > 0 THEN "/api/chat" ELSE None

build_managed_request(t, d, left, host) ==
  [path    |-> Path(t),
   num_ctx |-> IF left # None THEN None ELSE d.num_ctx,
   num_predict |-> d.num_predict,
   think   |-> IF Path(t) = "/api/chat" /\ t.operation = "run" THEN d.think ELSE None,
   stream  |-> Path(t) = "/api/chat" /\ t.operation = "run" /\ t.stop_on_repetition,
   placed  |-> apply_execution_options(t, host.placement)]

\* Mutant: the context is sized before the caller's options are in.
run_session_task_SizesFirst(t, route, m, host, resident, loaded) ==
  LET sized  == size_context(t, route, m)
      d      == apply_request_options(t, route)
      reused == IF resident /\ sized.mode = "prompt_estimate" THEN reuse_resident_context(sized, m, loaded.first) ELSE None
      fitted == [sized EXCEPT !.num_ctx = Known(reused, @)]
      left   == context_left_to_ollama(fitted, reused, m, host, resident, loaded.second)
  IN IF sized = None \/ d = None \/ ~ VisionVouched(t, m) THEN None
     ELSE IF memory_kv_preflight(m, host) THEN None
     ELSE LET body == build_managed_request(t, [d EXCEPT !.num_ctx = Known(left, fitted.num_ctx)], left, host)
          IN IF body.path = None THEN None
             ELSE [mode |-> sized.mode, sized |-> sized.num_ctx, context |-> Known(left, fitted.num_ctx), body |-> body]

\* From the route to the body, None for a refusal.  What is loaded is read
\* twice, and may differ.
run_session_task(t, route, m, host, resident, loaded) ==
  LET d      == apply_request_options(t, route)
      sized  == IF d = None THEN None ELSE size_context(t, d, m)
      reused == IF resident /\ sized.mode = "prompt_estimate" THEN reuse_resident_context(sized, m, loaded.first) ELSE None
      fitted == [sized EXCEPT !.num_ctx = Known(reused, @)]
      left   == context_left_to_ollama(fitted, reused, m, host, resident, loaded.second)
  IN IF sized = None \/ ~ VisionVouched(t, m) THEN None
     ELSE IF memory_kv_preflight(m, host) THEN None
     ELSE LET body == build_managed_request(t, [d EXCEPT !.num_ctx = Known(left, fitted.num_ctx)], left, host)
          IN IF body.path = None THEN None
             ELSE [mode |-> sized.mode, sized |-> sized.num_ctx, context |-> Known(left, fitted.num_ctx), body |-> body]

-----------------------------------------------------------------------------
(* Properties *)

\* A context that was sized holds the prompt, the output budget that is really
\* sent, whoever set it, and the margin; the model's own window holds it too.
SentContextCovers(t, m, prepared) ==
  prepared # None /\ prepared.mode \in {"prompt_estimate", "scope_explicit_estimate"} =>
    /\ Estimate(t) + prepared.body.num_predict + TemplateMargin <= prepared.context
    /\ m.window # None => prepared.context <= m.window

\* A runner of the right revision whose window covers the request is asked for
\* with that window, or Ollama's own default that equals it: an automatic size
\* never makes Ollama reload a warm model.
WarmRunnerKept(m, resident, loaded, prepared) ==
  prepared # None /\ prepared.mode = "prompt_estimate" /\ resident /\ loaded.first = loaded.second =>
    LET runner == loaded.first
    IN runner # None /\ m.digest # None /\ runner.digest = m.digest
         /\ runner.context # None /\ runner.context >= prepared.sized
       => prepared.context = runner.context
=============================================================================
