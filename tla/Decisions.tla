------------------------------ MODULE Decisions -----------------------------
(***************************************************************************)
(* The pure decisions of the gateway: one action per decision takes any of *)
(* the inputs it is given and keeps what was asked and what was decided;   *)
(* the invariants judge the kept record.                                   *)
(***************************************************************************)
EXTENDS Integers, Sequences, FiniteSets

CONSTANTS
  None, Latest, MaxRank, MaxNumCtx,        \* Routing
  MaxExactCandidates,                      \* ResidencyPlan
  TemplateMargin, Buckets, CpuThreads,     \* ManagedRequest
  Unreadable, MinSamples, MinGain,         \* Placement
  MaxPeriod, ScanWindow, MinSpan, MinCut   \* Repetition

CONSTANTS
  RouteInputs, Catalogues, Assignments,    \* what is asked of routing, and of which models
  RunnerSets, Loads,                       \* runners that are there, and loads that need room
  TaskInputs, Windows, Runners, Hosts,     \* requests, what is known of their model, the hosts
  Asks, LaterSettings, InFlight,           \* requests that may be learned from, and their runs
  Placings, Histories, ReadyAsk,           \* placements, what was learned, what they ask for
  Texts                                    \* outputs

VARIABLE case

Ro == INSTANCE Routing
Re == INSTANCE ResidencyPlan
Rq == INSTANCE ManagedRequest
Pl == INSTANCE Placement
Rp == INSTANCE Repetition

-----------------------------------------------------------------------------
(* What is taken for granted of the inputs: their types, the names that are *)
(* unique in a catalogue, the largest size there is for a context.          *)

Option(S) == S \cup {None}

Names == Nat \X Nat
Efforts == {"off", "on", "medium"}
Evidence == {"configured_task_policy", "functional_throughput_screen", "capability_metadata_only"}
Routes == [selected : Names,
           options  : [num_ctx : Nat, num_predict : Nat, think : Efforts, strict : BOOLEAN],
           window   : {"unknown", "fits", "insufficient_context"},
           grade    : [confidence : {"low", "medium"}, evidence : Evidence],
           rejected : SUBSET [name : Names, reason : Evidence],
           reasons  : SUBSET (Evidence \cup {"explicit_model", "session_affinity", "resident",
                                             "repeats_last_resort", "context_clamped"})]

Loops == [unique_prefix : Nat, period : Nat, repeated : Nat]

\* What is absent is neither a number nor a route nor a loop.
ASSUME NoneAssumption == None \notin Int /\ None \notin Routes /\ None \notin Loops

IsCatalogue(models) ==
  /\ IsFiniteSet(models)
  /\ \A m, o \in models : m.name = o.name => m = o
  /\ \A m \in models :
       /\ m.name \in Names /\ m.size \in Nat /\ m.window \in Option(Nat)
       /\ \A c \in DOMAIN m.benchmark : m.benchmark[c] \in Nat
       /\ \A t \in DOMAIN m.policy_rank : m.policy_rank[t] \in Nat
       /\ \A t \in DOMAIN m.policy_options : m.policy_options[t].num_predict \in Option(Nat)

ASSUME RoutingAssumption ==
  /\ {MaxRank, MaxNumCtx} \subseteq Nat
  /\ \A models \in Catalogues : IsCatalogue(models)
  /\ \A input \in RouteInputs : input.context \in Option(Nat)

\* What /api/ps lists has an end and its sizes are unsigned, as is what a load needs;
\* a runner that is not left alone has no reason why.
IsRunnerSet(ps) ==
  /\ IsFiniteSet(ps)
  /\ \A r \in ps : /\ {r.name, r.size, r.vram, r.weight, r.uses} \subseteq Nat
                   /\ r.load \in Option(Nat)

Refusals == {"target", "pinned", "keep_alive_forever", "loading", "busy", "frees_nothing_needed"}

ASSUME RoomAssumption ==
  /\ None \notin Refusals
  /\ \A ps \in RunnerSets : IsRunnerSet(ps)
  /\ \A load \in Loads : /\ {load.full, load.host.available, load.host.reserve} \subseteq Nat
                         /\ load.gpu.free \in Option(Nat)

ASSUME SizesAssumption ==
  /\ TemplateMargin \in Nat /\ Buckets \subseteq Nat
  /\ \E b \in Buckets : \A o \in Buckets : b >= o

IsTask(t) == /\ {t.text, t.plain, t.schema} \subseteq Nat
             /\ {t.tools, t.context} \subseteq Option(Nat)
             /\ "num_predict" \in DOMAIN t.options => t.options["num_predict"] \in Int
IsHost(h) == /\ {h.configured, h.environment} \subseteq Option(Nat)
             /\ h.overhead \in Nat /\ h.vram \in Option(Nat)

ASSUME RequestAssumption ==
  /\ \A t \in TaskInputs : IsTask(t)
  /\ \A h \in Hosts : IsHost(h)
  /\ Windows \subseteq Option(Nat)
  /\ \A r \in Runners \ {None} : r.context \in Nat

\* The window holds a loop of the longest unit that is stopped, whole or cut.
ASSUME RepetitionAssumption ==
  /\ {MaxPeriod, ScanWindow, MinSpan, MinCut} \subseteq Nat
  /\ ScanWindow >= 2 * MaxPeriod /\ ScanWindow >= MinSpan /\ ScanWindow >= MaxPeriod + MinCut
  /\ \A text \in Texts : text \in Seq({text[i] : i \in DOMAIN text})

\* A gain is a part of the whole; a candidate is one of its backend, and the work of
\* a run that was measured a number.
Backends == {"gpu", "cpu"}
ASSUME PlacementAssumption ==
  /\ MinSamples \in Nat \ {0} /\ MinGain \in 0..100
  /\ \A in \in Placings : \A b \in Backends : in.candidate[b] = None \/ in.candidate[b].backend = b
  /\ \A b \in Backends : \A runs \in Histories[b] :
       /\ runs \in Seq({runs[i] : i \in DOMAIN runs})
       /\ \A i \in DOMAIN runs : runs[i].work \in Option(Nat)

-----------------------------------------------------------------------------
(* The decisions *)

Route ==
  \E models \in Catalogues, input \in RouteInputs, assigned \in Assignments :
    case' = [kind |-> "route", input |-> input, models |-> models, assigned |-> assigned]

MakeRoom ==
  \E ps \in RunnerSets, load \in Loads :
    case' = [kind |-> "room", rounds |-> Re!make_room(ps, load.keep, load.full, load.gpu, load.host)]

\* Ollama never loads a model with more than the model's own window, and routing
\* gives no more than it.
Request ==
  \E t \in TaskInputs, window \in Windows, host \in Hosts, resident \in BOOLEAN,
     first \in Runners, gone \in BOOLEAN :
    LET m     == [digest |-> "d1", window |-> window, modelfile |-> None, size |-> 8, qualified |-> {"vision"}]
        route == [num_ctx |-> Rq!Least({IF t.context = None THEN 8 ELSE t.context} \cup ({window} \ {None})),
                  num_predict |-> 2, think |-> "off"]
        seen  == [first |-> first, second |-> IF gone THEN None ELSE first]
    IN /\ first # None /\ window # None => first.context <= window
       /\ case' = [kind |-> "request", task |-> t, model |-> m, resident |-> resident, loaded |-> seen,
                   prepared |-> Rq!run_session_task(t, route, m, host, resident, seen)]

Compare ==
  \E ask \in Asks, later \in LaterSettings, running \in InFlight :
    LET total == ask.before.slots_total
    IN case' = [kind |-> "compare", ask |-> ask, later |-> later,
                completion |-> Pl!Receipt(total, Pl!Charge(ask.cost, total), running)]

Place ==
  \E in \in Placings, g \in Histories["gpu"], c \in Histories["cpu"] :
    case' = [kind |-> "place", in |-> in, runs |-> [gpu |-> g, cpu |-> c]]

Output == \E text \in Texts : case' = [kind |-> "text", text |-> text]

Init == case = [kind |-> "none"]
Next == case.kind = "none" /\ (Route \/ MakeRoom \/ Request \/ Compare \/ Place \/ Output)
Spec == Init /\ [][Next]_case

-----------------------------------------------------------------------------
(* What the decisions promise *)

LosersDoNotMatter == case.kind = "route" => Ro!LosersDoNotMatter(case.input, case.models, case.assigned)
RepeatsOnlyAsLastResort == case.kind = "route" => Ro!RepeatsOnlyAsLastResort(case.input, case.models, case.assigned)
UnloadsWhatIsNeeded == case.kind = "room" => Re!UnloadsWhatIsNeeded(case.rounds)
SentContextCovers == case.kind = "request" => Rq!SentContextCovers(case.task, case.model, case.prepared)
WarmRunnerKept == case.kind = "request" => Rq!WarmRunnerKept(case.model, case.resident, case.loaded, case.prepared)
EarliestLoopIsFound == case.kind = "text" => Rp!EarliestLoopIsFound(case.text)
LearnedIsFound == case.kind = "compare" => Pl!LearnedIsFound(case.ask, case.completion, case.later)
PlacementIsEarned == case.kind = "place" => Pl!PlacementIsEarned(case.in, case.runs, ReadyAsk)
=============================================================================
