----------------------------- MODULE MCDecisions ----------------------------
(***************************************************************************)
(* The inputs of Decisions: small sets in which every branch is taken.     *)
(***************************************************************************)
EXTENDS Decisions, TLC

-----------------------------------------------------------------------------
(* Routing: three models, two of one family *)

ModelOf(name, size, resident, window, caps, bench, rank, loops) ==
  [name |-> name, size |-> size, resident |-> resident, window |-> window,
   capabilities |-> {"completion"} \cup caps,
   benchmark |-> IF bench = 0 THEN <<>> ELSE "completion" :> bench,
   policy_rank |-> IF rank = 0 THEN <<>> ELSE "coding" :> rank,
   policy_options |-> IF rank = 2 THEN "coding" :> [think |-> TRUE, num_predict |-> 1] ELSE <<>>,
   observed_loops |-> IF loops = 0 THEN <<>> ELSE "coding" :> [runs |-> 4, loops |-> loops]]
AnyModel(name) ==
  {ModelOf(name, 1, resident, window, {"thinking"}, bench, 0, loops) :
     resident \in BOOLEAN, window \in {None, 8}, bench \in 0..2, loops \in {0, 2}}
  \cup {ModelOf(name, 2, FALSE, 16, {"tools"}, bench, rank, loops) : bench \in 0..1, rank \in 1..2, loops \in 1..2}
SomeModel(name) == {ModelOf(name, 1, resident, 16, {}, bench, rank, 0) : resident \in BOOLEAN, bench \in {0, 2}, rank \in 0..1}
FewModel(name) == {ModelOf(name, 3, FALSE, 16, {"tools"}, bench, 0, loops) : bench \in 0..1, loops \in {0, 2}}

MCCatalogues == {{a, b, c} : a \in AnyModel(<<1, 1>>), b \in SomeModel(<<1, Latest>>), c \in FewModel(<<2, 1>>)}
MCRouteInputs ==
  [task : {"coding", "tools"}, model : Option({<<1, None>>}), required : {{}}, context : Option({16}),
   objective : {"fastest", "balanced", "quality"}, min_confidence : Option({"medium"})]
MCAssignments == Option({<<2, 1>>})

-----------------------------------------------------------------------------
(* Residency: two idle runners of any value and one that may be spared *)

Runner(name, size, vram, weight, load) ==
  [name |-> name, size |-> size, vram |-> vram, weight |-> weight, load |-> load,
   uses |-> 0, active |-> 0, pinned |-> FALSE, expiry |-> "later"]
IdleRunner(name) ==
  {Runner(name, size, vram, weight, load) :
     size \in 1..2, vram \in 0..1, weight \in 0..1, load \in Option({3})}
ThirdRunner ==
  LET r == Runner(3, 2, 1, 1, None)
  IN {r, [r EXCEPT !.pinned = TRUE], [r EXCEPT !.expiry = "forever"],
      [r EXCEPT !.expiry = "zero"], [r EXCEPT !.active = 1], [r EXCEPT !.uses = 2]}

MCRunnerSets == {{a, b, c} : a \in IdleRunner(1), b \in IdleRunner(2), c \in ThirdRunner}
MCLoads ==
  [keep : {1, 4}, full : 1..3, gpu : [free : Option(0..1), total : Option({2})],
   host : [available : {0, 2}, reserve : {1}, verdict : {"memory_hold", "fits"}]]

-----------------------------------------------------------------------------
(* Requests: texts, schemas and budgets around the sizes *)

CallerOptions == {<<>>, "num_predict" :> 4, "num_predict" :> -1, "num_ctx" :> 4}
ChatTasks ==
  [operation : {"run"}, task : {"coding"}, model : {None}, required : {{}}, images : BOOLEAN, structured : {FALSE},
   scoped : BOOLEAN, context : Option({8}), text : {1, 4, 9}, plain : {1}, tools : Option({1}), schema : {1},
   format : Option({"schema"}), think : {None}, logprobs : {None}, top_logprobs : {None}, options : CallerOptions,
   items : {0}, stop_on_repetition : {TRUE}, keep_alive : {None}]
OtherTasks ==
  [operation : {"run", "warm"}, task : {"embedding"}, model : {<<1, 1>>}, required : {{}}, images : {FALSE},
   structured : {FALSE}, scoped : {FALSE}, context : Option({8}), text : {0}, plain : {0}, tools : {None}, schema : {1},
   format : Option({"json"}), think : {None}, logprobs : {None}, top_logprobs : Option({2}), options : CallerOptions,
   items : {0, 5}, stop_on_repetition : {FALSE}, keep_alive : {"0"}]

MCTaskInputs == ChatTasks \cup OtherTasks
MCWindows == {None, 6, 16}
MCRunners == Option([digest : {"d1"}, context : {4, 8, 16}] \cup [digest : {"d2", None}, context : {16}])
MCHosts ==
  [mode : {"ollama_default", "explicit"}, auto_context_max : {8, 16}, placement : {"gpu"}, configured : Option({8}),
   environment : {None}, unified : {FALSE}, vram : {8}, overhead : {0}, local : {TRUE}, total : {10}]

-----------------------------------------------------------------------------
(* Placement: what is asked and what was learned *)

Entries == {None, Unreadable} \cup [size : {2}, vram : Option(0..2), context : {4, 8}, digest : {"d1", "d2"}]
AskOf(placement, entry, context, total, units, cost, settings, moved) ==
  [task |-> "coding", operation |-> "run", model |-> placement, catalog_digest |-> "d1", body |-> [num_ctx |-> 4],
   placement |-> placement, entry |-> entry, context |-> context, cost |-> cost, settings |-> settings,
   before |-> Pl!Receipt(total, units, units),
   after |-> Pl!Receipt(total, IF moved THEN units + 1 ELSE units, units)]
MCAsks ==
  {AskOf(placement, entry, context, total, units, cost, settings, moved) :
     placement \in {"gpu", "cpu"}, entry \in Entries, context \in Option({4}), total \in 1..2, units \in 0..1,
     cost \in 0..3, settings \in Option({"s1"}), moved \in BOOLEAN}
MCLaterSettings == Option({"s1", "s2"})
MCInFlight == 1..2

Ready(b) == AskOf(b, [size |-> 2, vram |-> IF b = "gpu" THEN 2 ELSE 0, context |-> 4, digest |-> "d1"], 4, 2, 0, 1, "s1", FALSE)
MCReadyAsk == [b \in {"gpu", "cpu"} |-> Ready(b)]
Candidate(b) == [backend |-> b, size |-> 2, vram |-> IF b = "gpu" THEN 2 ELSE 1]
Asked(b) == Pl!routing_profile(Ready(b))
Profiles(b) == {Asked(b), [Asked(b) EXCEPT !.context = 8]}
Runs(b) == [model : {b}, profile : Profiles(b) \cup {None}, work : {1, 5}] \cup [model : {"m"}, profile : {Asked(b)}, work : {1}]
MCHistories ==
  [b \in {"gpu", "cpu"} |-> {<<>>} \cup [1..2 -> Runs(b)] \cup [1..3 -> [model : {b}, profile : Profiles(b), work : {5}]]]
PlacingOf(pinned, objective, preference, gpu, cpu, evidence, default, there) ==
  [pinned |-> pinned, explicit |-> FALSE, objective |-> objective, preference |-> preference,
   free |-> [gpu |-> gpu, cpu |-> cpu], total |-> [gpu |-> 2, cpu |-> 2], cost |-> 3,
   cpu_configured |-> "cpu" \in there, evidence |-> evidence, default |-> Candidate(default),
   candidate |-> [gpu |-> Candidate("gpu"), cpu |-> IF "cpu" \in there THEN Candidate("cpu") ELSE None]]
MCPlacings ==
  UNION {{PlacingOf(pinned, objective, preference, gpu, cpu, evidence, default, there) :
            pinned \in BOOLEAN, objective \in {"fastest", "quality"}, preference \in {"auto", "prefer_cpu"},
            gpu \in {0, 2}, cpu \in {0, 2}, evidence \in {"configured", "observed"}, default \in there} :
         there \in {{"gpu"}, {"gpu", "cpu"}}}

-----------------------------------------------------------------------------
(* Repetition: every text of two characters *)

MCTexts == UNION {[1..n -> {"a", "b"}] : n \in 0..12}
=============================================================================
