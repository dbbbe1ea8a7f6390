----------------------------- MODULE MCServices -----------------------------
(***************************************************************************)
(* Values of the constants of Services: small instances that share a run.  *)
(***************************************************************************)
EXTENDS Services, TLC

Only(signals) == {s \in Reports : \A r \in Reasons \ signals : s[r] = "none"}

\* Memory and swap in every combination but swap alone, load beside a shortage of
\* memory or its silence; the OS and the heat are judged as load is, with one threshold.
MCSamples == {s \in Only({"memory", "swap"}) : s.memory # "none" \/ s.swap = "none"}
             \cup {s \in Only({"memory", "load"}) : s.memory \in {"none", "low"}}

Item(class, id) == [id |-> ToString(id), class |-> class, defer |-> FALSE, independent |-> TRUE]
Of(width, classes) == [tasks |-> [i \in DOMAIN classes |-> Item(classes[i], i)], max_parallelism |-> width]
Alone(item) == [tasks |-> <<item>>, max_parallelism |-> None]

\* Batches in which every class waits, one after the other or side by side, and
\* those that are refused.
MCBatches == {Of(0, <<2, 0, 0, 1, 0, 1, 0>>), Of(2, <<1, 0, 2, 0>>), Of(None, <<1, 0, 0>>), Of(9, <<>>),
              [tasks |-> <<Item(0, 1), Item(1, 1)>>, max_parallelism |-> None], Alone([Item(0, 1) EXCEPT !.defer = TRUE]),
              Alone([Item(0, 1) EXCEPT !.independent = FALSE])}

\* Refused: another capacity, and a policy that the environment makes invalid.
\* Accepted, each with limits of its own: both limits, a zero beside a policy that
\* the environment leaves valid, and no file.
MCVersions == {"ceiling" :> 6 @@ "capacity" :> 5,
               "warming" :> [min |-> 1, base |-> 3, max |-> 3],
               "ceiling" :> 5 @@ "raw" :> 3,
               "ceiling" :> 0 @@ "raw" :> 2 @@ "warming" :> [min |-> 1, base |-> 2, max |-> 3],
               Missing}
MCPinned == "wait" :> 7
MCEnv == "wait" :> 8 @@ "evict" :> FALSE @@ "capacity" :> Invalid @@ "warming_max" :> 2

\* Two tokens a second, one, and a count that is missing.
Timed(count) == [total_duration |-> 100, prompt_eval_count |-> count, eval_duration |-> 100, eval_count |-> count]
MCResponses == {Timed(2), Timed(1), Timed(None)}

MCForwards == {"f1", "f2"}
MCProfiles == {"p1", "p2"}
MCKindOf == [p \in MCProfiles |-> "completion"]
MCCeilings == {1, 2}

\* The backend of the CPU is asked for a model that both have.
MCInstalled == "gpu" :> {"b"} @@ "cpu" :> {"b"}
MCShares == 0 :> 3 @@ 1 :> 2 @@ 2 :> 1
=============================================================================
