---------------------------- MODULE ResidencyPlan ---------------------------
(***************************************************************************)
(* Which idle runners are unloaded for a load (platform/residency.rs), and *)
(* how much is asked of them (make_room of execution/memory.rs).  A runner *)
(* is a record of /api/ps with what ModelActivity knows of its model; a    *)
(* cost is a number in half seconds.                                       *)
(***************************************************************************)
EXTENDS Integers, FiniteSets, FiniteSetsExt

CONSTANTS None,               \* an absent Option
          MaxExactCandidates  \* MAX_EXACT_CANDIDATES, 14 in the code

Minus(a, b) == IF a > b THEN a - b ELSE 0   \* saturating_sub
AtLeast(a, b) == IF a > b THEN a ELSE b

-----------------------------------------------------------------------------
(* Candidates *)

\* Expected cost of losing a runner: the time to load it again, measured or
\* from its size, how much it is used, and the operator's weight.
reload(r) == IF r.load = None THEN r.size ELSE r.load
cost(r) == r.weight * AtLeast(reload(r), 1) * (1 + r.uses)

Freed(r, freed) == CASE freed = "total" -> r.size
                     [] freed = "vram"  -> r.vram
                     [] freed = "spill" -> Minus(r.size, r.vram)

\* Why a runner is left alone, None for a candidate.
Skipped(r, in) ==
  IF r.name = in.keep THEN "target"
  ELSE IF r.pinned THEN "pinned"
  ELSE IF r.expiry = "forever" THEN "keep_alive_forever"
  ELSE IF r.expiry = "zero" THEN "loading"
  ELSE IF r.active > 0 THEN "busy"
  ELSE IF Freed(r, in.freed) = 0 THEN "frees_nothing_needed"
  ELSE None

Candidates(ps, in) == {r \in ps : Skipped(r, in) = None}

Bytes(runners, freed) == MapThenSumSet(LAMBDA r : Freed(r, freed), runners)
Cost(runners) == MapThenSumSet(cost, runners)

-----------------------------------------------------------------------------
(* The two searches *)

Covering(candidates, in) ==
  {S \in SUBSET candidates : S # {} /\ Bytes(S, in.freed) >= in.shortfall}

\* Mutant: between sets of the same cost the larger one is taken.
Better_MoreRunners(S, T, in) ==
  \/ Cost(S) < Cost(T)
  \/ Cost(S) = Cost(T) /\ Cardinality(S) > Cardinality(T)

\* Lower cost, then fewer runners, then less beyond the shortfall.
Better(S, T, in) ==
  \/ Cost(S) < Cost(T)
  \/ /\ Cost(S) = Cost(T)
     /\ \/ Cardinality(S) < Cardinality(T)
        \/ Cardinality(S) = Cardinality(T) /\ Bytes(S, in.freed) < Bytes(T, in.freed)

cheapest_covering_set(candidates, in) ==
  CHOOSE S \in Covering(candidates, in) : \A T \in Covering(candidates, in) : ~ Better(T, S, in)

\* r comes before o by cost per byte; the name stands for the place in the list.
Cheaper(r, o, in) ==
  LET a == cost(r) * Freed(o, in.freed)
      b == cost(o) * Freed(r, in.freed)
  IN a < b \/ (a = b /\ r.name < o.name)

\* The cheapest per byte, up to the first that makes the sum large enough.
greedy_covering_set(candidates, in) ==
  {r \in candidates : Bytes({o \in candidates : Cheaper(o, r, in)}, in.freed) < in.shortfall}

plan(ps, in) ==
  LET able  == Candidates(ps, in)
      total == Bytes(able, in.freed)
  IN [victims |-> CASE in.shortfall = 0 -> {}
                    [] in.shortfall > 0 /\ total < in.shortfall -> able
                    [] in.shortfall > 0 /\ total >= in.shortfall /\ Cardinality(able) <= MaxExactCandidates
                         -> cheapest_covering_set(able, in)
                    [] OTHER -> greedy_covering_set(able, in),
      covers  |-> total >= in.shortfall]

-----------------------------------------------------------------------------
(* make_room: what is asked for *)

\* The part of a runner charged to host memory when a discrete GPU has `free`
\* bytes of its own, or nobody knows how many.
apply_discrete_gpu_budget(full, free) == IF free = None THEN full ELSE Minus(full, free)

\* Video memory is emptied only for a model the whole GPU can hold; a resident
\* copy at another context gives its own share back.
GpuShortfall(full, free, own, gpuTotal) ==
  IF free = None \/ (gpuTotal # None /\ full > gpuTotal) THEN 0 ELSE Minus(full, free + own)

\* A host that refuses for want of memory, or warns of it, asks its idle
\* runners; one that is held for another reason does not.
HostShortfall(needed, available, reserve, verdict) ==
  IF needed > 0 /\ verdict \in {"memory_hold", "insufficient", "advisory"}
    THEN Minus(needed + reserve, available) ELSE 0

\* The two rounds of make_room with evict_idle_models on, each with what it asked for: the runners on the
\* device first, and the footprint measured again before the host's.
make_room(ps, keep, full, gpu, host) ==
  LET own    == Bytes({r \in ps : r.name = keep}, "vram")
      device == [keep |-> keep, freed |-> "vram", shortfall |-> GpuShortfall(full, gpu.free, own, gpu.total)]
      first  == plan(ps, device)
      left   == ps \ first.victims
      free   == IF gpu.free = None THEN None ELSE gpu.free + Bytes(first.victims, "vram")
      memory == [keep |-> keep, freed |-> IF gpu.free = None THEN "total" ELSE "spill",
                 shortfall |-> HostShortfall(apply_discrete_gpu_budget(full, free),
                                 host.available + Bytes(first.victims, "spill"), host.reserve, host.verdict)]
  IN <<[in |-> device, ps |-> ps, plan |-> first], [in |-> memory, ps |-> left, plan |-> plan(left, memory)]>>

-----------------------------------------------------------------------------
(* Properties *)

\* A round that can free what it asked for does, and when it chose exactly it
\* names no runner it could do without: one whose loss costs nothing (weight
\* zero) is not unloaded on the side, and the host asks for nothing that the
\* device's round has freed.
UnloadsWhatIsNeeded(rounds) ==
  \A i \in DOMAIN rounds :
    LET round   == rounds[i]
        victims == round.plan.victims
    IN round.plan.covers =>
         /\ Bytes(victims, round.in.freed) >= round.in.shortfall
         /\ Cardinality(Candidates(round.ps, round.in)) <= MaxExactCandidates =>
              \A r \in victims : Bytes(victims \ {r}, round.in.freed) < round.in.shortfall
=============================================================================
