------------------------------ MODULE Footprint -----------------------------
(***************************************************************************)
(* What a runner is expected to need (platform/footprint.rs): the sizes    *)
(* Ollama has measured, one per backend, revision, context and setting,    *)
(* oldest first, and the estimate made from them.  A model has its file    *)
(* size and, when its metadata gives one, the size `kv` of its cache for   *)
(* a unit of context.                                                      *)
(***************************************************************************)
EXTENDS Integers, Sequences, SequencesExt

CONSTANTS None,          \* an absent Option
          HistoryLimit   \* HISTORY_LIMIT

VARIABLE disk   \* footprints.json, [samples, age]; age is history: how many changes it reflects

Sizes(numbers) == CHOOSE n \in numbers : \A o \in numbers : n >= o
Measures(samples) == {samples[i] : i \in DOMAIN samples}

\* The settings a size depends on: KV caches are one per parallel slot, and a
\* quantized cache needs flash attention.
from_lookup(env) ==
  [parallel |-> IF env.parallel \in {None, 0} THEN 1 ELSE env.parallel,
   percent  |-> CASE env.flash /\ env.cache = "q8_0" -> 50
                  [] env.flash /\ env.cache = "q4_0" -> 25
                  [] OTHER -> 100]

taken_under(s, backend, digest, hints) == s.backend = backend /\ s.digest = digest /\ s.hints = hints

\* A measurement that counts: verified, of the revision asked for, and a number.
Verified(digest, seen) ==
  /\ digest # None /\ seen.digest = digest /\ seen.status = "verified"
  /\ seen.context \notin {None, 0} /\ seen.size \notin {None, 0}

Same(s, backend, digest, hints, context) == taken_under(s, backend, digest, hints) /\ s.context = context

\* Whether a measurement is larger than what is known, and changes the history.
Grows(samples, backend, digest, hints, seen) ==
  /\ Verified(digest, seen)
  /\ \A s \in Measures(samples) : Same(s, backend, digest, hints, seen.context) => s.bytes < seen.size

\* The history, and whether it has changed, after a measurement: one that counts
\* is last, in the place of the one it replaces.
record(known, backend, digest, hints, seen) ==
  IF ~ Grows(known.samples, backend, digest, hints, seen) THEN known
  ELSE LET kept == SelectSeq(known.samples, LAMBDA s : ~ Same(s, backend, digest, hints, seen.context))
           all  == Append(kept, [backend |-> backend, digest |-> digest, context |-> seen.context,
                                 bytes |-> seen.size, hints |-> hints])
       IN [samples |-> SubSeq(all, IF Len(all) > HistoryLimit THEN Len(all) - HistoryLimit + 1 ELSE 1, Len(all)),
           changed |-> TRUE]

\* One verified observation.
observe(samples, backend, digest, hints, seen) ==
  record([samples |-> samples, changed |-> FALSE], backend, digest, hints, seen)

\* Every resident runner of /api/ps, in order; each is its own witness.
observe_resident(samples, backend, hints, ps) ==
  FoldLeft(LAMBDA known, entry : record(known, backend, entry.digest, hints, [entry EXCEPT !.status = "verified"]),
           [samples |-> samples, changed |-> FALSE], ps)

\* A loaded runner that is large enough needs nothing more.
Warm(m, context, current) ==
  /\ current # None /\ current.context # None /\ current.context >= context
  /\ m.digest # None /\ current.digest = m.digest

KvOf(m, context, hints) == ((m.kv * context * hints.parallel) \div 100) * hints.percent

\* The estimate: the largest size measured at this context or above, else the
\* one of the next smaller context with the cache that is missing, else the file with
\* its cache, or a quarter for it, and a tenth for the graph.
requirement(samples, backend, m, context, hints, current) ==
  LET comparable == {s \in Measures(samples) : m.digest # None /\ taken_under(s, backend, m.digest, hints)}
      enough  == {s.bytes : s \in {c \in comparable : c.context >= context}}
      smaller == {c \in comparable : c.context < context}
      base    == CHOOSE s \in smaller : \A o \in smaller : s.context >= o.context
  IN CASE Warm(m, context, current) -> 0
       [] ~ Warm(m, context, current) /\ enough # {} -> Sizes(enough)
       [] ~ Warm(m, context, current) /\ enough = {} /\ m.kv # None /\ smaller # {} ->
            base.bytes + KvOf(m, context - base.context, hints)
       [] OTHER -> m.size + (IF m.kv = None THEN (m.size \div 100) * 25 ELSE KvOf(m, context, hints))
                     + (m.size \div 100) * 10

-----------------------------------------------------------------------------
(* Property *)

\* "A slow write of an older snapshot never replaces a newer file"
\* (footprint.rs:29): the sizes on disk never become older, whichever writer is
\* slow, fails or dies, and over restarts.
FileNeverGoesBack == [][disk'.age >= disk.age]_disk
=============================================================================
