----------------------------- MODULE RuntimeFile ----------------------------
(***************************************************************************)
(* The runtime file (runtime/mod.rs, runtime/resolve.rs): what it may say, *)
(* how the tunables are found in it, and what is in force.                 *)
(*                                                                         *)
(* One setting stands for each way a value is found: "ceiling" and "raw"   *)
(* have no environment twin and ignore a zero, "wait" has one, "evict" is  *)
(* a flag, "capacity" is fixed at startup, and "warming" is a policy whose *)
(* fields the environment overrides one by one.                            *)
(***************************************************************************)
EXTENDS Integers, Sequences

CONSTANTS Versions,   \* contents the operator may give the file
          Missing,    \* the content of a file that is not there
          Pinned,     \* settings given on the command line, a partial function
          Env,        \* settings given in the environment, a partial function
          Invalid     \* a value of the environment that does not parse

VARIABLES edits,    \* every content the file has had; the last is in the file
          current,  \* the tunables, behind the RwLock
          pools     \* what was last pushed into the managed and raw pools

-----------------------------------------------------------------------------
(* Resolution *)

Keys == {"ceiling", "raw", "wait", "evict", "capacity", "warming"}
Defaults == [ceiling |-> 4, raw |-> 1, wait |-> 120, evict |-> TRUE, capacity |-> 9,
             warming |-> [min |-> 1, base |-> 2, max |-> 4]]
Positive == {"ceiling", "raw", "wait"}

\* A variable that is set but does not parse counts for the source alone.
FromEnv(k) == k \in DOMAIN Env /\ Env[k] # Invalid
FromFile(k, file) == k \in DOMAIN file /\ (k \in Positive => file[k] > 0)

pick(k, file) ==
  CASE k \in DOMAIN Pinned -> [value |-> Pinned[k], source |-> "cli"]
    [] k \notin DOMAIN Pinned /\ FromEnv(k) -> [value |-> Env[k], source |-> "env"]
    [] OTHER -> [value  |-> IF FromFile(k, file) THEN file[k] ELSE Defaults[k],
                 source |-> CASE k \in DOMAIN Env -> "env_invalid"
                              [] k \notin DOMAIN Env /\ FromFile(k, file) -> "file"
                              [] OTHER -> "default"]

\* env_override!: Env["warming_max"] replaces one field of the policy.
override(policy) ==
  IF FromEnv("warming_max")
    THEN [value |-> [policy.value EXCEPT !.max = Env["warming_max"]], source |-> "env"]
    ELSE policy

resolve(file) ==
  [k \in Keys |-> IF k = "warming" THEN override(pick(k, file)) ELSE pick(k, file)]

validate(policy) == policy.min > 0 /\ policy.min <= policy.base /\ policy.base <= policy.max

\* RuntimeFile::load: a missing file has no settings; one that is not TOML, has
\* an unknown key or a policy that is not valid by itself is an error.
load(content) ==
  CASE content = Missing -> <<>>
    [] content # Missing /\ ("unknown" \in DOMAIN content
         \/ ("warming" \in DOMAIN content /\ ~ validate(content.warming))) -> Invalid
    [] OTHER -> content

\* What apply_tunables gives the pools.
Pushed(tunables) == [managed |-> tunables.ceiling.value, raw |-> tunables.raw.value]

-----------------------------------------------------------------------------
(* Property *)

\* The values in force are those of one whole file that was there and that is
\* valid with what the environment overrides, never of a refused one or of a
\* mixture; the pools are given no value that was never in force.
LastGoodKept ==
  LET Of(i) == resolve(load(edits[i]))
      good == {i \in DOMAIN edits : /\ load(edits[i]) # Invalid
                                     /\ validate(Of(i).warming.value)
                                     /\ Of(i).capacity.value = current.capacity.value}
  IN /\ \E i \in good : current = Of(i)
     /\ \E i, j \in good : pools = [managed |-> Pushed(Of(i)).managed, raw |-> Pushed(Of(j)).raw]
=============================================================================
