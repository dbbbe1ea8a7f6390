--------------------------- MODULE PressureHolds ----------------------------
(***************************************************************************)
(* The pressure holds of the resource governor (resources/pressure.rs and  *)
(* ResourceGovernor::snapshot).  Every fresh sample of the host triggers   *)
(* holds and recovers others, each signal for itself; a hold ends after    *)
(* RecoverySamples healthy samples in a row.                               *)
(*                                                                         *)
(* A sample says of each signal where it lies between the thresholds of    *)
(* the policy, or "none" when the host did not report it.  Memory is "low" *)
(* below the hold reserve and "ample" from the resume reserve on; load is  *)
(* "high" from the hold threshold and "fine" up to the resume threshold.   *)
(***************************************************************************)
EXTENDS PressureSignals

VARIABLES
  healthy,  \* healthy[r]: healthy samples in a row of hold r
  aged      \* holds that began MAX_UNOBSERVED_HOLD ago or earlier

vars == <<holds, healthy, aged, last, well>>

\* swap_grew: pages are counted in this sample and in the one before.
SwapGrew(s) == IF last.swap = "none" THEN "none" ELSE s.swap

pressure_reasons(s) ==
  {r \in Reasons : CASE r = "memory"  -> s.memory = "low"
                     [] r = "os"      -> s.os = "warning"
                     [] r = "load"    -> s.load = "high"
                     [] r = "thermal" -> s.thermal = "on"
                     [] r = "swap"    -> SwapGrew(s) = "more" /\ s.memory \in {"low", "between"}}

recovered_reason(r, s) ==
  CASE r = "memory"  -> s.memory = "ample"
    [] r = "os"      -> s.os = "normal"
    [] r = "load"    -> s.load = "fine"
    [] r = "thermal" -> s.thermal = "off"
    [] r = "swap"    -> SwapGrew(s) = "same" /\ s.memory = "ample"

\* Active swapping is judged reported by the available memory alone.
reason_observed(r, s) == s[IF r = "swap" THEN "memory" ELSE r] # "none"

\* Mutant: a hold never grows too old.
Recovering_Seen(s) == {r \in holds \ pressure_reasons(s) : recovered_reason(r, s)}
\* Holds that this sample counts as healthy: recovered, or old and not reported.
Recovering(s) == {r \in holds \ pressure_reasons(s) :
                    \/ recovered_reason(r, s)
                    \/ r \in aged /\ ~ reason_observed(r, s)}

Over(s) == {r \in Recovering(s) : healthy[r] + 1 >= RecoverySamples}

\* Mutant: the count stays when a sample is not healthy.
Count_Kept(s) == [r \in Reasons |-> IF r \notin holds \/ r \in Over(s) THEN 0
                                    ELSE IF r \in Recovering(s) THEN healthy[r] + 1 ELSE healthy[r]]
Count(s) == [r \in Reasons |-> IF r \in Recovering(s) \ Over(s) THEN healthy[r] + 1 ELSE 0]

Troubled(r, s) == \/ r \in pressure_reasons(s)
                  \/ reason_observed(r, s) /\ ~ recovered_reason(r, s)

Init == /\ holds = {}
        /\ healthy = [r \in Reasons |-> 0]
        /\ aged = {}
        /\ last = Silence
        /\ well = [r \in Reasons |-> 0]

\* A fresh sample.  One that is cached changes nothing.
snapshot(s) ==
  /\ holds' = (holds \cup pressure_reasons(s)) \ Over(s)
  /\ healthy' = Count(s)
  /\ aged' = aged \ Over(s)
  /\ last' = s
  /\ well' = [r \in Reasons |-> IF Troubled(r, s) THEN 0
                                ELSE IF well[r] < RecoverySamples THEN well[r] + 1 ELSE well[r]]

\* MAX_UNOBSERVED_HOLD passes, counted from the beginning of the hold.
Age(r) == /\ r \in holds \ aged
          /\ aged' = aged \cup {r}
          /\ UNCHANGED <<holds, healthy, last, well>>

Sample == \E s \in Samples : snapshot(s)
Next == Sample \/ \E r \in Reasons : Age(r)

Spec == Init /\ [][Next]_vars

\* A waiting request samples again and again, and so does the monitor; old
\* holds grow older.
FairSpec == Spec /\ WF_vars(Sample) /\ \A r \in Reasons : WF_vars(Age(r))

-----------------------------------------------------------------------------
(* Properties *)

\* Only a hold has a count, and it ends before the count reaches its bound.
TypeOK == /\ holds \in SUBSET Reasons
          /\ healthy \in [Reasons -> 0 .. RecoverySamples - 1]
          /\ \A r \in Reasons \ holds : healthy[r] = 0
          /\ aged \in SUBSET holds
          /\ last \in Samples \cup {Silence}
          /\ well \in [Reasons -> 0 .. RecoverySamples]
=============================================================================
