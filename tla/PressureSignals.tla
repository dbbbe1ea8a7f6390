-------------------------- MODULE PressureSignals ---------------------------
(***************************************************************************)
(* What the resource governor may be told about the pressure on the host   *)
(* (resources/pressure.rs), one report for each signal or its silence, the *)
(* holds it keeps of it, and what these promise to those who wait.         *)
(***************************************************************************)
EXTENDS Naturals

CONSTANTS Samples,          \* what the host may report
          RecoverySamples   \* recovery_samples

Reasons == {"memory", "os", "load", "thermal", "swap"}
Reports == [memory : {"none", "low", "between", "ample"}, os : {"none", "normal", "warning"},
            load : {"none", "high", "between", "fine"}, thermal : {"none", "on", "off"},
            swap : {"none", "same", "more"}]
Silence == [signal \in Reasons |-> "none"]

ASSUME SamplesAssumption  == Samples \subseteq Reports
ASSUME RecoveryAssumption == RecoverySamples \in Nat \ {0}

VARIABLES
  holds,    \* the reasons to hold work
  last,     \* the saved sample
  well      \* history: samples in a row, up to RecoverySamples, in which
            \* signal r was not seen to be in trouble, nor between thresholds

\* Hysteresis: a hold ends only when its signal has not been in trouble, nor
\* between the two thresholds, for RecoverySamples samples in a row, whatever
\* the other signals did (the retain_mut of snapshot).
EndsWhenWell == [][\A r \in holds \ holds' : well'[r] = RecoverySamples]_<<holds, well>>

\* "A hold whose signal stops being reported ... could otherwise never recover,
\* holding all local work until restart" (governor.rs:74).  The code lets go of
\* it: for every signal but swapping, which is taken to be reported as long as
\* memory is.
QuietHoldsEnd == \A r \in Reasons \ {"swap"} : <>[](last[r] = "none") => []<>(r \notin holds)
=============================================================================
