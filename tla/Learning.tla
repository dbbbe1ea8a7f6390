------------------------------ MODULE Learning ------------------------------
(***************************************************************************)
(* What the gateway learns from its completions and keeps in two files:    *)
(* the measured sizes of runners (footprint.rs, observed by a completion   *)
(* and by the view of the loaded models) and the placement feedback        *)
(* (feedback.rs and the end of forward_managed_task).  Each snapshot is    *)
(* taken under a lock and written by a thread of its own after the lock is *)
(* given back; a process may end between any two steps.  A writer goes on  *)
(* when its task is dropped, so a dropped task is one that reports late.   *)
(***************************************************************************)
EXTENDS Footprint, FiniteSets

CONSTANTS Tasks,        \* completions
          Viewers,      \* requests for the loaded models
          Contexts, Bytes,  \* what /api/ps may say of a runner
          MaxRestarts   \* bound on the restarts

Hints == from_lookup([parallel |-> None, flash |-> FALSE, cache |-> None])
Writers == Tasks \cup Viewers

VARIABLES
  samples,     \* FootprintHistory::samples
  generation,  \* snapshots taken by this process
  persisted,   \* the newest generation this process has written
  age,         \* history: changes that `samples` reflects, over all processes
  save,        \* save[w]: the FootprintSave of w, [samples, generation, age]
  feedback,    \* completions the feedback reflects
  stored,      \* the feedback file, the completions it reflects
  copy,        \* copy[t]: the snapshot t has taken of the feedback
  wrote,       \* wrote[t]: whether the write of t went well
  told,        \* told[t]: what the receipt of t says about its persistence
  failing,     \* feedback_persistence_error
  pc,
  restarts

footprints == <<samples, generation, persisted, disk, age, save>>
feedbacks == <<feedback, stored, copy, wrote, told, failing>>
vars == <<footprints, feedbacks, pc, restarts>>

Init == /\ samples = <<>> /\ generation = 0 /\ persisted = 0 /\ age = 0
        /\ disk = [samples |-> <<>>, age |-> 0]
        /\ save = [w \in Writers |-> None]
        /\ feedback = {} /\ stored = {} /\ failing = FALSE
        /\ copy = [t \in Tasks |-> {}]
        /\ wrote = [t \in Tasks |-> FALSE]
        /\ told = [t \in Tasks |-> None]
        /\ pc = [w \in Writers |-> "running"]
        /\ restarts = 0

Goto(w, l) == pc' = [pc EXCEPT ![w] = l]
Runner(context, bytes) == [digest |-> "d", status |-> "verified", context |-> context, size |-> bytes]

-----------------------------------------------------------------------------
(* Runner sizes *)

\* snapshot, under the lock of the history.
Observe(w, known) ==
  IF ~ known.changed
    THEN UNCHANGED <<samples, generation, age, save>>
    ELSE /\ samples' = known.samples
         /\ generation' = generation + 1
         /\ age' = age + 1
         /\ save' = [save EXCEPT ![w] = [samples |-> known.samples, generation |-> generation + 1, age |-> age + 1]]

\* Where a writer goes on when its save is over.
AfterSave(w) == IF w \in Tasks THEN "saved" ELSE "done"

\* A completion whose placement is verified measures its runner, when the
\* catalogue knows the digest; a viewer measures whatever is loaded.
Completed(t) ==
  /\ pc[t] = "running"
  /\ \E c \in Contexts, b \in Bytes, digest \in {"d", None} :
       Observe(t, observe(samples, "gpu", digest, Hints, Runner(c, b)))
  /\ Goto(t, IF save'[t] = None THEN AfterSave(t) ELSE "saving")
  /\ UNCHANGED <<persisted, disk, feedbacks, restarts>>
Viewed(v) ==
  /\ pc[v] = "running"
  /\ \E c1, c2 \in Contexts, b \in Bytes :
       Observe(v, observe_resident(samples, "gpu", Hints, <<Runner(c1, b), Runner(c2, b)>>))
  /\ Goto(v, IF save'[v] = None THEN AfterSave(v) ELSE "saving")
  /\ UNCHANGED <<persisted, disk, feedbacks, restarts>>

\* Mutant: whichever writer is last has the file.
Save_Always(w) ==
  /\ pc[w] = "saving"
  /\ disk' = [samples |-> save[w].samples, age |-> save[w].age]
  /\ persisted' = save[w].generation
  /\ save' = [save EXCEPT ![w] = None]
  /\ Goto(w, AfterSave(w))
  /\ UNCHANGED <<samples, generation, age, feedbacks, restarts>>

\* write, under the lock of `persisted`: the file is replaced unless a newer
\* snapshot is in it already.
Save(w) ==
  /\ pc[w] = "saving"
  /\ IF persisted >= save[w].generation THEN UNCHANGED <<disk, persisted>>
     ELSE /\ disk' = [samples |-> save[w].samples, age |-> save[w].age]
          /\ persisted' = save[w].generation
  /\ save' = [save EXCEPT ![w] = None]
  /\ Goto(w, AfterSave(w))
  /\ UNCHANGED <<samples, generation, age, feedbacks, restarts>>

\* The disk refuses; an older snapshot may still be written later.
SaveFails(w) ==
  /\ pc[w] = "saving"
  /\ persisted < save[w].generation
  /\ save' = [save EXCEPT ![w] = None]
  /\ Goto(w, AfterSave(w))
  /\ UNCHANGED <<samples, generation, persisted, disk, age, feedbacks, restarts>>

-----------------------------------------------------------------------------
(* Placement feedback *)

\* A verified placement is recorded and the whole feedback is copied, under
\* its lock; one that is not verified has no size either, and nothing is written.
Record(t) ==
  /\ pc[t] = "saved"
  /\ feedback' = feedback \cup {t}
  /\ copy' = [copy EXCEPT ![t] = feedback \cup {t}]
  /\ Goto(t, "copied")
  /\ UNCHANGED <<footprints, stored, wrote, told, failing, restarts>>
Reject(t) ==
  /\ pc[t] = "running"
  /\ told' = [told EXCEPT ![t] = "sample_not_accepted"]
  /\ Goto(t, "done")
  /\ UNCHANGED <<footprints, feedback, stored, copy, wrote, failing, restarts>>

\* persist_feedback: a temporary file, synced and renamed, or an error.
Persist(t) ==
  /\ pc[t] = "copied"
  /\ \E ok \in BOOLEAN :
       /\ wrote' = [wrote EXCEPT ![t] = ok]
       /\ stored' = IF ok THEN copy[t] ELSE stored
  /\ Goto(t, "written")
  /\ UNCHANGED <<footprints, feedback, copy, told, failing, restarts>>

Report(t) ==
  /\ pc[t] = "written"
  /\ failing' = ~ wrote[t]
  /\ told' = [told EXCEPT ![t] = IF wrote[t] THEN "persisted" ELSE "error"]
  /\ Goto(t, "done")
  /\ UNCHANGED <<footprints, feedback, stored, copy, wrote, restarts>>

-----------------------------------------------------------------------------
\* A file that is not there, or a history that cannot be read, is an empty one.
with_file == samples' = disk.samples /\ age' = disk.age /\ generation' = 0 /\ persisted' = 0
load_feedback == feedback' = stored /\ failing' = FALSE

\* The process ends, whatever is under way, and starts again from the files.
Restart ==
  /\ restarts < MaxRestarts
  /\ restarts' = restarts + 1
  /\ with_file
  /\ load_feedback
  /\ save' = [w \in Writers |-> None]
  /\ copy' = [t \in Tasks |-> {}]
  /\ pc' = [w \in Writers |-> IF pc[w] = "running" THEN "running" ELSE "done"]
  /\ UNCHANGED <<disk, stored, wrote, told>>

Next == \/ \E t \in Tasks : Completed(t) \/ Record(t) \/ Reject(t) \/ Persist(t) \/ Report(t)
        \/ \E v \in Viewers : Viewed(v)
        \/ \E w \in Writers : Save(w) \/ SaveFails(w)
        \/ Restart

Spec == Init /\ [][Next]_vars

-----------------------------------------------------------------------------
(* Properties *)

\* A completion whose receipt says that its feedback is persisted is in the
\* file, and so in what a restart reloads ("Persisted placement feedback is
\* reloaded", docs/ARCHITECTURE.md:606).
PersistedIsReloaded == \A t \in Tasks : told[t] = "persisted" => t \in stored
=============================================================================
