--------------------------- MODULE LearningProofs ---------------------------
(***************************************************************************)
(* Proofs about the files of what the gateway learns, for any completions, *)
(* viewers, sizes and number of restarts.  What a measurement does to the  *)
(* history plays no part in them: only the generations do.                 *)
(***************************************************************************)
EXTENDS Learning, WellFoundedInduction, TLAPS

-----------------------------------------------------------------------------
(* The file of the sizes *)

\* A snapshot under way is one this process took, and is as old as the number
\* of its generation says.
Counted(s) == /\ s.generation \in Nat /\ s.generation <= generation
              /\ s.age \in Nat
              /\ s.age + generation = age + s.generation

\* The file holds the generation `persisted` of this process, or what the
\* process began with.
FileInv == /\ generation \in Nat /\ persisted \in Nat /\ age \in Nat /\ disk.age \in Nat
           /\ persisted <= generation
           /\ disk.age + generation = age + persisted

SaveInv == /\ save = [w \in Writers |-> save[w]]
           /\ pc = [w \in Writers |-> pc[w]]
           /\ \A w \in Writers : pc[w] = "running" => save[w] = None
           /\ \A w \in Writers : pc[w] = "saving" => Counted(save[w])

Inv == FileInv /\ SaveInv

LEMMA InitInv == Init => Inv
  BY DEF Init, Inv, FileInv, SaveInv

\* A measurement, of a completion or of a viewer.
LEMMA ObserveStep ==
  ASSUME Inv, NEW w \in Writers, NEW known, pc[w] = "running", Observe(w, known),
         Goto(w, IF save'[w] = None THEN AfterSave(w) ELSE "saving"),
         UNCHANGED <<persisted, disk>>
  PROVE  Inv'
<1>. USE DEF Inv
<1>1. AfterSave(w) \notin {"running", "saving"}
  BY DEF AfterSave
<1>2. pc' = [pc EXCEPT ![w] = IF save'[w] = None THEN AfterSave(w) ELSE "saving"]
  BY DEF Goto
<1>3. CASE ~ known.changed
  <2>1. UNCHANGED <<generation, age, save>>
    BY <1>3 DEF Observe
  <2>2. save[w] = None
    BY DEF SaveInv
  <2>. QED  BY <1>1, <1>2, <2>1, <2>2 DEF FileInv, SaveInv, Counted
<1>4. CASE known.changed
  <2>. DEFINE new == [samples |-> known.samples, generation |-> generation + 1, age |-> age + 1]
  <2>1. generation' = generation + 1 /\ age' = age + 1 /\ save' = [save EXCEPT ![w] = new]
    BY <1>4 DEF Observe
  <2>2. FileInv'
    BY <2>1 DEF FileInv
  <2>3. new.generation = generation + 1 /\ new.age = age + 1
    OBVIOUS
  <2>4. /\ new.generation \in Nat /\ new.generation <= generation'
        /\ new.age \in Nat /\ new.age + generation' = age' + new.generation
    BY <2>1, <2>3 DEF FileInv
  <2>5. \A o \in Writers : save'[o] = IF o = w THEN new ELSE save[o]
    BY <2>1 DEF SaveInv
  <2>6. \A o \in Writers : o # w => pc'[o] = pc[o]
    BY <1>2 DEF SaveInv
  <2>7. pc'[w] # "running"
    BY <1>1, <1>2 DEF SaveInv
  <2>8. ASSUME NEW o \in Writers, pc'[o] = "running" PROVE save'[o] = None
    BY <2>5, <2>6, <2>7, <2>8 DEF SaveInv
  <2>9. ASSUME NEW o \in Writers, pc'[o] = "saving" PROVE Counted(save[o])'
    <3>1. CASE o = w
      BY <2>4, <2>5, <3>1 DEF Counted
    <3>2. CASE o # w
      BY <2>1, <2>5, <2>6, <2>9, <3>2 DEF Counted, SaveInv, FileInv
    <3>. QED  BY <3>1, <3>2
  <2>10. save' = [o \in Writers |-> save'[o]] /\ pc' = [o \in Writers |-> pc'[o]]
    BY <1>2, <2>1 DEF SaveInv
  <2>. QED  BY <2>2, <2>8, <2>9, <2>10 DEF SaveInv
<1>. QED  BY <1>3, <1>4

\* The end of a save, with or without the file.
LEMMA SaveStep ==
  ASSUME Inv, NEW w \in Writers, Save(w) \/ SaveFails(w)
  PROVE  Inv' /\ disk'.age >= disk.age
<1>. USE DEF Inv
<1>1. /\ pc' = [pc EXCEPT ![w] = AfterSave(w)] /\ AfterSave(w) \notin {"running", "saving"}
      /\ save' = [save EXCEPT ![w] = None]
      /\ UNCHANGED <<generation, age>>
  BY DEF Save, SaveFails, AfterSave, Goto
<1>2. Counted(save[w])
  BY DEF SaveInv, Save, SaveFails
<1>3. \/ UNCHANGED <<disk, persisted>>
      \/ /\ persisted' = save[w].generation /\ disk'.age = save[w].age
         /\ ~ (persisted >= save[w].generation)
  BY DEF Save, SaveFails
<1>4. FileInv' /\ disk'.age >= disk.age
  BY <1>1, <1>2, <1>3 DEF FileInv, Counted
<1>5. SaveInv'
  BY <1>1 DEF SaveInv, Counted
<1>. QED  BY <1>4, <1>5

LEMMA InvStep == Inv /\ [Next]_vars => Inv' /\ [disk'.age >= disk.age]_disk
<1>. SUFFICES ASSUME Inv, [Next]_vars PROVE Inv' /\ [disk'.age >= disk.age]_disk
  OBVIOUS
<1>1. ASSUME NEW t \in Tasks, Completed(t)
      PROVE  Inv' /\ UNCHANGED disk
  <2>1. PICK known : Observe(t, known)
    BY <1>1 DEF Completed
  <2>. QED  BY <1>1, <2>1, ObserveStep DEF Completed, Writers
<1>2. ASSUME NEW v \in Viewers, Viewed(v)
      PROVE  Inv' /\ UNCHANGED disk
  <2>1. PICK known : Observe(v, known)
    BY <1>2 DEF Viewed
  <2>. QED  BY <1>2, <2>1, ObserveStep DEF Viewed, Writers
<1>3. ASSUME NEW w \in Writers, Save(w) \/ SaveFails(w)
      PROVE  Inv' /\ disk'.age >= disk.age
  BY <1>3, SaveStep
<1>4. ASSUME NEW t \in Tasks, Record(t) \/ Reject(t) \/ Persist(t) \/ Report(t)
      PROVE  Inv' /\ UNCHANGED disk
  <2>1. UNCHANGED footprints /\ \E l \in {"copied", "done", "written"} : pc' = [pc EXCEPT ![t] = l]
    BY <1>4 DEF Record, Reject, Persist, Report, Goto
  <2>. QED  BY <2>1 DEF footprints, Inv, FileInv, SaveInv, Counted
<1>5. CASE Restart
  <2>1. /\ generation' = 0 /\ persisted' = 0 /\ age' = disk.age /\ disk' = disk
        /\ save' = [w \in Writers |-> None]
        /\ pc' = [w \in Writers |-> IF pc[w] = "running" THEN "running" ELSE "done"]
    BY <1>5 DEF Restart, with_file
  <2>. QED  BY <2>1 DEF Inv, FileInv, SaveInv
<1>6. CASE UNCHANGED vars
  BY <1>6 DEF vars, footprints, Inv, FileInv, SaveInv, Counted
<1>. QED  BY <1>1, <1>2, <1>3, <1>4, <1>5, <1>6 DEF Next

\* "A slow write of an older snapshot never replaces a newer file"
\* (footprint.rs:29): whichever writer is slow, fails or dies, and over restarts,
\* the sizes on disk never become older.
THEOREM FileIsMonotonic == Spec => FileNeverGoesBack
<1>1. Inv /\ [Next]_vars => Inv'
  BY InvStep
<1>2. Inv /\ [Next]_vars => [disk'.age >= disk.age]_disk
  BY InvStep
<1>. QED  BY InitInv, <1>1, <1>2, PTL DEF Spec, FileNeverGoesBack

-----------------------------------------------------------------------------
(* The estimate *)

\* Byte counts have a width, so that a set of them that is not empty has a
\* largest one.
LEMMA LargestSize ==
  ASSUME NEW Limit \in Nat, NEW numbers, numbers \subseteq 0 .. Limit, numbers # {}
  PROVE  Sizes(numbers) \in numbers /\ \A n \in numbers : Sizes(numbers) >= n
<1>. DEFINE gaps == {Limit - n : n \in numbers}
<1>1. gaps \subseteq Nat /\ gaps # {}
  <2>1. ASSUME NEW n \in numbers PROVE Limit - n \in Nat
    <3>1. n \in 0 .. Limit
      OBVIOUS
    <3>. QED  BY <3>1
  <2>2. PICK n \in numbers : TRUE
    OBVIOUS
  <2>. QED  BY <2>1, <2>2
<1>2. PICK g \in gaps : \A h \in gaps : ~ (<<h, g>> \in OpToRel(<, Nat))
  BY <1>1, NatLessThanWellFounded, WFMin
<1>3. PICK n \in numbers : g = Limit - n
  OBVIOUS
<1>4. ASSUME NEW o \in numbers PROVE n >= o
  <2>1. Limit - o \in gaps
    OBVIOUS
  <2>2. ~ (<<Limit - o, g>> \in OpToRel(<, Nat))
    BY <1>2, <2>1
  <2>3. Limit - o \in Nat /\ g \in Nat
    BY <1>1, <2>1
  <2>4. ~ (Limit - o < g)
    BY <2>2, <2>3 DEF OpToRel
  <2>. QED  BY <1>3, <2>4
<1>. QED  BY <1>4 DEF Sizes

\* A size that was measured at this context or above, for this revision and these
\* settings, is never underestimated by the demand that is reserved before a load
\* (requirement, footprint.rs:279), whatever else the history holds.
THEOREM MeasuredIsCovered ==
  ASSUME NEW Limit \in Nat, NEW known, \A s \in Measures(known) : s.bytes \in 0 .. Limit,
         NEW m, NEW context, NEW backend, NEW hints, NEW current,
         ~ Warm(m, context, current), m.digest # None,
         NEW s \in Measures(known), taken_under(s, backend, m.digest, hints), s.context >= context
  PROVE  requirement(known, backend, m, context, hints, current) >= s.bytes
<1>. DEFINE comparable == {c \in Measures(known) : m.digest # None /\ taken_under(c, backend, m.digest, hints)}
            enough == {c.bytes : c \in {d \in comparable : d.context >= context}}
<1>1. s.bytes \in enough
  OBVIOUS
<1>2. enough \subseteq 0 .. Limit
  OBVIOUS
<1>3. Sizes(enough) >= s.bytes
  BY <1>1, <1>2, LargestSize
<1>4. requirement(known, backend, m, context, hints, current) = Sizes(enough)
  BY <1>1 DEF requirement
<1>. QED  BY <1>3, <1>4
=============================================================================
