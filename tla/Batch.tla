------------------------------- MODULE Batch --------------------------------
(***************************************************************************)
(* A batch of independent tasks (run_task_batch of platform/tasks_api.rs): *)
(* items are started by a weighted round of their priorities, at most so   *)
(* many at a time, and each gives its answer or fails alone.               *)
(***************************************************************************)
EXTENDS Integers, Sequences, FiniteSets, SequencesExt

CONSTANTS Batches,       \* inputs: [tasks, max_parallelism]; a task is [id, class, defer, independent]
          MaxItems,      \* MAX_BATCH_TASKS
          DefaultWidth,  \* DEFAULT_BATCH_PARALLELISM
          Shares,        \* PRIORITY_WEIGHTS
          None           \* an absent Option

VARIABLES
  items,     \* the tasks of the input
  asked,     \* its max_parallelism
  pending,   \* items that are not started, in order
  credits,   \* credits of each class in this round
  running,   \* items under way
  outcomes,  \* history: how each item went: "ok", "error" or "panic"
  results,   \* results[i]: the item whose answer is there, and how it went
  passed,    \* history: passed[c]: items of other classes started while one of c waited
  state

vars == <<items, asked, pending, credits, running, outcomes, results, passed, state>>

Classes == DOMAIN Shares
Least(S) == CHOOSE s \in S : \A o \in S : s <= o

\* What is refused before anything starts.
Acceptable(input) ==
  /\ Len(input) \in 1 .. MaxItems
  /\ \A i, j \in DOMAIN input : i # j => input[i].id # input[j].id
  /\ \A i \in DOMAIN input : input[i].id # "" /\ ~ input[i].defer /\ input[i].independent

Init == /\ \E b \in Batches : items = b.tasks /\ asked = b.max_parallelism
        /\ pending = [i \in DOMAIN items |-> i]
        /\ credits = Shares
        /\ running = {}
        /\ outcomes = [i \in DOMAIN items |-> None]
        /\ results = [i \in DOMAIN items |-> None]
        /\ passed = [c \in Classes |-> 0]
        /\ state = "new"

Validate == /\ state = "new"
            /\ state' = IF Acceptable(items) THEN "dispatching" ELSE "refused"
            /\ UNCHANGED <<items, asked, pending, credits, running, outcomes, results, passed>>

\* What is asked for, at least one and at most the limit and the items there are.
Width == LET wanted == CASE asked = None -> DefaultWidth [] asked = 0 -> 1 [] OTHER -> asked
         IN Least({wanted, MaxItems, Len(items)})

-----------------------------------------------------------------------------
(* next_batch_task *)

ClassOf(i) == items[i].class
Waiting(c) == {k \in DOMAIN pending : ClassOf(pending[k]) = c}
Servable(cr) == {c \in Classes : cr[c] > 0 /\ Waiting(c) # {}}

\* Mutant: every call begins a round.
Round_Always == Shares
\* A new round begins when no class that waits has a credit.
Round == IF Servable(credits) # {} THEN credits ELSE Shares

\* The first item of the first class with a credit.
Chosen == Least(Waiting(Least(Servable(Round))))

CanStart == state = "dispatching" /\ pending # <<>> /\ Cardinality(running) < Width

Start ==
  /\ CanStart
  /\ LET i == pending[Chosen]
     IN /\ pending' = RemoveAt(pending, Chosen)
        /\ credits' = [Round EXCEPT ![ClassOf(i)] = @ - 1]
        /\ running' = running \cup {i}
        /\ passed' = [c \in Classes |-> IF c = ClassOf(i) \/ Waiting(c) = {} THEN 0 ELSE passed[c] + 1]
  /\ UNCHANGED <<items, asked, outcomes, results, state>>

-----------------------------------------------------------------------------
(* Answers *)

\* An item ends; a worker may panic.
End(i) == /\ state = "dispatching" /\ i \in running /\ outcomes[i] = None
          /\ \E how \in {"ok", "error", "panic"} : outcomes' = [outcomes EXCEPT ![i] = how]
          /\ UNCHANGED <<items, asked, pending, credits, running, results, passed, state>>

\* Mutant: the item of a worker that panicked is not looked up.
Answered_Joined(i) == IF outcomes[i] = "panic" THEN results
                      ELSE [results EXCEPT ![i] = [item |-> i, how |-> outcomes[i]]]
Answered(i) == [results EXCEPT ![i] = [item |-> i, how |-> outcomes[i]]]

\* One that has ended is joined when no further item can be started.
Join(i) == /\ state = "dispatching" /\ i \in running /\ outcomes[i] # None
           /\ ~ CanStart
           /\ running' = running \ {i}
           /\ results' = Answered(i)
           /\ UNCHANGED <<items, asked, pending, credits, outcomes, passed, state>>

Respond == /\ state = "dispatching" /\ pending = <<>> /\ running = {}
           /\ state' = "answered"
           /\ UNCHANGED <<items, asked, pending, credits, running, outcomes, results, passed>>

\* The client goes away: the JoinSet is dropped and aborts what runs.
Drop == /\ state = "dispatching"
        /\ state' = "dropped"
        /\ running' = {}
        /\ UNCHANGED <<items, asked, pending, credits, outcomes, results, passed>>

Next == \/ Validate \/ Start \/ Respond \/ Drop
        \/ \E i \in DOMAIN items : End(i) \/ Join(i)

Spec == Init /\ [][Next]_vars

-----------------------------------------------------------------------------
(* Properties *)

\* The starts that a round owes to the classes S: as many to each as its share.
Slots(S) == UNION {{c} \X (1 .. Shares[c]) : c \in S}

\* "weighted_fair_round_robin" (the receipt of run_task_batch): while items of a
\* class wait, no more items of the others are started in a row than their shares add up
\* to, however the items end and whatever the input is.
FairStart == \A c \in Classes : passed[c] <= Cardinality(Slots(Classes \ {c}))

\* "A panicking worker fails only its own item; completed answers are kept"
\* (tasks_api.rs:182): a batch that is answered has one answer for every item, in its
\* place and as it went.
EveryItemAnswered ==
  state = "answered" =>
    \A i \in DOMAIN items : results[i] = [item |-> i, how |-> outcomes[i]] /\ outcomes[i] # None
=============================================================================
