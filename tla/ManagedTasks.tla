---------------------------- MODULE ManagedTasks ----------------------------
(***************************************************************************)
(* A managed task from its request to its answer (execution/mod.rs,        *)
(* jobs.rs), with everything that may cut it short: its deadline, the      *)
(* cancellation of its job, the kill of its session, its client going      *)
(* away, and the end of the history it appends to.                         *)
(*                                                                         *)
(* A deferred task is run by a worker; a supervisor turns what the worker  *)
(* returns into the status of the job.  The pipeline between the session   *)
(* check and the answer of the model is one phase here ("running"): it     *)
(* holds all local permits and drops them when the task leaves it.         *)
(***************************************************************************)
EXTENDS ScopeStore, SessionTable, JobRegistry

CONSTANTS Deferred,  \* tasks that are submitted as jobs
          Recalled,  \* jobs that somebody may cancel or remove
          ScopeOf,   \* ScopeOf[t]: the scope t appends to, or NoOne
          SessionOf  \* SessionOf[t]: the session t names, or NoOne

ASSUME TasksAssumption == /\ Deferred \subseteq Tasks /\ Recalled \subseteq Deferred
                          /\ ScopeOf \in [Tasks -> Scopes \cup {NoOne}]
                          /\ SessionOf \in [Tasks -> Sessions \cup {NoOne}]

VARIABLES
  pc,        \* pc[t]: the phase of t
  outcome,   \* outcome[t]: what t returns
  quoted,    \* quoted[t]: scope_revision of the request
  turns,     \* turns[t]: the history t prepared
  watched,   \* tasks that hold a scope_session_cancellation
  guarded    \* tasks whose with_session_cancellation is subscribed

taskVars == <<pc, outcome, quoted, turns, watched, guarded>>
vars == <<scopeVars, sessionVars, jobVars, taskVars>>

Scoped(t) == ScopeOf[t] # NoOne
InSession(t) == SessionOf[t] # NoOne
\* Mutant: a job without a history has no deadline.
HasDeadline_ScopesOnly(t) == Scoped(t)

HasDeadline(t) == t \in Deferred \/ Scoped(t)

Phases == {"new", "checked", "queued", "prepared", "entering", "running", "binding",
           "committing", "dropping", "returned", "finished", "done"}
Outcomes == {"none", "ok", "failed", "cancelled", "killed", "deadline", "gone"}

Init == /\ StoreInit /\ SessionsInit /\ JobsInit
        /\ pc = [t \in Tasks |-> "new"]
        /\ outcome = [t \in Tasks |-> "none"]
        /\ quoted = [t \in Tasks |-> 0]
        /\ turns = [t \in Tasks |-> << >>]
        /\ watched = {}
        /\ guarded = {}

Goto(t, phase) == pc' = [pc EXCEPT ![t] = phase]
End(t, what) == outcome' = [outcome EXCEPT ![t] = what] /\ Goto(t, "dropping")

-----------------------------------------------------------------------------
(* The request *)

\* A caller names ids it has been given, and quotes a revision it has read.
Known(t) == (Scoped(t) => ScopeOf[t] \in minted) /\ (InSession(t) => SessionOf[t] \in opened)
Quotable(t) == IF Scoped(t) /\ ScopeOf[t] \in DOMAIN store THEN 0 .. store[ScopeOf[t]].revision
               ELSE {0}

run_task(t) == /\ pc[t] = "new"
               /\ t \notin Deferred
               /\ Known(t)
               /\ \E r \in Quotable(t) : quoted' = [quoted EXCEPT ![t] = r]
               /\ Goto(t, "queued")
               /\ UNCHANGED <<scopeVars, sessionVars, jobVars, outcome, turns, watched, guarded>>

\* jobs::submit checks the session before it takes anything.
CheckSession(t) == /\ pc[t] = "new"
                   /\ t \in Deferred
                   /\ Known(t)
                   /\ \/ /\ InSession(t) => Active(SessionOf[t])
                         /\ Goto(t, "checked")
                      \/ InSession(t) /\ ~ Active(SessionOf[t]) /\ UNCHANGED pc
                   /\ IF InSession(t) THEN touch(SessionOf[t]) ELSE UNCHANGED sessionVars
                   /\ UNCHANGED <<scopeVars, jobVars, outcome, quoted, turns, watched, guarded>>

submit(t) == /\ pc[t] = "checked"
             /\ \/ /\ Cardinality(make_room) < MaxJobs
                   /\ insert(t)
                   /\ \E r \in Quotable(t) : quoted' = [quoted EXCEPT ![t] = r]
                   /\ Goto(t, "queued")
                \/ /\ Cardinality(make_room) >= MaxJobs
                   /\ refuse
                   /\ Goto(t, "new")
                   /\ UNCHANGED quoted
             /\ UNCHANGED <<scopeVars, sessionVars, outcome, turns, watched, guarded>>

-----------------------------------------------------------------------------
(* The worker *)

\* The lease is taken before anything is awaited.
prepare(t) ==
  /\ pc[t] = "queued"
  /\ \/ /\ ~ Scoped(t)
        /\ Goto(t, "prepared")
        /\ UNCHANGED <<scopeVars, outcome, turns>>
     \/ /\ Scoped(t) /\ CanLease(ScopeOf[t], quoted[t])
        /\ Lease(t, ScopeOf[t])
        /\ turns' = [turns EXCEPT ![t] = Append(store[ScopeOf[t]].messages, t)]
        /\ Goto(t, "prepared")
        /\ UNCHANGED outcome
     \/ /\ Scoped(t) /\ ~ CanLease(ScopeOf[t], quoted[t])
        /\ Prune /\ UNCHANGED minted
        /\ End(t, IF t \in cancel THEN "cancelled" ELSE "failed")
        /\ UNCHANGED turns
  /\ UNCHANGED <<sessionVars, jobVars, quoted, watched, guarded>>

\* Mutant: the commit does not know of the session.
Subscribe_Not(t) ==
  /\ pc[t] = "prepared"
  /\ Goto(t, "entering")
  /\ UNCHANGED <<scopeVars, sessionVars, jobVars, outcome, quoted, turns, watched, guarded>>

\* A scoped task subscribes for its commit, under the lock for reading.
Subscribe(t) ==
  /\ pc[t] = "prepared"
  /\ watched' = IF Scoped(t) /\ SessionOf[t] \in sessions THEN watched \cup {t} ELSE watched
  /\ Goto(t, "entering")
  /\ UNCHANGED <<scopeVars, sessionVars, jobVars, outcome, quoted, turns, guarded>>

\* with_session_cancellation validates and subscribes under one lock.
EnterSession(t) ==
  /\ pc[t] = "entering"
  /\ \/ /\ InSession(t) => Active(SessionOf[t])
        /\ guarded' = IF InSession(t) THEN guarded \cup {t} ELSE guarded
        /\ Goto(t, "running")
        /\ UNCHANGED outcome
     \/ /\ InSession(t) /\ ~ Active(SessionOf[t])
        /\ End(t, "failed")
        /\ UNCHANGED guarded
  /\ IF InSession(t) THEN touch(SessionOf[t]) ELSE UNCHANGED sessionVars
  /\ UNCHANGED <<scopeVars, jobVars, quoted, turns, watched>>

\* The pipeline checks the session once more before it chooses a model.
RecheckSession(t) ==
  /\ pc[t] = "running"
  /\ InSession(t)
  /\ touch(SessionOf[t])
  /\ IF Active(SessionOf[t]) THEN UNCHANGED <<outcome, pc>> ELSE End(t, "failed")
  /\ UNCHANGED <<scopeVars, jobVars, quoted, turns, watched, guarded>>

Progress(t) == /\ pc[t] = "running"
               /\ t \in Deferred
               /\ update(t)
               /\ UNCHANGED <<scopeVars, sessionVars, taskVars>>

\* The pipeline returns, its permits dropped.  A result that no history
\* waits for binds the session first.
Answer(t) == /\ pc[t] = "running"
             /\ \/ Scoped(t) /\ Goto(t, "committing") /\ UNCHANGED outcome
                \/ ~ Scoped(t) /\ InSession(t) /\ Goto(t, "binding") /\ UNCHANGED outcome
                \/ ~ Scoped(t) /\ ~ InSession(t) /\ End(t, "ok")
                \/ End(t, "failed")
             /\ UNCHANGED <<scopeVars, sessionVars, jobVars, quoted, turns, watched, guarded>>

BindAffinity(t) == /\ pc[t] = "binding"
                   /\ bind(SessionOf[t], t)
                   /\ End(t, "ok")
                   /\ UNCHANGED <<scopeVars, jobVars, quoted, turns, watched, guarded>>

\* What interrupts the work at an await.
Interrupt(t, what) ==
  /\ \/ what = "cancelled" /\ pc[t] \in {"prepared", "entering", "running", "binding"} /\ t \in cancel
     \/ what = "deadline"  /\ pc[t] \in {"prepared", "entering", "running", "binding", "committing"}
                           /\ HasDeadline(t)
     \/ what = "killed"    /\ pc[t] \in {"running", "binding"} /\ t \in guarded
                           /\ SessionOf[t] \in killed
     \/ what = "gone"      /\ pc[t] \in {"prepared", "entering", "running", "binding", "committing"}
                           /\ t \notin Deferred
  /\ End(t, what)
  /\ UNCHANGED <<scopeVars, sessionVars, jobVars, quoted, turns, watched, guarded>>

-----------------------------------------------------------------------------
(* commit_scoped_completion, under the lock of the sessions and, for a     *)
(* deferred task, of its job.  The lock of the sessions is kept until the  *)
(* session is bound, so the binding is part of the commit.                 *)

Killed(t) == t \in watched /\ SessionOf[t] \in killed
\* Mutant: nobody looks whether the job has been cancelled.
Commits_Cancelled(t) == ~ Killed(t) /\ CanAppend(t, ScopeOf[t], quoted[t], turns[t])

Commits(t) == ~ Killed(t) /\ t \notin cancel /\ CanAppend(t, ScopeOf[t], quoted[t], turns[t])

\* The response may be invalid or too large to retain, or it may be too late;
\* an early refusal does not reach the store.
Commit(t) ==
  /\ pc[t] = "committing"
  /\ \/ /\ Commits(t)
        /\ AppendTurns(ScopeOf[t], turns[t])
        /\ committed' = IF t \in Deferred THEN committed \cup {t} ELSE committed
        /\ IF InSession(t) THEN bind(SessionOf[t], t) ELSE UNCHANGED sessionVars
        /\ End(t, "ok")
     \/ /\ \/ Killed(t) /\ End(t, "killed")
           \/ ~ Killed(t) /\ t \in cancel /\ End(t, "cancelled")
           \/ ~ Killed(t) /\ t \notin cancel /\ End(t, "failed")
        /\ UNCHANGED <<scopeVars, sessionVars, committed>>
     \/ /\ ~ Killed(t) /\ t \notin cancel
        /\ \E what \in {"failed", "deadline"} : End(t, what)
        /\ Prune /\ UNCHANGED <<minted, sessionVars, committed>>
  /\ UNCHANGED <<registry, status, finished, aged, retained, cancel, done, callerVars,
                 quoted, turns, watched, guarded>>

Leave(t) == /\ pc[t] = "dropping"
            /\ IF Scoped(t) THEN DropLease(t, ScopeOf[t]) ELSE UNCHANGED scopeVars
            /\ Goto(t, "returned")
            /\ UNCHANGED <<sessionVars, jobVars, outcome, quoted, turns, watched, guarded>>

-----------------------------------------------------------------------------
(* The supervisor *)

Verdict(t) == CASE outcome[t] = "ok" -> "completed"
                [] outcome[t] \in {"cancelled", "killed"} -> "cancelled"
                [] outcome[t] = "deadline" -> "expired"
                [] OTHER -> "failed"

\* A result that its commit has not measured may exceed the retention limit.
Finish(t) == /\ pc[t] = "returned"
             /\ t \in Deferred
             /\ \/ finish(t, Verdict(t))
                \/ outcome[t] = "ok" /\ ~ Scoped(t) /\ finish(t, "failed")
             /\ Goto(t, "finished")
             /\ UNCHANGED <<scopeVars, sessionVars, outcome, quoted, turns, watched, guarded>>

SignalDone(t) == /\ pc[t] = "finished"
                 /\ send_done(t)
                 /\ Goto(t, "done")
                 /\ UNCHANGED <<scopeVars, sessionVars, outcome, quoted, turns, watched, guarded>>

-----------------------------------------------------------------------------
ScopeOp == /\ \/ \E s \in Scopes : create(s) \/ get(s) \/ delete(s) \/ WearOut(s)
              \/ \E s \in minted, new \in Scopes, r \in 0 .. Cardinality(Tasks) : fork(s, r, new)
           /\ UNCHANGED <<sessionVars, jobVars, taskVars>>

SessionOp == /\ \E n \in Sessions : \/ create_session(n) \/ delete_session(n)
                                    \/ kill_session(n) \/ GrowIdle(n)
             /\ UNCHANGED <<scopeVars, jobVars, taskVars>>

CallerStep(t) == /\ \/ cancel_job(t) \/ wait_done(t) \/ reply(t) \/ clear(t) \/ remove(t)
                 /\ UNCHANGED <<scopeVars, sessionVars, taskVars>>
JobOp == /\ \/ list \/ \E t \in Deferred : GrowAged(t)
            \/ \E t \in Recalled : lookup(t) \/ abandon(t)
         /\ UNCHANGED <<scopeVars, sessionVars, taskVars>>

WorkerStep(t) == \/ prepare(t) \/ Subscribe(t) \/ EnterSession(t) \/ BindAffinity(t)
                 \/ Commit(t) \/ Leave(t) \/ Finish(t) \/ SignalDone(t)
                 \/ \E what \in {"cancelled", "deadline", "killed"} : Interrupt(t, what)

Next == \/ ScopeOp \/ SessionOp \/ JobOp
        \/ \E t \in Deferred : CheckSession(t) \/ submit(t) \/ CallerStep(t)
        \/ \E t \in Tasks : \/ run_task(t) \/ WorkerStep(t)
                            \/ RecheckSession(t) \/ Progress(t) \/ Answer(t) \/ Interrupt(t, "gone")

Spec == Init /\ [][Next]_vars

\* A worker that can go on is polled, and the timer of a deadline fires; the
\* model behind Answer and the callers owe nothing, but one that has called
\* cancel_job is a task that is polled as well.
Fairness == /\ \A t \in Tasks : WF_vars(WorkerStep(t))
            /\ \A t \in Recalled : WF_vars(CallerStep(t))
LiveSpec == Spec /\ Fairness

-----------------------------------------------------------------------------
(* Correctness *)

Leased(t) == ScopeOf[t] \in DOMAIN store /\ store[ScopeOf[t]].lease = t

\* From the preparation to the commit a task owns its history, for as long as
\* the history exists: no other task's drop or lease gets in between.
LeaseHeld ==
  \A t \in Tasks : Scoped(t) /\ pc[t] \in {"prepared", "entering", "running", "committing"}
                    /\ ScopeOf[t] \in DOMAIN store => Leased(t)

\* A job that has not finished keeps its handle, so it can be cancelled, and
\* there are never more than MaxJobs handles.
ActiveJobsReachable ==
  /\ Cardinality(registry) <= MaxJobs
  /\ \A t \in Deferred : pc[t] \notin {"new", "checked", "finished", "done"} => t \in registry

\* No turn is appended for a session that has been killed.
KilledNeverAppends ==
  [][\A t \in Tasks : Scoped(t) /\ pc[t] = "committing" /\ outcome'[t] = "ok" =>
        SessionOf[t] \notin killed]_vars

\* The tasks implement the promise of the histories: see ScopeHistory.
Told(t) == CASE t \in Deferred -> IF status[t] = "completed" THEN "completed"
                                  ELSE IF status[t] \in Terminal THEN "failed" ELSE "nothing"
             [] OTHER -> IF pc[t] # "returned" \/ outcome[t] = "gone" THEN "nothing"
                         ELSE IF outcome[t] = "ok" THEN "completed" ELSE "failed"
Fate(t) == CASE outcome[t] = "none" -> "open"
             [] outcome[t] = "ok"   -> "appended"
             [] OTHER               -> "refused"
ScopedTasks == {t \in Tasks : Scoped(t)}

Promise == INSTANCE ScopeHistory WITH
             Writers   <- ScopedTasks,
             histories <- [s \in Kept |-> [revision |-> store[s].revision,
                                           turns |-> store[s].messages]],
             quoted    <- [t \in ScopedTasks |-> quoted[t]],
             fate      <- [t \in ScopedTasks |-> Fate(t)],
             told      <- [t \in ScopedTasks |-> Told(t)]
KeepsPromise == Promise!Spec

\* Although the model never answers, a lease ends, an accepted job reaches a
\* terminal status (the deadline of execute_task), and a caller that cancels is
\* answered (wait_for over `done` in cancel_job).
WorkEnds == /\ \A t \in ScopedTasks : []<>~ Leased(t)
            /\ \A t \in Deferred : []<>(status[t] \in Terminal \cup {"none"})
            /\ \A t \in Recalled : []<>(caller[t] # "waiting")

\* What WorkEnds rests on, at every moment: whoever has a lease, a job or a
\* caller to answer for is at a step after which the lease is dropped, the job
\* finished (JobProgress::finish) and `done` sent.
NobodyIsForgotten ==
  /\ \A t \in ScopedTasks : Leased(t) =>
       pc[t] \in {"prepared", "entering", "running", "committing", "dropping"}
  /\ \A t \in Deferred : status[t] \notin Terminal \cup {"none"} =>
       pc[t] \notin {"new", "checked", "finished", "done"}
  /\ \A t \in Recalled : caller[t] = "waiting" /\ t \notin done =>
       pc[t] \notin {"new", "checked", "done"}

\* "Linearize history commit against cancellation" (jobs.rs:172), "a receipt saying
\* cancelled is returned only after the worker has dropped its permits" (jobs.rs:381):
\* what has been cancelled stays so and appends nothing, and whoever is answered
\* finds the job over and its lease gone.
CancelStands ==
  \A t \in Deferred :
    /\ t \in cancel => /\ status[t] \in {"cancelling", "cancelled"}
                       /\ ~ (Scoped(t) /\ outcome[t] = "ok")
    /\ caller[t] = "answered" => status[t] \in Terminal /\ ~ Leased(t)
=============================================================================
