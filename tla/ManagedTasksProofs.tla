------------------------- MODULE ManagedTasksProofs -------------------------
(***************************************************************************)
(* Proofs about managed tasks, for any tasks, histories, sessions and      *)
(* limits: who owns a history, whose handle a job keeps, and that the      *)
(* tasks implement what ScopeHistory promises.                             *)
(***************************************************************************)
EXTENDS ManagedTasks, FiniteSetTheorems, WellFoundedInduction, TLAPS

-----------------------------------------------------------------------------
(* The inductive invariant *)

\* From its preparation to its commit a task with a history holds the lease.
Holding == {"prepared", "entering", "running", "committing"}

TaskTypes == /\ pc \in [Tasks -> Phases]
             /\ outcome \in [Tasks -> Outcomes]
             /\ quoted \in [Tasks -> Nat]
             /\ turns \in [Tasks -> Seq(Tasks)]
             /\ watched \subseteq Tasks

StoreTypes == /\ store \in [DOMAIN store -> History]
              /\ DOMAIN store \subseteq minted
              /\ minted \subseteq Scopes

SessionTypes == /\ sessions \subseteq opened
                /\ opened \subseteq Sessions
                /\ killed \subseteq Sessions

JobTypes == /\ registry \subseteq Deferred /\ IsFiniteSet(registry)
            /\ status \in [Tasks -> Status]
            /\ finished \in Seq(Tasks)
            /\ caller \in [Tasks -> {"idle", "found", "waiting", "answered", "cleared"}]

TypeOK == TaskTypes /\ StoreTypes /\ SessionTypes /\ JobTypes

\* A task that has begun names a history and a session that were handed out, and
\* ids are handed out once.
Knows == \A t \in Tasks : pc[t] # "new" => Known(t)

\* The fate of a task is open until it leaves, and only then.
FateOpen == \A t \in Tasks :
              outcome[t] = "none" <=> pc[t] \notin {"dropping", "returned", "finished", "done"}

\* Only a task without a history binds its session by itself.
BindsAlone == \A t \in Tasks : pc[t] = "binding" => ~ Scoped(t)

\* A task holds its history as it prepared it, with its own turn at the end.
Prepared == \A t \in Tasks :
              Scoped(t) /\ pc[t] \in Holding /\ ScopeOf[t] \in DOMAIN store =>
                /\ store[ScopeOf[t]].lease = t
                /\ turns[t] = Append(store[ScopeOf[t]].messages, t)

\* A task that appends watches the session it names: one that was gone when it
\* subscribed does not let it in.
Watches == \A t \in Tasks : Scoped(t) /\ InSession(t) =>
             /\ pc[t] = "entering" => t \in watched \/ SessionOf[t] \notin sessions
             /\ pc[t] \in {"running", "committing"} => t \in watched

HistoryInv == Knows /\ FateOpen /\ BindsAlone /\ Prepared /\ Watches

\* A job has a terminal status, and a place among the finished ones, as soon as
\* its supervisor has finished it; only then a caller is answered.
Over(t) == pc[t] \in {"finished", "done"}
StatusInv ==
  /\ \A t \in Tasks : pc[t] \in {"checked", "finished", "done"} => t \in Deferred
  /\ \A t \in Tasks : status[t] \in Terminal <=> Over(t)
  /\ \A t \in Tasks : t \in Ended => Over(t)
  /\ \A t \in Tasks : t \in done => Over(t)
  /\ aged \subseteq Ended
  /\ \A t \in Tasks : caller[t] \in {"answered", "cleared"} => Over(t)

\* A handle belongs to a job that was submitted, and stays until the job is over.
HandleInv ==
  /\ \A t \in Tasks : t \in registry \/ caller[t] # "idle" =>
       t \in Deferred /\ pc[t] \notin {"new", "checked"}
  /\ \A t \in Deferred : pc[t] \notin {"new", "checked", "finished", "done"} => t \in registry
  /\ Cardinality(registry) <= MaxJobs

\* A job that has appended its turn is not cancelled any more.
CommittedInv == \A t \in Deferred : Scoped(t) /\ outcome[t] = "ok" => t \in committed /\ t \notin cancel

JobInv == StatusInv /\ HandleInv /\ CommittedInv

Inv == TypeOK /\ HistoryInv /\ JobInv

-----------------------------------------------------------------------------
(* The operations of the store *)

\* Whatever an operation of the store does to other histories, it keeps them as
\* they are or lets go of them; a new one has an id that was not handed out.
OldAsTheyWere == /\ minted \subseteq minted'
                 /\ \A s \in DOMAIN store' : s \in minted => s \in DOMAIN store /\ store'[s] = store[s]

LEMMA PrunedAsItWas ==
  /\ DOMAIN Pruned = Kept
  /\ \A s \in Kept : Pruned[s] = store[s]
  BY DEF Pruned, Kept, Restrict

LEMMA PruneStep ==
  ASSUME StoreTypes, Prune, UNCHANGED minted
  PROVE  StoreTypes' /\ OldAsTheyWere
<1>1. DOMAIN store' = Kept /\ \A s \in Kept : store'[s] = store[s]
  BY PrunedAsItWas DEF Prune
<1>2. store' \in [DOMAIN store' -> History]
  BY <1>1 DEF StoreTypes, Prune, Pruned, Restrict, Kept
<1>. QED  BY <1>1, <1>2 DEF StoreTypes, OldAsTheyWere, Kept

LEMMA InsertStep ==
  ASSUME StoreTypes, NEW s \in Scopes, s \notin minted, NEW h \in History, Insert(s, h)
  PROVE  StoreTypes' /\ OldAsTheyWere /\ DOMAIN store' = Kept \cup {s} /\ store'[s] = h
<1>1. DOMAIN store' = Kept \cup {s}
  BY DEF Insert
<1>2. s \notin Kept
  BY DEF StoreTypes, Kept
<1>3. \A r \in Kept : store'[r] = store[r]
  BY <1>2 DEF Insert
<1>4. store'[s] = h
  BY DEF Insert
<1>5. store' \in [DOMAIN store' -> History]
  <2>1. store' = [r \in DOMAIN store' |-> store'[r]]
    BY DEF Insert
  <2>2. \A r \in DOMAIN store' : store'[r] \in History
    BY <1>1, <1>3, <1>4 DEF StoreTypes, Kept
  <2>. QED  BY <2>1, <2>2
<1>6. minted' = minted \cup {s}
  BY DEF Insert
<1>. QED  BY <1>1, <1>3, <1>4, <1>5, <1>6 DEF StoreTypes, OldAsTheyWere, Kept

LEMMA ScopeOpStep ==
  ASSUME StoreTypes, ScopeOp
  PROVE  StoreTypes' /\ OldAsTheyWere
<1>1. ASSUME NEW s \in Scopes, create(s)
      PROVE  StoreTypes' /\ OldAsTheyWere
  <2>1. NewHistory(<< >>) \in History
    BY DEF NewHistory, History
  <2>. QED  BY <1>1, <2>1, InsertStep, PruneStep DEF create
<1>2. ASSUME NEW s \in Scopes, get(s)
      PROVE  StoreTypes' /\ OldAsTheyWere
  BY <1>2, PruneStep DEF get
<1>3. ASSUME NEW s \in Scopes, delete(s)
      PROVE  StoreTypes' /\ OldAsTheyWere
  BY <1>3 DEF delete, StoreTypes, OldAsTheyWere, Restrict, Kept
<1>4. ASSUME NEW s \in Scopes, WearOut(s)
      PROVE  StoreTypes' /\ OldAsTheyWere
  BY <1>4 DEF WearOut, StoreTypes, OldAsTheyWere
<1>5. ASSUME NEW s \in minted, NEW new \in Scopes, NEW r \in 0 .. Cardinality(Tasks), fork(s, r, new)
      PROVE  StoreTypes' /\ OldAsTheyWere
  <2>1. ASSUME Forkable(s, r), Insert(new, NewHistory(store[s].messages)), new \notin minted
        PROVE  StoreTypes' /\ OldAsTheyWere
    <3>1. NewHistory(store[s].messages) \in History
      BY <2>1 DEF NewHistory, History, Forkable, Kept, StoreTypes
    <3>. QED  BY <2>1, <3>1, InsertStep
  <2>. QED  BY <1>5, <2>1, PruneStep DEF fork
<1>. QED  BY <1>1, <1>2, <1>3, <1>4, <1>5 DEF ScopeOp

\* A lease is the only thing that changes when it is taken.
LEMMA LeaseStep ==
  ASSUME StoreTypes, NEW t \in Tasks, NEW s \in Kept, Lease(t, s)
  PROVE  /\ StoreTypes'
         /\ minted' = minted /\ DOMAIN store' = Kept
         /\ \A r \in Kept \ {s} : store'[r] = store[r]
         /\ store'[s] = [store[s] EXCEPT !.lease = t]
<1>1. store' = [Pruned EXCEPT ![s].lease = t] /\ minted' = minted
  BY DEF Lease
<1>2. Pruned \in [Kept -> History]
  BY PrunedAsItWas DEF Pruned, Restrict, StoreTypes, Kept
<1>3. store'[s] = [store[s] EXCEPT !.lease = t] /\ \A r \in Kept \ {s} : store'[r] = store[r]
  BY <1>1, <1>2, PrunedAsItWas
<1>4. [store[s] EXCEPT !.lease = t] \in History
  BY DEF StoreTypes, History, Kept
<1>5. store' \in [Kept -> History]
  BY <1>1, <1>2, <1>4, PrunedAsItWas
<1>. QED  BY <1>1, <1>3, <1>5 DEF StoreTypes, Kept

LEMMA AppendStep ==
  ASSUME StoreTypes, NEW s \in Kept, NEW new \in Seq(Tasks), AppendTurns(s, new)
  PROVE  /\ StoreTypes'
         /\ minted' = minted /\ DOMAIN store' = Kept
         /\ \A r \in Kept \ {s} : store'[r] = store[r]
         /\ store'[s] = [revision |-> store[s].revision + 1, messages |-> new, lease |-> NoOne]
<1>. DEFINE h == [revision |-> store[s].revision + 1, messages |-> new, lease |-> NoOne]
<1>1. h \in History
  BY DEF History, StoreTypes, Kept
<1>2. store' = [Pruned EXCEPT ![s] = h]
  BY PrunedAsItWas DEF AppendTurns
<1>3. store' \in [Kept -> History]
  BY <1>1, <1>2, PrunedAsItWas DEF Pruned, Restrict, StoreTypes, Kept
<1>. HIDE DEF h
<1>4. store'[s] = h /\ \A r \in Kept \ {s} : store'[r] = store[r]
  BY <1>2, PrunedAsItWas
<1>5. minted' = minted
  BY DEF AppendTurns
<1>. QED  BY <1>3, <1>4, <1>5 DEF StoreTypes, Kept, h

LEMMA DropStep ==
  ASSUME StoreTypes, NEW t \in Tasks, NEW s, DropLease(t, s)
  PROVE  /\ StoreTypes'
         /\ minted' = minted /\ DOMAIN store' = DOMAIN store
         /\ \A r \in DOMAIN store :
              \/ store'[r] = store[r]
              \/ r = s /\ store[s].lease = t /\ store'[s] = [store[s] EXCEPT !.lease = NoOne]
  BY DEF DropLease, StoreTypes, History

-----------------------------------------------------------------------------
(* The operations of the registry *)

LEMMA OldestIsThere ==
  ASSUME JobTypes, NEW S, S \cap Ended # {}
  PROVE  OldestOf(S \cap Ended) \in S \cap Ended
<1>. DEFINE D == {i \in DOMAIN finished : finished[i] \in S \cap Ended}
<1>1. D # {} /\ D \subseteq Nat
  BY DEF JobTypes, Ended, Range
<1>2. \E m \in D : \A i \in D : m <= i
  <2>1. PICK m \in D : \A i \in D : ~ (<<i, m>> \in OpToRel(<, Nat))
    BY <1>1, NatLessThanWellFounded, WFMin
  <2>2. ASSUME NEW i \in D
        PROVE  m <= i
    <3>1. m \in Nat /\ i \in Nat
      BY <1>1
    <3>2. ~ (i < m)
      BY <2>1, <3>1 DEF OpToRel
    <3>. QED  BY <3>1, <3>2
  <2>. QED  BY <2>2
<1>3. Min(D) \in D
  BY <1>2 DEF Min
<1>. QED  BY <1>3 DEF OldestOf

\* Only a job that is over makes way for another, or is forgotten for its age.
LEMMA RoomIsMadeByTheEnded ==
  ASSUME JobTypes, aged \subseteq Ended
  PROVE  /\ Fresh \subseteq registry /\ make_room \subseteq Fresh
         /\ registry \ make_room \subseteq Ended
<1>1. Fresh \subseteq registry /\ registry \ Fresh \subseteq Ended
  BY DEF Fresh
<1>2. CASE make_room = Fresh
  BY <1>1, <1>2
<1>3. CASE Fresh \cap Ended # {} /\ make_room = Fresh \ {OldestOf(Fresh \cap Ended)}
  BY <1>1, <1>3, OldestIsThere
<1>. QED  BY <1>2, <1>3 DEF make_room

-----------------------------------------------------------------------------
(* Who takes a step *)

TaskStep(t) == \/ t \in Deferred /\ submit(t)
               \/ run_task(t) \/ CheckSession(t) \/ prepare(t) \/ Subscribe(t) \/ EnterSession(t)
               \/ RecheckSession(t) \/ Progress(t) \/ Answer(t)
               \/ BindAffinity(t) \/ Commit(t) \/ Leave(t) \/ Finish(t) \/ SignalDone(t)
               \/ \E what \in Outcomes : Interrupt(t, what)

LEMMA Steps ==
  ASSUME [Next]_vars
  PROVE  \/ ScopeOp \/ SessionOp \/ JobOp \/ UNCHANGED vars
         \/ \E t \in Deferred : CallerStep(t)
         \/ \E t \in Tasks : TaskStep(t)
<1>1. ASSUME NEW t \in Tasks, WorkerStep(t) \/ Interrupt(t, "gone")
      PROVE  TaskStep(t)
  BY <1>1 DEF WorkerStep, TaskStep, Outcomes
<1>2. ASSUME NEW t \in Deferred, CheckSession(t) \/ submit(t)
      PROVE  t \in Tasks /\ TaskStep(t)
  BY <1>2, TasksAssumption DEF TaskStep
<1>3. ASSUME NEW t \in Tasks, run_task(t) \/ RecheckSession(t) \/ Progress(t) \/ Answer(t)
      PROVE  TaskStep(t)
  BY <1>3 DEF TaskStep
<1>. QED  BY <1>1, <1>2, <1>3 DEF Next

\* The steps of the others leave the tasks alone.
LEMMA OthersStep ==
  ASSUME \/ ScopeOp \/ SessionOp \/ JobOp \/ UNCHANGED vars
         \/ \E t \in Deferred : CallerStep(t)
  PROVE  UNCHANGED taskVars
  BY DEF ScopeOp, SessionOp, JobOp, CallerStep, vars, taskVars

-----------------------------------------------------------------------------
(* Types *)

LEMMA TaskTypesStep ==
  ASSUME TypeOK, NEW t \in Tasks, TaskStep(t)
  PROVE  TaskTypes'
<1>. USE DEF TypeOK, TaskTypes, Goto, End, Phases, Outcomes
<1>1. ASSUME run_task(t) \/ submit(t)
      PROVE  TaskTypes'
  <2>1. Quotable(t) \subseteq Nat
    BY DEF Quotable, StoreTypes, History
  <2>2. quoted' \in [Tasks -> Nat]
    BY <1>1, <2>1 DEF run_task, submit
  <2>. QED  BY <1>1, <2>2 DEF run_task, submit
<1>2. CASE CheckSession(t)
  BY <1>2 DEF CheckSession
<1>3. CASE prepare(t)
  <2>1. ASSUME Scoped(t), CanLease(ScopeOf[t], quoted[t])
        PROVE  Append(store[ScopeOf[t]].messages, t) \in Seq(Tasks)
    BY <2>1 DEF CanLease, Kept, StoreTypes, History
  <2>2. turns' \in [Tasks -> Seq(Tasks)]
    BY <1>3, <2>1 DEF prepare
  <2>. QED  BY <1>3, <2>2 DEF prepare
<1>4. CASE Subscribe(t)
  BY <1>4 DEF Subscribe
<1>5. CASE EnterSession(t) \/ RecheckSession(t)
  BY <1>5 DEF EnterSession, RecheckSession
<1>6. CASE Progress(t) \/ Answer(t) \/ BindAffinity(t)
  BY <1>6 DEF Progress, Answer, BindAffinity, taskVars
<1>7. CASE Commit(t)
  BY <1>7 DEF Commit
<1>8. CASE Leave(t) \/ Finish(t) \/ SignalDone(t)
  BY <1>8 DEF Leave, Finish, SignalDone
<1>9. ASSUME NEW what \in Outcomes, Interrupt(t, what)
      PROVE  TaskTypes'
  BY <1>9 DEF Interrupt
<1>. QED  BY <1>1, <1>2, <1>3, <1>4, <1>5, <1>6, <1>7, <1>8, <1>9 DEF TaskStep

\* What a task does to its history: it leases it or appends to it, or it lets go.
LEMMA TaskStoreStep ==
  ASSUME TypeOK, NEW t \in Tasks, TaskStep(t)
  PROVE  StoreTypes' /\ minted' = minted
<1>. USE DEF TypeOK
<1>1. ASSUME run_task(t) \/ CheckSession(t) \/ submit(t) \/ Subscribe(t) \/ EnterSession(t)
               \/ RecheckSession(t) \/ Progress(t) \/ Answer(t) \/ BindAffinity(t)
               \/ Finish(t) \/ SignalDone(t) \/ \E what \in Outcomes : Interrupt(t, what)
      PROVE  StoreTypes' /\ minted' = minted
  <2>1. UNCHANGED scopeVars
    BY <1>1 DEF run_task, CheckSession, submit, Subscribe, EnterSession, RecheckSession,
                Progress, Answer, BindAffinity, Finish, SignalDone, Interrupt
  <2>. QED  BY <2>1 DEF scopeVars, StoreTypes
<1>2. CASE prepare(t)
  <2>1. CASE UNCHANGED scopeVars
    BY <2>1 DEF scopeVars, StoreTypes
  <2>2. CASE CanLease(ScopeOf[t], quoted[t]) /\ Lease(t, ScopeOf[t])
    BY <2>2, LeaseStep DEF CanLease
  <2>3. CASE Prune /\ UNCHANGED minted
    BY <2>3, PruneStep
  <2>. QED  BY <1>2, <2>1, <2>2, <2>3 DEF prepare
<1>3. CASE Commit(t)
  <2>1. CASE UNCHANGED scopeVars
    BY <2>1 DEF scopeVars, StoreTypes
  <2>2. CASE Commits(t) /\ AppendTurns(ScopeOf[t], turns[t])
    BY <2>2, AppendStep DEF Commits, CanAppend, TaskTypes
  <2>3. CASE Prune /\ UNCHANGED minted
    BY <2>3, PruneStep
  <2>. QED  BY <1>3, <2>1, <2>2, <2>3 DEF Commit
<1>4. CASE Leave(t)
  <2>1. CASE UNCHANGED scopeVars
    BY <2>1 DEF scopeVars, StoreTypes
  <2>2. CASE DropLease(t, ScopeOf[t])
    BY <2>2, DropStep
  <2>. QED  BY <1>4, <2>1, <2>2 DEF Leave
<1>. QED  BY <1>1, <1>2, <1>3, <1>4 DEF TaskStep

\* The table of sessions is pruned or shrinks; a new session has a new id, and only
\* one in the table is killed.
SessionMove ==
  /\ opened \subseteq opened'
  /\ \A n \in opened : n \in sessions' => n \in sessions
  /\ \A n \in killed' : n \in killed \/ n \in Sessions

LEMMA SessionTypesStep ==
  ASSUME TypeOK, [Next]_vars
  PROVE  SessionTypes' /\ SessionMove
<1>. USE DEF TypeOK, SessionTypes, SessionMove
<1>1. CASE UNCHANGED sessionVars
  BY <1>1 DEF sessionVars
<1>2. ASSUME NEW n, touch(n)
      PROVE  SessionTypes' /\ SessionMove
  BY <1>2 DEF touch, prune_expired
<1>3. ASSUME NEW n, NEW t, bind(n, t)
      PROVE  SessionTypes' /\ SessionMove
  BY <1>3 DEF bind
<1>4. CASE SessionOp
  BY <1>4 DEF SessionOp, create_session, delete_session, kill_session, GrowIdle
<1>5. ASSUME NEW t \in Tasks, TaskStep(t)
      PROVE  UNCHANGED sessionVars \/ touch(SessionOf[t]) \/ bind(SessionOf[t], t)
  <2>1. CASE CheckSession(t) \/ EnterSession(t) \/ RecheckSession(t)
    BY <2>1 DEF CheckSession, EnterSession, RecheckSession
  <2>2. CASE BindAffinity(t) \/ Commit(t)
    BY <2>2 DEF BindAffinity, Commit
  <2>3. CASE \/ run_task(t) \/ submit(t) \/ prepare(t) \/ Subscribe(t) \/ Progress(t) \/ Answer(t)
             \/ Leave(t) \/ Finish(t) \/ SignalDone(t) \/ \E what \in Outcomes : Interrupt(t, what)
    BY <2>3 DEF run_task, submit, prepare, Subscribe, Progress, Answer, Leave, Finish,
                SignalDone, Interrupt
  <2>. QED  BY <1>5, <2>1, <2>2, <2>3 DEF TaskStep
<1>6. CASE ScopeOp \/ JobOp \/ UNCHANGED vars \/ \E t \in Deferred : CallerStep(t)
  BY <1>1, <1>6 DEF ScopeOp, JobOp, vars, CallerStep
<1>. QED  BY <1>1, <1>2, <1>3, <1>4, <1>5, <1>6, Steps

\* An operation of the registry, by itself.
RegistryStep == \/ list
                \/ \E t \in Deferred : insert(t) \/ lookup(t)
                \/ refuse

LEMMA RegistryTypes ==
  ASSUME JobTypes, RegistryStep
  PROVE  JobTypes'
<1>. USE DEF JobTypes
<1>1. registry' \subseteq Deferred /\ IsFiniteSet(registry')
  <2>1. make_room \subseteq registry /\ Fresh \subseteq registry
    BY DEF make_room, Fresh
  <2>2. IsFiniteSet(make_room) /\ IsFiniteSet(Fresh)
    BY <2>1, FS_Subset
  <2>3. ASSUME NEW t \in Deferred, registry' = make_room \cup {t}
        PROVE  IsFiniteSet(registry')
    BY <2>2, <2>3, FS_AddElement
  <2>. QED  BY <2>1, <2>2, <2>3 DEF RegistryStep, list, insert, lookup, refuse
<1>2. status' \in [Tasks -> Status] /\ finished' \in Seq(Tasks)
  BY TasksAssumption DEF RegistryStep, list, insert, lookup, refuse, Status
<1>3. caller' \in [Tasks -> {"idle", "found", "waiting", "answered", "cleared"}]
  BY TasksAssumption DEF RegistryStep, list, insert, lookup, refuse, callerVars
<1>. QED  BY <1>1, <1>2, <1>3

LEMMA CallerTypes ==
  ASSUME JobTypes, NEW t \in Deferred, CallerStep(t) \/ abandon(t)
  PROVE  JobTypes'
<1>. USE TasksAssumption DEF JobTypes, Status
<1>1. CASE remove(t)
  <2>1. registry' \subseteq registry
    BY <1>1 DEF remove
  <2>. QED  BY <1>1, <2>1, FS_Subset DEF remove
<1>2. CASE cancel_job(t)
  BY <1>2 DEF cancel_job
<1>3. CASE wait_done(t) \/ reply(t) \/ clear(t) \/ abandon(t)
  BY <1>3 DEF wait_done, reply, clear, abandon
<1>. QED  BY <1>1, <1>2, <1>3 DEF CallerStep

LEMMA JobTypesStep ==
  ASSUME TypeOK, [Next]_vars
  PROVE  JobTypes'
<1>. USE DEF TypeOK
<1>1. CASE UNCHANGED jobVars
  BY <1>1 DEF jobVars, JobTypes
<1>2. CASE JobOp
  <2>1. ASSUME NEW t \in Deferred, GrowAged(t)
        PROVE  JobTypes'
    BY <2>1 DEF GrowAged, JobTypes, callerVars
  <2>2. CASE list \/ \E t \in Recalled : lookup(t) \/ abandon(t)
    BY <2>2, RegistryTypes, CallerTypes, TasksAssumption DEF RegistryStep
  <2>. QED  BY <1>2, <2>1, <2>2 DEF JobOp
<1>3. ASSUME NEW t \in Deferred, CallerStep(t)
      PROVE  JobTypes'
  BY <1>3, CallerTypes
<1>4. ASSUME NEW t \in Tasks, TaskStep(t)
      PROVE  JobTypes'
  <2>1. CASE \/ run_task(t) \/ CheckSession(t) \/ prepare(t) \/ Subscribe(t) \/ EnterSession(t)
             \/ RecheckSession(t) \/ Answer(t) \/ BindAffinity(t) \/ Leave(t)
             \/ \E what \in Outcomes : Interrupt(t, what)
    BY <1>1, <2>1 DEF run_task, CheckSession, prepare, Subscribe, EnterSession, RecheckSession,
                      Answer, BindAffinity, Leave, Interrupt
  <2>2. CASE submit(t) /\ t \in Deferred
    BY <2>2, RegistryTypes DEF RegistryStep, submit
  <2>3. CASE Progress(t)
    <3>1. UNCHANGED <<registry, finished, caller>>
      BY <2>3 DEF Progress, update, callerVars
    <3>2. status' = [status EXCEPT ![t] = IF @ \in Terminal \cup {"cancelling"} THEN @ ELSE "running"]
      BY <2>3 DEF Progress, update
    <3>3. status' \in [Tasks -> Status]
      BY <3>2 DEF JobTypes, Status
    <3>. QED  BY <3>1, <3>3 DEF JobTypes
  <2>4. CASE Commit(t) \/ SignalDone(t)
    <3>1. UNCHANGED <<registry, status, finished, caller>>
      BY <2>4 DEF Commit, SignalDone, send_done, callerVars
    <3>. QED  BY <3>1 DEF JobTypes
  <2>5. CASE Finish(t)
    <3>1. PICK verdict \in Status : finish(t, verdict)
      BY <2>5 DEF Finish, Verdict, Status, Terminal
    <3>2. UNCHANGED <<registry, caller>> /\ finished' = Append(finished, t)
      BY <3>1 DEF finish, callerVars
    <3>3. status' \in [Tasks -> Status]
      BY <3>1 DEF finish, JobTypes, Status, Terminal
    <3>. QED  BY <3>2, <3>3 DEF JobTypes
  <2>. QED  BY <1>4, <2>1, <2>2, <2>3, <2>4, <2>5 DEF TaskStep
<1>5. CASE ScopeOp \/ SessionOp \/ UNCHANGED vars
  BY <1>1, <1>5 DEF ScopeOp, SessionOp, vars
<1>. QED  BY <1>2, <1>3, <1>4, <1>5, Steps

LEMMA TypeStep == TypeOK /\ [Next]_vars => TypeOK'
<1>. SUFFICES ASSUME TypeOK, [Next]_vars PROVE TypeOK'
  OBVIOUS
<1>1. TaskTypes' /\ StoreTypes'
  <2>1. ASSUME NEW t \in Tasks, TaskStep(t)
        PROVE  TaskTypes' /\ StoreTypes'
    BY <2>1, TaskTypesStep, TaskStoreStep
  <2>2. CASE ScopeOp
    BY <2>2, ScopeOpStep, OthersStep DEF TypeOK, TaskTypes, taskVars
  <2>3. CASE SessionOp \/ JobOp \/ UNCHANGED vars \/ \E t \in Deferred : CallerStep(t)
    <3>1. UNCHANGED <<scopeVars, taskVars>>
      BY <2>3 DEF SessionOp, JobOp, CallerStep, vars
    <3>. QED  BY <3>1 DEF TypeOK, TaskTypes, StoreTypes, scopeVars, taskVars
  <2>. QED  BY <2>1, <2>2, <2>3, Steps
<1>. QED  BY <1>1, SessionTypesStep, JobTypesStep DEF TypeOK

-----------------------------------------------------------------------------
(* Histories *)

LEMMA MintedGrows ==
  ASSUME TypeOK, [Next]_vars
  PROVE  minted \subseteq minted' /\ opened \subseteq opened'
<1>1. minted \subseteq minted'
  <2>1. ASSUME NEW t \in Tasks, TaskStep(t)
        PROVE  minted' = minted
    BY <2>1, TaskStoreStep
  <2>2. CASE ScopeOp
    BY <2>2, ScopeOpStep DEF TypeOK, OldAsTheyWere
  <2>3. CASE SessionOp \/ JobOp \/ UNCHANGED vars \/ \E t \in Deferred : CallerStep(t)
    BY <2>3 DEF SessionOp, JobOp, CallerStep, vars, scopeVars
  <2>. QED  BY <2>1, <2>2, <2>3, Steps
<1>. QED  BY <1>1, SessionTypesStep DEF SessionMove

LEMMA KnowsStep ==
  ASSUME TypeOK, Knows, [Next]_vars
  PROVE  Knows'
<1>1. ASSUME NEW u \in Tasks, Known(u)
      PROVE  Known(u)'
  BY <1>1, MintedGrows DEF Known
<1>2. ASSUME NEW u \in Tasks, pc'[u] # "new", pc[u] = "new"
      PROVE  Known(u)
  <2>1. UNCHANGED pc => FALSE
    BY <1>2
  <2>2. PICK t \in Tasks : TaskStep(t)
    BY <2>1, Steps, OthersStep DEF taskVars
  <2>3. t # u => pc'[u] = pc[u]
    BY <2>2 DEF TaskStep, run_task, CheckSession, submit, prepare, Subscribe, EnterSession,
                RecheckSession, Progress, Answer, BindAffinity, Interrupt, Commit, Leave, Finish,
                SignalDone, Goto, End, TypeOK, TaskTypes, taskVars
  <2>4. run_task(u) \/ CheckSession(u)
    BY <1>2, <2>2, <2>3 DEF TaskStep, submit, prepare, Subscribe, EnterSession, RecheckSession,
                Progress, Answer, BindAffinity, Interrupt, Commit, Leave, Finish, SignalDone
  <2>. QED  BY <2>4 DEF run_task, CheckSession
<1>. QED  BY <1>1, <1>2 DEF Knows

LEMMA FateStep ==
  ASSUME TypeOK, FateOpen, [Next]_vars
  PROVE  FateOpen'
<1>. USE DEF TypeOK, TaskTypes, FateOpen, Goto, End
<1>1. ASSUME UNCHANGED taskVars
      PROVE  FateOpen'
  BY <1>1 DEF taskVars
<1>2. ASSUME NEW t \in Tasks, TaskStep(t)
      PROVE  FateOpen'
  <2>1. CASE run_task(t) \/ CheckSession(t) \/ submit(t)
    BY <2>1 DEF run_task, CheckSession, submit
  <2>2. CASE prepare(t)
    BY <2>2 DEF prepare
  <2>3. CASE Subscribe(t) \/ EnterSession(t) \/ RecheckSession(t)
    BY <2>3 DEF Subscribe, EnterSession, RecheckSession
  <2>4. CASE Progress(t) \/ Answer(t) \/ BindAffinity(t)
    BY <2>4 DEF Progress, Answer, BindAffinity, taskVars
  <2>5. CASE Commit(t)
    BY <2>5 DEF Commit
  <2>6. CASE Leave(t) \/ Finish(t) \/ SignalDone(t)
    BY <2>6 DEF Leave, Finish, SignalDone
  <2>7. ASSUME NEW what \in Outcomes, Interrupt(t, what)
        PROVE  FateOpen'
    BY <2>7 DEF Interrupt
  <2>. QED  BY <1>2, <2>1, <2>2, <2>3, <2>4, <2>5, <2>6, <2>7 DEF TaskStep
<1>. QED  BY <1>1, <1>2, Steps, OthersStep

\* What a task that takes no lease and appends nothing does to its history.
LEMMA QuietPrepared ==
  ASSUME TypeOK, Knows, Prepared, NEW t \in Tasks, OldAsTheyWere, UNCHANGED turns,
         \/ UNCHANGED pc
         \/ \E phase \in Phases : Goto(t, phase) /\ (phase \in Holding => pc[t] \in Holding)
  PROVE  Prepared'
<1>. SUFFICES ASSUME NEW u \in Tasks, Scoped(u), pc'[u] \in Holding, ScopeOf[u] \in DOMAIN store'
              PROVE  /\ store'[ScopeOf[u]].lease = u
                     /\ turns'[u] = Append(store'[ScopeOf[u]].messages, u)
  BY DEF Prepared, Scoped
<1>1. pc[u] \in Holding
  BY DEF Goto, TypeOK, TaskTypes
<1>2. ScopeOf[u] \in minted
  BY <1>1 DEF Knows, Known, Holding
<1>. QED  BY <1>1, <1>2 DEF OldAsTheyWere, Prepared

LEMMA LeasePrepared ==
  ASSUME TypeOK, Knows, Prepared, NEW t \in Tasks, prepare(t)
  PROVE  Prepared'
<1>. USE DEF TypeOK
<1>1. CASE ~ Scoped(t)
  <2>1. UNCHANGED <<store, turns>> /\ Goto(t, "prepared")
    BY <1>1 DEF prepare, scopeVars
  <2>. QED  BY <1>1, <2>1 DEF Prepared, Goto, TaskTypes, Scoped
<1>2. CASE Prune /\ UNCHANGED <<minted, turns>> /\ Goto(t, "dropping")
  BY <1>2, PruneStep, QuietPrepared DEF Phases, Holding
<1>3. CASE /\ Scoped(t) /\ CanLease(ScopeOf[t], quoted[t]) /\ Lease(t, ScopeOf[t])
           /\ turns' = [turns EXCEPT ![t] = Append(store[ScopeOf[t]].messages, t)]
           /\ Goto(t, "prepared")
  <2>. DEFINE s == ScopeOf[t]
  <2>1. s \in Kept /\ store[s].lease = NoOne /\ s \in DOMAIN store
    BY <1>3 DEF CanLease, Kept
  <2>2. /\ DOMAIN store' = Kept
        /\ \A r \in Kept \ {s} : store'[r] = store[r]
        /\ store'[s] = [store[s] EXCEPT !.lease = t]
    BY <1>3, <2>1, LeaseStep
  <2>3. store[s] \in History
    BY <2>1 DEF StoreTypes
  <2>4. store'[s].lease = t /\ store'[s].messages = store[s].messages
    BY <2>2, <2>3 DEF History
  <2>5. turns'[t] = Append(store[s].messages, t) /\ \A u \in Tasks \ {t} : turns'[u] = turns[u]
    BY <1>3 DEF TaskTypes
  <2>6. \A u \in Tasks \ {t} : pc'[u] = pc[u]
    BY <1>3 DEF TaskTypes, Goto
  <2>7. ASSUME NEW u \in Tasks \ {t}, Scoped(u), pc'[u] \in Holding, ScopeOf[u] \in DOMAIN store'
        PROVE  /\ store'[ScopeOf[u]].lease = u
               /\ turns'[u] = Append(store'[ScopeOf[u]].messages, u)
    <3>1. ScopeOf[u] \in DOMAIN store /\ store[ScopeOf[u]].lease = u
          /\ turns[u] = Append(store[ScopeOf[u]].messages, u)
      BY <2>2, <2>6, <2>7 DEF Prepared, Kept
    <3>2. ScopeOf[u] # s
      BY <2>1, <3>1, TasksFinite
    <3>. QED  BY <2>2, <2>5, <2>7, <3>1, <3>2
  <2>. QED  BY <2>4, <2>5, <2>7 DEF Prepared, Scoped
<1>. QED  BY <1>1, <1>2, <1>3 DEF prepare, End

LEMMA CommitPrepared ==
  ASSUME TypeOK, Knows, Prepared, NEW t \in Tasks, Commit(t)
  PROVE  Prepared'
<1>. USE DEF TypeOK
<1>1. UNCHANGED turns /\ Goto(t, "dropping") /\ "dropping" \in Phases
  BY DEF Commit, End, Phases
<1>2. CASE Prune /\ UNCHANGED minted
  BY <1>1, <1>2, PruneStep, QuietPrepared DEF Holding
<1>3. CASE UNCHANGED scopeVars
  BY <1>1, <1>3, QuietPrepared DEF Holding, OldAsTheyWere, scopeVars, StoreTypes
<1>4. CASE Commits(t) /\ AppendTurns(ScopeOf[t], turns[t])
  <2>. DEFINE s == ScopeOf[t]
  <2>1. s \in Kept /\ store[s].lease = t
    BY <1>4 DEF Commits, CanAppend
  <2>2. DOMAIN store' = Kept /\ \A r \in Kept \ {s} : store'[r] = store[r]
    BY <1>4, <2>1, AppendStep DEF TaskTypes
  <2>3. pc'[t] = "dropping" /\ \A u \in Tasks \ {t} : pc'[u] = pc[u]
    BY <1>1 DEF TaskTypes, Goto
  <2>4. ASSUME NEW u \in Tasks, Scoped(u), pc'[u] \in Holding, ScopeOf[u] \in DOMAIN store'
        PROVE  /\ store'[ScopeOf[u]].lease = u
               /\ turns'[u] = Append(store'[ScopeOf[u]].messages, u)
    <3>1. u # t /\ pc[u] \in Holding
      BY <2>3, <2>4 DEF Holding
    <3>2. ScopeOf[u] \in DOMAIN store /\ store[ScopeOf[u]].lease = u
          /\ turns[u] = Append(store[ScopeOf[u]].messages, u)
      BY <2>2, <2>4, <3>1 DEF Prepared, Kept
    <3>3. ScopeOf[u] # s
      BY <2>1, <3>1, <3>2
    <3>. QED  BY <1>1, <2>2, <2>4, <3>2, <3>3
  <2>. QED  BY <2>4 DEF Prepared, Scoped
<1>. QED  BY <1>2, <1>3, <1>4 DEF Commit

LEMMA LeavePrepared ==
  ASSUME TypeOK, Knows, Prepared, NEW t \in Tasks, Leave(t)
  PROVE  Prepared'
<1>. USE DEF TypeOK
<1>1. UNCHANGED turns /\ pc[t] = "dropping" /\ Goto(t, "returned")
  BY DEF Leave
<1>2. \A u \in Tasks : pc'[u] \in Holding => u # t /\ pc[u] \in Holding
  BY <1>1 DEF TaskTypes, Goto, Holding
<1>3. CASE UNCHANGED scopeVars
  BY <1>1, <1>2, <1>3 DEF Prepared, scopeVars, Scoped
<1>4. CASE DropLease(t, ScopeOf[t])
  <2>1. /\ DOMAIN store' = DOMAIN store
        /\ \A r \in DOMAIN store : store[r].lease # t => store'[r] = store[r]
    BY <1>4 DEF DropLease
  <2>. QED  BY <1>1, <1>2, <2>1 DEF Prepared, Scoped
<1>. QED  BY <1>3, <1>4 DEF Leave

LEMMA PreparedStep ==
  ASSUME TypeOK, Knows, Prepared, [Next]_vars
  PROVE  Prepared'
<1>1. CASE ScopeOp
  BY <1>1, ScopeOpStep, OthersStep DEF TypeOK, Prepared, Knows, Known, Holding, OldAsTheyWere, taskVars, Scoped
<1>2. CASE SessionOp \/ JobOp \/ UNCHANGED vars \/ \E t \in Deferred : CallerStep(t)
  <2>1. UNCHANGED <<store, pc, turns>>
    BY <1>2 DEF SessionOp, JobOp, CallerStep, vars, scopeVars, taskVars
  <2>. QED  BY <2>1 DEF Prepared, Scoped
<1>3. ASSUME NEW t \in Tasks, TaskStep(t)
      PROVE  Prepared'
  <2>1. CASE prepare(t) \/ Commit(t) \/ Leave(t)
    BY <2>1, LeasePrepared, CommitPrepared, LeavePrepared
  <2>2. CASE \/ run_task(t) \/ CheckSession(t) \/ submit(t) \/ Subscribe(t) \/ EnterSession(t)
             \/ RecheckSession(t) \/ Progress(t) \/ Answer(t) \/ BindAffinity(t) \/ Finish(t)
             \/ SignalDone(t) \/ \E what \in Outcomes : Interrupt(t, what)
    <3>1. UNCHANGED <<store, minted, turns>>
      BY <2>2 DEF run_task, CheckSession, submit, Subscribe, EnterSession, RecheckSession, Progress,
                  Answer, BindAffinity, Finish, SignalDone, Interrupt, scopeVars, taskVars
    <3>2. UNCHANGED pc \/ \E phase \in Phases : Goto(t, phase) /\ (phase \in Holding => pc[t] \in Holding)
      BY <2>2 DEF run_task, CheckSession, submit, Subscribe, EnterSession, RecheckSession, Progress,
                  Answer, BindAffinity, Finish, SignalDone, Interrupt, taskVars, End, Phases, Holding
    <3>3. OldAsTheyWere
      BY <3>1 DEF OldAsTheyWere
    <3>. QED  BY <3>1, <3>2, <3>3, QuietPrepared
  <2>. QED  BY <1>3, <2>1, <2>2 DEF TaskStep
<1>. QED  BY <1>1, <1>2, <1>3, Steps

LEMMA BindsAloneStep ==
  ASSUME TypeOK, BindsAlone, [Next]_vars
  PROVE  BindsAlone'
<1>. USE DEF TypeOK, TaskTypes, BindsAlone, Scoped
<1>1. ASSUME UNCHANGED taskVars
      PROVE  BindsAlone'
  BY <1>1 DEF taskVars
<1>2. ASSUME NEW t \in Tasks, TaskStep(t)
      PROVE  BindsAlone'
  BY <1>2 DEF TaskStep, run_task, CheckSession, submit, prepare, Subscribe, EnterSession,
              RecheckSession, Progress, Answer, BindAffinity, Interrupt, Commit, Leave, Finish,
              SignalDone, Goto, End, taskVars
<1>. QED  BY <1>1, <1>2, Steps, OthersStep

-----------------------------------------------------------------------------
(* Sessions *)

LEMMA WatchesStep ==
  ASSUME TypeOK, Knows, Watches, [Next]_vars
  PROVE  Watches'
<1>. SUFFICES ASSUME NEW u \in Tasks, Scoped(u), InSession(u),
                     pc'[u] \in {"entering", "running", "committing"}
              PROVE  \/ u \in watched'
                     \/ pc'[u] = "entering" /\ SessionOf[u] \notin sessions'
  BY DEF Watches, Scoped, InSession
<1>. USE DEF TypeOK, TaskTypes
<1>1. ASSUME pc[u] = pc'[u], watched \subseteq watched'
      PROVE  \/ u \in watched'
             \/ pc'[u] = "entering" /\ SessionOf[u] \notin sessions'
  <2>1. SessionOf[u] \in opened
    BY <1>1 DEF Knows, Known
  <2>2. SessionOf[u] \in sessions' => SessionOf[u] \in sessions
    BY <2>1, SessionTypesStep DEF SessionMove
  <2>. QED  BY <1>1, <2>2 DEF Watches
<1>2. CASE UNCHANGED taskVars
  BY <1>1, <1>2 DEF taskVars
<1>3. ASSUME NEW t \in Tasks, TaskStep(t)
      PROVE  \/ u \in watched'
             \/ pc'[u] = "entering" /\ SessionOf[u] \notin sessions'
  <2>1. watched \subseteq watched'
    BY <1>3 DEF TaskStep, run_task, CheckSession, submit, prepare, Subscribe, EnterSession,
                RecheckSession, Progress, Answer, BindAffinity, Interrupt, Commit, Leave, Finish,
                SignalDone, taskVars
  <2>2. CASE Subscribe(t) /\ t = u
    <3>1. u \in watched' \/ SessionOf[u] \notin sessions'
      BY <2>2 DEF Subscribe, sessionVars
    <3>2. pc'[u] = "entering"
      BY <2>2 DEF Subscribe, Goto
    <3>. QED  BY <3>1, <3>2
  <2>3. CASE EnterSession(t) /\ t = u
    BY <2>1, <2>3 DEF EnterSession, Goto, End, Watches, Active
  <2>4. CASE Answer(t) /\ t = u
    BY <2>1, <2>4 DEF Answer, Goto, End, Watches
  <2>5. CASE t # u
    <3>1. pc'[u] = pc[u]
      BY <1>3, <2>5 DEF TaskStep, run_task, CheckSession, submit, prepare, Subscribe, EnterSession,
                RecheckSession, Progress, Answer, BindAffinity, Interrupt, Commit, Leave, Finish,
                SignalDone, Goto, End, taskVars
    <3>. QED  BY <1>1, <2>1, <3>1
  <2>6. CASE RecheckSession(t) \/ Progress(t)
    BY <1>1, <2>1, <2>6 DEF RecheckSession, Progress, End, Goto, taskVars
  <2>7. CASE /\ t = u
             /\ \/ run_task(t) \/ CheckSession(t) \/ submit(t) \/ prepare(t) \/ BindAffinity(t)
                \/ Commit(t) \/ Leave(t) \/ Finish(t) \/ SignalDone(t)
                \/ \E what \in Outcomes : Interrupt(t, what)
    BY <1>1, <2>1, <2>7 DEF run_task, CheckSession, submit, prepare, BindAffinity, Interrupt, Commit, Leave,
                Finish, SignalDone, Goto, End
  <2>. QED  BY <1>3, <2>2, <2>3, <2>4, <2>5, <2>6, <2>7 DEF TaskStep
<1>. QED  BY <1>2, <1>3, Steps, OthersStep

-----------------------------------------------------------------------------
(* Jobs *)

\* What the step of a task makes of its phase.
LEMMA OnlyItsPhase ==
  ASSUME TypeOK, NEW t \in Tasks, TaskStep(t)
  PROVE  \A u \in Tasks \ {t} : pc'[u] = pc[u] /\ outcome'[u] = outcome[u]
  BY DEF TaskStep, run_task, CheckSession, submit, prepare, Subscribe, EnterSession, RecheckSession,
         Progress, Answer, BindAffinity, Interrupt, Commit, Leave, Finish, SignalDone, Goto, End,
         TypeOK, TaskTypes, taskVars

\* A step that ends no job, and forgets none that has ended.
LEMMA QuietStatus ==
  ASSUME StatusInv, UNCHANGED <<Ended, done, aged, caller>>,
         \A u \in Tasks : status'[u] \in Terminal <=> status[u] \in Terminal,
         \A u \in Tasks : Over(u)' <=> Over(u),
         \A u \in Tasks : pc'[u] = "checked" => u \in Deferred
  PROVE  StatusInv'
<1>1. \A u \in Tasks : pc'[u] \in {"checked", "finished", "done"} => u \in Deferred
  BY DEF StatusInv, Over
<1>2. /\ \A u \in Tasks : status'[u] \in Terminal <=> Over(u)'
      /\ \A u \in Tasks : u \in Ended' => Over(u)'
      /\ \A u \in Tasks : u \in done' => Over(u)'
      /\ aged' \subseteq Ended'
      /\ \A u \in Tasks : caller'[u] \in {"answered", "cleared"} => Over(u)'
  BY DEF StatusInv
<1>. QED  BY <1>1, <1>2 DEF StatusInv

LEMMA StatusStep ==
  ASSUME TypeOK, StatusInv, HandleInv, [Next]_vars
  PROVE  StatusInv'
<1>. USE TasksAssumption DEF TypeOK, TaskTypes, JobTypes, StatusInv, Over, Terminal, Goto, End
<1>1. CASE UNCHANGED <<jobVars, pc>>
  BY <1>1 DEF jobVars, Ended
<1>2. CASE JobOp
  <2>1. UNCHANGED <<pc, status, finished, done>>
    BY <1>2 DEF JobOp, taskVars, list, GrowAged, lookup, abandon
  <2>2. aged' \subseteq Ended /\ Ended' = Ended
    BY <1>2, <2>1 DEF JobOp, list, GrowAged, lookup, abandon, Ended
  <2>3. \A t \in Tasks : caller'[t] \in {"answered", "cleared"} => caller[t] \in {"answered", "cleared"}
    BY <1>2 DEF JobOp, list, GrowAged, lookup, abandon, callerVars
  <2>. QED  BY <2>1, <2>2, <2>3
<1>3. ASSUME NEW t \in Deferred, CallerStep(t)
      PROVE  StatusInv'
  <2>1. UNCHANGED <<pc, Ended, done, aged>>
    BY <1>3 DEF CallerStep, taskVars, cancel_job, wait_done, reply, clear, remove, Ended
  <2>2. \A u \in Tasks : status'[u] \in Terminal <=> status[u] \in Terminal
    BY <1>3 DEF CallerStep, cancel_job, wait_done, reply, clear, remove
  <2>3. \A u \in Tasks : caller'[u] \in {"answered", "cleared"} => Over(u)
    BY <1>3 DEF CallerStep, cancel_job, wait_done, reply, clear, remove
  <2>. QED  BY <2>1, <2>2, <2>3
<1>4. ASSUME NEW t \in Tasks, TaskStep(t)
      PROVE  StatusInv'
  <2>1. CASE /\ \/ run_task(t) \/ CheckSession(t) \/ prepare(t) \/ Subscribe(t) \/ EnterSession(t)
                \/ RecheckSession(t) \/ Answer(t) \/ BindAffinity(t) \/ Leave(t) \/ Commit(t)
                \/ \E what \in Outcomes : Interrupt(t, what)
    <3>1. UNCHANGED <<status, Ended, done, aged, caller>>
      BY <2>1 DEF run_task, CheckSession, prepare, Subscribe, EnterSession, RecheckSession,
                  Answer, BindAffinity, Leave, Interrupt, Commit, jobVars, callerVars, Ended
    <3>2. ~ Over(t) /\ ~ Over(t)'
      BY <2>1 DEF run_task, CheckSession, prepare, Subscribe, EnterSession, RecheckSession,
                  Answer, BindAffinity, Leave, Interrupt, Commit
    <3>3. pc'[t] = "checked" => t \in Deferred
      BY <2>1 DEF run_task, CheckSession, prepare, Subscribe, EnterSession, RecheckSession,
                  Answer, BindAffinity, Leave, Interrupt, Commit
    <3>4. \A u \in Tasks : (Over(u)' <=> Over(u)) /\ (pc'[u] = "checked" => u \in Deferred)
      BY <1>4, <3>2, <3>3, OnlyItsPhase
    <3>. QED  BY <3>1, <3>4, QuietStatus
  <2>2. CASE submit(t)
    <3>1. UNCHANGED <<Ended, done, aged, caller>>
      BY <2>2 DEF submit, insert, refuse, callerVars, Ended
    <3>2. pc[t] = "checked" /\ pc'[t] \in {"queued", "new"}
      BY <2>2 DEF submit
    <3>3. \A u \in Tasks : status'[u] \in Terminal <=> status[u] \in Terminal
      BY <2>2, <3>2 DEF submit, insert, refuse
    <3>4. \A u \in Tasks : (Over(u)' <=> Over(u)) /\ (pc'[u] = "checked" => u \in Deferred)
      BY <1>4, <3>2, OnlyItsPhase
    <3>. QED  BY <3>1, <3>3, <3>4, QuietStatus
  <2>3. CASE Progress(t)
    <3>1. UNCHANGED <<pc, Ended, done, aged, caller>>
      BY <2>3 DEF Progress, update, taskVars, callerVars, Ended
    <3>2. \A u \in Tasks : status'[u] \in Terminal <=> status[u] \in Terminal
      BY <2>3 DEF Progress, update
    <3>. QED  BY <3>1, <3>2
  <2>4. CASE Finish(t)
    <3>1. t \in Deferred /\ pc'[t] = "finished" /\ UNCHANGED <<done, aged, caller>>
      BY <2>4 DEF Finish, finish, callerVars
    <3>2. Ended' = Ended \cup {t}
      <4>1. finished' = Append(finished, t)
        BY <2>4 DEF Finish, finish
      <4>2. /\ DOMAIN finished' = DOMAIN finished \cup {Len(finished) + 1}
            /\ \A i \in DOMAIN finished : finished'[i] = finished[i]
            /\ finished'[Len(finished) + 1] = t
        BY <4>1
      <4>. QED  BY <4>2 DEF Ended, Range
    <3>3. status'[t] \in Terminal /\ \A u \in Tasks \ {t} : status'[u] = status[u]
      BY <2>4 DEF Finish, finish, Verdict
    <3>4. \A u \in Tasks \ {t} : pc'[u] = pc[u]
      BY <1>4, OnlyItsPhase
    <3>5. \A u \in Tasks : pc'[u] \in {"checked", "finished", "done"} => u \in Deferred
      BY <3>1, <3>4
    <3>6. \A u \in Tasks : status'[u] \in Terminal <=> Over(u)'
      BY <3>1, <3>3, <3>4
    <3>7. \A u \in Tasks : u \in Ended' \/ u \in done' \/ caller'[u] \in {"answered", "cleared"} => Over(u)'
      BY <3>1, <3>2, <3>4
    <3>8. aged' \subseteq Ended'
      BY <3>1, <3>2
    <3>. QED  BY <3>5, <3>6, <3>7, <3>8
  <2>5. CASE SignalDone(t)
    BY <2>5 DEF SignalDone, send_done, callerVars, Ended
  <2>. QED  BY <1>4, <2>1, <2>2, <2>3, <2>4, <2>5 DEF TaskStep
<1>5. CASE ScopeOp \/ SessionOp \/ UNCHANGED vars
  BY <1>1, <1>5 DEF ScopeOp, SessionOp, vars, taskVars
<1>. QED  BY <1>2, <1>3, <1>4, <1>5, Steps

LEMMA HandleStep ==
  ASSUME TypeOK, StatusInv, HandleInv, [Next]_vars
  PROVE  HandleInv'
<1>. USE TasksAssumption DEF TypeOK, TaskTypes, JobTypes
<1>1. /\ Fresh \subseteq registry /\ make_room \subseteq registry
      /\ \A t \in registry : ~ Over(t) => t \in Fresh /\ t \in make_room
  BY RoomIsMadeByTheEnded DEF StatusInv
<1>2. \A S : S \subseteq registry => IsFiniteSet(S) /\ Cardinality(S) <= MaxJobs
  <2>1. ASSUME NEW S, S \subseteq registry
        PROVE  IsFiniteSet(S) /\ Cardinality(S) <= MaxJobs
    <3>1. IsFiniteSet(S) /\ Cardinality(S) <= Cardinality(registry)
      BY <2>1, FS_Subset
    <3>2. Cardinality(S) \in Nat /\ Cardinality(registry) \in Nat /\ MaxJobs \in Nat
      BY <3>1, FS_CardinalityType, MaxJobsAssumption
    <3>. QED  BY <3>1, <3>2 DEF HandleInv
  <2>. QED  BY <2>1
<1>3. CASE UNCHANGED <<registry, caller, pc>>
  BY <1>3 DEF HandleInv
<1>4. CASE JobOp
  <2>1. UNCHANGED pc /\ registry' \in {registry, Fresh}
    BY <1>4 DEF JobOp, taskVars, list, GrowAged, lookup, abandon
  <2>2. \A t \in Tasks : caller'[t] # "idle" => caller[t] # "idle" \/ t \in registry
    BY <1>1, <1>4 DEF JobOp, list, GrowAged, lookup, abandon, callerVars
  <2>3. Cardinality(registry') <= MaxJobs
    BY <1>1, <1>2, <2>1
  <2>. QED  BY <1>1, <2>1, <2>2, <2>3 DEF HandleInv, Over
<1>5. ASSUME NEW t \in Deferred, CallerStep(t)
      PROVE  HandleInv'
  <2>1. UNCHANGED pc
    BY <1>5 DEF CallerStep, taskVars
  <2>2. \A u \in Tasks : caller'[u] # "idle" => caller[u] # "idle"
    BY <1>5 DEF CallerStep, cancel_job, wait_done, reply, clear, remove
  <2>3. \/ registry' = registry
        \/ registry' = registry \ {t} /\ Over(t)
    BY <1>5 DEF CallerStep, cancel_job, wait_done, reply, clear, remove, StatusInv
  <2>4. Cardinality(registry') <= MaxJobs
    BY <1>2, <2>3
  <2>. QED  BY <2>1, <2>2, <2>3, <2>4 DEF HandleInv, Over
<1>6. ASSUME NEW t \in Tasks, TaskStep(t)
      PROVE  HandleInv'
  <2>1. CASE submit(t)
    <3>1. pc[t] = "checked" /\ t \in Deferred /\ UNCHANGED caller
      BY <2>1 DEF submit, insert, refuse, callerVars, StatusInv
    <3>2. CASE registry' = make_room /\ pc'[t] = "new"
      <4>1. Cardinality(registry') <= MaxJobs
        BY <1>1, <1>2, <3>2
      <4>. QED  BY <1>1, <1>6, <3>1, <3>2, <4>1, OnlyItsPhase DEF HandleInv, Over
    <3>3. CASE Cardinality(make_room) < MaxJobs /\ registry' = make_room \cup {t} /\ pc'[t] = "queued"
      <4>1. IsFiniteSet(make_room) /\ Cardinality(make_room) \in Nat
        BY <1>1, <1>2, FS_CardinalityType
      <4>2. Cardinality(registry') <= Cardinality(make_room) + 1
        <5>1. Cardinality(make_room \cup {t}) = IF t \in make_room THEN Cardinality(make_room)
                                                ELSE Cardinality(make_room) + 1
          BY <4>1, FS_AddElement
        <5>2. Cardinality(make_room) <= Cardinality(make_room) + 1
          BY <4>1
        <5>3. registry' = make_room \cup {t}
          BY <3>3
        <5>. QED  BY <4>1, <5>1, <5>2, <5>3
      <4>3. Cardinality(registry') \in Nat
        BY <3>3, <4>1, FS_AddElement, FS_CardinalityType
      <4>4. Cardinality(registry') <= MaxJobs
        BY <3>3, <4>1, <4>2, <4>3, MaxJobsAssumption
      <4>. QED  BY <1>1, <1>6, <3>1, <3>3, <4>4, OnlyItsPhase DEF HandleInv, Over
    <3>. QED  BY <2>1, <3>2, <3>3 DEF submit, insert, refuse, Goto
  <2>2. CASE \/ run_task(t) \/ CheckSession(t) \/ prepare(t) \/ Subscribe(t) \/ EnterSession(t)
             \/ RecheckSession(t) \/ Progress(t) \/ Answer(t) \/ BindAffinity(t) \/ Leave(t) \/ Commit(t)
             \/ Finish(t) \/ SignalDone(t) \/ \E what \in Outcomes : Interrupt(t, what)
    <3>1. UNCHANGED <<registry, caller>>
      BY <2>2 DEF run_task, CheckSession, prepare, Subscribe, EnterSession, RecheckSession, Progress,
                  Answer, BindAffinity, Leave, Interrupt, Commit, Finish, SignalDone, update, finish,
                  send_done, jobVars, callerVars
    <3>2. t \in Deferred /\ pc'[t] \in {"new", "checked"} => pc[t] \in {"new", "checked"}
      BY <2>2 DEF run_task, CheckSession, prepare, Subscribe, EnterSession, RecheckSession, Progress,
                  Answer, BindAffinity, Leave, Interrupt, Commit, Finish, SignalDone, taskVars, Goto, End
    <3>3. t \in Deferred /\ pc'[t] \notin {"new", "checked", "finished", "done"} =>
            pc[t] \notin {"new", "checked", "finished", "done"}
      BY <2>2 DEF run_task, CheckSession, prepare, Subscribe, EnterSession, RecheckSession, Progress,
                  Answer, BindAffinity, Leave, Interrupt, Commit, Finish, SignalDone, taskVars, Goto, End
    <3>. QED  BY <1>6, <3>1, <3>2, <3>3, OnlyItsPhase DEF HandleInv
  <2>. QED  BY <1>6, <2>1, <2>2 DEF TaskStep
<1>7. CASE ScopeOp \/ SessionOp \/ UNCHANGED vars
  BY <1>3, <1>7 DEF ScopeOp, SessionOp, vars, taskVars, jobVars
<1>. QED  BY <1>4, <1>5, <1>6, <1>7, Steps

LEMMA CommittedStep ==
  ASSUME TypeOK, FateOpen, BindsAlone, CommittedInv, [Next]_vars
  PROVE  CommittedInv'
<1>. USE TasksAssumption DEF TypeOK, TaskTypes, CommittedInv, Scoped
<1>1. ASSUME UNCHANGED <<outcome, committed, cancel>>
      PROVE  CommittedInv'
  BY <1>1
<1>2. CASE JobOp
  BY <1>1, <1>2 DEF JobOp, taskVars, list, GrowAged, lookup, abandon
<1>3. ASSUME NEW t \in Deferred, CallerStep(t)
      PROVE  CommittedInv'
  BY <1>3 DEF CallerStep, cancel_job, wait_done, reply, clear, remove, taskVars
<1>4. ASSUME NEW t \in Tasks, TaskStep(t)
      PROVE  CommittedInv'
  <2>1. CASE Commit(t)
    BY <2>1 DEF Commit, Commits, Goto, End
  <2>2. CASE ~ Commit(t)
    <3>1. UNCHANGED <<committed, cancel>>
      BY <1>4, <2>2 DEF TaskStep, run_task, CheckSession, submit, prepare, Subscribe, EnterSession, RecheckSession,
                  Progress, Answer, BindAffinity, Leave, Interrupt, Finish, SignalDone, insert, refuse,
                  update, finish, send_done, jobVars
    <3>2. outcome'[t] = "ok" => outcome[t] = "ok" \/ ~ Scoped(t)
      BY <1>4, <2>2 DEF TaskStep, run_task, CheckSession, submit, prepare, Subscribe, EnterSession, RecheckSession,
                  Progress, Answer, BindAffinity, Leave, Interrupt, Finish, SignalDone, taskVars, Goto, End,
                  BindsAlone
    <3>. QED  BY <1>4, <3>1, <3>2, OnlyItsPhase
  <2>. QED  BY <2>1, <2>2
<1>5. CASE ScopeOp \/ SessionOp \/ UNCHANGED vars
  BY <1>1, <1>5 DEF ScopeOp, SessionOp, vars, taskVars, jobVars
<1>. QED  BY <1>2, <1>3, <1>4, <1>5, Steps

-----------------------------------------------------------------------------
(* The theorems *)

LEMMA InitInv == Init => Inv
<1>. SUFFICES ASSUME Init PROVE Inv
  OBVIOUS
<1>. USE DEF Init, StoreInit, SessionsInit, JobsInit
<1>1. TypeOK
  <2>1. TaskTypes
    BY DEF TaskTypes, Phases, Outcomes
  <2>2. StoreTypes /\ SessionTypes
    BY DEF StoreTypes, SessionTypes
  <2>3. IsFiniteSet(registry)
    BY FS_EmptySet
  <2>4. JobTypes
    BY <2>3 DEF JobTypes, Status
  <2>. QED  BY <2>1, <2>2, <2>4 DEF TypeOK
<1>2. HistoryInv
  BY DEF HistoryInv, Knows, FateOpen, BindsAlone, Prepared, Watches, Holding
<1>3. JobInv
  <2>1. Cardinality(registry) <= MaxJobs
    BY FS_EmptySet, MaxJobsAssumption
  <2>2. Ended = {}
    BY DEF Ended, Range
  <2>3. StatusInv
    BY <2>2 DEF StatusInv, Over, Terminal
  <2>. QED  BY <2>1, <2>3, TasksAssumption DEF JobInv, HandleInv, CommittedInv
<1>. QED  BY <1>1, <1>2, <1>3 DEF Inv

LEMMA InvStep == Inv /\ [Next]_vars => Inv'
<1>. SUFFICES ASSUME Inv, [Next]_vars PROVE Inv'
  OBVIOUS
<1>. USE DEF Inv, HistoryInv, JobInv
<1>1. TypeOK'
  BY TypeStep
<1>2. HistoryInv'
  BY KnowsStep, FateStep, BindsAloneStep, PreparedStep, WatchesStep
<1>3. JobInv'
  BY StatusStep, HandleStep, CommittedStep
<1>. QED  BY <1>1, <1>2, <1>3

LEMMA Invariant == Spec => []Inv
<1>1. Init => Inv
  BY InitInv
<1>2. Inv /\ [Next]_vars => Inv'
  BY InvStep
<1>. QED  BY <1>1, <1>2, PTL DEF Spec

\* From its preparation to its commit a task owns its history, although others lease,
\* fork, delete and prune histories under the same lock: no drop of another task's
\* lease and no second lease gets in between (ScopeStore::lease and ScopeLease::drop,
\* scopes.rs).
THEOREM LeaseIsHeld == Spec => []LeaseHeld
<1>1. Inv => LeaseHeld
  BY DEF Inv, HistoryInv, Prepared, Holding, LeaseHeld, Leased
<1>. QED  BY <1>1, Invariant, PTL

\* A job that has not finished keeps its handle whatever is pruned, listed, removed
\* or evicted meanwhile, and the handles never exceed MAX_JOBS (jobs.rs).
THEOREM ActiveJobsStay == Spec => []ActiveJobsReachable
<1>1. Inv => ActiveJobsReachable
  BY DEF Inv, JobInv, HandleInv, ActiveJobsReachable
<1>. QED  BY <1>1, Invariant, PTL

\* A session that has been killed gets no turn appended, whichever of the kill, the
\* pruning of idle sessions, the subscription and the commit comes first
\* (commit_scoped_completion, execution/mod.rs).
THEOREM KilledSessionsAppendNothing == Spec => KilledNeverAppends
<1>. DEFINE Silent == \A t \in Tasks : Scoped(t) /\ pc[t] = "committing" /\ outcome'[t] = "ok" =>
                                         SessionOf[t] \notin killed
<1>1. ASSUME Inv, [Next]_vars
      PROVE  Silent
  <2>. SUFFICES ASSUME NEW u \in Tasks, Scoped(u), pc[u] = "committing", outcome'[u] = "ok",
                       SessionOf[u] \in killed
                PROVE  FALSE
    OBVIOUS
  <2>. USE <1>1 DEF Inv, TypeOK, TaskTypes, HistoryInv
  <2>1. outcome[u] = "none"
    BY DEF FateOpen
  <2>2. ~ UNCHANGED taskVars
    BY <2>1 DEF taskVars
  <2>3. PICK t \in Tasks : TaskStep(t)
    BY <2>2, Steps, OthersStep
  <2>4. t = u
    BY <2>1, <2>3, OnlyItsPhase
  <2>5. Commit(u)
    BY <2>1, <2>3, <2>4 DEF TaskStep, run_task, CheckSession, submit, prepare, Subscribe, EnterSession,
                RecheckSession, Progress, Answer, BindAffinity, Interrupt, Leave, Finish, SignalDone,
                Goto, End, taskVars
  <2>6. ~ Killed(u)
    BY <2>5 DEF Commit, Commits, End
  <2>7. InSession(u)
    BY SessionsAssumption DEF InSession, SessionTypes
  <2>8. u \in watched
    BY <2>7 DEF Watches
  <2>. QED  BY <2>6, <2>8 DEF Killed
<1>2. Inv /\ [Next]_vars => [Silent]_vars
  BY <1>1
<1>. QED  BY <1>2, Invariant, PTL DEF Spec, KilledNeverAppends

-----------------------------------------------------------------------------
(* The promise of the histories *)

\* What ScopeHistory sees of the state.
Histories == [s \in Kept |-> [revision |-> store[s].revision, turns |-> store[s].messages]]
Quotes == [t \in ScopedTasks |-> quoted[t]]
Fates == [t \in ScopedTasks |-> Fate(t)]
News == [t \in ScopedTasks |-> Told(t)]

LEMMA SameHistories ==
  ASSUME Kept' = Kept,
         \A s \in Kept : /\ store'[s].revision = store[s].revision
                         /\ store'[s].messages = store[s].messages
  PROVE  Histories' = Histories
  BY DEF Histories

LEMMA PruneHistories ==
  ASSUME Prune
  PROVE  Histories' = Histories
<1>1. DOMAIN store' = Kept /\ \A s \in Kept : store'[s] = store[s]
  BY PrunedAsItWas DEF Prune
<1>2. Kept' = Kept
  BY <1>1 DEF Prune, Kept
<1>. QED  BY <1>1, <1>2, SameHistories

LEMMA LeaseHistories ==
  ASSUME StoreTypes, NEW t \in Tasks, NEW s \in Kept, Lease(t, s)
  PROVE  Histories' = Histories
<1>1. Kept' = Kept
  BY LeaseStep DEF Kept, Lease
<1>2. store[s] \in History
  BY DEF StoreTypes, Kept
<1>3. store'[s].revision = store[s].revision /\ store'[s].messages = store[s].messages
  <2>1. store'[s] = [store[s] EXCEPT !.lease = t]
    BY LeaseStep
  <2>. QED  BY <1>2, <2>1 DEF History
<1>4. \A r \in Kept \ {s} : store'[r] = store[r]
  BY LeaseStep
<1>. QED  BY <1>1, <1>3, <1>4, SameHistories

LEMMA DropHistories ==
  ASSUME StoreTypes, NEW t \in Tasks, NEW s, DropLease(t, s)
  PROVE  Histories' = Histories
<1>1. Kept' = Kept
  BY DropStep DEF Kept, DropLease
<1>2. ASSUME NEW r \in Kept
      PROVE  store'[r].revision = store[r].revision /\ store'[r].messages = store[r].messages
  <2>1. store[r] \in History /\ r \in DOMAIN store
    BY DEF StoreTypes, Kept
  <2>2. \/ store'[r] = store[r]
        \/ store'[r] = [store[r] EXCEPT !.lease = NoOne]
    BY <2>1, DropStep
  <2>. QED  BY <2>1, <2>2 DEF History
<1>. QED  BY <1>1, <1>2, SameHistories

\* A new history appears beside the others.
LEMMA InsertCreates ==
  ASSUME StoreTypes, NEW s \in Scopes, s \notin minted, NEW messages, Insert(s, NewHistory(messages)),
         messages = << >> \/ \E r \in Kept : messages = store[r].messages,
         UNCHANGED <<Quotes, Fates, News>>
  PROVE  Promise!Create(s)
<1>1. s \notin Kept /\ DOMAIN Histories = Kept
  BY DEF StoreTypes, Kept, Histories
<1>2. Kept' = Kept \cup {s} /\ \A r \in Kept \cup {s} : store'[r] = IF r = s THEN NewHistory(messages) ELSE store[r]
  BY DEF Insert, Kept
<1>3. Histories' = [r \in Kept \cup {s} |-> IF r = s THEN [revision |-> 0, turns |-> messages] ELSE Histories[r]]
  BY <1>1, <1>2 DEF Histories, NewHistory
<1>4. messages \in {<< >>} \cup {Histories[r].turns : r \in Kept}
  BY DEF Histories
<1>. HIDE DEF Histories, Quotes, Fates, News
<1>5. /\ s \notin DOMAIN Histories
      /\ \E turns_1 \in {<< >>} \cup {Histories[r].turns : r \in DOMAIN Histories} :
           Histories' = [r \in DOMAIN Histories \cup {s} |->
                           IF r = s THEN [revision |-> 0, turns |-> turns_1] ELSE Histories[r]]
      /\ UNCHANGED <<Quotes, Fates, News>>
  BY <1>1, <1>3, <1>4
<1>. QED  BY <1>5 DEF Promise!Create, Histories, Quotes, Fates, News

LEMMA ForgetStep ==
  ASSUME NEW s \in Kept, Kept' = Kept \ {s}, \A r \in Kept' : store'[r] = store[r],
         UNCHANGED <<Quotes, Fates, News>>
  PROVE  Promise!Forget(s)
<1>1. s \in DOMAIN Histories /\ Histories' = Restrict(Histories, DOMAIN Histories \ {s})
  BY DEF Histories, Restrict
<1>. QED  BY <1>1 DEF Promise!Forget, Promise!Restrict, Restrict, Histories, Quotes, Fates, News

\* What callers do to histories is what ScopeHistory lets happen.
LEMMA ScopeOpPromise ==
  ASSUME StoreTypes, ScopeOp
  PROVE  Promise!Next \/ UNCHANGED <<Histories, Quotes, Fates, News>>
<1>1. UNCHANGED <<Quotes, Fates, News>>
  BY DEF ScopeOp, taskVars, jobVars, Quotes, Fates, News, Fate, Told, ScopedTasks, Scoped
<1>2. ASSUME NEW s \in Scopes, Promise!Create(s) \/ Promise!Forget(s)
      PROVE  Promise!Next
  BY <1>2 DEF Promise!Next
<1>3. ASSUME NEW s \in Scopes, create(s)
      PROVE  Promise!Next \/ Histories' = Histories
  BY <1>1, <1>2, <1>3, InsertCreates, PruneHistories DEF create
<1>4. ASSUME NEW s \in minted, NEW new \in Scopes, NEW r \in 0 .. Cardinality(Tasks), fork(s, r, new)
      PROVE  Promise!Next \/ Histories' = Histories
  BY <1>1, <1>2, <1>4, InsertCreates, PruneHistories DEF fork, Forkable
<1>5. ASSUME NEW s \in Scopes, get(s)
      PROVE  Promise!Next \/ Histories' = Histories
  BY <1>5, PruneHistories DEF get
<1>6. ASSUME NEW s \in Scopes, delete(s)
      PROVE  Promise!Next \/ Histories' = Histories
  <2>1. Kept' = Kept \ {s} /\ \A r \in Kept' : store'[r] = store[r]
    BY <1>6 DEF delete, Kept, Restrict
  <2>2. CASE s \in Kept
    BY <1>1, <1>2, <2>1, <2>2, ForgetStep
  <2>3. CASE s \notin Kept
    <3>1. Kept' = Kept /\ \A r \in Kept : store'[r] = store[r]
      BY <2>1, <2>3
    <3>. QED  BY <3>1, SameHistories
  <2>. QED  BY <2>2, <2>3
<1>7. ASSUME NEW s \in Scopes, WearOut(s)
      PROVE  Promise!Next \/ Histories' = Histories
  <2>1. s \in Kept /\ Kept' = Kept \ {s} /\ \A r \in Kept' : store'[r] = store[r]
    BY <1>7 DEF WearOut, Kept
  <2>. QED  BY <1>1, <1>2, <2>1, ForgetStep
<1>. QED  BY <1>1, <1>3, <1>4, <1>5, <1>6, <1>7 DEF ScopeOp

\* What is not a step of a task, nor one of the store, is not seen.
LEMMA OthersUnseen ==
  ASSUME TypeOK, SessionOp \/ JobOp \/ UNCHANGED vars \/ \E t \in Deferred : CallerStep(t)
  PROVE  UNCHANGED <<Histories, Quotes, Fates, News>>
<1>1. UNCHANGED <<Histories, Quotes, Fates>>
  BY DEF SessionOp, JobOp, CallerStep, vars, scopeVars, taskVars, Histories, Kept, Quotes, Fates, Fate,
         ScopedTasks, Scoped
<1>2. ASSUME UNCHANGED <<status, pc, outcome>>
      PROVE  News' = News
  BY <1>2 DEF News, Told, ScopedTasks, Scoped
<1>3. ASSUME SessionOp \/ JobOp \/ UNCHANGED vars
      PROVE  News' = News
  BY <1>2, <1>3 DEF SessionOp, JobOp, vars, taskVars, jobVars, list, GrowAged, lookup, abandon
<1>4. ASSUME NEW t \in Deferred, CallerStep(t)
      PROVE  News' = News
  <2>1. \A u \in Tasks : \/ status'[u] = status[u]
                         \/ status[u] \notin Terminal /\ status'[u] = "cancelling"
    BY <1>4 DEF TypeOK, JobTypes, CallerStep, cancel_job, wait_done, reply, clear, remove
  <2>2. UNCHANGED <<pc, outcome>>
    BY <1>4 DEF CallerStep, taskVars
  <2>3. \A u \in Tasks : Told(u)' = Told(u)
    BY <2>1, <2>2 DEF Told, Terminal
  <2>. QED  BY <2>3 DEF News, ScopedTasks, Scoped
<1>. QED  BY <1>1, <1>2, <1>3, <1>4

\* A step of t, seen as one of the promise: what happens to its fate and to what
\* its caller has learnt, while the others keep theirs.
LEMMA OtherFates ==
  ASSUME TypeOK, NEW t \in Tasks, TaskStep(t)
  PROVE  \A u \in Tasks \ {t} : Fate(u)' = Fate(u) /\ Told(u)' = Told(u)
<1>1. \A u \in Tasks \ {t} : pc'[u] = pc[u] /\ outcome'[u] = outcome[u]
  BY OnlyItsPhase
<1>2. \A u \in Tasks \ {t} : status'[u] = status[u]
  BY DEF TaskStep, run_task, CheckSession, submit, prepare, Subscribe, EnterSession, RecheckSession,
         Progress, Answer, BindAffinity, Interrupt, Commit, Leave, Finish, SignalDone, insert, refuse,
         update, finish, send_done, jobVars, TypeOK, JobTypes
<1>. QED  BY <1>1, <1>2 DEF Fate, Told

\* A quoted revision, or nothing at all: the fate of t and what is told of it are as before.
LEMMA QuoteStep ==
  ASSUME TypeOK, NEW t \in Tasks, TaskStep(t), Scoped(t), Fate(t) = "open", Fate(t)' = "open",
         Told(t)' = Told(t), Histories' = Histories,
         NEW r \in Nat, quoted' = [quoted EXCEPT ![t] = r]
  PROVE  Promise!Quote(t)
<1>1. t \in ScopedTasks
  BY DEF ScopedTasks
<1>2. Fates' = Fates /\ News' = News
  BY OtherFates DEF Fates, News, ScopedTasks, Scoped
<1>3. Fates[t] = "open"
  BY <1>1 DEF Fates
<1>4. Quotes' = [Quotes EXCEPT ![t] = r]
  BY DEF Quotes, TypeOK, TaskTypes, ScopedTasks, Scoped
<1>5. DOMAIN Quotes = ScopedTasks
  BY DEF Quotes
<1>6. /\ Fates[t] = "open"
      /\ Quotes'[t] \in Nat
      /\ Quotes' = [Quotes EXCEPT ![t] = Quotes'[t]]
      /\ UNCHANGED <<Histories, Fates, News>>
  BY <1>1, <1>2, <1>3, <1>4, <1>5
<1>. QED  BY <1>6 DEF Promise!Quote, Histories, Quotes, Fates, News

LEMMA RefuseStep ==
  ASSUME TypeOK, NEW t \in Tasks, TaskStep(t), Scoped(t), Fate(t) = "open", Fate(t)' = "refused",
         Told(t)' = Told(t), Histories' = Histories, quoted' = quoted
  PROVE  Promise!Refuse(t)
<1>1. t \in ScopedTasks
  BY DEF ScopedTasks
<1>2. News' = News
  BY OtherFates DEF News, ScopedTasks, Scoped
<1>3. Fates[t] = "open" /\ Fates' = [Fates EXCEPT ![t] = "refused"]
  BY <1>1, OtherFates DEF Fates, ScopedTasks, Scoped
<1>4. Quotes' = Quotes
  BY DEF Quotes, ScopedTasks, Scoped
<1>. QED  BY <1>2, <1>3, <1>4 DEF Promise!Refuse, Histories, Quotes, Fates, News

LEMMA TellStep ==
  ASSUME TypeOK, NEW t \in Tasks, TaskStep(t), Scoped(t), Fate(t) # "open", Fate(t)' = Fate(t),
         Told(t) = "nothing", Told(t)' = IF Fate(t) = "appended" THEN "completed" ELSE "failed",
         Histories' = Histories, quoted' = quoted
  PROVE  Promise!Tell(t)
<1>1. t \in ScopedTasks
  BY DEF ScopedTasks
<1>2. Fates' = Fates
  BY OtherFates DEF Fates, ScopedTasks, Scoped
<1>3. News[t] = "nothing" /\ Fates[t] = Fate(t)
  BY <1>1 DEF Fates, News
<1>4. News' = [News EXCEPT ![t] = IF Fates[t] = "appended" THEN "completed" ELSE "failed"]
  BY <1>1, <1>3, OtherFates DEF News, ScopedTasks, Scoped
<1>5. Quotes' = Quotes
  BY DEF Quotes, ScopedTasks, Scoped
<1>6. /\ Fates[t] # "open" /\ News[t] = "nothing"
      /\ News' = [News EXCEPT ![t] = IF Fates[t] = "appended" THEN "completed" ELSE "failed"]
      /\ UNCHANGED <<Histories, Quotes, Fates>>
  BY <1>2, <1>3, <1>4, <1>5
<1>. QED  BY <1>6 DEF Promise!Tell, Histories, Quotes, Fates, News

LEMMA UnseenStep ==
  ASSUME TypeOK, NEW t \in Tasks, TaskStep(t), Histories' = Histories,
         Scoped(t) => Fate(t)' = Fate(t) /\ Told(t)' = Told(t) /\ quoted'[t] = quoted[t],
         \A u \in Tasks \ {t} : quoted'[u] = quoted[u]
  PROVE  UNCHANGED <<Histories, Quotes, Fates, News>>
  BY OtherFates DEF Quotes, Fates, News, ScopedTasks, Scoped

\* The turn of t is appended to the revision that it quoted.
LEMMA CommitExtends ==
  ASSUME TypeOK, FateOpen, Prepared, NEW t \in Tasks, Scoped(t), Commit(t),
         Commits(t), AppendTurns(ScopeOf[t], turns[t]), End(t, "ok"),
         Told(t)' = Told(t)
  PROVE  Promise!Extend(t)
<1>. DEFINE s == ScopeOf[t]
<1>. USE DEF TypeOK, TaskTypes
<1>1. t \in ScopedTasks
  BY DEF ScopedTasks
<1>2. TaskStep(t)
  BY DEF TaskStep
<1>3. pc[t] = "committing" /\ outcome[t] = "none"
  BY DEF Commit, FateOpen
<1>4. Fates[t] = "open"
  BY <1>1, <1>3 DEF Fates, Fate
<1>5. Fate(t)' = "appended"
  BY DEF End, Fate
<1>6. Fates' = [Fates EXCEPT ![t] = "appended"]
  BY <1>1, <1>2, <1>5, OtherFates DEF Fates, ScopedTasks, Scoped
<1>7. News' = News
  BY <1>2, OtherFates DEF News, ScopedTasks, Scoped
<1>8. quoted' = quoted /\ Quotes' = Quotes /\ Quotes[t] = quoted[t]
  BY <1>1 DEF Commit, Quotes, ScopedTasks, Scoped
<1>9. s \in Kept /\ s \in DOMAIN store /\ store[s].revision = quoted[t]
  BY DEF Commits, CanAppend, Kept
<1>10. turns[t] = Append(store[s].messages, t)
  BY <1>3, <1>9 DEF Prepared, Holding
<1>11. /\ DOMAIN store' = Kept /\ worn' = {}
       /\ \A r \in Kept \ {s} : store'[r] = store[r]
       /\ store'[s] = [revision |-> quoted[t] + 1, messages |-> Append(store[s].messages, t), lease |-> NoOne]
  BY <1>9, <1>10, AppendStep DEF AppendTurns
<1>12. Kept' = Kept
  BY <1>11 DEF Kept
<1>13. DOMAIN Histories = Kept /\ Histories[s].revision = quoted[t] /\ Histories[s].turns = store[s].messages
  BY <1>9 DEF Histories
<1>14. Histories' = [Histories EXCEPT ![s] = [revision |-> quoted[t] + 1, turns |-> Append(@.turns, t)]]
  <2>. DEFINE h == [revision |-> quoted[t] + 1, turns |-> Append(store[s].messages, t)]
  <2>1. Histories' = [r \in Kept |-> [revision |-> store'[r].revision, turns |-> store'[r].messages]]
    BY <1>12 DEF Histories
  <2>2. [revision |-> store'[s].revision, turns |-> store'[s].messages] = h
    BY <1>11
  <2>3. ASSUME NEW r \in Kept \ {s}
        PROVE  [revision |-> store'[r].revision, turns |-> store'[r].messages] = Histories[r]
    BY <1>11 DEF Histories
  <2>. HIDE DEF h
  <2>4. Histories' = [r \in Kept |-> IF r = s THEN h ELSE Histories[r]]
    BY <2>1, <2>2, <2>3
  <2>5. Histories = [r \in Kept |-> Histories[r]]
    BY DEF Histories
  <2>6. Histories' = [Histories EXCEPT ![s] = h]
    BY <1>9, <1>13, <2>4, <2>5
  <2>. QED  BY <1>13, <2>6 DEF h
<1>. HIDE DEF Histories, Quotes, Fates, News
<1>15. /\ Fates[t] = "open"
       /\ s \in DOMAIN Histories
       /\ Histories[s].revision = Quotes[t]
       /\ Histories' = [Histories EXCEPT ![s] = [revision |-> Quotes[t] + 1, turns |-> Append(@.turns, t)]]
       /\ Fates' = [Fates EXCEPT ![t] = "appended"]
       /\ UNCHANGED <<Quotes, News>>
  BY <1>4, <1>6, <1>7, <1>8, <1>9, <1>13, <1>14
<1>. QED  BY <1>15 DEF Promise!Extend, Histories, Quotes, Fates, News

Seen == <<Histories, Quotes, Fates, News>>

\* The phases in which nothing is told yet.
LEMMA NothingTold ==
  ASSUME StatusInv, NEW t \in Tasks, pc[t] \notin {"returned", "finished", "done"}
  PROVE  Told(t) = "nothing"
  BY DEF StatusInv, Over, Told, Terminal

\* A step within the work of t, or one that ends it without a turn.
LEMMA WorkPromise ==
  ASSUME Inv, NEW t \in Tasks, TaskStep(t), outcome[t] = "none", status'[t] \notin Terminal,
         pc'[t] # "returned", Scoped(t) => outcome'[t] # "ok",
         Histories' = Histories, quoted' = quoted
  PROVE  Promise!Next \/ UNCHANGED Seen
<1>1. TypeOK /\ FateOpen /\ StatusInv
  BY DEF Inv, HistoryInv, JobInv
<1>2. pc[t] \notin {"dropping", "returned", "finished", "done"}
  BY <1>1 DEF FateOpen
<1>3. Told(t) = "nothing"
  BY <1>1, <1>2, NothingTold
<1>4. Told(t)' = "nothing"
  BY DEF Told, Terminal
<1>5. Fate(t) = "open"
  BY DEF Fate
<1>6. CASE Scoped(t) /\ outcome'[t] # "none"
  <2>1. Fate(t)' = "refused"
    BY <1>6 DEF Fate
  <2>2. Promise!Refuse(t)
    BY <1>1, <1>3, <1>4, <1>5, <1>6, <2>1, RefuseStep
  <2>. QED  BY <1>6, <2>2 DEF Promise!Next, ScopedTasks
<1>7. CASE ~ (Scoped(t) /\ outcome'[t] # "none")
  <2>1. Scoped(t) => Fate(t)' = Fate(t)
    BY <1>5, <1>7 DEF Fate
  <2>. QED  BY <1>1, <1>3, <1>4, <2>1, UnseenStep DEF Seen
<1>. QED  BY <1>6, <1>7

LEMMA RequestPromise ==
  ASSUME Inv, NEW t \in Tasks, TaskStep(t), run_task(t) \/ CheckSession(t) \/ submit(t)
  PROVE  Promise!Next \/ UNCHANGED Seen
<1>. USE DEF TypeOK, TaskTypes, JobTypes
<1>1. TypeOK /\ FateOpen /\ StatusInv
  BY DEF Inv, HistoryInv, JobInv
<1>2. Histories' = Histories
  BY DEF run_task, CheckSession, submit, scopeVars, Histories, Kept
<1>3. pc[t] \in {"new", "checked"} /\ UNCHANGED outcome
  BY DEF run_task, CheckSession, submit
<1>4. outcome[t] = "none" /\ ~ Over(t)
  BY <1>1, <1>3 DEF FateOpen, Over
<1>5. status[t] \notin Terminal
  BY <1>1, <1>4 DEF StatusInv
<1>6. status'[t] \notin Terminal
  BY <1>1, <1>5 DEF run_task, CheckSession, submit, insert, refuse, jobVars, Terminal
<1>7. pc'[t] # "returned"
  BY <1>1, <1>3 DEF run_task, CheckSession, submit, Goto
<1>8. CASE quoted' = quoted
  BY <1>2, <1>3, <1>4, <1>6, <1>7, <1>8, WorkPromise
<1>9. ASSUME NEW r \in Quotable(t), quoted' = [quoted EXCEPT ![t] = r]
      PROVE  Promise!Next \/ UNCHANGED Seen
  <2>1. r \in Nat
    BY <1>1 DEF Quotable, StoreTypes, History
  <2>2. Fate(t) = "open" /\ Fate(t)' = "open"
    BY <1>3, <1>4 DEF Fate
  <2>3. Told(t) = "nothing" /\ Told(t)' = "nothing"
    BY <1>3, <1>5, <1>6, <1>7 DEF Told, Terminal
  <2>4. CASE Scoped(t)
    <3>1. Promise!Quote(t)
      BY <1>1, <1>2, <1>9, <2>1, <2>2, <2>3, <2>4, QuoteStep
    <3>. QED  BY <2>4, <3>1 DEF Promise!Next, ScopedTasks
  <2>5. CASE ~ Scoped(t)
    BY <1>1, <1>2, <1>9, <2>5, UnseenStep DEF Seen
  <2>. QED  BY <2>4, <2>5
<1>. QED  BY <1>8, <1>9 DEF run_task, CheckSession, submit

LEMMA RunPromise ==
  ASSUME Inv, NEW t \in Tasks, TaskStep(t),
         \/ prepare(t) \/ Subscribe(t) \/ EnterSession(t) \/ RecheckSession(t) \/ Progress(t)
         \/ Answer(t) \/ BindAffinity(t) \/ \E what \in Outcomes : Interrupt(t, what)
  PROVE  Promise!Next \/ UNCHANGED Seen
<1>. USE DEF TypeOK, TaskTypes, JobTypes
<1>1. TypeOK /\ FateOpen /\ StatusInv /\ BindsAlone
  BY DEF Inv, HistoryInv, JobInv
<1>2. pc[t] \in {"queued", "prepared", "entering", "running", "binding", "committing"}
  BY DEF prepare, Subscribe, EnterSession, RecheckSession, Progress, Answer, BindAffinity, Interrupt
<1>3. outcome[t] = "none" /\ status[t] \notin Terminal
  BY <1>1, <1>2 DEF FateOpen, StatusInv, Over
<1>4. status'[t] \notin Terminal
  BY <1>1, <1>3 DEF prepare, Subscribe, EnterSession, RecheckSession, Progress, Answer, BindAffinity, Interrupt,
                    jobVars, update, Terminal
<1>5. pc'[t] # "returned"
  BY <1>1, <1>2 DEF prepare, Subscribe, EnterSession, RecheckSession, Progress, Answer, BindAffinity, Interrupt,
                    taskVars, End, Goto
<1>6. Scoped(t) => outcome'[t] # "ok"
  BY <1>1, <1>3 DEF prepare, Subscribe, EnterSession, RecheckSession, Progress, Answer, BindAffinity, Interrupt,
                    taskVars, End, BindsAlone
<1>7. quoted' = quoted
  BY DEF prepare, Subscribe, EnterSession, RecheckSession, Progress, Answer, BindAffinity, Interrupt, taskVars
<1>8. CASE prepare(t) /\ ~ UNCHANGED scopeVars
  <2>1. Histories' = Histories
    BY <1>1, <1>8, LeaseHistories, PruneHistories DEF prepare, CanLease
  <2>. QED  BY <1>3, <1>4, <1>5, <1>6, <1>7, <2>1, WorkPromise
<1>9. CASE UNCHANGED scopeVars
  <2>1. Histories' = Histories
    BY <1>9 DEF scopeVars, Histories, Kept
  <2>. QED  BY <1>3, <1>4, <1>5, <1>6, <1>7, <2>1, WorkPromise
<1>. QED  BY <1>8, <1>9 DEF Subscribe, EnterSession, RecheckSession, Progress, Answer, BindAffinity, Interrupt

LEMMA CommitPromise ==
  ASSUME Inv, NEW t \in Tasks, Commit(t)
  PROVE  Promise!Next \/ UNCHANGED Seen
<1>. USE DEF TypeOK, TaskTypes, JobTypes
<1>1. TypeOK /\ FateOpen /\ StatusInv /\ Prepared
  BY DEF Inv, HistoryInv, JobInv
<1>2. TaskStep(t) /\ pc[t] = "committing" /\ UNCHANGED <<status, quoted>>
  BY DEF TaskStep, Commit
<1>3. outcome[t] = "none" /\ status[t] \notin Terminal
  BY <1>1, <1>2 DEF FateOpen, StatusInv, Over
<1>4. pc'[t] = "dropping"
  BY <1>1 DEF Commit, End, Goto
<1>5. CASE Commits(t) /\ AppendTurns(ScopeOf[t], turns[t]) /\ End(t, "ok")
  <2>1. Scoped(t)
    BY <1>1, <1>5, ScopesAssumption DEF Commits, CanAppend, Kept, StoreTypes, Scoped
  <2>2. Told(t)' = Told(t)
    BY <1>2, <1>3, <1>4 DEF Told, Terminal
  <2>3. Promise!Extend(t)
    BY <1>1, <1>5, <2>1, <2>2, CommitExtends
  <2>. QED  BY <2>1, <2>3 DEF Promise!Next, ScopedTasks
<1>6. CASE (Prune \/ UNCHANGED scopeVars) /\ \E what \in {"killed", "cancelled", "failed", "deadline"} : End(t, what)
  <2>1. Histories' = Histories
    BY <1>6, PruneHistories DEF scopeVars, Histories, Kept
  <2>2. outcome'[t] # "ok"
    BY <1>1, <1>6 DEF End
  <2>. QED  BY <1>2, <1>3, <1>4, <2>1, <2>2, WorkPromise
<1>. QED  BY <1>5, <1>6 DEF Commit

LEMMA LeavePromise ==
  ASSUME Inv, NEW t \in Tasks, Leave(t)
  PROVE  Promise!Next \/ UNCHANGED Seen
<1>. USE DEF TypeOK, TaskTypes, JobTypes
<1>1. TypeOK /\ FateOpen /\ StatusInv
  BY DEF Inv, HistoryInv, JobInv
<1>2. /\ TaskStep(t) /\ pc[t] = "dropping" /\ pc'[t] = "returned"
      /\ UNCHANGED <<status, quoted, outcome>>
  BY <1>1 DEF TaskStep, Leave, Goto, jobVars
<1>3. Histories' = Histories
  <2>1. CASE DropLease(t, ScopeOf[t])
    BY <1>1, <2>1, DropHistories
  <2>2. CASE UNCHANGED scopeVars
    BY <2>2 DEF scopeVars, Histories, Kept
  <2>. QED  BY <2>1, <2>2 DEF Leave
<1>4. outcome[t] # "none" /\ Told(t) = "nothing"
  BY <1>1, <1>2, NothingTold DEF FateOpen
<1>5. Fate(t)' = Fate(t) /\ Fate(t) # "open"
  BY <1>2, <1>4 DEF Fate
<1>6. CASE Told(t)' = Told(t)
  BY <1>1, <1>2, <1>3, <1>5, <1>6, UnseenStep DEF Seen
<1>7. CASE Scoped(t) /\ Told(t)' # Told(t)
  <2>1. t \notin Deferred /\ outcome[t] # "gone"
    BY <1>2, <1>4, <1>7 DEF Told
  <2>2. Told(t)' = IF Fate(t) = "appended" THEN "completed" ELSE "failed"
    BY <1>2, <1>4, <2>1 DEF Told, Fate
  <2>3. Promise!Tell(t)
    BY <1>1, <1>2, <1>3, <1>4, <1>5, <1>7, <2>2, TellStep
  <2>. QED  BY <1>7, <2>3 DEF Promise!Next, ScopedTasks
<1>8. CASE ~ Scoped(t)
  BY <1>1, <1>2, <1>3, <1>8, UnseenStep DEF Seen
<1>. QED  BY <1>6, <1>7, <1>8

LEMMA FinishPromise ==
  ASSUME Inv, NEW t \in Tasks, Finish(t)
  PROVE  Promise!Next \/ UNCHANGED Seen
<1>. USE DEF TypeOK, TaskTypes, JobTypes
<1>1. TypeOK /\ FateOpen /\ StatusInv /\ CommittedInv
  BY DEF Inv, HistoryInv, JobInv
<1>2. /\ TaskStep(t) /\ t \in Deferred /\ pc[t] = "returned"
      /\ UNCHANGED <<quoted, outcome>>
  BY <1>1 DEF TaskStep, Finish
<1>3. Histories' = Histories
  BY DEF Finish, scopeVars, Histories, Kept
<1>4. outcome[t] # "none" /\ status[t] \notin Terminal
  BY <1>1, <1>2 DEF FateOpen, StatusInv, Over
<1>5. Fate(t)' = Fate(t) /\ Fate(t) # "open" /\ Told(t) = "nothing"
  BY <1>2, <1>4 DEF Fate, Told, Terminal
<1>6. CASE Scoped(t)
  <2>1. finish(t, Verdict(t))
    BY <1>6 DEF Finish
  <2>2. status'[t] = IF t \in cancel THEN "cancelled" ELSE Verdict(t)
    BY <1>1, <2>1 DEF finish
  <2>3. outcome[t] = "ok" => t \notin cancel
    BY <1>1, <1>2, <1>6 DEF CommittedInv
  <2>4. Told(t)' = IF Fate(t) = "appended" THEN "completed" ELSE "failed"
    BY <1>2, <1>4, <2>2, <2>3 DEF Told, Fate, Verdict, Terminal
  <2>5. Promise!Tell(t)
    BY <1>1, <1>2, <1>3, <1>5, <1>6, <2>4, TellStep
  <2>. QED  BY <1>6, <2>5 DEF Promise!Next, ScopedTasks
<1>7. CASE ~ Scoped(t)
  BY <1>1, <1>2, <1>3, <1>7, UnseenStep DEF Seen
<1>. QED  BY <1>6, <1>7

LEMMA SignalPromise ==
  ASSUME Inv, NEW t \in Tasks, SignalDone(t)
  PROVE  UNCHANGED Seen
<1>1. TypeOK /\ StatusInv /\ t \in Deferred
  BY DEF Inv, JobInv, SignalDone, StatusInv
<1>2. TaskStep(t) /\ UNCHANGED <<quoted, outcome, status>>
  BY DEF TaskStep, SignalDone, send_done
<1>3. Histories' = Histories
  BY DEF SignalDone, scopeVars, Histories, Kept
<1>4. Fate(t)' = Fate(t) /\ Told(t)' = Told(t)
  BY <1>1, <1>2 DEF Fate, Told
<1>. QED  BY <1>1, <1>2, <1>3, <1>4, UnseenStep DEF Seen

LEMMA PromiseStep == Inv /\ [Next]_vars => [Promise!Next]_(Promise!vars)
<1>. SUFFICES ASSUME Inv, [Next]_vars
              PROVE  Promise!Next \/ UNCHANGED Seen
  BY DEF Promise!vars, Seen, Histories, Quotes, Fates, News
<1>1. ASSUME NEW t \in Tasks, TaskStep(t)
      PROVE  Promise!Next \/ UNCHANGED Seen
  BY <1>1, RequestPromise, RunPromise, CommitPromise, LeavePromise, FinishPromise, SignalPromise DEF TaskStep
<1>2. CASE ScopeOp
  BY <1>2, ScopeOpPromise DEF Inv, TypeOK, Seen
<1>3. CASE SessionOp \/ JobOp \/ UNCHANGED vars \/ \E t \in Deferred : CallerStep(t)
  BY <1>3, OthersUnseen DEF Inv, Seen
<1>. QED  BY <1>1, <1>2, <1>3, Steps

LEMMA PromiseInit == Init => Promise!Init
<1>. SUFFICES ASSUME Init PROVE Promise!Init
  OBVIOUS
<1>1. Kept = {}
  BY DEF Init, StoreInit, Kept
<1>2. Histories = << >>
  BY <1>1 DEF Histories
<1>3. /\ Quotes = [t \in ScopedTasks |-> 0]
      /\ Fates = [t \in ScopedTasks |-> "open"]
      /\ News = [t \in ScopedTasks |-> "nothing"]
  BY DEF Init, JobsInit, Quotes, Fates, News, Fate, Told, ScopedTasks, Terminal
<1>. QED  BY <1>2, <1>3 DEF Promise!Init, Histories, Quotes, Fates, News

\* The tasks implement ScopeHistory: through leases, prunings, forks, deletions, kills,
\* cancellations, deadlines and callers that go away, a turn is appended whole and once
\* to the revision its caller quoted, and the caller is told so just in case it was
\* (scopes.rs; commit_scoped_completion, execution/mod.rs; JobProgress, jobs.rs).
THEOREM PromiseIsKept == Spec => KeepsPromise
<1>1. Init => Promise!Init
  BY PromiseInit
<1>2. Inv /\ [Next]_vars => [Promise!Next]_(Promise!vars)
  BY PromiseStep
<1>. QED  BY <1>1, <1>2, Invariant, PTL DEF Spec, KeepsPromise, Promise!Spec

-----------------------------------------------------------------------------
(* Leases, jobs and callers that somebody still has to see to *)

Bound == Holding \cup {"dropping"}

\* Only who is on its way to drop its lease has one.
LeaseOwned == \A t \in Tasks : Leased(t) => pc[t] \in Bound

\* A job has a status, and can be cancelled, from its submission on; a request to
\* cancel is never replaced; and a supervisor that is through has signalled.
Begun == /\ \A t \in Tasks : status[t] # "none" \/ t \in cancel => pc[t] \notin {"new", "checked"}
         /\ \A t \in Tasks : t \in cancel => status[t] \in {"cancelling", "cancelled"}
         /\ \A t \in Tasks : pc[t] = "done" => t \in done

\* A history with a new id has no lease.
LEMMA NewHaveNoLease ==
  ASSUME StoreTypes, ScopeOp
  PROVE  \A s \in DOMAIN store' : s \notin minted => store'[s].lease = NoOne
<1>1. ASSUME NEW s \in Scopes, s \notin minted, NEW messages, Insert(s, NewHistory(messages))
      PROVE  \A r \in DOMAIN store' : r \notin minted => store'[r].lease = NoOne
  BY <1>1 DEF Insert, StoreTypes, Kept, NewHistory
<1>2. ASSUME DOMAIN store' \subseteq DOMAIN store
      PROVE  \A r \in DOMAIN store' : r \notin minted => store'[r].lease = NoOne
  BY <1>2 DEF StoreTypes
<1>3. Prune => DOMAIN store' \subseteq DOMAIN store
  BY PrunedAsItWas DEF Prune, Kept
<1>4. ASSUME NEW s \in Scopes, get(s) \/ delete(s) \/ WearOut(s)
      PROVE  DOMAIN store' \subseteq DOMAIN store
  BY <1>3, <1>4 DEF get, delete, WearOut, Restrict, Kept
<1>5. ASSUME NEW s \in Scopes, create(s)
      PROVE  \A r \in DOMAIN store' : r \notin minted => store'[r].lease = NoOne
  BY <1>1, <1>2, <1>3, <1>5 DEF create
<1>6. ASSUME NEW s \in minted, NEW new \in Scopes, NEW r, fork(s, r, new)
      PROVE  \A q \in DOMAIN store' : q \notin minted => store'[q].lease = NoOne
  BY <1>1, <1>2, <1>3, <1>6 DEF fork
<1>. QED  BY <1>2, <1>4, <1>5, <1>6 DEF ScopeOp

\* What a task that takes no lease does to the leases.
LEMMA QuietLease ==
  ASSUME TypeOK, LeaseOwned, NEW t \in Tasks, OldAsTheyWere,
         \A s \in DOMAIN store' : s \notin minted => store'[s].lease = NoOne,
         \/ UNCHANGED pc
         \/ \E phase \in Phases : Goto(t, phase) /\ (pc[t] \in Bound => phase \in Bound)
  PROVE  LeaseOwned'
<1>. SUFFICES ASSUME NEW u \in Tasks, Leased(u)' PROVE pc'[u] \in Bound
  BY DEF LeaseOwned
<1>1. ScopeOf[u] \in minted
  BY TasksFinite DEF Leased
<1>2. Leased(u)
  BY <1>1 DEF OldAsTheyWere, Leased
<1>. QED  BY <1>2 DEF LeaseOwned, Goto, TypeOK, TaskTypes

LEMMA LeaseOwnedStep ==
  ASSUME Inv, LeaseOwned, [Next]_vars
  PROVE  LeaseOwned'
<1>. USE DEF Inv, TypeOK
<1>1. CASE ScopeOp
  <2>1. UNCHANGED pc
    BY <1>1 DEF ScopeOp, taskVars
  <2>2. OldAsTheyWere /\ \A s \in DOMAIN store' : s \notin minted => store'[s].lease = NoOne
    BY <1>1, ScopeOpStep, NewHaveNoLease
  <2>3. ASSUME NEW u \in Tasks, Leased(u)'
        PROVE  Leased(u)
    BY <2>2, <2>3, TasksFinite DEF OldAsTheyWere, Leased
  <2>. QED  BY <2>1, <2>3 DEF LeaseOwned
<1>2. CASE SessionOp \/ JobOp \/ UNCHANGED vars \/ \E t \in Deferred : CallerStep(t)
  <2>1. UNCHANGED <<store, pc>>
    BY <1>2 DEF SessionOp, JobOp, CallerStep, vars, scopeVars, taskVars
  <2>. QED  BY <2>1 DEF LeaseOwned, Leased
<1>3. ASSUME NEW t \in Tasks, TaskStep(t)
      PROVE  LeaseOwned'
  <2>0. \A u \in Tasks \ {t} : pc'[u] = pc[u]
    BY <1>3, OnlyItsPhase
  <2>1. CASE prepare(t)
    <3>1. pc'[t] \in Bound
      BY <2>1 DEF prepare, Goto, End, TaskTypes, Bound, Holding
    <3>2. ASSUME NEW u \in Tasks \ {t}, Leased(u)'
          PROVE  Leased(u)
      <4>1. CASE UNCHANGED scopeVars
        BY <3>2, <4>1 DEF scopeVars, Leased
      <4>2. CASE Prune
        BY <3>2, <4>2, PrunedAsItWas DEF Prune, Leased, Kept
      <4>3. CASE CanLease(ScopeOf[t], quoted[t]) /\ Lease(t, ScopeOf[t])
        <5>1. ScopeOf[t] \in Kept
          BY <4>3 DEF CanLease
        <5>2. /\ DOMAIN store' = Kept
              /\ \A r \in Kept \ {ScopeOf[t]} : store'[r] = store[r]
              /\ store'[ScopeOf[t]] = [store[ScopeOf[t]] EXCEPT !.lease = t]
          BY <4>3, <5>1, LeaseStep
        <5>3. store[ScopeOf[t]] \in History
          BY <5>1 DEF StoreTypes, Kept
        <5>4. store'[ScopeOf[t]].lease = t
          BY <5>2, <5>3 DEF History
        <5>. QED  BY <3>2, <5>2, <5>4 DEF Leased, Kept
      <4>. QED  BY <2>1, <4>1, <4>2, <4>3 DEF prepare
    <3>. QED  BY <2>0, <3>1, <3>2 DEF LeaseOwned
  <2>2. CASE Commit(t)
    <3>1. pc'[t] \in Bound
      BY <2>2 DEF Commit, Goto, End, TaskTypes, Bound
    <3>2. ASSUME NEW u \in Tasks \ {t}, Leased(u)'
          PROVE  Leased(u)
      <4>1. CASE UNCHANGED scopeVars
        BY <3>2, <4>1 DEF scopeVars, Leased
      <4>2. CASE Prune
        BY <3>2, <4>2, PrunedAsItWas DEF Prune, Leased, Kept
      <4>3. CASE Commits(t) /\ AppendTurns(ScopeOf[t], turns[t])
        <5>1. ScopeOf[t] \in Kept
          BY <4>3 DEF Commits, CanAppend
        <5>2. /\ DOMAIN store' = Kept
              /\ \A r \in Kept \ {ScopeOf[t]} : store'[r] = store[r]
              /\ store'[ScopeOf[t]].lease = NoOne
          <6>1. turns[t] \in Seq(Tasks)
            BY DEF TaskTypes
          <6>2. /\ DOMAIN store' = Kept
                /\ \A r \in Kept \ {ScopeOf[t]} : store'[r] = store[r]
                /\ store'[ScopeOf[t]] = [revision |-> store[ScopeOf[t]].revision + 1,
                                         messages |-> turns[t], lease |-> NoOne]
            BY <4>3, <5>1, <6>1, AppendStep
          <6>. QED  BY <6>2
        <5>. QED  BY <3>2, <5>2, TasksFinite DEF Leased, Kept
      <4>. QED  BY <2>2, <4>1, <4>2, <4>3 DEF Commit
    <3>. QED  BY <2>0, <3>1, <3>2 DEF LeaseOwned
  <2>3. CASE Leave(t)
    <3>1. CASE UNCHANGED scopeVars /\ ~ Scoped(t)
      <4>1. ~ Leased(t)' /\ \A u \in Tasks : Leased(u)' => Leased(u)
        BY <3>1, ScopesAssumption DEF scopeVars, Leased, Scoped, StoreTypes
      <4>. QED  BY <2>0, <4>1 DEF LeaseOwned
    <3>2. CASE DropLease(t, ScopeOf[t])
      <4>1. /\ DOMAIN store' = DOMAIN store
            /\ \A r \in DOMAIN store : store[r].lease # t => store'[r] = store[r]
        BY <3>2 DEF DropLease
      <4>2. ASSUME NEW u \in Tasks, Leased(u)'
            PROVE  u # t /\ Leased(u)
        BY <3>2, <4>1, <4>2, DropStep, TasksFinite DEF Leased, DropLease, StoreTypes, History
      <4>. QED  BY <2>0, <4>2 DEF LeaseOwned
    <3>. QED  BY <2>3, <3>1, <3>2 DEF Leave
  <2>4. CASE \/ run_task(t) \/ CheckSession(t) \/ submit(t) \/ Subscribe(t) \/ EnterSession(t)
             \/ RecheckSession(t) \/ Progress(t) \/ Answer(t) \/ BindAffinity(t) \/ Finish(t)
             \/ SignalDone(t) \/ \E what \in Outcomes : Interrupt(t, what)
    <3>1. UNCHANGED <<store, minted>>
      BY <2>4 DEF run_task, CheckSession, submit, Subscribe, EnterSession, RecheckSession, Progress,
                  Answer, BindAffinity, Finish, SignalDone, Interrupt, scopeVars
    <3>2. pc[t] \in Bound => pc'[t] \in Bound \/ ~ Scoped(t)
      BY <2>4 DEF run_task, CheckSession, submit, Subscribe, EnterSession, RecheckSession, Progress,
                  Answer, BindAffinity, Finish, SignalDone, Interrupt, taskVars, Goto, End, TaskTypes,
                  Bound, Holding
    <3>3. ~ Scoped(t) => ~ Leased(t)
      BY ScopesAssumption DEF Scoped, Leased, StoreTypes
    <3>4. \A u \in Tasks : Leased(u)' => Leased(u)
      BY <3>1 DEF Leased
    <3>. QED  BY <2>0, <3>2, <3>3, <3>4 DEF LeaseOwned
  <2>. QED  BY <1>3, <2>1, <2>2, <2>3, <2>4 DEF TaskStep
<1>. QED  BY <1>1, <1>2, <1>3, Steps

LEMMA BegunStep ==
  ASSUME Inv, Begun, [Next]_vars
  PROVE  Begun'
<1>. USE TasksAssumption DEF Inv, JobInv, TypeOK, TaskTypes, JobTypes, Begun
<1>1. CASE UNCHANGED <<status, cancel, done, pc>>
  BY <1>1
<1>2. CASE JobOp
  BY <1>1, <1>2 DEF JobOp, taskVars, list, GrowAged, lookup, abandon
<1>3. ASSUME NEW t \in Deferred, CallerStep(t)
      PROVE  Begun'
  <2>1. UNCHANGED <<pc, done>>
    BY <1>3 DEF CallerStep, cancel_job, wait_done, reply, clear, remove, taskVars
  <2>2. CASE UNCHANGED <<status, cancel>>
    BY <1>1, <2>1, <2>2
  <2>3. CASE /\ caller[t] = "found"
             /\ status' = [status EXCEPT ![t] = "cancelling"]
             /\ cancel' = cancel \cup {t}
    <3>1. t \in Tasks /\ pc[t] \notin {"new", "checked"}
      BY <2>3 DEF HandleInv
    <3>. QED  BY <2>1, <2>3, <3>1
  <2>. QED  BY <1>3, <2>2, <2>3 DEF CallerStep, cancel_job, wait_done, reply, clear, remove
<1>4. ASSUME NEW t \in Tasks, TaskStep(t)
      PROVE  Begun'
  <2>0. \A u \in Tasks \ {t} : pc'[u] = pc[u]
    BY <1>4, OnlyItsPhase
  <2>1. CASE /\ \/ run_task(t) \/ CheckSession(t) \/ prepare(t) \/ Subscribe(t) \/ EnterSession(t)
                \/ RecheckSession(t) \/ Answer(t) \/ BindAffinity(t) \/ Leave(t) \/ Commit(t)
                \/ \E what \in Outcomes : Interrupt(t, what)
    <3>1. UNCHANGED <<status, cancel, done>>
      BY <2>1 DEF run_task, CheckSession, prepare, Subscribe, EnterSession, RecheckSession,
                  Answer, BindAffinity, Leave, Interrupt, Commit, jobVars
    <3>2. /\ pc'[t] # "done"
          /\ pc'[t] \in {"new", "checked"} => pc[t] \in {"new", "checked"}
      BY <2>1 DEF run_task, CheckSession, prepare, Subscribe, EnterSession, RecheckSession,
                  Answer, BindAffinity, Leave, Interrupt, Commit, Goto, End
    <3>. QED  BY <2>0, <3>1, <3>2
  <2>2. CASE submit(t)
    <3>1. t \notin cancel /\ UNCHANGED <<cancel, done>> /\ pc'[t] \in {"queued", "new"}
      BY <2>2 DEF submit, insert, refuse, Goto
    <3>2. \/ status' = [status EXCEPT ![t] = "queued"] /\ pc'[t] = "queued"
          \/ status' = status /\ status[t] = "none"
      BY <2>2 DEF submit, insert, refuse, Goto
    <3>. QED  BY <2>0, <3>1, <3>2
  <2>3. CASE Progress(t)
    BY <2>3 DEF Progress, update, taskVars, Terminal
  <2>4. CASE Finish(t)
    BY <2>4 DEF Finish, finish, Goto
  <2>5. CASE SignalDone(t)
    BY <2>5 DEF SignalDone, send_done, Goto
  <2>. QED  BY <1>4, <2>1, <2>2, <2>3, <2>4, <2>5 DEF TaskStep
<1>5. CASE ScopeOp \/ SessionOp \/ UNCHANGED vars
  BY <1>1, <1>5 DEF ScopeOp, SessionOp, vars, taskVars, jobVars
<1>. QED  BY <1>2, <1>3, <1>4, <1>5, Steps

Attended == Inv /\ LeaseOwned /\ Begun

LEMMA AttendedHolds == Spec => []Attended
<1>1. Init => Attended
  <2>. SUFFICES ASSUME Init PROVE Attended
    OBVIOUS
  <2>1. LeaseOwned /\ Begun
    BY DEF Init, StoreInit, JobsInit, LeaseOwned, Begun, Leased
  <2>. QED  BY <2>1, InitInv DEF Attended
<1>2. Attended /\ [Next]_vars => Attended'
  BY InvStep, LeaseOwnedStep, BegunStep DEF Attended
<1>. QED  BY <1>1, <1>2, PTL DEF Spec

\* Whoever has a lease, a job or a caller to answer for has still to take the step
\* that ends it: no interrupt, kill, cancellation or deletion loses one on the way.
THEOREM NobodyIsLeftBehind == Spec => []NobodyIsForgotten
<1>1. Attended => NobodyIsForgotten
  <2>. SUFFICES ASSUME Attended PROVE NobodyIsForgotten
    OBVIOUS
  <2>. USE TasksAssumption DEF Attended, Inv, JobInv, StatusInv, HandleInv, Over
  <2>1. \A t \in ScopedTasks : Leased(t) => pc[t] \in Bound
    BY DEF LeaseOwned, ScopedTasks
  <2>2. \A t \in Deferred : status[t] \notin Terminal \cup {"none"} =>
          pc[t] \notin {"new", "checked", "finished", "done"}
    BY DEF Begun
  <2>3. \A t \in Recalled : caller[t] = "waiting" /\ t \notin done => pc[t] \notin {"new", "checked", "done"}
    BY DEF Begun
  <2>. QED  BY <2>1, <2>2, <2>3 DEF NobodyIsForgotten, Bound, Holding
<1>. QED  BY <1>1, AttendedHolds, PTL

\* What has been cancelled stays so and appends nothing (JobProgress::finish and
\* the commit lock), and an answered caller finds the job over.
THEOREM CancellationStands == Spec => []CancelStands
<1>1. Attended => CancelStands
  <2>. SUFFICES ASSUME Attended, NEW t \in Deferred PROVE
         /\ t \in cancel => /\ status[t] \in {"cancelling", "cancelled"}
                            /\ ~ (Scoped(t) /\ outcome[t] = "ok")
         /\ caller[t] = "answered" => status[t] \in Terminal /\ ~ Leased(t)
    BY DEF CancelStands
  <2>. USE TasksAssumption DEF Attended, Inv, JobInv
  <2>1. t \in cancel => status[t] \in {"cancelling", "cancelled"} /\ ~ (Scoped(t) /\ outcome[t] = "ok")
    BY DEF Begun, CommittedInv
  <2>2. caller[t] = "answered" => status[t] \in Terminal /\ ~ Leased(t)
    BY DEF StatusInv, Over, LeaseOwned, Bound, Holding
  <2>. QED  BY <2>1, <2>2
<1>. QED  BY <1>1, AttendedHolds, PTL
=============================================================================
