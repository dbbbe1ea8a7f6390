# A formal model of the FreeLlama gateway

FreeLlama is a gateway in front of Ollama. A Rust core (`packages/rust-core/src`) accepts
*managed* tasks (routed, admitted, observed) and *raw* Ollama requests (passed through under a
cap); a TypeScript MCP server (`packages/mcp/src`) offers the same service as tools. This
directory holds TLA+ specifications of the parts of it where concurrency, cancellation and order
decide whether it is right, the configurations that model-check them, and the proofs of what they
promise. Paths below are relative to `packages/rust-core/src` unless they name a package.

## 1. Inventory

### Components, their state and their operations

| component | state | operations | what makes it correct |
|---|---|---|---|
| Managed admission pool, `platform/admission.rs` | units in use, limit, ceiling, queue, resource waiters, credits, the grant | acquire, claim, release, resource wait, requeue, set_limit, set_ceiling, set_max_waiters | units accounted, no lost wakeup, grant never stranded, bounded bypass, queue bound, fairness between classes |
| Circuit breakers, `platform/runtime/breaker.rs` | failures in a row, open until, probe in flight | check, record, drop of a probe | one probe, always given back; closed only below the threshold |
| Raw proxy admission, `proxy/admission.rs` | active, limit, waiting | acquire, drop, set | no slot leaks, waiting bounded, no sleeper beside a free slot |
| Resource governor, `platform/resources/` | reservations, pressure holds, last sample | reserve, wait, release, refresh | reservations never exceed what is free; holds are released |
| Execution pipeline, `platform/execution/` | transition lock, permits of one task | admit, wait for memory, transition, forward, commit | no permit outlives its task; exclusive work excludes shared work |
| Adaptive limiter, `platform/runtime/adaptive.rs` | limit, baseline, probe, in-flight guard | observe, reset, guard | limit stays in range; a failed probe is undone |
| Deferred jobs, `platform/jobs.rs` | table of jobs, bytes kept | submit, update, cancel, finish, remove | a job ends once; cancellation and completion cannot both win; memory bounded |
| Scopes, `platform/scopes.rs` | messages, revision, lease | create, fork, prepare, commit, delete | one writer at a time; a commit never lands on a changed scope; the caller's turn is in the history iff it is told so |
| Sessions, `platform/sessions.rs` | session, cancellation token | create, kill, delete | nothing runs in a killed session |
| Routing and affinity, `platform/routing.rs` | affinity store | rank, bind, touch, kill | a binding follows its session |
| Catalogue, `platform/catalog.rs`, `discovery.rs` | cached model list | refresh, read | a stale list is never served as fresh |
| Residency and warming, `platform/residency.rs`, `warming.rs` | resident models, warm set | evict, warm, rewarm | a plan unloads idle runners only, and none without need |
| Sizes and feedback, `platform/footprint.rs`, `feedback.rs` | measured runner sizes, placement statistics, two files | observe, record, save, load | a file never becomes older; what is said to be persisted is there after a restart |
| Batches, `platform/tasks_api.rs` | credits, running items, answers | validate, start, end, respond | weighted start, one answer for every item |
| Repetition guard, `platform/repetition.rs`, `loops.rs` | window of output | push, verdict | stops loops and only loops |
| Configuration, `platform/runtime/{resolve,settings}.rs` | layered settings | resolve, reload | precedence, validity after a reload |
| Telemetry, `platform/telemetry/` | counters, ledger | record, read | bounded, ordered |
| Raw proxy, `proxy/{mod,retry,config}.rs` | none of its own | forward, retry | only safe requests are retried |
| MCP server, `packages/mcp/src` | child process, task polls, agent loop | tools, delegate, lifecycle | one server process, budgets respected |

### How they interact

A managed task checks its backend's breaker, takes a slot of the admission pool, asks the governor
for memory (giving its slot back and holding a place among the *resource waiters* while it waits),
takes the backend's transition lock shared or exclusive, forwards upstream, reports the outcome to
the breaker and to the adaptive limiter, which moves the pool's limit, and commits the answer to
its scope. A deferred job runs the same pipeline under its own cancellation token; a session owns
scopes and jobs. A raw request takes a raw slot and the transition lock. Configuration reloads
reach all of them while they run.

### What is hard here

* every lock is released before waiters are notified, and waiters look before they sleep;
* futures are dropped at any await (client gone, cancellation, deadline);
* outcomes arrive after the state they are about has moved on (breaker, jobs, scopes, limiter);
* limits move under requests that were measured against the old ones;
* weighted fairness and backfill pull against each other.

The hazards, each at its line, are in `PROJECT.json`.

## 2. Modules

Every module has its mutants beside it: an operator named `Action_WhatIsWrong`, defined just
before the definition it distorts. They are not part of any specification.

### SlotPool, Admission (`platform/admission.rs`)

`Admission` has one action per critical section of the pool's mutex and one for each call of
`notify_waiters` that follows it, because the code signals after it has unlocked. A request's `pc`
says where it is between two sections: `loop` (about to arm its `Notified`), `armed`, `asleep`,
`holding`, and the six *signalling* places. A ticket is the request that holds it; the `Vec` of
waiters is the set `waiting` with the set `ahead[r]` of waiters in front of each. `selected_waiter`
is an operator that returns the choice and the credits it leaves. `Yield`, `Requeue` and
`DropResourceWait` are the slot handoff of `execution/pipeline.rs` while a task waits for memory.
`SlotPool` is what the pool promises: a weighted semaphore without queue or wakeups.

`FairSpec` says what the executor owes (section 4).

### Breaker (`platform/runtime/breaker.rs`, `execution/forward.rs`)

One backend. `Pass` and `Probe` are `check`; `Abort` is every way a task ends before Ollama
answers; `EndProbe` and `Record…` are the two critical sections of `record_upstream_outcome`. A task that has been refused changes nothing, so
refusal is no action.

### RawAdmission (`proxy/admission.rs`)

One action per critical section of `acquire`, the permit's drop and `set`. `Impatient` are the
requests whose client may disconnect at the await; `refused` is a history variable.

### PressureHolds (`platform/resources/pressure.rs`, `ResourceGovernor::snapshot`)

The hysteresis behind every admission to memory. A sample says of each of the five signals where
it lies between its hold and its resume threshold, or `none`; `snapshot(s)` is the update of the
holds under the lock of the sample, with `pressure_reasons`, `recovered_reason` and
`reason_observed` as in the source. `Age(r)` is the passing of `MAX_UNOBSERVED_HOLD`, counted from
the beginning of the hold. `well` is a history variable. The age counts from the *beginning* of
the hold, as in the code, not from the last report.

### Governor (`platform/resources/governor.rs`)

Reservations against a cached sample. The async mutex of the sample is held while the sample is
awaited, and the sampler is a blocking task that outlives the reader who began it: `BeginSample`,
`SamplerReads`, `EndSample` and `CancelSample` are those four moments. `try_reserve` is one action,
because its compare-exchange loop only ever commits on the value it has assessed. `ReleaseEarly`
and `Finish` are the residency watch of the pipeline and the drop of the permit; both signal after
the count has changed (`Notify`). `Unload` and `invalidate` are the eviction of idle runners and
the mark it sets afterwards. A hold of `PressureHolds` is the Boolean `held` of a sample here.

### Pipeline (`platform/execution/pipeline.rs`, `memory.rs`, `proxy/mod.rs`)

One backend: managed tasks in the order of `run_session_task` – the look at `/api/ps` (`Route`), the
activity count (`Begin`), the slot, the one eviction, the reservation with the slot in hand for a
moment and without it afterwards (`Yield` … `Readmit`), the transition lock with the recheck under
its shared side, the revalidation that does not wait – and raw generation requests that take the
lock alone. The lock is tokio's, first come first served: `queue` is its line, `Grant` its head.
`victims` is the eviction, which runs detached to its end whatever becomes of its task. Ollama is
external: `Serve` loads a runner, `Unload` lets one go at any moment when nobody is served by it.
A runner takes one unit of memory; the arithmetic of sizes, the sample and its age are in
`Governor`, the queue of the pool in `Admission`, whose promise `SlotPool` the pipeline's slots are
shown to keep to. `Abandon` is every error, deadline and disconnect; an upstream error of a task
with `keep_alive: 0` is its `Complete`.

### ScopeStore, SessionTable, JobRegistry, ManagedTasks (`platform/{scopes,sessions,jobs}.rs`, `platform/execution/mod.rs`)

Three tables with a lock each, and the tasks that go through all of them.

* `ScopeStore` keeps histories; a *turn* is the task that appended it and stands for its two
  messages. Every operation prunes first. `worn` holds the entries whose time to live has run out
  but which no operation has pruned yet; `minted` the ids that callers may name.
* `SessionTable` binds a session to the task whose model it used last; `idle` records are past
  their time to live and still in the table.
* `JobRegistry` has the registry (`make_room`, `Fresh`), the job behind each handle (`update`,
  `finish`, `send_done`) and the callers that cancel or remove it (`lookup`, `cancel_job`,
  `wait_done`, `reply`, `clear`, `remove`, `abandon`). The registry lock and the job lock are
  different, so a caller that has looked a job up may find it gone, or ended.
* `ManagedTasks` is `submit`, `run_task`, `execute_task` and `commit_scoped_completion`, one action
  between two awaits. `Interrupt(t, what)` is what the `select!`s and the timeout around the work
  do: a cancellation, the deadline, a killed session, or a client that goes away. What a task drops
  on the way out is `Leave`. `EnterSession` and `RecheckSession` are the two looks at the session
  before a model is chosen; `Subscribe` is the earlier one whose signal the commit consults.
* `ScopeHistory` is what callers may rely on: a turn is appended, whole and once, to exactly the
  revision its caller quoted, and the caller learns that it completed just in case its turn is in
  the history. `ManagedTasks` implements it under the mapping `Promise` (the histories that are not
  worn, the fate a task has decided, what its receipt or its answer says).

Constants that only bound an instance: `Recalled` are the jobs that somebody may look up and
cancel; ids of scopes and sessions are handed out once, as v4 UUIDs are.

### Adaptive (`platform/runtime/adaptive.rs`, `execution/forward.rs`, `execution/feedback.rs`)

The limiter of one backend, the forwards that overlap on it and the reloads that move the ceiling
of the pool or switch the limiter off. The limiter and the pool have a lock each: `Observe` decides
on the total that `Judge` has read of the pool, and `SetLimit` acts on it in a later step.
`tokens_per_second` and `adaptive_throughput_metric` are the rates of a completion, missing counts
included. `event` and `row` are history variables: what was judged last, and how many healthy
completions of one profile have been seen in a row.

### Footprint, Learning (`platform/footprint.rs`, `feedback.rs`, the end of `forward_managed_task`)

`Footprint` has the sizes Ollama has measured, the update by one observation or by the whole of
`/api/ps`, and the requirement that is estimated from them. `Learning` has the two files that
survive a restart: each snapshot is taken under a lock and written by a thread of its own. `Save`
and `SaveFails` are the write of the sizes with its generation, `Record`, `Persist` and `Report` the
write of the feedback without one, `Restart` is the end of the process between any two steps and a
start from the files. `age` and `disk.age` are history variables that order the snapshots of all
processes.

### RuntimeFile, Settings (`platform/runtime/{mod,resolve,settings}.rs`, `platform/mod.rs`)

`RuntimeFile` is the precedence of command line, environment, file and default, with one setting
for each way a value is found. `Settings` is the reload by the poll loop and by the route, step by
step: the time of the file, its content, the decision under the lock of the status, the write of
the tunables after it, and the push into one pool after the other.

### Catalogue, Batch (`platform/catalog.rs`, `platform/tasks_api.rs`)

`Catalogue` is the list of installed models, kept for thirty seconds and filled by one request at a
time, with the residency that every request reads anew; each HTTP call is a step. `Batch` is the
weighted round in which the items of a batch are started, the workers, and the answers that are
put back in their places.

### Routing, Placement, ResidencyPlan, ManagedRequest, Repetition

The pure decisions, as operators on records: which model (`routing.rs`), which backend and what is
learned of it (`execution/select.rs`, `feedback.rs`), which runners to unload (`residency.rs`,
`execution/memory.rs`), which context, options and keep-alive to send (`execution/request.rs`,
`context.rs`, `warming.rs`), and whether an output repeats itself (`repetition.rs`). Their properties
take the inputs as parameters. `Decisions` has one action for each decision, which takes any input
of the sets it is given and keeps what was asked and decided; `MCDecisions` gives it small sets. A
catalogue is finite and its names are unique; sizes, windows and budgets are numbers or absent.

### Composition

`ManagedTasks` EXTENDS `ScopeStore`, `SessionTable` and `JobRegistry` over the tasks of `TaskIds`,
and its actions conjoin theirs. `SlotPool` is implemented by `Admission`, which has the queue, and by
`Pipeline`, which has what the units are used for: one abstract pool stands behind the queue and
behind the slots of a task. `Governor` has the early release and the eviction of the pipeline as the
sample sees them. `Learning` EXTENDS `Footprint`. `Services` puts seven services that share no
state beside each other, and `MCServices` gives it its constants: a behaviour chooses one at the start (`service`) and the others stay as
they begin, so that the states are the sum of theirs and not the product. Nothing is lost by it:
none reads a variable of another, and `SideBySide` proves that a behaviour of the services together
is one of each by itself.

## 3. What is checked

Each run has its hazards in `PROJECT.json`; every property of a passing run has a mutant of the
modelled code that violates it.

| run | instance | shows |
|---|---|---|
| `admission` | a wide interactive request, a narrow one and a normal one, weights 2:1:1, ceilings and limits 1–2, queue limit 2, `MaxBypasses` 1 | no unit lost or charged twice, no waiter asleep for good beside a grant it could take, bounded bypass, the refinement of `SlotPool`, and that an interactive request leaves the queue although others never stop arriving |
| `admission_starves` | 1 unit, one normal and two interactive requests, the weights of the source | finding 1 |
| `raw_admission_leave` | 4 requests, limits 1–2 (a configured 0 becomes 1), two waiters per slot | slots accounted, waiting never wraps, no lost wakeup, with clients that go away at every await |
| `raw_admission_leak` | 3 requests, one slot, one waiter | finding 2 |
| `governor` | 2 loads of 2 units on a host of 4 | bytes accounted, no lost wakeup |
| `governor_stale` | 3 loads on a host of 6 | finding 3 |
| `pipeline` | two tasks for one model (one with `keep_alive: 0`), one for another, a raw request, of which three arrive; 2 slots, room for one runner | two requests are with Ollama at once only if both found their runner under the lock; slots, memory and lock never close a circle of waiters; without any deadline every request ends or waits for memory with empty hands; the slots keep to `SlotPool` |
| `tasks` | a job and an ordinary task that append to one history, a second scope for forks, one session that both name | leases, killed sessions, and the refinement of `ScopeHistory` |
| `tasks_jobs` | two jobs, one with a history that a caller may cancel, one with a session; a registry of one | active jobs stay reachable, a cancelled job appends nothing that it denies (`ScopeHistory` again), work ends, callers that cancel are answered |
| `services` | seven services, below | a dozen properties of them |
| `feedback_file` | 2 completions, a viewer, one restart | finding 4 |
| `decisions` | every input of small sets, six decisions | what they choose is what was meant, below |

`services` has three tasks at a breaker of threshold two (`ProbeOwned`, `ProbeSlotFrees`); memory
beside swap and memory beside load with two recovery samples (`EndsWhenWell`,
`QuietHoldsEnd`); two forwards of two profiles with ceilings one and two (`RaiseIsEarned`: a raise
follows a whole streak of one profile, whatever overlaps or is reloaded; `LimitRecovers`); two
completions and a viewer with two contexts and a restart (`FileNeverGoesBack`); two
requests for a catalogue of two backends that both have the model (`FreshResidency`); seven batches, of which four are
refused (`FairStart`, `EveryItemAnswered`); both reloaders, five contents of the file – two are
refused, the other three give the two pools three different pairs of limits – and two edits
(`LastGoodKept`; `SettledMeansApplied`: what a reload stores and pushes differs from what was there).

`decisions` checks that a candidate that lost has no part in the choice (`LosersDoNotMatter`), that a
model known to repeat itself is taken only when every eligible one does (`RepeatsOnlyAsLastResort`),
that a plan frees what it was asked for and names no runner it could do without
(`UnloadsWhatIsNeeded`), that a context that was sized holds the prompt and the budget that is really
sent (`SentContextCovers`), that an automatic size never makes Ollama reload a warm runner
(`WarmRunnerKept`), that a run is learned under the profile it will be looked up by
(`LearnedIsFound`), that an automatic placement leaves the router's choice only for a backend that
was measured to be faster or that alone is free (`PlacementIsEarned`), and that looking at the end of
an output alone finds the loop of the whole output (`EarliestLoopIsFound`).

**Why these bounds.** The admission properties speak of a waiter, of one it competes with, and of
who signals; a third request gives the queue an order and lets a wide one be bypassed. With
ceilings 1 and 2, the cost of a wide request is capped under one limit and not under the other, the
case in which a charge and its return could differ. `MaxBypasses` is 6 in the source and 1 here
so that the reservation of released capacity happens; the theorem covers every value. The breaker
needs one task for the probe, one with an outcome from before the circuit opened and one that checks
in between; `MaxFailures` is the place where saturating arithmetic stops, and it is reached. For raw
admission the limit 2 makes two wakeups race. `RecoverySamples` = 2 is the least value for which a
count exists. In the governor the two loads do not fit together, which makes a waiter; `MaxBytes`
stands for the saturation at `u64::MAX` and is not reached, and `Advisory`, the other memory mode, is
off; the theorems cover both. In `pipeline` the tasks of one model share the lock, the third must
evict their runner or wait, and two slots for three tasks make the budget bite when one comes back
from its wait; `Arrivals` = 3 lets any three of the four requests meet, one more multiplies the
states by four and adds a bystander to each of these meetings. In `tasks` a history holds two turns and the store five bytes, so the message bound,
the byte bound and the count bound all bite; in `tasks_jobs` a registry of one makes every submission
compete for the only place. The limiter's streak is 3 and its baseline needs 2 samples, against 5
and 3 in the source: what matters is that a streak can be broken in its middle and that a baseline
is there before it is filled. `HistoryLimit` = 1 makes a measurement displace another; one restart
is enough for a file to be older or newer than the process, and the theorem covers any number.
`MaxEdits` = 2 lets an edit fall into each of two reloads, and a refused edit follow one that has
moved the limits. A caller of the catalogue asks once.

**Reduction.** `governor`, `governor_stale` and `raw_admission_leave` use symmetry of the requests, which
none of their properties tells apart; no run with a liveness property uses symmetry. The `os` and the
`thermal` signal are judged as `load` is, with one threshold instead of two, so the instance reports
load only; the theorem `HoldsEndWhenWell` covers every signal. The liveness properties are stated as
`[]<>` of the state they lead to, which says the same as leads-to where the state they start from is
its complement, or is never entered again, and which TLC checks without a tableau.
`CHECK_DEADLOCK FALSE` is set where an instance comes to an end: for the tasks, the pipeline and the
feedback because a request runs once, for the decisions because each is one step, and for the services
because batches, callers of the catalogue and edits are finite; `OnlyMemoryBlocks` and
`EveryItemAnswered` say where they may.

## 4. Fairness

* **Admission** – a request moves on unless it is outside the pool, or asleep on a `Notified` that
  has not fired: the executor polls every task that is awake, and a task that holds a slot or waits
  for memory has a deadline. Nothing is assumed of arrivals, timeouts, cancellations or reloads.
* **Breaker** – every task has a deadline, so one that has passed moves on; a cooldown is time.
* **PressureHolds** – a waiting request and the monitor sample again and again; old holds grow older.
* **Adaptive** – requests keep coming, a completion that has begun to be judged goes on, and a decision
  is applied; nothing is assumed of how a completion went or of the reloads. Without traffic a limit
  stays where it is, and `LimitRecovers` says itself how the traffic has to go.
* **ManagedTasks** – a worker that can go on is polled and the timer of a deadline fires
  (`WF WorkerStep`); a caller inside `cancel_job` is polled (`WF CallerStep`). `Answer`, the model,
  owes nothing, so that the liveness of the leases and of the jobs rests on deadlines alone.
* **Pipeline** – a request that can go on is polled, as one with the eviction it has begun, the lock is granted in its order, Ollama answers.
  Nothing is assumed of deadlines, disconnects, or of runners that leave: memory may never be free.
* The other modules have safety properties only.

In `services` the fairness of each service is conditioned on `service`, which never changes: a
behaviour owes what its own service owes.

## 5. What is proved

Eight modules of proofs, checked by TLAPS, for every set of requests, tasks, models, histories,
sessions, callers, batches and reloaders, every cost, class, weight, limit, threshold, size and
number of restarts.

* **AdmissionProofs.** The inductive invariant `Core` is `TypeOK`, `RegisteredOnce`,
  `GrantedIsQueued` and `QueueIsALine` (`ahead` is a strict order of the waiters, which is what the
  `Vec` is). None of the first three is inductive alone: an `Unlink` keeps the grant queued only
  because control state and registration agree, and `selected_waiter` returns a waiter only because
  a finite line has a first element (`FrontExists`). On top of `Core` stand `UnitsAccounted` (the
  units as a set of pairs, so that addition is disjoint union), `NoLostWakeup` (that nobody who
  could not be selected becomes selectable without a signal, `NobodyStaysNobody`), `BypassBound`
  (a selection raises the count of those it passes and shortens the line in front of them), and
  the refinement: every step of `Admission` is a step of `SlotPool` or a stutter. The last one
  needs `UnitsAccounted`, because the subtraction of the code saturates and that of the semaphore
  does not.
* **RawAdmissionProofs.** `TypeOK` is not inductive without `WaitersCounted`: `waiting -= 1` stays
  a natural number because the queue it counts is not empty. Slots and wakeups follow.
* **PipelineProofs.** `ColdAlone` follows from `LockInv`: whoever is past the lock holds it alone, or
  shares it and believes in its runner. Nothing of the queue is needed, so the theorem does not rest
  on the fairness of tokio's lock. The refinement of `SlotPool` needs that a task that waits, for the
  first time or after a yield, holds no slot (`SlotInv`), and what one element more or less does to a
  cardinality. Together with `Refinement` of AdmissionProofs, the queue and its clients are both shown to
  behave as the one abstract pool. `NoCircularWait` is the part of `OnlyMemoryBlocks` that is safety, and
  holds for any number of tasks and slots, at every moment and not in the end alone: if no next step were free, whoever has a slot would be
  waiting for the lock, and nobody would hold the lock, so that its queue could move. It needs where
  the holders of a slot, of memory and of the lock can be (`HoldInv`), and that whoever waits is in the
  queue, from which each way out takes only its own (`QueueInv`, `WithoutKeepsOthers`).
* **GovernorProofs.** `ReservedAccounted` needs that only a load that may go on has a permit
  (`Inv`); the count of reserved bytes is then a natural number, which `TypeOK` rests on.
  `NoLostWakeup` needs `SeenIsBelow`: what a registered request has seen of the count is not above
  the count, unless a notification is on its way. Without it a request could be refused for bytes
  that were given back while it looked, and sleep.
* **ManagedTasksProofs.** One invariant carries the leases, the jobs, the kills and the refinement.
  `LeaseHeld` is not inductive: that a history which is still there has the lease of the task that
  prepared it, and the messages it had then (`Prepared`), needs that ids are handed out once
  (`Knows`), so that no history comes back under a name a task still holds. `KilledNeverAppends`
  needs `Watches`: a task between its two looks at the session either subscribed in time or will
  find the session gone. `ActiveJobsReachable` needs that a handle is only dropped for a job whose
  supervisor is over (`StatusInv`, `HandleInv`). The refinement of `ScopeHistory` goes step by step:
  the mapping `Promise` forgets worn histories, so that a history that wears out
  is a `Forget` of the abstract specification, its pruning and every lease a stutter; the commit is its
  `Extend` because of `Prepared`, and what a caller is told agrees with the history because a job that has committed cannot be cancelled any
  more (`CommittedInv`).
  `NobodyIsForgotten` and `CancelStands` are what `WorkEnds` rests on and what a cancelled
  job may rely on. They need that a lease is only held by a task that has still to drop it
  (`LeaseOwned`), that a job has a status from its submission on, that a request to cancel is never
  replaced, and that a supervisor that is through has signalled (`Begun`).
* **LearningProofs.** `FileNeverGoesBack` needs that the age of the file and of every snapshot under
  way differ from the age of the process as their generations do (`Inv`); a restart sets both back
  together. What a measurement does to the history plays no part. `MeasuredIsCovered` is about the
  operator `requirement`: the estimate is never below a size that was measured for this revision
  and these settings at this context or above. It assumes that byte counts are bounded.
* **ServicesProofs.** `SideBySide` reduces the composition to its parts; each part has an invariant of
  its own, and `TogetherTheyKeep` puts the results back together.
  *Breaker*: `TypeOK`, `ProbeOwned` and `ClosedMeansBelow` together are inductive.
  *Holds*: `EndsWhenWell` needs `CountedWhileWell`, that a hold never counts more healthy samples
  than its signal has been well for. *Catalogue* (`CatalogueInv`): what a request has read of
  `/api/ps` was so since it began, at every stage between the cache, the filler and the answer.
  *Batch* (`BatchInv`): every item is still to start, running, or joined in its place – one of the
  three whichever worker ends first. `StartsAreFair`, that a class waits for at most one whole round of
  the others, needs where in its round a class is (`RoundInv`): the starts of others since its own
  are among those the round has used beyond it, or, before its first of the round, among those beyond
  it in the last one and below it in this; a class that was served leaves nobody below it waiting
  with credits. As a set of starts (`Slots`) this needs no sum.
  *Limiter* (`LimiterInv`): a streak of the limiter never exceeds what has been seen in a row, and a raise that was decided but not applied yet still stands for a
  whole streak, because the streak is cleared in the step that decides. *Settings*: `LastGoodKept`
  holds for any number of reloads that overlap, because whoever has accepted a file holds tunables
  of a valid one (`SettingsInv`); `SettledMeansApplied` needs `AppliedInv`, which says at each step of
  a reload that has met no other how the time it has read, the file, the tunables and the pools
  relate, and that an edit gives the file a time nobody has read (`EditIsNews`).
  *Files*: `FileNeverOlder` takes `FileIsMonotonic` over from LearningProofs, of which the module
  makes an instance.
* **DecisionsProofs.** Facts about the operators, for every catalogue, request, runner and host. The
  three comparators are one lexicographic order that no two models hold against each other
  (`OrderIsOneWay`), so the best candidate is one, and stays it when another leaves (`BestIsOne`); with
  that no filter, name or affinity lets a loser decide (`LosersPlayNoPart`). `RepeatersAreLastResort`
  goes through the three ways a model is chosen. `ContextsCover` and `WarmRunnersStay` follow an
  automatic size through the reuse of a window and the default that is left to Ollama; the bucket
  list is only assumed to have a largest element.
  Three decisions are recursive. The induction theorems cannot be used, so what each recursion
  computes is shown by hand: a function that obeys it exists (`StepByStep`, `AddedUp`), and whatever
  obeys it has the value that is claimed, because the least number at which it fails has one below it
  (`UpTo`, from the well-foundedness of the naturals).
  *`LoopsAreFound`*: the periods are gone through in order, and one step keeps the earliest loop so far
  (`OneMorePeriod`). That the loop the window finds is the earliest of the whole text, although the
  window has forgotten what came before, rests on two periods that both repeat meeting in the window
  (`TailsMeet`). The window must be as wide as two periods, as the shortest span that is stopped, and
  as the longest period with its shortest cut (`RepetitionAssumption`); the constants of the code, 65536
  against 4096, 48 and 128, satisfy this with room to spare.
  *`PlacementsAreEarned`*: averages and counts of a profile stay those of the runs that were recorded
  under it (`OneMoreRun`, `AverageIsBetween`), so that a placement on the other backend had `MinSamples`
  of them there, and is faster on average by the gain.
  *`UnloadsAreNeeded`*: what a set of runners frees and costs, folded in whichever order, is the size
  of a pile of as many things (`PileGrows`, `BytesAre`, `CostIs`), so that it grows with the set. A
  cheapest covering set exists (`CheapestIsFound`), and would not be cheapest with a runner too many
  (`CheapestIsNeeded`); cost per byte is an order although it is compared by cross products
  (`Fractions`, `CheaperIsOrder`), so that what comes before the first runner the greedy search leaves
  out is all taken, and enough (`GreedyIsEnough`). Both rounds of `make_room` ask for such a plan
  (`RoomIsNeeded`).

The assumptions are those in the modules, each evaluated by TLC in the configurations of the runs, and
each is what the code makes sure of: sets of requests and catalogues are finite; a ceiling is at
least one (`.max(1)`, `platform/admission.rs`), as are the streak, the share of a class and a count of
recovery samples, which are constants of the source; the shares are those of finitely many classes;
what `/api/ps` lists is finite and its sizes unsigned (`RoomAssumption`); a gain is a percentage and
a candidate is one of its backend (`PlacementAssumption`); names in a catalogue are unique and sizes
unsigned; an absent `Option` is none of the values it could hold (`NoneAssumption`), which for the
routes means a record type, `Routes`, that every decision is shown to have.

A formula that was proved is the one that is checked: `PROJECT.json` names both. Where a definition
was written in a form the provers do not expand (`@@`, `:>`), the model now has a function
constructor. A `CASE` whose guards overlap leaves the choice open in TLA+, although TLC takes the
first; the proofs of the routes and of the sizes brought three such definitions to light, whose
guards are now exclusive, as the order of the tests in the source has them.

**Model-checked only.** All liveness properties (`InteractiveProgress`, `OnlyMemoryBlocks`, `WorkEnds`,
`ProbeSlotFrees`, `QuietHoldsEnd`, `LimitRecovers`): liveness under fairness is beyond
the provers. Every safety invariant and every action property that a run checks is proved, for
every value of the constants. **Proved only:** `TypeOK` of the modules that
have one, `RegisteredOnce`, `GrantedIsQueued`, `ClosedMeansBelow`, `MeasuredIsCovered`, `SideBySide`,
`CancelStands`, and the safety that a liveness property rests on: `NobodyIsForgotten` (of `WorkEnds`).

## 6. Findings

Disagreements between the code and what the repository says of it, each with a run:

1. **Weighted fairness.** `selected_waiter` (`platform/admission.rs:366`) starts a new credit round
   whenever a look at the queue finds nobody eligible, and a look at a full pool finds nobody. The
   classes below interactive are therefore not reached while interactive requests keep waiting,
   against `platform/routing.rs:56-58`.
2. **Stale waiting count.** `proxy/admission.rs:127` counts a waiter before an await and `:148`
   uncounts it after it; a client that disconnects in between stays counted for ever, and requests
   are refused for a queue that is empty.
3. **Invalidation lost.** `resources/governor.rs:164` clears `stale` before it awaits the sample; a
   reader cancelled there takes the mark with it.

4. **Feedback file.** `execution/forward.rs:287` writes a copy of the feedback after the lock under
   which it was taken has been given back, and nothing orders two writers: an older copy may replace
   a newer one, whose receipt has said `persisted`. The sizes next to it are guarded by a generation
   against the same order (`footprint.rs:29`), which `FileNeverGoesBack` shows and `LearningProofs`
   proves.

Observed while modelling, without a run of their own:

* A task holds the shared lock because it has found its runner there; another one with
  `keep_alive: 0`, or an eviction planned earlier, may unload that runner before the request arrives,
  which then loads it cold beside others (`execution/pipeline.rs:346-351`), against "Nonresident tasks
  take that backend's exclusive lock so a cold load cannot race another managed task"
  (`docs/ARCHITECTURE.md:453`). `ColdAlone` is therefore about what a task has found, not about what
  Ollama has when the request arrives. An eviction looks at the activity of a runner just before it
  asks for the unload (`execution/memory.rs:285`), and a task is counted from `pipeline.rs:117` on: one
  that has been routed and not counted yet, or begins while the unload is under way, loses its runner
  too, although "From here until the task ends this model counts as busy" (`pipeline.rs:115`).
* `resources/pressure.rs:134` takes an active-swapping hold to be observed as long as memory is; if
  the page counter alone goes quiet, the hold neither recovers nor expires, against
  `resources/governor.rs:74-75`. `QuietHoldsEnd` is about the other four signals.
* `execution/forward.rs:30` drops the breaker's probe and then records its outcome, under two locks;
  a task that checks in between passes the half-open circuit too ("exactly one probe",
  `execution/pipeline.rs:121`).
* A reservation is given back as soon as `/api/ps` lists the runner (`execution/pipeline.rs:450`),
  while the cached sample may still predate the load; the next admission then sees neither.
* Two samples in a row that do not report a signal clear a hold that is old enough
  (`resources/governor.rs:194`), against "Missing observations never clear known pressure"
  (`resources/mod.rs:95`).
* The pipeline binds a session before the fate of the job is decided
  (`execution/pipeline.rs:473`); a job that ends cancelled, or whose result is too large to retain,
  has bound it, against the comment at `:467-468`.
* `remove` clears the result of a job and takes its handle away in two steps (`platform/jobs.rs:399`);
  a receipt read in between is terminal and has neither result nor error
  (`docs/MONITORING.md:54`).
* `runtime/settings.rs:141` writes the tunables after the lock of the reload's status is given back, and
  `PlatformState::apply_tunables` reads them before it pushes them into the pools: of two reloads that
  overlap, the poll loop's and `POST /config/reload`'s, the one that read the older file may be the last
  to write or to push, and nothing changes until the next edit. `docs/MONITORING.md:282` has live pools
  follow the file; `SettledMeansApplied` is therefore about reloads that do not overlap.
* `RuntimeSettings::new` reads the file before it asks for its modification time
  (`runtime/settings.rs:39-47`); an edit in between is never loaded by the poll loop. A file that is
  removed has no time, so that two absences look the same. `Settings` leaves both out.
* Switching the adaptive mode off leaves a limit that was reduced in force; a forward that began while
  the limiter was off has no guard. A slowdown that lasts never becomes the new baseline. A raise that
  was decided on a total read before two reloads may lower the limit.
* A failed `/api/show` hides a model until the catalogue is filled again, thirty seconds later.

## 7. Plan

Done: the concurrency core, the tables and their tasks, the pure decisions, what is learned and
kept, the settings, and the proofs of all the safety properties that are checked of them. What is left,
in this order:

1. **Composition of `Governor` with `Pipeline`** – one host under two backends, to state what the
   early release costs (section 6, on `pipeline.rs:450`).
2. **Raw proxy** – the retry decision and the restart of Ollama (`proxy/retry.rs`), the telemetry
   ledger, the warm-up route.
3. **MCP server** – the lifecycle of the child process, the delegated task loop, the research agent's
   budgets.

## 8. What is not modelled, and why

Sampling of the operating system and the GPU, HTTP input and output, argument parsing, printing,
benchmarks, the doctor and the bindings do input and output and keep no protocol state; a model of
them would be a model of the host. `policy_eval.rs`, `discovery.rs` and most of `ollama_env.rs` and
`config.rs` read files and the environment once, before anything runs. `telemetry/`, `readiness.rs`
and the status pages of `monitor.rs` report and decide nothing; `loops.rs` counts what `Routing`
takes as given. The retry of a raw request, the warm-up request, the MCP server and its research
agents have state and are planned (section 7). Receipts, counters and timings of the modelled
components are left out: no decision of the code reads them. The lines of `PROJECT.json`
"components" give the reason for each part.
