----------------------------- MODULE JobRegistry ----------------------------
(***************************************************************************)
(* The handles of deferred tasks (jobs.rs): a bounded registry, the job    *)
(* behind each handle, and the callers that cancel or remove it.  The      *)
(* registry and each job have a lock of their own, so a caller looks a job *)
(* up in one step and works with it in another.                            *)
(***************************************************************************)
EXTENDS TaskIds, Integers, Sequences, Functions, FiniteSetsExt

CONSTANT MaxJobs  \* MAX_JOBS

ASSUME MaxJobsAssumption == MaxJobs \in Nat \ {0}

VARIABLES
  registry,   \* jobs with a handle
  status,     \* status[t]: the status of its job
  finished,   \* jobs in the order of their `finished` instants
  aged,       \* finished for RESULT_TTL
  retained,   \* jobs that keep a result or an error
  cancel,     \* jobs whose `cancel` signal has been sent
  committed,  \* jobs with completion_committed
  done,       \* jobs whose `done` signal has been sent
  caller,     \* caller[t]: where the caller that cancels t stands
  removing    \* callers that will remove the job

jobVars == <<registry, status, finished, aged, retained, cancel, committed, done, caller, removing>>
callerVars == <<caller, removing>>

Terminal == {"completed", "failed", "cancelled", "expired"}
Status == {"none", "queued", "running", "cancelling"} \cup Terminal

JobsInit == /\ registry = {}
            /\ status = [t \in Tasks |-> "none"]
            /\ finished = << >>
            /\ aged = {}
            /\ retained = {}
            /\ cancel = {}
            /\ committed = {}
            /\ done = {}
            /\ caller = [t \in Tasks |-> "idle"]
            /\ removing = {}

-----------------------------------------------------------------------------
(* Retention *)

Ended == Range(finished)
Fresh == registry \ aged
OldestOf(S) == finished[Min({i \in DOMAIN finished : finished[i] \in S})]

\* Mutant: any job may make way.
make_room_Anyone == IF Cardinality(Fresh) >= MaxJobs
                    THEN Fresh \ {CHOOSE t \in Fresh : TRUE} ELSE Fresh

\* The registry after make_room: at most one finished job makes way.
make_room == IF Cardinality(Fresh) >= MaxJobs /\ Fresh \cap Ended # {}
             THEN Fresh \ {OldestOf(Fresh \cap Ended)} ELSE Fresh

\* finished instants are in order, and so are the ends of their retention.
GrowAged(t) == /\ t \in Ended \ aged
               /\ t = OldestOf(Ended \ aged)
               /\ aged' = aged \cup {t}
               /\ UNCHANGED <<registry, status, finished, retained, cancel, committed, done,
                              callerVars>>

-----------------------------------------------------------------------------
(* The job *)

insert(t) == /\ registry' = make_room \cup {t}
             /\ status' = [status EXCEPT ![t] = "queued"]
             /\ UNCHANGED <<finished, aged, retained, cancel, committed, done, callerVars>>
refuse == /\ registry' = make_room
          /\ UNCHANGED <<status, finished, aged, retained, cancel, committed, done, callerVars>>

\* JobProgress::update: a status never replaces a request to cancel.
update(t) == /\ status' = [status EXCEPT ![t] = IF @ \in Terminal \cup {"cancelling"}
                                                THEN @ ELSE "running"]
             /\ UNCHANGED <<registry, finished, aged, retained, cancel, committed, done, callerVars>>

\* JobProgress::finish, given what the worker returned; a cancellation wins.
finish(t, verdict) ==
  /\ finished' = Append(finished, t)
  /\ status' = [status EXCEPT ![t] = IF t \in cancel THEN "cancelled" ELSE verdict]
  /\ retained' = retained \cup {t}
  /\ UNCHANGED <<registry, aged, cancel, committed, done, callerVars>>

\* Mutant: the supervisor of a cancelled job does not signal.
send_done_Uncancelled(t) ==
  /\ done' = IF t \in cancel THEN done ELSE done \cup {t}
  /\ UNCHANGED <<registry, status, finished, aged, retained, cancel, committed, callerVars>>

send_done(t) == /\ done' = done \cup {t}
                /\ UNCHANGED <<registry, status, finished, aged, retained, cancel, committed,
                               callerVars>>

-----------------------------------------------------------------------------
(* Callers *)

list == /\ registry' = Fresh
        /\ UNCHANGED <<status, finished, aged, retained, cancel, committed, done, callerVars>>

lookup(t) == /\ caller[t] = "idle"
             /\ registry' = Fresh
             /\ \/ /\ t \in Fresh
                   /\ caller' = [caller EXCEPT ![t] = "found"]
                   /\ \E r \in {removing, removing \cup {t}} : removing' = r
                \/ t \notin Fresh /\ UNCHANGED callerVars
             /\ UNCHANGED <<status, finished, aged, retained, cancel, committed, done>>

\* cancel_job under the lock of the job.  A committed append is not cancelled.
cancel_job(t) ==
  /\ caller[t] = "found"
  /\ \/ /\ status[t] \in Terminal
        /\ caller' = [caller EXCEPT ![t] = "answered"]
        /\ UNCHANGED <<status, cancel>>
     \/ /\ status[t] \notin Terminal
        /\ caller' = [caller EXCEPT ![t] = "waiting"]
        /\ IF t \in committed THEN UNCHANGED <<status, cancel>>
           ELSE /\ status' = [status EXCEPT ![t] = "cancelling"]
                /\ cancel' = cancel \cup {t}
  /\ UNCHANGED <<registry, finished, aged, retained, committed, done, removing>>

wait_done(t) == /\ caller[t] = "waiting"
                /\ t \in done
                /\ caller' = [caller EXCEPT ![t] = "answered"]
                /\ UNCHANGED <<registry, status, finished, aged, retained, cancel, committed,
                               done, removing>>

\* A cancel sends its receipt; a remove clears the job, then the handle.
reply(t) == /\ caller[t] = "answered"
            /\ t \notin removing
            /\ caller' = [caller EXCEPT ![t] = "idle"]
            /\ UNCHANGED <<registry, status, finished, aged, retained, cancel, committed, done,
                           removing>>
clear(t) == /\ caller[t] = "answered"
            /\ t \in removing
            /\ retained' = retained \ {t}
            /\ caller' = [caller EXCEPT ![t] = "cleared"]
            /\ UNCHANGED <<registry, status, finished, aged, cancel, committed, done, removing>>
remove(t) == /\ caller[t] = "cleared"
             /\ registry' = registry \ {t}
             /\ caller' = [caller EXCEPT ![t] = "idle"]
             /\ removing' = removing \ {t}
             /\ UNCHANGED <<status, finished, aged, retained, cancel, committed, done>>

\* A caller that goes away while it waits leaves the cancellation behind.
abandon(t) == /\ caller[t] = "waiting"
              /\ caller' = [caller EXCEPT ![t] = "idle"]
              /\ removing' = removing \ {t}
              /\ UNCHANGED <<registry, status, finished, aged, retained, cancel, committed, done>>
=============================================================================
