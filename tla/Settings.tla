------------------------------ MODULE Settings ------------------------------
(***************************************************************************)
(* The reload of the runtime file by the poll loop of serve and by         *)
(* POST /config/reload (runtime/settings.rs) and the push into the         *)
(* admission pools (PlatformState::apply_tunables).                        *)
(***************************************************************************)
EXTENDS RuntimeFile

CONSTANTS Reloaders,  \* those that reload: "poller" and "post", the handler of the route
          MaxEdits,   \* bound on the edits of the operator
          None        \* an absent Option

VARIABLES modified, \* ReloadStatus::modified; times are counted in edits
          failed,   \* whether ReloadStatus::last_error is there
          pc,       \* where each reloader is
          seen,     \* seen[r]: the modification time r has read
          held,     \* held[r]: the file r has parsed, the tunables it writes or pushes
          clashed   \* history: whether a reload has begun while another was under way

vars == <<edits, current, modified, failed, pools, pc, seen, held, clashed>>

\* Mutant: the policy is judged in the file alone, before the environment.
Refused_AsWritten(file) == file = Invalid \/ resolve(file).capacity.value # current.capacity.value

\* What a reload refuses; the capacity is compared with the one in force.
Refused(file) ==
  \/ file = Invalid
  \/ ~ validate(resolve(file).warming.value)
  \/ resolve(file).capacity.value # current.capacity.value

-----------------------------------------------------------------------------
(* The file and its reload *)

mtime == IF edits[Len(edits)] = Missing THEN None ELSE Len(edits)

\* RuntimeSettings::new and build; the file is taken not to change while new
\* reads it first and asks for its time afterwards.
Init == /\ \E v \in Versions :
             LET file == load(v)
             IN /\ file # Invalid /\ validate(resolve(file).warming.value)
                /\ edits = <<v>>
                /\ current = resolve(file)
        /\ modified = mtime
        /\ failed = FALSE
        /\ pools = Pushed(current)
        /\ pc = [r \in Reloaders |-> "idle"]
        /\ seen = [r \in Reloaders |-> None]
        /\ held = [r \in Reloaders |-> None]
        /\ clashed = FALSE

Goto(r, l) == pc' = [pc EXCEPT ![r] = l]

\* The operator saves the file, or removes it for good: a file that is not there
\* has no time, so two absences would look the same.  Every save has its own.
Edit == /\ Len(edits) <= MaxEdits
        /\ edits[Len(edits)] # Missing
        /\ \E v \in Versions \ {edits[Len(edits)]} : edits' = Append(edits, v)
        /\ UNCHANGED <<current, modified, failed, pools, pc, seen, held, clashed>>

Stat(r) == /\ pc[r] = "idle"
           /\ seen' = [seen EXCEPT ![r] = mtime]
           /\ Goto(r, "stat")
           /\ clashed' = (clashed \/ \E o \in Reloaders : pc[o] # "idle")
           /\ UNCHANGED <<edits, current, modified, failed, pools, held>>

\* The poll loop goes on when the time has changed, the handler always.
Check(r) == /\ pc[r] = "stat"
            /\ r = "poller" => modified # seen[r]
            /\ Goto(r, "check")
            /\ UNCHANGED <<edits, current, modified, failed, pools, seen, held, clashed>>

Unchanged(r) == /\ pc[r] = "stat"
                /\ r = "poller" /\ modified = seen[r]
                /\ Goto(r, "idle")
                /\ UNCHANGED <<edits, current, modified, failed, pools, seen, held, clashed>>

Read(r) == /\ pc[r] = "check"
           /\ held' = [held EXCEPT ![r] = load(edits[Len(edits)])]
           /\ Goto(r, "read")
           /\ UNCHANGED <<edits, current, modified, failed, pools, seen, clashed>>

\* Mutant: the time is taken again when the file is accepted.
Accept_StatsAgain(r) ==
  /\ pc[r] = "read"
  /\ modified' = mtime
  /\ ~ Refused(held[r])
  /\ failed' = FALSE
  /\ held' = [held EXCEPT ![r] = resolve(held[r])]
  /\ Goto(r, "write")
  /\ UNCHANGED <<edits, current, pools, seen, clashed>>

\* Under the lock of the status, which ends with this step.
Accept(r) == /\ pc[r] = "read"
             /\ modified' = seen[r]
             /\ ~ Refused(held[r])
             /\ failed' = FALSE
             /\ held' = [held EXCEPT ![r] = resolve(held[r])]
             /\ Goto(r, "write")
             /\ UNCHANGED <<edits, current, pools, seen, clashed>>

\* An error keeps the values in force.
Refuse(r) == /\ pc[r] = "read"
             /\ modified' = seen[r]
             /\ Refused(held[r])
             /\ failed' = TRUE
             /\ held' = [held EXCEPT ![r] = None]
             /\ Goto(r, "idle")
             /\ UNCHANGED <<edits, current, pools, seen, clashed>>

\* Mutant: what the handler stores is left for the poll loop to push.
Write_LeavesPush(r) == /\ pc[r] = "write"
                       /\ current' = held[r]
                       /\ held' = [held EXCEPT ![r] = None]
                       /\ Goto(r, IF r # "poller" \/ current = held[r] THEN "idle" ELSE "apply")
                       /\ UNCHANGED <<edits, modified, failed, pools, seen, clashed>>

\* The handler pushes whatever came of it, the poll loop what has changed.
Write(r) == /\ pc[r] = "write"
            /\ current' = held[r]
            /\ held' = [held EXCEPT ![r] = None]
            /\ Goto(r, IF r = "poller" /\ current = held[r] THEN "idle" ELSE "apply")
            /\ UNCHANGED <<edits, modified, failed, pools, seen, clashed>>

\* apply_tunables copies the tunables and pushes them pool after pool.
Copy(r) == /\ pc[r] = "apply"
           /\ held' = [held EXCEPT ![r] = current]
           /\ Goto(r, "managed")
           /\ UNCHANGED <<edits, current, modified, failed, pools, seen, clashed>>
PushManaged(r) == /\ pc[r] = "managed"
                  /\ pools' = [pools EXCEPT !.managed = Pushed(held[r]).managed]
                  /\ Goto(r, "raw")
                  /\ UNCHANGED <<edits, current, modified, failed, seen, held, clashed>>
PushRaw(r) == /\ pc[r] = "raw"
              /\ pools' = [pools EXCEPT !.raw = Pushed(held[r]).raw]
              /\ held' = [held EXCEPT ![r] = None]
              /\ Goto(r, "idle")
              /\ UNCHANGED <<edits, current, modified, failed, seen, clashed>>

Next == \/ Edit
        \/ \E r \in Reloaders : \/ Stat(r) \/ Check(r) \/ Unchanged(r) \/ Read(r) \/ Accept(r) \/ Refuse(r)
                                \/ Write(r) \/ Copy(r) \/ PushManaged(r) \/ PushRaw(r)

Spec == Init /\ [][Next]_vars

-----------------------------------------------------------------------------
(* Properties *)

\* The last edit has been seen and nobody is reloading any more.
Settled == modified = mtime /\ \A r \in Reloaders : pc[r] = "idle"

\* "serve checks the file every two seconds and applies changes to live
\* admission pools" (docs/MONITORING.md:282): once it is settled the tunables and
\* both pools are those of the file, unless the file was refused.  Two reloads that
\* overlap may store their tunables in the wrong order (`current` is written after
\* the lock of the status is given back, settings.rs:141), so none has.
SettledMeansApplied ==
  Settled /\ ~ clashed =>
    LET file == load(edits[Len(edits)])
    IN IF Refused(file) THEN failed
       ELSE ~ failed /\ current = resolve(file) /\ pools = Pushed(current)
=============================================================================
