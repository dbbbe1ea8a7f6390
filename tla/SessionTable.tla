---------------------------- MODULE SessionTable ----------------------------
(***************************************************************************)
(* Session affinity (sessions.rs, SessionAffinity in routing.rs): a        *)
(* bounded table from a session to the model that last worked for it.  A   *)
(* model is named by the task that bound it.  The table is behind one      *)
(* async lock that is never held across an await, except by a commit       *)
(* (module ManagedTasks).                                                  *)
(***************************************************************************)
EXTENDS TaskIds, Naturals

CONSTANTS Sessions,    \* ids; an id is handed out once
          MaxSessions

ASSUME SessionsAssumption == IsFiniteSet(Sessions) /\ NoOne \notin Sessions /\ MaxSessions \in Nat \ {0}

VARIABLES
  sessions,  \* records in the table
  opened,    \* ids handed out
  idle,      \* records unused for session_ttl, not yet pruned
  affinity,  \* affinity[n]: whose model n is bound to
  killed     \* sessions whose `killed` signal has been sent

sessionVars == <<sessions, opened, idle, affinity, killed>>

SessionsInit == /\ sessions = {}
                /\ opened = {}
                /\ idle = {}
                /\ affinity = [n \in Sessions |-> NoOne]
                /\ killed = {}

Active(n) == n \in sessions \ idle
prune_expired == sessions' = sessions \ idle /\ idle' = {}

create_session(n) ==
  /\ n \notin opened
  /\ idle' = {}
  /\ \/ /\ Cardinality(sessions \ idle) < MaxSessions
        /\ sessions' = (sessions \ idle) \cup {n}
        /\ opened' = opened \cup {n}
     \/ /\ Cardinality(sessions \ idle) >= MaxSessions
        /\ sessions' = sessions \ idle
        /\ UNCHANGED opened
  /\ UNCHANGED <<affinity, killed>>

delete_session(n) == /\ n \in opened
                     /\ sessions' = (sessions \ idle) \ {n}
                     /\ idle' = {}
                     /\ UNCHANGED <<opened, affinity, killed>>

\* An unknown session, or one that has been idle for too long, is a 404.
kill_session(n) == /\ n \in opened
                   /\ sessions' = (sessions \ idle) \ {n}
                   /\ idle' = {}
                   /\ killed' = IF Active(n) THEN killed \cup {n} ELSE killed
                   /\ UNCHANGED <<opened, affinity>>

GrowIdle(n) == /\ Active(n)
               /\ idle' = idle \cup {n}
               /\ UNCHANGED <<sessions, opened, affinity, killed>>

\* It succeeds when n is active.
touch(n) == prune_expired /\ UNCHANGED <<opened, affinity, killed>>

\* bind renews a record that nobody has pruned yet.
bind(n, t) == /\ \/ /\ n \in sessions
                    /\ affinity' = [affinity EXCEPT ![n] = t]
                    /\ idle' = idle \ {n}
                 \/ n \notin sessions /\ UNCHANGED <<affinity, idle>>
              /\ UNCHANGED <<sessions, opened, killed>>
=============================================================================
