----------------------------- MODULE ScopeStore -----------------------------
(***************************************************************************)
(* The process-local message histories (scopes.rs).  A history is a        *)
(* sequence of turns; a turn is the task that appended it and stands for   *)
(* two messages, the caller's and the assistant's.  A turn of one message  *)
(* costs one byte, so the message bound and the byte bounds meet.          *)
(*                                                                         *)
(* Every operation prunes first: entries whose time to live has run out    *)
(* (worn) go away whatever else the operation does.                        *)
(***************************************************************************)
EXTENDS TaskIds, Integers, Sequences, Functions, FiniteSetsExt

CONSTANTS Scopes,       \* ids; an id (a v4 UUID) is handed out once
          MaxCount,     \* ScopePolicy::max_count
          MaxMessages,  \* ScopePolicy::max_messages, of one history
          TotalMax      \* ScopePolicy::total_max_bytes, of all of them

ASSUME ScopesAssumption == IsFiniteSet(Scopes) /\ NoOne \notin Scopes
ASSUME ScopePolicyAssumption == {MaxCount, MaxMessages, TotalMax} \subseteq Nat \ {0}

VARIABLES
  store,   \* store[s]: the history kept under s
  minted,  \* ids handed out
  worn     \* kept histories that are older than their time to live

scopeVars == <<store, minted, worn>>

History == [revision : Nat, messages : Seq(Tasks), lease : Tasks \cup {NoOne}]

StoreInit == /\ store = << >>
             /\ minted = {}
             /\ worn = {}

Kept == DOMAIN store \ worn
Pruned == Restrict(store, Kept)
Prune == store' = Pruned /\ worn' = {}

NewHistory(messages) == [revision |-> 0, messages |-> messages, lease |-> NoOne]
Messages(turns) == 2 * Len(turns)
TotalBytes(h) == MapThenSumSet(LAMBDA s : Messages(h[s].messages), DOMAIN h)

capacity(h, bytes) == /\ Cardinality(DOMAIN h) < MaxCount
                      /\ TotalBytes(h) + bytes <= TotalMax

-----------------------------------------------------------------------------
(* Operations of callers *)

Insert(s, history) == /\ store' = [r \in Kept \cup {s} |-> IF r = s THEN history ELSE store[r]]
                      /\ minted' = minted \cup {s}
                      /\ worn' = {}

create(s) == /\ s \notin minted
             /\ \/ capacity(Pruned, 0) /\ Insert(s, NewHistory(<< >>))
                \/ ~ capacity(Pruned, 0) /\ Prune /\ UNCHANGED minted

\* The lease of the source does not matter: its stored turns are copied.
Forkable(source, revision) ==
  /\ source \in Kept
  /\ store[source].revision = revision
  /\ capacity(Pruned, Messages(store[source].messages))

fork(source, revision, s) ==
  /\ s \notin minted
  /\ \/ Forkable(source, revision) /\ Insert(s, NewHistory(store[source].messages))
     \/ ~ Forkable(source, revision) /\ Prune /\ UNCHANGED minted

get(s) == s \in minted /\ Prune /\ UNCHANGED minted

\* Leased or not.
delete(s) == /\ s \in minted
             /\ store' = Restrict(store, Kept \ {s})
             /\ worn' = {}
             /\ UNCHANGED minted

\* Time passes: touched.elapsed() reaches the time to live.
WearOut(s) == /\ s \in Kept
              /\ worn' = worn \cup {s}
              /\ UNCHANGED <<store, minted>>

-----------------------------------------------------------------------------
(* Operations of a task *)

\* What a task that quotes a revision needs to lease the history.  The
\* caller's message of its turn is counted before the model is asked.
CanLease(s, revision) == /\ s \in Kept
                         /\ store[s].revision = revision
                         /\ store[s].lease = NoOne
                         /\ Messages(store[s].messages) + 1 <= MaxMessages

Lease(t, s) == /\ store' = [Pruned EXCEPT ![s].lease = t]
               /\ worn' = {}
               /\ UNCHANGED minted

\* What its lease needs to append `turns`, the history it prepared with its
\* own turn at the end.
Projected(s, turns) ==
  TotalBytes(Pruned) - Messages(store[s].messages) + Messages(turns)
CanAppend(t, s, revision, turns) ==
  /\ s \in Kept
  /\ store[s].revision = revision /\ store[s].lease = t
  /\ Messages(turns) <= MaxMessages
  /\ Projected(s, turns) <= TotalMax

\* Mutant: the revision stays.
AppendTurns_SameRevision(s, turns) ==
  /\ store' = [Pruned EXCEPT ![s] = [revision |-> @.revision, messages |-> turns, lease |-> NoOne]]
  /\ worn' = {}
  /\ UNCHANGED minted

AppendTurns(s, turns) ==
  /\ store' = [Pruned EXCEPT ![s] = [revision |-> @.revision + 1,
                                     messages |-> turns,
                                     lease |-> NoOne]]
  /\ worn' = {}
  /\ UNCHANGED minted

\* Mutant: it clears whatever lease it finds.
DropLease_Any(t, s) ==
  /\ store' = IF s \in DOMAIN store THEN [store EXCEPT ![s].lease = NoOne] ELSE store
  /\ UNCHANGED <<minted, worn>>

\* ScopeLease::drop: it clears its own lease and prunes nothing.
DropLease(t, s) ==
  /\ store' = IF s \in DOMAIN store /\ store[s].lease = t
              THEN [store EXCEPT ![s].lease = NoOne] ELSE store
  /\ UNCHANGED <<minted, worn>>

=============================================================================
