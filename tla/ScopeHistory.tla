---------------------------- MODULE ScopeHistory ----------------------------
(***************************************************************************)
(* What history scopes promise (scopes.rs, JobProgress::commit_result in   *)
(* jobs.rs): a turn is appended, whole and once, to exactly the revision   *)
(* its caller quoted, and the caller is told that the task completed just  *)
(* in case its turn has been appended.  No lock, lease or session is in    *)
(* sight.                                                                  *)
(***************************************************************************)
EXTENDS Naturals, Sequences, Functions

CONSTANTS Scopes,   \* ids of histories
          Writers,  \* tasks that append a turn
          ScopeOf   \* ScopeOf[t]: the scope t names

VARIABLES
  histories,  \* histories[s]: the revision and the turns kept under s
  quoted,     \* quoted[t]: the revision t expects
  fate,       \* fate[t]: open, appended or refused
  told        \* told[t]: what the caller of t has learnt

vars == <<histories, quoted, fate, told>>

Init == /\ histories = << >>
        /\ quoted = [t \in Writers |-> 0]
        /\ fate = [t \in Writers |-> "open"]
        /\ told = [t \in Writers |-> "nothing"]

\* A new history is empty, or a copy of one that goes on by itself.
Create(s) == /\ s \notin DOMAIN histories
             /\ \E turns \in {<< >>} \cup {histories[r].turns : r \in DOMAIN histories} :
                  histories' = [r \in DOMAIN histories \cup {s} |->
                                  IF r = s THEN [revision |-> 0, turns |-> turns] ELSE histories[r]]
             /\ UNCHANGED <<quoted, fate, told>>

Forget(s) == /\ s \in DOMAIN histories
             /\ histories' = Restrict(histories, DOMAIN histories \ {s})
             /\ UNCHANGED <<quoted, fate, told>>

Quote(t) == /\ fate[t] = "open"
            /\ quoted'[t] \in Nat
            /\ quoted' = [quoted EXCEPT ![t] = quoted'[t]]
            /\ UNCHANGED <<histories, fate, told>>

Extend(t) == LET s == ScopeOf[t] IN
             /\ fate[t] = "open"
             /\ s \in DOMAIN histories
             /\ histories[s].revision = quoted[t]
             /\ histories' = [histories EXCEPT ![s] = [revision |-> quoted[t] + 1,
                                                       turns |-> Append(@.turns, t)]]
             /\ fate' = [fate EXCEPT ![t] = "appended"]
             /\ UNCHANGED <<quoted, told>>

Refuse(t) == /\ fate[t] = "open"
             /\ fate' = [fate EXCEPT ![t] = "refused"]
             /\ UNCHANGED <<histories, quoted, told>>

Tell(t) == /\ fate[t] # "open"
           /\ told[t] = "nothing"
           /\ told' = [told EXCEPT ![t] = IF fate[t] = "appended" THEN "completed" ELSE "failed"]
           /\ UNCHANGED <<histories, quoted, fate>>

Next == \/ \E s \in Scopes : Create(s) \/ Forget(s)
        \/ \E t \in Writers : Extend(t) \/ Refuse(t) \/ Tell(t) \/ Quote(t)

Spec == Init /\ [][Next]_vars
=============================================================================
