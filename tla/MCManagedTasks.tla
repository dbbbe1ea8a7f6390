--------------------------- MODULE MCManagedTasks ---------------------------
(***************************************************************************)
(* Values of the constants of ManagedTasks.  chat is a job and note an     *)
(* ordinary task, both append to s1; index is a job that appends to s1 and *)
(* that somebody may cancel, embed one without a history; all but index    *)
(* name the session n1.                                                    *)
(***************************************************************************)
EXTENDS ManagedTasks

CONSTANTS chat, note, embed, index, s1, s2, n1

MCDeferred == Tasks \ {note}
MCRecalled == Tasks \cap {index}
MCScopeOf == [t \in Tasks |-> IF t = embed THEN NoOne ELSE s1]
MCSessionOf == [t \in Tasks |-> IF t = index THEN NoOne ELSE n1]
=============================================================================
