------------------------------- MODULE TaskIds ------------------------------
(***************************************************************************)
(* The tasks of one run of the service, shared by the modules that a task  *)
(* goes through.                                                           *)
(***************************************************************************)
EXTENDS FiniteSets

CONSTANTS Tasks, NoOne

ASSUME TasksFinite == IsFiniteSet(Tasks) /\ NoOne \notin Tasks
=============================================================================
