---------------------------- MODULE MCTaskState ----------------------------
(***************************************************************************)
(* Model checking of TaskState.                                            *)
(***************************************************************************)
EXTENDS TaskState
=============================================================================
