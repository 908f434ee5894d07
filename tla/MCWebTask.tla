----------------------------- MODULE MCWebTask ------------------------------
(***************************************************************************)
(* Model checking of WebTask.  Two clients want the same task, two tasks   *)
(* of one name, or different tasks.                                        *)
(***************************************************************************)
EXTENDS WebTask

Picking  == [name |-> "one", type |-> "binpicking"]
Planning == [name |-> "one", type |-> "realtimeitlplanning"]
Other    == [name |-> "two", type |-> "binpicking"]

AllWanted == {Picking, Planning, Other}
AllFound  == {Picking, Planning}
=============================================================================
