------------------------ MODULE MCThreadEnvironment ------------------------
(***************************************************************************)
(* Pool sizes for ThreadEnvironment: a thread per task, a pool with fewer  *)
(* threads than tasks, a pool with as many.                                *)
(***************************************************************************)
EXTENDS ThreadEnvironment

AllPools == 0..NumTasks
ThreadPerTask == {0}
=============================================================================
