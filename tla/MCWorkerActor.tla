--------------------------- MODULE MCWorkerActor ---------------------------
(***************************************************************************)
(* Blocks for WorkerActor: a block with two subscribers, or a chain of two *)
(* of which the first one decimates.                                       *)
(***************************************************************************)
EXTENDS WorkerActor

Chain == [b \in Blocks |-> b - 1]
Fork == [b \in Blocks |-> IF b = 1 THEN 0 ELSE 1]

OneToOne == [b \in Blocks |-> 1]
FirstDecimates == [b \in Blocks |-> IF b = 1 THEN 2 ELSE 1]
=============================================================================
