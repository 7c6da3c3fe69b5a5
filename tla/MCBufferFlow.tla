---------------------------- MODULE MCBufferFlow ----------------------------
(***************************************************************************)
(* A ring of three small slabs and a pool buffer that holds less than all  *)
(* of it.                                                                  *)
(***************************************************************************)
EXTENDS BufferFlow

SmallPool == 1..3
OneOrThree == {1, 3}
=============================================================================
