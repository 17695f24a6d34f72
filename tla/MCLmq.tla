------------------------------- MODULE MCLmq -------------------------------
(***************************************************************************)
(* Instances of Lmq for TLC.                                               *)
(***************************************************************************)
EXTENDS Lmq, TLC

MsgSymmetry == Permutations(Msg)
=============================================================================
