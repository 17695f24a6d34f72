------------------------------- MODULE MCAio -------------------------------
(***************************************************************************)
(* Instances of Aio for TLC.                                               *)
(***************************************************************************)
EXTENDS Aio, TLC

\* Threads of a kind are interchangeable.
ThreadSymmetry == Permutations(App) \union Permutations(Worker)
=============================================================================
