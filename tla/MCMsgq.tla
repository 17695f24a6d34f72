------------------------------ MODULE MCMsgq ------------------------------
\* Instances of the message queue.
EXTENDS Msgq

\* Handles of a kind are interchangeable.
HandleSymmetry == Permutations(Writer) \union Permutations(Reader)
=============================================================================
