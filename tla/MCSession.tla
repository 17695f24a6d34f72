----------------------------- MODULE MCSession -----------------------------
\* Instances of the pipes of a client.
EXTENDS Session
=============================================================================
