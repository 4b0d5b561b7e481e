-------------------------- MODULE MCAuthorizeGate --------------------------
(* Small instances of AuthorizeGate for TLC.                               *)
EXTENDS AuthorizeGate, TLC

CONSTANT chat

OneClient == [q \in Query |-> chat]

IdSymmetry == Permutations(Thread) \cup Permutations(Form)
=============================================================================
