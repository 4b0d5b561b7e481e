--------------------------- MODULE MCOAuthGrants ---------------------------
(* Small instances of OAuthGrants for TLC.                                 *)
EXTENDS GrantRefinement, TLC

CONSTANTS t1, t2, alice, bob, read, send

(* A user who consents to everything, and one who only reads mail.         *)
MCScope == {read, send}
MCRequired == {{read}, {send}}
FullGrant == [subject |-> alice, scopes |-> {read, send}]
ReadGrant == [subject |-> bob, scopes |-> {read}]
TwoGrants == {FullGrant, ReadGrant}
OneGrant == {ReadGrant}
ReadOnly == {{read}}

IdSymmetry == Permutations(Thread) \cup Permutations(Session)
                \cup Permutations(Code) \cup Permutations(Token)
=============================================================================
