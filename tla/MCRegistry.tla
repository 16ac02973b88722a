----------------------------- MODULE MCRegistry -----------------------------
(* Instances of Registry for TLC. *)
EXTENDS Registry

CONSTANTS dq, q1, de, e1, m1, m2

OneKey == {<<"a">>}
KeyA == <<"a">>
AnyKey == <<>>
=============================================================================
