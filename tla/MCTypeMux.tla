----------------------------- MODULE MCTypeMux -----------------------------
(* A subscription to both types and one to the second only.                 *)
EXTENDS TypeMux, TLC

CONSTANTS s1, s2, e1, e2, w1, c1, c2, c3

MCWants == (s1 :> {e1, e2}) @@ (s2 :> {e2})
=============================================================================
