------------------------------ MODULE MCServer ------------------------------
(* Two remote nodes and the server itself.                                 *)
EXTENDS Server

CONSTANTS n1, n2, me
=============================================================================
