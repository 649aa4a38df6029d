----------------------------- MODULE MCTrieSync -----------------------------
(* Two state tries that share a subtrie.  The node n1 holds one hash twice,  *)
(* and the code cd is referred to from two depths.                           *)
EXTENDS TrieSync, TLC

CONSTANTS r1, r2, n1, n2, n3, cd

MCNodes == {r1, r2, n1, n2, n3, cd}
MCRoots == {r1, r2}
MCRefs == (r1 :> <<n1, n2>>) @@ (r2 :> <<n1, cd>>) @@ (n1 :> <<cd, cd>>)
          @@ (n2 :> <<n3>>) @@ (n3 :> <<cd>>) @@ (cd :> <<>>)
==============================================================================
