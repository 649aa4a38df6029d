----------------------------- MODULE MCFetcher -----------------------------
(* A chain of two blocks, a1 then a2, and c1, an invalid block with the same *)
(* parent and body as a1; a2 has no body.  One peer speaks eth/62, the other *)
(* eth/61.                                                                   *)
EXTENDS Fetcher

CONSTANTS p62, p61, a1, a2, c1, g, x

BlockNumber == [h \in Hashes |-> IF h = a2 THEN 2 ELSE 1]
BlockParent == [h \in Hashes |-> IF h = a2 THEN a1 ELSE g]
BlockBody == [h \in Hashes |-> IF h = a2 THEN None ELSE x]
=============================================================================
