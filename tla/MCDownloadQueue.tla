-------------------------- MODULE MCDownloadQueue --------------------------
(* A chain of three headers, and a third one of another chain.              *)
EXTENDS DownloadQueue

CONSTANTS q1, q2, h1, h2, h3, f3

MCHeaders == {h1, h2, h3, f3}
MCNumber == (h1 :> 1) @@ (h2 :> 2) @@ (h3 :> 3) @@ (f3 :> 3)
MCParent == (h1 :> None) @@ (h2 :> h1) @@ (h3 :> h2) @@ (f3 :> h1)
MCBatches == {<<h1, h2>>, <<h3>>, <<f3>>}
MCEmpty == [body |-> {h2}, receipt |-> {h1}]
MCSyncs == {[mode |-> "fast", pivot |-> 2, origin |-> 0]}
Symmetry == Permutations(Peers)
==============================================================================
