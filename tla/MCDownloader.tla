---------------------------- MODULE MCDownloader ----------------------------
EXTENDS Downloader

CONSTANTS q1, q2, h1, h2, h3

MCHeaders == {h1, h2, h3}
MCNumber == (h1 :> 1) @@ (h2 :> 2) @@ (h3 :> 3)
MCParent == (h1 :> None) @@ (h2 :> h1) @@ (h3 :> h2)
MCBatches == {<<h1, h2, h3>>}
MCEmpty == [body |-> {}, receipt |-> {}]
MCSyncs == {[mode |-> "fast", pivot |-> 0, origin |-> 0]}
==============================================================================
