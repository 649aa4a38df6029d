------------------------------ MODULE MCTxPool ------------------------------
(* An instance of TxPool for TLC.                                          *)
EXTENDS TxPool, TLC

CONSTANTS a1, t0, t1, u1, h0, h1, h2, h3

\* One account with a transaction for nonce 0 and two that compete for nonce 1,
\* of which t1 is below the gas price the miner may ask for and u1 is dear.
OneAccount == {a1}
OneTxs == {t0, t1, u1}
OneFrom == [tx \in OneTxs |-> a1]
OneNonce == t0 :> 0 @@ t1 :> 1 @@ u1 :> 1
OneCost == t0 :> 1 @@ t1 :> 1 @@ u1 :> 2
OnePrice == t0 :> 1 @@ t1 :> 0 @@ u1 :> 1

\* h1 extends h0 by t0; h2 is a fork where the account is poorer and u1 exceeds
\* the gas limit; the state of h3, another block with t0, is missing.
OneHeads == {h0, h1, h2, h3}
OneHeadNonce == [h \in OneHeads |-> a1 :> IF h \in {h1, h3} THEN 1 ELSE 0]
OneHeadBalance == [h \in OneHeads |-> a1 :> IF h = h2 THEN 1 ELSE 2]
OneAdmits == [h \in OneHeads |-> IF h = h2 THEN {t0, t1} ELSE OneTxs]
OneIncluded == [h \in OneHeads |-> IF h \in {h1, h3} THEN {t0} ELSE {}]
OneAvailable == {h0, h1, h2}
OneBatches == {{}, {t0, t1}, {t1, u1}}
=============================================================================
