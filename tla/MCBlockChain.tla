--------------------------- MODULE MCBlockChain ---------------------------
(***************************************************************************)
(* Instances of BlockChain for TLC.  The blocks are                         *)
(*                                                                          *)
(*     g --- a1 --- a2 --- a3        total difficulties 1, 2, 3             *)
(*      \      \--- d2               2, an invalid block                    *)
(*       \-- b1 --- b2 --- b3        1, 4, 5                                *)
(*                                                                          *)
(* so that a2 and a3 are reorganised away by the shorter chain that ends in *)
(* b2.  The transaction x is in both chains, y only in the a chain, z only  *)
(* in the b chain.                                                          *)
(***************************************************************************)
EXTENDS BlockChain

CONSTANTS g, a1, a2, a3, b1, b2, b3, d2, x, y, z

Tree == {g, a1, a2, a3, b1, b2, b3, d2}
TreeParent == [b \in Tree \ {g} |->
    CASE b \in {a1, b1} -> g [] b \in {a2, d2} -> a1 [] b = a3 -> a2
      [] b = b2 -> b1 [] b = b3 -> b2]
TreeNumber == [b \in Tree |->
    CASE b = g -> 0 [] b \in {a1, b1} -> 1 [] b \in {a2, b2, d2} -> 2 [] b \in {a3, b3} -> 3]
TreeTd == [b \in Tree |->
    CASE b = g -> 0 [] b \in {a1, b1} -> 1 [] b \in {a2, d2} -> 2 [] b = a3 -> 3
      [] b = b2 -> 4 [] b = b3 -> 5]
TreeTxs == {x, y, z}
TreeTxsOf == [b \in Tree |->
    CASE b \in {a1, b1} -> {x} [] b = a2 -> {y} [] b = b2 -> {z} [] OTHER -> {}]

NoSeqs == {}

\* No block in the future; b1 and b3 a bit in the future, a3 far in the future.
AllPast == [b \in Tree |-> 0]
SomeFuture == [b \in Tree |-> CASE b = a3 -> 2 [] b \in {b1, b3} -> 1 [] OTHER -> 0]

ImportChains == {<<a1, a2>>, <<a1, d2>>, <<a3>>, <<b1, b2>>, <<b2>>, <<b3>>}
CrashChains == {<<a1, a2>>, <<a3>>, <<b1, b2>>}
Headers == {<<a1, a2, a3>>, <<b1, b2>>, <<b3>>, <<d2>>}
Receipts == {<<b1, b2>>, <<b3>>}

===========================================================================
