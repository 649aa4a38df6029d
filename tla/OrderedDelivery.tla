-------------------------- MODULE OrderedDelivery --------------------------
(***************************************************************************)
(* What the download queue promises to the block processor of a sync: the   *)
(* headers it accepted form one chain, and the blocks it hands out are that *)
(* chain from its first block on, in order, each exactly once, whatever the *)
(* peers do, in which order bodies and receipts arrive and how often they   *)
(* are asked for again.                                                     *)
(***************************************************************************)
EXTENDS Integers, Sequences

CONSTANTS Headers, Number, Parent

VARIABLES
    scheduled,    \* the headers accepted in this cycle, in order
    delivered     \* the blocks handed out in this cycle, in order

IsChain(s) ==
    \A i \in 1..(Len(s) - 1) :
        Number[s[i + 1]] = Number[s[i]] + 1 /\ Parent[s[i + 1]] = s[i]

Init == scheduled = <<>> /\ delivered = <<>>

Accept ==
    /\ Len(scheduled') > Len(scheduled)
    /\ SubSeq(scheduled', 1, Len(scheduled)) = scheduled
    /\ IsChain(scheduled')
    /\ UNCHANGED delivered

HandOut ==
    /\ \E n \in (Len(delivered) + 1)..Len(scheduled) :
         delivered' = SubSeq(scheduled, 1, n)
    /\ UNCHANGED scheduled

Restart == scheduled' = <<>> /\ delivered' = <<>>

Next == Accept \/ HandOut \/ Restart

Spec == Init /\ [][Next]_<<scheduled, delivered>>
==============================================================================
