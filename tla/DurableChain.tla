---------------------------- MODULE DurableChain ----------------------------
(***************************************************************************)
(* What a node promises about the chain it has on disk: it starts empty, a *)
(* block is added only on top of the block added last, and nothing is ever *)
(* taken away but the whole chain, when a fork makes the node start over.  *)
(***************************************************************************)
EXTENDS Sequences

CONSTANTS Hash, Genesis, prevHash

VARIABLE chain

Last == IF chain = <<>> THEN Genesis ELSE chain[Len(chain)]

DcInit == chain = <<>>

Extend ==
    \E h \in Hash : prevHash[h] = Last /\ chain' = Append(chain, h)

StartOver == chain' = <<>>

DcNext == Extend \/ StartOver

DcSpec == DcInit /\ [][DcNext]_chain
=============================================================================
