----------------------------- MODULE MCNodeTests -----------------------------
(***************************************************************************)
(* Chains of four blocks: tests of two nodes in two places, given by rps   *)
(* or by latency, failed and unreadable ones, trust and registrations, in  *)
(* state blocks and in others.                                             *)
(***************************************************************************)
EXTENDS NodeTests

Test(x, geo, rps, forward) ==
    [kind |-> "test", node |-> x, geo |-> geo, rps |-> rps, forward |-> forward]
Unreadable == [kind |-> "unreadable"]
Trust(x, v) == [kind |-> "trust", node |-> x, value |-> v]
Register(x, v) == [kind |-> "register", node |-> x, value |-> v]

Simple(txs) == [state |-> FALSE, txs |-> txs]
State(txs) == [state |-> TRUE, txs |-> txs]

MCBlocks ==
    {Simple(<<Test(1, 1, 3, TRUE), Test(2, 1, 0, TRUE), Register(1, 5), Register(1, 6)>>),
     Simple(<<Unreadable, Test(1, 2, 1, FALSE), Test(2, 2, 2, TRUE), Trust(1, 1), Register(1, 7)>>),
     State(<<Trust(1, 2), Test(1, 1, 2, TRUE), Trust(1, 3), Register(2, 8)>>),
     State(<<Trust(2, 4)>>)}

MCChains == {c \in [1..4 -> MCBlocks] : c[4].state = c[1].state /\ c[3] # c[4]}
=============================================================================
