---------------------------- MODULE MCBlockChain ----------------------------
(***************************************************************************)
(* The blocks of a binary tree of forks: block h has the children 2h and   *)
(* 2h + 1, block 1 is the child of the genesis block 0.  Any block may be  *)
(* offered at any time, so parents are often unknown, and state blocks     *)
(* stand at different heights of the branches.                             *)
(***************************************************************************)
EXTENDS BlockChain

MCHash == 1..31

MCPrevHash == [h \in MCHash |-> h \div 2]

MCHeight == [h \in MCHash |-> CHOOSE n \in 1..5 : h \in 2^(n - 1)..(2^n - 1)]

MCStateBlocks == {3, 4, 5, 9, 12, 15, 19, 22, 26, 31}
=============================================================================
