------------------------------- MODULE MCSync -------------------------------
(***************************************************************************)
(* Two branches from a common first block, 1 <- 2 <- 4 and 1 <- 3 <- 5     *)
(* <- 6, of which the hash order prefers neither, and one sign block.  The *)
(* longer branch makes findCommonAncestor go down more than one block.  Or *)
(* two chains that share no block, 1 <- 2 <- 3 and 5 <- 6, and a fork of   *)
(* the first at its end, 2 <- 4: the files may then be cut to nothing.     *)
(***************************************************************************)
EXTENDS Sync

CONSTANT s2

MCHash == 1..6

MCPrevHash == <<0, 1, 1, 2, 3, 5>>

MCHeight == <<1, 2, 2, 3, 3, 4>>

RootsPrevHash == <<0, 1, 2, 2, 0, 5>>

RootsHeight == <<1, 2, 3, 3, 1, 2>>

MCHashRank == <<3, 5, 1, 2, 4, 6>>

MCSign == {s2}

MCSignParent == [s \in MCSign |-> 2]

CrashAnywhere == Running \cup Recovering

\* Everywhere but between the cut of the file and the removal of the databases.
CrashOutsideDrop == CrashAnywhere \ {"dropDb"}

NoCrash == {}
=============================================================================
