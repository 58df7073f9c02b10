----------------------------- MODULE MCP2PQueue -----------------------------
(***************************************************************************)
(* Servers with few connections each and requests of the three kinds: many *)
(* small ones (minSize 1), a large one with a segment for each multiple of *)
(* the minimal size, and a larger one that has more of them than there are *)
(* connections.                                                            *)
(***************************************************************************)
EXTENDS P2PQueue

CONSTANTS a, b, c

Two == <<a, b>>

Three == <<a, b, c>>

Mixed == {[size |-> 1, minSize |-> 1], [size |-> 3, minSize |-> 1],
          [size |-> 7, minSize |-> 3]}

Large == {[size |-> n, minSize |-> 3] : n \in {1, 3, 4, 6, 7, 8, 11}}
=============================================================================
