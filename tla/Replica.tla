------------------------------ MODULE Replica -------------------------------
(***************************************************************************)
(* What copying the timeline of the network promises.  A timeline holds    *)
(* blocks, and sign blocks between them.  The copy grows by one element at *)
(* a time: by the next block, but only when the sign blocks before it are  *)
(* all there, or by a sign block that belongs after the copy's last block. *)
(* The order of the sign blocks between two blocks is not promised.        *)
(***************************************************************************)
EXTENDS Naturals, Sequences, FiniteSets

VARIABLES timeline, copy

IsBlock(e) == e[1] = "block"
IsSign(e) == e[1] = "sign"

CountBlocks(tl) == Cardinality({i \in DOMAIN tl : IsBlock(tl[i])})

Position(tl, n) == IF n = 0 THEN 0 ELSE CHOOSE i \in DOMAIN tl : tl[i] = <<"block", n>>

\* The sign blocks between block n and the next block, in their order.
SignsAfter(tl, n) ==
    LET p == Position(tl, n)
        run == {i \in DOMAIN tl : i > p /\ \A k \in p + 1 .. i : IsSign(tl[k])}
    IN SubSeq(tl, p + 1, p + Cardinality(run))

Elements(tl) == {tl[i] : i \in DOMAIN tl}

RpInit == copy = <<>>

CopyBlock ==
    LET n == CountBlocks(copy) IN
    /\ <<"block", n + 1>> \in Elements(timeline)
    /\ Elements(SignsAfter(timeline, n)) \subseteq Elements(copy)
    /\ copy' = Append(copy, <<"block", n + 1>>)

CopySign ==
    \E e \in Elements(SignsAfter(timeline, CountBlocks(copy))) \ Elements(copy) :
        copy' = Append(copy, e)

RpNext == (CopyBlock \/ CopySign) /\ UNCHANGED timeline

RpSpec == RpInit /\ [][RpNext]_<<timeline, copy>>
=============================================================================
