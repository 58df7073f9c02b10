----------------------------- MODULE MCRejected -----------------------------
(***************************************************************************)
(* Five rejected blocks with two transactions, one of which is rejected    *)
(* more often than a history holds.                                        *)
(***************************************************************************)
EXTENDS Rejected

CONSTANTS t1, t2

MCTxs == <<{t1}, {t1, t2}, {t1}, {t2}, {t1}>>
=============================================================================
