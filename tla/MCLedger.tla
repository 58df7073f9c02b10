------------------------------ MODULE MCLedger ------------------------------
(***************************************************************************)
(* Families of chains: delegations between two wallets, transfers with     *)
(* every status and a forging block, and operations on one token.          *)
(***************************************************************************)
EXTENDS Ledger

CONSTANTS w1, w2, tk, w0

MCWallet == {w1, w2, tk}

None == [w \in MCWallet |-> 0]

Tx(from, to, value, fee, status) ==
    [from |-> from, to |-> to, value |-> value, fee |-> fee, status |-> status,
     op |-> "none", amount |-> 0, target |-> to, dist |-> None]

Op(from, to, status, op, amount, target) ==
    [Tx(from, to, 0, 1, status) EXCEPT !.op = op, !.amount = amount, !.target = target]

Grant(w, v) == Tx(w0, w, v, 0, "accept")

Delegations1 ==
    {Op(w1, w2, "accept", "delegate", 1, w2), Op(w1, w2, "accept", "delegate", 2, w2),
     Op(w1, w2, "wrongData", "delegate", 2, w2), Op(w1, w2, "accept", "undelegate", 0, w2)}

Delegations2 ==
    Delegations1 \cup
    {Op(w1, w1, "accept", "delegate", 3, w1), Op(w1, w2, "none", "delegate", 1, w2)}

Transfers ==
    {Tx(w1, w2, 2, 1, "accept"), Tx(w2, w1, 3, 0, "accept"), Tx(w1, w1, 1, 1, "accept"),
     Tx(w1, w2, 3, 1, "wrongMoney"), Tx(w1, w2, 1, 1, "wrongData"),
     Tx(w1, w2, 0, 0, "nodeTest"), Tx(w2, w0, 2, 1, "accept"), Grant(w2, 5)}

TokenTxs ==
    {Op(w1, tk, "accept", "add", 2, w2), Op(w1, tk, "accept", "burn", 1, w1),
     Op(w1, tk, "accept", "move", 1, w2), Op(w1, tk, "accept", "move", 2, w1),
     Op(w1, tk, "accept", "owner", 0, w2), Op(w1, tk, "wrongData", "add", 2, w2)}

Create == [Op(w1, tk, "accept", "create", 3, w1) EXCEPT !.dist = [None EXCEPT ![w2] = 1]]

Simple(txs) == [type |-> "simple", txs |-> txs]
Forging(txs) == [type |-> "forging", txs |-> txs]
State == [type |-> "state", txs |-> <<>>]

DelegationChains ==
    {<<Simple(<<Grant(w1, 5), x, y>>), Simple(<<z, u>>), State>> :
        x \in Delegations1, y \in Delegations2, z \in Delegations2, u \in Delegations1}

TransferChains ==
    {<<Forging(<<Tx(w0, w2, 2, 0, "forging")>>), Simple(<<Grant(w1, 5), x>>),
       Forging(<<Tx(w0, w1, 3, 0, "forging")>>), Simple(<<y, z>>), State>> :
        x \in {Tx(w1, w1, 1, 1, "accept"), Grant(w2, 5)}, y \in Transfers, z \in Transfers}

TokenChains ==
    {<<Simple(<<Create>>), Simple(<<x, y>>), Simple(<<z>>)>> :
        x \in TokenTxs, y \in TokenTxs, z \in TokenTxs}

MCChains == DelegationChains \cup TransferChains \cup TokenChains

\* The chains are among those that the theorems of Ledger_proofs are about.
ASSUME ChainsAreSound == WellFormed /\ WellMinted /\ WellCreated /\ WellLent
=============================================================================
