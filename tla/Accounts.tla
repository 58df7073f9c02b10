------------------------------ MODULE Accounts ------------------------------
(***************************************************************************)
(* What the main worker promises about balances and delegations: the       *)
(* blocks of the chain take effect one after the other, each as a whole,   *)
(* and inside a block the transactions take effect one after the other.    *)
(* There is no batch, no database key and no counter here: an account has  *)
(* an amount of money modulo the width of the code's integers, and the     *)
(* delegations from one wallet to another are a stack.                     *)
(***************************************************************************)
EXTENDS Integers, Sequences, SequencesExt

CONSTANTS Wallet, Token, Modulus

VARIABLES
    chain,    \* the blocks the network agreed on
    number,   \* the last block that took effect, 0 for none
    money,    \* wallet -> amount it disposes of
    sent,     \* wallet -> number of transactions it sent
    stack,    \* <<from, to>> -> the delegations in force, oldest first
    tokens    \* token -> wallet -> amount of the token

acVars == <<chain, number, money, sent, stack, tokens>>

acState ==
    [money |-> money, sent |-> sent, stack |-> stack, tokens |-> tokens]

Nothing ==
    [money |-> [w \in Wallet |-> 0],
     sent |-> [w \in Wallet |-> 0],
     stack |-> [p \in Wallet \X Wallet |-> <<>>],
     tokens |-> [t \in Token |-> [w \in Wallet |-> 0]]]

Succeeds(tx) == tx.status \notin {"wrongMoney", "wrongData"}

\* What tx adds to the money of w, undelegated being what it takes back.
Gain(tx, w, undelegated) ==
      (IF tx.to = w /\ tx.status # "wrongMoney" THEN tx.value ELSE 0)
    - (IF tx.from = w /\ tx.status # "wrongMoney" THEN tx.value + tx.fee ELSE 0)
    + (IF tx.from = w THEN undelegated ELSE 0)
    - (IF tx.from = w /\ tx.op = "delegate" /\ Succeeds(tx) THEN tx.amount ELSE 0)

\* What tx adds to the amount of its token that w holds.
TokenGain(tx, w) ==
    CASE tx.op = "create" ->
           tx.dist[w] + (IF tx.target = w THEN tx.amount - SumFunction(tx.dist) ELSE 0)
      [] tx.op = "add" -> IF tx.target = w THEN tx.amount ELSE 0
      [] tx.op = "burn" -> IF tx.from = w THEN 0 - tx.amount ELSE 0
      [] tx.op = "move" -> (IF tx.target = w THEN tx.amount ELSE 0)
                         - (IF tx.from = w THEN tx.amount ELSE 0)
      [] OTHER -> 0

\* One transaction.  The latest delegation is the one that is taken back.
Apply(s, tx, id) ==
    LET pair == <<tx.from, tx.to>>
        old == IF pair \in DOMAIN s.stack THEN s.stack[pair] ELSE <<>>
        undelegated == IF tx.op = "undelegate" /\ old # <<>> THEN Last(old).value ELSE 0
        new == CASE tx.op = "delegate" /\ Succeeds(tx) ->
                      Append(old, [value |-> tx.amount, hash |-> id])
                 [] tx.op = "undelegate" /\ old # <<>> -> Front(old)
                 [] OTHER -> old
    IN  IF tx.status = "nodeTest" THEN s
        ELSE [money |-> [w \in Wallet |->
                            (s.money[w] + Gain(tx, w, undelegated)) % Modulus],
              sent |-> [w \in Wallet |->
                            s.sent[w] + (IF tx.from = w THEN 1 ELSE 0)],
              stack |-> [p \in DOMAIN s.stack |-> IF p = pair THEN new ELSE s.stack[p]],
              tokens |-> [t \in Token |-> [w \in Wallet |->
                            IF t = tx.to /\ Succeeds(tx)
                            THEN (s.tokens[t][w] + TokenGain(tx, w)) % Modulus
                            ELSE s.tokens[t][w]]]]

\* The states that block n goes through from the state s, a transaction at a time.
Course(s, n) ==
    LET state[i \in 0..Len(chain[n].txs)] ==
            IF i = 0 THEN s ELSE Apply(state[i - 1], chain[n].txs[i], <<n, i>>)
    IN  state

\* A state block repeats what is known and changes nothing.
ApplyBlock(s, n) ==
    IF chain[n].type = "state" THEN s ELSE Course(s, n)[Len(chain[n].txs)]

\* The state after the first n blocks.
After[n \in 0..Len(chain)] ==
    IF n = 0 THEN Nothing ELSE ApplyBlock(After[n - 1], n)

AcInit ==
    /\ number = 0
    /\ acState = Nothing

\* A block extends the last one, but the first one may be any block.
TakeEffect ==
    \E n \in 1..Len(chain) :
        /\ number \in {0, n - 1}
        /\ number' = n
        /\ acState' = ApplyBlock(acState, n)
        /\ UNCHANGED chain

AcSpec == AcInit /\ [][TakeEffect]_acVars
=============================================================================
