----------------------------- MODULE MCTxStatus -----------------------------
(***************************************************************************)
(* Chains of six blocks about one contract: scripts that succeed or fail,  *)
(* two of them in one block, and delegations.                              *)
(***************************************************************************)
EXTENDS TxStatus

CONSTANT c1

Ok(kind) == [kind |-> kind, contract |-> c1, errors |-> {}]
Bad(kind) == [kind |-> kind, contract |-> c1, errors |-> {"script"}]

MCChains ==
    {<<<<Ok("compile"), x>>, <<Ok("delegate"), y>>, <<z>>, <<Ok("run")>>, <<>>,
      <<Ok("run")>>>> :
        <<x, y, z>> \in {<<Ok("run"), Bad("run"), Ok("run")>>,
                         <<Ok("compile"), Ok("run"), Ok("compile")>>,
                         <<Bad("delegate"), Ok("unknown"), Ok("run")>>,
                         <<Bad("delegate"), Ok("run"), Bad("run")>>}}
=============================================================================
