------------------------------ MODULE MCHistory -------------------------------
(* History with a token contract, two holders and an account to be created. *)
EXTENDS History

MCSkip == {<<2, "ping">>}
MCAuths == {[keys |-> {"k1"}, accounts |-> {}],
            [keys |-> {"k1", "k2"}, accounts |-> {<<3, "active">>}],
            [keys |-> {}, accounts |-> {<<3, "active">>, <<4, "active">>}]}
MCAbis == {{}, Garbage, {"transfer"}, {"transfer", "accounts"}}
=============================================================================
