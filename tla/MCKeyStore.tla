----------------------------- MODULE MCKeyStore -----------------------------
(* KeyStore for TLC: two key types, as the DKG script has (ETH and BTC).    *)
EXTENDS KeyStore

CONSTANTS w1, w2, eth1, eth2, btc1, btc2

Keys == {eth1, eth2, btc1, btc2}
TypeOf == [k \in Keys |-> IF k \in {eth1, eth2} THEN "ETH" ELSE "BTC"]
=============================================================================
