--------------------------- MODULE MCBtcDeposits ---------------------------
(* BtcDeposits for TLC: two outputs of one transaction, one of another. *)
EXTENDS BtcDeposits

CONSTANTS tx1, tx2

Txs == {tx1, tx2}
Outputs == 1..3
TwoOfOne == <<tx1, tx1, tx2>>
=============================================================================
