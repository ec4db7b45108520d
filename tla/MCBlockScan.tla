---------------------------- MODULE MCBlockScan ----------------------------
(* BlockScan for TLC: blocks of one to five transactions on pages of two,   *)
(* the last page full or not; two blocks may share their transactions.  The *)
(* validators also look at an EVM chain: native transfers and inputs of     *)
(* every length, to a digit more than their function's parameters.  Digits  *)
(* are to base 3, a selector is of one, a word of two, an address of one.   *)
EXTENDS BlockScan

CONSTANTS observer, validator, btc, eth, usdc

Transactions == <<"a", "b", "c", "d", "e">>
Others == <<"f", "b", "a">>

Blocks == {SubSeq(Transactions, 1, n) : n \in {1, 2, 4, 5}} \cup {Others}

Ours == {"a", "b", "e"}

SelectorOfTransfer == <<0>>
SelectorOfTransferFrom == <<1>>

Small == <<0, 1, 2, 0, 1, 2, 0>>
Large == <<2, 2, 1, 1, 2, 2, 1>>

EvmInputs ==
    {<<0>> \o SubSeq(Small, 1, n) : n \in 0..5} \cup {<<0>> \o SubSeq(Large, 1, n) : n \in 3..4}
    \cup {<<1>> \o SubSeq(Small, 1, n) : n \in 0..7} \cup {<<1>> \o SubSeq(Large, 1, n) : n \in 5..6}
    \cup {<<2, 0, 1, 0, 1>>}

EvmTransactions ==
    {[to |-> usdc, input |-> input, value |-> 1] : input \in EvmInputs}
    \cup {[to |-> <<1>>, input |-> <<>>, value |-> 1]}
=============================================================================
