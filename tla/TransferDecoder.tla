--------------------------- MODULE TransferDecoder ---------------------------
(***************************************************************************)
(* clients/evm/transfer_decoder.py and EVMAsyncClient._parse_transfer: a   *)
(* transaction of an EVM block read as a transfer.  An input is the        *)
(* sequence of its hexadecimal digits, without the 0x; the widths and the  *)
(* base are parameters.                                                    *)
(***************************************************************************)
EXTENDS Integers, Sequences

CONSTANTS
    Base,           \* of a digit (16)
    SelectorLen,    \* digits of a function's selector (8)
    WordLen,        \* digits of a parameter (64)
    AddressLen,     \* digits of an address (40), the last of its parameter
    TransferFn,     \* selector of transfer(_to, _value)
    TransferFromFn, \* selector of transferFrom(_from, _to, _value)
    ZeroToken       \* token of a native transfer

Digit == 0..(Base - 1)

ASSUME DecoderAssumption ==
    /\ Base \in Nat \ {0, 1} /\ {SelectorLen, WordLen} \subseteq Nat \ {0}
    /\ AddressLen \in 1..WordLen
    /\ {TransferFn, TransferFromFn} \subseteq [1..SelectorLen -> Digit]
    /\ TransferFn # TransferFromFn

\* _parse_abi
function_selectors ==
    [s \in {TransferFn, TransferFromFn} |->
        IF s = TransferFn THEN <<"_to", "_value">> ELSE <<"_from", "_to", "_value">>]

Shorter(m, n) == IF m < n THEN m ELSE n

\* s[i:j]
Slice(s, i, j) == SubSeq(s, i + 1, Shorter(j, Len(s)))

\* s[-n:]
LastDigits(s, n) == SubSeq(s, Len(s) - Shorter(n, Len(s)) + 1, Len(s))

\* int(s, 16), which raises if s is empty.
Number(s) ==
    LET upTo[i \in 0..Len(s)] ==
            IF i = 0 THEN 0 ELSE upTo[i - 1] * Base + s[i]
    IN  upTo[Len(s)]

\* Mutant: the parameters are counted from one.
ParamDataAfter(input, i) ==
    Slice(input, SelectorLen + i * WordLen, SelectorLen + (i + 1) * WordLen)

ParamData(input, i) ==
    Slice(input, SelectorLen + (i - 1) * WordLen, SelectorLen + i * WordLen)

\* to_checksum_address wants all digits, int one.
RaisesValueError(name, data) ==
    IF name = "_value" THEN data = <<>> ELSE Len(data) < AddressLen

decode_transfer_tx(input) ==
    LET selector == Slice(input, 0, SelectorLen)
        names == function_selectors[selector]
    IN  IF selector \notin DOMAIN function_selectors
        THEN [result |-> "NotRecognizedSolidityFuncError"]
        ELSE IF \E i \in DOMAIN names : RaisesValueError(names[i], ParamData(input, i))
        THEN [result |-> "InvalidTxError"]
        ELSE [result |-> "transfer",
              to |-> LastDigits(ParamData(input, Len(names) - 1), AddressLen),
              value |-> Number(ParamData(input, Len(names)))]

\* A transaction is its recipient, its input and its value.
_parse_transfer(tx) ==
    IF tx.input = <<>>
    THEN [result |-> "transfer", token |-> ZeroToken, to |-> tx.to, value |-> tx.value]
    ELSE LET decoded == decode_transfer_tx(tx.input)
         IN  IF decoded.result # "transfer" THEN decoded
             ELSE [result |-> "transfer", token |-> tx.to,
                   to |-> decoded.to, value |-> decoded.value]

-----------------------------------------------------------------------------
(* What the token's contract moves: the input is read as if zeros followed *)
(* it, an address is the end of its word.                                  *)

Called(input) == Slice(input, 0, SelectorLen) \in DOMAIN function_selectors

CallLen(input) ==
    SelectorLen + WordLen * Len(function_selectors[Slice(input, 0, SelectorLen)])

\* Word of the contract's i-th parameter.
WordRead(input, i) ==
    [k \in 1..WordLen |->
        LET at == SelectorLen + (i - 1) * WordLen + k
        IN  IF at \in DOMAIN input THEN input[at] ELSE 0]

AgreesWithChain(input, Allowed(_, _)) ==
    LET decoded == decode_transfer_tx(input)
        last == Len(function_selectors[Slice(input, 0, SelectorLen)])
        word == WordRead(input, last - 1)
    IN  /\ decoded.to = [k \in 1..AddressLen |-> word[WordLen - AddressLen + k]]
        /\ Allowed(decoded.value, Number(WordRead(input, last)))

\* A complete call of transfer or transferFrom, with or without digits behind
\* it, is read as the contract reads it.  One that ends too early is refused,
\* or read as the same recipient and no more than the contract moves.
ReadAsMoved(input) ==
    /\ Called(input) /\ Len(input) >= CallLen(input) =>
           /\ decode_transfer_tx(input).result = "transfer"
           /\ AgreesWithChain(input, LAMBDA read, moved : read = moved)
    /\ decode_transfer_tx(input).result = "transfer" =>
           AgreesWithChain(input, LAMBDA read, moved : read <= moved)
=============================================================================
