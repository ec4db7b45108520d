--------------------------- MODULE MCAddressBook ---------------------------
(* AddressBook for TLC: two chains' tasks in the observer, one validator.  *)
EXTENDS AddressBook

CONSTANTS evm1, evm2, validate, observer, validator

Tasks == {evm1, evm2, validate}
Processes == {observer, validator}
Homes == [t \in Tasks |-> IF t = validate THEN validator ELSE observer]
=============================================================================
