----------------------------- MODULE TokenCache -----------------------------
(***************************************************************************)
(* explorer.get_token_decimals over db/token.py: the decimals of a token   *)
(* of a chain are read from the collection; if they are not there they are *)
(* asked of the client and inserted.  The observer and the validators'     *)
(* workers do so at once, and the three calls are awaited one after the    *)
(* other, so two of them can insert the same token: its unique index       *)
(* refuses the second.  BlockScan composes it with the observer's scan.    *)
(***************************************************************************)
EXTENDS Integers

CONSTANTS
    Caller,      \* processes that look at transfers
    Token,       \* keys of the collection: a chain and a token of it
    NoToken,
    MaxFaults    \* bound: lookups in which a call raises

ASSUME CacheAssumption == NoToken \notin Token /\ MaxFaults \in Nat

VARIABLES
    known,       \* tokens in the collection
    want,        \* token each caller is at, NoToken between two
    lookup,      \* "idle", "find", "ask" or "insert"
    refused,     \* history: <<caller, token>> -> inserts the index refused
    callFaults

tokenVars == <<known, want, lookup, refused, callFaults>>

TokenTypeOK ==
    /\ known \in SUBSET Token
    /\ want \in [Caller -> Token \cup {NoToken}]
    /\ lookup \in [Caller -> {"idle", "find", "ask", "insert"}]
    /\ refused \in [Caller -> [Token -> Nat]]
    /\ callFaults \in 0..MaxFaults
    /\ \A c \in Caller : lookup[c] = "idle" <=> want[c] = NoToken

TokenInit ==
    /\ known = {}
    /\ want = [c \in Caller |-> NoToken]
    /\ lookup = [c \in Caller |-> "idle"]
    /\ refused = [c \in Caller |-> [t \in Token |-> 0]]
    /\ callFaults = 0

Goto(c, label) == lookup' = [lookup EXCEPT ![c] = label]

Done(c) == Goto(c, "idle") /\ want' = [want EXCEPT ![c] = NoToken]

-----------------------------------------------------------------------------
\* A transfer of the token to a deposit address.
Start(c, t) ==
    /\ lookup[c] = "idle"
    /\ want' = [want EXCEPT ![c] = t]
    /\ Goto(c, "find")
    /\ UNCHANGED <<known, refused, callFaults>>

\* get_decimals finds the token.
Hit(c) ==
    /\ lookup[c] = "find" /\ want[c] \in known
    /\ Done(c)
    /\ UNCHANGED <<known, refused, callFaults>>

\* Mutant: the collection is not looked at.
MissAlways(c) ==
    /\ lookup[c] = "find" /\ Goto(c, "ask")
    /\ UNCHANGED <<known, want, refused, callFaults>>

\* get_decimals does not find it.
Miss(c) ==
    /\ lookup[c] = "find" /\ want[c] \notin known
    /\ Goto(c, "ask")
    /\ UNCHANGED <<known, want, refused, callFaults>>

\* client.get_token_decimals
Ask(c) ==
    /\ lookup[c] = "ask" /\ Goto(c, "insert")
    /\ UNCHANGED <<known, want, refused, callFaults>>

\* insert_token, and the return.
Insert(c) ==
    /\ lookup[c] = "insert" /\ want[c] \notin known
    /\ known' = known \cup {want[c]}
    /\ Done(c)
    /\ UNCHANGED <<refused, callFaults>>

\* insert_one raises DuplicateKeyError.
InsertRefused(c) ==
    /\ lookup[c] = "insert" /\ want[c] \in known
    /\ refused' = [refused EXCEPT ![c][want[c]] = @ + 1]
    /\ Done(c)
    /\ UNCHANGED <<known, callFaults>>

\* A call raises.
CallFails(c) ==
    /\ lookup[c] # "idle" /\ callFaults < MaxFaults
    /\ callFaults' = callFaults + 1
    /\ Done(c)
    /\ UNCHANGED <<known, refused>>
=============================================================================
