----------------------------- MODULE ScanProofs -----------------------------
(***************************************************************************)
(* Proofs about BlockScan, for every number of callers and tokens, every   *)
(* length of blocks, pages and inputs: the race on the token collection    *)
(* costs a caller one failure per token, a scan whose pages are of one     *)
(* block returns that block's transactions, and an input is read as the    *)
(* token's contract reads it.                                              *)
(***************************************************************************)
EXTENDS BlockScan, FiniteSetTheorems, SequenceTheorems, WellFoundedInduction, TLAPS

LookupTypeOK ==
    /\ want \in [Caller -> Token \cup {NoToken}]
    /\ lookup \in [Caller -> {"idle", "find", "ask", "insert"}]
    /\ refused \in [Caller -> [Token -> Nat]]
    /\ \A c \in Caller : lookup[c] # "idle" => want[c] \in Token

\* A token that refused a caller is in the collection, and a caller that asks
\* for a token or inserts it was not refused it before.
RefusedInv ==
    \A c \in Caller :
        /\ \A t \in Token : refused[c][t] <= 1 /\ (refused[c][t] = 1 => t \in known)
        /\ lookup[c] \in {"ask", "insert"} => refused[c][want[c]] = 0

IInv == LookupTypeOK /\ RefusedInv

LEMMA InitInv == Init => IInv
  BY CacheAssumption
  DEF Init, TokenInit, IInv, LookupTypeOK, RefusedInv

LEMMA StartInv ==
    ASSUME IInv, NEW c \in Caller, NEW t \in Token, Start(c, t)
    PROVE  IInv'
  BY DEF Start, Goto, IInv, LookupTypeOK, RefusedInv

LEMMA LookupInv ==
    ASSUME IInv, NEW c \in Caller,
           \/ Hit(c) \/ Miss(c) \/ Ask(c) \/ Insert(c)
           \/ InsertRefused(c) \/ CallFails(c)
    PROVE  IInv'
<1> USE CacheAssumption DEF IInv, LookupTypeOK, RefusedInv, Goto, Done
<1>1. CASE Hit(c)
  BY <1>1 DEF Hit
<1>2. CASE Miss(c)
  <2>1. want[c] \in Token /\ want[c] \notin known
    BY <1>2 DEF Miss
  <2>2. refused[c][want[c]] = 0
    <3>1. refused[c][want[c]] \in Nat
      BY <2>1
    <3>2. \A t \in Token : refused[c][t] <= 1 /\ (refused[c][t] = 1 => t \in known)
      OBVIOUS
    <3>3. refused[c][want[c]] <= 1 /\ refused[c][want[c]] # 1
      BY <2>1, <3>2
    <3>4. \A n \in Nat : n <= 1 /\ n # 1 => n = 0
      OBVIOUS
    <3> HIDE DEF IInv, LookupTypeOK, RefusedInv
    <3> QED
      BY <3>1, <3>3, <3>4
  <2>3. refused' = refused /\ want' = want /\ known' = known
    BY <1>2 DEF Miss
  <2>4. lookup' = [lookup EXCEPT ![c] = "ask"]
    BY <1>2 DEF Miss
  <2>5. LookupTypeOK'
    BY <2>1, <2>3, <2>4
  <2>6. ASSUME NEW d \in Caller, lookup'[d] \in {"ask", "insert"}
        PROVE  refused'[d][want'[d]] = 0
    BY <2>2, <2>3, <2>4, <2>6
  <2> QED
    BY <2>3, <2>5, <2>6
<1>3. CASE Ask(c)
  BY <1>3 DEF Ask
<1>4. CASE Insert(c)
  BY <1>4 DEF Insert
<1>5. CASE InsertRefused(c)
  <2>1. want[c] \in Token /\ want[c] \in known /\ refused[c][want[c]] = 0
    BY <1>5 DEF InsertRefused
  <2>2. refused' = [refused EXCEPT ![c][want[c]] = 1]
    BY <1>5, <2>1 DEF InsertRefused
  <2> QED
    BY <1>5, <2>1, <2>2 DEF InsertRefused
<1>6. CASE CallFails(c)
  BY <1>6 DEF CallFails
<1> QED
  BY <1>1, <1>2, <1>3, <1>4, <1>5, <1>6

\* What a step of the system is to the cache.
CacheStep ==
    \/ UNCHANGED tokenVars
    \/ \E c \in Caller, t \in Token : Start(c, t)
    \/ \E c \in Caller : \/ Hit(c) \/ Miss(c) \/ Ask(c) \/ Insert(c)
                         \/ InsertRefused(c) \/ CallFails(c)

LEMMA StepOfCache ==
    ASSUME [Next]_vars
    PROVE  CacheStep
<1>1. CASE ScanBegin \/ ScanRead \/ ScanReadRaises \/ ScanSkip \/ BlockReplaced \/ UNCHANGED vars
  BY <1>1
  DEF ScanBegin, ScanRead, ScanReadRaises, ScanSkip, BlockReplaced, vars, CacheStep
<1>2. CASE ScanLookUp \/ ScanAsks \/ ScanAccepts \/ ScanRaises
  BY <1>2, ScanAssumption DEF ScanLookUp, ScanAsks, ScanAccepts, ScanRaises, CacheStep
<1>3. ASSUME NEW c \in Caller, ValidateEvm(c)
      PROVE  CacheStep
  <2>1. PICK tx \in EvmTx :
          IF EvmTransfer[tx].result = "transfer" THEN Start(c, EvmTransfer[tx].token)
          ELSE UNCHANGED tokenVars
    BY <1>3 DEF ValidateEvm
  <2>2. EvmTransfer[tx].result = "transfer" => EvmTransfer[tx].token \in Token
    BY ScanAssumption DEF EvmTransfer
  <2> QED
    BY <2>1, <2>2 DEF CacheStep
<1>4. ASSUME NEW c \in Caller, ValidateToken(c)
      PROVE  CacheStep
  BY <1>4, ScanAssumption DEF ValidateToken, CacheStep
<1> QED
  BY <1>1, <1>2, <1>3, <1>4 DEF Next, ScanWork, Validate

LEMMA Inductive == IInv /\ [Next]_vars => IInv'
<1> SUFFICES ASSUME IInv, CacheStep PROVE IInv'
  BY StepOfCache
<1>1. CASE UNCHANGED tokenVars
  BY <1>1 DEF tokenVars, IInv, LookupTypeOK, RefusedInv
<1> QED
  BY <1>1, StartInv, LookupInv DEF CacheStep

LEMMA Invariance == Spec => []IInv
  BY InitInv, Inductive, PTL DEF Spec

\* DuplicateKeyError meets a caller at most once per token (get_token_decimals,
\* insert_token).
THEOREM RefusedAtMostOnce == Spec => []RefusedOncePerToken
<1>1. IInv => RefusedOncePerToken
  BY DEF IInv, RefusedInv, RefusedOncePerToken
<1> QED BY <1>1, Invariance, PTL

-----------------------------------------------------------------------------
(* Recursion along a sequence. *)

\* Induction, as a statement about sets.
LEMMA SetInduction ==
    ASSUME NEW T, 0 \in T, \A n \in Nat : n \in T => n + 1 \in T
    PROVE  Nat \subseteq T
<1> SUFFICES ASSUME Nat \ T # {} PROVE FALSE
  OBVIOUS
<1> DEFINE R == OpToRel(<, Nat)
<1>1. IsWellFoundedOn(R, Nat)
  BY NatLessThanWellFounded
<1>2. Nat \ T \subseteq Nat
  OBVIOUS
<1>3. PICK n \in Nat \ T : \A m \in Nat \ T : ~(<<m, n>> \in R)
  <2> HIDE DEF R
  <2> QED BY <1>1, <1>2, WFMin
<1>4. \A m \in Nat \ T : ~(m < n)
  BY <1>3 DEF OpToRel
<1>5. n - 1 \in Nat /\ n - 1 < n /\ (n - 1) + 1 = n
  OBVIOUS
<1> QED BY <1>4, <1>5

\* From one index to the next, op makes a value of the one before.
IsRecursion(f, V, base, len, op) ==
    /\ f \in [0..len -> V]
    /\ f[0] = base /\ \A i \in 1..len : f[i] = op[<<f[i - 1], i>>]

\* There are such values for any length.
LEMMA RecursionExists ==
    ASSUME NEW V, NEW base \in V, NEW len \in Nat,
           NEW op, \A v \in V, i \in 1..len : op[<<v, i>>] \in V
    PROVE  \E f : IsRecursion(f, V, base, len, op)
<1> DEFINE P(f, n) == \A i \in 0..len : i <= n =>
                        f[i] = IF i = 0 THEN base ELSE op[<<f[i - 1], i>>]
           T == {n \in Nat : \E f \in [0..len -> V] : P(f, n)}
<1>1. 0 \in T
  <2>1. P([i \in 0..len |-> base], 0)
    OBVIOUS
  <2>2. [i \in 0..len |-> base] \in [0..len -> V]
    OBVIOUS
  <2> QED BY <2>1, <2>2
<1>2. ASSUME NEW n \in Nat, n \in T PROVE n + 1 \in T
  <2>1. PICK f \in [0..len -> V] : P(f, n)
    BY <1>2
  <2> DEFINE h == [i \in 0..len |-> IF i = 0 THEN base ELSE op[<<f[i - 1], i>>]]
  <2>2. h \in [0..len -> V]
    <3> SUFFICES ASSUME NEW i \in 0..len, i # 0 PROVE op[<<f[i - 1], i>>] \in V
      OBVIOUS
    <3>1. f[i - 1] \in V /\ i \in 1..len
      OBVIOUS
    <3> QED BY <3>1
  <2>3. ASSUME NEW i \in 0..len, i <= n + 1
        PROVE  h[i] = IF i = 0 THEN base ELSE op[<<h[i - 1], i>>]
    <3>1. CASE i = 0
      BY <3>1
    <3>2. CASE i # 0
      <4>1. i - 1 \in 0..len /\ i - 1 <= n
        BY <2>3, <3>2
      <4>2. h[i - 1] = f[i - 1]
        BY <2>1, <4>1
      <4> QED BY <3>2, <4>2
    <3> QED BY <3>1, <3>2
  <2>4. P(h, n + 1)
    BY <2>3
  <2> HIDE DEF h
  <2> QED BY <2>2, <2>4
<1>3. len \in T
  <2> HIDE DEF T
  <2> QED BY <1>1, <1>2, SetInduction
<1>4. PICK f \in [0..len -> V] : P(f, len)
  BY <1>3
<1>5. f[0] = base /\ \A i \in 1..len : f[i] = op[<<f[i - 1], i>>]
  <2>1. \A i \in 0..len : f[i] = IF i = 0 THEN base ELSE op[<<f[i - 1], i>>]
    BY <1>4
  <2>2. 0 \in 0..len /\ \A i \in 1..len : i \in 0..len /\ i # 0
    OBVIOUS
  <2> QED BY <2>1, <2>2
<1> QED BY <1>5 DEF IsRecursion

IsNumber(f, s) ==
    f = [i \in 0..Len(s) |-> IF i = 0 THEN 0 ELSE f[i - 1] * Base + s[i]]

NumberAt(s) == CHOOSE f : IsNumber(f, s)

LEMMA Digits == Base \in Nat \ {0} /\ Digit \subseteq Nat
  BY DecoderAssumption DEF Digit

\* The number of the first digits, for each number of them.
LEMMA NumberDef ==
    ASSUME NEW s \in Seq(Digit)
    PROVE  /\ Number(s) = NumberAt(s)[Len(s)]
           /\ NumberAt(s)[0] = 0
           /\ \A i \in 1..Len(s) : NumberAt(s)[i] = NumberAt(s)[i - 1] * Base + s[i]
           /\ \A i \in 0..Len(s) : NumberAt(s)[i] \in Nat
<1> DEFINE len == Len(s)
           op == [p \in Nat \X (1..len) |-> p[1] * Base + s[p[2]]]
           f == NumberAt(s)
<1>1. len \in Nat /\ \A i \in 1..len : s[i] \in Nat
  BY Digits, LenProperties
<1>2. \A n \in Nat, i \in 1..len : op[<<n, i>>] \in Nat
  <2> TAKE n \in Nat, i \in 1..len
  <2>1. op[<<n, i>>] = n * Base + s[i]
    OBVIOUS
  <2>2. n * Base \in Nat /\ s[i] \in Nat
    BY <1>1, Digits
  <2> QED BY <2>1, <2>2
<1>3. \E g : IsNumber(g, s)
  <2> HIDE DEF op, len
  <2>0. PICK g : IsRecursion(g, Nat, 0, len, op)
    BY <1>1, <1>2, RecursionExists
  <2>1. /\ g \in [0..len -> Nat] /\ g[0] = 0
        /\ \A i \in 1..len : g[i] = op[<<g[i - 1], i>>]
    BY <2>0 DEF IsRecursion
  <2>2. ASSUME NEW i \in 0..len, i # 0
        PROVE  op[<<g[i - 1], i>>] = g[i - 1] * Base + s[i]
    <3>1. g[i - 1] \in Nat /\ i \in 1..len
      BY <1>1, <2>1, <2>2
    <3> QED BY <3>1 DEF op
  <2>3. g = [i \in 0..len |-> IF i = 0 THEN 0 ELSE g[i - 1] * Base + s[i]]
    <3>1. \A i \in 0..len : g[i] = IF i = 0 THEN 0 ELSE g[i - 1] * Base + s[i]
      <4> TAKE i \in 0..len
      <4>1. i # 0 => i \in 1..len
        BY <1>1
      <4> QED BY <2>1, <2>2, <4>1
    <3> QED BY <2>1, <3>1
  <2> QED BY <2>3 DEF IsNumber, len
<1>4. IsNumber(f, s)
  BY <1>3 DEF NumberAt
<1>5. f[0] = 0 /\ \A i \in 1..len : f[i] = f[i - 1] * Base + s[i]
  BY <1>1, <1>4 DEF IsNumber
<1>6. Number(s) = f[len]
  BY DEF Number, NumberAt, IsNumber
<1>7. ASSUME NEW n \in Nat, n \in 0..len => f[n] \in Nat, n + 1 \in 0..len
      PROVE  f[n + 1] \in Nat
  <2>1. n \in 0..len /\ n + 1 \in 1..len /\ (n + 1) - 1 = n
    BY <1>1, <1>7
  <2>2. f[n + 1] = f[n] * Base + s[n + 1]
    BY <1>5, <2>1
  <2> HIDE DEF f, len
  <2>3. f[n] \in Nat /\ s[n + 1] \in Nat /\ Base \in Nat
    BY <1>1, <1>7, <2>1, Digits
  <2>4. f[n] * Base \in Nat
    BY <2>3
  <2> QED BY <2>2, <2>3, <2>4
<1>8. \A n \in Nat : n \in 0..len => f[n] \in Nat
  <2> DEFINE T == {n \in Nat : n \in 0..len => f[n] \in Nat}
  <2>1. 0 \in T
    BY <1>5
  <2>2. \A n \in Nat : n \in T => n + 1 \in T
    BY <1>7
  <2> HIDE DEF T
  <2>3. Nat \subseteq T
    BY <2>1, <2>2, SetInduction
  <2> QED BY <2>3 DEF T
<1> QED BY <1>1, <1>5, <1>6, <1>8

LEMMA TimesGrows ==
    ASSUME NEW m \in Nat, NEW n \in Nat \ {0}
    PROVE  m <= m * n
<1>1. n - 1 \in Nat /\ m * n = m + m * (n - 1)
  OBVIOUS
<1>2. m * (n - 1) \in Nat
  BY <1>1
<1> QED BY <1>1, <1>2

\* A number is not less than that of its first digits.
LEMMA NumberOfPrefix ==
    ASSUME NEW s \in Seq(Digit), NEW w \in Seq(Digit), Len(s) <= Len(w),
           \A i \in 1..Len(s) : s[i] = w[i]
    PROVE  Number(s) <= Number(w)
<1> DEFINE f == NumberAt(s)
           g == NumberAt(w)
<1>1. Len(s) \in Nat /\ Len(w) \in Nat /\ \A i \in 1..Len(w) : w[i] \in Nat
  BY Digits, LenProperties
<1>2. \A n \in Nat : n <= Len(s) => f[n] = g[n]
  <2> DEFINE T == {n \in Nat : n <= Len(s) => f[n] = g[n]}
  <2>1. 0 \in T
    BY NumberDef
  <2>2. ASSUME NEW n \in Nat, n \in T, n + 1 <= Len(s) PROVE f[n + 1] = g[n + 1]
    <3>1. n + 1 \in 1..Len(s) /\ n + 1 \in 1..Len(w) /\ (n + 1) - 1 = n /\ n <= Len(s)
      BY <1>1, <2>2
    <3>2. f[n + 1] = f[n] * Base + s[n + 1] /\ g[n + 1] = g[n] * Base + w[n + 1]
      BY <3>1, NumberDef
    <3> QED BY <2>2, <3>1, <3>2
  <2>3. \A n \in Nat : n \in T => n + 1 \in T
    BY <2>2
  <2> HIDE DEF T
  <2>4. Nat \subseteq T
    BY <2>1, <2>3, SetInduction
  <2> QED BY <2>4 DEF T
<1>3. \A n \in Nat : Len(s) + n <= Len(w) => g[Len(s)] <= g[Len(s) + n]
  <2> DEFINE T == {n \in Nat : Len(s) + n <= Len(w) => g[Len(s)] <= g[Len(s) + n]}
  <2>1. 0 \in T
    <3>1. g[Len(s)] \in Nat /\ Len(s) + 0 = Len(s)
      BY <1>1, NumberDef
    <3> QED BY <3>1
  <2>2. ASSUME NEW n \in Nat, n \in T, Len(s) + (n + 1) <= Len(w)
        PROVE  g[Len(s)] <= g[Len(s) + (n + 1)]
    <3> DEFINE k == Len(s) + n
    <3>1. k \in 0..Len(w) /\ k + 1 \in 1..Len(w) /\ (k + 1) - 1 = k
          /\ Len(s) + (n + 1) = k + 1 /\ Len(s) \in 0..Len(w)
      BY <1>1, <2>2
    <3>2. /\ g[k + 1] = g[k] * Base + w[k + 1] /\ w[k + 1] \in Nat
          /\ g[k] \in Nat /\ g[Len(s)] \in Nat
      BY <1>1, <3>1, NumberDef
    <3>3. g[Len(s)] <= g[k]
      BY <1>1, <2>2, <3>1
    <3> HIDE DEF k, g
    <3>4. g[k] <= g[k] * Base
      BY <3>2, Digits, TimesGrows
    <3>5. g[k] * Base \in Nat
      BY <3>2, Digits
    <3> QED BY <3>1, <3>2, <3>3, <3>4, <3>5
  <2>3. \A n \in Nat : n \in T => n + 1 \in T
    BY <2>2
  <2> HIDE DEF T
  <2>4. Nat \subseteq T
    BY <2>1, <2>3, SetInduction
  <2> QED BY <2>4 DEF T
<1>4. Len(w) - Len(s) \in Nat /\ Len(s) + (Len(w) - Len(s)) = Len(w)
  BY <1>1
<1>5. g[Len(s)] <= g[Len(w)] /\ f[Len(s)] = g[Len(s)]
  <2> HIDE DEF f, g
  <2>1. f[Len(s)] = g[Len(s)]
    BY <1>1, <1>2
  <2>2. Len(s) + (Len(w) - Len(s)) <= Len(w)
    BY <1>1
  <2>3. g[Len(s)] <= g[Len(s) + (Len(w) - Len(s))]
    BY <1>3, <1>4, <2>2
  <2> QED BY <1>4, <2>1, <2>3
<1>6. Number(s) = f[Len(s)] /\ Number(w) = g[Len(w)]
  BY NumberDef
<1> QED BY <1>5, <1>6

IsOurs(f, b) ==
    f = [i \in 0..Len(b) |->
            IF i = 0 THEN <<>>
            ELSE IF b[i] \in Accounts THEN Append(f[i - 1], b[i]) ELSE f[i - 1]]

OursAt(b) == CHOOSE f : IsOurs(f, b)

\* The transactions to deposit addresses among the first ones, for each
\* number of them.
LEMMA OursDef ==
    ASSUME NEW S, NEW b \in Seq(S)
    PROVE  /\ OurTxs(b) = OursAt(b)[Len(b)]
           /\ OursAt(b)[0] = <<>>
           /\ \A i \in 1..Len(b) :
                OursAt(b)[i] = IF b[i] \in Accounts THEN Append(OursAt(b)[i - 1], b[i])
                               ELSE OursAt(b)[i - 1]
<1> DEFINE len == Len(b)
           V == Seq(S)
           op == [p \in V \X (1..len) |->
                    IF b[p[2]] \in Accounts THEN Append(p[1], b[p[2]]) ELSE p[1]]
           f == OursAt(b)
<1>1. len \in Nat /\ \A i \in 1..len : b[i] \in S
  BY LenProperties
<1>2. \A v \in V, i \in 1..len :
        /\ op[<<v, i>>] = IF b[i] \in Accounts THEN Append(v, b[i]) ELSE v
        /\ op[<<v, i>>] \in V
  <2> TAKE v \in V, i \in 1..len
  <2>1. op[<<v, i>>] = IF b[i] \in Accounts THEN Append(v, b[i]) ELSE v
    OBVIOUS
  <2>2. Append(v, b[i]) \in V
    BY <1>1, AppendProperties
  <2> QED BY <2>1, <2>2
<1>3. \E g : IsOurs(g, b)
  <2> HIDE DEF op, len, V
  <2>0. <<>> \in V
    BY EmptySeq DEF V
  <2>1. PICK g : IsRecursion(g, V, <<>>, len, op)
    BY <1>1, <1>2, <2>0, RecursionExists
  <2>2. /\ g \in [0..len -> V] /\ g[0] = <<>>
        /\ \A i \in 1..len : g[i] = op[<<g[i - 1], i>>]
    BY <2>1 DEF IsRecursion
  <2>3. \A i \in 1..len : g[i - 1] \in V
    BY <1>1, <2>2
  <2>4. \A i \in 0..len :
          g[i] = IF i = 0 THEN <<>>
                 ELSE IF b[i] \in Accounts THEN Append(g[i - 1], b[i]) ELSE g[i - 1]
    <3> TAKE i \in 0..len
    <3>1. i # 0 => i \in 1..len
      BY <1>1
    <3> QED BY <1>2, <2>2, <2>3, <3>1
  <2>5. g = [i \in 0..len |->
               IF i = 0 THEN <<>>
               ELSE IF b[i] \in Accounts THEN Append(g[i - 1], b[i]) ELSE g[i - 1]]
    BY <2>2, <2>4
  <2> QED BY <2>5 DEF IsOurs, len
<1>4. IsOurs(f, b)
  BY <1>3 DEF OursAt
<1>5. f[0] = <<>> /\ \A i \in 1..len :
        f[i] = IF b[i] \in Accounts THEN Append(f[i - 1], b[i]) ELSE f[i - 1]
  <2> HIDE DEF f, op, V
  <2>1. f = [i \in 0..len |->
               IF i = 0 THEN <<>>
               ELSE IF b[i] \in Accounts THEN Append(f[i - 1], b[i]) ELSE f[i - 1]]
    BY <1>4 DEF IsOurs
  <2> HIDE DEF len
  <2>2. 0 \in 0..len /\ \A i \in 1..len : i \in 0..len /\ i # 0
    BY <1>1
  <2> QED BY <2>1, <2>2
<1>6. OurTxs(b) = f[len]
  BY DEF OurTxs, OursAt, IsOurs
<1> QED BY <1>5, <1>6

LEMMA OursOfEmpty == OurTxs(<<>>) = <<>>
<1>1. <<>> \in Seq(STRING) /\ Len(<<>>) = 0
  BY EmptySeq
<1> QED BY <1>1, OursDef

\* One transaction more.
LEMMA OursGrows ==
    ASSUME NEW S, NEW b \in Seq(S), NEW e \in S
    PROVE  OurTxs(Append(b, e)) =
             IF e \in Accounts THEN Append(OurTxs(b), e) ELSE OurTxs(b)
<1> DEFINE c == Append(b, e)
           f == OursAt(b)
           g == OursAt(c)
<1>1. /\ c \in Seq(S) /\ Len(c) = Len(b) + 1 /\ c[Len(b) + 1] = e
      /\ Len(b) \in Nat /\ \A i \in 1..Len(b) : c[i] = b[i]
  BY AppendProperties, LenProperties
<1> HIDE DEF c
<1>2. \A n \in Nat : n <= Len(b) => f[n] = g[n]
  <2> DEFINE T == {n \in Nat : n <= Len(b) => f[n] = g[n]}
  <2>1. 0 \in T
    BY <1>1, OursDef
  <2>2. ASSUME NEW n \in Nat, n \in T, n + 1 <= Len(b) PROVE f[n + 1] = g[n + 1]
    <3>1. n + 1 \in 1..Len(b) /\ n + 1 \in 1..Len(c) /\ (n + 1) - 1 = n /\ n <= Len(b)
      BY <1>1, <2>2
    <3>2. /\ f[n + 1] = IF b[n + 1] \in Accounts THEN Append(f[n], b[n + 1]) ELSE f[n]
          /\ g[n + 1] = IF c[n + 1] \in Accounts THEN Append(g[n], c[n + 1]) ELSE g[n]
      BY <1>1, <3>1, OursDef
    <3> QED BY <1>1, <2>2, <3>1, <3>2
  <2>3. \A n \in Nat : n \in T => n + 1 \in T
    BY <2>2
  <2> HIDE DEF T
  <2>4. Nat \subseteq T
    BY <2>1, <2>3, SetInduction
  <2> QED BY <2>4 DEF T
<1>3. f[Len(b)] = g[Len(b)]
  BY <1>1, <1>2
<1>4. g[Len(b) + 1] = IF e \in Accounts THEN Append(g[Len(b)], e) ELSE g[Len(b)]
  <2>1. Len(b) + 1 \in 1..Len(c) /\ (Len(b) + 1) - 1 = Len(b)
    BY <1>1
  <2> QED BY <1>1, <2>1, OursDef
<1>5. OurTxs(b) = f[Len(b)] /\ OurTxs(c) = g[Len(b) + 1]
  BY <1>1, OursDef
<1> QED BY <1>3, <1>4, <1>5 DEF c

-----------------------------------------------------------------------------
(* The pages of a block. *)

LEMMA TimesMonotone ==
    ASSUME NEW m \in Nat, NEW n \in Nat, NEW p \in Nat, m <= n
    PROVE  m * p <= n * p
<1>1. n - m \in Nat /\ n * p = m * p + (n - m) * p
  OBVIOUS
<1>2. (n - m) * p \in Nat /\ m * p \in Nat
  BY <1>1
<1> QED BY <1>1, <1>2

\* The last page ends with the block, the one before it earlier.
LEMMA TotalPagesIs ==
    ASSUME NEW b, Len(b) \in Nat \ {0}
    PROVE  /\ TotalPages(b) \in Nat \ {0}
           /\ (TotalPages(b) - 1) * PageSize < Len(b)
           /\ Len(b) <= TotalPages(b) * PageSize
<1> DEFINE a == Len(b) + PageSize - 1
           t == TotalPages(b)
<1>1. PageSize \in Nat \ {0} /\ a \in Nat /\ a >= PageSize
  BY PagesAssumption
<1>2. t = a \div PageSize
  BY DEF TotalPages
<1>3. t \in Int /\ t * PageSize <= a /\ a < (t + 1) * PageSize
  <2> HIDE DEF a, t
  <2> QED BY <1>1, <1>2
<1>4. (t + 1) * PageSize = t * PageSize + PageSize /\ (t - 1) * PageSize = t * PageSize - PageSize
  BY <1>1, <1>3
<1>5. t >= 1
  <2> SUFFICES ASSUME t <= 0 PROVE FALSE
    BY <1>3
  <2>1. -t \in Nat /\ t * PageSize = -((-t) * PageSize) /\ (-t) * PageSize \in Nat
    BY <1>1, <1>3
  <2>2. t * PageSize <= 0 /\ t * PageSize \in Int
    BY <2>1
  <2>3. a < PageSize
    <3> HIDE DEF a, t
    <3> QED BY <1>1, <1>3, <1>4, <2>2
  <2> QED BY <1>1, <2>3
<1>6. t * PageSize \in Int
  BY <1>1, <1>3
<1>7. t * PageSize <= Len(b) + PageSize - 1 /\ Len(b) + PageSize - 1 < t * PageSize + PageSize
  BY <1>3, <1>4
<1>8. t * PageSize - PageSize < Len(b) /\ Len(b) <= t * PageSize
  <2> HIDE DEF t
  <2> QED BY <1>1, <1>6, <1>7
<1> QED BY <1>3, <1>4, <1>5, <1>8

\* A page that begins before the block's end is the part of the block it says.
LEMMA PageIs ==
    ASSUME NEW b, Len(b) \in Nat \ {0},
           NEW n \in Nat \ {0}, (n - 1) * PageSize < Len(b)
    PROVE  /\ (n - 1) * PageSize \in Nat /\ n * PageSize \in Nat
           /\ (n - 1) * PageSize <= n * PageSize
           /\ IF LastPage(b, n)
              THEN PageOf(b, n) = SubSeq(b, (n - 1) * PageSize + 1, Len(b))
              ELSE /\ n * PageSize < Len(b)
                   /\ PageOf(b, n) = SubSeq(b, (n - 1) * PageSize + 1, n * PageSize)
<1> DEFINE t == TotalPages(b)
<1>1. PageSize \in Nat \ {0}
  BY PagesAssumption
<1>2. t \in Nat \ {0} /\ (t - 1) * PageSize < Len(b) /\ Len(b) <= t * PageSize
  BY TotalPagesIs
<1> HIDE DEF t
<1>3. /\ (n - 1) * PageSize \in Nat /\ n * PageSize \in Nat
      /\ n * PageSize = (n - 1) * PageSize + PageSize
      /\ t * PageSize \in Nat /\ (t - 1) * PageSize \in Nat
  BY <1>1, <1>2
<1>4. n <= t
  <2> SUFFICES ASSUME t <= n - 1 PROVE FALSE
    BY <1>2
  <2>1. t * PageSize <= (n - 1) * PageSize
    BY <1>1, <1>2, TimesMonotone
  <2> QED BY <1>2, <1>3, <2>1
<1>5. Smaller(n, t) = n
  BY <1>2, <1>4 DEF Smaller
<1>6. PageOf(b, n) = SubSeq(b, (n - 1) * PageSize + 1, Smaller(n * PageSize, Len(b)))
  BY <1>5 DEF PageOf, t
<1>7. CASE n >= t
  <2>1. n = t
    BY <1>2, <1>4, <1>7
  <2>2. Smaller(n * PageSize, Len(b)) = Len(b)
    BY <1>2, <1>3, <2>1 DEF Smaller
  <2> QED BY <1>1, <1>3, <1>6, <1>7, <2>2 DEF LastPage, t
<1>8. CASE ~(n >= t)
  <2>1. n <= t - 1 /\ t - 1 \in Nat
    BY <1>2, <1>8
  <2>2. n * PageSize <= (t - 1) * PageSize
    BY <1>1, <2>1, TimesMonotone
  <2>3. n * PageSize < Len(b)
    BY <1>2, <1>3, <2>2
  <2>4. Smaller(n * PageSize, Len(b)) = n * PageSize
    BY <2>3 DEF Smaller
  <2> QED BY <1>1, <1>3, <1>6, <1>8, <2>3, <2>4 DEF LastPage, t
<1> QED BY <1>7, <1>8

\* What of block b the read and the walk have behind them, as long as all
\* pages were of it.
ReadSoFar(b) ==
    /\ (page - 1) * PageSize < Len(b)
    /\ allTxs = SubSeq(b, 1, (page - 1) * PageSize)

WalkedSoFar(b) ==
    \E k \in 0..Len(b) :
        /\ todo = SubSeq(b, k + 1, Len(b))
        /\ accepted = OurTxs(SubSeq(b, 1, k))

PagesInv ==
    /\ IsFiniteSet(seen)
    /\ readPc = "read" =>
           /\ todo = <<>> /\ accepted = <<>>
           /\ seen = {} => page = 1 /\ allTxs = <<>>
           /\ \A b \in Block : seen = {b} => ReadSoFar(b)
    /\ readPc = "done" => \A b \in Block : seen = {b} => WalkedSoFar(b)
    /\ lookup[Observer] # "idle" => Head(todo) \in Accounts

ScanInv == TypeOK /\ PagesInv

LEMMA PageType ==
    ASSUME NEW S, NEW b \in Seq(S), b # <<>>, NEW n \in Nat \ {0}
    PROVE  PageOf(b, n) \in Seq(S)
<1> DEFINE t == TotalPages(b)
           k == Smaller(n, t)
           from == (k - 1) * PageSize + 1
           to == Smaller(k * PageSize, Len(b))
<1>1. PageSize \in Nat \ {0} /\ Len(b) \in Nat \ {0}
  BY PagesAssumption, EmptySeq
<1>2. t \in Nat \ {0}
  BY <1>1, TotalPagesIs
<1>3. k \in Nat \ {0}
  BY <1>2 DEF Smaller
<1> HIDE DEF k, t
<1>4. (k - 1) * PageSize \in Nat /\ k * PageSize \in Nat
  BY <1>1, <1>3
<1>5. from \in Nat \ {0} /\ to \in Int /\ to <= Len(b)
  BY <1>1, <1>4 DEF Smaller
<1> HIDE DEF from, to
<1>6. \A i \in from..to : b[i] \in S
  BY <1>1, <1>5, ElementOfSeq
<1>7. SubSeq(b, from, to) \in Seq(S)
  BY <1>5, <1>6, SubSeqProperties
<1> QED BY <1>7 DEF PageOf, from, to, k, t

\* Types of what a lookup changes.
LEMMA CacheTypes ==
    ASSUME TokenTypeOK, CacheStep
    PROVE  TokenTypeOK'
<1> USE CacheAssumption DEF TokenTypeOK, Goto, Done
<1>1. CASE UNCHANGED tokenVars
  BY <1>1 DEF tokenVars
<1>2. ASSUME NEW c \in Caller, NEW t \in Token, Start(c, t) PROVE TokenTypeOK'
  BY <1>2 DEF Start
<1>3. ASSUME NEW c \in Caller,
             Hit(c) \/ Miss(c) \/ Ask(c) \/ Insert(c) \/ CallFails(c)
      PROVE  TokenTypeOK'
  <2>1. CASE Hit(c)
    BY <2>1 DEF Hit
  <2>2. CASE Miss(c)
    BY <2>2 DEF Miss
  <2>3. CASE Ask(c)
    BY <2>3 DEF Ask
  <2>4. CASE Insert(c)
    BY <2>4 DEF Insert
  <2>5. CASE CallFails(c)
    BY <2>5 DEF CallFails
  <2> QED BY <1>3, <2>1, <2>2, <2>3, <2>4, <2>5
<1>4. ASSUME NEW c \in Caller, InsertRefused(c) PROVE TokenTypeOK'
  <2>1. want[c] \in Token /\ refused[c][want[c]] + 1 \in Nat
    BY <1>4 DEF InsertRefused
  <2>2. refused' \in [Caller -> [Token -> Nat]]
    BY <1>4, <2>1 DEF InsertRefused
  <2> QED BY <1>4, <2>2 DEF InsertRefused
<1> QED BY <1>1, <1>2, <1>3, <1>4 DEF CacheStep

LEMMA ScanInvInit == Init => ScanInv
<1> SUFFICES ASSUME Init PROVE ScanInv
  OBVIOUS
<1>1. PagesTypeOK
  <2>1. allTxs \in Seq(STRING)
    BY DEF Init, PagesInit
  <2> QED BY <2>1, PagesAssumption DEF Init, PagesInit, PagesTypeOK
<1>2. TokenTypeOK
  BY CacheAssumption DEF Init, TokenInit, TokenTypeOK
<1>3. todo \in Seq(STRING) /\ accepted \in Seq(STRING)
  BY DEF Init
<1>4. TypeOK
  BY <1>1, <1>2, <1>3, ScanAssumption DEF Init, TypeOK, TokenInit
<1>5. PagesInv
  BY FS_EmptySet, ScanAssumption DEF Init, PagesInit, TokenInit, PagesInv
<1> QED BY <1>4, <1>5 DEF ScanInv

\* Sequences of transactions.
LEMMA TxSequences ==
    ASSUME NEW S, NEW s \in Seq(S), NEW t \in Seq(S)
    PROVE  /\ s \o t \in Seq(S)
           /\ s # <<>> => Tail(s) \in Seq(S) /\ Append(t, Head(s)) \in Seq(S)
  BY ConcatProperties, HeadTailProperties, AppendProperties

\* A walk begins at the first transaction.
LEMMA WalkBegins ==
    ASSUME NEW S, NEW b \in Seq(S)
    PROVE  /\ b = SubSeq(b, 0 + 1, Len(b)) /\ 0 \in 0..Len(b)
           /\ <<>> = OurTxs(SubSeq(b, 1, 0))
<1>1. SubSeq(b, 1, 0) = <<>>
  BY SubSeqEmpty
<1>2. b = SubSeq(b, 1, Len(b)) /\ Len(b) \in Nat
  BY SubSeqFull, LenProperties
<1>3. 0 + 1 = 1 /\ 0 \in 0..Len(b)
  BY <1>2
<1>4. b = SubSeq(b, 0 + 1, Len(b))
  BY <1>2, <1>3, Zenon
<1>5. <<>> = OurTxs(SubSeq(b, 1, 0))
  BY <1>1, OursOfEmpty, Zenon
<1> QED BY <1>3, <1>4, <1>5

\* A page more of the block all others were of.
LEMMA PageOfSameBlock ==
    ASSUME NEW S, NEW b \in Seq(S), b # <<>>, NEW n \in Nat \ {0}, NEW txs,
           (n - 1) * PageSize < Len(b), txs = SubSeq(b, 1, (n - 1) * PageSize)
    PROVE  IF LastPage(b, n) THEN txs \o PageOf(b, n) = b
           ELSE /\ n * PageSize < Len(b)
                /\ txs \o PageOf(b, n) = SubSeq(b, 1, n * PageSize)
<1> DEFINE k == (n - 1) * PageSize
           m == n * PageSize
<1>1. Len(b) \in Nat \ {0}
  BY EmptySeq
<1>2. /\ k \in Nat /\ m \in Nat /\ k <= m
      /\ IF LastPage(b, n) THEN PageOf(b, n) = SubSeq(b, k + 1, Len(b))
         ELSE m < Len(b) /\ PageOf(b, n) = SubSeq(b, k + 1, m)
  BY <1>1, PageIs
<1>3. k < Len(b) /\ txs = SubSeq(b, 1, k)
  OBVIOUS
<1> HIDE DEF k, m
<1>4. \A i \in k..Len(b) : SubSeq(b, 1, k) \o SubSeq(b, k + 1, i) = SubSeq(b, 1, i)
  <2> TAKE i \in k..Len(b)
  <2>1. 1 \in 1..(Len(b) + 1) /\ k \in (1 - 1)..Len(b)
    BY <1>1, <1>2, <1>3
  <2> QED BY <2>1, ConcatAdjacentSubSeq
<1>5. SubSeq(b, 1, Len(b)) = b
  BY SubSeqFull
<1>6. CASE LastPage(b, n)
  <2>0. Len(b) \in k..Len(b)
    BY <1>1, <1>2, <1>3
  <2>1. SubSeq(b, 1, k) \o SubSeq(b, k + 1, Len(b)) = SubSeq(b, 1, Len(b))
    BY <1>4, <2>0
  <2>2. PageOf(b, n) = SubSeq(b, k + 1, Len(b))
    BY <1>2, <1>6
  <2>3. txs \o PageOf(b, n) = b
    BY <1>3, <1>5, <2>1, <2>2, Zenon
  <2> QED BY <1>6, <2>3
<1>7. CASE ~LastPage(b, n)
  <2>1. m \in k..Len(b)
    BY <1>1, <1>2, <1>7
  <2>2. txs \o PageOf(b, n) = SubSeq(b, 1, m)
    BY <1>2, <1>3, <1>4, <1>7, <2>1
  <2> QED BY <1>2, <1>7, <2>2 DEF m
<1> QED BY <1>6, <1>7

\* A transaction more of the walk.
LEMMA WalkGoesOn ==
    ASSUME NEW S, NEW b \in Seq(S), NEW k \in 0..Len(b), NEW left,
           left = SubSeq(b, k + 1, Len(b)), left # <<>>
    PROVE  /\ k + 1 \in 0..Len(b)
           /\ Tail(left) = SubSeq(b, (k + 1) + 1, Len(b))
           /\ OurTxs(SubSeq(b, 1, k + 1)) =
                IF Head(left) \in Accounts THEN Append(OurTxs(SubSeq(b, 1, k)), Head(left))
                ELSE OurTxs(SubSeq(b, 1, k))
<1>1. Len(b) \in Nat /\ \A i \in 1..Len(b) : b[i] \in S
  BY LenProperties
<1>2. k < Len(b)
  <2> SUFFICES ASSUME k >= Len(b) PROVE FALSE
    BY <1>1
  <2>1. k + 1 \in Int /\ Len(b) \in Int /\ Len(b) < k + 1
    BY <1>1
  <2>2. SubSeq(b, k + 1, Len(b)) = <<>>
    BY <2>1, SubSeqEmpty
  <2> QED BY <2>2
<1>3. k + 1 \in 1..Len(b) /\ Len(b) \in (k + 1)..Len(b)
  BY <1>1, <1>2
<1>4. Head(left) = b[k + 1] /\ Tail(left) = SubSeq(b, (k + 1) + 1, Len(b))
  BY <1>3, HeadTailOfSubSeq
<1>5. /\ SubSeq(b, 1, k) \in Seq(S) /\ b[k + 1] \in S
      /\ SubSeq(b, 1, k + 1) = Append(SubSeq(b, 1, k), b[k + 1])
  <2>1. SubSeq(b, 1, k) \in Seq(S)
    <3>1. 1 \in Int /\ k \in Int /\ \A i \in 1..k : b[i] \in S
      BY <1>1, <1>2
    <3> QED BY <3>1, SubSeqProperties
  <2>2. 1 \in 1..Len(b) /\ k + 1 \in 1..Len(b) /\ (k + 1) - 1 = k
    BY <1>1, <1>3
  <2>3. SubSeq(b, 1, k + 1) = SubSeq(b, 1, k) \o <<b[k + 1]>>
    BY <2>2, SubSeqRecursiveSecond
  <2>4. b[k + 1] \in S
    BY <1>1, <1>3
  <2> QED BY <2>1, <2>3, <2>4, AppendIsConcat
<1> DEFINE walked == SubSeq(b, 1, k)
           e == b[k + 1]
<1>6. SubSeq(b, 1, k + 1) = Append(walked, e) /\ walked \in Seq(S) /\ e \in S
      /\ Head(left) = e
  BY <1>4, <1>5
<1> HIDE DEF walked, e
<1>7. OurTxs(Append(walked, e)) =
        IF e \in Accounts THEN Append(OurTxs(walked), e) ELSE OurTxs(walked)
  BY <1>6, OursGrows
<1>8. OurTxs(SubSeq(b, 1, k + 1)) =
        IF Head(left) \in Accounts THEN Append(OurTxs(walked), Head(left))
        ELSE OurTxs(walked)
  BY <1>6, <1>7, Zenon
<1>9. k + 1 \in 0..Len(b)
  BY <1>1, <1>2
<1> QED BY <1>4, <1>8, <1>9 DEF walked

-----------------------------------------------------------------------------
(* One lemma per action. *)

Tx == STRING

LEMMA BlockIs ==
    ASSUME NEW b \in Block
    PROVE  b \in Seq(Tx) /\ b # <<>> /\ Len(b) \in Nat \ {0}
<1>1. b \in Seq(Tx) /\ b # <<>>
  BY PagesAssumption DEF Tx
<1> QED BY <1>1, EmptySeq

\* TypeOK without the sort of the transactions.
LEMMA TypeIs ==
    TypeOK <=>
        /\ standing \in Block /\ replacements \in 0..MaxReplacements
        /\ readPc \in {"idle", "read", "done", "raised"}
        /\ page \in Nat \ {0} /\ seen \subseteq Block
        /\ allTxs \in Seq(Tx) /\ todo \in Seq(Tx) /\ accepted \in Seq(Tx)
        /\ TokenTypeOK
        /\ inHand \in [Caller -> EvmTx \cup {NoTx}]
        /\ todo # <<>> => readPc = "done"
        /\ lookup[Observer] # "idle" => todo # <<>>
  BY Zenon DEF TypeOK, PagesTypeOK, Tx

LEMMA TypeIsNext ==
    TypeOK' <=>
        /\ standing' \in Block /\ replacements' \in 0..MaxReplacements
        /\ readPc' \in {"idle", "read", "done", "raised"}
        /\ page' \in Nat \ {0} /\ seen' \subseteq Block
        /\ allTxs' \in Seq(Tx) /\ todo' \in Seq(Tx) /\ accepted' \in Seq(Tx)
        /\ TokenTypeOK'
        /\ inHand' \in [Caller -> EvmTx \cup {NoTx}]
        /\ todo' # <<>> => readPc' = "done"
        /\ lookup'[Observer] # "idle" => todo' # <<>>
  BY Zenon DEF TypeOK, PagesTypeOK, Tx

LEMMA TokenTypesUnchanged ==
    ASSUME TokenTypeOK, UNCHANGED tokenVars
    PROVE  TokenTypeOK' /\ lookup' = lookup
  BY Zenon DEF TokenTypeOK, tokenVars

LEMMA BeginScan ==
    ASSUME ScanInv, ScanBegin
    PROVE  ScanInv'
<1>1. /\ todo = <<>> /\ todo' = <<>> /\ accepted' = <<>> /\ inHand' = inHand
      /\ readPc' = "read" /\ page' = 1 /\ allTxs' = <<>> /\ seen' = {}
      /\ replacements' = 0 /\ standing' \in Block /\ UNCHANGED tokenVars
  BY DEF ScanBegin, Begin
<1>2. <<>> \in Seq(Tx)
  BY EmptySeq
<1>3. 0 \in 0..MaxReplacements /\ 1 \in Nat \ {0}
  BY PagesAssumption
<1>4. TokenTypeOK' /\ lookup' = lookup
  BY <1>1, TypeIs, TokenTypesUnchanged DEF ScanInv
<1>5. inHand' \in [Caller -> EvmTx \cup {NoTx}]
      /\ (lookup'[Observer] # "idle" => todo' # <<>>)
  BY <1>1, <1>4, TypeIs DEF ScanInv
<1>6. TypeOK'
  BY <1>1, <1>2, <1>3, <1>4, <1>5, TypeIsNext
<1>7. lookup'[Observer] = "idle"
  BY <1>1, <1>5
<1>8. PagesInv'
  BY <1>1, <1>7, FS_EmptySet DEF PagesInv
<1> QED BY <1>6, <1>8 DEF ScanInv

\* A page more of a scan.
LEMMA ReadScan ==
    ASSUME ScanInv, ScanRead
    PROVE  ScanInv'
<1> DEFINE b == standing
           pageOf == PageOf(standing, page)
<1>1. /\ readPc = "read" /\ allTxs' = allTxs \o pageOf
      /\ seen' = seen \cup {b} /\ UNCHANGED <<standing, replacements, accepted, inHand>>
      /\ UNCHANGED tokenVars
      /\ IF LastPage(b, page) THEN readPc' = "done" /\ page' = page
         ELSE readPc' = "read" /\ page' = page + 1
      /\ todo' = IF readPc' = "done" THEN allTxs' ELSE <<>>
  BY DEF ScanRead, ReadPage, NextPage, chainVars
<1>2. /\ b \in Block /\ page \in Nat \ {0} /\ seen \subseteq Block
      /\ allTxs \in Seq(Tx) /\ accepted \in Seq(Tx)
      /\ replacements \in 0..MaxReplacements /\ TokenTypeOK
      /\ inHand \in [Caller -> EvmTx \cup {NoTx}]
      /\ (lookup[Observer] # "idle" => todo # <<>>)
  BY TypeIs DEF ScanInv
<1>3. /\ todo = <<>> /\ accepted = <<>> /\ IsFiniteSet(seen)
      /\ seen = {} => page = 1 /\ allTxs = <<>>
      /\ \A c \in Block : seen = {c} => ReadSoFar(c)
  BY <1>1 DEF ScanInv, PagesInv
<1>4. b \in Seq(Tx) /\ b # <<>> /\ Len(b) \in Nat \ {0}
  BY <1>2, BlockIs
<1>5. pageOf \in Seq(Tx)
  BY <1>2, <1>4, PageType
<1>6. allTxs' \in Seq(Tx) /\ todo' \in Seq(Tx)
  <2>1. allTxs' \in Seq(Tx)
    BY <1>1, <1>2, <1>5, TxSequences
  <2>2. <<>> \in Seq(Tx)
    BY EmptySeq
  <2> QED BY <1>1, <2>1, <2>2
<1>7. TokenTypeOK' /\ lookup' = lookup /\ lookup'[Observer] = "idle"
  BY <1>1, <1>2, <1>3, TokenTypesUnchanged
<1>8. TypeOK'
  <2>1. seen' \subseteq Block /\ page' \in Nat \ {0}
        /\ readPc' \in {"idle", "read", "done", "raised"}
    BY <1>1, <1>2
  <2> QED BY <1>1, <1>2, <1>6, <1>7, <2>1, TypeIsNext
\* If all pages are of c, the one just read is, and those before it are.
<1>9. ASSUME NEW c \in Block, seen' = {c}
      PROVE  c = b /\ ReadSoFar(b)
  <2>1. c = b /\ (seen = {} \/ seen = {b})
    BY <1>1, <1>9
  <2>2. CASE seen = {b}
    BY <1>2, <1>3, <2>1, <2>2
  <2>3. CASE seen = {}
    <3>1. page = 1 /\ allTxs = <<>>
      BY <1>3, <2>3
    <3>2. (1 - 1) * PageSize = 0
      BY PagesAssumption
    <3>3. SubSeq(b, 1, 0) = <<>>
      BY SubSeqEmpty
    <3> QED BY <1>4, <2>1, <3>1, <3>2, <3>3 DEF ReadSoFar
  <2> QED BY <2>1, <2>2, <2>3
<1>10. ASSUME NEW c \in Block, seen' = {c}
       PROVE  IF LastPage(b, page) THEN allTxs' = c
              ELSE page * PageSize < Len(c) /\ allTxs' = SubSeq(c, 1, page * PageSize)
  <2>1. (page - 1) * PageSize < Len(b) /\ allTxs = SubSeq(b, 1, (page - 1) * PageSize)
    BY <1>9, <1>10 DEF ReadSoFar
  <2>2. IF LastPage(b, page) THEN allTxs \o pageOf = b
        ELSE page * PageSize < Len(b) /\ allTxs \o pageOf = SubSeq(b, 1, page * PageSize)
    BY <1>2, <1>4, <2>1, PageOfSameBlock
  <2> QED BY <1>1, <1>9, <1>10, <2>2, Zenon
<1>11. seen' # {} /\ IsFiniteSet(seen')
  BY <1>1, <1>3, FS_AddElement
<1>12. CASE LastPage(b, page)
  <2>1. readPc' = "done" /\ todo' = allTxs' /\ accepted' = <<>>
    BY <1>1, <1>3, <1>12
  <2>2. ASSUME NEW c \in Block, seen' = {c}
        PROVE  WalkedSoFar(c)'
    <3>1. allTxs' = c /\ c \in Seq(Tx)
      BY <1>10, <1>12, <2>2, BlockIs
    <3>2. /\ c = SubSeq(c, 0 + 1, Len(c)) /\ 0 \in 0..Len(c)
          /\ <<>> = OurTxs(SubSeq(c, 1, 0))
      BY <3>1, WalkBegins
    <3>3. \E k \in 0..Len(c) :
            todo' = SubSeq(c, k + 1, Len(c)) /\ accepted' = OurTxs(SubSeq(c, 1, k))
      <4> WITNESS 0 \in 0..Len(c)
      <4>1. todo' = SubSeq(c, 0 + 1, Len(c))
        BY <2>1, <3>1, <3>2, Zenon
      <4>2. accepted' = OurTxs(SubSeq(c, 1, 0))
        BY <2>1, <3>2, Zenon
      <4> QED BY <4>1, <4>2, Zenon
    <3> QED BY <3>3 DEF WalkedSoFar
  <2>3. PagesInv'
    BY <1>7, <1>11, <2>1, <2>2 DEF PagesInv
  <2> QED BY <1>8, <2>3 DEF ScanInv
<1>13. CASE ~LastPage(b, page)
  <2>1. readPc' = "read" /\ todo' = <<>> /\ accepted' = <<>> /\ page' = page + 1
    BY <1>1, <1>3, <1>13
  <2>2. ASSUME NEW c \in Block, seen' = {c}
        PROVE  ReadSoFar(c)'
    <3>1. page' - 1 = page
      BY <1>2, <2>1
    <3>2. (page' - 1) * PageSize < Len(c) /\ allTxs' = SubSeq(c, 1, (page' - 1) * PageSize)
      BY <1>10, <1>13, <2>2, <3>1
    <3> QED BY <3>2 DEF ReadSoFar
  <2>3. PagesInv'
    BY <1>7, <1>11, <2>1, <2>2 DEF PagesInv
  <2> QED BY <1>8, <2>3 DEF ScanInv
<1> QED BY <1>12, <1>13

\* The read and the walk stay as they are.
LEMMA StandsStill ==
    ASSUME ScanInv, CacheStep,
           UNCHANGED <<readVars, todo, accepted>>,
           standing' \in Block, replacements' \in 0..MaxReplacements,
           inHand' \in [Caller -> EvmTx \cup {NoTx}],
           lookup'[Observer] # "idle" => todo # <<>> /\ Head(todo) \in Accounts
    PROVE  ScanInv'
<1>1. UNCHANGED <<readPc, page, allTxs, seen, todo, accepted>>
  BY DEF readVars
<1>2. TokenTypeOK'
  BY TypeIs, CacheTypes DEF ScanInv
<1>3. TypeOK'
  <2>1. /\ readPc \in {"idle", "read", "done", "raised"}
        /\ page \in Nat \ {0} /\ seen \subseteq Block
        /\ allTxs \in Seq(Tx) /\ todo \in Seq(Tx) /\ accepted \in Seq(Tx)
        /\ (todo # <<>> => readPc = "done")
    BY TypeIs DEF ScanInv
  <2> QED BY <1>1, <1>2, <2>1, TypeIsNext
<1>4. \A b : (ReadSoFar(b) => ReadSoFar(b)') /\ (WalkedSoFar(b) => WalkedSoFar(b)')
  BY <1>1 DEF ReadSoFar, WalkedSoFar
<1>5. PagesInv'
  BY <1>1, <1>4 DEF ScanInv, PagesInv
<1> QED BY <1>3, <1>5 DEF ScanInv

\* The walk goes on by a transaction.
LEMMA WalkScan ==
    ASSUME ScanInv, CacheStep,
           UNCHANGED <<chainVars, readVars, inHand>>, todo # <<>>, todo' = Tail(todo),
           accepted' = IF Head(todo) \in Accounts THEN Append(accepted, Head(todo))
                       ELSE accepted,
           lookup'[Observer] = "idle"
    PROVE  ScanInv'
<1>1. UNCHANGED <<standing, replacements, readPc, page, allTxs, seen, inHand>>
  BY DEF readVars, chainVars
<1>2. TokenTypeOK'
  BY TypeIs, CacheTypes DEF ScanInv
<1>3. /\ standing \in Block /\ replacements \in 0..MaxReplacements
      /\ page \in Nat \ {0} /\ seen \subseteq Block
      /\ allTxs \in Seq(Tx) /\ todo \in Seq(Tx) /\ accepted \in Seq(Tx)
      /\ inHand \in [Caller -> EvmTx \cup {NoTx}]
      /\ readPc = "done"
  BY TypeIs DEF ScanInv
<1>4. todo' \in Seq(Tx) /\ accepted' \in Seq(Tx)
  BY <1>3, TxSequences
<1>5. TypeOK'
  BY <1>1, <1>2, <1>3, <1>4, TypeIsNext
<1>6. ASSUME NEW b \in Block, seen = {b}
      PROVE  WalkedSoFar(b)'
  <2>1. PICK k \in 0..Len(b) :
          todo = SubSeq(b, k + 1, Len(b)) /\ accepted = OurTxs(SubSeq(b, 1, k))
    BY <1>3, <1>6 DEF ScanInv, PagesInv, WalkedSoFar
  <2>2. b \in Seq(Tx)
    BY BlockIs
  <2>3. /\ k + 1 \in 0..Len(b)
        /\ Tail(todo) = SubSeq(b, (k + 1) + 1, Len(b))
        /\ OurTxs(SubSeq(b, 1, k + 1)) =
             IF Head(todo) \in Accounts THEN Append(OurTxs(SubSeq(b, 1, k)), Head(todo))
             ELSE OurTxs(SubSeq(b, 1, k))
    BY <2>1, <2>2, WalkGoesOn
  <2>4. todo' = SubSeq(b, (k + 1) + 1, Len(b)) /\ accepted' = OurTxs(SubSeq(b, 1, k + 1))
    BY <2>1, <2>3, Zenon
  <2>5. \E j \in 0..Len(b) :
          todo' = SubSeq(b, j + 1, Len(b)) /\ accepted' = OurTxs(SubSeq(b, 1, j))
    BY <2>3, <2>4, Zenon
  <2> QED BY <2>5 DEF WalkedSoFar
<1>7. IsFiniteSet(seen) /\ readPc' = "done" /\ seen' = seen
  BY <1>1, <1>3 DEF ScanInv, PagesInv
<1>8. PagesInv'
  BY <1>6, <1>7 DEF PagesInv
<1> QED BY <1>5, <1>8 DEF ScanInv

\* The scan ends with nothing.
LEMMA AbandonScan ==
    ASSUME ScanInv, CacheStep, Abandon, todo' = <<>>, UNCHANGED inHand,
           accepted' \in Seq(Tx), lookup'[Observer] = "idle"
    PROVE  ScanInv'
<1>1. /\ UNCHANGED <<standing, replacements, page, seen, inHand>>
      /\ readPc' = "raised" /\ allTxs' = <<>>
  BY DEF Abandon, chainVars
<1>2. TokenTypeOK'
  BY TypeIs, CacheTypes DEF ScanInv
<1>3. /\ standing \in Block /\ replacements \in 0..MaxReplacements
      /\ page \in Nat \ {0} /\ seen \subseteq Block
      /\ inHand \in [Caller -> EvmTx \cup {NoTx}]
  BY TypeIs DEF ScanInv
<1>4. <<>> \in Seq(Tx)
  BY EmptySeq
<1>5. TypeOK'
  BY <1>1, <1>2, <1>3, <1>4, TypeIsNext
<1>6. PagesInv'
  BY <1>1 DEF ScanInv, PagesInv
<1> QED BY <1>5, <1>6 DEF ScanInv

LEMMA ScanInvStep ==
    ASSUME ScanInv, [Next]_vars
    PROVE  ScanInv'
<1>1. /\ standing \in Block /\ replacements \in 0..MaxReplacements
      /\ accepted \in Seq(Tx) /\ inHand \in [Caller -> EvmTx \cup {NoTx}]
      /\ lookup \in [Caller -> {"idle", "find", "ask", "insert"}]
      /\ (lookup[Observer] # "idle" => todo # <<>> /\ Head(todo) \in Accounts)
  BY TypeIs DEF ScanInv, PagesInv, TokenTypeOK
<1>2. CacheStep
  BY StepOfCache
<1>3. Observer \in Caller
  BY ScanAssumption
<1>4. CASE ScanBegin
  BY <1>4, BeginScan
<1>5. CASE ScanRead
  BY <1>5, ReadScan
<1>6. CASE ScanReadRaises
  <2>1. RequestRaises /\ UNCHANGED <<tokenVars, todo, accepted, inHand>>
    BY <1>6 DEF ScanReadRaises
  <2>2. readPc = "read" /\ Abandon /\ lookup' = lookup
    BY <2>1 DEF RequestRaises, tokenVars
  <2>3. todo = <<>>
    BY <2>2 DEF ScanInv, PagesInv
  <2> QED BY <1>1, <1>2, <2>1, <2>2, <2>3, AbandonScan
<1>7. CASE ScanSkip
  <2>1. /\ todo # <<>> /\ Head(todo) \notin Accounts /\ todo' = Tail(todo)
        /\ UNCHANGED <<chainVars, readVars, tokenVars, accepted, inHand>>
    BY <1>7 DEF ScanSkip
  <2>2. lookup' = lookup
    BY <2>1 DEF tokenVars
  <2>3. lookup'[Observer] = "idle"
    BY <1>1, <2>1, <2>2
  <2> QED BY <1>2, <2>1, <2>3, WalkScan
<1>8. CASE ScanLookUp
  <2>1. /\ todo # <<>> /\ Head(todo) \in Accounts
        /\ UNCHANGED <<standing, replacements, readVars, todo, accepted, inHand>>
    BY <1>8 DEF ScanLookUp, chainVars
  <2> QED BY <1>1, <1>2, <2>1, StandsStill
<1>9. CASE ScanAsks
  <2>1. /\ lookup[Observer] # "idle"
        /\ UNCHANGED <<standing, replacements, readVars, todo, accepted, inHand>>
    BY <1>9 DEF ScanAsks, Miss, Ask, chainVars
  <2> QED BY <1>1, <1>2, <2>1, StandsStill
<1>10. CASE ScanAccepts
  <2>1. /\ lookup[Observer] # "idle" /\ lookup'[Observer] = "idle"
        /\ todo' = Tail(todo) /\ accepted' = Append(accepted, Head(todo))
        /\ UNCHANGED <<chainVars, readVars, inHand>>
    BY <1>1, <1>3, <1>10 DEF ScanAccepts, Hit, Insert, Done, Goto
  <2> QED BY <1>1, <1>2, <2>1, WalkScan
<1>11. CASE ScanRaises
  <2>1. lookup'[Observer] = "idle" /\ Abandon /\ todo' = <<>> /\ accepted' = <<>>
        /\ UNCHANGED inHand
    BY <1>1, <1>3, <1>11 DEF ScanRaises, InsertRefused, CallFails, Done, Goto
  <2>2. accepted' \in Seq(Tx)
    BY <2>1, EmptySeq
  <2> QED BY <1>2, <2>1, <2>2, AbandonScan
<1>12. CASE BlockReplaced
  <2>1. /\ readPc = "read" /\ replacements' = replacements + 1
        /\ replacements < MaxReplacements /\ standing' \in Block
        /\ UNCHANGED <<readVars, tokenVars, todo, accepted, inHand>>
    BY <1>12 DEF BlockReplaced, Replace
  <2>2. lookup' = lookup
    BY <2>1 DEF tokenVars
  <2>3. replacements' \in 0..MaxReplacements
    BY <1>1, <2>1, PagesAssumption
  <2>4. /\ inHand' \in [Caller -> EvmTx \cup {NoTx}]
        /\ lookup'[Observer] # "idle" => todo # <<>> /\ Head(todo) \in Accounts
    BY <1>1, <2>1, <2>2
  <2>5. UNCHANGED <<readVars, todo, accepted>>
    BY <2>1
  <2> QED BY <1>2, <2>1, <2>3, <2>4, <2>5, StandsStill
<1>13. ASSUME NEW c \in Caller \ {Observer}, Validate(c)
       PROVE  ScanInv'
  <2>1. UNCHANGED <<standing, replacements, readVars, todo, accepted>>
    BY <1>13 DEF Validate, chainVars
  <2>2. inHand' \in [Caller -> EvmTx \cup {NoTx}]
    BY <1>1, <1>13 DEF Validate, ValidateEvm, ValidateToken
  <2>3. lookup'[Observer] = lookup[Observer]
    <3>1. CASE UNCHANGED tokenVars
      BY <3>1 DEF tokenVars
    <3>2. ASSUME NEW t, Start(c, t) PROVE lookup'[Observer] = lookup[Observer]
      BY <1>1, <1>3, <3>2 DEF Start, Goto
    <3>3. CASE Hit(c) \/ Miss(c) \/ Ask(c) \/ Insert(c) \/ InsertRefused(c) \/ CallFails(c)
      BY <1>1, <1>3, <3>3 DEF Hit, Miss, Ask, Insert, InsertRefused, CallFails, Done, Goto
    <3> QED BY <1>13, <3>1, <3>2, <3>3 DEF Validate, ValidateEvm, ValidateToken
  <2>4. lookup'[Observer] # "idle" => todo # <<>> /\ Head(todo) \in Accounts
    BY <1>1, <2>3
  <2>5. standing' \in Block /\ replacements' \in 0..MaxReplacements
    BY <1>1, <2>1
  <2> QED BY <1>2, <2>1, <2>2, <2>4, <2>5, StandsStill
<1>14. CASE UNCHANGED vars
  <2>1. UNCHANGED <<standing, replacements, readVars, todo, accepted, inHand>>
        /\ lookup' = lookup
    BY <1>14 DEF vars, chainVars, tokenVars
  <2> QED BY <1>1, <1>2, <2>1, StandsStill
<1> QED BY <1>4, <1>5, <1>6, <1>7, <1>8, <1>9, <1>10, <1>11, <1>12, <1>13, <1>14
        DEF Next, ScanWork

\* A walk that has come to the end has been through the whole block.
LEMMA WalkEnds ==
    ASSUME NEW S, NEW b \in Seq(S), NEW k \in 0..Len(b),
           <<>> = SubSeq(b, k + 1, Len(b))
    PROVE  SubSeq(b, 1, k) = b
<1>1. Len(b) \in Nat
  BY LenProperties
<1>2. k = Len(b)
  <2> SUFFICES ASSUME k < Len(b) PROVE FALSE
    BY <1>1
  <2>1. /\ k + 1 \in Int /\ Len(b) \in Int /\ k + 1 <= Len(b)
        /\ \A i \in (k + 1)..Len(b) : i \in 1..Len(b)
    BY <1>1
  <2>2. \A i \in (k + 1)..Len(b) : b[i] \in S
    BY <2>1, ElementOfSeq
  <2>3. Len(SubSeq(b, k + 1, Len(b))) = Len(b) - (k + 1) + 1
    BY <2>1, <2>2, SubSeqProperties
  <2>4. Len(SubSeq(b, k + 1, Len(b))) = 0
    BY EmptySeq, Zenon
  <2> QED BY <1>1, <2>1, <2>3, <2>4
<1> QED BY <1>2, SubSeqFull

LEMMA ScanInvInvariance == Spec => []ScanInv
<1>1. Init => ScanInv
  BY ScanInvInit
<1>2. ScanInv /\ [Next]_vars => ScanInv'
  BY ScanInvStep
<1> QED BY <1>1, <1>2, PTL DEF Spec

\* Every variable keeps its type, a walk has something left only of a block
\* read to its end, and the observer looks a token up only for a transfer it
\* has before it.
THEOREM TypeCorrect == Spec => []TypeOK
<1>1. ScanInv => TypeOK
  BY DEF ScanInv
<1> QED BY <1>1, ScanInvInvariance, PTL

\* For every length of blocks and pages: a scan whose pages are all of one
\* block returns that block's transactions to deposit addresses, each once
\* and in their order, whatever others do to the token collection meanwhile
\* (get_block_by_identifier, get_accepted_deposits).
THEOREM ScanReturnsTheBlock == Spec => []ScanIsTheBlock
<1>1. ASSUME ScanInv PROVE ScanIsTheBlock
  <2> SUFFICES ASSUME readPc = "done", todo = <<>>, Cardinality(seen) = 1
               PROVE  \E b \in seen : accepted = OurTxs(b)
    BY DEF ScanIsTheBlock
  <2>1. IsFiniteSet(seen) /\ seen \subseteq Block
    BY <1>1, TypeIs DEF ScanInv, PagesInv
  <2>2. PICK b : seen = {b}
    BY <2>1, FS_Singleton
  <2>3. b \in Block /\ b \in Seq(Tx)
    BY <2>1, <2>2, BlockIs
  <2>4. PICK k \in 0..Len(b) :
          todo = SubSeq(b, k + 1, Len(b)) /\ accepted = OurTxs(SubSeq(b, 1, k))
    BY <1>1, <2>2, <2>3 DEF ScanInv, PagesInv, WalkedSoFar
  <2>5. SubSeq(b, 1, k) = b
    BY <2>3, <2>4, WalkEnds
  <2> QED BY <2>2, <2>4, <2>5, Zenon
<1> QED BY <1>1, ScanInvInvariance, PTL

-----------------------------------------------------------------------------
(* What a decoder reads of an input and what the contract reads. *)

\* The digits an input has of a parameter are the first ones of its word.
LEMMA ParamIsOfWord ==
    ASSUME NEW input \in Seq(Digit), NEW i \in Nat \ {0}
    PROVE  LET p == ParamData(input, i)
               w == WordRead(input, i)
           IN  /\ p \in Seq(Digit) /\ w \in Seq(Digit)
               /\ Len(w) = WordLen /\ Len(p) <= WordLen
               /\ \A k \in 1..Len(p) : p[k] = w[k]
               /\ p # <<>> => SelectorLen + (i - 1) * WordLen < Len(input)
               /\ SelectorLen + i * WordLen <= Len(input) => Len(p) = WordLen
<1> DEFINE before == SelectorLen + (i - 1) * WordLen
           end == before + WordLen
           p == ParamData(input, i)
           w == WordRead(input, i)
           last == Shorter(end, Len(input))
<1>0. /\ WordLen \in Nat \ {0} /\ SelectorLen \in Nat
      /\ (i - 1) * WordLen \in Nat /\ i * WordLen = (i - 1) * WordLen + WordLen
  <2>1. WordLen \in Nat \ {0} /\ SelectorLen \in Nat
    BY DecoderAssumption
  <2> QED BY <2>1
<1>1. before \in Nat /\ end \in Nat
  BY <1>0
<1>2. Len(input) \in Nat
  BY LenProperties
<1>3. /\ DOMAIN input = 1..Len(input)
      /\ \A j \in 1..Len(input) : input[j] \in Digit
  BY LenProperties
<1>4. end = before + WordLen /\ SelectorLen + i * WordLen = end
  BY <1>0
<1>6. p = SubSeq(input, before + 1, last)
  <2>1. ParamData(input, i) = Slice(input, before, SelectorLen + i * WordLen)
    BY Zenon DEF ParamData
  <2> HIDE DEF before, end
  <2> QED BY <1>4, <2>1, Zenon DEF Slice
<1>5. w = [k \in 1..WordLen |->
             IF before + k \in DOMAIN input THEN input[before + k] ELSE 0]
  BY DEF WordRead
<1>last. /\ last \in Nat /\ last <= end /\ last <= Len(input)
      /\ (end <= Len(input) => last = end) /\ (Len(input) < end => last = Len(input))
  <2> HIDE DEF end
  <2> QED BY <1>1, <1>2 DEF Shorter
<1> HIDE DEF before, end, p, w, last
<1>7. /\ p \in Seq(Digit)
      /\ Len(p) = IF before + 1 <= last THEN last - before ELSE 0
      /\ \A k \in 1..(last - before) : p[k] = input[before + k]
  <2>1. before + 1 \in Int /\ last \in Int
        /\ \A j \in (before + 1)..last : input[j] \in Digit
    <3>1. \A j \in (before + 1)..last : j \in 1..Len(input)
      BY <1>1, <1>2, <1>last
    <3>2. before + 1 \in Int /\ last \in Int
      BY <1>1, <1>last
    <3> QED BY <1>3, <3>1, <3>2
  <2>2. /\ SubSeq(input, before + 1, last) \in Seq(Digit)
        /\ Len(SubSeq(input, before + 1, last)) =
             IF before + 1 <= last THEN last - (before + 1) + 1 ELSE 0
        /\ \A k \in 1..(last - (before + 1) + 1) :
             SubSeq(input, before + 1, last)[k] = input[(before + 1) + k - 1]
    BY <2>1, SubSeqProperties
  <2>3. \A k \in 1..(last - before) :
          /\ k \in 1..(last - (before + 1) + 1) /\ (before + 1) + k - 1 = before + k
    BY <1>1, <1>last
  <2>4. last - (before + 1) + 1 = last - before
    BY <1>1, <1>last
  <2> QED BY <1>6, <2>2, <2>3, <2>4
<1>zero. 0 \in Digit
  BY DecoderAssumption DEF Digit
<1>8. w \in [1..WordLen -> Digit]
  BY <1>0, <1>3, <1>5, <1>zero
<1>9. w \in Seq(Digit) /\ Len(w) = WordLen
  BY <1>0, <1>8
<1>10. Len(p) <= WordLen
  BY <1>0, <1>1, <1>2, <1>4, <1>7, <1>last
<1>11. ASSUME NEW k \in 1..Len(p) PROVE p[k] = w[k]
  <2>1. k \in 1..(last - before) /\ k \in 1..WordLen /\ before + k \in 1..Len(input)
    BY <1>0, <1>1, <1>2, <1>4, <1>7, <1>last
  <2> QED BY <1>3, <1>5, <1>7, <2>1
<1>12. p # <<>> => before < Len(input)
  <2> SUFFICES ASSUME Len(input) <= before PROVE p = <<>>
    BY <1>1, <1>2
  <2>1. last < before + 1 /\ before + 1 \in Int /\ last \in Int
    BY <1>1, <1>2, <1>last
  <2> QED BY <1>6, <2>1, SubSeqEmpty
<1>13. end <= Len(input) => Len(p) = WordLen
  BY <1>0, <1>1, <1>2, <1>4, <1>7, <1>last
<1>14. SelectorLen + i * WordLen <= Len(input) => Len(p) = WordLen
  BY <1>4, <1>13
<1> QED BY <1>7, <1>9, <1>10, <1>11, <1>12, <1>14 DEF p, w, before

\* The last digits of a complete word.
LEMMA LastDigitsAre ==
    ASSUME NEW s \in Seq(Digit), Len(s) = WordLen
    PROVE  LastDigits(s, AddressLen)
             = [k \in 1..AddressLen |-> s[WordLen - AddressLen + k]]
<1> DEFINE from == WordLen - AddressLen + 1
           d == SubSeq(s, from, WordLen)
<1>0. WordLen \in Nat /\ AddressLen \in 1..WordLen
  BY DecoderAssumption
<1>1. /\ from \in Nat \ {0} /\ WordLen - from + 1 = AddressLen /\ from <= WordLen
      /\ \A k \in 1..AddressLen : from + k - 1 = WordLen - AddressLen + k
  BY <1>0
<1>2. Shorter(AddressLen, WordLen) = AddressLen
  BY <1>0 DEF Shorter
<1>3. LastDigits(s, AddressLen) = d
  BY <1>2 DEF LastDigits
<1>4. \A j \in from..WordLen : s[j] \in Digit
  BY <1>0, <1>1, ElementOfSeq
<1> HIDE DEF from
<1>5. /\ d \in Seq(Digit) /\ Len(d) = AddressLen
      /\ \A k \in 1..AddressLen : d[k] = s[from + k - 1]
  BY <1>0, <1>1, <1>4, SubSeqProperties
<1> HIDE DEF d
<1>6. d \in [1..AddressLen -> Digit]
  BY <1>0, <1>5, LenProperties
<1>7. \A k \in 1..AddressLen : d[k] = s[WordLen - AddressLen + k]
  BY <1>1, <1>5
<1> QED BY <1>3, <1>6, <1>7

\* A selector the decoder knows, and its parameters.
LEMMA NamesAre ==
    ASSUME NEW selector \in DOMAIN function_selectors
    PROVE  LET names == function_selectors[selector]
               n == Len(names)
           IN  /\ n \in {2, 3} /\ DOMAIN names = 1..n
               /\ \A i \in 1..n : names[i] = "_value" <=> i = n
<1>1. \/ function_selectors[selector] = <<"_to", "_value">>
      \/ function_selectors[selector] = <<"_from", "_to", "_value">>
  BY DEF function_selectors
<1>2. ASSUME NEW names, names = <<"_to", "_value">>
      PROVE  /\ Len(names) = 2 /\ DOMAIN names = 1..2
             /\ \A i \in 1..2 : names[i] = "_value" <=> i = 2
  BY <1>2
<1>3. ASSUME NEW names, names = <<"_from", "_to", "_value">>
      PROVE  /\ Len(names) = 3 /\ DOMAIN names = 1..3
             /\ \A i \in 1..3 : names[i] = "_value" <=> i = 3
  BY <1>3
<1> DEFINE names == function_selectors[selector]
<1>4. /\ Len(names) \in {2, 3} /\ DOMAIN names = 1..Len(names)
      /\ \A i \in 1..Len(names) : names[i] = "_value" <=> i = Len(names)
  <2> HIDE DEF names
  <2>1. CASE names = <<"_to", "_value">>
    <3>1. /\ Len(names) = 2 /\ DOMAIN names = 1..2
          /\ \A i \in 1..2 : names[i] = "_value" <=> i = 2
      BY <1>2, <2>1
    <3> QED BY <3>1
  <2>2. CASE names = <<"_from", "_to", "_value">>
    <3>1. /\ Len(names) = 3 /\ DOMAIN names = 1..3
          /\ \A i \in 1..3 : names[i] = "_value" <=> i = 3
      BY <1>3, <2>2
    <3> QED BY <3>1
  <2> QED BY <1>1, <2>1, <2>2 DEF names
<1> QED BY <1>4

\* What an accepted call says of the input: the words before the last are
\* complete, and of the last there is a digit.
LEMMA AcceptedIs ==
    ASSUME NEW input \in Seq(Digit), decode_transfer_tx(input).result = "transfer"
    PROVE  LET selector == Slice(input, 0, SelectorLen)
               n == Len(function_selectors[selector])
           IN  /\ selector \in DOMAIN function_selectors /\ n \in {2, 3}
               /\ decode_transfer_tx(input).to = LastDigits(ParamData(input, n - 1), AddressLen)
               /\ decode_transfer_tx(input).value = Number(ParamData(input, n))
               /\ Len(ParamData(input, n - 1)) = WordLen
<1> DEFINE selector == Slice(input, 0, SelectorLen)
           names == function_selectors[selector]
           n == Len(names)
           bad == \E i \in DOMAIN names : RaisesValueError(names[i], ParamData(input, i))
           p == ParamData(input, n)
           q == ParamData(input, n - 1)
<1>1. decode_transfer_tx(input)
        = IF selector \notin DOMAIN function_selectors
          THEN [result |-> "NotRecognizedSolidityFuncError"]
          ELSE IF bad THEN [result |-> "InvalidTxError"]
          ELSE [result |-> "transfer", to |-> LastDigits(q, AddressLen),
                value |-> Number(p)]
  BY Zenon DEF decode_transfer_tx
<1> HIDE DEF bad, selector, p, q
<1>2. selector \in DOMAIN function_selectors /\ ~bad
  <2> HIDE DEF n, names
  <2> QED BY <1>1
<1>3. /\ decode_transfer_tx(input).to = LastDigits(q, AddressLen)
      /\ decode_transfer_tx(input).value = Number(p)
  <2> HIDE DEF n, names
  <2> QED BY <1>1, <1>2
<1>4. /\ n \in {2, 3} /\ DOMAIN names = 1..n
      /\ \A i \in 1..n : names[i] = "_value" <=> i = n
  BY <1>2, NamesAre
<1> HIDE DEF names, n
<1>5. /\ n \in Nat \ {0} /\ n - 1 \in Nat \ {0} /\ n \in 1..n
  BY <1>4
<1>6. ~RaisesValueError(names[n], p)
  BY <1>2, <1>4, <1>5 DEF bad, p
<1>7. p # <<>>
  BY <1>4, <1>6, <1>5 DEF RaisesValueError
<1>8. SelectorLen + (n - 1) * WordLen < Len(input)
  BY <1>7, <1>5, ParamIsOfWord DEF p
<1>9. SelectorLen + (n - 1) * WordLen <= Len(input)
  <2>1. SelectorLen + (n - 1) * WordLen \in Nat /\ Len(input) \in Nat
    BY <1>5, DecoderAssumption, LenProperties
  <2> QED BY <1>8, <2>1
<1>10. Len(q) = WordLen
  BY <1>5, <1>9, ParamIsOfWord DEF q
<1> QED BY <1>2, <1>3, <1>4, <1>10 DEF selector, names, n, p, q

\* A call with all its parameters is accepted.
LEMMA CompleteIsAccepted ==
    ASSUME NEW input \in Seq(Digit), Called(input), CallLen(input) <= Len(input)
    PROVE  LET n == Len(function_selectors[Slice(input, 0, SelectorLen)])
           IN  /\ decode_transfer_tx(input).result = "transfer"
               /\ Len(ParamData(input, n)) = WordLen
<1> DEFINE selector == Slice(input, 0, SelectorLen)
           names == function_selectors[selector]
           n == Len(names)
           bad == \E i \in DOMAIN names : RaisesValueError(names[i], ParamData(input, i))
<1>1. selector \in DOMAIN function_selectors
      /\ SelectorLen + WordLen * n <= Len(input)
  BY Zenon DEF Called, CallLen
<1>2. /\ n \in {2, 3} /\ DOMAIN names = 1..n
      /\ \A i \in 1..n : names[i] = "_value" <=> i = n
  BY <1>1, NamesAre
<1>3. /\ WordLen \in Nat \ {0} /\ SelectorLen \in Nat
      /\ AddressLen \in Nat /\ AddressLen <= WordLen /\ Len(input) \in Nat
  <2>1. Len(input) \in Nat
    BY LenProperties
  <2> QED BY <2>1, DecoderAssumption
<1> HIDE DEF selector, names, n
<1>4. ASSUME NEW i \in 1..n PROVE Len(ParamData(input, i)) = WordLen
  <2>1. i \in Nat \ {0} /\ n \in Nat /\ i <= n
    BY <1>2
  <2>2. i * WordLen <= n * WordLen /\ WordLen * n = n * WordLen
    BY <1>3, <2>1, TimesMonotone
  <2>3. i * WordLen \in Nat /\ n * WordLen \in Nat
    BY <1>3, <2>1
  <2>4. SelectorLen + i * WordLen <= Len(input)
    BY <1>1, <1>3, <2>2, <2>3
  <2> QED BY <2>1, <2>4, ParamIsOfWord
<1>5. ASSUME NEW i \in 1..n PROVE ~RaisesValueError(names[i], ParamData(input, i))
  <2>1. Len(ParamData(input, i)) = WordLen
    BY <1>4
  <2>2. ParamData(input, i) # <<>>
    <3>1. Len(<<>>) = 0
      OBVIOUS
    <3> QED BY <1>3, <2>1, <3>1
  <2> QED BY <1>3, <2>1, <2>2 DEF RaisesValueError
<1>6. ~bad
  BY <1>2, <1>5
<1>7. decode_transfer_tx(input).result = "transfer"
  <2>1. decode_transfer_tx(input)
          = IF selector \notin DOMAIN function_selectors
            THEN [result |-> "NotRecognizedSolidityFuncError"]
            ELSE IF bad THEN [result |-> "InvalidTxError"]
            ELSE [result |-> "transfer",
                  to |-> LastDigits(ParamData(input, n - 1), AddressLen),
                  value |-> Number(ParamData(input, n))]
    BY Zenon DEF decode_transfer_tx, selector, names, n
  <2> HIDE DEF bad
  <2> QED BY <1>1, <1>6, <2>1
<1>8. n \in 1..n
  BY <1>2
<1>9. Len(ParamData(input, n)) = WordLen
  BY <1>4, <1>8
<1> QED BY <1>7, <1>9 DEF selector, names, n

LEMMA InputReadAsMoved ==
    ASSUME NEW input \in Seq(Digit)
    PROVE  ReadAsMoved(input)
<1> DEFINE n == Len(function_selectors[Slice(input, 0, SelectorLen)])
           decoded == decode_transfer_tx(input)
           word == WordRead(input, n - 1)
           recipient == [k \in 1..AddressLen |-> word[WordLen - AddressLen + k]]
           moved == Number(WordRead(input, n))
<1>1. ASSUME decoded.result = "transfer"
      PROVE  /\ decoded.to = recipient
             /\ decoded.value = Number(ParamData(input, n))
             /\ decoded.value <= moved
             /\ Len(ParamData(input, n)) = WordLen => decoded.value = moved
  <2>1. /\ n \in {2, 3} /\ decoded.to = LastDigits(ParamData(input, n - 1), AddressLen)
        /\ decoded.value = Number(ParamData(input, n))
        /\ Len(ParamData(input, n - 1)) = WordLen
    BY <1>1, AcceptedIs
  <2> HIDE DEF n, decoded
  <2>2. n \in Nat \ {0} /\ n - 1 \in Nat \ {0}
    BY <2>1
  <2>3. ASSUME NEW i \in Nat \ {0}, Len(ParamData(input, i)) = WordLen
        PROVE  ParamData(input, i) = WordRead(input, i)
    BY <2>3, ParamIsOfWord, SeqEqual
  <2>4. ParamData(input, n - 1) = word /\ word \in Seq(Digit) /\ Len(word) = WordLen
    BY <2>1, <2>2, <2>3, ParamIsOfWord
  <2>5. decoded.to = recipient
    <3> HIDE DEF word
    <3> QED BY <2>1, <2>4, LastDigitsAre
  <2>6. Number(ParamData(input, n)) <= moved
    <3> DEFINE p == ParamData(input, n)
               w == WordRead(input, n)
    <3>1. /\ p \in Seq(Digit) /\ w \in Seq(Digit) /\ Len(p) <= Len(w)
          /\ \A k \in 1..Len(p) : p[k] = w[k]
      BY <2>2, ParamIsOfWord
    <3> HIDE DEF p, w
    <3>2. Number(p) <= Number(w)
      BY <3>1, NumberOfPrefix
    <3> QED BY <3>2 DEF p, w
  <2>7. Len(ParamData(input, n)) = WordLen => decoded.value = moved
    BY <2>1, <2>2, <2>3
  <2> HIDE DEF moved, recipient
  <2> QED BY <2>1, <2>5, <2>6, <2>7
<1>2. ASSUME Called(input), Len(input) >= CallLen(input)
      PROVE  decoded.result = "transfer" /\ decoded.to = recipient /\ decoded.value = moved
  <2>1. CallLen(input) <= Len(input)
    BY <1>2
  <2>2. decoded.result = "transfer" /\ Len(ParamData(input, n)) = WordLen
    BY <1>2, <2>1, CompleteIsAccepted
  <2> HIDE DEF decoded, n, recipient, moved
  <2> QED BY <1>1, <2>2
<1> QED BY <1>1, <1>2 DEF ReadAsMoved, AgreesWithChain

\* For every width of a selector, a word and an address, and an input of any
\* digits: a transfer is told as the token's contract makes it, with its
\* recipient, and never with more than the contract moves (decode_transfer_tx).
THEOREM InputsAreReadAsMoved == Spec => []InputIsReadAsMoved
<1>1. ScanInv => InputIsReadAsMoved
  <2> SUFFICES ASSUME ScanInv, NEW c \in Caller, inHand[c] # NoTx
               PROVE  ReadAsMoved(inHand[c].input)
    BY DEF InputIsReadAsMoved
  <2>1. inHand[c] \in EvmTx
    BY TypeIs DEF ScanInv
  <2>2. inHand[c].input \in Seq(Digit)
    BY <2>1, ScanAssumption
  <2> QED BY <2>2, InputReadAsMoved
<1> QED BY <1>1, ScanInvInvariance, PTL
=============================================================================
