---------------------------- MODULE VaultProofs ----------------------------
(***************************************************************************)
(* Proofs about VaultDepositor, for every number of deposits, batch size   *)
(* and fault budget: what is called successful had its transfer mined, and *)
(* is in the vault but for the two causes the run names.                   *)
(***************************************************************************)
EXTENDS VaultDepositor, FiniteSetTheorems, SequenceTheorems, WellFoundedInduction,
        TLAPS

\* TypeOK without what the addresses hold, a sum over the deposits.
TypeInv ==
    /\ status \in [Deposit -> {"none", "verified", "successful"}]
    /\ pool \in SUBSET Transaction /\ IsFiniteSet(pool)
    /\ mined \in Seq([tx : Transaction, result : Result])
    /\ vdPc \in {"idle", "send", "record"}
    /\ vdBatch \in SUBSET Deposit /\ vdTodo \in SUBSET vdBatch
    /\ vdNonce \in Nat
    /\ vdSends \in SUBSET Transaction /\ vdWaits \in SUBSET Transaction
    /\ vdDone \in SUBSET vdBatch /\ strays \in SUBSET Transaction

\* A transfer of deposit d was mined.
TransferMined(d) ==
    \E i \in 1..Len(mined) :
        mined[i].tx.type = "token_transfer" /\ mined[i].tx.of = d

\* What the pass holds belongs to its part and to its batch, and what it is
\* about to record was mined.
PassInv ==
    /\ vdPc # "send" => vdTodo = {} /\ vdSends = {} /\ vdWaits = {}
    /\ vdPc # "record" => vdDone = {}
    /\ \A x \in vdSends \cup vdWaits : x.of \in vdBatch
    /\ \A d \in vdDone : TransferMined(d)

RecordInv == \A d \in Deposit : status[d] = "successful" => TransferMined(d)

IInv == TypeInv /\ PassInv /\ RecordInv

-----------------------------------------------------------------------------
(* Sums of the deposits' values, which MapThenSumSet defines by a recursion *)
(* on the sets: what holds of all smaller numbers of elements holds of all. *)

Total(S) == MapThenSumSet(LAMBDA d : Value[d], S)

\* One step of the recursion.
TotalStep(g, s) ==
    IF s = {} THEN 0
    ELSE LET x == CHOOSE y \in s : TRUE IN Value[x] + g[s \ {x}]

IsTotal(g, S) == g = [s \in SUBSET S |-> TotalStep(g, s)]

LEMMA TotalUnfold == \A S : Total(S) = (CHOOSE g : IsTotal(g, S))[S]
  BY DEF Total, MapThenSumSet, MapThenFoldSet, IsTotal, TotalStep

\* Induction, as a statement about sets.
LEMMA SetInduction ==
    ASSUME NEW T, 0 \in T, \A n \in Nat : n \in T => n + 1 \in T
    PROVE  Nat \subseteq T
<1> SUFFICES ASSUME Nat \ T # {} PROVE FALSE
  OBVIOUS
<1> DEFINE R == OpToRel(<, Nat)
<1>1. IsWellFoundedOn(R, Nat)
  BY NatLessThanWellFounded
<1>2. Nat \ T \subseteq Nat
  OBVIOUS
<1>3. PICK n \in Nat \ T : \A m \in Nat \ T : ~(<<m, n>> \in R)
  <2> HIDE DEF R
  <2> QED BY <1>1, <1>2, WFMin
<1>4. \A m \in Nat \ T : ~(m < n)
  BY <1>3 DEF OpToRel
<1>5. n - 1 \in Nat /\ n - 1 < n /\ (n - 1) + 1 = n
  OBVIOUS
<1> QED BY <1>4, <1>5

\* The recursion has a solution on the subsets of a finite set.
LEMMA TotalExists ==
    ASSUME NEW S, IsFiniteSet(S)
    PROVE  \E g : IsTotal(g, S)
<1> DEFINE P(g, n) == \A s \in SUBSET S : Cardinality(s) <= n => g[s] = TotalStep(g, s)
           T == {n \in Nat : \E g : P(g, n)}
<1>1. \A s \in SUBSET S : /\ IsFiniteSet(s) /\ Cardinality(s) \in Nat
                          /\ Cardinality(s) = 0 <=> s = {}
                          /\ Cardinality(s) <= Cardinality(S)
  BY FS_Subset, FS_CardinalityType, FS_EmptySet
<1>2. 0 \in T
  <2>1. P([s \in SUBSET S |-> 0], 0)
    BY <1>1 DEF TotalStep
  <2> QED BY <2>1
<1>3. ASSUME NEW n \in Nat, n \in T PROVE n + 1 \in T
  <2>1. PICK g : P(g, n)
    BY <1>3
  <2> DEFINE h == [s \in SUBSET S |-> TotalStep(g, s)]
  <2>2. ASSUME NEW s \in SUBSET S, Cardinality(s) <= n + 1
        PROVE  h[s] = TotalStep(h, s)
    <3>1. CASE s = {}
      BY <3>1 DEF TotalStep
    <3>2. CASE s # {}
      <4> DEFINE x == CHOOSE y \in s : TRUE
      <4>1. x \in s
        BY <3>2
      <4>2. s \ {x} \in SUBSET S /\ Cardinality(s \ {x}) = Cardinality(s) - 1
        BY <1>1, <4>1, FS_RemoveElement
      <4>3. Cardinality(s \ {x}) <= n
        BY <1>1, <2>2, <4>2
      <4>4. h[s \ {x}] = g[s \ {x}]
        BY <2>1, <4>2, <4>3
      <4> QED BY <3>2, <4>4 DEF TotalStep
    <3> QED BY <3>1, <3>2
  <2>3. P(h, n + 1)
    BY <2>2
  <2> HIDE DEF h
  <2> QED BY <2>3
<1>4. Cardinality(S) \in T
  <2> HIDE DEF T
  <2> QED BY <1>1, <1>2, <1>3, SetInduction
<1>5. PICK g : P(g, Cardinality(S))
  BY <1>4
<1> DEFINE h == [s \in SUBSET S |-> g[s]]
<1>6. \A s \in SUBSET S : h[s] = TotalStep(h, s)
  <2> SUFFICES ASSUME NEW s \in SUBSET S PROVE g[s] = TotalStep(h, s)
    OBVIOUS
  <2>1. g[s] = TotalStep(g, s)
    BY <1>1, <1>5
  <2>2. s # {} => s \ {CHOOSE y \in s : TRUE} \in SUBSET S
    OBVIOUS
  <2> QED BY <2>1, <2>2 DEF TotalStep
<1>7. IsTotal(h, S)
  BY <1>6 DEF IsTotal
<1> QED BY <1>7

\* Solutions on two sets agree where both are defined.
LEMMA TotalUnique ==
    ASSUME NEW A, NEW B, IsFiniteSet(B), NEW g, NEW h, IsTotal(g, A), IsTotal(h, B), B \subseteq A
    PROVE  g[B] = h[B]
<1> DEFINE T == {n \in Nat : \A s \in SUBSET B : Cardinality(s) = n => g[s] = h[s]}
<1>1. \A s \in SUBSET B : /\ IsFiniteSet(s) /\ Cardinality(s) \in Nat
                          /\ Cardinality(s) = 0 <=> s = {}
  BY FS_Subset, FS_CardinalityType, FS_EmptySet
<1>a. \A s \in SUBSET B : g[s] = TotalStep(g, s) /\ h[s] = TotalStep(h, s)
  BY DEF IsTotal
<1>2. 0 \in T
  BY <1>1, <1>a DEF TotalStep
<1>3. ASSUME NEW n \in Nat, n \in T PROVE n + 1 \in T
  <2> SUFFICES ASSUME NEW s \in SUBSET B, Cardinality(s) = n + 1
               PROVE  g[s] = h[s]
    OBVIOUS
  <2> DEFINE x == CHOOSE y \in s : TRUE
  <2>1. s # {} /\ x \in s
    BY <1>1
  <2>2. s \ {x} \in SUBSET B /\ Cardinality(s \ {x}) = n
    <3>1. Cardinality(s \ {x}) = Cardinality(s) - 1
      BY <1>1, <2>1, FS_RemoveElement
    <3> QED BY <3>1
  <2>3. g[s \ {x}] = h[s \ {x}]
    BY <1>3, <2>2
  <2> QED BY <1>a, <2>1, <2>3 DEF TotalStep
<1>4. Cardinality(B) \in T
  <2> HIDE DEF T
  <2> QED BY <1>1, <1>2, <1>3, SetInduction
<1> QED BY <1>4

LEMMA TotalDef ==
    ASSUME NEW S, IsFiniteSet(S)
    PROVE  Total(S) = IF S = {} THEN 0
                    ELSE LET x == CHOOSE y \in S : TRUE IN Value[x] + Total(S \ {x})
<1> DEFINE G(A) == CHOOSE g : IsTotal(g, A)
<1>1. \A A \in SUBSET S : IsTotal(G(A), A) /\ Total(A) = G(A)[A]
  <2> TAKE A \in SUBSET S
  <2>1. \E g : IsTotal(g, A)
    BY FS_Subset, TotalExists
  <2> QED BY <2>1, TotalUnfold
<1> DEFINE x == CHOOSE y \in S : TRUE
<1>2. G(S)[S] = TotalStep(G(S), S)
  <2>1. IsTotal(G(S), S) /\ S \in SUBSET S
    BY <1>1
  <2> HIDE DEF G
  <2> QED BY <2>1 DEF IsTotal
<1>3. G(S)[S \ {x}] = G(S \ {x})[S \ {x}]
  <2>1. S \ {x} \in SUBSET S /\ IsFiniteSet(S \ {x})
    BY FS_Subset
  <2>2. IsTotal(G(S), S) /\ IsTotal(G(S \ {x}), S \ {x})
    BY <1>1, <2>1
  <2> HIDE DEF G, x
  <2> QED BY <2>1, <2>2, TotalUnique
<1> QED BY <1>1, <1>2, <1>3 DEF TotalStep

\* A sum of naturals, whatever element is taken first.
LEMMA TotalAny ==
    ASSUME NEW S, IsFiniteSet(S), \A d \in S : Value[d] \in Nat
    PROVE  /\ Total(S) \in Nat
           /\ \A d \in S : Total(S) = Value[d] + Total(S \ {d})
<1> DEFINE Q(s) == Total(s) \in Nat /\ \A d \in s : Total(s) = Value[d] + Total(s \ {d})
           T == {n \in Nat : \A s \in SUBSET S : Cardinality(s) <= n => Q(s)}
<1>1. \A s \in SUBSET S : /\ IsFiniteSet(s) /\ Cardinality(s) \in Nat
                          /\ Cardinality(s) = 0 <=> s = {}
  BY FS_Subset, FS_CardinalityType, FS_EmptySet
<1>2. 0 \in T
  <2> SUFFICES ASSUME NEW s \in SUBSET S, s = {} PROVE Q(s)
    BY <1>1
  <2> QED BY <1>1, TotalDef
<1>3. ASSUME NEW n \in Nat, n \in T PROVE n + 1 \in T
  <2>0. Q({})
    <3>1. \A s \in SUBSET S : Cardinality(s) <= 0 => Q(s)
      BY <1>2
    <3>2. {} \in SUBSET S /\ Cardinality({}) <= 0
      BY <1>1
    <3> QED BY <3>1, <3>2
  <2> SUFFICES ASSUME NEW s \in SUBSET S, Cardinality(s) <= n + 1, s # {} PROVE Q(s)
    <3> HIDE DEF Q
    <3> QED BY <2>0
  <2> DEFINE x == CHOOSE y \in s : TRUE
  <2>1. x \in s /\ Total(s) = Value[x] + Total(s \ {x})
    BY <1>1, TotalDef
  <2> HIDE DEF x
  <2>2. ASSUME NEW d \in s
        PROVE  s \ {d} \in SUBSET S /\ Q(s \ {d})
    <3>1. Cardinality(s \ {d}) = Cardinality(s) - 1
      BY <1>1, FS_RemoveElement
    <3>2. Cardinality(s \ {d}) <= n
      BY <1>1, <3>1
    <3> QED BY <1>3, <3>2
  <2>3. Total(s) \in Nat
    BY <2>1, <2>2
  <2>4. ASSUME NEW d \in s, d # x
        PROVE  Total(s) = Value[d] + Total(s \ {d})
    <3>1. Total(s \ {x}) = Value[d] + Total((s \ {x}) \ {d})
      BY <2>1, <2>2, <2>4
    <3>2. Total(s \ {d}) = Value[x] + Total((s \ {d}) \ {x})
      BY <2>1, <2>2, <2>4
    <3>3. (s \ {x}) \ {d} = (s \ {d}) \ {x}
      OBVIOUS
    <3>4. (s \ {x}) \ {d} \in SUBSET S /\ Cardinality((s \ {x}) \ {d}) <= n
      <4>1. Cardinality(s \ {x}) = Cardinality(s) - 1 /\ IsFiniteSet(s \ {x})
        BY <1>1, <2>1, FS_RemoveElement
      <4>2. Cardinality((s \ {x}) \ {d}) = Cardinality(s \ {x}) - 1
        BY <1>1, <2>4, <4>1, FS_RemoveElement
      <4> QED BY <1>1, <4>1, <4>2
    <3>5. Total((s \ {x}) \ {d}) \in Nat
      BY <1>3, <3>4
    <3> DEFINE r == Total((s \ {x}) \ {d})
    <3>6. Total(s) = Value[x] + (Value[d] + r) /\ Total(s \ {d}) = Value[x] + r /\ r \in Nat
      BY <2>1, <3>1, <3>2, <3>3, <3>5
    <3>7. Value[x] \in Nat /\ Value[d] \in Nat
      BY <2>1
    <3> HIDE DEF r
    <3> QED BY <3>6, <3>7
  <2> QED BY <2>1, <2>3, <2>4
<1>4. Cardinality(S) \in T
  <2> HIDE DEF T
  <2> QED BY <1>1, <1>2, <1>3, SetInduction
<1> QED BY <1>1, <1>4
-----------------------------------------------------------------------------
(* The pending count. *)

\* As many nonces as there are transactions, and one more, are not all taken.
LEMMA FreeNonceExists ==
    ASSUME TypeInv
    PROVE  \E n \in Len(mined)..(Len(mined) + Cardinality(pool)) :
             \A x \in pool : x.nonce # n
<1> DEFINE a == Len(mined)
           c == Cardinality(pool)
           f == [n \in a..(a + c) |-> CHOOSE x \in pool : x.nonce = n]
<1>1. a \in Nat /\ c \in Nat
  BY FS_CardinalityType DEF TypeInv
<1>2. SUFFICES ASSUME \A n \in a..(a + c) : \E x \in pool : x.nonce = n
               PROVE  FALSE
  OBVIOUS
<1>3. \A n \in a..(a + c) : f[n] \in pool /\ f[n].nonce = n
  BY <1>2
<1>4. f \in [a..(a + c) -> pool]
  BY <1>3
<1>5. IsFiniteSet(a..(a + c)) /\ Cardinality(a..(a + c)) = c + 1
  <2>1. a \in Int /\ a + c \in Int /\ ~(a > a + c) /\ (a + c) - a + 1 = c + 1
    BY <1>1
  <2> HIDE DEF a, c
  <2> QED BY <2>1, FS_Interval
<1>6. IsFiniteSet(pool) /\ Cardinality(pool) < Cardinality(a..(a + c))
  BY <1>1, <1>5 DEF TypeInv
<1> HIDE DEF f
<1>7. \E m, n \in a..(a + c) : m # n /\ f[m] = f[n]
  BY <1>4, <1>5, <1>6, FS_PigeonHole
<1> QED BY <1>3, <1>7

LEMMA PendingCountType ==
    ASSUME TypeInv
    PROVE  PendingCount \in Nat
<1> DEFINE a == Len(mined)
           b == Len(mined) + Cardinality(pool)
           R == OpToRel(<, Nat)
           T == {n \in a..b : \A x \in pool : x.nonce # n}
<1>1. a \in Nat /\ b \in Nat
  BY FS_CardinalityType DEF TypeInv
<1>2. T \subseteq Nat /\ T # {}
  BY <1>1, FreeNonceExists
<1>3. PICK n \in T : \A m \in T : ~(<<m, n>> \in R)
  <2> HIDE DEF R, T
  <2>1. IsWellFoundedOn(R, Nat)
    BY NatLessThanWellFounded DEF R
  <2> QED BY <1>2, <2>1, WFMin
<1>4. \A m \in T : ~(m < n)
  BY <1>2, <1>3 DEF OpToRel
<1>5. \A k \in a..(n - 1) : \E x \in pool : x.nonce = k
  <2> SUFFICES ASSUME NEW k \in a..(n - 1), \A x \in pool : x.nonce # k PROVE FALSE
    OBVIOUS
  <2>1. k \in a..b /\ k < n
    BY <1>1
  <2> QED BY <1>4, <2>1
<1>6. n \in a..b /\ \A x \in pool : x.nonce # n
  OBVIOUS
<1>7. PendingCount \in a..b
  BY <1>5, <1>6 DEF PendingCount
<1> QED BY <1>1, <1>7

-----------------------------------------------------------------------------
(* The chain. *)

\* Mined transactions stay mined.
LEMMA MinedGrows ==
    ASSUME TypeInv, NEW x \in Transaction, NEW r \in Result, Mined(x, r)
    PROVE  /\ mined' \in Seq([tx : Transaction, result : Result])
           /\ \A d : TransferMined(d) => TransferMined(d)'
<1> DEFINE e == [tx |-> x, result |-> r]
           S == [tx : Transaction, result : Result]
<1>1. e \in S /\ mined \in Seq(S) /\ mined' = Append(mined, e)
  BY DEF Mined, TypeInv
<1> HIDE DEF e, S
<1>2. /\ mined' \in Seq(S) /\ Len(mined') = Len(mined) + 1
      /\ \A i \in 1..Len(mined) : mined'[i] = mined[i]
  BY <1>1, AppendProperties
<1>3. Len(mined) \in Nat
  BY <1>1
<1>4. ASSUME NEW d, TransferMined(d) PROVE TransferMined(d)'
  <2>1. PICK i \in 1..Len(mined) :
          mined[i].tx.type = "token_transfer" /\ mined[i].tx.of = d
    BY <1>4 DEF TransferMined
  <2>2. i \in 1..Len(mined') /\ mined'[i] = mined[i]
    BY <1>2, <1>3
  <2> QED BY <2>1, <2>2 DEF TransferMined
<1> QED BY <1>2, <1>4 DEF S

LEMMA MineKeeps ==
    ASSUME IInv, MineTx
    PROVE  IInv'
<1>1. PICK x \in pool :
        /\ pool' = pool \ {x}
        /\ IF x.type = "contract_deploy" THEN ExecuteDeploy(x) ELSE ExecuteTransfer(x)
  BY DEF MineTx
<1>2. x \in Transaction
  BY DEF IInv, TypeInv
<1>3. \E r \in Result : Mined(x, r)
  BY <1>1 DEF ExecuteDeploy, ExecuteTransfer, Result
<1>4. /\ mined' \in Seq([tx : Transaction, result : Result])
      /\ \A d : TransferMined(d) => TransferMined(d)'
  BY <1>2, <1>3, MinedGrows DEF IInv
<1>5. UNCHANGED <<status, passVars, strays>>
  BY DEF MineTx
<1>6. IsFiniteSet(pool')
  BY <1>1, FS_RemoveElement DEF IInv, TypeInv
<1>7. TypeInv'
  BY <1>1, <1>4, <1>5, <1>6 DEF IInv, TypeInv, passVars
<1>8. PassInv'
  BY <1>4, <1>5 DEF IInv, PassInv, passVars
<1>9. RecordInv'
  BY <1>4, <1>5 DEF IInv, RecordInv
<1> QED BY <1>7, <1>8, <1>9 DEF IInv

\* The node takes a transaction.
LEMMA PoolGrows ==
    ASSUME TypeInv, NEW x \in Transaction, pool' = pool \/ pool' = pool \cup {x}
    PROVE  pool' \in SUBSET Transaction /\ IsFiniteSet(pool')
  BY FS_AddElement DEF TypeInv

-----------------------------------------------------------------------------
(* The pass. *)

\* A pass that is given up leaves nothing in hand.
LEMMA GiveUpKeeps ==
    ASSUME IInv, NEW left \in SUBSET vdSends, GiveUp(left), UNCHANGED <<status, mined>>,
           pool' \in SUBSET Transaction, IsFiniteSet(pool')
    PROVE  IInv'
<1>1. \A d : TransferMined(d)' <=> TransferMined(d)
  BY DEF TransferMined
<1> QED BY <1>1 DEF GiveUp, IInv, TypeInv, PassInv, RecordInv

LEMMA PassKeeps ==
    ASSUME IInv, VaultWork \/ VaultFault \/ Stray \/ (\E d \in Deposit : Verify(d))
    PROVE  IInv'
<1> USE DEF IInv
<1>a. mined' = mined
  BY DEF VaultWork, VaultFault, Stray, Verify, chainVars, VaultStart, VaultCheck,
         VaultSend, VaultSendFails, VaultCheckFails, StraySend, VaultTimeout,
         VaultReceived, VaultRecord, VaultEnd, VaultRecordFails, VaultCrash
<1>b. \A d : TransferMined(d)' <=> TransferMined(d)
  BY <1>a DEF TransferMined
<1>c. ASSUME UNCHANGED pool PROVE pool' \in SUBSET Transaction /\ IsFiniteSet(pool')
  BY <1>c DEF TypeInv
<1>1. ASSUME NEW d \in Deposit, Verify(d) PROVE IInv'
  <2>1. UNCHANGED <<pool, passVars, strays>>
    BY <1>1 DEF Verify, chainVars
  <2> QED
    BY <1>1, <1>a, <1>b, <1>c, <2>1 DEF Verify, TypeInv, PassInv, RecordInv, passVars
<1>2. CASE VaultStart
  <2>1. vdNonce' \in Nat
    BY <1>2, PendingCountType DEF VaultStart
  <2>2. vdBatch' \in SUBSET Deposit /\ vdTodo' = vdBatch'
    BY <1>2 DEF VaultStart, FirstDeposits, Verified
  <2>3. vdSends = {} /\ vdWaits = {} /\ vdDone = {}
    BY <1>2 DEF VaultStart, PassInv
  <2> QED
    BY <1>2, <1>a, <1>b, <1>c, <2>1, <2>2, <2>3
    DEF VaultStart, TypeInv, PassInv, RecordInv, chainVars
<1>3. ASSUME NEW d \in vdTodo, VaultCheck(d) PROVE IInv'
  <2> DEFINE x == [nonce |-> vdNonce, of |-> d,
                   type |-> IF To[d] \in deployed THEN "token_transfer"
                            ELSE "contract_deploy"]
  <2>1. vdNonce \in Nat /\ d \in Deposit /\ d \in vdBatch
    BY DEF TypeInv
  <2>2. x \in Transaction /\ x.of = d
    BY <2>1 DEF Transaction, TxType
  <2>3. vdSends' = vdSends \cup {x}
    BY <1>3 DEF VaultCheck
  <2> HIDE DEF x
  <2>4. vdPc = "send"
    BY DEF PassInv, TypeInv
  <2>5. UNCHANGED <<status, pool, vdPc, vdBatch, vdWaits, vdDone, strays>>
    BY <1>3 DEF VaultCheck, chainVars
  <2>6. vdTodo' \subseteq vdTodo /\ vdNonce' = vdNonce + 1
    BY <1>3 DEF VaultCheck
  <2>7. TypeInv'
    BY <1>a, <2>1, <2>2, <2>3, <2>5, <2>6 DEF TypeInv
  <2> QED
    BY <1>b, <2>1, <2>2, <2>3, <2>4, <2>5, <2>7 DEF PassInv, RecordInv
<1>4. ASSUME NEW x \in vdSends, VaultSend(x) PROVE IInv'
  <2>1. x \in Transaction
    BY DEF TypeInv
  <2>2. pool' \in SUBSET Transaction /\ IsFiniteSet(pool')
    BY <1>4, <2>1, PoolGrows DEF VaultSend
  <2>3. vdPc = "send"
    BY DEF PassInv, TypeInv
  <2> QED
    BY <1>4, <1>a, <1>b, <2>1, <2>2, <2>3 DEF VaultSend, TypeInv, PassInv, RecordInv
<1>5. ASSUME NEW x \in vdSends, VaultSendFails(x) PROVE IInv'
  <2>1. x \in Transaction
    BY DEF TypeInv
  <2>2. pool' \in SUBSET Transaction /\ IsFiniteSet(pool')
    BY <1>5, <2>1, PoolGrows DEF VaultSendFails
  <2> QED
    BY <1>5, <1>a, <2>2, GiveUpKeeps DEF VaultSendFails
<1>6. CASE VaultCheckFails
  BY <1>6, <1>a, <1>c, GiveUpKeeps DEF VaultCheckFails, chainVars
<1>7. ASSUME NEW x \in strays, StraySend(x) PROVE IInv'
  <2>1. x \in Transaction
    BY DEF TypeInv
  <2>2. pool' \in SUBSET Transaction /\ IsFiniteSet(pool')
    BY <1>7, <2>1, PoolGrows DEF StraySend
  <2> QED
    BY <1>7, <1>a, <1>b, <2>2
    DEF StraySend, TypeInv, PassInv, RecordInv, passVars
<1>8. ASSUME NEW x \in vdWaits, VaultTimeout(x) PROVE IInv'
  BY <1>8, <1>a, <1>b, <1>c
  DEF VaultTimeout, TypeInv, PassInv, RecordInv, chainVars
<1>9. CASE VaultReceived
  <2>1. \A d \in vdDone' : d \in vdBatch /\ TransferMined(d)
    <3> SUFFICES ASSUME NEW d \in vdDone' PROVE d \in vdBatch /\ TransferMined(d)
      OBVIOUS
    <3>1. PICK x \in vdWaits : x.type = "token_transfer" /\ x.of = d
      BY <1>9 DEF VaultReceived, Transferred
    <3>2. PICK i \in 1..Len(mined) : mined[i].tx = x
      BY <1>9, <3>1 DEF VaultReceived, AllReceived
    <3> QED BY <3>1, <3>2 DEF PassInv, TransferMined
  <2>2. vdTodo = {} /\ vdSends = {}
    BY <1>9 DEF VaultReceived, AllReceived
  <2>3. UNCHANGED <<status, pool, strays, vdBatch, vdTodo, vdNonce, vdSends>>
    BY <1>9 DEF VaultReceived, chainVars
  <2>4. vdPc' = "record" /\ vdWaits' = {}
    BY <1>9 DEF VaultReceived
  <2>5. TypeInv'
    BY <1>a, <2>1, <2>3, <2>4 DEF TypeInv
  <2> QED
    BY <1>b, <2>1, <2>2, <2>3, <2>4, <2>5 DEF PassInv, RecordInv
<1>10. ASSUME NEW d \in vdDone, VaultRecord(d) PROVE IInv'
  <2>1. d \in Deposit /\ TransferMined(d)
    BY DEF TypeInv, PassInv
  <2>2. status' = [status EXCEPT ![d] = "successful"]
    BY <1>10 DEF VaultRecord
  <2>3. RecordInv'
    BY <1>b, <2>1, <2>2 DEF RecordInv, TypeInv
  <2>4. UNCHANGED <<pool, strays, vdPc, vdBatch, vdTodo, vdNonce, vdSends, vdWaits>>
        /\ vdDone' \subseteq vdDone
    BY <1>10 DEF VaultRecord, chainVars
  <2>5. TypeInv'
    BY <1>a, <2>1, <2>2, <2>4 DEF TypeInv
  <2> QED
    BY <1>b, <2>3, <2>4, <2>5 DEF PassInv
<1>11. CASE VaultEnd
  BY <1>11, <1>a, <1>b, <1>c DEF VaultEnd, TypeInv, PassInv, RecordInv, chainVars
<1>12. CASE VaultRecordFails
  BY <1>12, <1>a, <1>c, GiveUpKeeps DEF VaultRecordFails, chainVars
<1>13. CASE VaultCrash
  BY <1>13, <1>a, <1>b, <1>c DEF VaultCrash, TypeInv, PassInv, RecordInv, chainVars
<1> QED
  BY <1>1, <1>2, <1>3, <1>4, <1>5, <1>6, <1>7, <1>8, <1>9, <1>10, <1>11, <1>12, <1>13
  DEF VaultWork, VaultFault, Stray

LEMMA InitInv == Init => IInv
<1> SUFFICES ASSUME Init PROVE IInv
  OBVIOUS
<1>1. mined \in Seq([tx : Transaction, result : Result])
  BY DEF Init
<1>2. IsFiniteSet(pool)
  BY FS_EmptySet DEF Init
<1> QED
  BY <1>1, <1>2 DEF Init, IInv, TypeInv, PassInv, RecordInv

LEMMA Invariance == Spec => []IInv
<1>1. IInv /\ UNCHANGED vars => IInv'
  BY DEF vars, chainVars, passVars, IInv, TypeInv, PassInv, RecordInv, TransferMined
<1>2. IInv /\ [Next]_vars => IInv'
  BY <1>1, MineKeeps, PassKeeps DEF Next
<1> QED
  BY <1>2, InitInv, PTL DEF Spec

\* Nothing is recorded as SUCCESSFUL but for a mined transfer of its own,
\* whatever sends, receipts, upserts and passes fail (get_code's kind of
\* transaction and the receipts' tx_type).
THEOREM SuccessIsMined == Spec => []SuccessfulWasMined
<1>1. IInv => SuccessfulWasMined
  <2> SUFFICES ASSUME IInv, NEW d \in Deposit, status[d] = "successful"
               PROVE  \E r \in Result : Transfers(d, r) # {}
    BY DEF SuccessfulWasMined
  <2>1. PICK i \in 1..Len(mined) :
          mined[i].tx.type = "token_transfer" /\ mined[i].tx.of = d
    BY DEF IInv, RecordInv, TransferMined
  <2>2. mined[i].result \in Result
    <3>1. mined \in Seq([tx : Transaction, result : Result])
      BY DEF IInv, TypeInv
    <3>2. mined[i] \in [tx : Transaction, result : Result]
      BY <3>1, ElementOfSeq
    <3> QED BY <3>2
  <2>3. i \in Transfers(d, mined[i].result)
    BY <2>1 DEF Transfers
  <2> QED BY <2>2, <2>3
<1> QED BY <1>1, Invariance, PTL

-----------------------------------------------------------------------------
(* What the addresses hold. *)

\* At most one transfer of deposit d was mined.
MinedOnce(d) ==
    \A i, j \in 1..Len(mined) :
        /\ mined[i].tx.type = "token_transfer" /\ mined[i].tx.of = d
        /\ mined[j].tx.type = "token_transfer" /\ mined[j].tx.of = d
        => i = j

Once(a) == \A d \in Deposit : To[d] = a => MinedOnce(d)

Uncollected(a) == {d \in Deposit : To[d] = a /\ Transfers(d, "ok") = {}}

\* An address none of whose deposits was transferred twice holds all that is
\* not collected, so no transfer from it found too little.
HeldInv ==
    /\ held \in [Address -> Nat]
    /\ \A a \in Address : Once(a) =>
           /\ held[a] >= Total(Uncollected(a))
           /\ \A d \in Deposit : To[d] = a => Transfers(d, "empty") = {}

LEMMA FiniteDeposits ==
    ASSUME NEW S, S \subseteq Deposit
    PROVE  IsFiniteSet(S) /\ \A d \in S : Value[d] \in Nat
<1>1. IsFiniteSet(Deposit)
  BY VaultAssumption, FS_Interval DEF Deposit
<1>2. IsFiniteSet(S)
  BY <1>1, FS_Subset
<1> QED BY <1>2, VaultAssumption

\* A transaction is added to the mined ones.
LEMMA MinedOne ==
    ASSUME TypeInv, NEW x \in Transaction, NEW r \in Result, Mined(x, r)
    PROVE  /\ Len(mined) \in Nat /\ Len(mined') = Len(mined) + 1
           /\ \A i \in 1..Len(mined) : mined'[i] = mined[i]
           /\ mined'[Len(mined) + 1] = [tx |-> x, result |-> r]
<1> DEFINE e == [tx |-> x, result |-> r]
           S == [tx : Transaction, result : Result]
<1>1. e \in S /\ mined \in Seq(S) /\ mined' = Append(mined, e)
  BY DEF Mined, TypeInv
<1> HIDE DEF e, S
<1>2. /\ Len(mined') = Len(mined) + 1 /\ mined'[Len(mined) + 1] = e
      /\ \A i \in 1..Len(mined) : mined'[i] = mined[i]
  BY <1>1, AppendProperties
<1> QED BY <1>1, <1>2 DEF e

LEMMA OtherTransfers ==
    ASSUME TypeInv, NEW x \in Transaction, NEW r \in Result, Mined(x, r),
           NEW d \in Deposit, NEW q, ~(x.type = "token_transfer" /\ x.of = d /\ r = q)
    PROVE  Transfers(d, q)' = Transfers(d, q)
<1>1. /\ Len(mined) \in Nat /\ Len(mined') = Len(mined) + 1
      /\ \A i \in 1..Len(mined) : mined'[i] = mined[i]
      /\ mined'[Len(mined) + 1] = [tx |-> x, result |-> r]
  BY MinedOne
<1> QED BY <1>1 DEF Transfers

\* Once stays behind: what was mined twice stays so.
LEMMA OnceBefore ==
    ASSUME TypeInv, NEW x \in Transaction, NEW r \in Result, Mined(x, r),
           NEW d, MinedOnce(d)'
    PROVE  /\ MinedOnce(d)
           /\ x.type = "token_transfer" /\ x.of = d => \A q : Transfers(d, q) = {}
<1>a. /\ Len(mined) \in Nat /\ Len(mined') = Len(mined) + 1
      /\ \A i \in 1..Len(mined) : mined'[i] = mined[i]
      /\ mined'[Len(mined) + 1] = [tx |-> x, result |-> r]
  BY MinedOne
<1>1. \A i \in 1..Len(mined) : i \in 1..Len(mined') /\ mined'[i] = mined[i]
  BY <1>a
<1>2. MinedOnce(d)
  BY <1>1 DEF MinedOnce
<1>3. ASSUME x.type = "token_transfer", x.of = d, NEW q, Transfers(d, q) # {}
      PROVE  FALSE
  <2>1. PICK i \in 1..Len(mined) : mined[i].tx.type = "token_transfer" /\ mined[i].tx.of = d
    BY <1>3 DEF Transfers
  <2>2. /\ Len(mined) + 1 \in 1..Len(mined') /\ mined'[Len(mined) + 1].tx = x
        /\ i # Len(mined) + 1
    BY <1>a
  <2> QED BY <1>1, <1>3, <2>1, <2>2 DEF MinedOnce
<1> QED BY <1>2, <1>3

LEMMA MineKeepsHeld ==
    ASSUME TypeInv, HeldInv, MineTx
    PROVE  HeldInv'
<1>1. PICK x \in pool :
        IF x.type = "contract_deploy" THEN ExecuteDeploy(x) ELSE ExecuteTransfer(x)
  BY DEF MineTx
<1>2. x \in Transaction /\ x.of \in Deposit /\ x.type \in TxType
  BY DEF TypeInv, Transaction
<1>a. \A d \in Deposit : To[d] \in Address /\ Value[d] \in Nat
  BY VaultAssumption
\* Nothing is collected, and nothing found too little.
<1>3. ASSUME NEW r \in Result, Mined(x, r), UNCHANGED held,
             x.type = "token_transfer" => r = "failed"
      PROVE  HeldInv'
  <2>1. \A d \in Deposit : /\ Transfers(d, "ok")' = Transfers(d, "ok")
                           /\ Transfers(d, "empty")' = Transfers(d, "empty")
    BY <1>2, <1>3, OtherTransfers DEF TxType, Transaction
  <2>2. \A d : MinedOnce(d)' => MinedOnce(d)
    BY <1>2, <1>3, OnceBefore
  <2>3. \A a : Uncollected(a)' = Uncollected(a) /\ (Once(a)' => Once(a))
    BY <2>1, <2>2 DEF Uncollected, Once
  <2>4. \A a : Total(Uncollected(a))' = Total(Uncollected(a))
    BY <2>3
  <2> QED BY <1>3, <2>1, <2>3, <2>4 DEF HeldInv
\* A transfer that finds too little, or collects its value.
<1>4. ASSUME x.type = "token_transfer", NEW r \in {"ok", "empty"}, Mined(x, r),
             held' = IF r = "ok" THEN [held EXCEPT ![To[x.of]] = @ - Value[x.of]] ELSE held,
             r = "ok" <=> held[To[x.of]] >= Value[x.of]
      PROVE  HeldInv'
  <2> DEFINE c == x.of
             b == To[x.of]
  <2>0. r \in Result /\ b \in Address /\ c \in Deposit
    BY <1>2, <1>a DEF Result
  <2>1. held' \in [Address -> Nat]
    <3>1. held[b] \in Nat /\ Value[c] \in Nat
      BY <2>0, <1>a DEF HeldInv
    <3>2. r = "ok" => held[b] - Value[c] \in Nat
      BY <1>4, <3>1
    <3> QED BY <1>4, <3>2 DEF HeldInv
  <2>2. ASSUME NEW a \in Address, Once(a)'
        PROVE  /\ held'[a] >= Total(Uncollected(a))'
               /\ \A d \in Deposit : To[d] = a => Transfers(d, "empty")' = {}
    <3>1. Once(a) /\ (a = b => \A q : Transfers(c, q) = {})
      BY <1>2, <1>4, <2>0, <2>2, OnceBefore DEF Once
    <3>2. CASE a # b
      <4>1. \A d \in Deposit : To[d] = a =>
              /\ Transfers(d, "ok")' = Transfers(d, "ok")
              /\ Transfers(d, "empty")' = Transfers(d, "empty")
        BY <1>2, <1>4, <2>0, <3>2, OtherTransfers
      <4>2. Total(Uncollected(a))' = Total(Uncollected(a))
        <5>1. Uncollected(a)' = Uncollected(a)
          BY <4>1 DEF Uncollected
        <5> QED BY <5>1
      <4>3. held'[a] = held[a]
        BY <1>4, <3>2 DEF HeldInv
      <4> QED BY <3>1, <4>1, <4>2, <4>3 DEF HeldInv
    <3>3. CASE a = b
      <4>1. c \in Uncollected(a) /\ Uncollected(a) \subseteq Deposit
        BY <2>0, <3>1, <3>3 DEF Uncollected
      <4>2. /\ Total(Uncollected(a)) = Value[c] + Total(Uncollected(a) \ {c})
            /\ Total(Uncollected(a) \ {c}) \in Nat
        <5>1. IsFiniteSet(Uncollected(a) \ {c})
              /\ \A d \in Uncollected(a) \ {c} : Value[d] \in Nat
          BY <4>1, FiniteDeposits
        <5> QED BY <4>1, <5>1, FiniteDeposits, TotalAny
      <4>3. held[a] >= Total(Uncollected(a)) /\ held[a] \in Nat
        BY <3>1 DEF HeldInv
      <4>4. r = "ok"
        BY <1>4, <1>a, <2>0, <3>3, <4>2, <4>3
      <4>5. held'[a] = held[a] - Value[c]
        BY <1>4, <2>0, <3>3, <4>4 DEF HeldInv
      <4>6. \A d \in Deposit : Transfers(d, "empty")' = Transfers(d, "empty")
        BY <1>2, <1>4, <2>0, <4>4, OtherTransfers
      <4>7. Uncollected(a)' \subseteq Uncollected(a) \ {c}
        <5>1. Transfers(c, "ok")' # {}
          <6> DEFINE n == Len(mined) + 1
          <6>1. n \in 1..Len(mined') /\ mined'[n] = [tx |-> x, result |-> "ok"]
            BY <1>2, <1>4, <2>0, <4>4, MinedOne
          <6> HIDE DEF n
          <6>2. mined'[n].tx = x /\ mined'[n].result = "ok"
            BY <6>1
          <6>3. n \in Transfers(c, "ok")'
            BY <1>4, <6>1, <6>2 DEF Transfers
          <6> QED BY <6>3
        <5>2. \A d \in Deposit \ {c} : Transfers(d, "ok")' = Transfers(d, "ok")
          BY <1>2, <1>4, <2>0, OtherTransfers
        <5> QED BY <5>1, <5>2 DEF Uncollected
      <4>8. Uncollected(a) \ {c} \subseteq Uncollected(a)'
        <5>1. \A d \in Deposit \ {c} : Transfers(d, "ok")' = Transfers(d, "ok")
          BY <1>2, <1>4, <2>0, OtherTransfers
        <5> QED BY <5>1 DEF Uncollected
      <4>9. Total(Uncollected(a))' = Total(Uncollected(a) \ {c})
        <5>1. Uncollected(a)' = Uncollected(a) \ {c}
          BY <4>7, <4>8
        <5> QED BY <5>1
      <4>10. held'[a] >= Total(Uncollected(a))'
        BY <1>a, <2>0, <4>2, <4>3, <4>5, <4>9
      <4> QED BY <3>1, <4>6, <4>10 DEF HeldInv
    <3> QED BY <3>2, <3>3
  <2> QED BY <2>1, <2>2 DEF HeldInv
<1>5. CASE x.type = "contract_deploy"
  BY <1>1, <1>3, <1>5 DEF ExecuteDeploy, Result
<1>6. CASE x.type = "token_transfer"
  <2>1. ExecuteTransfer(x)
    BY <1>1, <1>6
  <2>2. CASE Mined(x, "failed") /\ UNCHANGED held
    BY <1>3, <2>2 DEF Result
  <2>3. CASE /\ held[To[x.of]] >= Value[x.of] /\ Mined(x, "ok")
             /\ held' = [held EXCEPT ![To[x.of]] = @ - Value[x.of]]
    BY <1>4, <1>6, <2>3
  <2>4. CASE held[To[x.of]] < Value[x.of] /\ Mined(x, "empty") /\ UNCHANGED held
    <3>1. ~(held[To[x.of]] >= Value[x.of])
      BY <1>2, <1>a, <2>4 DEF HeldInv
    <3> QED BY <1>4, <1>6, <2>4, <3>1
  <2> QED BY <2>1, <2>2, <2>3, <2>4 DEF ExecuteTransfer
<1> QED BY <1>2, <1>5, <1>6 DEF TxType

LEMMA HeldInvariance == Spec => []HeldInv
<1>1. Init => HeldInv
  <2> SUFFICES ASSUME Init PROVE HeldInv
    OBVIOUS
  <2>1. \A d, r : Transfers(d, r) = {}
    BY DEF Init, Transfers
  <2>2. ASSUME NEW a \in Address
        PROVE  Funded(a) \in Nat /\ Funded(a) = Total(Uncollected(a))
    <3> DEFINE S == {d \in Deposit : To[d] = a}
    <3>1. Uncollected(a) = S
      BY <2>1 DEF Uncollected
    <3>2. Funded(a) = Total(S)
      BY DEF Funded, Total
    <3>3. Total(S) \in Nat
      <4>1. S \subseteq Deposit
        OBVIOUS
      <4> HIDE DEF S
      <4>2. IsFiniteSet(S) /\ \A d \in S : Value[d] \in Nat
        BY <4>1, FiniteDeposits
      <4> QED BY <4>2, TotalAny
    <3> QED BY <3>1, <3>2, <3>3
  <2>3. held = [a \in Address |-> Funded(a)]
    BY DEF Init
  <2> QED BY <2>1, <2>2, <2>3 DEF HeldInv
<1>2. HeldInv /\ UNCHANGED <<held, mined>> => HeldInv'
  <2> SUFFICES ASSUME HeldInv, UNCHANGED <<held, mined>> PROVE HeldInv'
    OBVIOUS
  <2>1. \A d, r : Transfers(d, r)' = Transfers(d, r) /\ (MinedOnce(d)' <=> MinedOnce(d))
    BY DEF Transfers, MinedOnce
  <2>2. \A a : Uncollected(a)' = Uncollected(a) /\ (Once(a)' <=> Once(a))
    BY <2>1 DEF Uncollected, Once
  <2>3. \A a : Total(Uncollected(a))' = Total(Uncollected(a))
    BY <2>2
  <2> QED BY <2>1, <2>2, <2>3 DEF HeldInv
<1>3. [Next]_vars /\ ~MineTx => UNCHANGED <<held, mined>>
  BY DEF Next, vars, chainVars, VaultWork, VaultFault, Stray, Verify, VaultStart, VaultCheck,
         VaultSend, VaultSendFails, VaultCheckFails, StraySend, VaultTimeout,
         VaultReceived, VaultRecord, VaultEnd, VaultRecordFails, VaultCrash
<1>4. IInv /\ HeldInv /\ [Next]_vars => HeldInv'
  BY <1>2, <1>3, MineKeepsHeld DEF IInv
<1> QED BY <1>1, <1>4, Invariance, PTL DEF Spec

\* What lies behind SentTwice.
LEMMA OnceUnlessSentTwice ==
    ASSUME TypeInv, NEW a, ~SentTwice(a)
    PROVE  Once(a)
<1> SUFFICES ASSUME NEW d \in Deposit, To[d] = a,
                    NEW i \in 1..Len(mined), NEW j \in 1..Len(mined), i # j,
                    mined[i].tx.type = "token_transfer", mined[i].tx.of = d,
                    mined[j].tx.type = "token_transfer", mined[j].tx.of = d
             PROVE  FALSE
  BY DEF Once, MinedOnce
<1> DEFINE U == UNION {Transfers(d, r) : r \in Result}
<1>1. mined \in Seq([tx : Transaction, result : Result])
  BY DEF TypeInv
<1>2. mined[i].result \in Result /\ mined[j].result \in Result
  <2>1. /\ mined[i] \in [tx : Transaction, result : Result]
        /\ mined[j] \in [tx : Transaction, result : Result]
    BY <1>1, ElementOfSeq
  <2> QED BY <2>1
<1>3. i \in U /\ j \in U
  BY <1>2 DEF Transfers
<1>4. IsFiniteSet(U)
  <2>1. U \subseteq 1..Len(mined)
    BY DEF Transfers
  <2>2. IsFiniteSet(1..Len(mined))
    BY <1>1, FS_Interval
  <2> QED BY <2>1, <2>2, FS_Subset
<1>5. Cardinality(U) > 1
  <2>1. IsFiniteSet({i}) /\ Cardinality({i}) = 1
    BY FS_Singleton
  <2> HIDE DEF U
  <2> DEFINE V == {i} \cup {j}
  <2>2. V \subseteq U
    BY <1>3
  <2>3. Cardinality(V) = Cardinality({i}) + 1
    <3>1. j \notin {i}
      OBVIOUS
    <3> QED BY <2>1, <3>1, FS_AddElement
  <2> HIDE DEF V
  <2>4. Cardinality(U) \in Nat /\ Cardinality(V) <= Cardinality(U)
    BY <1>4, <2>2, FS_Subset, FS_CardinalityType
  <2> QED BY <2>1, <2>3, <2>4
<1> QED BY <1>5 DEF SentTwice

\* A deposit called SUCCESSFUL and not in the vault had a transfer that
\* failed of itself, or its address was collected twice: no transfer finds too
\* little otherwise (held and the values of what is not collected).
THEOREM UncollectedAreExplained == Spec => []UncollectedIsExplained
<1>1. IInv /\ HeldInv => UncollectedIsExplained
  <2> SUFFICES ASSUME IInv, HeldInv, NEW d \in Deposit, status[d] = "successful",
                      Transfers(d, "ok") = {}, Transfers(d, "failed") = {},
                      ~SentTwice(To[d])
               PROVE  FALSE
    BY DEF UncollectedIsExplained
  <2>1. PICK i \in 1..Len(mined) :
          mined[i].tx.type = "token_transfer" /\ mined[i].tx.of = d
    BY DEF IInv, RecordInv, TransferMined
  <2>2. mined[i].result \in Result
    <3>1. mined \in Seq([tx : Transaction, result : Result])
      BY DEF IInv, TypeInv
    <3>2. mined[i] \in [tx : Transaction, result : Result]
      BY <3>1, ElementOfSeq
    <3> QED BY <3>2
  <2>3. Transfers(d, "empty") # {}
    BY <2>1, <2>2 DEF Transfers, Result
  <2>4. Once(To[d]) /\ To[d] \in Address
    BY OnceUnlessSentTwice, VaultAssumption DEF IInv
  <2> QED BY <2>3, <2>4 DEF HeldInv
<1> QED BY <1>1, Invariance, HeldInvariance, PTL

\* The types, with what the addresses hold, never below zero, and a pass that
\* has nothing in hand when it is idle (the variables of withdraw's loop).
THEOREM TypeCorrect == Spec => []TypeOK
<1> DEFINE RestOK == deployed \in SUBSET Address /\ faults \in Nat
<1>1. Init => RestOK
  BY DEF Init
<1>2. TypeInv /\ RestOK /\ [Next]_vars => RestOK'
  <2> SUFFICES ASSUME TypeInv, RestOK, [Next]_vars PROVE RestOK'
    OBVIOUS
  <2>1. faults' \in Nat
    <3>1. faults' = faults \/ faults' = faults + 1
      BY DEF Next, vars, chainVars, VaultWork, VaultFault, Stray, Verify, VaultStart,
             VaultCheck, VaultSend, VaultSendFails, VaultCheckFails, StraySend,
             VaultTimeout, VaultReceived, VaultRecord, VaultEnd, VaultRecordFails,
             VaultCrash, MineTx, ExecuteDeploy, ExecuteTransfer, Fault
    <3> QED BY <3>1
  <2>2. deployed' \in SUBSET Address
    <3>1. CASE MineTx
      <4>1. PICK x \in pool :
              IF x.type = "contract_deploy" THEN ExecuteDeploy(x) ELSE ExecuteTransfer(x)
        BY <3>1 DEF MineTx
      <4>2. To[x.of] \in Address
        BY VaultAssumption DEF TypeInv, Transaction
      <4> QED BY <4>1, <4>2 DEF ExecuteDeploy, ExecuteTransfer
    <3>2. CASE ~MineTx
      BY <3>2
      DEF Next, vars, chainVars, VaultWork, VaultFault, Stray, Verify, VaultStart,
          VaultCheck, VaultSend, VaultSendFails, VaultCheckFails, StraySend,
          VaultTimeout, VaultReceived, VaultRecord, VaultEnd, VaultRecordFails,
          VaultCrash
    <3> QED BY <3>1, <3>2
  <2> QED BY <2>1, <2>2
<1>3. IInv /\ HeldInv /\ RestOK => TypeOK
  BY DEF IInv, TypeInv, PassInv, HeldInv, TypeOK
<1>4. IInv => TypeInv
  BY DEF IInv
<1> HIDE DEF RestOK
<1> QED BY <1>1, <1>2, <1>3, <1>4, Invariance, HeldInvariance, PTL DEF Spec
====
