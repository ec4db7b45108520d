----------------------------- MODULE KeyProofs -----------------------------
(***************************************************************************)
(* Proofs about KeyStore, for any number of workers, keys, key types and   *)
(* faults: one key per type in the file, a file that is what was set and   *)
(* removed as long as the saves did not disturb each other, and one that   *)
(* can be read after each save that is alone and not cut short.            *)
(***************************************************************************)
EXTENDS KeyStore, TLAPS

OnePerType(S) == \A j, k \in S : KeyType[j] = KeyType[k] => j = k

\* OneKeyPerType is not inductive: the next save writes a memory.
EveryCopyOnePerType ==
    /\ OnePerType(stored)
    /\ \A w \in Worker : OnePerType(mem[w])

\* Undisturbed, at most one worker saves, what it saves is the ledger, and so
\* are the file otherwise and the memory of the workers that are current.
Undisturbed ==
    ~disturbed =>
        /\ \A v, w \in Saving : v = w
        /\ \A w \in Saving : form = "empty" /\ mem[w] = ledger
        /\ Saving = {} => Loadable /\ stored = ledger
        /\ \A w \in current : mem[w] = ledger

FileInv == form # "whole" => stored = {}

IInv == TypeOK /\ EveryCopyOnePerType /\ Undisturbed /\ FileInv

-----------------------------------------------------------------------------
\* set_key keeps one key per type: it drops the one key of the type.
LEMMA ReplacingKeepsOnePerType ==
    ASSUME NEW S \in SUBSET Key, NEW k \in Key, OnePerType(S),
           NEW T \in Replacing(S, k)
    PROVE  T \in SUBSET Key /\ OnePerType(T) /\ T = (S \ SameType(k, S)) \cup {k}
<1>1. CASE SameType(k, S) = {}
  <2>1. T = S \cup {k}
    BY <1>1 DEF Replacing
  <2>2. \A j \in S : KeyType[j] # KeyType[k]
    BY <1>1 DEF SameType
  <2> QED BY <1>1, <2>1, <2>2 DEF OnePerType
<1>2. CASE SameType(k, S) # {}
  <2>1. PICK j \in SameType(k, S) : T = (S \ {j}) \cup {k}
    BY <1>2 DEF Replacing
  <2>2. j \in S /\ KeyType[j] = KeyType[k]
    BY <2>1 DEF SameType
  <2>3. \A i \in S : KeyType[i] = KeyType[k] => i = j
    BY <2>2 DEF OnePerType
  <2>4. SameType(k, S) = {j}
    BY <2>2, <2>3 DEF SameType
  <2> QED BY <2>1, <2>2, <2>3, <2>4 DEF OnePerType
<1> QED BY <1>1, <1>2

LEMMA InitIInv == Init => IInv
<1> SUFFICES ASSUME Init PROVE IInv
  OBVIOUS
<1>1. TypeOK
  BY DEF Init, TypeOK
<1>2. EveryCopyOnePerType
  BY DEF Init, EveryCopyOnePerType, OnePerType
<1>3. Undisturbed
  BY DEF Init, Undisturbed, Saving, At, Loadable
<1>4. FileInv
  BY DEF Init, FileInv
<1> QED BY <1>1, <1>2, <1>3, <1>4 DEF IInv

-----------------------------------------------------------------------------
\* The two callers of OpenForSave write the ledger if they are current.
LEMMA OpenKeepsUndisturbed ==
    ASSUME IInv, NEW w \in Worker, OpenForSave(w), ~At(w, "save"),
           mem' = [mem EXCEPT ![w] = mem'[w]],
           ~disturbed /\ w \in current => mem'[w] = ledger'
    PROVE  Undisturbed' /\ FileInv'
<1> USE DEF IInv, OpenForSave, Goto
<1>1. FileInv'
  BY DEF FileInv
<1>2. Undisturbed'
  <2> SUFFICES ASSUME ~disturbed' PROVE Undisturbed'
    BY DEF Undisturbed
  <2>1. ~disturbed /\ w \in current /\ Saving = {}
    BY DEF TypeOK
  <2>2. mem'[w] = ledger'
    BY <2>1
  <2>3. Saving' = {w}
    BY <2>1 DEF Saving, At, TypeOK
  <2>4. current' = {w} /\ form' = "empty"
    OBVIOUS
  <2> QED BY <2>2, <2>3, <2>4 DEF Undisturbed
<1> QED BY <1>1, <1>2

LEMMA NextIInv == IInv /\ [Next]_vars => IInv'
<1> SUFFICES ASSUME IInv, [Next]_vars PROVE IInv'
  OBVIOUS
<1> USE DEF IInv
<1>1. ASSUME NEW w \in Worker, Boot(w) PROVE IInv'
  <2> USE <1>1 DEF Boot, Goto
  <2>1. TypeOK'
    BY DEF TypeOK, file
  <2>2. EveryCopyOnePerType'
    BY DEF EveryCopyOnePerType, OnePerType, TypeOK, file
  <2>3. FileInv'
    BY DEF FileInv, file
  <2>4. Saving' = Saving
    BY DEF Saving, At, TypeOK
  <2>5. ~disturbed => Saving = {} /\ stored = ledger
    BY DEF Undisturbed, Loadable
  <2>6. mem'[w] = stored /\ \A v \in Worker : v # w => mem'[v] = mem[v]
    BY DEF TypeOK
  <2>7. Undisturbed'
    BY <2>4, <2>5, <2>6 DEF Undisturbed, Loadable, file, TypeOK
  <2> QED BY <2>1, <2>2, <2>3, <2>7
<1>2. ASSUME NEW w \in Worker, BootFails(w) PROVE IInv'
  <2> USE <1>2 DEF BootFails
  <2>1. TypeOK'
    BY DEF TypeOK, file, history, At
  <2>2. EveryCopyOnePerType' /\ FileInv'
    BY DEF EveryCopyOnePerType, OnePerType, FileInv, file
  <2>3. Saving' = Saving
    BY DEF Saving, At, TypeOK
  <2>4. Undisturbed'
    BY <2>3 DEF Undisturbed, Loadable, file, history
  <2> QED BY <2>1, <2>2, <2>4
<1>3. CASE Restart
  <2> USE <1>3 DEF Restart
  <2>1. TypeOK'
    BY DEF TypeOK, file, work, history
  <2>2. EveryCopyOnePerType' /\ FileInv'
    BY DEF EveryCopyOnePerType, OnePerType, FileInv, file, work
  <2>3. Undisturbed'
    BY DEF Undisturbed, Saving, At, Loadable, file, work, history
  <2> QED BY <2>1, <2>2, <2>3
<1>4. ASSUME NEW w \in Worker, NEW k \in Key, SetKey(w, k) PROVE IInv'
  <2>1. PICK S \in Replacing(mem[w], k) : mem' = [mem EXCEPT ![w] = S]
    BY <1>4 DEF SetKey
  <2>2. OpenForSave(w) /\ At(w, "idle")
    BY <1>4 DEF SetKey
  <2>3. mem[w] \in SUBSET Key /\ OnePerType(mem[w])
    BY DEF TypeOK, EveryCopyOnePerType
  <2>4. S \in SUBSET Key /\ OnePerType(S)
        /\ S = (mem[w] \ SameType(k, mem[w])) \cup {k}
    BY <2>3, ReplacingKeepsOnePerType
  <2>5. mem'[w] = S /\ mem' = [mem EXCEPT ![w] = mem'[w]]
    BY <2>1 DEF TypeOK
  <2>6. TypeOK'
    <3>1. ledger' \in SUBSET Key /\ made' \in SUBSET Key
      BY <1>4 DEF SetKey, TypeOK
    <3>2. mem' \in [Worker -> SUBSET Key]
      BY <2>1, <2>4 DEF TypeOK
    <3> QED BY <1>4, <3>1, <3>2 DEF SetKey, OpenForSave, Goto, TypeOK
  <2>7. EveryCopyOnePerType'
    BY <2>1, <2>2, <2>4 DEF EveryCopyOnePerType, OpenForSave, OnePerType, TypeOK
  <2>8. ~disturbed /\ w \in current => mem'[w] = ledger'
    BY <1>4, <2>4, <2>5 DEF SetKey, Undisturbed
  <2>9. Undisturbed' /\ FileInv'
    BY <2>2, <2>5, <2>8, OpenKeepsUndisturbed DEF At
  <2> QED BY <2>6, <2>7, <2>9
<1>5. ASSUME NEW w \in Worker, NEW k \in Key, RemoveLoad(w, k) PROVE IInv'
  <2> USE <1>5 DEF RemoveLoad, Goto
  <2>1. TypeOK'
    BY DEF TypeOK, file
  <2>2. EveryCopyOnePerType'
    BY DEF EveryCopyOnePerType, OnePerType, TypeOK, file
  <2>3. FileInv'
    BY DEF FileInv, file
  <2>4. Saving' = Saving
    BY DEF Saving, At, TypeOK
  <2>5. ~disturbed => Saving = {} /\ stored = ledger
    BY DEF Undisturbed, Loadable
  <2>6. mem'[w] = stored /\ \A v \in Worker : v # w => mem'[v] = mem[v]
    BY DEF TypeOK
  <2>7. Undisturbed'
    BY <2>4, <2>5, <2>6 DEF Undisturbed, Loadable, file, TypeOK
  <2> QED BY <2>1, <2>2, <2>3, <2>7
<1>6. ASSUME NEW w \in Worker, RemoveSave(w) PROVE IInv'
  <2>1. OpenForSave(w) /\ At(w, "remove")
    BY <1>6 DEF RemoveSave
  <2>2. mem' = [mem EXCEPT ![w] = mem[w] \ {victim[w]}]
    BY <1>6 DEF RemoveSave
  <2>3. mem'[w] = mem[w] \ {victim[w]} /\ mem' = [mem EXCEPT ![w] = mem'[w]]
    BY <2>2 DEF TypeOK
  <2>4. TypeOK'
    <3>1. mem' \in [Worker -> SUBSET Key]
      BY <2>2 DEF TypeOK
    <3> QED BY <1>6, <3>1 DEF RemoveSave, OpenForSave, Goto, TypeOK
  <2>5. EveryCopyOnePerType'
    BY <2>1, <2>2 DEF EveryCopyOnePerType, OpenForSave, OnePerType, TypeOK
  <2>6. ~disturbed /\ w \in current => mem'[w] = ledger'
    BY <1>6, <2>3 DEF RemoveSave, Undisturbed
  <2>7. Undisturbed' /\ FileInv'
    BY <2>1, <2>3, <2>6, OpenKeepsUndisturbed DEF At
  <2> QED BY <2>4, <2>5, <2>7
<1>7. ASSUME NEW w \in Worker, FinishSave(w) PROVE IInv'
  <2> USE <1>7 DEF FinishSave, Served, Goto
  <2>1. TypeOK'
    BY DEF TypeOK, history
  <2>2. EveryCopyOnePerType' /\ FileInv'
    BY DEF EveryCopyOnePerType, OnePerType, FileInv, TypeOK
  <2>3. Undisturbed'
    <3> SUFFICES ASSUME ~disturbed' PROVE Undisturbed'
      BY DEF Undisturbed
    <3>1. ~disturbed /\ w \in Saving
      BY DEF history, Saving
    <3>2. Saving = {w} /\ form = "empty" /\ mem[w] = ledger
      BY <3>1 DEF Undisturbed
    <3>3. Saving' = {}
      BY <3>2 DEF Saving, At, TypeOK
    <3>4. form' = "whole" /\ stored' = ledger
      BY <3>2
    <3>5. \A v \in current : mem[v] = ledger
      BY <3>1 DEF Undisturbed
    <3> QED BY <3>3, <3>4, <3>5 DEF Undisturbed, Loadable, history
  <2> QED BY <2>1, <2>2, <2>3
<1>8. ASSUME NEW w \in Worker, Crash(w) PROVE IInv'
  <2> USE <1>8 DEF Crash, Goto
  <2>1. TypeOK'
    BY DEF TypeOK, file
  <2>2. EveryCopyOnePerType' /\ FileInv'
    BY DEF EveryCopyOnePerType, OnePerType, FileInv, file
  <2>3. Undisturbed'
    <3> SUFFICES ASSUME ~disturbed' PROVE Undisturbed'
      BY DEF Undisturbed
    <3>1. ~disturbed /\ ~At(w, "save")
      BY DEF TypeOK, At
    <3>2. Saving' = Saving
      BY <3>1 DEF Saving, At, TypeOK
    <3>3. UNCHANGED <<form, stored, mem, ledger>> /\ current' \subseteq current
      BY <3>1 DEF file
    <3> QED BY <3>1, <3>2, <3>3 DEF Undisturbed, Loadable
  <2> QED BY <2>1, <2>2, <2>3
<1>9. CASE UNCHANGED vars
  <2> USE <1>9 DEF vars, file, work, history
  <2>1. TypeOK'
    BY DEF TypeOK
  <2>2. EveryCopyOnePerType' /\ FileInv'
    BY DEF EveryCopyOnePerType, OnePerType, FileInv
  <2>3. Undisturbed'
    BY DEF Undisturbed, Saving, At, Loadable
  <2> QED BY <2>1, <2>2, <2>3
<1> QED
  BY <1>1, <1>2, <1>3, <1>4, <1>5, <1>6, <1>7, <1>8, <1>9
  DEF Next, Work, Request

-----------------------------------------------------------------------------
LEMMA SpecIInv == Spec => []IInv
<1> QED BY InitIInv, NextIInv, PTL DEF Spec

\* The key files and every worker's copy are type-correct.
THEOREM TypeCorrect == Spec => []TypeOK
<1>1. IInv => TypeOK
  BY DEF IInv
<1> QED BY <1>1, SpecIInv, PTL

\* No save puts two keys of one type in the file (set_key).
THEOREM FileHasOneKeyPerType == Spec => []OneKeyPerType
<1>1. IInv => OneKeyPerType
  BY DEF IInv, EveryCopyOnePerType, OnePerType, OneKeyPerType
<1> QED BY <1>1, SpecIInv, PTL

\* Saves by workers that are current, one at a time and to their end, make the
\* file what was set and not removed (set_key, remove_key, get_key).
THEOREM UndisturbedFileKeepsKeys == Spec => []UndisturbedFileIsLedger
<1>1. IInv => UndisturbedFileIsLedger
  BY DEF IInv, TypeOK, FileInv, Undisturbed, UndisturbedFileIsLedger, GetKey,
         Loadable
<1> QED BY <1>1, SpecIInv, PTL

-----------------------------------------------------------------------------
\* Since the last save that met no other and was not cut short, at most one
\* worker saves, and the file it fills is the one it opened.
Undamaged ==
    ~damaged =>
        /\ \A v, w \in Saving : v = w
        /\ \A w \in Saving : form = "empty"
        /\ Saving = {} => Loadable

LEMMA InitUndamaged == Init => Undamaged
  BY DEF Init, Undamaged, Saving, At, Loadable

LEMMA OpenKeepsUndamaged ==
    ASSUME TypeOK, NEW w \in Worker, OpenForSave(w)
    PROVE  Undamaged'
<1> SUFFICES ASSUME ~damaged' PROVE Undamaged'
  BY DEF Undamaged
<1>1. Saving = {} /\ form' = "empty" /\ pc' = [pc EXCEPT ![w] = "save"]
  BY DEF OpenForSave, Goto
<1>2. Saving' = {w}
  BY <1>1 DEF Saving, At, TypeOK
<1> QED BY <1>1, <1>2 DEF Undamaged

LEMMA NextUndamaged == TypeOK /\ Undamaged /\ [Next]_vars => Undamaged'
<1> SUFFICES ASSUME TypeOK, Undamaged, [Next]_vars PROVE Undamaged'
  OBVIOUS
<1>1. ASSUME Saving' = Saving, UNCHANGED <<form, damaged>> PROVE Undamaged'
  BY <1>1 DEF Undamaged, Loadable
<1>2. ASSUME NEW w \in Worker,
             \/ Boot(w) \/ BootFails(w)
             \/ \E k \in Key : RemoveLoad(w, k)
      PROVE  Undamaged'
  <2>1. Saving' = Saving
    BY <1>2 DEF Boot, BootFails, RemoveLoad, Goto, Saving, At, TypeOK
  <2> QED BY <1>1, <1>2, <2>1 DEF Boot, BootFails, RemoveLoad, file, history
<1>3. CASE Restart
  BY <1>1, <1>3 DEF Restart, Saving, At, file, work, history
<1>4. ASSUME NEW w \in Worker, RemoveSave(w) \/ \E k \in Key : SetKey(w, k)
      PROVE  Undamaged'
  BY <1>4, OpenKeepsUndamaged DEF RemoveSave, SetKey
<1>5. ASSUME NEW w \in Worker, FinishSave(w) PROVE Undamaged'
  <2> SUFFICES ASSUME ~damaged' PROVE Undamaged'
    BY DEF Undamaged
  <2>1. ~damaged /\ w \in Saving /\ pc'[w] # "save" /\ \A v \in Worker \ {w} : pc'[v] = pc[v]
    BY <1>5 DEF FinishSave, Served, Goto, history, Saving, TypeOK
  <2>2. Saving = {w} /\ form = "empty"
    BY <2>1 DEF Undamaged
  <2>3. Saving' = {} /\ form' = "whole"
    BY <1>5, <2>1, <2>2 DEF FinishSave, Saving, At
  <2> QED BY <2>3 DEF Undamaged, Loadable
<1>6. ASSUME NEW w \in Worker, Crash(w) PROVE Undamaged'
  <2> SUFFICES ASSUME ~damaged' PROVE Undamaged'
    BY DEF Undamaged
  <2>1. ~At(w, "save") /\ ~damaged /\ UNCHANGED form
    BY <1>6 DEF Crash, TypeOK, At, file
  <2>2. Saving' = Saving
    BY <1>6, <2>1 DEF Crash, Goto, Saving, At, TypeOK
  <2> QED BY <2>1, <2>2 DEF Undamaged, Loadable
<1>7. CASE UNCHANGED vars
  BY <1>1, <1>7 DEF vars, file, work, history, Saving, At
<1> QED
  BY <1>2, <1>3, <1>4, <1>5, <1>6, <1>7 DEF Next, Work, Request

\* Between two saves every worker can boot, whatever memories were saved, unless
\* the last save itself was cut short or met another (__init__, _save_data).
THEOREM UnreadableFileIsExplained == Spec => []UnreadableIsExplained
<1>1. IInv => TypeOK
  BY DEF IInv
<1>2. Undamaged => UnreadableIsExplained
  BY DEF Undamaged, UnreadableIsExplained
<1> QED BY <1>1, <1>2, SpecIInv, InitUndamaged, NextUndamaged, PTL DEF Spec
=============================================================================
