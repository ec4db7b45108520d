------------------------------ MODULE KeyStore ------------------------------
(***************************************************************************)
(* validator/node_data_manager.py: the DKG keys of a node, in a JSON file  *)
(* and in the memory of each of the gunicorn workers of validator/node.py. *)
(*                                                                         *)
(* A worker serves one request at a time and reads the file at its boot;   *)
(* set_key saves what the worker has in memory, remove_key reads the file  *)
(* first.  A save truncates the file when it opens it and fills it later.  *)
(* Which keys are made, and when, is the DKG's (pyfrost): external.        *)
(***************************************************************************)
EXTENDS Integers, FiniteSets

CONSTANTS
    Worker,     \* the node's worker processes
    Key,        \* keys the DKG makes, each once
    KeyType,    \* value["key_type"] of each key
    NoKey,      \* no key
    MaxFaults   \* bound: workers killed

ASSUME KeyAssumption ==
    /\ NoKey \notin Key
    /\ MaxFaults \in Nat
    /\ KeyType = [k \in Key |-> KeyType[k]]

VARIABLES
    form,      \* the file: "absent", "empty", "whole" or "torn"
    stored,    \* keys in it, {} unless it is whole
    mem,       \* __dkg_keys of each worker
    pc,        \* "down", "idle", "remove" (file read) or "save" (file opened)
    victim,    \* key a worker removes
    halted,    \* gunicorn stops: a worker failed to boot
    faults,    \* workers killed so far
    made,      \* keys the DKG made
    ledger,    \* history: the keys set, not replaced and not removed
    current,   \* history: workers that read or wrote the file since the
               \* last save began
    disturbed, \* history: a save by a worker that was not current, beside
               \* another save, or cut short
    damaged    \* history: the last save was cut short or met another

file == <<form, stored>>
work == <<mem, pc, victim>>
history == <<made, ledger, current, disturbed, damaged>>
vars == <<file, work, halted, faults, history>>

TypeOK ==
    /\ form \in {"absent", "empty", "whole", "torn"}
    /\ stored \in SUBSET Key
    /\ mem \in [Worker -> SUBSET Key]
    /\ pc \in [Worker -> {"down", "idle", "remove", "save"}]
    /\ victim \in [Worker -> Key \cup {NoKey}]
    /\ halted \in BOOLEAN /\ faults \in Nat
    /\ made \in SUBSET Key /\ ledger \in SUBSET Key
    /\ current \in SUBSET Worker
    /\ disturbed \in BOOLEAN /\ damaged \in BOOLEAN

Init ==
    /\ form = "absent" /\ stored = {}
    /\ mem = [w \in Worker |-> {}]
    /\ pc = [w \in Worker |-> "down"]
    /\ victim = [w \in Worker |-> NoKey]
    /\ halted = FALSE /\ faults = 0
    /\ made = {} /\ ledger = {} /\ current = {}
    /\ disturbed = FALSE /\ damaged = FALSE

At(w, label) == pc[w] = label
Saving == {w \in Worker : At(w, "save")}
Goto(w, label) == pc' = [pc EXCEPT ![w] = label]

-----------------------------------------------------------------------------
\* Mutant: a file that is not there yet is an error.
LoadableWhole == form = "whole"

\* _load_data returns: json.load raises on an empty or a torn file.
Loadable == form \in {"absent", "whole"}

\* get_key finds k.
GetKey(k) == form = "whole" /\ k \in stored

\* __init__ in a new worker.
Boot(w) ==
    /\ At(w, "down") /\ ~halted /\ Loadable
    /\ Goto(w, "idle")
    /\ mem' = [mem EXCEPT ![w] = stored]
    /\ current' = current \cup {w}
    /\ UNCHANGED <<file, victim, halted, faults, made, ledger>>
    /\ UNCHANGED <<disturbed, damaged>>

\* __init__ raises: gunicorn stops, each worker after the request it serves.
BootFails(w) ==
    /\ At(w, "down") /\ ~halted /\ ~Loadable
    /\ halted' = TRUE
    /\ pc' = [v \in Worker |-> IF At(v, "idle") THEN "down" ELSE pc[v]]
    /\ UNCHANGED <<file, mem, victim, faults, history>>

\* The container starts again.
Restart ==
    /\ halted /\ \A w \in Worker : At(w, "down")
    /\ halted' = FALSE
    /\ UNCHANGED <<file, work, faults, history>>

Served(w) == Goto(w, IF halted THEN "down" ELSE "idle")

-----------------------------------------------------------------------------
\* open(file_path, "w"), in both callers of _save_data.
OpenForSave(w) ==
    /\ Goto(w, "save")
    /\ form' = "empty" /\ stored' = {}
    /\ current' = {w}
    /\ disturbed' = (disturbed \/ w \notin current \/ Saving # {})
    /\ damaged' = (Saving # {})

SameType(k, S) == {j \in S : KeyType[j] = KeyType[k]}

\* Mutant: the key of that type is kept.
ReplacingNone(S, k) == {S \cup {k}}

\* The outcomes of the loop of set_key, which stops at the first key of the
\* type (the order of the dict is not modelled), and of the assignment.
Replacing(S, k) ==
    {(S \ gone) \cup {k} :
        gone \in IF SameType(k, S) = {} THEN {{}}
                 ELSE {{j} : j \in SameType(k, S)}}

\* set_key, up to the opening of the file.
SetKey(w, k) ==
    /\ At(w, "idle") /\ ~halted /\ k \in Key \ made
    /\ \E S \in Replacing(mem[w], k) : mem' = [mem EXCEPT ![w] = S]
    /\ OpenForSave(w)
    /\ made' = made \cup {k}
    /\ ledger' = (ledger \ SameType(k, ledger)) \cup {k}
    /\ UNCHANGED <<victim, halted, faults>>

\* Mutant: remove_key works on the worker's memory, as set_key does.
RemoveLoadMemory(w, k) ==
    /\ At(w, "idle") /\ ~halted /\ Loadable /\ k \in made
    /\ IF k \in mem[w]
       THEN Goto(w, "remove") /\ victim' = [victim EXCEPT ![w] = k]
       ELSE UNCHANGED <<pc, victim>>
    /\ UNCHANGED mem
    /\ current' = current \cup {w}
    /\ UNCHANGED <<file, halted, faults, made, ledger, disturbed, damaged>>

\* remove_key reads the file; a key that is not there needs no save.
RemoveLoad(w, k) ==
    /\ At(w, "idle") /\ ~halted /\ Loadable /\ k \in made
    /\ mem' = [mem EXCEPT ![w] = stored]
    /\ IF k \in stored
       THEN Goto(w, "remove") /\ victim' = [victim EXCEPT ![w] = k]
       ELSE UNCHANGED <<pc, victim>>
    /\ current' = current \cup {w}
    /\ UNCHANGED <<file, halted, faults, made, ledger, disturbed, damaged>>

RemoveSave(w) ==
    /\ At(w, "remove")
    /\ mem' = [mem EXCEPT ![w] = @ \ {victim[w]}]
    /\ victim' = [victim EXCEPT ![w] = NoKey]
    /\ OpenForSave(w)
    /\ ledger' = ledger \ {victim[w]}
    /\ UNCHANGED <<halted, faults, made>>

\* Mutant: the file is left before what was dumped reaches it.
FinishUnflushed(w) ==
    /\ At(w, "save")
    /\ Served(w)
    /\ UNCHANGED <<file, mem, victim, halted, faults, history>>

\* json.dump and the close.  Over what another worker wrote since the file
\* was opened, a dump that is not the longer one can leave a tail.
FinishSave(w) ==
    /\ At(w, "save")
    /\ \/ /\ form = "whole" => Cardinality(stored) <= Cardinality(mem[w])
          /\ form' = "whole" /\ stored' = mem[w]
       \/ /\ \/ form = "torn"
             \/ form = "whole" /\ Cardinality(mem[w]) <= Cardinality(stored)
          /\ form' = "torn" /\ stored' = {}
    /\ Served(w)
    /\ UNCHANGED <<mem, victim, halted, faults, history>>

\* gunicorn kills a worker (its timeout) or the worker dies; gunicorn boots
\* another in its place.  A save under way leaves the file as it is or torn.
Crash(w) ==
    /\ ~At(w, "down") /\ faults < MaxFaults
    /\ faults' = faults + 1
    /\ Goto(w, "down")
    /\ victim' = [victim EXCEPT ![w] = NoKey]
    /\ \/ UNCHANGED file
       \/ At(w, "save") /\ form' = "torn" /\ stored' = {}
    /\ disturbed' = (disturbed \/ At(w, "save"))
    /\ damaged' = (damaged \/ At(w, "save"))
    /\ current' = current \ {w}
    /\ UNCHANGED <<mem, halted, made, ledger>>

-----------------------------------------------------------------------------
Work(w) ==
    \/ Boot(w) \/ BootFails(w)
    \/ RemoveSave(w) \/ FinishSave(w)

Request(w) == \E k \in Key : SetKey(w, k) \/ RemoveLoad(w, k)

Next ==
    \/ Restart
    \/ \E w \in Worker : Work(w) \/ Request(w) \/ Crash(w)

Spec == Init /\ [][Next]_vars

\* gunicorn keeps its workers, docker restarts the container (on-failure:5: a
\* boot that meets a save is rare), a request that is served is served to
\* its end.
FairSpec ==
    /\ Spec
    /\ WF_vars(Restart)
    /\ \A w \in Worker : WF_vars(Work(w))

-----------------------------------------------------------------------------
\* The file never has two keys of one type, whatever the workers do: each
\* save writes a memory that has one key per type (set_key).
OneKeyPerType ==
    \A j, k \in stored : KeyType[j] = KeyType[k] => j = k

\* As long as each save is made by a worker that has read or written the file
\* since the last save, alone and to its end, get_key finds a key exactly if
\* it was set and neither replaced nor removed (set_key, remove_key, get_key).
UndisturbedFileIsLedger ==
    ~disturbed /\ Saving = {} => \A k \in Key : GetKey(k) <=> k \in ledger

\* A worker can boot at any moment between two saves, unless the last save was
\* cut short or met another: the next one that does not opens the file anew
\* and leaves it whole, also that of a worker with an old memory (__init__,
\* _save_data).
UnreadableIsExplained == Loadable \/ Saving # {} \/ damaged

\* No save is under way and the file is not JSON.
Unreadable == form \in {"empty", "torn"} /\ Saving = {}

\* After any number of kills, a stop of the whole node included, every worker
\* serves again, or the file is one that no worker can read.
WorkersReturn == \A w \in Worker : At(w, "down") ~> (At(w, "idle") \/ Unreadable)
=============================================================================
