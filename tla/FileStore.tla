----------------------------- MODULE FileStore ------------------------------
(***************************************************************************)
(* What callers of the uploads and deletions of ControllerClient are       *)
(* promised of the file system they share: it is a tree, which a call      *)
(* extends towards its own things, and from which it takes what it names   *)
(* with all that is below.  A call may be given up at any point and begun  *)
(* again; one that returns has what it promised in the tree, unless        *)
(* something was removed.  Module WebDav implements this one.              *)
(***************************************************************************)
EXTENDS Naturals, Sequences, SequencesExt

CONSTANTS
    Clients,      \* each makes one call
    Paths         \* sequences of names

VARIABLES
    stored,       \* the paths of the tree
    wanted,       \* what the call of each client may store
    promised,     \* what it has stored when it returns
    unwanted,     \* what it removes
    status,       \* idle, busy, done or thrown
    removed       \* whether anything was ever removed

storeVars == <<stored, wanted, promised, unwanted, status, removed>>

StoreInit ==
    /\ stored = {<<>>} /\ removed = FALSE
    /\ wanted \in [Clients -> SUBSET Paths] /\ unwanted \in [Clients -> SUBSET Paths]
    /\ promised \in [Clients -> SUBSET Paths] /\ \A c \in Clients : promised[c] \subseteq wanted[c]
    /\ status = [c \in Clients |-> "idle"]

Begin(c) ==
    /\ status[c] \in {"idle", "thrown"}
    /\ status' = [status EXCEPT ![c] = "busy"]
    /\ UNCHANGED <<stored, wanted, promised, unwanted, removed>>

(* A step of a call, after which the call goes on or is given up.          *)
Step(c) ==
    /\ status[c] = "busy"
    /\ status' = status \/ status' = [status EXCEPT ![c] = "thrown"]
    /\ UNCHANGED <<wanted, promised, unwanted>>

(* The first n names of the path p, and the directories they are in.       *)
Store(c, p, n) ==
    /\ Step(c) /\ p \in wanted[c]
    /\ stored' = stored \cup {SubSeq(p, 1, k) : k \in 0 .. n}
    /\ UNCHANGED removed

TakeAway(c, p) ==
    /\ Step(c) /\ p \in unwanted[c] \ {<<>>}
    /\ stored' = {q \in stored : ~IsPrefix(p, q)}
    /\ removed' = TRUE

Fail(c) == Step(c) /\ UNCHANGED <<stored, removed>>

Return(c) ==
    /\ status[c] = "busy" /\ (promised[c] \subseteq stored \/ removed)
    /\ status' = [status EXCEPT ![c] = "done"]
    /\ UNCHANGED <<stored, wanted, promised, unwanted, removed>>

StoreNext ==
    \E c \in Clients :
        \/ Begin(c) \/ Fail(c) \/ Return(c)
        \/ \E p \in wanted[c] : \E n \in 0 .. Len(p) : Store(c, p, n)
        \/ \E p \in unwanted[c] : TakeAway(c, p)

StoreSpec == StoreInit /\ [][StoreNext]_storeVars
=============================================================================
