------------------------------- MODULE Grabs --------------------------------
(***************************************************************************)
(* What a robot grabs: the controller's list and the copies in the         *)
(* InstObjects of several clients (GetInstObjects, GrabObject and          *)
(* ReleaseObject of src/src/mujincontrollerclient.cpp).  Both methods      *)
(* change the list by writing all of it, from the copy.                    *)
(***************************************************************************)
EXTENDS Naturals, FiniteSets

CONSTANTS
    Clients,   \* each with one InstObject of the same robot
    AllGrabs,  \* pairs of links that can be joined
    None,      \* no grab
    MaxCalls,  \* bound on the calls of GrabObject and ReleaseObject
    MaxFaults  \* bound on the requests that are lost

ASSUME GrabsAssumption ==
    None \notin AllGrabs /\ MaxCalls \in Nat /\ MaxFaults \in Nat

VARIABLES
    grabs,      \* the controller's list
    cache,      \* InstObject::grabs
    pc, op, arg,\* call that is under way, or was last
    list, json, \* list in the request, and whether it is valid JSON
    calls, faults,
    \* history
    current,    \* the copy reflects every write
    sure,       \* it did when the call began, and nobody else wrote since
    released    \* grabs whose release was asked for since they were made

client  == <<cache, pc, op, arg, list, json>>
bounds  == <<calls, faults>>
history == <<current, sure, released>>
vars    == <<grabs, client, bounds, history>>

TypeOK ==
    /\ grabs \subseteq AllGrabs /\ cache \in [Clients -> SUBSET AllGrabs]
    /\ pc \in [Clients -> {"idle", "put", "thrown"}]
    /\ op \in [Clients -> {"none", "grab", "release"}]
    /\ arg \in [Clients -> AllGrabs \cup {None}]
    /\ list \in [Clients -> SUBSET AllGrabs] /\ json \in [Clients -> BOOLEAN]
    /\ calls \in 0 .. MaxCalls /\ faults \in 0 .. MaxFaults
    /\ current \in [Clients -> BOOLEAN] /\ sure \in [Clients -> BOOLEAN]
    /\ released \subseteq AllGrabs

Init ==
    /\ grabs \in SUBSET AllGrabs /\ cache = [c \in Clients |-> grabs]
    /\ pc = [c \in Clients |-> "idle"] /\ op = [c \in Clients |-> "none"]
    /\ arg = [c \in Clients |-> None]
    /\ list = [c \in Clients |-> {}] /\ json = [c \in Clients |-> TRUE]
    /\ calls = 0 /\ faults = 0
    /\ current = [c \in Clients |-> TRUE] /\ sure = [c \in Clients |-> FALSE]
    /\ released = {}

-----------------------------------------------------------------------------
Idle(c) == pc[c] # "put"

GetInstObjects(c) ==
    /\ Idle(c)
    /\ cache' = [cache EXCEPT ![c] = grabs]
    /\ current' = [current EXCEPT ![c] = TRUE]
    /\ op' = [op EXCEPT ![c] = "none"]
    /\ UNCHANGED <<grabs, pc, arg, list, json, bounds, sure, released>>

Begin(c, what, g) ==
    /\ Idle(c) /\ calls < MaxCalls
    /\ calls' = calls + 1
    /\ op' = [op EXCEPT ![c] = what] /\ arg' = [arg EXCEPT ![c] = g]
    /\ sure' = [sure EXCEPT ![c] = current[c]]

Send(c, new, valid) ==
    /\ pc' = [pc EXCEPT ![c] = "put"]
    /\ list' = [list EXCEPT ![c] = new] /\ json' = [json EXCEPT ![c] = valid]

Return(c) == pc' = [pc EXCEPT ![c] = "idle"] /\ UNCHANGED <<list, json>>

(* Mutants: the list holds only the new grab; it does not hold it.         *)
WithOnly(copy, g) == {g}

WithNothing(copy, g) == copy

With(copy, g) == copy \cup {g}

GrabObject(c, g) ==
    /\ Begin(c, "grab", g)
    /\ \/ g \in cache[c] /\ Return(c)
       \/ g \notin cache[c] /\ Send(c, With(cache[c], g), TRUE)
    /\ UNCHANGED <<grabs, cache, faults, current, released>>

(* A comma follows each grab that is left, so that only the empty list is  *)
(* valid JSON.                                                             *)
Valid(rest) == rest = {}

(* Mutant: the copy is left alone.                                         *)
EraseNothing(c, g) == UNCHANGED cache

Erase(c, g) == cache' = [cache EXCEPT ![c] = @ \ {g}]

(* The copy changes before the request is made.                            *)
ReleaseObject(c, g) ==
    /\ Begin(c, "release", g)
    /\ \/ g \notin cache[c] /\ Return(c) /\ UNCHANGED <<cache, current>>
       \/ /\ g \in cache[c]
          /\ Erase(c, g)
          /\ Send(c, cache[c] \ {g}, Valid(cache[c] \ {g}))
          /\ current' = [current EXCEPT ![c] = FALSE]
    /\ released' = released \cup {g}
    /\ UNCHANGED <<grabs, faults>>

(* The controller takes a valid list (external).  Copies of others are     *)
(* out of date, and so is the writer's after GrabObject.                   *)
Written(c) ==
    /\ json[c]
    /\ grabs' = list[c]
    /\ current' = [d \in Clients |-> d = c /\ op[c] = "release" /\ sure[c]]
    /\ sure' = [d \in Clients |-> sure[d] /\ (d = c \/ grabs' = grabs)]
    /\ released' = released \ (list[c] \ grabs)

Answered(c) ==
    /\ pc[c] = "put" /\ Written(c) /\ Return(c)
    /\ UNCHANGED <<cache, op, arg, bounds>>

Throw(c) == pc' = [pc EXCEPT ![c] = "thrown"]

Refused(c) ==
    /\ pc[c] = "put" /\ ~json[c] /\ Throw(c)
    /\ UNCHANGED <<grabs, cache, op, arg, list, json, bounds, history>>

Lost(c) ==
    /\ pc[c] = "put" /\ faults < MaxFaults /\ faults' = faults + 1
    /\ Throw(c)
    /\ Written(c) \/ UNCHANGED <<grabs, history>>
    /\ UNCHANGED <<cache, op, arg, list, json, calls>>

Next ==
    \E c \in Clients :
        \/ GetInstObjects(c) \/ Answered(c) \/ Refused(c) \/ Lost(c)
        \/ \E g \in AllGrabs : GrabObject(c, g) \/ ReleaseObject(c, g)

Spec == Init /\ [][Next]_vars

-----------------------------------------------------------------------------
(* A client whose copy is up to date knows what the robot grabs, also      *)
(* after it released something and after requests that failed.             *)
CopyIsCurrent == \A c \in Clients : Idle(c) /\ current[c] => cache[c] = grabs

(* A method that returns has done what it was called for, if the copy was  *)
(* up to date when it began and nobody else changed the list since.        *)
ReturnedMeansDone ==
    \A c \in Clients : pc[c] = "idle" /\ sure[c] =>
        /\ op[c] = "grab" => arg[c] \in grabs
        /\ op[c] = "release" => arg[c] \notin grabs

(* A grab that nobody asked to release is lost only to a client that       *)
(* writes from a copy that is not up to date.                              *)
GrabsStay ==
    [][\A g \in grabs \ grabs' :
          g \in released \/ \E c \in Clients : pc[c] = "put" /\ pc'[c] # "put" /\ ~sure[c]]_vars
=============================================================================
