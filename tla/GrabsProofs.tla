---------------------------- MODULE GrabsProofs -----------------------------
(***************************************************************************)
(* Theorems about Grabs, for any number of clients and grabs.              *)
(***************************************************************************)
EXTENDS Grabs, TLAPS

(* The type invariant is inductive.                                        *)
THEOREM TypeCorrect == Spec => []TypeOK
<1>1. Init => TypeOK
  BY GrabsAssumption DEF Init, TypeOK
<1>2. TypeOK /\ [Next]_vars => TypeOK'
  <2> SUFFICES ASSUME TypeOK, [Next]_vars
               PROVE  TypeOK'
    OBVIOUS
  <2> USE GrabsAssumption DEF TypeOK, Idle, Begin, Send, Return, Throw
  <2>1. ASSUME NEW c \in Clients, GetInstObjects(c)
        PROVE  TypeOK'
    BY <2>1 DEF GetInstObjects, bounds
  <2>2. ASSUME NEW c \in Clients, NEW g \in AllGrabs, GrabObject(c, g)
        PROVE  TypeOK'
    <3>1. sure' \in [Clients -> BOOLEAN] /\ calls' \in 0 .. MaxCalls
      BY <2>2 DEF GrabObject
    <3>2. op' \in [Clients -> {"none", "grab", "release"}]
      BY <2>2 DEF GrabObject
    <3>3. arg' \in [Clients -> AllGrabs \cup {None}]
      BY <2>2 DEF GrabObject
    <3>4. CASE g \in cache[c] /\ Return(c)
      BY <2>2, <3>1, <3>2, <3>3, <3>4 DEF GrabObject
    <3>5. CASE Send(c, With(cache[c], g), TRUE)
      BY <2>2, <3>1, <3>2, <3>3, <3>5 DEF GrabObject, With
    <3>6. QED
      BY <2>2, <3>4, <3>5 DEF GrabObject
  <2>3. ASSUME NEW c \in Clients, NEW g \in AllGrabs, ReleaseObject(c, g)
        PROVE  TypeOK'
    <3>1. sure' \in [Clients -> BOOLEAN] /\ calls' \in 0 .. MaxCalls
      BY <2>3 DEF ReleaseObject
    <3>2. op' \in [Clients -> {"none", "grab", "release"}]
      BY <2>3 DEF ReleaseObject
    <3>3. arg' \in [Clients -> AllGrabs \cup {None}]
      BY <2>3 DEF ReleaseObject
    <3>4. CASE Return(c) /\ UNCHANGED <<cache, current>>
      BY <2>3, <3>1, <3>2, <3>3, <3>4 DEF ReleaseObject
    <3>5. CASE /\ Erase(c, g) /\ Send(c, cache[c] \ {g}, Valid(cache[c] \ {g}))
               /\ current' = [current EXCEPT ![c] = FALSE]
      <4>1. Valid(cache[c] \ {g}) \in BOOLEAN
        BY DEF Valid
      <4>2. json' \in [Clients -> BOOLEAN]
        BY <3>5, <4>1
      <4>3. QED
        BY <2>3, <3>1, <3>2, <3>3, <3>5, <4>2 DEF ReleaseObject, Erase
    <3>6. QED
      BY <2>3, <3>4, <3>5 DEF ReleaseObject
  <2>4. ASSUME NEW c \in Clients, Answered(c)
        PROVE  TypeOK'
    BY <2>4 DEF Answered, Written, bounds
  <2>5. ASSUME NEW c \in Clients, Refused(c)
        PROVE  TypeOK'
    BY <2>5 DEF Refused, bounds, history
  <2>6. ASSUME NEW c \in Clients, Lost(c)
        PROVE  TypeOK'
    <3>1. faults' \in 0 .. MaxFaults /\ pc' \in [Clients -> {"idle", "put", "thrown"}]
      BY <2>6 DEF Lost
    <3>2. CASE Written(c)
      BY <2>6, <3>1, <3>2 DEF Lost, Written
    <3>3. CASE UNCHANGED <<grabs, history>>
      BY <2>6, <3>1, <3>3 DEF Lost, history
    <3>4. QED
      BY <2>6, <3>2, <3>3 DEF Lost
  <2>7. CASE UNCHANGED vars
    BY <2>7 DEF vars, client, bounds, history
  <2>8. QED
    BY <2>1, <2>2, <2>3, <2>4, <2>5, <2>6, <2>7 DEF Next
<1>3. QED
  BY <1>1, <1>2, PTL DEF Spec

-----------------------------------------------------------------------------
(* What is in a request, compared with the copy and with the controller's  *)
(* list.                                                                   *)
RequestInv ==
    \A c \in Clients : pc[c] = "put" =>
        \/ /\ op[c] = "grab" /\ list[c] = cache[c] \cup {arg[c]}
           /\ sure[c] => cache[c] = grabs
        \/ /\ op[c] = "release" /\ list[c] = cache[c] /\ ~current[c]
           /\ sure[c] => cache[c] = grabs \ {arg[c]} /\ arg[c] \in released

CurrentInv == \A c \in Clients : current[c] => cache[c] = grabs

IInv == TypeOK /\ RequestInv /\ CurrentInv /\ ReturnedMeansDone

LEMMA Initially == Init => IInv
  BY GrabsAssumption DEF Init, IInv, TypeOK, RequestInv, CurrentInv, ReturnedMeansDone

(* What a write leaves of the invariant; both ways in which one is noticed *)
(* or not share it.                                                        *)
LEMMA WriteKeeps ==
  ASSUME IInv, NEW c \in Clients, pc[c] = "put", Written(c),
         pc'[c] # "put", \A d \in Clients \ {c} : pc'[d] = pc[d],
         pc' \in [Clients -> {"idle", "put", "thrown"}],
         UNCHANGED <<cache, op, arg, list, json>>
  PROVE  RequestInv' /\ CurrentInv' /\ ReturnedMeansDone'
<1> USE DEF IInv, TypeOK, Written
<1>1. sure[c] /\ op[c] = "release" => cache[c] = grabs'
  BY DEF RequestInv
<1>2. CurrentInv'
  BY <1>1 DEF CurrentInv
<1>3. RequestInv'
  <2> SUFFICES ASSUME NEW d \in Clients, pc'[d] = "put"
               PROVE  \/ /\ op'[d] = "grab" /\ list'[d] = cache'[d] \cup {arg'[d]}
                         /\ sure'[d] => cache'[d] = grabs'
                      \/ /\ op'[d] = "release" /\ list'[d] = cache'[d] /\ ~current'[d]
                         /\ sure'[d] => cache'[d] = grabs' \ {arg'[d]} /\ arg'[d] \in released'
    BY DEF RequestInv
  <2>1. d # c /\ pc[d] = "put" /\ ~current'[d]
    OBVIOUS
  <2>2. sure'[d] => sure[d] /\ grabs' = grabs
    BY <2>1
  <2>3. grabs' = grabs => released' = released
    OBVIOUS
  <2>4. QED
    BY <2>1, <2>2, <2>3 DEF RequestInv
<1>4. ReturnedMeansDone'
  <2> SUFFICES ASSUME NEW d \in Clients, pc'[d] = "idle", sure'[d]
               PROVE  /\ op'[d] = "grab" => arg'[d] \in grabs'
                      /\ op'[d] = "release" => arg'[d] \notin grabs'
    BY DEF ReturnedMeansDone
  <2>1. CASE d = c
    BY <2>1 DEF RequestInv
  <2>2. CASE d # c
    BY <2>2 DEF ReturnedMeansDone
  <2>3. QED
    BY <2>1, <2>2
<1>5. QED
  BY <1>2, <1>3, <1>4

LEMMA Inductive == IInv /\ TypeOK' /\ [Next]_vars => IInv'
<1> SUFFICES ASSUME IInv, TypeOK', [Next]_vars
             PROVE  RequestInv' /\ CurrentInv' /\ ReturnedMeansDone'
  BY DEF IInv
<1> USE DEF Idle, Begin, Send, Return, Throw
<1>1. ASSUME NEW c \in Clients, GetInstObjects(c)
      PROVE  RequestInv' /\ CurrentInv' /\ ReturnedMeansDone'
  BY <1>1 DEF GetInstObjects, bounds, IInv, TypeOK, RequestInv, CurrentInv, ReturnedMeansDone
<1>2. ASSUME NEW c \in Clients, NEW g \in AllGrabs, GrabObject(c, g)
      PROVE  RequestInv' /\ CurrentInv' /\ ReturnedMeansDone'
  <2>1. UNCHANGED <<grabs, cache, current, released>> /\ CurrentInv'
    BY <1>2 DEF GrabObject, IInv, CurrentInv
  <2>2. /\ op'[c] = "grab" /\ arg'[c] = g /\ sure'[c] = current[c]
        /\ \A d \in Clients \ {c} : op'[d] = op[d] /\ arg'[d] = arg[d] /\ sure'[d] = sure[d]
    BY <1>2 DEF GrabObject, IInv, TypeOK
  <2>3. \A d \in Clients \ {c} : pc'[d] = pc[d] /\ list'[d] = list[d]
    BY <1>2 DEF GrabObject, IInv, TypeOK
  <2>4. \/ g \in cache[c] /\ pc'[c] = "idle"
        \/ pc'[c] = "put" /\ list'[c] = cache[c] \cup {g}
    BY <1>2 DEF GrabObject, With, IInv, TypeOK
  <2>5. sure'[c] => cache[c] = grabs
    BY <2>2 DEF IInv, CurrentInv
  <2>6. RequestInv'
    BY <2>1, <2>2, <2>3, <2>4, <2>5 DEF IInv, RequestInv
  <2>7. ReturnedMeansDone'
    BY <2>1, <2>2, <2>3, <2>4, <2>5 DEF IInv, ReturnedMeansDone
  <2>8. QED
    BY <2>1, <2>6, <2>7
<1>3. ASSUME NEW c \in Clients, NEW g \in AllGrabs, ReleaseObject(c, g)
      PROVE  RequestInv' /\ CurrentInv' /\ ReturnedMeansDone'
  <2>1. /\ grabs' = grabs /\ released' = released \cup {g}
        /\ \A d \in Clients \ {c} : cache'[d] = cache[d] /\ current'[d] = current[d]
    BY <1>3 DEF ReleaseObject, Erase, IInv, TypeOK
  <2>2. /\ op'[c] = "release" /\ arg'[c] = g /\ sure'[c] = current[c]
        /\ \A d \in Clients \ {c} : op'[d] = op[d] /\ arg'[d] = arg[d] /\ sure'[d] = sure[d]
    BY <1>3 DEF ReleaseObject, IInv, TypeOK
  <2>3. \A d \in Clients \ {c} : pc'[d] = pc[d] /\ list'[d] = list[d]
    BY <1>3 DEF ReleaseObject, IInv, TypeOK
  <2>4. \/ /\ g \notin cache[c] /\ pc'[c] = "idle"
           /\ cache'[c] = cache[c] /\ current'[c] = current[c]
        \/ /\ pc'[c] = "put" /\ list'[c] = cache'[c] /\ ~current'[c]
           /\ cache'[c] = cache[c] \ {g}
    <3>1. CASE g \notin cache[c] /\ Return(c) /\ UNCHANGED <<cache, current>>
      BY <3>1 DEF IInv, TypeOK
    <3>2. CASE /\ Erase(c, g) /\ Send(c, cache[c] \ {g}, Valid(cache[c] \ {g}))
               /\ current' = [current EXCEPT ![c] = FALSE]
      <4>1. cache'[c] = cache[c] \ {g} /\ ~current'[c]
        BY <3>2 DEF Erase, IInv, TypeOK
      <4>2. pc'[c] = "put" /\ list'[c] = cache[c] \ {g}
        BY <3>2 DEF IInv, TypeOK
      <4>3. QED
        BY <4>1, <4>2
    <3>3. QED
      BY <1>3, <3>1, <3>2 DEF ReleaseObject
  <2>5. sure'[c] => cache[c] = grabs
    BY <2>2 DEF IInv, CurrentInv
  <2>6. RequestInv'
    BY <2>1, <2>2, <2>3, <2>4, <2>5 DEF IInv, RequestInv
  <2>7. CurrentInv'
    BY <2>1, <2>4 DEF IInv, CurrentInv
  <2>8. ReturnedMeansDone'
    BY <2>1, <2>2, <2>3, <2>4, <2>5 DEF IInv, ReturnedMeansDone
  <2>9. QED
    BY <2>6, <2>7, <2>8
<1>4. ASSUME NEW c \in Clients, Answered(c)
      PROVE  RequestInv' /\ CurrentInv' /\ ReturnedMeansDone'
  BY <1>4, WriteKeeps DEF Answered, IInv, TypeOK
<1>5. ASSUME NEW c \in Clients, Refused(c)
      PROVE  RequestInv' /\ CurrentInv' /\ ReturnedMeansDone'
  BY <1>5 DEF Refused, bounds, history, IInv, TypeOK, RequestInv, CurrentInv, ReturnedMeansDone
<1>6. ASSUME NEW c \in Clients, Lost(c)
      PROVE  RequestInv' /\ CurrentInv' /\ ReturnedMeansDone'
  <2>1. CASE Written(c)
    BY <1>6, <2>1, WriteKeeps DEF Lost, IInv, TypeOK
  <2>2. CASE UNCHANGED <<grabs, history>>
    BY <1>6, <2>2 DEF Lost, history, IInv, TypeOK, RequestInv, CurrentInv, ReturnedMeansDone
  <2>3. QED
    BY <1>6, <2>1, <2>2 DEF Lost
<1>7. CASE UNCHANGED vars
  BY <1>7 DEF vars, client, bounds, history, IInv, RequestInv, CurrentInv, ReturnedMeansDone
<1>8. QED
  BY <1>1, <1>2, <1>3, <1>4, <1>5, <1>6, <1>7 DEF Next

LEMMA Invariant == Spec => []IInv
  BY Initially, Inductive, TypeCorrect, PTL DEF Spec

(* Whoever has an up-to-date copy knows what the robot grabs.              *)
THEOREM CopyTrue == Spec => []CopyIsCurrent
<1>1. IInv => CopyIsCurrent
  BY DEF IInv, CurrentInv, CopyIsCurrent
<1>2. QED
  BY <1>1, Invariant, PTL

(* Undisturbed calls that return have done their work.                     *)
THEOREM ReturnMeansDone == Spec => []ReturnedMeansDone
<1>1. IInv => ReturnedMeansDone
  BY DEF IInv
<1>2. QED
  BY <1>1, Invariant, PTL

(* No grab is lost but to a release or to a copy out of date.              *)
THEOREM NoGrabLost == Spec => GrabsStay
<1> DEFINE Step ==
      \A g \in grabs \ grabs' :
          g \in released \/ \E c \in Clients : pc[c] = "put" /\ pc'[c] # "put" /\ ~sure[c]
<1>1. IInv /\ [Next]_vars => [Step]_vars
  <2> SUFFICES ASSUME IInv, Next, NEW g \in grabs \ grabs',
                      \A c \in Clients : pc[c] = "put" /\ pc'[c] # "put" => sure[c]
               PROVE  g \in released
    BY DEF vars
  <2>a. ASSUME NEW c \in Clients, Answered(c) \/ Lost(c)
        PROVE  pc[c] = "put" /\ pc'[c] # "put" /\ grabs' = list[c]
    BY <2>a DEF Answered, Lost, Written, Return, Throw, IInv, TypeOK
  <2>b. \A c \in Clients : ~GetInstObjects(c) /\ ~Refused(c)
    BY DEF GetInstObjects, Refused
  <2>c. \A c \in Clients, new \in AllGrabs : ~GrabObject(c, new) /\ ~ReleaseObject(c, new)
    BY DEF GrabObject, ReleaseObject
  <2>1. PICK c \in Clients : pc[c] = "put" /\ pc'[c] # "put" /\ grabs' = list[c]
    BY <2>a, <2>b, <2>c DEF Next
  <2>2. sure[c]
    BY <2>1
  <2>3. QED
    BY <2>1, <2>2 DEF IInv, RequestInv
<1>2. QED
  BY <1>1, Invariant, PTL DEF Spec, GrabsStay
=============================================================================
