-------------------------- MODULE TaskStateProofs ---------------------------
(***************************************************************************)
(* Theorems about TaskState, for any slaves, time-outs and numbers of      *)
(* calls, heartbeats and lost connections.                                 *)
(***************************************************************************)
EXTENDS TaskState, TLAPS

LEMMA StateTyped ==
  ASSUME NEW s \in Slaves \cup {None}, NEW v \in 0 .. MaxVersion
  PROVE  State(s, v) \in States /\ Timeless(s, v) \in States
<1>1. 0 \in 0 .. MaxVersion
  BY TaskAssumption
<1>2. QED
  BY <1>1 DEF State, Timeless, States

LEMMA EmptyQueue == <<>> \in Seq(Message) /\ Len(<<>>) <= MaxQueue
  BY TaskAssumption

LEMMA EmptyTyped == Empty \in States
  BY TaskAssumption, StateTyped DEF Empty

LEMMA CallEndsTyped ==
  ASSUME CallEnds
  PROVE  copy' \in States /\ floor' \in 0 .. MaxVersion /\ upc' = "idle"
  BY TaskAssumption, EmptyTyped DEF CallEnds

LEMMA HeadTyped ==
  ASSUME TypeOK, queue # <<>>
  PROVE  /\ Head(queue) \in Message /\ Tail(queue) \in Seq(Message)
         /\ Len(Tail(queue)) <= MaxQueue
  BY TaskAssumption DEF TypeOK

LEMMA ParseTyped ==
  ASSUME TypeOK, NEW m \in Message
  PROVE  Parse(m) \in States
<1>1. m.version \in 0 .. MaxVersion
  BY TaskAssumption DEF Message, Versions
<1>2. hbstate \in States /\ mslave \in Slaves \cup {None}
  BY DEF TypeOK
<1>3. [hbstate EXCEPT !.slave = mslave, !.time = m.version] \in States
  BY <1>1, <1>2 DEF States
<1>4. QED
  BY <1>1, <1>2, <1>3, StateTyped DEF Parse

LEMMA UserKeepsTypes ==
  ASSUME TypeOK, UserCall \/ UserStep
  PROVE  TypeOK'
<1> USE TaskAssumption
<1>1. ASSUME NEW s \in InitSlaves, Initialize(s)
      PROVE  TypeOK'
  BY <1>1 DEF Initialize, userVars, history, TypeOK, Versions
<1>2. CASE GetPublishedTaskState
  BY <1>2 DEF GetPublishedTaskState, taskVars, monitorVars, netVars, TypeOK
<1>3. CASE ReturnCached
  BY <1>3, CallEndsTyped DEF ReturnCached, taskVars, monitorVars, netVars, TypeOK
<1>4. CASE Ask
  BY <1>4 DEF Ask, taskVars, monitorVars, netVars, history, TypeOK
<1>5. CASE AskFails
  BY <1>5, CallEndsTyped DEF AskFails, taskVars, monitorVars, netVars, TypeOK
<1>6. CASE Answer
  <2>1. State(slave, version) \in States /\ Timeless(slave, version) \in States
    BY StateTyped DEF TypeOK, Versions
  <2>2. copy' \in States
    BY <1>6, <2>1 DEF Answer
  <2>3. QED
    BY <1>6, <2>2 DEF Answer, taskVars, monitorVars, netVars, history, TypeOK
<1>7. CASE StoreAnswer
  <2>1. (overwritten \/ copy.time < taskstate.time) \in BOOLEAN
    BY DEF TypeOK
  <2>2. overwritten' \in BOOLEAN
    BY <1>7, <2>1 DEF StoreAnswer
  <2>3. QED
    BY <1>7, <2>2, CallEndsTyped DEF StoreAnswer, monitorVars, netVars, TypeOK
<1>8. CASE Destroy \/ ShutDown
  BY <1>8 DEF Destroy, ShutDown, taskVars, monitorVars, netVars, history, TypeOK
<1>9. CASE Join
  BY <1>9 DEF Join, taskVars, monitorVars, netVars, history, TypeOK
<1>10. QED
  BY <1>1, <1>2, <1>3, <1>4, <1>5, <1>6, <1>7, <1>8, <1>9 DEF UserCall, UserStep

LEMMA MonitorKeepsTypes ==
  ASSUME TypeOK, MonitorStep
  PROVE  TypeOK'
<1> USE TaskAssumption
<1>1. CASE MonitorStart
  <2>1. base' \in BOOLEAN /\ mslave' \in Slaves \cup {None}
    BY <1>1 DEF MonitorStart, TypeOK
  <2>2. QED
    BY <1>1, <2>1 DEF MonitorStart, taskVars, userVars, netVars, history, TypeOK
<1>2. CASE Outer
  <2>1. queue' \in Seq(Message) /\ Len(queue') <= MaxQueue
    BY <1>2, EmptyQueue DEF Outer
  <2>2. age' \in 0 .. ReinitTimeout
    BY <1>2 DEF Outer, TypeOK
  <2>3. connected' \in BOOLEAN /\ mpc' \in {"none", "start", "outer", "inner", "poll", "done"}
    BY <1>2 DEF Outer
  <2>4. QED
    BY <1>2, <2>1, <2>2, <2>3 DEF Outer, taskVars, userVars, history, TypeOK
<1>3. CASE Inner
  BY <1>3 DEF Inner, taskVars, userVars, netVars, history, TypeOK
<1>4. CASE PollEmpty
  BY <1>4 DEF PollEmpty, taskVars, userVars, netVars, history, TypeOK
<1>5. CASE Receive
  <2>1. /\ Head(queue) \in Message /\ queue' \in Seq(Message) /\ Len(queue') <= MaxQueue
    BY <1>5, HeadTyped DEF Receive
  <2>2. hbstate' \in States
    BY <1>5, <2>1, ParseTyped DEF Receive
  <2>3. taskstate' \in States /\ stored' \in 0 .. MaxVersion /\ age' \in 0 .. ReinitTimeout
    <3>1. CASE Throws(Head(queue)) /\ UNCHANGED <<taskstate, stored, age>>
      BY <3>1 DEF TypeOK
    <3>2. CASE taskstate' = hbstate' /\ stored' = hbstate'.time /\ age' \in {0, age}
      <4>1. 0 \in 0 .. ReinitTimeout /\ age \in 0 .. ReinitTimeout
        BY DEF TypeOK
      <4>2. hbstate'.time \in 0 .. MaxVersion
        BY <2>2 DEF States
      <4>3. QED
        BY <2>2, <3>2, <4>1, <4>2
    <3>3. QED
      BY <1>5, <3>1, <3>2 DEF Receive
  <2>4. QED
    BY <1>5, <2>1, <2>2, <2>3 DEF Receive, userVars, TypeOK
<1>6. CASE ReceiveBase
  <2>1. queue' \in Seq(Message) /\ Len(queue') <= MaxQueue
    BY <1>6, HeadTyped DEF ReceiveBase
  <2>2. QED
    BY <1>6, <2>1 DEF ReceiveBase, taskVars, userVars, history, TypeOK
<1>7. QED
  BY <1>1, <1>2, <1>3, <1>4, <1>5, <1>6 DEF MonitorStep

LEMMA WorldKeepsTypes ==
  ASSUME TypeOK, Tick \/ Environment
  PROVE  TypeOK'
<1> USE TaskAssumption
<1>1. CASE Tick
  BY <1>1 DEF Tick, taskVars, userVars, netVars, history, TypeOK
<1>2. CASE Change
  BY <1>2 DEF Change, taskVars, userVars, monitorVars, history, TypeOK, Versions
<1>3. CASE Drop
  <2>1. queue' \in Seq(Message) /\ Len(queue') <= MaxQueue
    BY <1>3, EmptyQueue DEF Drop
  <2>2. drops' \in 0 .. MaxDrops
    BY <1>3 DEF Drop, TypeOK
  <2>3. connected' \in BOOLEAN
    BY <1>3 DEF Drop
  <2>4. QED
    BY <1>3, <2>1, <2>2, <2>3 DEF Drop, taskVars, userVars, monitorVars, history, TypeOK
<1>4. ASSUME NEW kind \in Kinds, NEW alive \in BOOLEAN, Publish(kind, alive)
      PROVE  TypeOK'
  <2>1. [kind |-> kind, alive |-> alive, version |-> version] \in Message
    BY DEF Message, TypeOK
  <2>2. queue' \in Seq(Message) /\ Len(queue') <= MaxQueue
    BY <1>4, <2>1 DEF Publish, TypeOK
  <2>3. QED
    BY <1>4, <2>2 DEF Publish, taskVars, userVars, monitorVars, history, TypeOK
<1>5. QED
  BY <1>1, <1>2, <1>3, <1>4 DEF Environment

(* The type invariant is inductive.                                        *)
THEOREM TypeCorrect == Spec => []TypeOK
<1>1. Init => TypeOK
  <2> SUFFICES ASSUME Init
               PROVE  TypeOK
    OBVIOUS
  <2>1. queue \in Seq(Message) /\ Len(queue) <= MaxQueue
    BY EmptyQueue DEF Init
  <2>2. version \in Versions /\ stored \in 0 .. MaxVersion /\ floor \in 0 .. MaxVersion
    BY TaskAssumption DEF Init, Versions
  <2>3. inits \in 0 .. MaxInits /\ drops \in 0 .. MaxDrops /\ age \in 0 .. ReinitTimeout
    BY TaskAssumption DEF Init
  <2>4. QED
    BY <2>1, <2>2, <2>3, EmptyTyped DEF Init, TypeOK
<1>2. TypeOK /\ [Next]_vars => TypeOK'
  <2>1. TypeOK /\ UNCHANGED vars => TypeOK'
    BY DEF vars, taskVars, userVars, monitorVars, netVars, history, TypeOK
  <2>2. QED
    BY <2>1, UserKeepsTypes, MonitorKeepsTypes, WorldKeepsTypes DEF Next
<1>3. QED
  BY <1>1, <1>2, PTL DEF Spec

-----------------------------------------------------------------------------
(* What the states at hand have in common, for each of the two claims      *)
(* about them: how old they are and whose they are.                        *)
FloorInv ==
    /\ overwritten \/ taskstate.time >= stored
    /\ upc = "copied" => overwritten \/ copy.time >= floor
    /\ upc \in {"asked", "store"} => overwritten \/ floor = 0

Of(state, s) == state # Empty => state.slave = s

SlaveInv ==
    /\ inits = 0 => /\ mpc = "none" /\ ~initialized
                    /\ upc \notin {"asked", "store"}
                    /\ taskstate = Empty
                    /\ upc = "copied" => copy = Empty
    /\ mpc \in {"none", "start"} => hbstate = Empty
    /\ inits = 1 => /\ mpc \notin {"none", "start"} /\ ~base => mslave = slave
                    /\ Of(hbstate, slave)
                    /\ Of(taskstate, slave)
                    /\ upc \in {"copied", "store"} => Of(copy, slave)

LEMMA EnvironmentLeaves ==
  ASSUME Environment
  PROVE  UNCHANGED <<taskVars, userVars, monitorVars, inits, history>>
<1>1. CASE Change
  BY <1>1 DEF Change
<1>2. CASE Drop
  BY <1>2 DEF Drop
<1>3. ASSUME NEW kind \in Kinds, NEW alive \in BOOLEAN, Publish(kind, alive)
      PROVE  UNCHANGED <<taskVars, userVars, monitorVars, inits, history>>
  BY <1>3 DEF Publish
<1>4. QED
  BY <1>1, <1>2, <1>3 DEF Environment

LEMMA FloorInitially == Init => FloorInv
  BY DEF Init, FloorInv, Empty, State

LEMMA FloorPreserved ==
  ASSUME TypeOK, FloorInv, [Next]_vars
  PROVE  FloorInv'
<1> USE DEF FloorInv
<1>0. /\ taskstate.time \in Nat /\ copy.time \in Nat
      /\ stored \in Nat /\ floor \in Nat
  BY TaskAssumption DEF TypeOK, States
<1>1. ASSUME NEW s \in InitSlaves, Initialize(s)
      PROVE  FloorInv'
  BY <1>1 DEF Initialize, userVars, history
<1>2. CASE GetPublishedTaskState
  BY <1>0, <1>2 DEF GetPublishedTaskState, taskVars
<1>3. CASE ReturnCached
  BY <1>0, <1>3 DEF ReturnCached, CallEnds, taskVars
<1>4. CASE Ask
  BY <1>0, <1>4 DEF Ask, taskVars, history
<1>5. CASE AskFails
  BY <1>0, <1>5 DEF AskFails, CallEnds, taskVars
<1>6. CASE Answer
  BY <1>0, <1>6 DEF Answer, taskVars, history
<1>7. CASE StoreAnswer
  <2>1. overwritten' \/ copy.time >= taskstate.time
    <3>1. overwritten' = (overwritten \/ copy.time < taskstate.time)
      BY <1>7 DEF StoreAnswer
    <3>2. CASE copy.time < taskstate.time
      BY <3>1, <3>2, Zenon
    <3>3. CASE ~(copy.time < taskstate.time)
      BY <1>0, <3>3
    <3>4. QED
      BY <3>2, <3>3
  <2>2. overwritten => overwritten'
    BY <1>7 DEF StoreAnswer
  <2>3. overwritten' \/ taskstate'.time >= stored'
    BY <1>0, <1>7, <2>1, <2>2 DEF StoreAnswer
  <2>4. QED
    BY <1>7, <2>3 DEF StoreAnswer, CallEnds
<1>8. CASE Destroy \/ ShutDown \/ Join
  BY <1>8 DEF Destroy, ShutDown, Join, taskVars, history
<1>9. CASE Receive
  <2>1. hbstate' \in States
    BY <1>9, HeadTyped, ParseTyped DEF Receive
  <2>2. overwritten' \/ taskstate'.time >= stored'
    BY <1>0, <1>9, <2>1 DEF Receive, States
  <2>3. QED
    BY <1>9, <2>2 DEF Receive, userVars
<1>10. CASE MonitorStart \/ Outer \/ Inner \/ PollEmpty \/ ReceiveBase \/ Tick
  BY <1>10 DEF MonitorStart, Outer, Inner, PollEmpty, ReceiveBase, Tick, taskVars, userVars, history
<1>11. CASE Environment
  BY <1>11, EnvironmentLeaves DEF taskVars, userVars, history
<1>12. CASE UNCHANGED vars
  BY <1>12 DEF vars, taskVars, userVars, history
<1>13. QED
  BY <1>1, <1>2, <1>3, <1>4, <1>5, <1>6, <1>7, <1>8, <1>9, <1>10, <1>11, <1>12
  DEF Next, UserCall, UserStep, MonitorStep

(* No call returns a state older than the one published before it began,   *)
(* unless an answer has overwritten a newer state.                         *)
THEOREM NeverOlder == Spec => []NotOlderThanPublished
<1>1. TypeOK /\ FloorInv => NotOlderThanPublished
  <2> SUFFICES ASSUME TypeOK, FloorInv, Returns, ~overwritten
               PROVE  copy.time >= floor
    BY DEF NotOlderThanPublished
  <2>1. copy.time \in Nat
    BY TaskAssumption DEF TypeOK, States
  <2>2. QED
    BY <2>1 DEF FloorInv, Returns
<1>2. TypeOK /\ FloorInv /\ [Next]_vars => FloorInv'
  BY FloorPreserved
<1>3. QED
  BY FloorInitially, TypeCorrect, <1>1, <1>2, PTL DEF Spec

-----------------------------------------------------------------------------
LEMMA SlaveInitially == Init => SlaveInv
  BY DEF Init, SlaveInv, Of, Empty, State

LEMMA SlavePreserved ==
  ASSUME TypeOK, SlaveInv, [Next]_vars
  PROVE  SlaveInv'
<1> USE DEF SlaveInv, Of
<1>0. inits \in Nat
  BY TaskAssumption DEF TypeOK
<1>1. ASSUME NEW s \in InitSlaves, Initialize(s)
      PROVE  SlaveInv'
  BY <1>0, <1>1 DEF Initialize, userVars
<1>2. CASE GetPublishedTaskState
  BY <1>2 DEF GetPublishedTaskState, taskVars, monitorVars, netVars
<1>3. CASE ReturnCached
  BY <1>3 DEF ReturnCached, CallEnds, taskVars, monitorVars, netVars
<1>4. CASE Ask
  <2>1. inits # 0
    BY <1>4 DEF Ask
  <2>2. QED
    BY <1>4, <2>1 DEF Ask, taskVars, monitorVars, netVars
<1>5. CASE AskFails
  BY <1>5 DEF AskFails, CallEnds, taskVars, monitorVars, netVars
<1>6. CASE Answer
  <2>1. copy'.slave = slave
    BY <1>6 DEF Answer, State, Timeless
  <2>2. QED
    BY <1>6, <2>1 DEF Answer, taskVars, monitorVars, netVars
<1>7. CASE StoreAnswer
  BY <1>7 DEF StoreAnswer, CallEnds, monitorVars, netVars
<1>8. CASE Destroy \/ ShutDown \/ Join
  BY <1>8 DEF Destroy, ShutDown, Join, taskVars, monitorVars, netVars
<1>9. CASE MonitorStart \/ Outer \/ Inner \/ PollEmpty \/ ReceiveBase \/ Tick
  BY <1>9 DEF MonitorStart, Outer, Inner, PollEmpty, ReceiveBase, Tick, taskVars, userVars,
              netVars
<1>10. CASE Receive
  <2>1. inits = 1 => mslave = slave /\ Of(hbstate, slave)
    BY <1>10 DEF Receive
  <2>2. inits = 1 => Of(hbstate', slave)
    <3>1. hbstate' \in {hbstate, State(mslave, Head(queue).version),
                        Timeless(mslave, Head(queue).version),
                        [hbstate EXCEPT !.slave = mslave, !.time = Head(queue).version]}
      BY <1>10 DEF Receive, Parse
    <3>2. [hbstate EXCEPT !.slave = mslave, !.time = Head(queue).version].slave = mslave
      BY DEF TypeOK, States
    <3>3. \A v : State(mslave, v).slave = mslave
      BY DEF State
    <3>4. \A v : Timeless(mslave, v).slave = mslave
      BY DEF Timeless
    <3>5. hbstate' = hbstate \/ hbstate'.slave = mslave
      BY <3>1, <3>2, <3>3, <3>4
    <3>6. QED
      BY <2>1, <3>5
  <2>3. /\ inits' = inits /\ slave' = slave /\ mslave' = mslave /\ base' = base
        /\ mpc = "poll" /\ mpc' = "inner" /\ upc' = upc /\ copy' = copy
        /\ initialized' = initialized
        /\ taskstate' = taskstate \/ taskstate' = hbstate'
    BY <1>10 DEF Receive, userVars
  <2>4. QED
    BY <2>2, <2>3
<1>11. CASE Environment
  BY <1>11, EnvironmentLeaves DEF taskVars, userVars, monitorVars
<1>12. CASE UNCHANGED vars
  BY <1>12 DEF vars, taskVars, userVars, monitorVars, netVars
<1>13. QED
  BY <1>1, <1>2, <1>3, <1>4, <1>5, <1>6, <1>7, <1>8, <1>9, <1>10, <1>11, <1>12
  DEF Next, UserCall, UserStep, MonitorStep

(* The state of a task that was initialized once is that of its slave.     *)
THEOREM OwnSlave == Spec => []StateIsOfSlave
<1>1. SlaveInv => StateIsOfSlave
  BY DEF SlaveInv, StateIsOfSlave, Of
<1>2. TypeOK /\ SlaveInv /\ [Next]_vars => SlaveInv'
  BY SlavePreserved
<1>3. QED
  BY SlaveInitially, TypeCorrect, <1>1, <1>2, PTL DEF Spec
=============================================================================
