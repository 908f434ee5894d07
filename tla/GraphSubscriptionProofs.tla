---------------------- MODULE GraphSubscriptionProofs ----------------------
(***************************************************************************)
(* Proofs about GraphSubscription: its invariants hold for any number of   *)
(* threads, subscriptions and connections.                                 *)
(*                                                                         *)
(* None of them is inductive alone.  The inductive invariant IInv says     *)
(* which thread works on which subscription (StageInv), which callbacks    *)
(* the maps hold (HandlerInv), what each mutex protects while it is held   *)
(* (LockInv), who keeps a connection alive (ObjectInv), and what the       *)
(* client's mutex protects (ClientInv).                                    *)
(***************************************************************************)
EXTENDS GraphSubscription, TLAPS

Working == {"stopAll", "closing", "stopAllLoop", "join"}

(* Thread u destroys the old connection on its way to use the new one.     *)
Replacing(u) == pc[u] \in Working /\ held[u] # None /\ held[u] # target[u]

(* Thread u is inside StopSubscription.                                     *)
Stopping(u) == pc[u] \in {"stopSub", "stopWrite"}

(* Thread u is inside SetProxy's call of StopAllSubscriptions.             *)
Switching(u) == pc[u] \in Working /\ held[u] # None /\ held[u] = target[u]

SubscribePCs == {"subLock", "subCheck", "subOpen", "subCreate", "subStart",
                 "startWrite", "subDone"}

Subscribing(u) == pc[u] \in SubscribePCs \/ Replacing(u)

WorkerStage ==
    \A u \in Users : Subscribing(u) => arg[u] \in Subs /\ sub[arg[u]] = "starting"
StopperStage ==
    \A u \in Users : Stopping(u) => arg[u] \in Subs /\ sub[arg[u]] = "stopping"
OneStopper ==
    \A u, v \in Users :
        Stopping(u) /\ Stopping(v) /\ arg[u] = arg[v] => u = v
UnusedUnowned ==
    \A s \in Subs, u \in Users : sub[s] = "unused" => arg[u] # s
OneOwner ==
    \A s \in Subs, u, v \in Users :
        sub[s] = "starting" /\ arg[u] = s /\ arg[v] = s => u = v

StageInv == /\ WorkerStage /\ StopperStage /\ OneStopper
            /\ UnusedUnowned /\ OneOwner

(* A subscription being started is not forgotten.                          *)
OwnerInv ==
    \A s \in Subs : sub[s] = "starting" =>
        \E u \in Users : arg[u] = s /\ Subscribing(u)

(* The callbacks in a map are those of its connection's subscriptions that *)
(* were not stopped; while the start is under way, its thread is past it.  *)
(* A thread that tells the server of the end has forgotten the callback.   *)
HandlerInv ==
    \A c \in Conns : \A s \in handlers[c] :
        /\ sub[s] \notin {"unused", "stopped"}
        /\ sub[s] \in {"live", "stopping"} => subConn[s] = c
        /\ \A u \in Users :
               /\ sub[s] = "starting" /\ arg[u] = s
                      => pc[u] \in {"startWrite", "subDone"} /\ held[u] = c
               /\ pc[u] = "stopWrite" => arg[u] # s

(* While a callback runs, its thread holds the mutex and the callback is   *)
(* still in the map.                                                       *)
CallbackLocked ==
    \A c \in Conns : reader[c] = "callback" => mutex[c] = c /\ message[c] \in handlers[c]
ErrorLocked ==
    \A c \in Conns :
        /\ reader[c] = "errorLoop" => mutex[c] = c /\ todo[c] \subseteq handlers[c]
        /\ reader[c] # "errorLoop" => todo[c] = {}
StopAllLocked ==
    \A u \in Users :
        /\ pc[u] \in {"closing", "stopAllLoop"} =>
               mutex[target[u]] = u /\ todo[u] \subseteq handlers[target[u]]
        /\ pc[u] \notin {"closing", "stopAllLoop"} => todo[u] = {}
WriteLocked ==
    \A u \in Users :
        /\ pc[u] = "startWrite" => mutex[held[u]] = u
        /\ pc[u] = "stopWrite" => mutex[subConn[arg[u]]] = u

LockInv == CallbackLocked /\ ErrorLocked /\ StopAllLocked /\ WriteLocked

FreshUnread ==
    \A c \in Conns : object[c] = "fresh" => reader[c] = "none"
DeadDone ==
    \A c \in Conns : object[c] = "dead" => reader[c] = "done"
HeldAlive ==
    \A u \in Users : held[u] # None => object[held[u]] = "alive"
HandleAlive ==
    \A s \in Subs : sub[s] \in {"live", "stopping"} => object[subConn[s]] = "alive"
TargetDying ==
    \A u \in Users : pc[u] \in Working =>
        object[target[u]] = "dying" \/ (pc[u] # "join" /\ held[u] = target[u])
OneDestroyer ==
    \A u, v \in Users :
        /\ pc[u] \in Working /\ pc[v] \in Working
        /\ target[u] = target[v] /\ object[target[u]] = "dying"
        => u = v

ObjectInv == /\ FreshUnread /\ DeadDone /\ HeldAlive
             /\ HandleAlive /\ TargetDying /\ OneDestroyer

LockedPCs == {"subCheck", "subOpen", "subCreate", "subStart", "startWrite",
              "subDone", "proxyCheck", "proxyOpen", "unlock"}

Open(c) == open[c] /\ object[c] = "alive"

(* Thread u has chosen the connection to subscribe on.                     *)
Starting(u) == pc[u] \in {"subStart", "startWrite", "subDone"} \/ Replacing(u)

MutexHeld ==
    \A u \in Users :
        pc[u] \in LockedPCs \/ Replacing(u) \/ Switching(u) => clientMutex = u
OpenKnown ==
    \A c \in Conns : Open(c) =>
        current = c \/ \E u \in Users : held[u] = c /\ Starting(u)
CheckedCurrent ==
    \A u \in Users : pc[u] \in {"subOpen", "proxyOpen"} => held[u] = current
CreateNoneOpen ==
    \A u \in Users : pc[u] = "subCreate" => \A c \in Conns : ~Open(c)
StartOnlyOpen ==
    \A u \in Users : Starting(u) =>
        held[u] = current \/ \A c \in Conns : Open(c) => c = held[u]
SwitchCurrent ==
    \A u \in Users : Switching(u) => target[u] = current
StoppedClosed ==
    \A u \in Users : pc[u] = "stopAllLoop" => ~open[target[u]]

ClientInv == /\ MutexHeld /\ OpenKnown /\ CheckedCurrent /\ CreateNoneOpen
             /\ StartOnlyOpen /\ SwitchCurrent /\ StoppedClosed

IInv == TypeOK /\ StageInv /\ OwnerInv /\ HandlerInv /\ LockInv /\ ObjectInv
        /\ OrphansAreFailedStarts /\ ClientInv

-----------------------------------------------------------------------------

(* Every step keeps the types of the variables.                            *)
LEMMA VarsStep ==
  VariablesOK /\ PointersOK /\ WorkerStage /\ StopperStage /\ [Next]_vars
  => VariablesOK'
  <1> SUFFICES ASSUME VariablesOK, PointersOK, WorkerStage, StopperStage,
      [Next]_vars PROVE VariablesOK'
    OBVIOUS
  <1> USE GraphAssumption DEF VariablesOK, Stages, PCs, ReaderStates, clientVars,
      connVars, userVars
  <1>1. ASSUME NEW u \in Users, NEW s \in Subs, Subscribe(u, s) PROVE VariablesOK'
    BY <1>1 DEF Subscribe, Goto
  <1>2. ASSUME NEW u \in Users, NEW s \in Subs, DestroyHandle(u, s) PROVE VariablesOK'
    BY <1>2 DEF DestroyHandle, Goto
  <1>3. ASSUME NEW u \in Users, NEW s \in Subs, StopAllCallback(u, s) PROVE VariablesOK'
    BY <1>3 DEF StopAllCallback, Goto
  <1>4. ASSUME NEW u \in Users, NEW s \in Subs, StopAllCallbackThrows(u, s)
        PROVE VariablesOK'
    BY <1>4 DEF StopAllCallbackThrows, Goto
  <1>5. ASSUME NEW u \in Users, SetProxy(u) PROVE VariablesOK'
    BY <1>5 DEF SetProxy, Goto
  <1>6. ASSUME NEW u \in Users, LockClient(u) PROVE VariablesOK'
    BY <1>6 DEF LockClient, Goto
  <1>7. ASSUME NEW u \in Users, UnlockClient(u) PROVE VariablesOK'
    BY <1>7 DEF UnlockClient, Goto
  <1>8. ASSUME NEW u \in Users, LockWeak(u) PROVE VariablesOK'
    BY <1>8 DEF LockWeak, Goto, CurrentAlive
  <1>9. ASSUME NEW u \in Users, IsStreamOpen(u) PROVE VariablesOK'
    BY <1>9 DEF IsStreamOpen, Goto
  <1>10. ASSUME NEW u \in Users, CreateFails(u) PROVE VariablesOK'
    BY <1>10 DEF CreateFails, Goto
  <1>11. ASSUME NEW u \in Users, StartSubscription(u) PROVE VariablesOK'
    <2> DEFINE c == held[u]  s == arg[u]
    <2>1. s \in Subs
      BY <1>11 DEF StartSubscription, WorkerStage, Subscribing, SubscribePCs
    <2>a. handlers' = [handlers EXCEPT ![c] = @ \cup {s}]
      BY <1>11 DEF StartSubscription
    <2>2. handlers' \in [Conns -> SUBSET Subs]
      BY <2>a, <2>1
    <2>3. started' \in [Conns -> SUBSET Subs]
      BY <1>11, <2>1 DEF StartSubscription
    <2>4. sub' \in [Subs -> Stages]
      BY <1>11 DEF StartSubscription
    <2>5. open' \in [Conns -> BOOLEAN]
      BY <1>11 DEF StartSubscription
    <2> QED
      BY <1>11, <2>2, <2>3, <2>4, <2>5 DEF StartSubscription, Goto
  <1>12. ASSUME NEW u \in Users, ReturnHandle(u) PROVE VariablesOK'
    BY <1>12 DEF ReturnHandle, Goto
  <1>13. ASSUME NEW u \in Users, StopSubscription(u) PROVE VariablesOK'
    <2> DEFINE s == arg[u]  c == subConn[s]
    <2>1. s \in Subs
      BY <1>13 DEF StopSubscription, StopperStage, Stopping
    <2>a. handlers' = [handlers EXCEPT ![c] = @ \ {s}]
      BY <1>13 DEF StopSubscription, Stopped
    <2>2. handlers' \in [Conns -> SUBSET Subs]
      BY <2>a
    <2>3. open' \in [Conns -> BOOLEAN]
      BY <1>13 DEF StopSubscription, Stopped
    <2>4. sub' \in [Subs -> Stages] /\ held' \in [Users -> Conns \cup {None}]
      BY <1>13, <2>1 DEF StopSubscription, Stopped
    <2>5. pc' \in [Users -> PCs]
      BY <1>13 DEF StopSubscription, Goto, Stopped
    <2> QED
      BY <1>13, <2>2, <2>3, <2>4, <2>5 DEF StopSubscription, Stopped
  <1>14. ASSUME NEW u \in Users, Release(u) PROVE VariablesOK'
    BY SMTT(90), <1>14 DEF Release, Goto, DropReference, AfterRelease, Handles, Locals
  <1>15. ASSUME NEW u \in Users, StopAllSubscriptions(u) PROVE VariablesOK'
    BY <1>15 DEF StopAllSubscriptions, Goto, PointersOK
  <1>16. ASSUME NEW u \in Users, StopAllDone(u) PROVE VariablesOK'
    BY <1>16 DEF StopAllDone, Goto
  <1>17. ASSUME NEW u \in Users, Join(u) PROVE VariablesOK'
    BY <1>17 DEF Join, Goto, AfterRelease
  <1>18. ASSUME NEW u \in Users, NEW c \in Conns, CreateConnection(u, c) PROVE VariablesOK'
    BY <1>18 DEF CreateConnection, Goto, Handles, Locals
  <1>19. ASSUME NEW c \in Conns, ReadAborts(c) PROVE VariablesOK'
    BY <1>19 DEF ReadAborts, readerUnchanged
  <1>20. ASSUME NEW c \in Conns, Dispatch(c) PROVE VariablesOK'
    BY <1>20 DEF Dispatch, readerUnchanged
  <1>21. ASSUME NEW c \in Conns, CallbackReturns(c) PROVE VariablesOK'
    BY <1>21 DEF CallbackReturns, readerUnchanged
  <1>22. ASSUME NEW c \in Conns, ErrorLock(c) PROVE VariablesOK'
    BY <1>22 DEF ErrorLock, readerUnchanged
  <1>23. ASSUME NEW c \in Conns, ErrorDone(c) PROVE VariablesOK'
    BY <1>23 DEF ErrorDone, readerUnchanged
  <1>24. ASSUME NEW c \in Conns, StreamFails(c) PROVE VariablesOK'
    BY <1>24 DEF StreamFails, readerUnchanged
  <1>25. ASSUME NEW c \in Conns, NEW s \in Subs, ErrorCallback(c, s) PROVE VariablesOK'
    BY <1>25 DEF ErrorCallback, readerUnchanged
  <1>26. ASSUME NEW c \in Conns, NEW s \in Subs \cup {None}, Receive(c,
      s) PROVE VariablesOK'
    BY <1>26 DEF Receive, readerUnchanged
  <1>27. CASE UNCHANGED vars
    BY <1>27 DEF vars, clientVars, connVars, userVars
  <1>28. ASSUME NEW u \in Users, StartWritten(u) PROVE VariablesOK'
    <2>1. arg[u] \in Subs
      BY <1>28 DEF StartWritten, WorkerStage, Subscribing, SubscribePCs
    <2>2. started' \in [Conns -> SUBSET Subs]
      BY <1>28, <2>1 DEF StartWritten
    <2>3. open' \in [Conns -> BOOLEAN]
      BY <1>28 DEF StartWritten
    <2>4. sub' \in [Subs -> Stages]
      BY <1>28, <2>1 DEF StartWritten
    <2>5. pc' \in [Users -> PCs] /\ mutex' \in [Conns -> Users \cup Conns \cup {None}]
      BY <1>28 DEF StartWritten, Goto
    <2> QED
      BY <1>28, <2>2, <2>3, <2>4, <2>5 DEF StartWritten
  <1>29. ASSUME NEW u \in Users, StopWritten(u) PROVE VariablesOK'
    BY <1>29 DEF StopWritten, Goto, Stopped, StopperStage, Stopping
  <1>30. ASSUME NEW u \in Users, CloseReturns(u) PROVE VariablesOK'
    BY <1>30 DEF CloseReturns, Goto, PointersOK
  <1> QED
    BY <1>1, <1>2, <1>3, <1>4, <1>5, <1>6, <1>7, <1>8, <1>9, <1>10, <1>11, <1>12,
        <1>13, <1>14, <1>15, <1>16, <1>17, <1>18, <1>19, <1>20, <1>21, <1>22, <1>23,
            <1>24, <1>25, <1>26, <1>27, <1>28, <1>29, <1>30
        DEF Next, Operation, UserStep, ReaderStep, Environment

(* No step makes a thread depend on a null pointer.                        *)
LEMMA PointersStep ==
  VariablesOK /\ PointersOK /\ StopperStage /\ TargetDying /\ [Next]_vars
  => PointersOK'
  <1> SUFFICES ASSUME VariablesOK, PointersOK, StopperStage, TargetDying,
      [Next]_vars PROVE PointersOK'
    OBVIOUS
  <1> USE GraphAssumption DEF VariablesOK, PointersOK, PCs, clientVars, connVars, userVars
  <1>1. ASSUME NEW u \in Users, NEW s \in Subs, Subscribe(u, s) PROVE PointersOK'
    BY <1>1 DEF Subscribe, Goto
  <1>2. ASSUME NEW u \in Users, NEW s \in Subs, DestroyHandle(u, s) PROVE PointersOK'
    BY <1>2 DEF DestroyHandle, Goto
  <1>3. ASSUME NEW u \in Users, NEW s \in Subs, StopAllCallback(u, s) PROVE PointersOK'
    BY <1>3 DEF StopAllCallback, Goto
  <1>4. ASSUME NEW u \in Users, NEW s \in Subs, StopAllCallbackThrows(u, s)
        PROVE PointersOK'
    BY <1>4 DEF StopAllCallbackThrows, Goto, TargetDying, Working
  <1>5. ASSUME NEW u \in Users, SetProxy(u) PROVE PointersOK'
    BY <1>5 DEF SetProxy, Goto
  <1>6. ASSUME NEW u \in Users, LockClient(u) PROVE PointersOK'
    BY <1>6 DEF LockClient, Goto
  <1>7. ASSUME NEW u \in Users, UnlockClient(u) PROVE PointersOK'
    BY <1>7 DEF UnlockClient, Goto
  <1>8. ASSUME NEW u \in Users, LockWeak(u) PROVE PointersOK'
    BY <1>8 DEF LockWeak, Goto, CurrentAlive
  <1>9. ASSUME NEW u \in Users, IsStreamOpen(u) PROVE PointersOK'
    BY <1>9 DEF IsStreamOpen, Goto
  <1>10. ASSUME NEW u \in Users, CreateFails(u) PROVE PointersOK'
    BY <1>10 DEF CreateFails, Goto
  <1>11. ASSUME NEW u \in Users, StartSubscription(u) PROVE PointersOK'
    BY <1>11 DEF StartSubscription, Goto
  <1>12. ASSUME NEW u \in Users, ReturnHandle(u) PROVE PointersOK'
    BY <1>12 DEF ReturnHandle, Goto
  <1>13. ASSUME NEW u \in Users, StopSubscription(u) PROVE PointersOK'
    BY <1>13 DEF StopSubscription, Goto, Stopped, StopperStage, Stopping
  <1>14. ASSUME NEW u \in Users, Release(u) PROVE PointersOK'
    BY <1>14 DEF Release, Goto, DropReference, AfterRelease, Handles, Locals
  <1>15. ASSUME NEW u \in Users, StopAllSubscriptions(u) PROVE PointersOK'
    BY <1>15 DEF StopAllSubscriptions, Goto
  <1>16. ASSUME NEW u \in Users, StopAllDone(u) PROVE PointersOK'
    BY <1>16 DEF StopAllDone, Goto, TargetDying, Working
  <1>17. ASSUME NEW u \in Users, Join(u) PROVE PointersOK'
    BY <1>17 DEF Join, Goto, AfterRelease
  <1>18. ASSUME NEW u \in Users, NEW c \in Conns, CreateConnection(u, c) PROVE PointersOK'
    BY <1>18 DEF CreateConnection, Goto, Handles, Locals
  <1>19. ASSUME NEW c \in Conns, ReadAborts(c) PROVE PointersOK'
    BY <1>19 DEF ReadAborts, readerUnchanged
  <1>20. ASSUME NEW c \in Conns, Dispatch(c) PROVE PointersOK'
    BY <1>20 DEF Dispatch, readerUnchanged
  <1>21. ASSUME NEW c \in Conns, CallbackReturns(c) PROVE PointersOK'
    BY <1>21 DEF CallbackReturns, readerUnchanged
  <1>22. ASSUME NEW c \in Conns, ErrorLock(c) PROVE PointersOK'
    BY <1>22 DEF ErrorLock, readerUnchanged
  <1>23. ASSUME NEW c \in Conns, ErrorDone(c) PROVE PointersOK'
    BY <1>23 DEF ErrorDone, readerUnchanged
  <1>24. ASSUME NEW c \in Conns, StreamFails(c) PROVE PointersOK'
    BY <1>24 DEF StreamFails, readerUnchanged
  <1>25. ASSUME NEW c \in Conns, NEW s \in Subs, ErrorCallback(c, s) PROVE PointersOK'
    BY <1>25 DEF ErrorCallback, readerUnchanged
  <1>26. ASSUME NEW c \in Conns, NEW s \in Subs \cup {None}, Receive(c, s) PROVE PointersOK'
    BY <1>26 DEF Receive, readerUnchanged
  <1>27. CASE UNCHANGED vars
    BY <1>27 DEF vars, clientVars, connVars, userVars
  <1>28. ASSUME NEW u \in Users, StartWritten(u) PROVE PointersOK'
    BY <1>28 DEF StartWritten, Goto
  <1>29. ASSUME NEW u \in Users, StopWritten(u) PROVE PointersOK'
    BY <1>29 DEF StopWritten, Goto, Stopped, StopperStage, Stopping
  <1>30. ASSUME NEW u \in Users, CloseReturns(u) PROVE PointersOK'
    BY <1>30 DEF CloseReturns, Goto
  <1> QED
    BY <1>1, <1>2, <1>3, <1>4, <1>5, <1>6, <1>7, <1>8, <1>9, <1>10, <1>11, <1>12,
        <1>13, <1>14, <1>15, <1>16, <1>17, <1>18, <1>19, <1>20, <1>21, <1>22, <1>23,
            <1>24, <1>25, <1>26, <1>27, <1>28, <1>29, <1>30
        DEF Next, Operation, UserStep, ReaderStep, Environment

(* A subscription is worked on by one thread, in the stage it is in.       *)
LEMMA StageStep ==
  VariablesOK /\ StageInv /\ TargetDying /\ HeldAlive /\ [Next]_vars
  => StageInv'
  <1> SUFFICES ASSUME VariablesOK, StageInv, TargetDying, HeldAlive,
      [Next]_vars PROVE StageInv'
    OBVIOUS
  <1> USE GraphAssumption DEF VariablesOK, TargetDying, HeldAlive, StageInv,
      WorkerStage, StopperStage, Stopping, OneStopper, UnusedUnowned, OneOwner, Working,
          Subscribing, SubscribePCs, Replacing, Stages, PCs, clientVars, connVars, userVars
  <1>1. ASSUME NEW u \in Users, NEW s \in Subs, Subscribe(u, s) PROVE StageInv'
    BY <1>1 DEF Subscribe, Goto
  <1>2. ASSUME NEW u \in Users, NEW s \in Subs, DestroyHandle(u, s) PROVE StageInv'
    BY <1>2 DEF DestroyHandle, Goto
  <1>3. ASSUME NEW u \in Users, NEW s \in Subs, StopAllCallback(u, s) PROVE StageInv'
    BY <1>3 DEF StopAllCallback, Goto
  <1>4. ASSUME NEW u \in Users, NEW s \in Subs, StopAllCallbackThrows(u, s) PROVE StageInv'
    BY <1>4 DEF StopAllCallbackThrows, Goto
  <1>5. ASSUME NEW u \in Users, SetProxy(u) PROVE StageInv'
    BY <1>5 DEF SetProxy, Goto
  <1>6. ASSUME NEW u \in Users, LockClient(u) PROVE StageInv'
    BY <1>6 DEF LockClient, Goto
  <1>7. ASSUME NEW u \in Users, UnlockClient(u) PROVE StageInv'
    BY <1>7 DEF UnlockClient, Goto
  <1>8. ASSUME NEW u \in Users, LockWeak(u) PROVE StageInv'
    <2>1. WorkerStage'
      BY <1>8 DEF LockWeak, Goto, CurrentAlive
    <2>2. StopperStage'
      BY <1>8 DEF LockWeak, Goto, CurrentAlive
    <2>3. OneStopper'
      BY <1>8 DEF LockWeak, Goto, CurrentAlive
    <2>4. UnusedUnowned'
      BY <1>8 DEF LockWeak, Goto, CurrentAlive
    <2>5. OneOwner'
      BY <1>8 DEF LockWeak, Goto, CurrentAlive
    <2> QED
      BY <2>1, <2>2, <2>3, <2>4, <2>5
  <1>9. ASSUME NEW u \in Users, IsStreamOpen(u) PROVE StageInv'
    <2>1. WorkerStage'
      BY <1>9 DEF IsStreamOpen, Goto
    <2>2. StopperStage'
      BY <1>9 DEF IsStreamOpen, Goto
    <2>3. OneStopper'
      BY <1>9 DEF IsStreamOpen, Goto
    <2>4. UnusedUnowned'
      BY <1>9 DEF IsStreamOpen, Goto
    <2>5. OneOwner'
      BY <1>9 DEF IsStreamOpen, Goto
    <2> QED
      BY <2>1, <2>2, <2>3, <2>4, <2>5
  <1>10. ASSUME NEW u \in Users, CreateFails(u) PROVE StageInv'
    BY <1>10 DEF CreateFails, Goto
  <1>11. ASSUME NEW u \in Users, StartSubscription(u) PROVE StageInv'
    <2>1. WorkerStage'
      BY <1>11 DEF StartSubscription, Goto
    <2>2. StopperStage'
      BY <1>11 DEF StartSubscription, Goto
    <2>3. OneStopper'
      BY <1>11 DEF StartSubscription, Goto
    <2>4. UnusedUnowned'
      BY <1>11 DEF StartSubscription, Goto
    <2>5. OneOwner'
      BY <1>11 DEF StartSubscription, Goto
    <2> QED
      BY <2>1, <2>2, <2>3, <2>4, <2>5
  <1>12. ASSUME NEW u \in Users, ReturnHandle(u) PROVE StageInv'
    BY <1>12 DEF ReturnHandle, Goto
  <1>13. ASSUME NEW u \in Users, StopSubscription(u) PROVE StageInv'
    <2>1. WorkerStage'
      BY <1>13 DEF StopSubscription, Goto, Stopped
    <2>2. StopperStage'
      BY <1>13 DEF StopSubscription, Goto, Stopped
    <2>3. OneStopper'
      BY <1>13 DEF StopSubscription, Goto, Stopped
    <2>4. UnusedUnowned'
      BY <1>13 DEF StopSubscription, Goto, Stopped
    <2>5. OneOwner'
      BY <1>13 DEF StopSubscription, Goto, Stopped
    <2> QED
      BY <2>1, <2>2, <2>3, <2>4, <2>5
  <1>14. ASSUME NEW u \in Users, Release(u) PROVE StageInv'
    <2>1. WorkerStage'
      BY <1>14 DEF Release, Goto, DropReference, AfterRelease, Handles, Locals
    <2>2. StopperStage'
      BY <1>14 DEF Release, Goto, DropReference, AfterRelease, Handles, Locals
    <2>3. OneStopper'
      BY <1>14 DEF Release, Goto, DropReference, AfterRelease, Handles, Locals
    <2>4. UnusedUnowned'
      BY <1>14 DEF Release, Goto, DropReference, AfterRelease, Handles, Locals
    <2>5. OneOwner'
      BY <1>14 DEF Release, Goto, DropReference, AfterRelease, Handles, Locals
    <2> QED
      BY <2>1, <2>2, <2>3, <2>4, <2>5
  <1>15. ASSUME NEW u \in Users, StopAllSubscriptions(u) PROVE StageInv'
    BY <1>15 DEF StopAllSubscriptions, Goto
  <1>16. ASSUME NEW u \in Users, StopAllDone(u) PROVE StageInv'
    <2>1. WorkerStage'
      BY <1>16 DEF StopAllDone, Goto
    <2>2. StopperStage'
      BY <1>16 DEF StopAllDone, Goto
    <2>3. OneStopper'
      BY <1>16 DEF StopAllDone, Goto
    <2>4. UnusedUnowned'
      BY <1>16 DEF StopAllDone, Goto
    <2>5. OneOwner'
      BY <1>16 DEF StopAllDone, Goto
    <2> QED
      BY <2>1, <2>2, <2>3, <2>4, <2>5
  <1>17. ASSUME NEW u \in Users, Join(u) PROVE StageInv'
    BY <1>17 DEF Join, Goto, AfterRelease
  <1>18. ASSUME NEW u \in Users, NEW c \in Conns, CreateConnection(u, c) PROVE StageInv'
    BY <1>18 DEF CreateConnection, Goto, Handles, Locals
  <1>19. ASSUME NEW c \in Conns, ReadAborts(c) PROVE StageInv'
    BY <1>19 DEF ReadAborts, readerUnchanged
  <1>20. ASSUME NEW c \in Conns, Dispatch(c) PROVE StageInv'
    BY <1>20 DEF Dispatch, readerUnchanged
  <1>21. ASSUME NEW c \in Conns, CallbackReturns(c) PROVE StageInv'
    BY <1>21 DEF CallbackReturns, readerUnchanged
  <1>22. ASSUME NEW c \in Conns, ErrorLock(c) PROVE StageInv'
    BY <1>22 DEF ErrorLock, readerUnchanged
  <1>23. ASSUME NEW c \in Conns, ErrorDone(c) PROVE StageInv'
    BY <1>23 DEF ErrorDone, readerUnchanged
  <1>24. ASSUME NEW c \in Conns, StreamFails(c) PROVE StageInv'
    BY <1>24 DEF StreamFails, readerUnchanged
  <1>25. ASSUME NEW c \in Conns, NEW s \in Subs, ErrorCallback(c, s) PROVE StageInv'
    BY <1>25 DEF ErrorCallback, readerUnchanged
  <1>26. ASSUME NEW c \in Conns, NEW s \in Subs \cup {None}, Receive(c, s) PROVE StageInv'
    BY <1>26 DEF Receive, readerUnchanged
  <1>27. CASE UNCHANGED vars
    BY <1>27 DEF vars, clientVars, connVars, userVars
  <1>28. ASSUME NEW u \in Users, StartWritten(u) PROVE StageInv'
    <2>1. WorkerStage'
      BY <1>28 DEF StartWritten, Goto
    <2>2. StopperStage'
      BY <1>28 DEF StartWritten, Goto
    <2>3. OneStopper'
      BY <1>28 DEF StartWritten, Goto
    <2>4. UnusedUnowned'
      BY <1>28 DEF StartWritten, Goto
    <2>5. OneOwner'
      BY <1>28 DEF StartWritten, Goto
    <2> QED
      BY <2>1, <2>2, <2>3, <2>4, <2>5
  <1>29. ASSUME NEW u \in Users, StopWritten(u) PROVE StageInv'
    <2>1. WorkerStage'
      BY <1>29 DEF StopWritten, Goto, Stopped
    <2>2. StopperStage'
      BY <1>29 DEF StopWritten, Goto, Stopped
    <2>3. OneStopper'
      BY <1>29 DEF StopWritten, Goto, Stopped
    <2>4. UnusedUnowned'
      BY <1>29 DEF StopWritten, Goto, Stopped
    <2>5. OneOwner'
      BY <1>29 DEF StopWritten, Goto, Stopped
    <2> QED
      BY <2>1, <2>2, <2>3, <2>4, <2>5
  <1>30. ASSUME NEW u \in Users, CloseReturns(u) PROVE StageInv'
    <2>1. WorkerStage'
      BY <1>30 DEF CloseReturns, Goto
    <2>2. StopperStage'
      BY <1>30 DEF CloseReturns, Goto
    <2>3. OneStopper'
      BY <1>30 DEF CloseReturns, Goto
    <2>4. UnusedUnowned'
      BY <1>30 DEF CloseReturns, Goto
    <2>5. OneOwner'
      BY <1>30 DEF CloseReturns, Goto
    <2> QED
      BY <2>1, <2>2, <2>3, <2>4, <2>5
  <1> QED
    BY <1>1, <1>2, <1>3, <1>4, <1>5, <1>6, <1>7, <1>8, <1>9, <1>10, <1>11, <1>12,
        <1>13, <1>14, <1>15, <1>16, <1>17, <1>18, <1>19, <1>20, <1>21, <1>22, <1>23,
            <1>24, <1>25, <1>26, <1>27, <1>28, <1>29, <1>30
        DEF Next, Operation, UserStep, ReaderStep, Environment

(* A subscription being started keeps the thread that starts it.           *)
LEMMA OwnerStep ==
  TypeOK /\ StageInv /\ OwnerInv /\ ObjectInv /\ [Next]_vars
  => OwnerInv'
  <1> SUFFICES ASSUME TypeOK, StageInv, OwnerInv, ObjectInv, [Next]_vars,
      NEW t \in Subs, sub'[t] = "starting"
                  PROVE  \E w \in Users : arg'[w] = t /\ Subscribing(w)'
    BY DEF OwnerInv
  <1> DEFINE owner == CHOOSE u \in Users : arg[u] = t /\ Subscribing(u)
  <1>0. sub[t] = "starting" => owner \in Users /\ arg[owner] = t /\ Subscribing(owner)
    BY DEF OwnerInv
  <1> HIDE DEF owner
  <1>w. VariablesOK /\ WorkerStage /\ TargetDying /\ HeldAlive
    BY DEF TypeOK, StageInv, ObjectInv
  <1> USE GraphAssumption DEF VariablesOK, WorkerStage, TargetDying, HeldAlive,
      Working, Subscribing, SubscribePCs, Replacing, PCs, clientVars, connVars, userVars
  <1>1. ASSUME NEW u \in Users, NEW s \in Subs, Subscribe(u,
      s) PROVE \E w \in Users : arg'[w] = t /\ Subscribing(w)'
    BY <1>0, <1>w, <1>1 DEF Subscribe, Goto
  <1>2. ASSUME NEW u \in Users, NEW s \in Subs, DestroyHandle(u,
      s) PROVE \E w \in Users : arg'[w] = t /\ Subscribing(w)'
    BY <1>0, <1>w, <1>2 DEF DestroyHandle, Goto
  <1>3. ASSUME NEW u \in Users, NEW s \in Subs, StopAllCallback(u,
      s) PROVE \E w \in Users : arg'[w] = t /\ Subscribing(w)'
    BY <1>0, <1>w, <1>3 DEF StopAllCallback, Goto
  <1>4. ASSUME NEW u \in Users, NEW s \in Subs, StopAllCallbackThrows(u, s)
        PROVE \E w \in Users : arg'[w] = t /\ Subscribing(w)'
    BY <1>0, <1>w, <1>4 DEF StopAllCallbackThrows, Goto
  <1>5. ASSUME NEW u \in Users,
      SetProxy(u) PROVE \E w \in Users : arg'[w] = t /\ Subscribing(w)'
    BY <1>0, <1>w, <1>5 DEF SetProxy, Goto
  <1>6. ASSUME NEW u \in Users,
      LockClient(u) PROVE \E w \in Users : arg'[w] = t /\ Subscribing(w)'
    BY <1>0, <1>w, <1>6 DEF LockClient, Goto
  <1>7. ASSUME NEW u \in Users,
      UnlockClient(u) PROVE \E w \in Users : arg'[w] = t /\ Subscribing(w)'
    BY <1>0, <1>w, <1>7 DEF UnlockClient, Goto
  <1>8. ASSUME NEW u \in Users,
      LockWeak(u) PROVE \E w \in Users : arg'[w] = t /\ Subscribing(w)'
    BY <1>0, <1>w, <1>8 DEF LockWeak, Goto, CurrentAlive
  <1>9. ASSUME NEW u \in Users,
      IsStreamOpen(u) PROVE \E w \in Users : arg'[w] = t /\ Subscribing(w)'
    BY <1>0, <1>w, <1>9 DEF IsStreamOpen, Goto
  <1>10. ASSUME NEW u \in Users,
      CreateFails(u) PROVE \E w \in Users : arg'[w] = t /\ Subscribing(w)'
    BY <1>0, <1>w, <1>10 DEF CreateFails, Goto
  <1>11. ASSUME NEW u \in Users,
      StartSubscription(u) PROVE \E w \in Users : arg'[w] = t /\ Subscribing(w)'
    BY <1>0, <1>w, <1>11 DEF StartSubscription, Goto
  <1>12. ASSUME NEW u \in Users,
      ReturnHandle(u) PROVE \E w \in Users : arg'[w] = t /\ Subscribing(w)'
    BY <1>0, <1>w, <1>12 DEF ReturnHandle, Goto
  <1>13. ASSUME NEW u \in Users,
      StopSubscription(u) PROVE \E w \in Users : arg'[w] = t /\ Subscribing(w)'
    BY <1>0, <1>w, <1>13 DEF StopSubscription, Goto, Stopped
  <1>14. ASSUME NEW u \in Users,
      Release(u) PROVE \E w \in Users : arg'[w] = t /\ Subscribing(w)'
    BY <1>0, <1>w, <1>14 DEF Release, Goto, DropReference, AfterRelease, Handles, Locals
  <1>15. ASSUME NEW u \in Users,
      StopAllSubscriptions(u) PROVE \E w \in Users : arg'[w] = t /\ Subscribing(w)'
    BY <1>0, <1>w, <1>15 DEF StopAllSubscriptions, Goto
  <1>16. ASSUME NEW u \in Users,
      StopAllDone(u) PROVE \E w \in Users : arg'[w] = t /\ Subscribing(w)'
    BY <1>0, <1>w, <1>16 DEF StopAllDone, Goto
  <1>17. ASSUME NEW u \in Users,
      Join(u) PROVE \E w \in Users : arg'[w] = t /\ Subscribing(w)'
    BY <1>0, <1>w, <1>17 DEF Join, Goto, AfterRelease
  <1>18. ASSUME NEW u \in Users, NEW c \in Conns, CreateConnection(u,
      c) PROVE \E w \in Users : arg'[w] = t /\ Subscribing(w)'
    BY <1>0, <1>w, <1>18 DEF CreateConnection, Goto, Handles, Locals
  <1>19. ASSUME NEW c \in Conns,
      ReadAborts(c) PROVE \E w \in Users : arg'[w] = t /\ Subscribing(w)'
    BY <1>0, <1>w, <1>19 DEF ReadAborts, readerUnchanged
  <1>20. ASSUME NEW c \in Conns,
      Dispatch(c) PROVE \E w \in Users : arg'[w] = t /\ Subscribing(w)'
    BY <1>0, <1>w, <1>20 DEF Dispatch, readerUnchanged
  <1>21. ASSUME NEW c \in Conns,
      CallbackReturns(c) PROVE \E w \in Users : arg'[w] = t /\ Subscribing(w)'
    BY <1>0, <1>w, <1>21 DEF CallbackReturns, readerUnchanged
  <1>22. ASSUME NEW c \in Conns,
      ErrorLock(c) PROVE \E w \in Users : arg'[w] = t /\ Subscribing(w)'
    BY <1>0, <1>w, <1>22 DEF ErrorLock, readerUnchanged
  <1>23. ASSUME NEW c \in Conns,
      ErrorDone(c) PROVE \E w \in Users : arg'[w] = t /\ Subscribing(w)'
    BY <1>0, <1>w, <1>23 DEF ErrorDone, readerUnchanged
  <1>24. ASSUME NEW c \in Conns,
      StreamFails(c) PROVE \E w \in Users : arg'[w] = t /\ Subscribing(w)'
    BY <1>0, <1>w, <1>24 DEF StreamFails, readerUnchanged
  <1>25. ASSUME NEW c \in Conns, NEW s \in Subs, ErrorCallback(c,
      s) PROVE \E w \in Users : arg'[w] = t /\ Subscribing(w)'
    BY <1>0, <1>w, <1>25 DEF ErrorCallback, readerUnchanged
  <1>26. ASSUME NEW c \in Conns, NEW s \in Subs \cup {None}, Receive(c,
      s) PROVE \E w \in Users : arg'[w] = t /\ Subscribing(w)'
    BY <1>0, <1>w, <1>26 DEF Receive, readerUnchanged
  <1>27. CASE UNCHANGED vars
    BY <1>0, <1>w, <1>27 DEF vars, clientVars, connVars, userVars
  <1>28. ASSUME NEW u \in Users,
      StartWritten(u) PROVE \E w \in Users : arg'[w] = t /\ Subscribing(w)'
    BY <1>0, <1>w, <1>28 DEF StartWritten, Goto
  <1>29. ASSUME NEW u \in Users,
      StopWritten(u) PROVE \E w \in Users : arg'[w] = t /\ Subscribing(w)'
    BY <1>0, <1>w, <1>29 DEF StopWritten, Goto, Stopped
  <1>30. ASSUME NEW u \in Users,
      CloseReturns(u) PROVE \E w \in Users : arg'[w] = t /\ Subscribing(w)'
    BY <1>0, <1>w, <1>30 DEF CloseReturns, Goto
  <1> QED
    BY <1>0, <1>w, <1>1, <1>2, <1>3, <1>4, <1>5, <1>6, <1>7, <1>8, <1>9, <1>10, <1>11,
        <1>12, <1>13, <1>14, <1>15, <1>16, <1>17, <1>18, <1>19, <1>20, <1>21, <1>22,
            <1>23, <1>24, <1>25, <1>26, <1>27, <1>28, <1>29, <1>30
        DEF Next, Operation, UserStep, ReaderStep, Environment

(* The callbacks of stopped subscriptions are in no map.                   *)
LEMMA HandlerStep ==
  TypeOK /\ StageInv /\ HandlerInv /\ [Next]_vars
  => HandlerInv'
  <1> SUFFICES ASSUME TypeOK, StageInv, HandlerInv, [Next]_vars PROVE HandlerInv'
    OBVIOUS
  <1> USE GraphAssumption DEF TypeOK, VariablesOK, PointersOK, StageInv, WorkerStage,
      StopperStage, Stopping, OneStopper, UnusedUnowned, OneOwner, HandlerInv, Working,
          Subscribing, SubscribePCs, Replacing, PCs, clientVars, connVars, userVars
  <1>1. ASSUME NEW u \in Users, NEW s \in Subs, Subscribe(u, s) PROVE HandlerInv'
    BY <1>1 DEF Subscribe, Goto
  <1>2. ASSUME NEW u \in Users, NEW s \in Subs, DestroyHandle(u, s) PROVE HandlerInv'
    BY <1>2 DEF DestroyHandle, Goto
  <1>3. ASSUME NEW u \in Users, NEW s \in Subs, StopAllCallback(u, s) PROVE HandlerInv'
    BY <1>3 DEF StopAllCallback, Goto
  <1>4. ASSUME NEW u \in Users, NEW s \in Subs, StopAllCallbackThrows(u, s)
        PROVE HandlerInv'
    BY <1>4 DEF StopAllCallbackThrows, Goto
  <1>5. ASSUME NEW u \in Users, SetProxy(u) PROVE HandlerInv'
    BY <1>5 DEF SetProxy, Goto
  <1>6. ASSUME NEW u \in Users, LockClient(u) PROVE HandlerInv'
    BY <1>6 DEF LockClient, Goto
  <1>7. ASSUME NEW u \in Users, UnlockClient(u) PROVE HandlerInv'
    BY <1>7 DEF UnlockClient, Goto
  <1>8. ASSUME NEW u \in Users, LockWeak(u) PROVE HandlerInv'
    BY SMTT(60), <1>8 DEF LockWeak, Goto, CurrentAlive
  <1>9. ASSUME NEW u \in Users, IsStreamOpen(u) PROVE HandlerInv'
    BY <1>9 DEF IsStreamOpen, Goto
  <1>10. ASSUME NEW u \in Users, CreateFails(u) PROVE HandlerInv'
    BY <1>10 DEF CreateFails, Goto
  <1>11. ASSUME NEW u \in Users, StartSubscription(u) PROVE HandlerInv'
    BY <1>11 DEF StartSubscription, Goto
  <1>12. ASSUME NEW u \in Users, ReturnHandle(u) PROVE HandlerInv'
    BY <1>12 DEF ReturnHandle, Goto
  <1>13. ASSUME NEW u \in Users, StopSubscription(u) PROVE HandlerInv'
    BY <1>13 DEF StopSubscription, Goto, Stopped
  <1>14. ASSUME NEW u \in Users, Release(u) PROVE HandlerInv'
    BY <1>14 DEF Release, Goto, DropReference, AfterRelease, Handles, Locals
  <1>15. ASSUME NEW u \in Users, StopAllSubscriptions(u) PROVE HandlerInv'
    BY <1>15 DEF StopAllSubscriptions, Goto
  <1>16. ASSUME NEW u \in Users, StopAllDone(u) PROVE HandlerInv'
    BY <1>16 DEF StopAllDone, Goto
  <1>17. ASSUME NEW u \in Users, Join(u) PROVE HandlerInv'
    BY <1>17 DEF Join, Goto, AfterRelease
  <1>18. ASSUME NEW u \in Users, NEW c \in Conns, CreateConnection(u, c) PROVE HandlerInv'
    BY <1>18 DEF CreateConnection, Goto, Handles, Locals
  <1>19. ASSUME NEW c \in Conns, ReadAborts(c) PROVE HandlerInv'
    BY <1>19 DEF ReadAborts, readerUnchanged
  <1>20. ASSUME NEW c \in Conns, Dispatch(c) PROVE HandlerInv'
    BY <1>20 DEF Dispatch, readerUnchanged
  <1>21. ASSUME NEW c \in Conns, CallbackReturns(c) PROVE HandlerInv'
    BY <1>21 DEF CallbackReturns, readerUnchanged
  <1>22. ASSUME NEW c \in Conns, ErrorLock(c) PROVE HandlerInv'
    BY <1>22 DEF ErrorLock, readerUnchanged
  <1>23. ASSUME NEW c \in Conns, ErrorDone(c) PROVE HandlerInv'
    BY <1>23 DEF ErrorDone, readerUnchanged
  <1>24. ASSUME NEW c \in Conns, StreamFails(c) PROVE HandlerInv'
    BY <1>24 DEF StreamFails, readerUnchanged
  <1>25. ASSUME NEW c \in Conns, NEW s \in Subs, ErrorCallback(c, s) PROVE HandlerInv'
    BY <1>25 DEF ErrorCallback, readerUnchanged
  <1>26. ASSUME NEW c \in Conns, NEW s \in Subs \cup {None}, Receive(c, s) PROVE HandlerInv'
    BY <1>26 DEF Receive, readerUnchanged
  <1>27. CASE UNCHANGED vars
    BY <1>27 DEF vars, clientVars, connVars, userVars
  <1>28. ASSUME NEW u \in Users, StartWritten(u) PROVE HandlerInv'
    BY <1>28 DEF StartWritten, Goto
  <1>29. ASSUME NEW u \in Users, StopWritten(u) PROVE HandlerInv'
    BY <1>29 DEF StopWritten, Goto, Stopped
  <1>30. ASSUME NEW u \in Users, CloseReturns(u) PROVE HandlerInv'
    BY <1>30 DEF CloseReturns, Goto
  <1> QED
    BY <1>1, <1>2, <1>3, <1>4, <1>5, <1>6, <1>7, <1>8, <1>9, <1>10, <1>11, <1>12,
        <1>13, <1>14, <1>15, <1>16, <1>17, <1>18, <1>19, <1>20, <1>21, <1>22, <1>23,
            <1>24, <1>25, <1>26, <1>27, <1>28, <1>29, <1>30
        DEF Next, Operation, UserStep, ReaderStep, Environment

(* Callbacks run under the mutex of their connection.                      *)
LEMMA LockStep ==
  TypeOK /\ StageInv /\ LockInv /\ ObjectInv /\ [Next]_vars => LockInv'
  <1> SUFFICES ASSUME TypeOK, StageInv, LockInv, ObjectInv, [Next]_vars PROVE LockInv'
    OBVIOUS
  <1> USE GraphAssumption DEF TypeOK, VariablesOK, PointersOK, ObjectInv, FreshUnread,
      DeadDone, HeldAlive, HandleAlive, TargetDying, OneDestroyer, LockInv,
          CallbackLocked, ErrorLocked, StopAllLocked, WriteLocked, StageInv,
              WorkerStage, StopperStage, OneStopper, Stopping, Subscribing,
                  SubscribePCs, Replacing, Working, PCs, ReaderStates,
                      clientVars, connVars, userVars
  <1>1. ASSUME NEW u \in Users, NEW s \in Subs, Subscribe(u, s) PROVE LockInv'
    BY <1>1 DEF Subscribe, Goto
  <1>2. ASSUME NEW u \in Users, NEW s \in Subs, DestroyHandle(u, s) PROVE LockInv'
    BY <1>2 DEF DestroyHandle, Goto
  <1>3. ASSUME NEW u \in Users, NEW s \in Subs, StopAllCallback(u, s) PROVE LockInv'
    BY <1>3 DEF StopAllCallback, Goto
  <1>4. ASSUME NEW u \in Users, NEW s \in Subs, StopAllCallbackThrows(u, s) PROVE LockInv'
    BY <1>4 DEF StopAllCallbackThrows, Goto
  <1>5. ASSUME NEW u \in Users, SetProxy(u) PROVE LockInv'
    BY <1>5 DEF SetProxy, Goto
  <1>6. ASSUME NEW u \in Users, LockClient(u) PROVE LockInv'
    BY <1>6 DEF LockClient, Goto
  <1>7. ASSUME NEW u \in Users, UnlockClient(u) PROVE LockInv'
    BY <1>7 DEF UnlockClient, Goto
  <1>8. ASSUME NEW u \in Users, LockWeak(u) PROVE LockInv'
    <2>1. CallbackLocked'
      BY <1>8 DEF LockWeak, Goto, CurrentAlive
    <2>2. ErrorLocked'
      BY <1>8 DEF LockWeak, Goto, CurrentAlive
    <2>3. StopAllLocked'
      BY SMTT(60), <1>8 DEF LockWeak, Goto, CurrentAlive
    <2>4. WriteLocked'
      BY <1>8 DEF LockWeak, Goto, CurrentAlive
    <2> QED
      BY <2>1, <2>2, <2>3, <2>4
  <1>9. ASSUME NEW u \in Users, IsStreamOpen(u) PROVE LockInv'
    BY <1>9 DEF IsStreamOpen, Goto
  <1>10. ASSUME NEW u \in Users, CreateFails(u) PROVE LockInv'
    BY <1>10 DEF CreateFails, Goto
  <1>11. ASSUME NEW u \in Users, StartSubscription(u) PROVE LockInv'
    <2>1. CallbackLocked'
      BY <1>11 DEF StartSubscription, Goto
    <2>2. ErrorLocked'
      BY <1>11 DEF StartSubscription, Goto
    <2>3. StopAllLocked'
      BY <1>11 DEF StartSubscription, Goto
    <2>4. WriteLocked'
      BY <1>11 DEF StartSubscription, Goto
    <2> QED
      BY <2>1, <2>2, <2>3, <2>4
  <1>12. ASSUME NEW u \in Users, ReturnHandle(u) PROVE LockInv'
    BY <1>12 DEF ReturnHandle, Goto
  <1>13. ASSUME NEW u \in Users, StopSubscription(u) PROVE LockInv'
    <2>1. CallbackLocked'
      BY <1>13 DEF StopSubscription, Goto, Stopped
    <2>2. ErrorLocked'
      BY <1>13 DEF StopSubscription, Goto, Stopped
    <2>3. StopAllLocked'
      BY <1>13 DEF StopSubscription, Goto, Stopped
    <2>4. WriteLocked'
      BY <1>13 DEF StopSubscription, Goto, Stopped
    <2> QED
      BY <2>1, <2>2, <2>3, <2>4
  <1>14. ASSUME NEW u \in Users, Release(u) PROVE LockInv'
    BY <1>14 DEF Release, Goto, DropReference, AfterRelease, Handles, Locals
  <1>15. ASSUME NEW u \in Users, StopAllSubscriptions(u) PROVE LockInv'
    BY <1>15 DEF StopAllSubscriptions, Goto
  <1>16. ASSUME NEW u \in Users, StopAllDone(u) PROVE LockInv'
    <2>1. CallbackLocked'
      BY <1>16 DEF StopAllDone, Goto
    <2>2. ErrorLocked'
      BY <1>16 DEF StopAllDone, Goto
    <2>3. StopAllLocked'
      BY <1>16 DEF StopAllDone, Goto
    <2>4. WriteLocked'
      BY <1>16 DEF StopAllDone, Goto
    <2> QED
      BY <2>1, <2>2, <2>3, <2>4
  <1>17. ASSUME NEW u \in Users, Join(u) PROVE LockInv'
    BY <1>17 DEF Join, Goto, AfterRelease
  <1>18. ASSUME NEW u \in Users, NEW c \in Conns, CreateConnection(u, c) PROVE LockInv'
    BY <1>18 DEF CreateConnection, Goto, Handles, Locals
  <1>19. ASSUME NEW c \in Conns, ReadAborts(c) PROVE LockInv'
    BY <1>19 DEF ReadAborts, readerUnchanged
  <1>20. ASSUME NEW c \in Conns, Dispatch(c) PROVE LockInv'
    BY <1>20 DEF Dispatch, readerUnchanged
  <1>21. ASSUME NEW c \in Conns, CallbackReturns(c) PROVE LockInv'
    BY <1>21 DEF CallbackReturns, readerUnchanged
  <1>22. ASSUME NEW c \in Conns, ErrorLock(c) PROVE LockInv'
    BY <1>22 DEF ErrorLock, readerUnchanged
  <1>23. ASSUME NEW c \in Conns, ErrorDone(c) PROVE LockInv'
    BY <1>23 DEF ErrorDone, readerUnchanged
  <1>24. ASSUME NEW c \in Conns, StreamFails(c) PROVE LockInv'
    BY <1>24 DEF StreamFails, readerUnchanged
  <1>25. ASSUME NEW c \in Conns, NEW s \in Subs, ErrorCallback(c, s) PROVE LockInv'
    BY <1>25 DEF ErrorCallback, readerUnchanged
  <1>26. ASSUME NEW c \in Conns, NEW s \in Subs \cup {None}, Receive(c, s) PROVE LockInv'
    BY <1>26 DEF Receive, readerUnchanged
  <1>27. CASE UNCHANGED vars
    BY <1>27 DEF vars, clientVars, connVars, userVars
  <1>28. ASSUME NEW u \in Users, StartWritten(u) PROVE LockInv'
    <2>1. CallbackLocked'
      BY <1>28 DEF StartWritten, Goto
    <2>2. ErrorLocked'
      BY <1>28 DEF StartWritten, Goto
    <2>3. StopAllLocked'
      BY <1>28 DEF StartWritten, Goto
    <2>4. WriteLocked'
      BY <1>28 DEF StartWritten, Goto
    <2> QED
      BY <2>1, <2>2, <2>3, <2>4
  <1>29. ASSUME NEW u \in Users, StopWritten(u) PROVE LockInv'
    <2>1. CallbackLocked'
      BY <1>29 DEF StopWritten, Goto, Stopped
    <2>2. ErrorLocked'
      BY <1>29 DEF StopWritten, Goto, Stopped
    <2>3. StopAllLocked'
      BY <1>29 DEF StopWritten, Goto, Stopped
    <2>4. WriteLocked'
      BY <1>29 DEF StopWritten, Goto, Stopped
    <2> QED
      BY <2>1, <2>2, <2>3, <2>4
  <1>30. ASSUME NEW u \in Users, CloseReturns(u) PROVE LockInv'
    <2>1. CallbackLocked'
      BY <1>30 DEF CloseReturns, Goto
    <2>2. ErrorLocked'
      BY <1>30 DEF CloseReturns, Goto
    <2>3. StopAllLocked'
      BY <1>30 DEF CloseReturns, Goto
    <2>4. WriteLocked'
      BY <1>30 DEF CloseReturns, Goto
    <2> QED
      BY <2>1, <2>2, <2>3, <2>4
  <1> QED
    BY <1>1, <1>2, <1>3, <1>4, <1>5, <1>6, <1>7, <1>8, <1>9, <1>10, <1>11, <1>12,
        <1>13, <1>14, <1>15, <1>16, <1>17, <1>18, <1>19, <1>20, <1>21, <1>22, <1>23,
            <1>24, <1>25, <1>26, <1>27, <1>28, <1>29, <1>30
        DEF Next, Operation, UserStep, ReaderStep, Environment

(* Connections live as long as somebody refers to them.                    *)
LEMMA ObjectStep ==
  TypeOK /\ WorkerStage /\ StopperStage /\ ObjectInv /\ [Next]_vars
  => ObjectInv'
  <1> SUFFICES ASSUME TypeOK, WorkerStage, StopperStage, ObjectInv,
      [Next]_vars PROVE ObjectInv'
    OBVIOUS
  <1> USE GraphAssumption DEF TypeOK, VariablesOK, PointersOK, ObjectInv, FreshUnread,
      DeadDone, HeldAlive, HandleAlive, TargetDying, OneDestroyer, WorkerStage,
          StopperStage, Stopping, Working, Subscribing, SubscribePCs, Replacing, PCs, clientVars,
              connVars, userVars
  <1>1. ASSUME NEW u \in Users, NEW s \in Subs, Subscribe(u, s) PROVE ObjectInv'
    BY <1>1 DEF Subscribe, Goto
  <1>2. ASSUME NEW u \in Users, NEW s \in Subs, DestroyHandle(u, s) PROVE ObjectInv'
    BY <1>2 DEF DestroyHandle, Goto
  <1>3. ASSUME NEW u \in Users, NEW s \in Subs, StopAllCallback(u, s) PROVE ObjectInv'
    BY <1>3 DEF StopAllCallback, Goto
  <1>4. ASSUME NEW u \in Users, NEW s \in Subs, StopAllCallbackThrows(u, s) PROVE ObjectInv'
    BY <1>4 DEF StopAllCallbackThrows, Goto
  <1>5. ASSUME NEW u \in Users, SetProxy(u) PROVE ObjectInv'
    BY <1>5 DEF SetProxy, Goto
  <1>6. ASSUME NEW u \in Users, LockClient(u) PROVE ObjectInv'
    BY <1>6 DEF LockClient, Goto
  <1>7. ASSUME NEW u \in Users, UnlockClient(u) PROVE ObjectInv'
    BY <1>7 DEF UnlockClient, Goto
  <1>8. ASSUME NEW u \in Users, LockWeak(u) PROVE ObjectInv'
    <2>1. FreshUnread'
      BY <1>8 DEF LockWeak, Goto, CurrentAlive
    <2>2. DeadDone'
      BY <1>8 DEF LockWeak, Goto, CurrentAlive
    <2>3. HeldAlive'
      BY <1>8 DEF LockWeak, Goto, CurrentAlive
    <2>4. HandleAlive'
      BY <1>8 DEF LockWeak, Goto, CurrentAlive
    <2>5. TargetDying'
      BY <1>8 DEF LockWeak, Goto, CurrentAlive
    <2>6. OneDestroyer'
      BY <1>8 DEF LockWeak, Goto, CurrentAlive
    <2> QED
      BY <2>1, <2>2, <2>3, <2>4, <2>5, <2>6
  <1>9. ASSUME NEW u \in Users, IsStreamOpen(u) PROVE ObjectInv'
    BY <1>9 DEF IsStreamOpen, Goto
  <1>10. ASSUME NEW u \in Users, CreateFails(u) PROVE ObjectInv'
    BY <1>10 DEF CreateFails, Goto
  <1>11. ASSUME NEW u \in Users, StartSubscription(u) PROVE ObjectInv'
    <2>1. FreshUnread'
      BY <1>11 DEF StartSubscription, Goto
    <2>2. DeadDone'
      BY <1>11 DEF StartSubscription, Goto
    <2>3. HeldAlive'
      BY <1>11 DEF StartSubscription, Goto
    <2>4. HandleAlive'
      BY <1>11 DEF StartSubscription, Goto
    <2>5. TargetDying'
      BY <1>11 DEF StartSubscription, Goto
    <2>6. OneDestroyer'
      BY <1>11 DEF StartSubscription, Goto
    <2> QED
      BY <2>1, <2>2, <2>3, <2>4, <2>5, <2>6
  <1>12. ASSUME NEW u \in Users, ReturnHandle(u) PROVE ObjectInv'
    BY <1>12 DEF ReturnHandle, Goto
  <1>13. ASSUME NEW u \in Users, StopSubscription(u) PROVE ObjectInv'
    <2>1. FreshUnread'
      BY <1>13 DEF StopSubscription, Goto, Stopped
    <2>2. DeadDone'
      BY <1>13 DEF StopSubscription, Goto, Stopped
    <2>3. HeldAlive'
      BY <1>13 DEF StopSubscription, Goto, Stopped
    <2>4. HandleAlive'
      BY <1>13 DEF StopSubscription, Goto, Stopped
    <2>5. TargetDying'
      BY <1>13 DEF StopSubscription, Goto, Stopped
    <2>6. OneDestroyer'
      BY <1>13 DEF StopSubscription, Goto, Stopped
    <2> QED
      BY <2>1, <2>2, <2>3, <2>4, <2>5, <2>6
  <1>14. ASSUME NEW u \in Users, Release(u) PROVE ObjectInv'
    <2>1. FreshUnread'
      BY <1>14 DEF Release, Goto, DropReference, AfterRelease, Handles, Locals
    <2>2. DeadDone'
      BY <1>14 DEF Release, Goto, DropReference, AfterRelease, Handles, Locals
    <2>3. HeldAlive'
      BY <1>14 DEF Release, Goto, DropReference, AfterRelease, Handles, Locals
    <2>4. HandleAlive'
      BY <1>14 DEF Release, Goto, DropReference, AfterRelease, Handles, Locals
    <2>5. TargetDying'
      BY <1>14 DEF Release, Goto, DropReference, AfterRelease, Handles, Locals
    <2>6. OneDestroyer'
      BY <1>14 DEF Release, Goto, DropReference, AfterRelease, Handles, Locals
    <2> QED
      BY <2>1, <2>2, <2>3, <2>4, <2>5, <2>6
  <1>15. ASSUME NEW u \in Users, StopAllSubscriptions(u) PROVE ObjectInv'
    BY <1>15 DEF StopAllSubscriptions, Goto
  <1>16. ASSUME NEW u \in Users, StopAllDone(u) PROVE ObjectInv'
    <2>1. FreshUnread'
      BY <1>16 DEF StopAllDone, Goto
    <2>2. DeadDone'
      BY <1>16 DEF StopAllDone, Goto
    <2>3. HeldAlive'
      BY <1>16 DEF StopAllDone, Goto
    <2>4. HandleAlive'
      BY <1>16 DEF StopAllDone, Goto
    <2>5. TargetDying'
      BY <1>16 DEF StopAllDone, Goto
    <2>6. OneDestroyer'
      BY <1>16 DEF StopAllDone, Goto
    <2> QED
      BY <2>1, <2>2, <2>3, <2>4, <2>5, <2>6
  <1>17. ASSUME NEW u \in Users, Join(u) PROVE ObjectInv'
    BY SMTT(60), <1>17 DEF Join, Goto, AfterRelease
  <1>18. ASSUME NEW u \in Users, NEW c \in Conns, CreateConnection(u, c) PROVE ObjectInv'
    BY <1>18 DEF CreateConnection, Goto, Handles, Locals
  <1>19. ASSUME NEW c \in Conns, ReadAborts(c) PROVE ObjectInv'
    BY <1>19 DEF ReadAborts, readerUnchanged
  <1>20. ASSUME NEW c \in Conns, Dispatch(c) PROVE ObjectInv'
    BY <1>20 DEF Dispatch, readerUnchanged
  <1>21. ASSUME NEW c \in Conns, CallbackReturns(c) PROVE ObjectInv'
    BY <1>21 DEF CallbackReturns, readerUnchanged
  <1>22. ASSUME NEW c \in Conns, ErrorLock(c) PROVE ObjectInv'
    BY <1>22 DEF ErrorLock, readerUnchanged
  <1>23. ASSUME NEW c \in Conns, ErrorDone(c) PROVE ObjectInv'
    BY <1>23 DEF ErrorDone, readerUnchanged
  <1>24. ASSUME NEW c \in Conns, StreamFails(c) PROVE ObjectInv'
    BY <1>24 DEF StreamFails, readerUnchanged
  <1>25. ASSUME NEW c \in Conns, NEW s \in Subs, ErrorCallback(c, s) PROVE ObjectInv'
    BY <1>25 DEF ErrorCallback, readerUnchanged
  <1>26. ASSUME NEW c \in Conns, NEW s \in Subs \cup {None}, Receive(c, s) PROVE ObjectInv'
    BY <1>26 DEF Receive, readerUnchanged
  <1>27. CASE UNCHANGED vars
    BY <1>27 DEF vars, clientVars, connVars, userVars
  <1>28. ASSUME NEW u \in Users, StartWritten(u) PROVE ObjectInv'
    <2>1. FreshUnread'
      BY <1>28 DEF StartWritten, Goto
    <2>2. DeadDone'
      BY <1>28 DEF StartWritten, Goto
    <2>3. HeldAlive'
      BY <1>28 DEF StartWritten, Goto
    <2>4. HandleAlive'
      BY <1>28 DEF StartWritten, Goto
    <2>5. TargetDying'
      BY <1>28 DEF StartWritten, Goto
    <2>6. OneDestroyer'
      BY <1>28 DEF StartWritten, Goto
    <2> QED
      BY <2>1, <2>2, <2>3, <2>4, <2>5, <2>6
  <1>29. ASSUME NEW u \in Users, StopWritten(u) PROVE ObjectInv'
    <2>1. FreshUnread'
      BY <1>29 DEF StopWritten, Goto, Stopped
    <2>2. DeadDone'
      BY <1>29 DEF StopWritten, Goto, Stopped
    <2>3. HeldAlive'
      BY <1>29 DEF StopWritten, Goto, Stopped
    <2>4. HandleAlive'
      BY <1>29 DEF StopWritten, Goto, Stopped
    <2>5. TargetDying'
      BY <1>29 DEF StopWritten, Goto, Stopped
    <2>6. OneDestroyer'
      BY <1>29 DEF StopWritten, Goto, Stopped
    <2> QED
      BY <2>1, <2>2, <2>3, <2>4, <2>5, <2>6
  <1>30. ASSUME NEW u \in Users, CloseReturns(u) PROVE ObjectInv'
    <2>1. FreshUnread'
      BY <1>30 DEF CloseReturns, Goto
    <2>2. DeadDone'
      BY <1>30 DEF CloseReturns, Goto
    <2>3. HeldAlive'
      BY <1>30 DEF CloseReturns, Goto
    <2>4. HandleAlive'
      BY <1>30 DEF CloseReturns, Goto
    <2>5. TargetDying'
      BY <1>30 DEF CloseReturns, Goto
    <2>6. OneDestroyer'
      BY <1>30 DEF CloseReturns, Goto
    <2> QED
      BY <2>1, <2>2, <2>3, <2>4, <2>5, <2>6
  <1> QED
    BY <1>1, <1>2, <1>3, <1>4, <1>5, <1>6, <1>7, <1>8, <1>9, <1>10, <1>11, <1>12,
        <1>13, <1>14, <1>15, <1>16, <1>17, <1>18, <1>19, <1>20, <1>21, <1>22, <1>23,
            <1>24, <1>25, <1>26, <1>27, <1>28, <1>29, <1>30
        DEF Next, Operation, UserStep, ReaderStep, Environment

(* The last reference to a connection leaves only failed starts behind.    *)
LEMMA LastReference ==
  ASSUME VariablesOK, OwnerInv, HandlerInv, NEW u \in Users, NEW c \in Conns,
         Handles(c) = {}, Locals(c) = {u}, pc[u] \notin {"startWrite", "subDone"}
  PROVE  \A s \in handlers[c] : sub[s] = "failed"
  <1> SUFFICES ASSUME NEW s \in handlers[c] PROVE sub[s] = "failed"
    OBVIOUS
  <1>1. s \in Subs /\ sub[s] \in Stages \ {"unused", "stopped"}
    BY DEF VariablesOK, HandlerInv
  <1>2. sub[s] \notin {"live", "stopping"}
    BY <1>1 DEF HandlerInv, Handles
  <1>3. ASSUME sub[s] = "starting" PROVE FALSE
    <2>1. PICK w \in Users : arg[w] = s
      BY <1>1, <1>3 DEF OwnerInv
    <2>2. pc[w] \in {"startWrite", "subDone"} /\ held[w] = c
      BY <1>1, <1>3, <2>1 DEF HandlerInv
    <2> QED
      BY <2>2 DEF Locals
  <1> QED
    BY <1>1, <1>2, <1>3 DEF Stages

LEMMA OrphanStep ==
  VariablesOK /\ PointersOK /\ WorkerStage /\ StopperStage /\ OwnerInv
    /\ HandlerInv /\ HeldAlive /\ HandleAlive /\ OrphansAreFailedStarts
    /\ [Next]_vars
  => OrphansAreFailedStarts'
  <1> SUFFICES ASSUME VariablesOK, PointersOK, WorkerStage, StopperStage, OwnerInv,
      HandlerInv, HeldAlive, HandleAlive, OrphansAreFailedStarts,
          [Next]_vars PROVE OrphansAreFailedStarts'
    OBVIOUS
  <1> USE GraphAssumption DEF VariablesOK, PointersOK, WorkerStage, StopperStage,
      HandlerInv, HeldAlive, HandleAlive, OrphansAreFailedStarts, Working, Subscribing,
          SubscribePCs, Replacing, PCs, clientVars, connVars, userVars
  <1>1. ASSUME NEW u \in Users, NEW s \in Subs, Subscribe(u,
      s) PROVE OrphansAreFailedStarts'
    BY <1>1 DEF Subscribe, Goto
  <1>2. ASSUME NEW u \in Users, NEW s \in Subs, DestroyHandle(u,
      s) PROVE OrphansAreFailedStarts'
    BY <1>2 DEF DestroyHandle, Goto
  <1>3. ASSUME NEW u \in Users, NEW s \in Subs, StopAllCallback(u,
      s) PROVE OrphansAreFailedStarts'
    BY <1>3 DEF StopAllCallback, Goto
  <1>4. ASSUME NEW u \in Users, NEW s \in Subs, StopAllCallbackThrows(u, s)
        PROVE OrphansAreFailedStarts'
    BY <1>4 DEF StopAllCallbackThrows, Goto
  <1>5. ASSUME NEW u \in Users, SetProxy(u) PROVE OrphansAreFailedStarts'
    BY <1>5 DEF SetProxy, Goto
  <1>6. ASSUME NEW u \in Users, LockClient(u) PROVE OrphansAreFailedStarts'
    BY <1>6 DEF LockClient, Goto
  <1>7. ASSUME NEW u \in Users, UnlockClient(u) PROVE OrphansAreFailedStarts'
    BY <1>7 DEF UnlockClient, Goto
  <1>8. ASSUME NEW u \in Users, LockWeak(u) PROVE OrphansAreFailedStarts'
    BY <1>8 DEF LockWeak, Goto, CurrentAlive
  <1>9. ASSUME NEW u \in Users, IsStreamOpen(u) PROVE OrphansAreFailedStarts'
    BY <1>9 DEF IsStreamOpen, Goto
  <1>10. ASSUME NEW u \in Users, CreateFails(u) PROVE OrphansAreFailedStarts'
    BY <1>10 DEF CreateFails, Goto
  <1>11. ASSUME NEW u \in Users, StartSubscription(u) PROVE OrphansAreFailedStarts'
    BY <1>11 DEF StartSubscription, Goto
  <1>12. ASSUME NEW u \in Users, ReturnHandle(u) PROVE OrphansAreFailedStarts'
    BY <1>12 DEF ReturnHandle, Goto
  <1>13. ASSUME NEW u \in Users, StopSubscription(u) PROVE OrphansAreFailedStarts'
    <2>1. arg[u] \in Subs /\ sub[arg[u]] = "stopping" /\ object' = object
      BY <1>13 DEF StopSubscription, Stopping
    <2>2. \A d \in Conns : handlers'[d] \subseteq handlers[d]
      BY <1>13 DEF StopSubscription
    <2>3. \A r \in Subs : r # arg[u] => sub'[r] = sub[r]
      BY <1>13 DEF StopSubscription, Stopped
    <2> QED
      BY <2>1, <2>2, <2>3
  <1>14. ASSUME NEW u \in Users, Release(u) PROVE OrphansAreFailedStarts'
    <2> DEFINE c == held[u]
    <2>1. c \in Conns /\ pc[u] = "release"
      BY <1>14 DEF Release
    <2>2. CASE Handles(c) = {} /\ Locals(c) = {u}
      <3>1. \A s \in handlers[c] : sub[s] = "failed"
        <4>1. pc[u] \notin {"startWrite", "subDone"}
          BY <2>1
        <4> QED
          BY ONLY VariablesOK, OwnerInv, HandlerInv, u \in Users, <2>1, <2>2, <4>1,
              LastReference
      <3>2. object' = [object EXCEPT ![c] = "dying"] /\ UNCHANGED <<handlers, sub>>
        BY <1>14, <2>2 DEF Release, DropReference
      <3> QED
        BY <3>1, <3>2
    <2>3. CASE ~(Handles(c) = {} /\ Locals(c) = {u})
      BY <1>14, <2>3 DEF Release, DropReference
    <2> QED
      BY <2>2, <2>3
  <1>15. ASSUME NEW u \in Users, StopAllSubscriptions(u) PROVE OrphansAreFailedStarts'
    BY <1>15 DEF StopAllSubscriptions, Goto
  <1>16. ASSUME NEW u \in Users, StopAllDone(u) PROVE OrphansAreFailedStarts'
    BY <1>16 DEF StopAllDone, Goto
  <1>17. ASSUME NEW u \in Users, Join(u) PROVE OrphansAreFailedStarts'
    BY <1>17 DEF Join, Goto, AfterRelease
  <1>18. ASSUME NEW u \in Users, NEW c \in Conns, CreateConnection(u,
      c) PROVE OrphansAreFailedStarts'
    <2> DEFINE old == held[u]
               last == old # None /\ Handles(old) = {} /\ Locals(old) = {u}
    <2>1. pc[u] = "subCreate" /\ UNCHANGED <<handlers, sub>>
      BY <1>18 DEF CreateConnection
    <2>2. object' = [d \in Conns |-> IF d = c THEN "alive"
                                   ELSE IF last /\ d = old THEN "dying" ELSE object[d]]
      BY <1>18 DEF CreateConnection
    <2>3. ASSUME last PROVE \A s \in handlers[old] : sub[s] = "failed"
      <3>1. old \in Conns /\ Handles(old) = {} /\ Locals(old) = {u}
        BY <2>3
      <3>2. pc[u] \notin {"startWrite", "subDone"}
        BY <2>1
      <3> QED
        BY ONLY VariablesOK, OwnerInv, HandlerInv, u \in Users, <3>1, <3>2, LastReference
    <2> HIDE DEF old, last
    <2> QED
      BY <2>1, <2>2, <2>3
  <1>19. ASSUME NEW c \in Conns, ReadAborts(c) PROVE OrphansAreFailedStarts'
    BY <1>19 DEF ReadAborts, readerUnchanged
  <1>20. ASSUME NEW c \in Conns, Dispatch(c) PROVE OrphansAreFailedStarts'
    BY <1>20 DEF Dispatch, readerUnchanged
  <1>21. ASSUME NEW c \in Conns, CallbackReturns(c) PROVE OrphansAreFailedStarts'
    BY <1>21 DEF CallbackReturns, readerUnchanged
  <1>22. ASSUME NEW c \in Conns, ErrorLock(c) PROVE OrphansAreFailedStarts'
    BY <1>22 DEF ErrorLock, readerUnchanged
  <1>23. ASSUME NEW c \in Conns, ErrorDone(c) PROVE OrphansAreFailedStarts'
    BY <1>23 DEF ErrorDone, readerUnchanged
  <1>24. ASSUME NEW c \in Conns, StreamFails(c) PROVE OrphansAreFailedStarts'
    BY <1>24 DEF StreamFails, readerUnchanged
  <1>25. ASSUME NEW c \in Conns, NEW s \in Subs, ErrorCallback(c,
      s) PROVE OrphansAreFailedStarts'
    BY <1>25 DEF ErrorCallback, readerUnchanged
  <1>26. ASSUME NEW c \in Conns, NEW s \in Subs \cup {None}, Receive(c,
      s) PROVE OrphansAreFailedStarts'
    BY <1>26 DEF Receive, readerUnchanged
  <1>27. CASE UNCHANGED vars
    BY <1>27 DEF vars, clientVars, connVars, userVars
  <1>28. ASSUME NEW u \in Users, StartWritten(u) PROVE OrphansAreFailedStarts'
    BY <1>28 DEF StartWritten, Goto
  <1>29. ASSUME NEW u \in Users, StopWritten(u) PROVE OrphansAreFailedStarts'
    BY <1>29 DEF StopWritten, Goto, Stopped
  <1>30. ASSUME NEW u \in Users, CloseReturns(u) PROVE OrphansAreFailedStarts'
    BY <1>30 DEF CloseReturns, Goto
  <1> QED
    BY <1>1, <1>2, <1>3, <1>4, <1>5, <1>6, <1>7, <1>8, <1>9, <1>10, <1>11, <1>12,
        <1>13, <1>14, <1>15, <1>16, <1>17, <1>18, <1>19, <1>20, <1>21, <1>22, <1>23,
            <1>24, <1>25, <1>26, <1>27, <1>28, <1>29, <1>30
        DEF Next, Operation, UserStep, ReaderStep, Environment

(* At most one connection is open, and it is known.                        *)
LEMMA ClientStep ==
  TypeOK /\ FreshUnread /\ HeldAlive /\ TargetDying /\ ClientInv
    /\ [Next]_vars
  => ClientInv'
  <1> SUFFICES ASSUME TypeOK, FreshUnread, HeldAlive, TargetDying, ClientInv,
      [Next]_vars PROVE ClientInv'
    OBVIOUS
  <1> USE GraphAssumption DEF TypeOK, VariablesOK, PointersOK, ClientInv, MutexHeld,
      OpenKnown, CheckedCurrent, CreateNoneOpen, StartOnlyOpen, SwitchCurrent,
          StoppedClosed, HeldAlive, TargetDying, LockedPCs, Open, Starting, Switching,
              Working, Subscribing, SubscribePCs, Replacing, PCs, clientVars, connVars,
                  userVars
  <1>1. ASSUME NEW u \in Users, NEW s \in Subs, Subscribe(u, s) PROVE ClientInv'
    BY SMTT(120), <1>1 DEF Subscribe, Goto
  <1>2. ASSUME NEW u \in Users, NEW s \in Subs, DestroyHandle(u, s) PROVE ClientInv'
    BY SMTT(60), <1>2 DEF DestroyHandle, Goto
  <1>3. ASSUME NEW u \in Users, NEW s \in Subs, StopAllCallback(u, s) PROVE ClientInv'
    BY SMTT(60), <1>3 DEF StopAllCallback, Goto
  <1>4. ASSUME NEW u \in Users, NEW s \in Subs, StopAllCallbackThrows(u, s) PROVE ClientInv'
    BY <1>4 DEF StopAllCallbackThrows, Goto
  <1>5. ASSUME NEW u \in Users, SetProxy(u) PROVE ClientInv'
    BY <1>5 DEF SetProxy, Goto
  <1>6. ASSUME NEW u \in Users, LockClient(u) PROVE ClientInv'
    BY SMTT(60), <1>6 DEF LockClient, Goto
  <1>7. ASSUME NEW u \in Users, UnlockClient(u) PROVE ClientInv'
    BY SMTT(60), <1>7 DEF UnlockClient, Goto
  <1>8. ASSUME NEW u \in Users, LockWeak(u) PROVE ClientInv'
    BY SMTT(60), <1>8 DEF LockWeak, Goto, CurrentAlive
  <1>9. ASSUME NEW u \in Users, IsStreamOpen(u) PROVE ClientInv'
    BY SMTT(60), <1>9 DEF IsStreamOpen, Goto
  <1>10. ASSUME NEW u \in Users, CreateFails(u) PROVE ClientInv'
    BY <1>10 DEF CreateFails, Goto
  <1>11. ASSUME NEW u \in Users, StartSubscription(u) PROVE ClientInv'
    <2>1. MutexHeld'
      BY SMTT(60), <1>11 DEF StartSubscription, Goto
    <2>2. OpenKnown'
      BY SMTT(60), <1>11 DEF StartSubscription, Goto
    <2>3. CheckedCurrent'
      BY SMTT(60), <1>11 DEF StartSubscription, Goto
    <2>4. CreateNoneOpen'
      BY SMTT(60), <1>11 DEF StartSubscription, Goto
    <2>5. StartOnlyOpen'
      BY SMTT(60), <1>11 DEF StartSubscription, Goto
    <2>6. SwitchCurrent'
      BY SMTT(60), <1>11 DEF StartSubscription, Goto
    <2>7. StoppedClosed'
      BY SMTT(60), <1>11 DEF StartSubscription, Goto
    <2> QED
      BY <2>1, <2>2, <2>3, <2>4, <2>5, <2>6, <2>7
  <1>12. ASSUME NEW u \in Users, ReturnHandle(u) PROVE ClientInv'
    BY <1>12 DEF ReturnHandle, Goto
  <1>13. ASSUME NEW u \in Users, StopSubscription(u) PROVE ClientInv'
    <2>1. MutexHeld'
      BY SMTT(60), <1>13 DEF StopSubscription, Goto, Stopped
    <2>2. OpenKnown'
      BY SMTT(60), <1>13 DEF StopSubscription, Goto, Stopped
    <2>3. CheckedCurrent'
      BY SMTT(60), <1>13 DEF StopSubscription, Goto, Stopped
    <2>4. CreateNoneOpen'
      BY SMTT(60), <1>13 DEF StopSubscription, Goto, Stopped
    <2>5. StartOnlyOpen'
      BY SMTT(60), <1>13 DEF StopSubscription, Goto, Stopped
    <2>6. SwitchCurrent'
      BY SMTT(60), <1>13 DEF StopSubscription, Goto, Stopped
    <2>7. StoppedClosed'
      BY SMTT(60), <1>13 DEF StopSubscription, Goto, Stopped
    <2> QED
      BY <2>1, <2>2, <2>3, <2>4, <2>5, <2>6, <2>7
  <1>14. ASSUME NEW u \in Users, Release(u) PROVE ClientInv'
    BY SMTT(90), <1>14 DEF Release, Goto, DropReference, AfterRelease, Handles, Locals
  <1>15. ASSUME NEW u \in Users, StopAllSubscriptions(u) PROVE ClientInv'
    BY <1>15 DEF StopAllSubscriptions, Goto
  <1>16. ASSUME NEW u \in Users, StopAllDone(u) PROVE ClientInv'
    <2>1. MutexHeld'
      BY <1>16 DEF StopAllDone, Goto
    <2>2. OpenKnown'
      BY <1>16 DEF StopAllDone, Goto
    <2>3. CheckedCurrent'
      BY <1>16 DEF StopAllDone, Goto
    <2>4. CreateNoneOpen'
      BY <1>16 DEF StopAllDone, Goto
    <2>5. StartOnlyOpen'
      BY <1>16 DEF StopAllDone, Goto
    <2>6. SwitchCurrent'
      BY <1>16 DEF StopAllDone, Goto
    <2>7. StoppedClosed'
      BY <1>16 DEF StopAllDone, Goto
    <2> QED
      BY <2>1, <2>2, <2>3, <2>4, <2>5, <2>6, <2>7
  <1>17. ASSUME NEW u \in Users, Join(u) PROVE ClientInv'
    BY <1>17 DEF Join, Goto, AfterRelease
  <1>18. ASSUME NEW u \in Users, NEW c \in Conns, CreateConnection(u, c) PROVE ClientInv'
    <2>1. MutexHeld'
      BY <1>18 DEF CreateConnection, Goto, Handles, Locals
    <2>2. OpenKnown'
      BY <1>18 DEF CreateConnection, Goto, Handles, Locals
    <2>3. CheckedCurrent'
      BY <1>18 DEF CreateConnection, Goto, Handles, Locals
    <2>4. CreateNoneOpen'
      BY <1>18 DEF CreateConnection, Goto, Handles, Locals
    <2>5. StartOnlyOpen'
      BY <1>18 DEF CreateConnection, Goto, Handles, Locals
    <2>6. SwitchCurrent'
      BY <1>18 DEF CreateConnection, Goto, Handles, Locals
    <2>7. StoppedClosed'
      BY <1>18 DEF CreateConnection, Goto, Handles, Locals
    <2> QED
      BY <2>1, <2>2, <2>3, <2>4, <2>5, <2>6, <2>7
  <1>19. ASSUME NEW c \in Conns, ReadAborts(c) PROVE ClientInv'
    BY <1>19 DEF ReadAborts, readerUnchanged
  <1>20. ASSUME NEW c \in Conns, Dispatch(c) PROVE ClientInv'
    BY <1>20 DEF Dispatch, readerUnchanged
  <1>21. ASSUME NEW c \in Conns, CallbackReturns(c) PROVE ClientInv'
    BY <1>21 DEF CallbackReturns, readerUnchanged
  <1>22. ASSUME NEW c \in Conns, ErrorLock(c) PROVE ClientInv'
    BY <1>22 DEF ErrorLock, readerUnchanged
  <1>23. ASSUME NEW c \in Conns, ErrorDone(c) PROVE ClientInv'
    BY <1>23 DEF ErrorDone, readerUnchanged
  <1>24. ASSUME NEW c \in Conns, StreamFails(c) PROVE ClientInv'
    BY <1>24 DEF StreamFails, readerUnchanged
  <1>25. ASSUME NEW c \in Conns, NEW s \in Subs, ErrorCallback(c, s) PROVE ClientInv'
    BY <1>25 DEF ErrorCallback, readerUnchanged
  <1>26. ASSUME NEW c \in Conns, NEW s \in Subs \cup {None}, Receive(c, s) PROVE ClientInv'
    BY <1>26 DEF Receive, readerUnchanged
  <1>27. CASE UNCHANGED vars
    BY <1>27 DEF vars, clientVars, connVars, userVars
  <1>28. ASSUME NEW u \in Users, StartWritten(u) PROVE ClientInv'
    <2>1. MutexHeld'
      BY SMTT(60), <1>28 DEF StartWritten, Goto
    <2>2. OpenKnown'
      BY SMTT(60), <1>28 DEF StartWritten, Goto
    <2>3. CheckedCurrent'
      BY SMTT(60), <1>28 DEF StartWritten, Goto
    <2>4. CreateNoneOpen'
      BY SMTT(60), <1>28 DEF StartWritten, Goto
    <2>5. StartOnlyOpen'
      BY SMTT(60), <1>28 DEF StartWritten, Goto
    <2>6. SwitchCurrent'
      BY SMTT(60), <1>28 DEF StartWritten, Goto
    <2>7. StoppedClosed'
      BY SMTT(60), <1>28 DEF StartWritten, Goto
    <2> QED
      BY <2>1, <2>2, <2>3, <2>4, <2>5, <2>6, <2>7
  <1>29. ASSUME NEW u \in Users, StopWritten(u) PROVE ClientInv'
    <2>1. MutexHeld'
      BY SMTT(60), <1>29 DEF StopWritten, Goto, Stopped
    <2>2. OpenKnown'
      BY SMTT(60), <1>29 DEF StopWritten, Goto, Stopped
    <2>3. CheckedCurrent'
      BY SMTT(60), <1>29 DEF StopWritten, Goto, Stopped
    <2>4. CreateNoneOpen'
      BY SMTT(60), <1>29 DEF StopWritten, Goto, Stopped
    <2>5. StartOnlyOpen'
      BY SMTT(60), <1>29 DEF StopWritten, Goto, Stopped
    <2>6. SwitchCurrent'
      BY SMTT(60), <1>29 DEF StopWritten, Goto, Stopped
    <2>7. StoppedClosed'
      BY SMTT(60), <1>29 DEF StopWritten, Goto, Stopped
    <2> QED
      BY <2>1, <2>2, <2>3, <2>4, <2>5, <2>6, <2>7
  <1>30. ASSUME NEW u \in Users, CloseReturns(u) PROVE ClientInv'
    BY <1>30 DEF CloseReturns, Goto
  <1> QED
    BY <1>1, <1>2, <1>3, <1>4, <1>5, <1>6, <1>7, <1>8, <1>9, <1>10, <1>11, <1>12,
        <1>13, <1>14, <1>15, <1>16, <1>17, <1>18, <1>19, <1>20, <1>21, <1>22, <1>23,
            <1>24, <1>25, <1>26, <1>27, <1>28, <1>29, <1>30
        DEF Next, Operation, UserStep, ReaderStep, Environment

-----------------------------------------------------------------------------
(* The inductive invariant.                                                *)
LEMMA InitIInv == Init => IInv
  <1> SUFFICES ASSUME Init PROVE IInv
    OBVIOUS
  <1> USE GraphAssumption DEF Init
  <1>1. TypeOK
    BY DEF TypeOK, VariablesOK, PointersOK, Stages, PCs, ReaderStates
  <1>2. StageInv /\ OwnerInv
    BY DEF StageInv, WorkerStage, StopperStage, OneStopper, UnusedUnowned,
           OneOwner, Stopping, OwnerInv, Subscribing, SubscribePCs, Replacing, Working
  <1>3. HandlerInv /\ LockInv
    BY DEF HandlerInv, LockInv, CallbackLocked, ErrorLocked, StopAllLocked,
           WriteLocked
  <1>4. ObjectInv
    BY DEF ObjectInv, FreshUnread, DeadDone, HeldAlive, HandleAlive,
           TargetDying, OneDestroyer, Working
  <1>5. OrphansAreFailedStarts
    BY DEF OrphansAreFailedStarts
  <1>6. ClientInv
    BY DEF ClientInv, MutexHeld, OpenKnown, CheckedCurrent, CreateNoneOpen,
           StartOnlyOpen, SwitchCurrent, StoppedClosed, LockedPCs, Open,
           Starting, Replacing, Switching, Working
  <1> QED
    BY <1>1, <1>2, <1>3, <1>4, <1>5, <1>6 DEF IInv

LEMMA NextIInv == IInv /\ [Next]_vars => IInv'
  <1> SUFFICES ASSUME IInv, [Next]_vars PROVE IInv'
    OBVIOUS
  <1>1. /\ TypeOK /\ StageInv /\ OwnerInv /\ HandlerInv /\ LockInv
        /\ ObjectInv /\ OrphansAreFailedStarts /\ ClientInv
    BY DEF IInv
  <1>2. VariablesOK /\ PointersOK
    BY <1>1 DEF TypeOK
  <1>3. WorkerStage /\ StopperStage
    BY <1>1 DEF StageInv
  <1>4. FreshUnread /\ HeldAlive /\ HandleAlive /\ TargetDying
    BY <1>1 DEF ObjectInv
  <1>5. TypeOK'
    BY <1>2, <1>3, <1>4, VarsStep, PointersStep DEF TypeOK
  <1>6. StageInv' /\ OwnerInv' /\ HandlerInv'
    BY <1>1, <1>2, <1>4, StageStep, OwnerStep, HandlerStep
  <1>7. LockInv' /\ ObjectInv' /\ ClientInv'
    BY <1>1, <1>2, <1>3, <1>4, LockStep, ObjectStep, ClientStep
  <1>8. OrphansAreFailedStarts'
    BY <1>1, <1>2, <1>3, <1>4, OrphanStep
  <1> QED
    BY <1>5, <1>6, <1>7, <1>8 DEF IInv

(* IInv holds in every reachable state.                                    *)
THEOREM InductiveInvariant == Spec => []IInv
  <1> QED
    BY InitIInv, NextIInv, PTL DEF Spec

-----------------------------------------------------------------------------
(* Every variable keeps its type and no null pointer is dereferenced, for  *)
(* any number of threads, subscriptions and connections.                   *)
THEOREM TypeCorrect == Spec => []TypeOK
  <1>1. IInv => TypeOK
    BY DEF IInv
  <1> QED
    BY <1>1, InductiveInvariant, PTL

(* Once the destructor of a handle is through, the callback of its         *)
(* subscription is not running and will not be called (lines 2170-2275,    *)
(* 2419-2467).                                                             *)
THEOREM NoLateCallback == Spec => []NoCallbackAfterStop
  <1>1. IInv => NoCallbackAfterStop
    <2> SUFFICES ASSUME IInv PROVE NoCallbackAfterStop
      OBVIOUS
    <2>1. VariablesOK /\ PointersOK /\ HandlerInv /\ LockInv
      BY DEF IInv, TypeOK
    <2>2. \A c \in Conns : \A s \in handlers[c] : s \in Subs /\ sub[s] # "stopped"
      BY <2>1 DEF VariablesOK, HandlerInv
    <2>3. \A t \in Users \cup Conns : \A s \in todo[t] : sub[s] # "stopped"
      BY <2>1, <2>2 DEF LockInv, ErrorLocked, StopAllLocked, PointersOK
    <2> QED
      BY <2>1, <2>2, <2>3 DEF LockInv, CallbackLocked, NoCallbackAfterStop
  <1> QED
    BY <1>1, InductiveInvariant, PTL

(* No thread uses a connection that is being or has been destroyed (lines  *)
(* 373, 507, 2173, 2477).                                                  *)
THEOREM ObjectsOutliveUsers == Spec => []NoUseAfterDestroy
  <1>1. IInv => NoUseAfterDestroy
    BY DEF IInv, ObjectInv, DeadDone, HeldAlive, HandleAlive, NoUseAfterDestroy
  <1> QED
    BY <1>1, InductiveInvariant, PTL

(* The destructor of a connection calls only callbacks of subscriptions    *)
(* whose start failed (line 2472).                                         *)
THEOREM OrphansFailed == Spec => []OrphansAreFailedStarts
  <1>1. IInv => OrphansAreFailedStarts
    BY DEF IInv
  <1> QED
    BY <1>1, InductiveInvariant, PTL

(* The subscriptions of a client share one open connection (506-514).      *)
THEOREM SharedConnection == Spec => []OneOpenConnection
  <1>1. IInv => OneOpenConnection
    <2> SUFFICES ASSUME IInv, NEW c \in Conns, NEW d \in Conns, Open(c), Open(d)
                 PROVE  c = d
      BY DEF OneOpenConnection, Open
    <2>1. MutexHeld /\ OpenKnown /\ StartOnlyOpen
      BY DEF IInv, ClientInv
    <2>2. \A u \in Users : Starting(u) => clientMutex = u
      BY <2>1 DEF MutexHeld, Starting, LockedPCs
    <2>3. CASE \E u \in Users : Starting(u)
      BY <2>1, <2>2, <2>3 DEF OpenKnown, StartOnlyOpen
    <2>4. CASE ~\E u \in Users : Starting(u)
      BY <2>1, <2>4 DEF OpenKnown
    <2> QED
      BY <2>3, <2>4
  <1> QED
    BY <1>1, InductiveInvariant, PTL
=============================================================================
