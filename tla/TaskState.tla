----------------------------- MODULE TaskState -----------------------------
(***************************************************************************)
(* The published task state of a BinPickingTaskZmqResource                 *)
(* (src/src/binpickingtaskzmq.cpp, src/src/binpickingtask.cpp): a monitor  *)
(* thread subscribes to the controller's heartbeats and stores the state   *)
(* they carry in _taskstate; an application thread initializes the task,   *)
(* reads the state with GetPublishedTaskState, which asks the controller   *)
(* itself when nothing was published yet, and finally destroys the task.   *)
(***************************************************************************)
EXTENDS Naturals, Sequences

CONSTANTS
    Slaves,         \* non-empty slave request ids
    None,           \* the empty slave request id
    InitSlaves,     \* ids that Initialize is called with
    Kinds,          \* kinds of heartbeats the controller publishes, see Message
    ReinitTimeout,  \* reinitializetimeout in clock ticks; 0: no monitor
    MaxVersion,     \* bound on the changes of the controller's state
    MaxInits,       \* bound on the calls of Initialize
    MaxDrops,       \* bound on the failures of the heartbeat connection
    MaxQueue        \* bound on the heartbeats waiting in the SUB socket

ASSUME TaskAssumption ==
    /\ None \notin Slaves
    /\ InitSlaves \subseteq Slaves \cup {None}
    /\ Kinds \subseteq {"present", "timeless", "absent", "garbage", "broken"}
    /\ {ReinitTimeout, MaxInits, MaxDrops, MaxQueue} \subseteq Nat
    /\ MaxVersion \in Nat \ {0}

VARIABLES
    \* the task object
    taskstate,     \* _taskstate (protected by _mutexTaskState)
    slave,         \* _slaverequestid
    initialized,   \* _bIsInitialized
    shutdown,      \* _bShutdownHeartbeatMonitor
    \* the application thread
    upc,           \* where it is
    copy,          \* the state its call of GetPublishedTaskState will return;
                   \* Empty when no call is under way
    \* the monitor thread
    mpc,           \* where it is
    base,          \* it runs the loop of the base class
    mslave,        \* heartbeat._slaverequestid
    hbstate,       \* heartbeat.taskstate, which outlives a heartbeat
    age,           \* time since lastheartbeat
    \* the heartbeat connection and the controller
    connected,
    queue,
    version,       \* the controller's state changed this often
    inits, drops,  \* bounded counters
    \* history
    stored,        \* time of the state the monitor stored last
    floor,         \* the value of stored when the call under way began
    overwritten    \* an answer replaced a newer state

taskVars    == <<taskstate, slave, initialized, shutdown>>
userVars    == <<upc, copy>>
monitorVars == <<mpc, base, mslave, hbstate, age>>
netVars     == <<connected, queue, version, inits, drops>>
history     == <<stored, floor, overwritten>>
vars        == <<taskVars, userVars, monitorVars, netVars, history>>

Versions == 1 .. MaxVersion

(* The state of a slave at a version: "time" stands for the timestamp      *)
(* field, "data" for all others.  Parse sets the time of a state whose     *)
(* timestamp field is missing to 0.                                        *)
State(s, v)    == [slave |-> s, time |-> v, data |-> v]
Timeless(s, v) == [slave |-> s, time |-> 0, data |-> v]

States == [slave : Slaves \cup {None}, time : 0 .. MaxVersion, data : 0 .. MaxVersion]

(* Mutant: the constructor leaves the timestamp uninitialized.             *)
EmptyUninitialized == [slave |-> None, time |-> MaxVersion + 1, data |-> 0]

(* A default-constructed ResultGetBinpickingState.                         *)
Empty == State(None, 0)

(* A heartbeat: "present" carries the state of the monitor's slave,        *)
(* "timeless" one without a timestamp, "absent" none, "garbage" is no JSON *)
(* and the state in a "broken" one makes Parse throw after the timestamp   *)
(* was read.  A status "lost" or of less than two characters does not      *)
(* count as a sign of life.                                                *)
Message == [kind : Kinds, alive : BOOLEAN, version : Versions]

TypeOK ==
    /\ taskstate \in States
    /\ slave \in Slaves \cup {None}
    /\ initialized \in BOOLEAN /\ shutdown \in BOOLEAN
    /\ upc \in {"idle", "copied", "asked", "store", "gone", "join", "dead"}
    /\ copy \in States
    /\ mpc \in {"none", "start", "outer", "inner", "poll", "done"}
    /\ base \in BOOLEAN
    /\ mslave \in Slaves \cup {None}
    /\ hbstate \in States
    /\ age \in 0 .. ReinitTimeout
    /\ connected \in BOOLEAN
    /\ queue \in Seq(Message) /\ Len(queue) <= MaxQueue
    /\ version \in Versions
    /\ inits \in 0 .. MaxInits /\ drops \in 0 .. MaxDrops
    /\ stored \in 0 .. MaxVersion /\ floor \in 0 .. MaxVersion
    /\ overwritten \in BOOLEAN

Init ==
    /\ taskstate = Empty /\ slave = None
    /\ initialized = FALSE /\ shutdown = FALSE
    /\ upc = "idle" /\ copy = Empty
    /\ mpc = "none" /\ base = FALSE /\ mslave = None /\ hbstate = Empty /\ age = 0
    /\ connected = FALSE /\ queue = <<>> /\ version = 1
    /\ inits = 0 /\ drops = 0
    /\ stored = 0 /\ floor = 0
    /\ overwritten = FALSE

-----------------------------------------------------------------------------
(* The application thread                                                  *)

(* Initialize: the monitor is started only if there is none yet; one that  *)
(* runs keeps the slave it started with.                                   *)
Initialize(s) ==
    /\ upc = "idle" /\ inits < MaxInits
    /\ inits' = inits + 1
    /\ slave' = s
    /\ initialized' = TRUE
    /\ \/ /\ mpc = "none" /\ ReinitTimeout > 0
          /\ mpc' = "start"
       \/ /\ ~(mpc = "none" /\ ReinitTimeout > 0)
          /\ UNCHANGED mpc
    /\ UNCHANGED <<taskstate, shutdown, userVars, base, mslave, hbstate, age,
                   connected, queue, version, drops, history>>

(* A call of GetPublishedTaskState returns or throws.                      *)
CallEnds ==
    /\ copy' = Empty
    /\ floor' = 0
    /\ upc' = "idle"

(* GetPublishedTaskState: copy _taskstate under its mutex.                 *)
GetPublishedTaskState ==
    /\ upc = "idle"
    /\ copy' = taskstate
    /\ floor' = stored
    /\ upc' = "copied"
    /\ UNCHANGED <<taskVars, monitorVars, netVars, stored, overwritten>>

ReturnCached ==
    /\ upc = "copied" /\ copy.time # 0
    /\ CallEnds
    /\ UNCHANGED <<taskVars, monitorVars, netVars, stored, overwritten>>

(* GetBinpickingState or GetITLState                                       *)
Ask ==
    /\ upc = "copied" /\ copy.time = 0
    /\ initialized
    /\ upc' = "asked"
    /\ UNCHANGED <<taskVars, copy, monitorVars, netVars, history>>

(* The command throws: not initialized, timed out or refused.              *)
AskFails ==
    /\ \/ upc = "copied" /\ copy.time = 0 /\ ~initialized
       \/ upc = "asked"
    /\ CallEnds
    /\ UNCHANGED <<taskVars, monitorVars, netVars, stored, overwritten>>

(* Mutant: the command does not name the slave.                            *)
AnswerOfAnySlave ==
    /\ upc = "asked"
    /\ \E s \in Slaves : copy' = State(s, version)
    /\ upc' = "store"
    /\ UNCHANGED <<taskVars, monitorVars, netVars, history>>

Answer ==
    /\ upc = "asked"
    /\ copy' \in {State(slave, version), Timeless(slave, version)}
    /\ upc' = "store"
    /\ UNCHANGED <<taskVars, monitorVars, netVars, history>>

(* The answer replaces _taskstate, whatever was published meanwhile.       *)
StoreAnswer ==
    /\ upc = "store"
    /\ taskstate' = copy
    /\ CallEnds
    /\ overwritten' = (overwritten \/ copy.time < taskstate.time)
    /\ UNCHANGED <<slave, initialized, shutdown, monitorVars, netVars,
                   stored>>

(* ~BinPickingTaskZmqResource destroys the derived part; the monitor still *)
(* runs, and a call of a virtual function now finds that of the base.      *)
Destroy ==
    /\ upc = "idle"
    /\ upc' = "gone"
    /\ UNCHANGED <<taskVars, copy, monitorVars, netVars, history>>

(* ~BinPickingTaskResource                                                 *)
ShutDown ==
    /\ upc = "gone"
    /\ shutdown' = TRUE
    /\ upc' = "join"
    /\ UNCHANGED <<taskstate, slave, initialized, copy, monitorVars,
                   netVars, history>>

Join ==
    /\ upc = "join" /\ mpc \in {"none", "done"}
    /\ upc' = "dead"
    /\ UNCHANGED <<taskVars, copy, monitorVars, netVars, history>>

-----------------------------------------------------------------------------
(* _HeartbeatMonitorThread                                                 *)

(* The new thread calls the virtual function: the loop of the base class,  *)
(* which does not look for a slave, if the derived part is gone already.   *)
MonitorStart ==
    /\ mpc = "start"
    /\ base' = (upc \in {"gone", "join"})
    /\ mslave' = IF base' THEN mslave ELSE slave
    /\ mpc' = "outer"
    /\ UNCHANGED <<taskVars, userVars, hbstate, age, netVars, history>>

(* The outer loop: a new SUB socket, or the end.                           *)
Outer ==
    /\ mpc = "outer"
    /\ \/ /\ shutdown
          /\ mpc' = "done"
          /\ connected' = FALSE
          /\ UNCHANGED age
       \/ /\ ~shutdown
          /\ mpc' = "inner"
          /\ connected' = TRUE
          /\ age' = 0
    /\ queue' = <<>>
    /\ UNCHANGED <<taskVars, userVars, base, mslave, hbstate, version, inits, drops, history>>

(* Mutants: the inner loop tests only one of its two conditions.           *)
InnerIgnoresTime ==
    /\ mpc = "inner"
    /\ mpc' = IF ~shutdown THEN "poll" ELSE "outer"
    /\ UNCHANGED <<taskVars, userVars, base, mslave, hbstate, age, netVars, history>>

InnerIgnoresShutdown ==
    /\ mpc = "inner"
    /\ mpc' = IF age < ReinitTimeout THEN "poll" ELSE "outer"
    /\ UNCHANGED <<taskVars, userVars, base, mslave, hbstate, age, netVars, history>>

Inner ==
    /\ mpc = "inner"
    /\ mpc' = IF ~shutdown /\ age < ReinitTimeout THEN "poll" ELSE "outer"
    /\ UNCHANGED <<taskVars, userVars, base, mslave, hbstate, age, netVars, history>>

(* poll returns after 50 ms without a message.                             *)
PollEmpty ==
    /\ mpc = "poll" /\ queue = <<>>
    /\ mpc' = "inner"
    /\ UNCHANGED <<taskVars, userVars, base, mslave, hbstate, age, netVars, history>>

(* ResultHeartBeat::Parse on heartbeat.taskstate                           *)
Parse(m) ==
    IF mslave = None \/ m.kind \in {"absent", "garbage"} THEN hbstate
    ELSE IF m.kind = "broken" THEN [hbstate EXCEPT !.slave = mslave, !.time = m.version]
    ELSE IF m.kind = "timeless" THEN Timeless(mslave, m.version)
    ELSE State(mslave, m.version)

Throws(m) == m.kind = "garbage" \/ (m.kind = "broken" /\ mslave # None)

(* Mutant: the state is stored before the heartbeat is parsed.             *)
ReceiveStoresOld ==
    LET m == Head(queue) IN
    /\ mpc = "poll" /\ queue # <<>> /\ ~base
    /\ queue' = Tail(queue)
    /\ hbstate' = Parse(m)
    /\ \/ /\ Throws(m)
          /\ UNCHANGED <<taskstate, stored, age>>
       \/ /\ ~Throws(m)
          /\ taskstate' = hbstate
          /\ stored' = hbstate'.time
          /\ age' = IF m.alive THEN 0 ELSE age
    /\ mpc' = "inner"
    /\ UNCHANGED <<slave, initialized, shutdown, userVars, base, mslave, connected,
                   version, inits, drops, floor, overwritten>>

Receive ==
    LET m == Head(queue) IN
    /\ mpc = "poll" /\ queue # <<>> /\ ~base
    /\ queue' = Tail(queue)
    /\ hbstate' = Parse(m)
    /\ \/ /\ Throws(m)
          /\ UNCHANGED <<taskstate, stored, age>>
       \/ /\ ~Throws(m)
          /\ taskstate' = hbstate'
          /\ stored' = hbstate'.time
          /\ age' = IF m.alive THEN 0 ELSE age
    /\ mpc' = "inner"
    /\ UNCHANGED <<slave, initialized, shutdown, userVars, base, mslave, connected,
                   version, inits, drops, floor, overwritten>>

(* The base class waits for a message "255" and ignores all others, which  *)
(* the heartbeats of this controller are.                                  *)
ReceiveBase ==
    /\ mpc = "poll" /\ queue # <<>> /\ base
    /\ queue' = Tail(queue)
    /\ mpc' = "inner"
    /\ UNCHANGED <<taskVars, userVars, base, mslave, hbstate, age, connected,
                   version, inits, drops, history>>

-----------------------------------------------------------------------------
(* The clock, the controller and the network (external).  The thread is    *)
(* fast: time passes only while no message waits.                          *)
Tick ==
    /\ mpc \in {"inner", "poll"} /\ queue = <<>>
    /\ age < ReinitTimeout
    /\ age' = age + 1
    /\ UNCHANGED <<taskVars, userVars, mpc, base, mslave, hbstate, netVars, history>>

Change ==
    /\ version < MaxVersion
    /\ version' = version + 1
    /\ UNCHANGED <<taskVars, userVars, monitorVars, connected, queue, inits, drops, history>>

(* A heartbeat reaches the socket; one for which there is no room is lost. *)
Publish(kind, alive) ==
    /\ connected /\ Len(queue) < MaxQueue
    /\ queue' = Append(queue, [kind |-> kind, alive |-> alive, version |-> version])
    /\ UNCHANGED <<taskVars, userVars, monitorVars, connected, version, inits, drops, history>>

(* The connection dies and libzmq does not re-establish it (the controller *)
(* moved, a route changed).                                                *)
Drop ==
    /\ connected /\ drops < MaxDrops
    /\ drops' = drops + 1
    /\ connected' = FALSE
    /\ queue' = <<>>
    /\ UNCHANGED <<taskVars, userVars, monitorVars, version, inits, history>>

-----------------------------------------------------------------------------
UserCall == GetPublishedTaskState \/ Destroy \/ \E s \in InitSlaves : Initialize(s)

UserStep == ReturnCached \/ Ask \/ AskFails \/ Answer \/ StoreAnswer
            \/ ShutDown \/ Join

MonitorStep == MonitorStart \/ Outer \/ Inner \/ PollEmpty \/ Receive \/ ReceiveBase

Environment ==
    \/ Change \/ Drop
    \/ \E kind \in Kinds, alive \in BOOLEAN : Publish(kind, alive)

Next == UserCall \/ UserStep \/ MonitorStep \/ Tick \/ Environment

Spec == Init /\ [][Next]_vars

(* Both threads run, the clock ticks, and a controller that can be reached *)
(* again and again publishes the slave's state again and again, before the *)
(* monitor loses patience (its period is shorter than ReinitTimeout).      *)
HealthyHeartbeat ==
    /\ "present" \in Kinds /\ age < ReinitTimeout
    /\ Publish("present", TRUE)

FairSpec ==
    /\ Spec
    /\ WF_vars(UserStep) /\ WF_vars(MonitorStep) /\ WF_vars(Tick)
    /\ SF_vars(HealthyHeartbeat)

-----------------------------------------------------------------------------
Ending == upc \in {"gone", "join", "dead"}

(* The destructor, which waits for the monitor, returns: whichever of the  *)
(* two loops that runs, it notices the shutdown although heartbeats keep   *)
(* coming, and although none comes (binpickingtask.cpp:331-337).           *)
DestructorReturns == upc \in {"gone", "join"} ~> upc = "dead"

(* As long as the task lives, each state of the monitor's slave, or a      *)
(* later one, reaches _taskstate, although connections die, heartbeats are *)
(* lost and some of them make no sense.                                    *)
CacheCatchesUp ==
    \A v \in Versions :
        version = v /\ mpc # "none" /\ mslave # None
            ~> taskstate.time >= v \/ Ending

Returns == upc = "store" \/ (upc = "copied" /\ copy.time # 0)

(* A call returns no state older than the one published before it began,   *)
(* unless the answer to an earlier call has overwritten a newer state.     *)
NotOlderThanPublished == Returns /\ ~overwritten => copy.time >= floor

(* A task that was initialized once publishes the state of the slave it    *)
(* was initialized with; the monitor does not learn of another one.        *)
StateIsOfSlave == inits = 1 /\ taskstate # Empty => taskstate.slave = slave
=============================================================================
