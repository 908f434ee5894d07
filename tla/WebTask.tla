------------------------------ MODULE WebTask -------------------------------
(***************************************************************************)
(* Tasks of a scene and the commands executed on them over the web API:    *)
(* SceneResource::GetOrCreateTaskFromName_UTF8, TaskResource::Execute and  *)
(* GetResult (src/src/mujincontrollerclient.cpp), and ExecuteCommand       *)
(* (src/src/binpickingtask.cpp).  A command is four kinds of requests: put *)
(* it into the task, post a job, poll for a result, fetch the result.      *)
(* Other clients use the same controller, and requests may be lost.        *)
(***************************************************************************)
EXTENDS Naturals, FiniteSets

CONSTANTS
    Clients,      \* each an application thread with its own task object
    Wanted,       \* names and types of the tasks the clients ask for
    Found,        \* names and types of tasks that may exist before
    MaxTasks,     \* bound on the number of tasks; keys count from 1
    Limits,       \* time-outs, in polls; 0 waits for ever
    ClearsResults,\* whether a new job clears the earlier results of its task
    MaxCommands,  \* bound on the number of commands
    MaxFaults     \* bound on lost requests and failing jobs

Types == {"binpicking", "realtimeitlplanning", "realtimeitlplanning3"}

Named == [name : STRING, type : Types]
PKs   == 1 .. MaxTasks
NoPK  == 0

ASSUME WebTaskAssumption ==
    /\ Wanted \cup Found \subseteq Named
    /\ MaxTasks \in Nat \ {0} /\ Limits \subseteq Nat
    /\ ClearsResults \in BOOLEAN /\ MaxCommands \in Nat /\ MaxFaults \in Nat

VARIABLES
    \* the controller
    tasks,    \* pk -> name and type, of the tasks that exist
    params,   \* pk -> the command last put into the task
    jobs,     \* jobs that are pending or active
    result,   \* pk -> the command whose result the task has
    \* the clients
    want, limit,   \* name and type of the task it asks for, time-out
    pc, task, number, polls, outcome, fetched,
    issued,   \* number of commands so far
    \* history
    raced,    \* names that two clients looked for in vain at the same time
    left,     \* commands whose job a lost request has left behind
    disturbed,\* commands that others have interfered with
    bereft,   \* commands whose job or result was taken from them
    faults

server  == <<tasks, params, jobs, result>>
setup   == <<want, limit>>
client  == <<pc, task, number, polls, outcome, fetched, issued>>
history == <<raced, left, disturbed, bereft, faults>>
vars    == <<server, setup, client, history>>

Commands == Clients \X (1 .. MaxCommands)
None     == <<>>
Job      == [task : PKs, by : Commands, runs : Commands \cup {None}]

TypeOK ==
    /\ DOMAIN tasks \subseteq PKs
    /\ \A p \in DOMAIN tasks : tasks[p] \in Named
    /\ params \in [PKs -> Commands \cup {None}] /\ result \in [PKs -> Commands \cup {None}]
    /\ jobs \subseteq Job
    /\ want \in [Clients -> Wanted] /\ limit \in [Clients -> Limits]
    /\ pc \in [Clients -> {"start", "create", "ready", "put", "poll", "sleep", "fetch", "cancel"}]
    /\ task \in [Clients -> PKs \cup {NoPK}]
    /\ issued \in 0 .. MaxCommands /\ number \in [Clients -> 0 .. MaxCommands]
    /\ polls \in [Clients -> Nat]
    /\ outcome \in [Clients -> {"none", "result", "timeout", "thrown"}]
    /\ fetched \in [Clients -> Commands \cup {None}]
    /\ raced \subseteq STRING
    /\ left \cup disturbed \cup bereft \subseteq Commands /\ faults \in 0 .. MaxFaults

NoTasks == [p \in {} |-> 0]

Init ==
    /\ \/ tasks = NoTasks
       \/ \E f \in Found : tasks = [p \in {1} |-> f]
    /\ params = [p \in PKs |-> None] /\ jobs = {} /\ result = [p \in PKs |-> None]
    /\ want \in [Clients -> Wanted] /\ limit \in [Clients -> Limits]
    /\ pc = [c \in Clients |-> "start"] /\ task = [c \in Clients |-> NoPK]
    /\ issued = 0 /\ number = [c \in Clients |-> 0] /\ polls = [c \in Clients |-> 0]
    /\ outcome = [c \in Clients |-> "none"] /\ fetched = [c \in Clients |-> None]
    /\ raced = {} /\ left = {} /\ disturbed = {} /\ bereft = {} /\ faults = 0

-----------------------------------------------------------------------------
Goto(c, where) == pc' = [pc EXCEPT ![c] = where]

(* The command of a client that is in ExecuteCommand, or was last.         *)
Current(c) == <<c, number[c]>>
Busy(c)    == pc[c] \in {"put", "poll", "sleep", "fetch", "cancel"}

OthersOn(c) == {d \in Clients \ {c} : Busy(d) /\ task[d] = task[c]}

Return(c, how, value) ==
    /\ Goto(c, "ready")
    /\ outcome' = [outcome EXCEPT ![c] = how]
    /\ fetched' = [fetched EXCEPT ![c] = value]

Fault == faults < MaxFaults /\ faults' = faults + 1

(* A request of ExecuteCommand throws: its job, if any, stays behind.      *)
Lose(c) ==
    /\ Fault
    /\ Return(c, "thrown", None)
    /\ left' = left \cup {Current(c)}

-----------------------------------------------------------------------------
(* GetOrCreateTaskFromName_UTF8                                            *)

Internal(type) == IF type = "realtimeitlplanning" THEN "realtimeitlplanning3" ELSE type

(* Mutants: the type is not checked; tasks of another type are not found.  *)
AgreesAlways(found, asked) == TRUE

Agrees(found, asked) ==
    \/ found = Internal(asked)
    \/ found = "realtimeitlplanning" /\ Internal(asked) = "realtimeitlplanning3"

SameNameAndType(c) ==
    {p \in DOMAIN tasks : tasks[p].name = want[c].name /\ Agrees(tasks[p].type, want[c].type)}

SameName(c) == {p \in DOMAIN tasks : tasks[p].name = want[c].name}

LookUp(c) ==
    /\ pc[c] = "start"
    /\ \/ \E p \in SameName(c) :
             /\ Agrees(tasks[p].type, want[c].type)
             /\ task' = [task EXCEPT ![c] = p]
             /\ Goto(c, "ready")
       \/ SameName(c) = {} /\ Goto(c, "create") /\ UNCHANGED task
    /\ UNCHANGED <<server, setup, number, issued, polls, outcome, fetched, history>>

NextPK == Cardinality(DOMAIN tasks) + 1

NewTask(c, p) ==
    /\ p \in PKs
    /\ tasks' = [q \in DOMAIN tasks \cup {p} |->
                   IF q = p THEN [name |-> want[c].name, type |-> Internal(want[c].type)]
                   ELSE tasks[q]]
    /\ raced' = IF \E d \in Clients \ {c} : pc[d] = "create" /\ want[d].name = want[c].name
                THEN raced \cup {want[c].name} ELSE raced

Create(c) ==
    /\ pc[c] = "create"
    /\ NewTask(c, NextPK) /\ task' = [task EXCEPT ![c] = NextPK]
    /\ Goto(c, "ready")
    /\ UNCHANGED <<params, jobs, result, setup, number, issued, polls, outcome, fetched>>
    /\ UNCHANGED <<left, disturbed, bereft, faults>>

(* The call throws; the application makes it again.                        *)
CreateLost(c) ==
    /\ pc[c] = "create" /\ Fault
    /\ NewTask(c, NextPK) \/ UNCHANGED <<tasks, raced>>
    /\ Goto(c, "start")
    /\ UNCHANGED <<params, jobs, result, setup, task, number, issued, polls, outcome, fetched>>
    /\ UNCHANGED <<left, disturbed, bereft>>

-----------------------------------------------------------------------------
(* ExecuteCommand                                                          *)

(* A new command is disturbed by jobs of others, by jobs that a lost       *)
(* request has left behind and by those of disturbed commands, and         *)
(* disturbs the commands that are under way.                               *)
Disturb(c, new) ==
    disturbed' = disturbed \cup {Current(d) : d \in OthersOn(c)} \cup
        (IF \/ OthersOn(c) # {}
            \/ \E j \in jobs : j.task = task[c] /\ (j.by[1] # c \/ j.by \in left \cup disturbed)
         THEN {new} ELSE {})

PutCommand(c) ==
    /\ pc[c] = "ready" /\ issued < MaxCommands
    /\ issued' = issued + 1
    /\ number' = [number EXCEPT ![c] = issued']
    /\ polls' = [polls EXCEPT ![c] = 0]
    /\ Disturb(c, <<c, issued + 1>>)
    /\ \/ /\ params' = [params EXCEPT ![task[c]] = <<c, issued + 1>>]
          /\ Goto(c, "put")
          /\ outcome' = [outcome EXCEPT ![c] = "none"]
          /\ fetched' = [fetched EXCEPT ![c] = None]
          /\ UNCHANGED faults
       \/ /\ Fault
          /\ params' = [params EXCEPT ![task[c]] = <<c, issued + 1>>] \/ UNCHANGED params
          /\ Return(c, "thrown", None)
    /\ UNCHANGED <<tasks, jobs, result, setup, task, raced, left, bereft>>

(* The controller takes the job (external).                                *)
PostJob(c) ==
    /\ jobs' = jobs \cup {[task |-> task[c], by |-> Current(c), runs |-> None]}
    /\ result' = IF ClearsResults THEN [result EXCEPT ![task[c]] = None] ELSE result
    /\ bereft' = bereft \cup {Current(d) : d \in OthersOn(c)}

Execute(c) ==
    /\ pc[c] = "put"
    /\ \/ PostJob(c) /\ Goto(c, "poll") /\ UNCHANGED <<outcome, fetched, left, faults>>
       \/ PostJob(c) /\ Lose(c)
       \/ Lose(c) /\ UNCHANGED <<jobs, result, bereft>>
    /\ UNCHANGED <<tasks, params, setup, task, number, issued, polls, raced, disturbed>>

(* Mutant: the loop asks for the result once.                              *)
GetResultOnce(c) ==
    /\ pc[c] = "poll"
    /\ \/ /\ Goto(c, "fetch")
          /\ fetched' = [fetched EXCEPT ![c] = result[task[c]]]
          /\ UNCHANGED <<outcome, left, faults>>
       \/ Lose(c)
    /\ UNCHANGED <<server, setup, task, number, issued, polls, raced, disturbed, bereft>>

(* A result that holds an error message is thrown as an exception, which   *)
(* is as good an answer.                                                   *)
GetResult(c) ==
    /\ pc[c] = "poll"
    /\ \/ /\ Goto(c, IF result[task[c]] = None THEN "sleep" ELSE "fetch")
          /\ fetched' = [fetched EXCEPT ![c] = result[task[c]]]
          /\ UNCHANGED <<outcome, left, faults>>
       \/ /\ result[task[c]] # None        \* getresult is false
          /\ Return(c, "result", result[task[c]])
          /\ UNCHANGED <<left, faults>>
       \/ Lose(c)
    /\ UNCHANGED <<server, setup, task, number, issued, polls, raced, disturbed, bereft>>

(* The result that was found is fetched by its own key; a new job may have *)
(* cleared it.                                                             *)
GetResultJson(c) ==
    /\ pc[c] = "fetch"
    /\ \/ Return(c, "result", fetched[c]) /\ UNCHANGED <<left, faults>>
       \/ result[task[c]] # fetched[c] /\ Return(c, "thrown", None) /\ UNCHANGED <<left, faults>>
       \/ Lose(c)
    /\ UNCHANGED <<server, setup, task, number, issued, polls, raced, disturbed, bereft>>

(* Mutant: waits for ever.                                                 *)
SleepAgain(c) ==
    /\ pc[c] = "sleep"
    /\ polls' = [polls EXCEPT ![c] = IF limit[c] = 0 THEN 0 ELSE 1]
    /\ Goto(c, "poll")
    /\ UNCHANGED <<server, setup, task, number, issued, outcome, fetched, history>>

Sleep(c) ==
    /\ pc[c] = "sleep"
    /\ polls' = [polls EXCEPT ![c] = IF limit[c] = 0 THEN 0 ELSE @ + 1]
    /\ Goto(c, IF limit[c] # 0 /\ polls[c] + 1 > limit[c] THEN "cancel" ELSE "poll")
    /\ UNCHANGED <<server, setup, task, number, issued, outcome, fetched, history>>

(* Mutant: the time-out is thrown and the job goes on.                     *)
GiveUpNotCancelling(c) ==
    /\ pc[c] = "cancel"
    /\ Return(c, "timeout", None)
    /\ UNCHANGED <<server, setup, task, number, issued, polls, history>>

(* CancelAllJobs, of all clients.                                          *)
GiveUp(c) ==
    /\ pc[c] = "cancel"
    /\ \/ /\ jobs' = {} /\ bereft' = bereft \cup {j.by : j \in jobs}
          /\ Return(c, "timeout", None)
          /\ UNCHANGED <<left, faults>>
       \/ Lose(c) /\ UNCHANGED <<jobs, bereft>>
    /\ UNCHANGED <<tasks, params, result, setup, task, number, issued, polls, raced, disturbed>>

-----------------------------------------------------------------------------
(* The controller (external): a job reads the command of its task when it  *)
(* starts.                                                                 *)
JobStarts(j) ==
    /\ j.runs = None
    /\ jobs' = (jobs \ {j}) \cup {[j EXCEPT !.runs = params[j.task]]}
    /\ UNCHANGED <<tasks, params, result, setup, client, history>>

JobSucceeds(j) ==
    /\ j.runs # None
    /\ jobs' = jobs \ {j}
    /\ result' = [result EXCEPT ![j.task] = j.runs]
    /\ UNCHANGED <<tasks, params, setup, client, history>>

JobFails(j) ==
    /\ Fault
    /\ jobs' = jobs \ {j}
    /\ bereft' = bereft \cup {j.by}
    /\ UNCHANGED <<tasks, params, result, setup, client, raced, left, disturbed>>

Command(c) ==
    Execute(c) \/ GetResult(c) \/ GetResultJson(c) \/ Sleep(c) \/ GiveUp(c)

Controller == \E j \in jobs : JobStarts(j) \/ JobSucceeds(j)

Next ==
    \/ \E c \in Clients :
          LookUp(c) \/ Create(c) \/ CreateLost(c) \/ PutCommand(c) \/ Command(c)
    \/ Controller
    \/ \E j \in jobs : JobFails(j)

Spec == Init /\ [][Next]_vars

(* A command goes on, and jobs end.                                        *)
FairSpec == Spec /\ WF_vars(Controller) /\ \A c \in Clients : WF_vars(Command(c))

-----------------------------------------------------------------------------
(* A client works with a task of the name and type it asked for; an old    *)
(* realtimeitlplanning task serves as one of the third version.            *)
TaskIsAsAsked ==
    \A c \in Clients : task[c] # NoPK =>
        /\ tasks[task[c]].name = want[c].name
        /\ \/ tasks[task[c]].type = Internal(want[c].type)
           \/ Internal(want[c].type) = "realtimeitlplanning3"
              /\ tasks[task[c]].type = "realtimeitlplanning"

(* Looking before creating keeps names unique, also when a call is         *)
(* repeated whose answer was lost; only two clients that look at the same  *)
(* time can both create.                                                   *)
OneTaskPerName ==
    \A p, q \in DOMAIN tasks : tasks[p].name = tasks[q].name => p = q \/ tasks[p].name \in raced

(* ExecuteCommand returns the result of its own command, also after an     *)
(* earlier command of the same task timed out, unless another client used  *)
(* the task at the same time or a request was lost that leaves a job       *)
(* behind.                                                                 *)
ResultIsOwn ==
    \A c \in Clients : outcome[c] = "result" /\ Current(c) \notin disturbed
        => fetched[c] = Current(c)

(* A command with a time-out ends; one without ends unless its job fails,  *)
(* or another client cancels it or uses its task.                          *)
CommandsEnd ==
    \A c \in Clients :
        Busy(c) ~> (~Busy(c) \/ (limit[c] = 0 /\ Current(c) \in bereft \cup disturbed))
=============================================================================
