--------------------------- MODULE WebTaskProofs ----------------------------
(***************************************************************************)
(* Theorems about WebTask, for any clients, tasks, time-outs and numbers   *)
(* of commands and faults.                                                 *)
(***************************************************************************)
EXTENDS WebTask, FiniteSetTheorems, TLAPS

-----------------------------------------------------------------------------
(* Where a client is says what it has: a task, a command.                  *)
PlaceInv ==
    \A c \in Clients :
        /\ task[c] # NoPK => task[c] \in DOMAIN tasks
        /\ pc[c] \notin {"start", "create"} => task[c] # NoPK
        /\ Busy(c) => number[c] \in 1 .. MaxCommands

KeysInv == \E n \in Nat : DOMAIN tasks = 1 .. n

LEMMA CurrentTyped ==
  ASSUME TypeOK, PlaceInv, NEW c \in Clients, Busy(c)
  PROVE  Current(c) \in Commands
  BY DEF PlaceInv, Current, Commands

LEMMA TaskTyped ==
  ASSUME TypeOK, PlaceInv, NEW c \in Clients, pc[c] \notin {"start", "create"}
  PROVE  task[c] \in PKs
  BY DEF TypeOK, PlaceInv

LEMMA OthersTyped ==
  ASSUME TypeOK, PlaceInv, NEW c \in Clients
  PROVE  {Current(d) : d \in OthersOn(c)} \subseteq Commands
  BY CurrentTyped DEF OthersOn

LEMMA FaultTyped ==
  ASSUME TypeOK, Fault
  PROVE  faults' \in 0 .. MaxFaults
  BY WebTaskAssumption DEF TypeOK, Fault

LEMMA InternalTyped ==
  ASSUME NEW t \in Types
  PROVE  Internal(t) \in Types
  BY DEF Internal, Types

(* The new key is new.                                                     *)
LEMMA NextIsNew ==
  ASSUME KeysInv
  PROVE  /\ NextPK \notin DOMAIN tasks
         /\ \E n \in Nat : DOMAIN tasks \cup {NextPK} = 1 .. n
<1>1. PICK n \in Nat : DOMAIN tasks = 1 .. n
  BY DEF KeysInv
<1>2. Cardinality(DOMAIN tasks) = n
  BY <1>1, FS_Interval
<1>3. NextPK = n + 1
  BY <1>2 DEF NextPK
<1>4. QED
  BY <1>1, <1>3

LEMMA NewTaskTyped ==
  ASSUME TypeOK, KeysInv, NEW c \in Clients, NewTask(c, NextPK)
  PROVE  /\ NextPK \in PKs
         /\ DOMAIN tasks' = DOMAIN tasks \cup {NextPK}
         /\ \A q \in DOMAIN tasks : tasks'[q] = tasks[q]
         /\ tasks'[NextPK] = [name |-> want[c].name, type |-> Internal(want[c].type)]
         /\ \A p \in DOMAIN tasks' : tasks'[p] \in Named
         /\ DOMAIN tasks' \subseteq PKs
         /\ raced \subseteq raced' /\ raced' \subseteq STRING
         /\ KeysInv'
<1>1. want[c] \in Named
  BY WebTaskAssumption DEF TypeOK
<1>2. [name |-> want[c].name, type |-> Internal(want[c].type)] \in Named
  BY <1>1, InternalTyped DEF Named
<1>3. /\ DOMAIN tasks' = DOMAIN tasks \cup {NextPK}
      /\ \A q \in DOMAIN tasks : q # NextPK => tasks'[q] = tasks[q]
      /\ tasks'[NextPK] = [name |-> want[c].name, type |-> Internal(want[c].type)]
      /\ NextPK \in PKs
  BY DEF NewTask
<1>4. \A q \in DOMAIN tasks : tasks'[q] = tasks[q]
  BY <1>3, NextIsNew
<1>5. raced \subseteq raced' /\ raced' \subseteq STRING
  BY <1>1 DEF NewTask, TypeOK, Named
<1>6. KeysInv'
  BY <1>3, NextIsNew DEF KeysInv
<1>7. QED
  BY <1>2, <1>3, <1>4, <1>5, <1>6 DEF TypeOK

TypeInv == TypeOK /\ PlaceInv /\ KeysInv

LEMMA TypedInitially == Init => TypeInv
<1> SUFFICES ASSUME Init
             PROVE  TypeInv
  OBVIOUS
<1> USE WebTaskAssumption
<1>1. \E n \in Nat : n <= 1 /\ DOMAIN tasks = 1 .. n /\ \A p \in DOMAIN tasks : tasks[p] \in Found
  <2>1. ASSUME tasks = NoTasks
        PROVE  DOMAIN tasks = 1 .. 0 /\ \A p \in DOMAIN tasks : tasks[p] \in Found
    BY <2>1 DEF NoTasks
  <2>2. ASSUME NEW f \in Found, tasks = [p \in {1} |-> f]
        PROVE  DOMAIN tasks = 1 .. 1 /\ \A p \in DOMAIN tasks : tasks[p] \in Found
    <3>1. 1 .. 1 = {1}
      OBVIOUS
    <3>2. QED
      BY <2>2, <3>1
  <2>3. \/ DOMAIN tasks = 1 .. 0 /\ \A p \in DOMAIN tasks : tasks[p] \in Found
        \/ DOMAIN tasks = 1 .. 1 /\ \A p \in DOMAIN tasks : tasks[p] \in Found
    BY <2>1, <2>2 DEF Init
  <2>4. CASE DOMAIN tasks = 1 .. 0 /\ \A p \in DOMAIN tasks : tasks[p] \in Found
    <3>1. WITNESS 0 \in Nat
    <3>2. QED
      BY <2>4
  <2>5. CASE DOMAIN tasks = 1 .. 1 /\ \A p \in DOMAIN tasks : tasks[p] \in Found
    <3>1. WITNESS 1 \in Nat
    <3>2. QED
      BY <2>5
  <2>6. QED
    BY <2>3, <2>4, <2>5
<1>2. KeysInv /\ DOMAIN tasks \subseteq PKs /\ \A p \in DOMAIN tasks : tasks[p] \in Named
  BY <1>1 DEF KeysInv, PKs
<1>3. PlaceInv
  BY DEF Init, PlaceInv, Busy, NoPK
<1>4. params \in [PKs -> Commands \cup {None}] /\ result \in [PKs -> Commands \cup {None}]
  BY DEF Init
<1>5. TypeOK
  BY <1>2, <1>4 DEF Init, TypeOK
<1>6. QED
  BY <1>2, <1>3, <1>5 DEF TypeInv

LEMMA LookUpTyped ==
  ASSUME TypeInv, NEW c \in Clients, LookUp(c)
  PROVE  TypeInv'
<1> USE DEF TypeInv
<1>1. CASE SameName(c) = {} /\ Goto(c, "create") /\ UNCHANGED task
  BY <1>1 DEF LookUp, Goto, server, setup, history, TypeOK, PlaceInv, KeysInv, Busy
<1>2. ASSUME NEW p \in SameName(c), task' = [task EXCEPT ![c] = p], Goto(c, "ready")
      PROVE  TypeInv'
  <2>1. p \in DOMAIN tasks /\ p \in PKs /\ p # NoPK
    BY DEF SameName, TypeOK, PKs, NoPK
  <2>2. PlaceInv'
    BY <1>2, <2>1 DEF LookUp, Goto, server, TypeOK, PlaceInv, Busy
  <2>3. QED
    BY <1>2, <2>1, <2>2 DEF LookUp, Goto, server, setup, history, TypeOK, KeysInv
<1>3. QED
  BY <1>1, <1>2 DEF LookUp

LEMMA CreateTyped ==
  ASSUME TypeInv, NEW c \in Clients, Create(c)
  PROVE  TypeInv'
<1> USE DEF TypeInv
<1>1. NewTask(c, NextPK)
  BY DEF Create
<1>2. NextPK # NoPK
  <2>1. NextPK \in PKs
    BY <1>1, NewTaskTyped
  <2>2. QED
    BY <2>1, WebTaskAssumption DEF PKs, NoPK
<1>3. PlaceInv'
  BY <1>1, <1>2, NewTaskTyped DEF Create, Goto, TypeOK, PlaceInv, Busy
<1>4. TypeOK'
  BY <1>1, NewTaskTyped DEF Create, Goto, setup, TypeOK
<1>5. QED
  BY <1>1, <1>3, <1>4, NewTaskTyped

LEMMA CreateLostTyped ==
  ASSUME TypeInv, NEW c \in Clients, CreateLost(c)
  PROVE  TypeInv'
<1> USE DEF TypeInv
<1>1. faults' \in 0 .. MaxFaults
  BY FaultTyped DEF CreateLost
<1>2. CASE NewTask(c, NextPK)
  <2>1. PlaceInv'
    BY <1>2, NewTaskTyped DEF CreateLost, Goto, TypeOK, PlaceInv, Busy
  <2>2. TypeOK'
    BY <1>1, <1>2, NewTaskTyped DEF CreateLost, Goto, setup, TypeOK
  <2>3. QED
    BY <1>2, <2>1, <2>2, NewTaskTyped
<1>3. CASE UNCHANGED <<tasks, raced>>
  BY <1>1, <1>3 DEF CreateLost, Goto, setup, TypeOK, PlaceInv, KeysInv, Busy
<1>4. QED
  BY <1>2, <1>3 DEF CreateLost

LEMMA PutCommandTyped ==
  ASSUME TypeInv, NEW c \in Clients, PutCommand(c)
  PROVE  TypeInv'
<1> USE DEF TypeInv
<1>1. issued + 1 \in 1 .. MaxCommands /\ issued' = issued + 1
  BY WebTaskAssumption DEF PutCommand, TypeOK
<1>2. <<c, issued + 1>> \in Commands
  BY <1>1 DEF Commands
<1>3. params' \in [PKs -> Commands \cup {None}]
  BY <1>2 DEF PutCommand, TypeOK
<1>4. disturbed' \subseteq Commands
  BY <1>2, OthersTyped DEF PutCommand, Disturb, TypeOK
<1>5. /\ pc' \in [Clients -> {"start", "create", "ready", "put", "poll", "sleep", "fetch", "cancel"}]
      /\ outcome' \in [Clients -> {"none", "result", "timeout", "thrown"}]
      /\ fetched' \in [Clients -> Commands \cup {None}]
  BY DEF PutCommand, Goto, Return, TypeOK
<1>6. faults' \in 0 .. MaxFaults
  BY FaultTyped DEF PutCommand, TypeOK
<1>7. number' \in [Clients -> 0 .. MaxCommands] /\ polls' \in [Clients -> Nat]
  BY <1>1 DEF PutCommand, TypeOK
<1>8. TypeOK'
  BY <1>1, <1>3, <1>4, <1>5, <1>6, <1>7 DEF PutCommand, setup, TypeOK
<1>9. PlaceInv'
  BY <1>1 DEF PutCommand, Goto, Return, TypeOK, PlaceInv, Busy
<1>10. QED
  BY <1>8, <1>9 DEF PutCommand, KeysInv

(* What the steps of ExecuteCommand after the first leave alone.           *)
LEMMA CommandKeeps ==
  ASSUME NEW c \in Clients, Command(c)
  PROVE  /\ UNCHANGED <<tasks, params, setup, task, number, issued, raced, disturbed>>
         /\ pc[c] \in {"put", "poll", "sleep", "fetch", "cancel"}
  BY DEF Command, Execute, GetResult, GetResultJson, Sleep, GiveUp, server, history

LEMMA LoseTyped ==
  ASSUME TypeInv, NEW c \in Clients, Busy(c), Lose(c)
  PROVE  /\ faults' \in 0 .. MaxFaults
         /\ pc' = [pc EXCEPT ![c] = "ready"]
         /\ outcome' = [outcome EXCEPT ![c] = "thrown"]
         /\ fetched' = [fetched EXCEPT ![c] = None]
         /\ left' = left \cup {Current(c)} /\ left' \subseteq Commands
<1>1. faults' \in 0 .. MaxFaults
  BY FaultTyped DEF Lose, TypeInv
<1>2. Current(c) \in Commands
  BY CurrentTyped DEF TypeInv
<1>3. QED
  BY <1>1, <1>2 DEF Lose, Return, Goto, TypeInv, TypeOK

LEMMA PostJobTyped ==
  ASSUME TypeInv, NEW c \in Clients, Busy(c), PostJob(c)
  PROVE  /\ jobs' \subseteq Job /\ result' \in [PKs -> Commands \cup {None}]
         /\ bereft' \subseteq Commands
<1> USE DEF TypeInv
<1>1. Current(c) \in Commands /\ task[c] \in PKs
  BY CurrentTyped, TaskTyped DEF Busy
<1>2. [task |-> task[c], by |-> Current(c), runs |-> None] \in Job
  BY <1>1 DEF Job
<1>3. bereft' \subseteq Commands
  BY OthersTyped DEF PostJob, TypeOK
<1>4. QED
  BY <1>2, <1>3 DEF PostJob, TypeOK

LEMMA CommandTyped ==
  ASSUME TypeInv, NEW c \in Clients, Command(c)
  PROVE  TypeInv'
<1> USE DEF TypeInv
<1>1. Busy(c) /\ task[c] \in PKs
  BY CommandKeeps, TaskTyped DEF Busy
<1>2. result[task[c]] \in Commands \cup {None} /\ fetched[c] \in Commands \cup {None}
  BY <1>1 DEF TypeOK
<1>3. PlaceInv'
  <2>1. \A d \in Clients \ {c} : pc'[d] = pc[d]
    BY DEF Command, Execute, GetResult, GetResultJson, Sleep, GiveUp, Lose, Return, Goto, TypeOK
  <2>2. QED
    BY <1>1, <2>1, CommandKeeps DEF PlaceInv, Busy
<1>4. CASE Execute(c)
  <2>1. CASE PostJob(c) /\ Goto(c, "poll") /\ UNCHANGED <<outcome, fetched, left, faults>>
    BY <1>1, <1>3, <1>4, <2>1, PostJobTyped DEF Execute, Goto, setup, TypeOK, KeysInv
  <2>2. CASE PostJob(c) /\ Lose(c)
    BY <1>1, <1>3, <1>4, <2>2, PostJobTyped, LoseTyped DEF Execute, setup, TypeOK, KeysInv
  <2>3. CASE Lose(c) /\ UNCHANGED <<jobs, result, bereft>>
    BY <1>1, <1>3, <1>4, <2>3, LoseTyped DEF Execute, setup, TypeOK, KeysInv
  <2>4. QED
    BY <1>4, <2>1, <2>2, <2>3 DEF Execute
<1>5. CASE GetResult(c)
  <2>1. CASE Lose(c)
    BY <1>1, <1>3, <1>5, <2>1, LoseTyped DEF GetResult, server, setup, TypeOK, KeysInv
  <2>2. CASE ~Lose(c)
    BY <1>1, <1>2, <1>3, <1>5, <2>2 DEF GetResult, Goto, Return, server, setup, TypeOK, KeysInv
  <2>3. QED
    BY <2>1, <2>2
<1>6. CASE GetResultJson(c)
  <2>1. CASE Lose(c)
    BY <1>1, <1>3, <1>6, <2>1, LoseTyped DEF GetResultJson, server, setup, TypeOK, KeysInv
  <2>2. CASE ~Lose(c)
    BY <1>1, <1>2, <1>3, <1>6, <2>2 DEF GetResultJson, Goto, Return, server, setup, TypeOK, KeysInv
  <2>3. QED
    BY <2>1, <2>2
<1>7. CASE Sleep(c)
  <2>1. polls' \in [Clients -> Nat]
    BY <1>7 DEF Sleep, TypeOK
  <2>2. pc' \in [Clients -> {"start", "create", "ready", "put", "poll", "sleep", "fetch", "cancel"}]
    BY <1>7 DEF Sleep, Goto, TypeOK
  <2>3. QED
    BY <1>3, <1>7, <2>1, <2>2 DEF Sleep, server, setup, history, TypeOK, KeysInv
<1>8. CASE GiveUp(c)
  <2>1. CASE Lose(c) /\ UNCHANGED <<jobs, bereft>>
    BY <1>1, <1>3, <1>8, <2>1, LoseTyped DEF GiveUp, setup, TypeOK, KeysInv
  <2>2. CASE /\ jobs' = {} /\ bereft' = bereft \cup {j.by : j \in jobs}
             /\ Return(c, "timeout", None) /\ UNCHANGED <<left, faults>>
    <3>1. bereft' \subseteq Commands
      BY <2>2 DEF TypeOK, Job
    <3>2. QED
      BY <1>1, <1>3, <1>8, <2>2, <3>1 DEF GiveUp, Return, Goto, setup, TypeOK, KeysInv
  <2>3. QED
    BY <1>8, <2>1, <2>2 DEF GiveUp
<1>9. QED
  BY <1>4, <1>5, <1>6, <1>7, <1>8 DEF Command

LEMMA JobTyped ==
  ASSUME TypeInv, NEW j \in jobs, JobStarts(j) \/ JobSucceeds(j) \/ JobFails(j)
  PROVE  TypeInv'
<1> USE DEF TypeInv
<1>1. j \in Job /\ j.task \in PKs /\ j.by \in Commands /\ j.runs \in Commands \cup {None}
  BY DEF TypeOK, Job
<1>2. CASE JobStarts(j)
  <2>1. params[j.task] \in Commands \cup {None}
    BY <1>1 DEF TypeOK
  <2>2. [j EXCEPT !.runs = params[j.task]] \in Job
    BY <1>1, <2>1 DEF Job
  <2>3. jobs' \subseteq Job
    BY <1>2, <2>2 DEF JobStarts, TypeOK
  <2>4. QED
    BY <1>2, <2>3 DEF JobStarts, setup, client, history, TypeOK, PlaceInv, KeysInv, Busy
<1>3. CASE JobSucceeds(j)
  BY <1>1, <1>3 DEF JobSucceeds, setup, client, history, TypeOK, PlaceInv, KeysInv, Busy
<1>4. CASE JobFails(j)
  <2>1. faults' \in 0 .. MaxFaults
    BY <1>4, FaultTyped DEF JobFails
  <2>2. QED
    BY <1>1, <1>4, <2>1 DEF JobFails, setup, client, TypeOK, PlaceInv, KeysInv, Busy
<1>5. QED
  BY <1>2, <1>3, <1>4

LEMMA TypePreserved == TypeInv /\ [Next]_vars => TypeInv'
<1> SUFFICES ASSUME TypeInv, [Next]_vars
             PROVE  TypeInv'
  OBVIOUS
<1>1. CASE UNCHANGED vars
  BY <1>1 DEF vars, server, setup, client, history, TypeInv, TypeOK, PlaceInv, KeysInv, Busy
<1>2. QED
  BY <1>1, LookUpTyped, CreateTyped, CreateLostTyped, PutCommandTyped, CommandTyped, JobTyped
  DEF Next, Controller

(* Types, and that clients have what they need where they are.             *)
THEOREM TypeCorrect == Spec => []TypeOK
<1>1. TypeInv => TypeOK
  BY DEF TypeInv
<1>2. QED
  BY TypedInitially, TypePreserved, <1>1, PTL DEF Spec

-----------------------------------------------------------------------------
(* Steps that have nothing to do with tasks and their names.               *)
NamesUnchanged == UNCHANGED <<tasks, task, want, raced>>

LEMMA OtherSteps ==
  ASSUME TypeInv, [Next]_vars,
         \A c \in Clients : ~LookUp(c) /\ ~Create(c) /\ ~CreateLost(c)
  PROVE  NamesUnchanged /\ \A c \in Clients : pc'[c] = "create" => pc[c] = "create"
<1> USE DEF NamesUnchanged
<1>1. ASSUME NEW c \in Clients, PutCommand(c)
      PROVE  NamesUnchanged /\ \A d \in Clients : pc'[d] = "create" => pc[d] = "create"
  BY <1>1 DEF PutCommand, Goto, Return, setup, TypeInv, TypeOK
<1>2. ASSUME NEW c \in Clients, Command(c)
      PROVE  NamesUnchanged /\ \A d \in Clients : pc'[d] = "create" => pc[d] = "create"
  <2>1. \A d \in Clients : pc'[d] = "create" => pc[d] = "create"
    BY <1>2 DEF Command, Execute, GetResult, GetResultJson, Sleep, GiveUp, Lose, Return, Goto,
                TypeInv, TypeOK
  <2>2. QED
    BY <1>2, <2>1, CommandKeeps DEF setup
<1>3. ASSUME NEW j \in jobs, JobStarts(j) \/ JobSucceeds(j) \/ JobFails(j)
      PROVE  NamesUnchanged /\ \A d \in Clients : pc'[d] = "create" => pc[d] = "create"
  BY <1>3 DEF JobStarts, JobSucceeds, JobFails, setup, client, history
<1>4. CASE UNCHANGED vars
  BY <1>4 DEF vars, server, setup, client, history
<1>5. QED
  BY <1>1, <1>2, <1>3, <1>4 DEF Next, Controller

(* Why names are unique: whoever is about to create a task has found none  *)
(* of its name, and a task that appeared since then is known to have raced.*)
NameInv ==
    \A c \in Clients : pc[c] = "create" =>
        \A p \in DOMAIN tasks : tasks[p].name = want[c].name => want[c].name \in raced

NamesInv == OneTaskPerName /\ NameInv

LEMMA NewTaskNames ==
  ASSUME TypeInv, NamesInv, NEW c \in Clients, pc[c] = "create", NewTask(c, NextPK),
         UNCHANGED want, \A d \in Clients : pc'[d] = "create" => pc[d] = "create",
         pc'[c] # "create"
  PROVE  NamesInv'
<1> USE DEF TypeInv, NamesInv
<1> DEFINE new == NextPK
<1>1. /\ DOMAIN tasks' = DOMAIN tasks \cup {new}
      /\ \A q \in DOMAIN tasks : tasks'[q] = tasks[q]
      /\ tasks'[new].name = want[c].name
      /\ raced \subseteq raced'
  <2>1. /\ DOMAIN tasks' = DOMAIN tasks \cup {NextPK}
        /\ \A q \in DOMAIN tasks : tasks'[q] = tasks[q]
        /\ tasks'[NextPK] = [name |-> want[c].name, type |-> Internal(want[c].type)]
        /\ raced \subseteq raced'
    BY NewTaskTyped
  <2>2. tasks'[NextPK].name = want[c].name
    BY <2>1
  <2>3. QED
    BY <2>1, <2>2
<1>2. \A q \in DOMAIN tasks : tasks[q].name = want[c].name => want[c].name \in raced'
  BY <1>1 DEF NameInv
<1> HIDE DEF new
<1>3. OneTaskPerName'
  BY <1>1, <1>2 DEF OneTaskPerName
<1>4. ASSUME NEW d \in Clients, pc'[d] = "create", NEW p \in DOMAIN tasks',
             tasks'[p].name = want[d].name
      PROVE  want[d].name \in raced'
  <2>1. d # c /\ pc[d] = "create"
    BY <1>4
  <2>2. CASE p \in DOMAIN tasks
    BY <1>1, <1>4, <2>1, <2>2 DEF NameInv
  <2>3. CASE p = new
    <3>1. want[d].name = want[c].name
      BY <1>1, <1>4, <2>3
    <3>2. want[c].name \in raced'
      BY <2>1, <3>1 DEF NewTask
    <3>3. QED
      BY <3>1, <3>2
  <2>4. QED
    BY <1>1, <1>4, <2>2, <2>3
<1>5. QED
  BY <1>3, <1>4 DEF NameInv

LEMMA NamesPreserved == TypeInv /\ NamesInv /\ [Next]_vars => NamesInv'
<1> SUFFICES ASSUME TypeInv, NamesInv, [Next]_vars
             PROVE  NamesInv'
  OBVIOUS
<1> USE DEF NamesInv
<1>1. ASSUME NEW c \in Clients, LookUp(c)
      PROVE  NamesInv'
  BY <1>1 DEF LookUp, Goto, server, setup, history, SameName, NameInv, OneTaskPerName,
              TypeInv, TypeOK
<1>2. ASSUME NEW c \in Clients, Create(c)
      PROVE  NamesInv'
  <2>1. /\ pc[c] = "create" /\ NewTask(c, NextPK) /\ UNCHANGED want
        /\ pc'[c] # "create" /\ \A d \in Clients : pc'[d] = "create" => pc[d] = "create"
    BY <1>2 DEF Create, Goto, setup, TypeInv, TypeOK
  <2>2. QED
    BY <2>1, NewTaskNames
<1>3. ASSUME NEW c \in Clients, CreateLost(c)
      PROVE  NamesInv'
  <2>1. /\ pc[c] = "create" /\ UNCHANGED want
        /\ pc'[c] # "create" /\ \A d \in Clients : pc'[d] = "create" => pc[d] = "create"
    BY <1>3 DEF CreateLost, Goto, setup, TypeInv, TypeOK
  <2>2. CASE NewTask(c, NextPK)
    BY <2>1, <2>2, NewTaskNames
  <2>3. CASE UNCHANGED <<tasks, raced>>
    BY <2>1, <2>3 DEF NameInv, OneTaskPerName
  <2>4. QED
    BY <1>3, <2>2, <2>3 DEF CreateLost
<1>4. CASE \A c \in Clients : ~LookUp(c) /\ ~Create(c) /\ ~CreateLost(c)
  BY <1>4, OtherSteps DEF NamesUnchanged, NameInv, OneTaskPerName
<1>5. QED
  BY <1>1, <1>2, <1>3, <1>4

(* Two tasks have the same name only if two clients looked for it in vain  *)
(* at the same time.                                                       *)
THEOREM UniqueNames == Spec => []OneTaskPerName
<1>1. Init => NamesInv
  BY DEF Init, NoTasks, NamesInv, NameInv, OneTaskPerName
<1>2. NamesInv => OneTaskPerName
  BY DEF NamesInv
<1>3. QED
  BY TypedInitially, TypePreserved, NamesPreserved, <1>1, <1>2, PTL DEF Spec

-----------------------------------------------------------------------------
(* The task of a client is the one it asked for.                           *)
LEMMA AskedPreserved == TypeInv /\ TaskIsAsAsked /\ [Next]_vars => TaskIsAsAsked'
<1> SUFFICES ASSUME TypeInv, TaskIsAsAsked, [Next]_vars
             PROVE  TaskIsAsAsked'
  OBVIOUS
<1> USE DEF TaskIsAsAsked
<1>1. ASSUME NEW c \in Clients, LookUp(c)
      PROVE  TaskIsAsAsked'
  <2>1. CASE UNCHANGED task
    BY <1>1, <2>1 DEF LookUp, server, setup
  <2>2. ASSUME NEW p \in SameName(c), Agrees(tasks[p].type, want[c].type),
               task' = [task EXCEPT ![c] = p]
        PROVE  TaskIsAsAsked'
    BY <1>1, <2>2 DEF LookUp, server, setup, SameName, Agrees, TypeInv, TypeOK
  <2>3. QED
    BY <1>1, <2>1, <2>2 DEF LookUp
<1>2. ASSUME NEW c \in Clients, NewTask(c, NextPK), UNCHANGED want,
             task' \in {task, [task EXCEPT ![c] = NextPK]}
      PROVE  TaskIsAsAsked'
  <2> DEFINE new == NextPK
  <2>1. /\ DOMAIN tasks' = DOMAIN tasks \cup {new}
        /\ \A q \in DOMAIN tasks : tasks'[q] = tasks[q]
        /\ tasks'[new] = [name |-> want[c].name, type |-> Internal(want[c].type)]
    BY <1>2, NewTaskTyped DEF TypeInv
  <2>2. task' \in {task, [task EXCEPT ![c] = new]}
    BY <1>2
  <2> HIDE DEF new
  <2>3. \A d \in Clients : task[d] # NoPK => task[d] \in DOMAIN tasks
    BY DEF TypeInv, PlaceInv
  <2>4. \A d \in Clients : task'[d] = task[d] \/ (d = c /\ task'[d] = new)
    BY <2>2 DEF TypeInv, TypeOK
  <2>5. QED
    BY <1>2, <2>1, <2>3, <2>4
<1>3. ASSUME NEW c \in Clients, Create(c) \/ CreateLost(c)
      PROVE  TaskIsAsAsked'
  BY <1>2, <1>3 DEF Create, CreateLost, setup
<1>4. CASE \A c \in Clients : ~LookUp(c) /\ ~Create(c) /\ ~CreateLost(c)
  BY <1>4, OtherSteps DEF NamesUnchanged
<1>5. QED
  BY <1>1, <1>3, <1>4

(* GetOrCreateTaskFromName returns a task of the name and type asked for.  *)
THEOREM TasksAsAsked == Spec => []TaskIsAsAsked
<1>1. Init => TaskIsAsAsked
  BY DEF Init, TaskIsAsAsked
<1>2. QED
  BY TypedInitially, TypePreserved, AskedPreserved, <1>1, PTL DEF Spec

-----------------------------------------------------------------------------
(* A command that nobody disturbs has its task for itself: no other        *)
(* command is under way on it, no job of another command, and what it put  *)
(* into the task is still there.                                           *)
Calm(c) == Busy(c) /\ Current(c) \notin disturbed

AloneInv ==
    \A c, d \in Clients : Calm(c) /\ Busy(d) /\ c # d => task[c] # task[d]

JobInv ==
    \A j \in jobs : j.by \notin left \cup disturbed =>
        Busy(j.by[1]) /\ j.by = Current(j.by[1]) /\ j.task = task[j.by[1]]

JobsOn(c) == {j \in jobs : j.task = task[c]}

Quiet(c) ==
    /\ params[task[c]] = Current(c)
    /\ \A j \in JobsOn(c) : j.by = Current(c) /\ j.runs \in {None, Current(c)}
    /\ \A j, k \in JobsOn(c) : j = k
    /\ pc[c] = "put" => JobsOn(c) = {}
    /\ pc[c] # "put" => result[task[c]] \in {None, Current(c)}
    /\ pc[c] # "put" /\ result[task[c]] # None => JobsOn(c) = {}
    /\ pc[c] = "fetch" => fetched[c] = Current(c) /\ JobsOn(c) = {}

OwnInv ==
    /\ AloneInv
    /\ JobInv
    /\ \A c \in Clients : Calm(c) => Quiet(c)
    /\ \A c \in Clients : Busy(c) => outcome[c] = "none"
    /\ ResultIsOwn

(* Before a command there is nothing to preserve but what others do.       *)
LEMMA OwnBefore ==
  ASSUME TypeInv, OwnInv, NEW c \in Clients, LookUp(c) \/ Create(c) \/ CreateLost(c)
  PROVE  OwnInv'
<1> USE DEF TypeInv, TypeOK, OwnInv
<1>1. /\ \A d \in Clients : Busy(d)' = Busy(d) /\ Current(d)' = Current(d)
      /\ \A d \in Clients : Busy(d) => pc'[d] = pc[d] /\ task'[d] = task[d]
      /\ UNCHANGED <<params, jobs, result, number, outcome, fetched, left, disturbed>>
  BY DEF LookUp, Create, CreateLost, Goto, setup, history, server, Busy, Current
<1>2. AloneInv'
  BY <1>1 DEF AloneInv, Calm
<1>3. JobInv'
  <2>1. \A j \in jobs : j.by[1] \in Clients
    BY DEF Job, Commands
  <2>2. QED
    BY <1>1, <2>1 DEF JobInv
<1>4. \A d \in Clients : Calm(d)' => Quiet(d)'
  BY <1>1 DEF Calm, Quiet, JobsOn
<1>5. ResultIsOwn' /\ \A d \in Clients : Busy(d)' => outcome'[d] = "none"
  BY <1>1 DEF ResultIsOwn
<1>6. QED
  BY <1>2, <1>3, <1>4, <1>5

(* What a step of a command leaves alone for every other client.           *)
OtherClients(c) ==
    \A d \in Clients \ {c} :
        /\ pc'[d] = pc[d] /\ task'[d] = task[d] /\ Current(d)' = Current(d)
        /\ Busy(d)' = Busy(d) /\ outcome'[d] = outcome[d] /\ fetched'[d] = fetched[d]

LEMMA CommandOthers ==
  ASSUME TypeInv, NEW c \in Clients, Command(c) \/ PutCommand(c)
  PROVE  OtherClients(c) /\ UNCHANGED task /\ disturbed \subseteq disturbed' /\ left \subseteq left'
<1> USE DEF TypeInv, TypeOK, OtherClients, Busy, Current, Goto, Return, setup
<1>1. CASE Execute(c)
  BY <1>1 DEF Execute, Lose
<1>2. CASE GetResult(c)
  BY <1>2 DEF GetResult, Lose, server
<1>3. CASE GetResultJson(c)
  BY <1>3 DEF GetResultJson, Lose, server
<1>4. CASE Sleep(c)
  BY <1>4 DEF Sleep, server, history
<1>5. CASE GiveUp(c)
  BY <1>5 DEF GiveUp, Lose
<1>6. CASE PutCommand(c)
  BY <1>6 DEF PutCommand, Disturb
<1>7. QED
  BY <1>1, <1>2, <1>3, <1>4, <1>5, <1>6 DEF Command

(* A new command is calm only if nobody else uses its task; those that do  *)
(* are disturbed by it.                                                    *)
LEMMA OwnPut ==
  ASSUME TypeInv, OwnInv, NEW c \in Clients, PutCommand(c)
  PROVE  OwnInv'
<1> USE DEF TypeInv, TypeOK, OwnInv
<1>1. OtherClients(c) /\ UNCHANGED <<task, jobs, result, left>> /\ disturbed \subseteq disturbed'
  BY CommandOthers DEF PutCommand, setup
<1>2. /\ pc[c] = "ready" /\ ~Busy(c)
      /\ Current(c)' = <<c, issued + 1>>
      /\ Disturb(c, <<c, issued + 1>>)
      /\ \/ pc'[c] = "put" /\ params' = [params EXCEPT ![task[c]] = Current(c)']
         \/ pc'[c] = "ready" /\ (params' = params \/ params' = [params EXCEPT ![task[c]] = Current(c)'])
      /\ outcome'[c] = IF pc'[c] = "put" THEN "none" ELSE "thrown"
  BY DEF PutCommand, Current, Busy, Goto, Return
<1>3. \A d \in Clients : Calm(d)' /\ d # c => Calm(d) /\ task[d] # task[c]
  BY <1>1, <1>2 DEF Calm, OtherClients, Disturb, OthersOn, Busy
<1>4. \A j \in jobs : j.by \notin left \cup disturbed => j.by[1] # c
  BY <1>2 DEF JobInv
<1>5. Calm(c)' => OthersOn(c) = {} /\ JobsOn(c) = {}
  BY <1>2, <1>4 DEF Calm, Disturb, JobsOn
<1>6. task[c] \in PKs
  BY <1>2, TaskTyped
<1>7. AloneInv'
  BY <1>1, <1>2, <1>3, <1>5 DEF AloneInv, OthersOn, OtherClients
<1>8. JobInv'
  <2>1. \A j \in jobs : j.by[1] \in Clients
    BY DEF Job, Commands
  <2>2. QED
    BY <1>1, <1>4, <2>1 DEF JobInv, OtherClients
<1>9. ASSUME NEW d \in Clients, Calm(d)'
      PROVE  Quiet(d)'
  <2>1. CASE d = c
    <3>1. pc'[c] = "put" /\ params'[task[c]] = Current(c)'
      BY <1>2, <1>6, <1>9, <2>1 DEF Calm, Busy
    <3>2. JobsOn(c)' = {}
      BY <1>1, <1>5, <1>9, <2>1 DEF JobsOn
    <3>3. QED
      BY <1>1, <2>1, <3>1, <3>2 DEF Quiet
  <2>2. CASE d # c
    <3>1. Calm(d) /\ Quiet(d) /\ task[d] # task[c]
      BY <1>3, <1>9, <2>2
    <3>2. params'[task[d]] = params[task[d]]
      <4>1. task[d] \in PKs
        BY <3>1, TaskTyped DEF Calm, Busy
      <4>2. QED
        BY <1>2, <1>6, <3>1, <4>1
    <3>3. QED
      BY <1>1, <2>2, <3>1, <3>2 DEF Quiet, JobsOn, OtherClients
  <2>3. QED
    BY <2>1, <2>2
<1>10. ResultIsOwn' /\ \A d \in Clients : Busy(d)' => outcome'[d] = "none"
  BY <1>1, <1>2 DEF ResultIsOwn, OtherClients, Busy
<1>11. QED
  BY <1>7, <1>8, <1>9, <1>10

(* A step of a command that changes neither the controller nor the command *)
(* itself leaves to show what it returns.                                  *)
LEMMA OwnClientStep ==
  ASSUME TypeInv, OwnInv, NEW c \in Clients, Command(c), pc[c] # "put",
         UNCHANGED <<params, jobs, result, number, disturbed>>,
         Calm(c) /\ ~Busy(c)' /\ Current(c) \notin left' => JobsOn(c) = {},
         Calm(c) /\ outcome'[c] = "result" => fetched'[c] = Current(c),
         Busy(c)' => outcome'[c] = outcome[c], pc'[c] # "put",
         Calm(c) /\ pc'[c] = "fetch" => fetched'[c] = Current(c) /\ JobsOn(c) = {}
  PROVE  OwnInv'
<1> USE DEF TypeInv, TypeOK, OwnInv
<1>1. OtherClients(c) /\ UNCHANGED task /\ left \subseteq left'
  BY CommandOthers
<1>2. Busy(c) /\ \A d \in Clients : Current(d)' = Current(d) /\ (Busy(d)' => Busy(d))
  BY <1>1 DEF OtherClients, Current, Busy, Command, Execute, GetResult, GetResultJson, Sleep, GiveUp
<1>3. AloneInv'
  BY <1>1, <1>2 DEF AloneInv, Calm
<1>4. JobInv'
  <2>1. \A j \in jobs : j.by[1] \in Clients
    BY DEF Job, Commands
  <2>2. ASSUME NEW j \in jobs, j.by \notin left' \cup disturbed, j.by[1] = c
        PROVE  Busy(c)'
    <3>1. j.by = Current(c) /\ j \in JobsOn(c)
      BY <1>1, <2>2 DEF JobInv, JobsOn
    <3>2. Calm(c) /\ Current(c) \notin left'
      BY <1>2, <2>2, <3>1 DEF Calm
    <3>3. QED
      BY <3>1, <3>2
  <2>3. QED
    BY <1>1, <1>2, <2>1, <2>2 DEF JobInv, OtherClients
<1>5. ASSUME NEW d \in Clients, Calm(d)'
      PROVE  Quiet(d)'
  <2>1. Calm(d) /\ Quiet(d)
    BY <1>2, <1>5 DEF Calm
  <2>2. QED
    BY <1>1, <1>2, <2>1 DEF Quiet, JobsOn, OtherClients
<1>6. ResultIsOwn' /\ \A d \in Clients : Busy(d)' => outcome'[d] = "none"
  BY <1>1, <1>2 DEF ResultIsOwn, OtherClients, Calm
<1>7. QED
  BY <1>3, <1>4, <1>5, <1>6

LEMMA OwnResult ==
  ASSUME TypeInv, OwnInv, NEW c \in Clients, GetResult(c)
  PROVE  OwnInv'
<1> USE DEF TypeInv, TypeOK, OwnInv
<1>1. /\ pc[c] = "poll" /\ Busy(c) /\ Command(c)
      /\ UNCHANGED <<params, jobs, result, number, disturbed>>
  BY DEF GetResult, Command, Busy, server
<1>2. Calm(c) => /\ result[task[c]] \in {None, Current(c)}
                 /\ result[task[c]] # None => JobsOn(c) = {}
  BY <1>1 DEF Quiet
<1>3. \/ result[task[c]] = None /\ pc'[c] = "sleep" /\ outcome' = outcome
      \/ result[task[c]] # None /\ pc'[c] = "fetch" /\ outcome' = outcome
         /\ fetched'[c] = result[task[c]]
      \/ result[task[c]] # None /\ pc'[c] = "ready" /\ outcome'[c] = "result"
         /\ fetched'[c] = result[task[c]]
      \/ pc'[c] = "ready" /\ outcome'[c] = "thrown" /\ Current(c) \in left'
  BY DEF GetResult, Goto, Return, Lose
<1>4. Calm(c) /\ ~Busy(c)' /\ Current(c) \notin left' => JobsOn(c) = {}
  BY <1>2, <1>3 DEF Busy
<1>5. Calm(c) /\ pc'[c] = "fetch" => fetched'[c] = Current(c) /\ JobsOn(c) = {}
  BY <1>2, <1>3
<1>6. Calm(c) /\ outcome'[c] = "result" => fetched'[c] = Current(c)
  BY <1>1, <1>2, <1>3
<1>7. (Busy(c)' => outcome'[c] = outcome[c]) /\ pc'[c] # "put"
  BY <1>3 DEF Busy
<1>8. QED
  BY <1>1, <1>4, <1>5, <1>6, <1>7, OwnClientStep

LEMMA OwnFetch ==
  ASSUME TypeInv, OwnInv, NEW c \in Clients, GetResultJson(c)
  PROVE  OwnInv'
<1> USE DEF TypeInv, TypeOK, OwnInv
<1>1. /\ pc[c] = "fetch" /\ Busy(c) /\ Command(c)
      /\ UNCHANGED <<params, jobs, result, number, disturbed>>
  BY DEF GetResultJson, Command, Busy, server
<1>2. Calm(c) => fetched[c] = Current(c) /\ JobsOn(c) = {}
  BY <1>1 DEF Quiet
<1>3. pc'[c] = "ready" /\ (outcome'[c] = "result" => fetched'[c] = fetched[c])
  BY DEF GetResultJson, Goto, Return, Lose
<1>4. pc'[c] # "put" /\ pc'[c] # "fetch" /\ ~Busy(c)'
  BY <1>3 DEF Busy
<1>5. QED
  BY <1>1, <1>2, <1>3, <1>4, OwnClientStep

LEMMA OwnSleep ==
  ASSUME TypeInv, OwnInv, NEW c \in Clients, Sleep(c)
  PROVE  OwnInv'
<1> USE DEF TypeInv, TypeOK, OwnInv
<1>1. /\ pc[c] = "sleep" /\ Busy(c) /\ Command(c)
      /\ UNCHANGED <<params, jobs, result, number, disturbed, outcome>>
  BY DEF Sleep, Command, Busy, server, history
<1>2. pc'[c] \in {"cancel", "poll"}
  BY DEF Sleep, Goto
<1>3. pc'[c] # "put" /\ pc'[c] # "fetch" /\ Busy(c)'
  BY <1>2 DEF Busy
<1>4. outcome'[c] # "result"
  BY <1>1
<1>5. QED
  BY <1>1, <1>3, <1>4, OwnClientStep

(* The job of a calm command is the only one of its task.                  *)
LEMMA OwnExecute ==
  ASSUME ClearsResults, TypeInv, OwnInv, NEW c \in Clients, Execute(c)
  PROVE  OwnInv'
<1> USE DEF TypeInv, TypeOK, OwnInv
<1> DEFINE job == [task |-> task[c], by |-> Current(c), runs |-> None]
<1>1. OtherClients(c) /\ left \subseteq left' /\ UNCHANGED <<task, params, number, disturbed>>
  BY CommandOthers DEF Execute, Command
<1>2. /\ pc[c] = "put" /\ Busy(c)
      /\ \A d \in Clients : Current(d)' = Current(d) /\ (Busy(d)' => Busy(d))
      /\ \/ pc'[c] = "poll" /\ outcome' = outcome
         \/ pc'[c] = "ready" /\ outcome'[c] = "thrown" /\ Current(c) \in left'
      /\ \/ jobs' = jobs \cup {job} /\ result' = [result EXCEPT ![task[c]] = None]
         \/ UNCHANGED <<jobs, result>> /\ pc'[c] = "ready"
  BY <1>1 DEF Execute, PostJob, Lose, Goto, Return, Current, Busy, OtherClients
<1>3. job.task = task[c] /\ job.by = Current(c) /\ job.runs = None
  OBVIOUS
<1> HIDE DEF job
<1>4. AloneInv'
  BY <1>1, <1>2 DEF AloneInv, Calm
<1>5. JobInv'
  <2>1. \A j \in jobs : j.by[1] \in Clients
    BY DEF Job, Commands
  <2>2. Current(c)[1] = c
    BY DEF Current
  <2>3. ASSUME NEW j \in jobs', j.by \notin left' \cup disturbed, j.by[1] = c
        PROVE  j.by = Current(c) /\ j.task = task[c] /\ Busy(c)'
    <3>1. j.by = Current(c) /\ j.task = task[c]
      BY <1>1, <1>2, <1>3, <2>3 DEF JobInv
    <3>2. QED
      BY <1>2, <2>3, <3>1 DEF Busy
  <2>4. ASSUME NEW j \in jobs', j.by \notin left' \cup disturbed, j.by[1] # c
        PROVE  j \in jobs /\ Busy(j.by[1])' /\ j.by = Current(j.by[1]) /\ j.task = task[j.by[1]]
    BY <1>1, <1>2, <1>3, <2>1, <2>2, <2>4 DEF JobInv, OtherClients
  <2>5. QED
    BY <1>1, <1>2, <2>1, <2>3, <2>4 DEF JobInv
<1>6. ASSUME NEW d \in Clients, Calm(d)'
      PROVE  Quiet(d)'
  <2>1. Calm(d) /\ Quiet(d) /\ task[d] \in PKs /\ task[c] \in PKs
    BY <1>1, <1>2, <1>6, TaskTyped DEF Calm, Busy
  <2>2. CASE d = c
    <3>1. JobsOn(c) = {} /\ pc'[c] = "poll"
      BY <1>2, <1>6, <2>1, <2>2 DEF Calm, Busy, Quiet
    <3>2. JobsOn(c)' = {job} /\ result'[task[c]] = None
      BY <1>1, <1>2, <1>3, <2>1, <3>1 DEF JobsOn
    <3>3. QED
      BY <1>1, <1>2, <1>3, <2>1, <2>2, <3>1, <3>2 DEF Quiet
  <2>3. CASE d # c
    <3>1. task[d] # task[c]
      BY <1>2, <2>1, <2>3 DEF AloneInv
    <3>2. JobsOn(d)' = JobsOn(d) /\ result'[task[d]] = result[task[d]]
      BY <1>1, <1>2, <1>3, <2>1, <3>1 DEF JobsOn
    <3>3. QED
      BY <1>1, <1>2, <2>1, <2>3, <3>2 DEF Quiet, OtherClients
  <2>4. QED
    BY <2>2, <2>3
<1>7. ResultIsOwn' /\ \A d \in Clients : Busy(d)' => outcome'[d] = "none"
  <2>1. outcome'[c] # "result" /\ (Busy(c)' => outcome'[c] = "none")
    BY <1>2 DEF Busy
  <2>2. ASSUME NEW d \in Clients, d # c
        PROVE  /\ Busy(d)' => outcome'[d] = "none"
               /\ outcome'[d] = "result" /\ Current(d)' \notin disturbed' => fetched'[d] = Current(d)'
    BY <1>1, <1>2, <2>2 DEF ResultIsOwn, OtherClients
  <2>3. QED
    BY <2>1, <2>2 DEF ResultIsOwn
<1>8. QED
  BY <1>4, <1>5, <1>6, <1>7

(* Cancelling takes the jobs of all commands.                              *)
LEMMA OwnCancel ==
  ASSUME TypeInv, OwnInv, NEW c \in Clients, GiveUp(c)
  PROVE  OwnInv'
<1> USE DEF TypeInv, TypeOK, OwnInv
<1>1. /\ pc[c] = "cancel" /\ Busy(c) /\ Command(c) /\ pc'[c] = "ready" /\ ~Busy(c)'
      /\ outcome'[c] # "result"
      /\ UNCHANGED <<params, result, number, disturbed>>
      /\ jobs' = {} \/ (UNCHANGED jobs /\ Current(c) \in left')
  BY DEF GiveUp, Command, Busy, Goto, Return, Lose
<1>2. CASE UNCHANGED jobs /\ Current(c) \in left'
  BY <1>1, <1>2, OwnClientStep
<1>3. CASE jobs' = {}
  <2>1. OtherClients(c) /\ UNCHANGED task
    BY <1>1, CommandOthers
  <2>2. \A d \in Clients : Current(d)' = Current(d) /\ (Busy(d)' => Busy(d) /\ d # c)
    BY <1>1, <2>1 DEF OtherClients, Current
  <2>3. AloneInv' /\ JobInv'
    BY <1>1, <1>3, <2>1, <2>2 DEF AloneInv, JobInv, Calm
  <2>4. \A d \in Clients : Calm(d)' => Quiet(d)'
    BY <1>1, <1>3, <2>1, <2>2 DEF Calm, Quiet, JobsOn, OtherClients
  <2>5. ResultIsOwn' /\ \A d \in Clients : Busy(d)' => outcome'[d] = "none"
    BY <1>1, <2>1, <2>2 DEF ResultIsOwn, OtherClients
  <2>6. QED
    BY <2>3, <2>4, <2>5
<1>4. QED
  BY <1>1, <1>2, <1>3

(* The job of a calm command runs what the command put into the task.      *)
LEMMA OwnJobs ==
  ASSUME TypeInv, OwnInv, NEW j \in jobs, JobStarts(j) \/ JobSucceeds(j) \/ JobFails(j)
  PROVE  OwnInv'
<1> USE DEF TypeInv, TypeOK, OwnInv
<1>1. /\ UNCHANGED <<task, params, number, disturbed, left, pc, outcome, fetched>>
      /\ \A d \in Clients : Busy(d)' = Busy(d) /\ Current(d)' = Current(d) /\ Calm(d)' = Calm(d)
  BY DEF JobStarts, JobSucceeds, JobFails, setup, client, history, Busy, Current, Calm
<1>2. AloneInv' /\ ResultIsOwn' /\ \A d \in Clients : Busy(d)' => outcome'[d] = "none"
  BY <1>1 DEF AloneInv, ResultIsOwn
<1>3. \A k \in jobs' : \E i \in jobs : k.by = i.by /\ k.task = i.task
  BY DEF JobStarts, JobSucceeds, JobFails, Job
<1>4. JobInv'
  <2>1. \A k \in jobs : k.by[1] \in Clients
    BY DEF Job, Commands
  <2>2. QED
    BY <1>1, <1>3, <2>1 DEF JobInv
<1>5. ASSUME NEW d \in Clients, Calm(d)'
      PROVE  Quiet(d)'
  <2>1. Quiet(d) /\ pc[d] # "ready" /\ task[d] \in PKs
    BY <1>1, <1>5, TaskTyped DEF Calm, Busy
  <2>2. CASE j.task # task[d]
    <3>1. JobsOn(d)' = JobsOn(d) /\ result'[task[d]] = result[task[d]]
      BY <1>1, <2>1, <2>2 DEF JobsOn, JobStarts, JobSucceeds, JobFails, Job
    <3>2. QED
      BY <1>1, <2>1, <3>1 DEF Quiet
  <2>3. CASE j.task = task[d] /\ JobStarts(j)
    <3> DEFINE started == [j EXCEPT !.runs = params[j.task]]
    <3>1. JobsOn(d) = {j} /\ j.by = Current(d)
      BY <2>1, <2>3 DEF Quiet, JobsOn
    <3>2. jobs' = (jobs \ {j}) \cup {started} /\ UNCHANGED result
      BY <2>3 DEF JobStarts
    <3>3. started.task = task[d] /\ started.by = Current(d) /\ started.runs = Current(d)
      BY <2>1, <2>3, <3>1 DEF Quiet, Job
    <3> HIDE DEF started
    <3>4. JobsOn(d)' = {started}
      BY <1>1, <3>1, <3>2, <3>3 DEF JobsOn
    <3>5. QED
      BY <1>1, <2>1, <3>1, <3>2, <3>3, <3>4 DEF Quiet
  <2>4. CASE j.task = task[d] /\ (JobSucceeds(j) \/ JobFails(j))
    <3>1. JobsOn(d) = {j} /\ (j.runs = None \/ j.runs = Current(d))
      BY <2>1, <2>4 DEF Quiet, JobsOn
    <3>2. JobsOn(d)' = {}
      BY <1>1, <2>4, <3>1 DEF JobsOn, JobSucceeds, JobFails
    <3>3. result'[task[d]] = result[task[d]] \/ result'[task[d]] = Current(d)
      BY <2>1, <2>4, <3>1 DEF JobSucceeds, JobFails
    <3>4. pc[d] # "put" /\ pc[d] # "fetch"
      BY <2>1, <3>1 DEF Quiet
    <3>5. QED
      BY <1>1, <2>1, <3>2, <3>3, <3>4 DEF Quiet
  <2>5. QED
    BY <2>2, <2>3, <2>4
<1>6. QED
  BY <1>2, <1>4, <1>5

LEMMA OwnPreserved == ASSUME ClearsResults PROVE TypeInv /\ OwnInv /\ [Next]_vars => OwnInv'
<1> SUFFICES ASSUME TypeInv, OwnInv, [Next]_vars
             PROVE  OwnInv'
  OBVIOUS
<1>1. CASE UNCHANGED vars
  BY <1>1 DEF vars, server, setup, client, history, OwnInv, AloneInv, JobInv, Quiet, JobsOn,
              Calm, Busy, Current, ResultIsOwn
<1>2. QED
  BY <1>1, OwnBefore, OwnPut, OwnExecute, OwnResult, OwnFetch, OwnSleep, OwnCancel, OwnJobs
     DEF Next, Command, Controller

(* With a controller that clears the results of a task when it takes a new *)
(* job for it, ExecuteCommand returns the result of its own command unless *)
(* others disturb it.                                                      *)
THEOREM ResultsAreOwn == ASSUME ClearsResults PROVE Spec => []ResultIsOwn
<1>1. Init => OwnInv
  BY DEF Init, OwnInv, AloneInv, JobInv, Calm, Busy, ResultIsOwn
<1>2. OwnInv => ResultIsOwn
  BY DEF OwnInv
<1>3. QED
  BY TypedInitially, TypePreserved, OwnPreserved, <1>1, <1>2, PTL DEF Spec
=============================================================================
