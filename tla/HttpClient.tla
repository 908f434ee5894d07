----------------------------- MODULE HttpClient -----------------------------
(***************************************************************************)
(* The HTTP core of ControllerClientImpl (src/src/controllerclientimpl.cpp)*)
(* Application threads share one curl handle, one response buffer, three   *)
(* header lists and one mutex.  A call locks the mutex, sets the options   *)
(* of its request one after the other, performs the request and reads the  *)
(* response.  CURL_OPTION_SAVE_SETTER puts a saver on the stack that sets  *)
(* the option to a fixed value (NULL or 0) when its scope is left, in the  *)
(* reverse order and also by an exception; the mutex is released last.     *)
(*                                                                         *)
(* A call is the program of its settings in the order of the code; what    *)
(* the request is meant to be is said beside it, in Send, and what it is   *)
(* follows from the options of the handle (Effective).                     *)
(***************************************************************************)
EXTENDS Naturals, Sequences

CONSTANTS
    Threads,   \* application threads that use the client
    NoThread,  \* owner of a free mutex
    Ops,       \* the methods they call
    Solo,      \* methods the application does not overlap with any other
    MaxCalls   \* bound on the number of calls

Kinds == {"json", "stl", "multipart"}   \* the three header lists

Options ==
    {"timeout", "header", "url", "writefn", "writedata", "readfn", "custom",
     "size", "fields", "form", "httpget", "post", "nobody", "filetime",
     "timecond", "timevalue", "proxy", "proxyuser", "unix", "agent"}

(* Options that a setter of the client sets for good.                      *)
Lasting == {"proxy", "proxyuser", "unix", "agent"}

(* A value is a tag and a number: an object of call c is <<"call", c>>,    *)
(* the g-th list of a kind <<kind, g>>; the number is 0 for all others.    *)
Values == ({"null", "stdout", "call", "on", "buffer", "PUT", "DELETE", "MKCOL"} \cup Kinds) \X Nat
Null   == <<"null", 0>>

Methods == {"GET", "POST", "FORM", "HEAD"}

Statuses == {"idle", "lock", "run", "perform", "wait", "unwind"}

-----------------------------------------------------------------------------
(* Programs                                                                *)

Set(option, operand)  == [do |-> "set", opt |-> option, val |-> operand]
Keep(option, operand) == [do |-> "keep", opt |-> option, val |-> operand]
Restore               == [do |-> "restore"]
Clear                 == [do |-> "clear"]
Parse                 == [do |-> "parse"]   \* read _buffer, then Check
Check                 == [do |-> "check"]   \* throw if the status is not the expected one
Relock                == [do |-> "relock"]
Note(operand)         == [do |-> "note", val |-> operand]

(* Use of the graph subscription websocket: connect, handshake and start a *)
(* subscription, or close it and call its users back.                      *)
Socket                == [do |-> "socket"]

(* curl_easy_perform of a request that is meant to have this verb, body,   *)
(* header list and place for the response.                                 *)
Send(verb, body, headers, sink) ==
    [do |-> "send", verb |-> verb, body |-> body, headers |-> headers, sink |-> sink]

Restores(n) == [i \in 1 .. n |-> Restore]

Target   == <<Set("timeout", "own"), Set("header", "json"), Set("url", "own")>>
Sink     == <<Set("writefn", "buffer"), Set("writedata", "buffer")>>
OwnSink  == <<Set("writefn", "own"), Set("writedata", "own")>>

CallGet  == Target \o <<Clear>> \o Sink \o
            <<Set("httpget", "on"), Send("GET", "null", "json", "buffer"), Parse>>
CallGetInto == Target \o OwnSink \o
            <<Set("httpget", "on"), Send("GET", "null", "json", "own"), Check>>
CallPost == Target \o <<Clear>> \o Sink \o
            <<Set("post", "on"), Set("size", "own"), Set("fields", "own"),
              Send("POST", "own", "json", "buffer"), Parse>>
CallPostForm ==
            <<Set("timeout", "own"), Set("url", "own"), Clear>> \o Sink \o
            <<Set("form", "own"), Set("header", "multipart"),
              Send("POST", "own", "multipart", "buffer"), Parse>>

CallPut(kind) ==
            <<Set("header", "early"), Set("timeout", "own"), Set("url", "own"), Clear>> \o
            Sink \o <<Set("custom", "PUT"), Set("size", "own"), Set("fields", "own"),
              Send("PUT", "own", kind, "buffer"), Parse>>
CallDelete == Target \o <<Set("custom", "DELETE"), Clear>> \o Sink \o
            <<Send("DELETE", "null", "json", "buffer"), Parse>>
RestartServer == Target \o <<Set("post", "on"), Clear>> \o Sink \o
            <<Send("POST", "null", "json", "buffer"), Check>>

UploadFile == <<Set("readfn", "own")>> \o CallPostForm

(* Mutant: MKCOL is set for the whole of the function.                     *)
MakeDirectoryNoBlock ==
    Sink \o <<Set("custom", "MKCOL"), Set("header", "json"), Set("url", "own"),
              Send("MKCOL", "null", "json", "buffer"), Check>>

(* A directory that holds a file and an empty directory: the settings of   *)
(* MKCOL are in a block, those of the file in a function of their own.     *)
MakeDirectory ==
    Sink \o <<Set("custom", "MKCOL"), Set("header", "json"), Set("url", "own"),
              Send("MKCOL", "null", "json", "buffer"), Check>> \o Restores(3)

UploadDirectory == MakeDirectory \o UploadFile \o Restores(7) \o MakeDirectory

(* One round of the loop of _EnsureWebDAVDirectories.                      *)
MakeNext == <<Set("header", "json"), Set("url", "own"), Clear,
              Send("MKCOL", "null", "json", "buffer"), Check>> \o Restores(2)
EnsureDirectories ==
    <<Set("timeout", "own")>> \o Sink \o <<Set("custom", "MKCOL")>> \o
    MakeNext \o MakeNext \o Restores(4)
SyncUpload == EnsureDirectories \o UploadFile

Download == <<Set("filetime", "on"), Set("timecond", "on"), Set("timevalue", "own")>> \o CallGetInto

GetModifiedTime ==
    <<Set("header", "json"), Set("url", "own"), Set("filetime", "on"), Set("nobody", "on"),
      Send("HEAD", "null", "json", "any"), Check>>
DeleteDirectory ==
    <<Set("custom", "DELETE"), Set("header", "json"), Set("url", "own"),
      Send("DELETE", "null", "json", "any")>>

(* Mutant: the proxy is given up after the endpoint is set.                *)
SetUnixEndpointProxyLast ==
    <<Keep("unix", "own"), Keep("proxy", "null"), Keep("proxyuser", "null"), Note("own"),
      Relock, Socket>>

SetProxy ==
    <<Keep("unix", "null"), Keep("proxy", "own"), Keep("proxyuser", "own"), Note("null"),
      Relock, Socket>>
SetUnixEndpoint ==
    <<Keep("proxy", "null"), Keep("proxyuser", "null"), Keep("unix", "own"), Note("own"),
      Relock, Socket>>
ExecuteGraphSubscription == <<Socket>>
SetUserAgent    == <<Keep("agent", "own")>>

(* DeleteAllScenes holds the mutex when it calls CallDelete.               *)
Program == [
    get          |-> CallGet,        getInto         |-> CallGetInto,
    getVersion   |-> CallGet,        listFiles       |-> CallGet,
    post         |-> CallPost,       postForm        |-> CallPostForm,
    putJSON      |-> CallPut("json"), putSTL         |-> CallPut("stl"),
    delete       |-> CallDelete,     deleteAllScenes |-> <<Relock>> \o CallDelete,
    restart      |-> RestartServer,  download        |-> Download,
    uploadFile   |-> UploadFile,     uploadDirectory |-> UploadDirectory,
    syncUpload   |-> SyncUpload,     modifiedTime    |-> GetModifiedTime,
    deleteDirectory |-> DeleteDirectory,
    setProxy     |-> SetProxy,       setUnixEndpoint |-> SetUnixEndpoint,
    setUserAgent |-> SetUserAgent,
    subscribe    |-> ExecuteGraphSubscription]

(* Mutant: SetLanguage does not lock the mutex.                            *)
UnguardedSetter == {"listFiles", "setProxy", "setUnixEndpoint", "setUserAgent", "setLanguage"}

(* Methods that use the handle without the mutex.                          *)
Unguarded == {"listFiles", "setProxy", "setUnixEndpoint", "setUserAgent"}

(* Methods that choose their header list before they lock the mutex.       *)
Hasty == {"putJSON", "putSTL"}

(* Methods that free header lists and build new ones.                      *)
Rebuilding == {"setLanguage", "setAdditionalHeaders"}

ASSUME HttpAssumption ==
    /\ NoThread \notin Threads
    /\ Ops \subseteq DOMAIN Program \cup Rebuilding
    /\ Solo \subseteq Ops
    /\ MaxCalls \in Nat

-----------------------------------------------------------------------------
VARIABLES
    \* the client
    handle,    \* the options of _curl
    method,    \* the kind of request _curl would make, which several options change
    buffer,    \* _buffer: the calls whose responses it holds
    mutex,     \* owner of _mutex
    list,      \* the header lists: which one it is and what it was built from
    lang,      \* _language and _charset
    extra,     \* _additionalHeaders
    profile,   \* _profile
    endpoint,  \* _clientInfo.unixEndpoint
    \* the threads
    status, op, call, pos,
    stack,     \* options that savers on the stack of the thread will restore
    early,     \* header list chosen before the mutex was locked
    code,      \* answer to the request performed last
    calls      \* number of calls so far

clientVars == <<handle, method, buffer, mutex>>
setup      == <<list, lang, extra, profile, endpoint>>
threadVars == <<status, op, call, pos, stack, early, code, calls>>
vars       == <<clientVars, setup, threadVars>>

HeaderList == [gen : Nat, lang : Nat, extra : Nat]

TypeOK ==
    /\ handle \in [Options -> Values]
    /\ method \in Methods
    /\ buffer \in Seq(Nat)
    /\ mutex \in Threads \cup {NoThread}
    /\ list \in [Kinds -> HeaderList]
    /\ lang \in Nat /\ extra \in Nat
    /\ profile \in {"null", "object", "known"}
    /\ endpoint \in Values
    /\ status \in [Threads -> Statuses]
    /\ op \in [Threads -> Ops \cup {"none"}]
    /\ call \in [Threads -> Nat]
    /\ pos \in [Threads -> Nat]
    /\ stack \in [Threads -> Seq(Options)]
    /\ early \in [Threads -> Values]
    /\ code \in [Threads -> {"none", "expected", "unexpected"}]
    /\ calls \in Nat

(* curl_easy_init writes to stdout; POSTFIELDS is set in the constructor.  *)
Init ==
    /\ handle = [o \in Options |-> IF o = "writedata" THEN <<"stdout", 0>> ELSE Null]
    /\ method = "POST" /\ buffer = <<>> /\ mutex = NoThread
    /\ list = [k \in Kinds |-> [gen |-> 0, lang |-> 0, extra |-> 0]]
    /\ lang = 0 /\ extra = 0 /\ profile = "null" /\ endpoint = Null
    /\ status = [t \in Threads |-> "idle"] /\ op = [t \in Threads |-> "none"]
    /\ call = [t \in Threads |-> 0] /\ pos = [t \in Threads |-> 1]
    /\ stack = [t \in Threads |-> <<>>] /\ early = [t \in Threads |-> Null]
    /\ code = [t \in Threads |-> "none"] /\ calls = 0

-----------------------------------------------------------------------------
(* libcurl (external)                                                      *)

(* The kind of request after curl_easy_setopt(_curl, o, v).                *)
MethodAfter(m, o, v) ==
    CASE o = "httpget" -> IF v # Null THEN "GET" ELSE m
      [] o = "post"    -> IF v # Null THEN "POST" ELSE "GET"
      [] o = "fields"  -> "POST"
      [] o = "form"    -> "FORM"
      [] o = "nobody"  -> IF v # Null THEN "HEAD" ELSE IF m = "HEAD" THEN "GET" ELSE m
      [] OTHER         -> m

SetOption(o, v) ==
    /\ handle' = [handle EXCEPT ![o] = v]
    /\ method' = MethodAfter(method, o, v)

(* The request curl_easy_perform makes of the options: the request word is *)
(* CUSTOMREQUEST or follows from the method, the body is the form or as    *)
(* many bytes of POSTFIELDS as POSTFIELDSIZE says.                         *)
Effective == [
    verb    |-> IF handle["custom"] # Null THEN handle["custom"][1]
                ELSE IF method = "FORM" THEN "POST" ELSE method,
    url     |-> handle["url"],
    headers |-> handle["header"],
    body    |-> CASE method = "FORM" -> handle["form"]
                  [] method = "POST" -> IF handle["size"] = Null THEN Null ELSE handle["fields"]
                  [] OTHER -> Null,
    conditional |-> handle["timecond"] # Null ]

-----------------------------------------------------------------------------
(* Beginning a call                                                        *)

Running(t) == status[t] \in {"run", "perform", "wait", "unwind"}

MayBegin(o) ==
    /\ o \in Solo => \A u \in Threads : status[u] = "idle"
    /\ \A u \in Threads : status[u] # "idle" => op[u] \notin Solo

(* Mutant: the pointer is not initialized.                                 *)
EarlyUninitialized(o) == IF o = "putJSON" THEN <<"json", list["json"].gen>> ELSE <<"any", 0>>

(* CallPutJSON and CallPutSTL read the pointer to the header list before   *)
(* _CallPut locks the mutex.                                               *)
Early(o) ==
    CASE o = "putJSON" -> <<"json", list["json"].gen>>
      [] o = "putSTL"  -> <<"stl", list["stl"].gen>>
      [] OTHER -> Null

Begin(t, o) ==
    /\ status[t] = "idle" /\ calls < MaxCalls /\ MayBegin(o)
    /\ o = "getVersion" => profile = "null"
    /\ profile' = IF o = "getVersion" THEN "object" ELSE profile
    /\ calls' = calls + 1
    /\ call' = [call EXCEPT ![t] = calls + 1]
    /\ op' = [op EXCEPT ![t] = o]
    /\ pos' = [pos EXCEPT ![t] = 1]
    /\ early' = [early EXCEPT ![t] = Early(o)]
    /\ code' = [code EXCEPT ![t] = "none"]
    /\ status' = [status EXCEPT ![t] = IF o \in Unguarded THEN "run" ELSE "lock"]
    /\ UNCHANGED <<clientVars, list, lang, extra, endpoint, stack>>

(* GetVersion when _profile is an object already returns the version, or   *)
(* throws if the request that was to fill _profile has not done so.        *)
ReturnVersion(t) ==
    /\ status[t] = "idle" /\ calls < MaxCalls /\ MayBegin("getVersion")
    /\ profile # "null"
    /\ calls' = calls + 1
    /\ UNCHANGED <<clientVars, setup, status, op, call, pos, stack, early, code>>

(* Mutant: the mutex is not waited for.                                    *)
LockTaken(t) ==
    /\ status[t] = "lock"
    /\ mutex' = t
    /\ status' = [status EXCEPT ![t] = "run"]
    /\ UNCHANGED <<handle, method, buffer, setup, op, call, pos, stack, early, code, calls>>

Lock(t) ==
    /\ status[t] = "lock" /\ mutex = NoThread
    /\ mutex' = t
    /\ status' = [status EXCEPT ![t] = "run"]
    /\ UNCHANGED <<handle, method, buffer, setup, op, call, pos, stack, early, code, calls>>

-----------------------------------------------------------------------------
(* The steps of a program                                                  *)

At(t, what) ==
    /\ status[t] = "run" /\ op[t] \in DOMAIN Program
    /\ pos[t] \in DOMAIN Program[op[t]]
    /\ Program[op[t]][pos[t]].do = what

Step(t) == Program[op[t]][pos[t]]

ValueOf(t, operand) ==
    CASE operand = "own"    -> <<"call", call[t]>>
      [] operand = "early"  -> early[t]
      [] operand \in Kinds  -> <<operand, list[operand].gen>>
      [] OTHER              -> <<operand, 0>>

Advance(t) == pos' = [pos EXCEPT ![t] = @ + 1] /\ UNCHANGED status

(* An exception or a return: the destructors run.                          *)
Leave(t) == status' = [status EXCEPT ![t] = "unwind"] /\ UNCHANGED pos

SetStep(t) ==
    /\ At(t, "set")
    /\ stack' = [stack EXCEPT ![t] = Append(@, Step(t).opt)]
    /\ SetOption(Step(t).opt, ValueOf(t, Step(t).val))
    /\ Advance(t)
    /\ UNCHANGED <<buffer, mutex, setup, op, call, early, code, calls>>

(* curl_easy_setopt fails: the saver is on the stack already.              *)
SetFails(t) ==
    /\ At(t, "set")
    /\ stack' = [stack EXCEPT ![t] = Append(@, Step(t).opt)]
    /\ Leave(t)
    /\ UNCHANGED <<clientVars, setup, op, call, early, code, calls>>

KeepStep(t) ==
    /\ At(t, "keep")
    /\ SetOption(Step(t).opt, ValueOf(t, Step(t).val))
    /\ Advance(t)
    /\ UNCHANGED <<buffer, mutex, setup, op, call, stack, early, code, calls>>

(* libcurl frees the old string before it copies the new one.              *)
KeepFails(t) ==
    /\ At(t, "keep")
    /\ \/ SetOption(Step(t).opt, Null)
       \/ UNCHANGED <<handle, method>>
    /\ Leave(t)
    /\ UNCHANGED <<buffer, mutex, setup, op, call, stack, early, code, calls>>

NoteStep(t) ==
    /\ At(t, "note")
    /\ endpoint' = ValueOf(t, Step(t).val)
    /\ Advance(t)
    /\ UNCHANGED <<clientVars, list, lang, extra, profile, op, call, stack, early, code, calls>>

RelockStep(t) ==
    /\ At(t, "relock") /\ mutex = NoThread
    /\ mutex' = t
    /\ Advance(t)
    /\ UNCHANGED <<handle, method, buffer, setup, op, call, stack, early, code, calls>>

(* The setters do nothing if no stream is open.                            *)
SocketStep(t) ==
    /\ At(t, "socket")
    /\ \/ op[t] # "subscribe" /\ Advance(t)
       \/ status' = [status EXCEPT ![t] = "wait"] /\ UNCHANGED pos
    /\ UNCHANGED <<clientVars, setup, op, call, stack, early, code, calls>>

(* The server, or a callback, lets the thread go on, or it throws.         *)
SocketEnds(t) ==
    /\ status[t] = "wait"
    /\ \/ /\ pos' = [pos EXCEPT ![t] = @ + 1]
          /\ status' = [status EXCEPT ![t] = "run"]
       \/ Leave(t)
    /\ UNCHANGED <<clientVars, setup, op, call, stack, early, code, calls>>

(* Mutant: the buffer is reset but for its contents.                       *)
ClearStepFlagsOnly(t) ==
    /\ At(t, "clear")
    /\ Advance(t)
    /\ UNCHANGED <<clientVars, setup, op, call, stack, early, code, calls>>

ClearStep(t) ==
    /\ At(t, "clear")
    /\ buffer' = <<>>
    /\ Advance(t)
    /\ UNCHANGED <<handle, method, mutex, setup, op, call, stack, early, code, calls>>

(* Mutants: what a saver does is wrong.                                    *)
RestoreNothing(t) ==
    /\ stack' = [stack EXCEPT ![t] = SubSeq(@, 1, Len(@) - 1)]
    /\ UNCHANGED <<handle, method>>

(* The saver on top of the stack sets its option to NULL or 0.             *)
RestoreTop(t) ==
    /\ stack' = [stack EXCEPT ![t] = SubSeq(@, 1, Len(@) - 1)]
    /\ SetOption(stack[t][Len(stack[t])], Null)

RestoreStep(t) ==
    /\ At(t, "restore") /\ stack[t] # <<>>
    /\ RestoreTop(t)
    /\ Advance(t)
    /\ UNCHANGED <<buffer, mutex, setup, op, call, early, code, calls>>

Perform(t) ==
    /\ At(t, "send")
    /\ status' = [status EXCEPT ![t] = "perform"]
    /\ UNCHANGED <<clientVars, setup, op, call, pos, stack, early, code, calls>>

(* The response of the request is written where the handle says.           *)
Deliver(t) ==
    buffer' = IF handle["writedata"] = <<"buffer", 0>> THEN Append(buffer, call[t]) ELSE buffer

Answered(t) ==
    /\ status[t] = "perform"
    /\ \E c \in {"expected", "unexpected"} : code' = [code EXCEPT ![t] = c]
    /\ Deliver(t)
    /\ pos' = [pos EXCEPT ![t] = @ + 1]
    /\ status' = [status EXCEPT ![t] = "run"]
    /\ UNCHANGED <<handle, method, mutex, setup, op, call, stack, early, calls>>

(* No connection, a time-out, or a response cut short.                     *)
PerformFails(t) ==
    /\ status[t] = "perform"
    /\ Deliver(t) \/ UNCHANGED buffer
    /\ Leave(t)
    /\ UNCHANGED <<handle, method, mutex, setup, op, call, stack, early, code, calls>>

(* "parse" may find the response malformed; both throw on an unexpected    *)
(* status.                                                                 *)
Accept(t) ==
    /\ At(t, "parse") \/ At(t, "check")
    /\ code[t] = "expected"
    /\ Advance(t)
    /\ profile' = IF op[t] = "getVersion" THEN "known" ELSE profile
    /\ UNCHANGED <<clientVars, list, lang, extra, endpoint, op, call, stack, early, code, calls>>

Reject(t) ==
    /\ At(t, "parse") \/ (At(t, "check") /\ code[t] = "unexpected")
    /\ Leave(t)
    /\ UNCHANGED <<clientVars, setup, op, call, stack, early, code, calls>>

Return(t) ==
    /\ status[t] = "run" /\ op[t] \in DOMAIN Program
    /\ pos[t] \notin DOMAIN Program[op[t]]
    /\ Leave(t)
    /\ UNCHANGED <<clientVars, setup, op, call, stack, early, code, calls>>

-----------------------------------------------------------------------------
(* Setters that rebuild header lists, and the end of a call                *)

NewList(k, l, x) == [gen |-> list[k].gen + 1, lang |-> l, extra |-> x]

(* SetLanguage and SetCharacterEncoding                                    *)
SetLanguage(t) ==
    /\ status[t] = "run" /\ op[t] = "setLanguage"
    /\ lang' = lang + 1
    /\ list' = [list EXCEPT !["json"] = NewList("json", lang', 0)]
    /\ Leave(t)
    /\ UNCHANGED <<clientVars, extra, profile, endpoint, op, call, stack, early, code, calls>>

(* Only two of the three lists get the additional headers.                 *)
SetAdditionalHeaders(t) ==
    /\ status[t] = "run" /\ op[t] = "setAdditionalHeaders"
    /\ extra' = extra + 1
    /\ list' = [k \in Kinds |->
                  IF k = "json" THEN NewList(k, lang, 0) ELSE NewList(k, 0, extra')]
    /\ Leave(t)
    /\ UNCHANGED <<clientVars, lang, profile, endpoint, op, call, stack, early, code, calls>>

Unwind(t) ==
    /\ status[t] = "unwind" /\ stack[t] # <<>>
    /\ RestoreTop(t)
    /\ UNCHANGED <<buffer, mutex, setup, status, op, call, pos, early, code, calls>>

(* The locals of the call are gone.                                        *)
Forget(t) ==
    /\ status' = [status EXCEPT ![t] = "idle"]
    /\ op' = [op EXCEPT ![t] = "none"]
    /\ call' = [call EXCEPT ![t] = 0]
    /\ pos' = [pos EXCEPT ![t] = 1]
    /\ early' = [early EXCEPT ![t] = Null]
    /\ code' = [code EXCEPT ![t] = "none"]


End(t) ==
    /\ status[t] = "unwind" /\ stack[t] = <<>>
    /\ mutex' = IF mutex = t THEN NoThread ELSE mutex
    /\ Forget(t)
    /\ UNCHANGED <<handle, method, buffer, setup, stack, calls>>

-----------------------------------------------------------------------------
ProgramStep(t) ==
    \/ SetStep(t) \/ SetFails(t) \/ KeepStep(t) \/ KeepFails(t) \/ NoteStep(t)
    \/ RelockStep(t) \/ SocketStep(t) \/ ClearStep(t) \/ RestoreStep(t) \/ Perform(t) \/ Accept(t) \/ Reject(t) \/ Return(t)

Answer(t) == Answered(t) \/ PerformFails(t)

ThreadStep(t) ==
    \/ Lock(t) \/ ProgramStep(t)
    \/ SetLanguage(t) \/ SetAdditionalHeaders(t) \/ Unwind(t) \/ End(t)

Next == \E t \in Threads :
    \/ \E o \in Ops : Begin(t, o)
    \/ "getVersion" \in Ops /\ ReturnVersion(t)
    \/ ThreadStep(t) \/ Answer(t) \/ SocketEnds(t)

Spec == Init /\ [][Next]_vars

(* A thread that can go on does (calls are bounded, so a waiting thread    *)
(* finds the mutex free in the end), and libcurl ends a request that has a *)
(* time-out.  The websocket has none: nothing is assumed of SocketEnds.    *)
TimedAnswer(t) == handle["timeout"] # Null /\ Answer(t)

FairSpec ==
    /\ Spec
    /\ \A t \in Threads : WF_vars(ThreadStep(t)) /\ WF_vars(TimedAnswer(t))

-----------------------------------------------------------------------------
(* A request is what its method means it to be, whatever requests were     *)
(* made before with the same handle and however they ended: verb, target,  *)
(* body and header list are its own, a time-out is its own or none, and    *)
(* the response goes where the method reads it.  Where the method sets no  *)
(* place for the response (modifiedTime, deleteDirectory) it is not the    *)
(* place of another call.                                                  *)
OwnOrNull(t, v) == v \in {Null, <<"call", call[t]>>}

RequestAsIntended ==
    \A t \in Threads : status[t] = "perform" =>
        LET want == Step(t) IN
        /\ Effective.verb = want.verb
        /\ Effective.url = <<"call", call[t]>>
        /\ Effective.body = IF want.body = "own" THEN <<"call", call[t]>> ELSE Null
        /\ Effective.headers[1] = want.headers
        /\ Effective.conditional <=> op[t] = "download"
        /\ OwnOrNull(t, handle["timeout"]) /\ OwnOrNull(t, handle["readfn"])
        /\ IF want.sink = "any" THEN handle["writefn"] = Null
           ELSE /\ handle["writefn"] = ValueOf(t, want.sink)
                /\ handle["writedata"] = ValueOf(t, want.sink)

(* What a method parses is the response to its own request and nothing     *)
(* else.                                                                   *)
ResponseIsOwn ==
    \A t \in Threads : At(t, "parse") => buffer = <<call[t]>>

(* Nothing of a call outlives it: when no call is running, no option       *)
(* points to an object of one.                                             *)
NothingLeftBehind ==
    (\A t \in Threads : ~Running(t)) =>
        \A o \in Options \ Lasting : handle[o] \in {Null, <<"stdout", 0>>}

(* libcurl never reads a header list that was freed.                       *)
Live(v) == v = Null \/ \E k \in Kinds : v = <<k, list[k].gen>>

HeadersAlive == \A t \in Threads : status[t] = "perform" => Live(handle["header"])

(* The handle is not touched while a request is being performed.           *)
HandleStable ==
    [][\A t \in Threads : status[t] = "perform" /\ status'[t] = "perform"
          => UNCHANGED <<handle, method>>]_vars

(* "mutually exclusive" (controllerclientimpl.cpp:365, 382): between calls *)
(* at most one of proxy and unix endpoint is set, and requests go to no    *)
(* other endpoint than that of _clientInfo, which new subscription         *)
(* connections are made from; a setter may have thrown at any option.      *)
(* After SetProxy threw, _clientInfo may keep the endpoint that the handle *)
(* has lost (README, section 5).                                           *)
RouteIsOne ==
    (\A t \in Threads : status[t] = "idle") =>
        /\ Null \in {handle["proxy"], handle["unix"]}
        /\ handle["unix"] \in {Null, endpoint}

(* Every method returns, unless a request without a time-out, or a use of  *)
(* the websocket under the mutex, hangs for ever.                          *)
Hangs ==
    \E t \in Threads :
        status[t] = "wait" \/ (status[t] = "perform" /\ handle["timeout"] = Null)


-----------------------------------------------------------------------------
(* Claims of the repository that the code does not keep (README, findings) *)

(* "sets additional http headers to be included on all requests"           *)
(* (mujincontrollerclient.h, SetAdditionalHeaders)                         *)
AdditionalHeadersOnAllRequests ==
    \A t \in Threads : status[t] = "perform" =>
        \A k \in Kinds : handle["header"] = <<k, list[k].gen>> => list[k].extra = extra

(* "Delete all scenes." (mujincontrollerclient.h, DeleteAllScenes): the    *)
(* method returns.                                                         *)
DeleteAllScenesReturns ==
    \A t \in Threads : op[t] = "deleteAllScenes" ~> status[t] = "idle"
=============================================================================
