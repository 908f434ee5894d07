-------------------------- MODULE HttpClientProofs --------------------------
(***************************************************************************)
(* Theorems about HttpClient, for any number of threads and calls.  For    *)
(* the stack, the mutex and the header lists the programs enter only       *)
(* through the instructions they consist of; that requests are as intended *)
(* and responses are read by their own call needs every program, one       *)
(* instruction after the other (from Picture on).                          *)
(***************************************************************************)
EXTENDS HttpClient, TLAPS

(* The operands of settings, and the instructions of programs.             *)
Operands == {"own", "on", "buffer", "PUT", "DELETE", "MKCOL", "null"}

SetInstr ==
    [do : {"set"}, opt : Options \ (Lasting \cup {"header"}), val : Operands]
    \cup [do : {"set"}, opt : {"header"}, val : Kinds]

HastyInstr == [do : {"set"}, opt : {"header"}, val : {"early"}]

KeepInstr == [do : {"keep"}, opt : Lasting, val : Operands]

Verbs  == {"GET", "POST", "PUT", "DELETE", "MKCOL", "HEAD"}
Bodies == {"own", "null"}
Sinks  == {"buffer", "own", "any"}

SendInstr == [do : {"send"}, verb : Verbs, body : Bodies, headers : Kinds, sink : Sinks]

OtherInstr == [do : {"restore", "clear", "parse", "check", "relock"}]

NoteInstr == [do : {"note"}, val : Operands]

Instr == SetInstr \cup SendInstr \cup OtherInstr

SocketInstr == [do : {"socket"}]

(* What only methods that make no request do.                              *)
QuietInstr == Instr \cup KeepInstr \cup NoteInstr \cup SocketInstr

Quiet == {"setProxy", "setUnixEndpoint", "setUserAgent", "subscribe"}

LEMMA Instructions ==
  /\ \A o \in Options \ (Lasting \cup {"header"}), v \in Operands : Set(o, v) \in Instr
  /\ \A k \in Kinds : Set("header", k) \in Instr
  /\ \A o \in Lasting, v \in Operands : Keep(o, v) \in QuietInstr
  /\ \A v \in Verbs, b \in Bodies, k \in Kinds, s \in Sinks : Send(v, b, k, s) \in Instr
  /\ Restore \in Instr /\ Clear \in Instr /\ Parse \in Instr /\ Check \in Instr /\ Relock \in Instr
  /\ \A v \in Operands : Note(v) \in QuietInstr
  /\ Relock \in QuietInstr /\ Socket \in QuietInstr
  BY DEF Set, Keep, Send, Restore, Clear, Parse, Check, Relock, Note, Socket,
         Instr, SetInstr, KeepInstr, SendInstr, OtherInstr, NoteInstr, SocketInstr, QuietInstr

LEMMA RestoresTyped == ASSUME NEW n \in Nat PROVE Restores(n) \in Seq(Instr)
  BY Instructions DEF Restores

LEMMA Parts ==
  /\ Target \in Seq(Instr) /\ Sink \in Seq(Instr) /\ OwnSink \in Seq(Instr)
  /\ <<Clear>> \in Seq(Instr)
<1>1. Set("timeout", "own") \in Instr /\ Set("header", "json") \in Instr /\ Set("url", "own") \in Instr
  BY Instructions DEF Options, Lasting, Operands, Kinds
<1>2. Set("writefn", "buffer") \in Instr /\ Set("writedata", "buffer") \in Instr
  BY Instructions DEF Options, Lasting, Operands
<1>3. Set("writefn", "own") \in Instr /\ Set("writedata", "own") \in Instr
  BY Instructions DEF Options, Lasting, Operands
<1>4. Target \in Seq(Instr)
  BY <1>1 DEF Target
<1>5. Sink \in Seq(Instr)
  BY <1>2 DEF Sink
<1>6. OwnSink \in Seq(Instr)
  BY <1>3 DEF OwnSink
<1>7. <<Clear>> \in Seq(Instr)
  BY Instructions
<1>8. QED
  BY <1>4, <1>5, <1>6, <1>7

LEMMA GetTyped == CallGet \in Seq(Instr) /\ CallGetInto \in Seq(Instr)
<1>1. Set("httpget", "on") \in Instr
  BY Instructions DEF Options, Lasting, Operands
<1>2. Send("GET", "null", "json", "buffer") \in Instr /\ Send("GET", "null", "json", "own") \in Instr
  BY Instructions DEF Verbs, Bodies, Kinds, Sinks
<1>3. <<Set("httpget", "on"), Send("GET", "null", "json", "buffer"), Parse>> \in Seq(Instr)
  BY <1>1, <1>2, Instructions
<1>4. <<Set("httpget", "on"), Send("GET", "null", "json", "own"), Check>> \in Seq(Instr)
  BY <1>1, <1>2, Instructions
<1>5. QED
  BY <1>3, <1>4, Parts DEF CallGet, CallGetInto

LEMMA PostTyped == CallPost \in Seq(Instr) /\ CallPostForm \in Seq(Instr) /\ RestartServer \in Seq(Instr)
<1>1. /\ Set("post", "on") \in Instr /\ Set("size", "own") \in Instr /\ Set("fields", "own") \in Instr
      /\ Set("form", "own") \in Instr /\ Set("header", "multipart") \in Instr
      /\ Set("timeout", "own") \in Instr /\ Set("url", "own") \in Instr
  BY Instructions DEF Options, Lasting, Operands, Kinds
<1>2. /\ Send("POST", "own", "json", "buffer") \in Instr
      /\ Send("POST", "own", "multipart", "buffer") \in Instr
      /\ Send("POST", "null", "json", "buffer") \in Instr
  BY Instructions DEF Verbs, Bodies, Kinds, Sinks
<1>3. <<Set("post", "on"), Set("size", "own"), Set("fields", "own"),
        Send("POST", "own", "json", "buffer"), Parse>> \in Seq(Instr)
  BY <1>1, <1>2, Instructions
<1>4. <<Set("timeout", "own"), Set("url", "own"), Clear>> \in Seq(Instr)
  BY <1>1, Instructions
<1>5. <<Set("form", "own"), Set("header", "multipart"),
        Send("POST", "own", "multipart", "buffer"), Parse>> \in Seq(Instr)
  BY <1>1, <1>2, Instructions
<1>6. <<Set("post", "on"), Clear>> \in Seq(Instr)
  BY <1>1, Instructions
<1>7. <<Send("POST", "null", "json", "buffer"), Check>> \in Seq(Instr)
  BY <1>2, Instructions
<1>8. CallPost \in Seq(Instr)
  BY <1>3, Parts DEF CallPost
<1>9. CallPostForm \in Seq(Instr)
  BY <1>4, <1>5, Parts DEF CallPostForm
<1>10. RestartServer \in Seq(Instr)
  BY <1>6, <1>7, Parts DEF RestartServer
<1>11. QED
  BY <1>8, <1>9, <1>10

LEMMA PutTyped == ASSUME NEW kind \in {"json", "stl"} PROVE CallPut(kind) \in Seq(Instr \cup HastyInstr)
<1> DEFINE All == Instr \cup HastyInstr
<1>1. Set("header", "early") \in All
  BY DEF Set, HastyInstr
<1>2. /\ Set("timeout", "own") \in All /\ Set("url", "own") \in All /\ Clear \in All
      /\ Set("custom", "PUT") \in All /\ Set("size", "own") \in All /\ Set("fields", "own") \in All
      /\ Parse \in All
  BY Instructions DEF Options, Lasting, Operands
<1>3. Send("PUT", "own", kind, "buffer") \in All
  BY Instructions DEF Verbs, Bodies, Kinds, Sinks
<1>4. <<Set("header", "early"), Set("timeout", "own"), Set("url", "own"), Clear>> \in Seq(All)
  BY <1>1, <1>2
<1>5. <<Set("custom", "PUT"), Set("size", "own"), Set("fields", "own"),
        Send("PUT", "own", kind, "buffer"), Parse>> \in Seq(All)
  BY <1>2, <1>3
<1>6. Sink \in Seq(All)
  BY Parts
<1>7. QED
  BY <1>4, <1>5, <1>6 DEF CallPut

LEMMA DeleteTyped ==
  CallDelete \in Seq(Instr) /\ DeleteDirectory \in Seq(Instr) /\ GetModifiedTime \in Seq(Instr)
<1>1. /\ Set("custom", "DELETE") \in Instr /\ Set("url", "own") \in Instr
      /\ Set("header", "json") \in Instr /\ Set("filetime", "on") \in Instr
      /\ Set("nobody", "on") \in Instr
  BY Instructions DEF Options, Lasting, Operands, Kinds
<1>2. /\ Send("DELETE", "null", "json", "buffer") \in Instr
      /\ Send("DELETE", "null", "json", "any") \in Instr
      /\ Send("HEAD", "null", "json", "any") \in Instr
  BY Instructions DEF Verbs, Bodies, Kinds, Sinks
<1>3. <<Set("custom", "DELETE"), Clear>> \in Seq(Instr)
  BY <1>1, Instructions
<1>4. <<Send("DELETE", "null", "json", "buffer"), Parse>> \in Seq(Instr)
  BY <1>2, Instructions
<1>5. CallDelete \in Seq(Instr)
  BY <1>3, <1>4, Parts DEF CallDelete
<1>6. DeleteDirectory \in Seq(Instr)
  BY <1>1, <1>2 DEF DeleteDirectory
<1>7. GetModifiedTime \in Seq(Instr)
  BY <1>1, <1>2, Instructions DEF GetModifiedTime
<1>8. QED
  BY <1>5, <1>6, <1>7

LEMMA UploadTyped ==
  UploadFile \in Seq(Instr) /\ UploadDirectory \in Seq(Instr) /\ SyncUpload \in Seq(Instr)
<1>1. /\ Set("readfn", "own") \in Instr /\ Set("custom", "MKCOL") \in Instr
      /\ Set("header", "json") \in Instr /\ Set("url", "own") \in Instr
      /\ Set("timeout", "own") \in Instr
  BY Instructions DEF Options, Lasting, Operands, Kinds
<1>2. Send("MKCOL", "null", "json", "buffer") \in Instr
  BY Instructions DEF Verbs, Bodies, Kinds, Sinks
<1>3. Restores(2) \in Seq(Instr) /\ Restores(3) \in Seq(Instr)
      /\ Restores(4) \in Seq(Instr) /\ Restores(7) \in Seq(Instr)
  BY RestoresTyped
<1>4. UploadFile \in Seq(Instr)
  <2>1. <<Set("readfn", "own")>> \in Seq(Instr)
    BY <1>1
  <2>2. QED
    BY <2>1, PostTyped DEF UploadFile
<1>5. MakeDirectory \in Seq(Instr)
  <2>1. <<Set("custom", "MKCOL"), Set("header", "json"), Set("url", "own"),
          Send("MKCOL", "null", "json", "buffer"), Check>> \in Seq(Instr)
    BY <1>1, <1>2, Instructions
  <2>2. QED
    BY <2>1, <1>3, Parts DEF MakeDirectory
<1>6. MakeNext \in Seq(Instr)
  <2>1. <<Set("header", "json"), Set("url", "own"), Clear,
          Send("MKCOL", "null", "json", "buffer"), Check>> \in Seq(Instr)
    BY <1>1, <1>2, Instructions
  <2>2. QED
    BY <2>1, <1>3 DEF MakeNext
<1>7. UploadDirectory \in Seq(Instr)
  BY <1>3, <1>4, <1>5 DEF UploadDirectory
<1>8. EnsureDirectories \in Seq(Instr)
  <2>1. <<Set("timeout", "own")>> \in Seq(Instr) /\ <<Set("custom", "MKCOL")>> \in Seq(Instr)
    BY <1>1
  <2>2. QED
    BY <2>1, <1>3, <1>6, Parts DEF EnsureDirectories
<1>9. SyncUpload \in Seq(Instr)
  BY <1>4, <1>8 DEF SyncUpload
<1>10. QED
  BY <1>4, <1>7, <1>9

LEMMA DownloadTyped == Download \in Seq(Instr)
<1>1. /\ Set("filetime", "on") \in Instr /\ Set("timecond", "on") \in Instr
      /\ Set("timevalue", "own") \in Instr
  BY Instructions DEF Options, Lasting, Operands
<1>2. <<Set("filetime", "on"), Set("timecond", "on"), Set("timevalue", "own")>> \in Seq(Instr)
  BY <1>1
<1>3. QED
  BY <1>2, GetTyped DEF Download

LEMMA QuietTyped ==
  /\ SetProxy \in Seq(QuietInstr) /\ SetUnixEndpoint \in Seq(QuietInstr)
  /\ SetUserAgent \in Seq(QuietInstr) /\ ExecuteGraphSubscription \in Seq(QuietInstr)
<1>1. /\ Keep("unix", "null") \in QuietInstr /\ Keep("unix", "own") \in QuietInstr
      /\ Keep("proxy", "null") \in QuietInstr /\ Keep("proxy", "own") \in QuietInstr
      /\ Keep("proxyuser", "null") \in QuietInstr /\ Keep("proxyuser", "own") \in QuietInstr
      /\ Keep("agent", "own") \in QuietInstr
      /\ Note("null") \in QuietInstr /\ Note("own") \in QuietInstr
  BY Instructions DEF Lasting, Operands
<1>2. SetProxy \in Seq(QuietInstr)
  BY <1>1, Instructions DEF SetProxy
<1>3. SetUnixEndpoint \in Seq(QuietInstr)
  BY <1>1, Instructions DEF SetUnixEndpoint
<1>4. SetUserAgent \in Seq(QuietInstr)
  BY <1>1 DEF SetUserAgent
<1>5. ExecuteGraphSubscription \in Seq(QuietInstr)
  BY Instructions DEF ExecuteGraphSubscription
<1>6. QED
  BY <1>2, <1>3, <1>4, <1>5

(* Only hasty methods use a header list chosen early, only quiet ones      *)
(* change an option for good or use the websocket.                         *)
LEMMA ProgramsTyped ==
  \A o \in DOMAIN Program :
      /\ Program[o] \in Seq(QuietInstr \cup HastyInstr)
      /\ o \notin Hasty => Program[o] \in Seq(QuietInstr)
      /\ o \notin Quiet => Program[o] \in Seq(Instr \cup HastyInstr)
<1>1. <<Relock>> \o CallDelete \in Seq(Instr)
  <2>1. <<Relock>> \in Seq(Instr)
    BY Instructions
  <2>2. QED
    BY <2>1, DeleteTyped
<1>2. CallPut("json") \in Seq(Instr \cup HastyInstr) /\ CallPut("stl") \in Seq(Instr \cup HastyInstr)
  BY PutTyped
<1>3. \A s \in Seq(Instr) : s \in Seq(Instr \cup HastyInstr) /\ s \in Seq(QuietInstr)
  BY DEF QuietInstr
<1>4. \A o \in DOMAIN Program : o \in Hasty \cup Quiet \/ Program[o] \in Seq(Instr)
  <2>1. DOMAIN Program =
          {"get", "getInto", "getVersion", "listFiles", "post", "postForm", "putJSON", "putSTL",
           "delete", "deleteAllScenes", "restart", "download", "uploadFile", "uploadDirectory",
           "syncUpload", "modifiedTime", "deleteDirectory", "setProxy", "setUnixEndpoint",
           "setUserAgent", "subscribe"}
    BY DEF Program
  <2>2. \A o \in {"get", "getVersion", "listFiles"} : Program[o] \in Seq(Instr)
    BY GetTyped DEF Program
  <2>3. Program["getInto"] \in Seq(Instr)
    BY GetTyped DEF Program
  <2>4. \A o \in {"post", "postForm", "restart"} : Program[o] \in Seq(Instr)
    BY PostTyped DEF Program
  <2>5. \A o \in {"delete", "deleteAllScenes", "deleteDirectory", "modifiedTime"} :
          Program[o] \in Seq(Instr)
    <3>1. /\ Program["delete"] = CallDelete /\ Program["deleteDirectory"] = DeleteDirectory
          /\ Program["modifiedTime"] = GetModifiedTime
      BY DEF Program
    <3>2. Program["deleteAllScenes"] = <<Relock>> \o CallDelete
      BY DEF Program
    <3>3. QED
      BY <1>1, <3>1, <3>2, DeleteTyped
  <2>6. \A o \in {"uploadFile", "uploadDirectory", "syncUpload"} : Program[o] \in Seq(Instr)
    BY UploadTyped DEF Program
  <2>7. Program["download"] \in Seq(Instr)
    BY DownloadTyped DEF Program
  <2>8. QED
    BY <2>1, <2>2, <2>3, <2>4, <2>5, <2>6, <2>7 DEF Hasty, Quiet
<1>5. \A o \in Hasty : Program[o] \in Seq(Instr \cup HastyInstr)
  BY <1>2 DEF Program, Hasty
<1>6. \A o \in Quiet : Program[o] \in Seq(QuietInstr)
  BY QuietTyped DEF Program, Quiet
<1>7. \A s \in Seq(Instr \cup HastyInstr) : s \in Seq(QuietInstr \cup HastyInstr)
  BY DEF QuietInstr
<1>8. \A s \in Seq(QuietInstr) : s \in Seq(QuietInstr \cup HastyInstr)
  OBVIOUS
<1>9. QED
  BY <1>3, <1>4, <1>5, <1>6, <1>7, <1>8

-----------------------------------------------------------------------------
(* Types                                                                   *)

LEMMA StepTyped ==
  ASSUME NEW t \in Threads, TypeOK, NEW w, At(t, w)
  PROVE  /\ Step(t).do = w
         /\ Step(t) \in QuietInstr \cup HastyInstr
         /\ op[t] \notin Hasty => Step(t) \in QuietInstr
         /\ op[t] \notin Quiet => Step(t) \in Instr \cup HastyInstr
  BY ProgramsTyped DEF At, Step, TypeOK

LEMMA SetTyped ==
  ASSUME NEW t \in Threads, TypeOK, At(t, "set")
  PROVE  /\ Step(t).opt \in Options \ Lasting
         /\ Step(t).opt # "header" => Step(t).val \in Operands
         /\ Step(t).opt = "header" =>
              Step(t).val \in Kinds \/ (Step(t).val = "early" /\ op[t] \in Hasty)
<1>1. Step(t) \in SetInstr \/ (Step(t) \in HastyInstr /\ op[t] \in Hasty)
  BY StepTyped DEF Instr, KeepInstr, SendInstr, OtherInstr, NoteInstr, SocketInstr, QuietInstr
<1>2. CASE Step(t) \in SetInstr
  BY <1>2 DEF SetInstr, Options, Lasting
<1>3. CASE Step(t) \in HastyInstr /\ op[t] \in Hasty
  BY <1>3 DEF HastyInstr, Options, Lasting
<1>4. QED
  BY <1>1, <1>2, <1>3

LEMMA KeepTyped ==
  ASSUME NEW t \in Threads, TypeOK, At(t, "keep")
  PROVE  Step(t).opt \in Lasting /\ Step(t).val \in Operands
  BY StepTyped DEF Instr, SetInstr, HastyInstr, KeepInstr, SendInstr, OtherInstr, NoteInstr,
                   SocketInstr, QuietInstr

LEMMA NoteTyped ==
  ASSUME NEW t \in Threads, TypeOK, At(t, "note")
  PROVE  Step(t).val \in Operands
  BY StepTyped DEF Instr, SetInstr, HastyInstr, KeepInstr, SendInstr, OtherInstr, NoteInstr,
                   SocketInstr, QuietInstr

LEMMA SocketTyped ==
  ASSUME NEW t \in Threads, TypeOK, At(t, "socket")
  PROVE  op[t] \in Quiet
  BY StepTyped DEF Instr, SetInstr, HastyInstr, SendInstr, OtherInstr

LEMMA OperandsTyped ==
  ASSUME NEW t \in Threads, TypeOK, NEW v \in Operands \cup Kinds \cup {"early"}
  PROVE  ValueOf(t, v) \in Values
<1>1. \A k \in Kinds : list[k].gen \in Nat
  BY DEF TypeOK, HeaderList
<1>2. CASE v = "own"
  <2>1. v \notin Kinds /\ v # "early"
    BY <1>2 DEF Kinds
  <2>2. ValueOf(t, v) = <<"call", call[t]>>
    BY <1>2, <2>1 DEF ValueOf
  <2>3. QED
    BY <2>2 DEF TypeOK, Values
<1>3. CASE v = "early"
  <2>1. v \notin Kinds /\ v # "own"
    BY <1>3 DEF Kinds
  <2>2. ValueOf(t, v) = early[t]
    BY <1>3, <2>1 DEF ValueOf
  <2>3. QED
    BY <2>2 DEF TypeOK
<1>4. CASE v \in Kinds
  BY <1>1, <1>4 DEF ValueOf, Values, Kinds
<1>5. CASE v \in Operands \ {"own"}
  <2>1. v \notin Kinds /\ v # "own" /\ v # "early"
    BY <1>5 DEF Operands, Kinds
  <2>2. ValueOf(t, v) = <<v, 0>>
    BY <2>1 DEF ValueOf
  <2>3. QED
    BY <1>5, <2>2 DEF Operands, Values
<1>6. QED
  BY <1>2, <1>3, <1>4, <1>5

LEMMA MethodTyped ==
  ASSUME NEW m \in Methods, NEW o, NEW v
  PROVE  MethodAfter(m, o, v) \in Methods
  BY DEF MethodAfter, Methods

LEMMA NullTyped == Null \in Values
  BY DEF Null, Values

LEMMA RestoreTyped ==
  ASSUME TypeOK, NEW t \in Threads, stack[t] # <<>>, RestoreTop(t)
  PROVE  /\ handle' \in [Options -> Values] /\ method' \in Methods
         /\ stack' \in [Threads -> Seq(Options)]
<1>1. stack[t] \in Seq(Options) /\ Len(stack[t]) \in Nat \ {0}
  BY DEF TypeOK
<1>2. stack[t][Len(stack[t])] \in Options
  BY <1>1
<1>3. SubSeq(stack[t], 1, Len(stack[t]) - 1) \in Seq(Options)
  BY <1>1
<1>4. QED
  BY <1>2, <1>3, NullTyped, MethodTyped DEF RestoreTop, SetOption, TypeOK

LEMMA EarlyTyped == ASSUME TypeOK, NEW o PROVE Early(o) \in Values
<1>1. list["json"].gen \in Nat /\ list["stl"].gen \in Nat
  BY DEF TypeOK, HeaderList, Kinds
<1>2. QED
  BY <1>1, NullTyped DEF Early, Values, Kinds

LEMMA InitTyped == Init => TypeOK
<1> SUFFICES ASSUME Init
             PROVE  TypeOK
  OBVIOUS
<1>1. <<"stdout", 0>> \in Values
  BY DEF Values
<1>2. handle \in [Options -> Values]
  BY <1>1, NullTyped DEF Init
<1>3. list \in [Kinds -> HeaderList]
  BY DEF Init, HeaderList
<1>4. stack \in [Threads -> Seq(Options)] /\ buffer \in Seq(Nat)
  BY DEF Init
<1>5. QED
  BY <1>2, <1>3, <1>4, NullTyped DEF Init, TypeOK, Methods, Statuses

LEMMA BeginTyped ==
  ASSUME TypeOK, NEW t \in Threads, NEW o \in Ops, Begin(t, o)
  PROVE  TypeOK'
<1>1. early' \in [Threads -> Values]
  BY EarlyTyped DEF Begin, TypeOK
<1>2. status' \in [Threads -> Statuses]
  BY DEF Begin, TypeOK, Statuses
<1>3. QED
  BY <1>1, <1>2 DEF Begin, TypeOK, clientVars

LEMMA PosTyped ==
  ASSUME TypeOK, NEW t \in Threads, pos' = [pos EXCEPT ![t] = @ + 1] \/ pos' = pos
  PROVE  pos' \in [Threads -> Nat]
<1>1. CASE pos' = [pos EXCEPT ![t] = @ + 1]
  BY <1>1 DEF TypeOK
<1>2. CASE pos' = pos
  BY <1>2 DEF TypeOK
<1>3. QED
  BY <1>1, <1>2

LEMMA StepKeepsTypes ==
  ASSUME TypeOK, NEW t \in Threads, ProgramStep(t)
  PROVE  TypeOK'
<1> USE DEF Advance, Leave
<1>1. CASE SetStep(t)
  <2>1. Step(t).opt \in Options
    BY <1>1, SetTyped DEF SetStep
  <2>2. ValueOf(t, Step(t).val) \in Values
    BY <1>1, SetTyped, OperandsTyped DEF SetStep
  <2>3. handle' \in [Options -> Values] /\ method' \in Methods
    BY <1>1, <2>1, <2>2, MethodTyped DEF SetStep, SetOption, TypeOK
  <2>4. stack' \in [Threads -> Seq(Options)]
    BY <1>1, <2>1 DEF SetStep, TypeOK
  <2>5. QED
    BY <1>1, <2>3, <2>4 DEF SetStep, TypeOK, setup
<1>2. CASE SetFails(t)
  <2>1. Step(t).opt \in Options
    BY <1>2, SetTyped DEF SetFails
  <2>2. stack' \in [Threads -> Seq(Options)]
    BY <1>2, <2>1 DEF SetFails, TypeOK
  <2>3. QED
    BY <1>2, <2>2 DEF SetFails, TypeOK, setup, clientVars, Statuses
<1>3. CASE KeepStep(t)
  <2>1. Step(t).opt \in Options /\ ValueOf(t, Step(t).val) \in Values
    BY <1>3, KeepTyped, OperandsTyped DEF KeepStep, Options, Lasting
  <2>2. handle' \in [Options -> Values] /\ method' \in Methods
    BY <1>3, <2>1, MethodTyped DEF KeepStep, SetOption, TypeOK
  <2>3. QED
    BY <1>3, <2>2 DEF KeepStep, TypeOK, setup
<1>4. CASE NoteStep(t)
  <2>1. ValueOf(t, Step(t).val) \in Values
    BY <1>4, NoteTyped, OperandsTyped DEF NoteStep
  <2>2. QED
    BY <1>4, <2>1 DEF NoteStep, TypeOK, clientVars
<1>5. CASE RelockStep(t)
  BY <1>5 DEF RelockStep, TypeOK, setup
<1>6. CASE ClearStep(t)
  BY <1>6 DEF ClearStep, TypeOK, setup
<1>7. CASE RestoreStep(t)
  BY <1>7, RestoreTyped DEF RestoreStep, TypeOK, setup
<1>8. CASE Perform(t)
  BY <1>8 DEF Perform, TypeOK, setup, clientVars, Statuses
<1>9. CASE Accept(t)
  BY <1>9 DEF Accept, TypeOK, clientVars
<1>10. CASE Reject(t)
  BY <1>10 DEF Reject, TypeOK, setup, clientVars, Statuses
<1>11. CASE Return(t)
  BY <1>11 DEF Return, TypeOK, setup, clientVars, Statuses
<1>12. CASE KeepFails(t)
  <2>1. Step(t).opt \in Options
    BY <1>12, KeepTyped DEF KeepFails, Options, Lasting
  <2>2. handle' \in [Options -> Values] /\ method' \in Methods
    <3>1. CASE SetOption(Step(t).opt, Null)
      BY <2>1, <3>1, MethodTyped, NullTyped DEF SetOption, TypeOK
    <3>2. CASE UNCHANGED <<handle, method>>
      BY <3>2 DEF TypeOK
    <3>3. QED
      BY <1>12, <3>1, <3>2 DEF KeepFails
  <2>3. status' \in [Threads -> Statuses]
    BY <1>12 DEF KeepFails, TypeOK, Statuses
  <2>4. QED
    BY <1>12, <2>2, <2>3 DEF KeepFails, TypeOK, setup
<1>13. CASE SocketStep(t)
  <2>1. pos' = [pos EXCEPT ![t] = @ + 1] \/ pos' = pos
    BY <1>13 DEF SocketStep
  <2>2. pos' \in [Threads -> Nat]
    BY <2>1, PosTyped
  <2>3. status' = status \/ status' = [status EXCEPT ![t] = "wait"]
    BY <1>13 DEF SocketStep
  <2>4. status' \in [Threads -> Statuses]
    BY <2>3 DEF TypeOK, Statuses
  <2>5. QED
    BY <1>13, <2>2, <2>4 DEF SocketStep, TypeOK, setup, clientVars
<1>14. QED
  BY <1>1, <1>2, <1>3, <1>4, <1>5, <1>6, <1>7, <1>8, <1>9, <1>10, <1>11, <1>12, <1>13 DEF ProgramStep

LEMMA RestKeepsTypes ==
  ASSUME TypeOK, NEW t \in Threads,
         \/ Lock(t) \/ SetLanguage(t) \/ SetAdditionalHeaders(t) \/ Unwind(t) \/ End(t)
         \/ Answer(t) \/ SocketEnds(t) \/ ReturnVersion(t)
  PROVE  TypeOK'
<1> USE DEF Leave
<1>1. CASE Lock(t)
  BY <1>1 DEF Lock, TypeOK, setup, Statuses
<1>2. CASE SetLanguage(t)
  <2>1. list' \in [Kinds -> HeaderList]
    <3>1. list \in [Kinds -> HeaderList] /\ list["json"].gen \in Nat /\ lang' \in Nat
      BY <1>2 DEF SetLanguage, TypeOK, HeaderList, Kinds
    <3>2. NewList("json", lang', 0) \in HeaderList
      BY <3>1 DEF NewList, HeaderList
    <3>3. list' = [list EXCEPT !["json"] = NewList("json", lang', 0)]
      BY <1>2 DEF SetLanguage
    <3> QED
      BY <3>1, <3>2, <3>3
  <2>2. QED
    BY <1>2, <2>1 DEF SetLanguage, TypeOK, clientVars, Statuses
<1>3. CASE SetAdditionalHeaders(t)
  <2>1. list' \in [Kinds -> HeaderList]
    BY <1>3 DEF SetAdditionalHeaders, NewList, HeaderList, TypeOK
  <2>2. QED
    BY <1>3, <2>1 DEF SetAdditionalHeaders, TypeOK, clientVars, Statuses
<1>4. CASE Unwind(t)
  BY <1>4, RestoreTyped DEF Unwind, TypeOK, setup
<1>5. CASE End(t)
  BY <1>5, NullTyped DEF End, Forget, TypeOK, setup, Statuses
<1>6. CASE Answered(t)
  BY <1>6 DEF Answered, Deliver, TypeOK, setup, Statuses
<1>7. CASE PerformFails(t)
  <2>1. buffer' \in Seq(Nat)
    <3>1. buffer \in Seq(Nat) /\ Append(buffer, call[t]) \in Seq(Nat)
      BY DEF TypeOK
    <3>2. Deliver(t) \/ buffer' = buffer
      BY <1>7 DEF PerformFails
    <3>3. QED
      BY <3>1, <3>2 DEF Deliver
  <2>2. QED
    BY <1>7, <2>1 DEF PerformFails, TypeOK, setup, Statuses
<1>8. CASE ReturnVersion(t)
  BY <1>8 DEF ReturnVersion, TypeOK, setup, clientVars
<1>9. CASE SocketEnds(t)
  <2>1. pos' = [pos EXCEPT ![t] = @ + 1] \/ pos' = pos
    BY <1>9 DEF SocketEnds
  <2>2. pos' \in [Threads -> Nat]
    BY <2>1, PosTyped
  <2>3. \E s \in {"run", "unwind"} : status' = [status EXCEPT ![t] = s]
    BY <1>9 DEF SocketEnds
  <2>4. status' \in [Threads -> Statuses]
    BY <2>3 DEF TypeOK, Statuses
  <2>5. QED
    BY <1>9, <2>2, <2>4 DEF SocketEnds, TypeOK, setup, clientVars
<1>10. QED
  BY <1>1, <1>2, <1>3, <1>4, <1>5, <1>6, <1>7, <1>8, <1>9 DEF Answer

(* The type invariant is inductive.                                        *)
THEOREM TypeCorrect == Spec => []TypeOK
<1>1. TypeOK /\ [Next]_vars => TypeOK'
  <2>1. ASSUME TypeOK, Next
        PROVE  TypeOK'
    BY <2>1, BeginTyped, StepKeepsTypes, RestKeepsTypes DEF Next, ThreadStep
  <2>2. ASSUME TypeOK, UNCHANGED vars
        PROVE  TypeOK'
    BY <2>2 DEF TypeOK, vars, clientVars, setup, threadVars
  <2>3. QED
    BY <2>1, <2>2
<1>2. QED
  BY <1>1, InitTyped, PTL DEF Spec

-----------------------------------------------------------------------------
(* What the mutex and the application's discipline buy                     *)

(* Every option that is set is going to be restored by somebody, and only  *)
(* a thread that is inside a program has options to restore.               *)
Saved(o) == \E t \in Threads : \E i \in DOMAIN stack[t] : stack[t][i] = o

StackInv ==
    /\ \A o \in Options \ Lasting :
          handle[o] = Null \/ (o = "writedata" /\ handle[o] = <<"stdout", 0>>) \/ Saved(o)
    /\ \A t \in Threads : stack[t] # <<>> => Running(t) /\ op[t] \notin Rebuilding

(* Whoever uses the handle has the mutex or is alone.                      *)
OwnerInv ==
    /\ \A t \in Threads : status[t] # "idle" => op[t] \in Ops
    /\ \A t, u \in Threads :
          t # u /\ status[t] # "idle" /\ op[t] \in Solo => status[u] = "idle"
    /\ \A t \in Threads : Running(t) /\ op[t] \notin Unguarded => mutex = t

(* The handle's header list, and one chosen early, was not freed.          *)
HeaderInv ==
    /\ Live(handle["header"])
    /\ \A t \in Threads : status[t] # "idle" /\ op[t] \in Hasty => Live(early[t])

LEMMA Kinds1 == DOMAIN Program \cap Rebuilding = {} /\ Hasty \cap Rebuilding = {}
  BY DEF Program, Rebuilding, Hasty

LEMMA PushSaves ==
  ASSUME TypeOK, NEW t \in Threads, NEW o \in Options,
         stack' = [stack EXCEPT ![t] = Append(@, o)]
  PROVE  /\ Saved(o)'
         /\ \A p \in Options : Saved(p) => Saved(p)'
         /\ \A u \in Threads \ {t} : stack'[u] = stack[u]
<1>1. stack[t] \in Seq(Options) /\ stack'[t] = Append(stack[t], o)
  BY DEF TypeOK
<1>2. \A u \in Threads \ {t} : stack'[u] = stack[u]
  BY DEF TypeOK
<1>3. Len(stack[t]) + 1 \in DOMAIN stack'[t] /\ stack'[t][Len(stack[t]) + 1] = o
  BY <1>1
<1>4. \A i \in DOMAIN stack[t] : i \in DOMAIN stack'[t] /\ stack'[t][i] = stack[t][i]
  BY <1>1
<1>5. QED
  BY <1>2, <1>3, <1>4 DEF Saved

LEMMA PopSaves ==
  ASSUME TypeOK, NEW t \in Threads, stack[t] # <<>>, RestoreTop(t)
  PROVE  /\ \A p \in Options : Saved(p) => Saved(p)' \/ p = stack[t][Len(stack[t])]
         /\ \A u \in Threads \ {t} : stack'[u] = stack[u]
<1>1. stack[t] \in Seq(Options) /\ stack'[t] = SubSeq(stack[t], 1, Len(stack[t]) - 1)
  BY DEF TypeOK, RestoreTop
<1>2. \A u \in Threads \ {t} : stack'[u] = stack[u]
  BY DEF TypeOK, RestoreTop
<1>3. \A i \in DOMAIN stack[t] \ {Len(stack[t])} :
        i \in DOMAIN stack'[t] /\ stack'[t][i] = stack[t][i]
  BY <1>1
<1>4. QED
  BY <1>2, <1>3 DEF Saved

LEMMA PushKeeps ==
  ASSUME TypeOK, StackInv, NEW t \in Threads, At(t, "set"),
         stack' = [stack EXCEPT ![t] = Append(@, Step(t).opt)],
         \A p \in Options : p # Step(t).opt => handle'[p] = handle[p],
         UNCHANGED op, \A u \in Threads \ {t} : status'[u] = status[u],
         status'[t] \in {"run", "unwind"}
  PROVE  StackInv'
<1>1. PICK o \in Options : o = Step(t).opt
  BY SetTyped
<1>2. stack' = [stack EXCEPT ![t] = Append(@, o)]
  BY <1>1
<1>3. /\ Saved(o)'
      /\ \A p \in Options : Saved(p) => Saved(p)'
      /\ \A u \in Threads \ {t} : stack'[u] = stack[u]
  BY <1>2, PushSaves
<1>4. Running(t)' /\ op'[t] \notin Rebuilding
  BY Kinds1 DEF Running, At
<1>5. \A p \in Options \ Lasting :
        handle'[p] = Null \/ (p = "writedata" /\ handle'[p] = <<"stdout", 0>>) \/ Saved(p)'
  BY <1>1, <1>3 DEF StackInv
<1>6. \A u \in Threads : stack'[u] # <<>> => Running(u)' /\ op'[u] \notin Rebuilding
  BY <1>3, <1>4 DEF StackInv, Running
<1>7. QED
  BY <1>5, <1>6 DEF StackInv

LEMMA PopKeeps ==
  ASSUME TypeOK, StackInv, NEW t \in Threads, stack[t] # <<>>, RestoreTop(t), UNCHANGED <<op, status>>
  PROVE  StackInv'
<1> DEFINE o == stack[t][Len(stack[t])]
<1>1. /\ \A p \in Options : Saved(p) => Saved(p)' \/ p = o
      /\ \A u \in Threads \ {t} : stack'[u] = stack[u]
  BY PopSaves
<1>2. \A p \in Options \ {o} : handle'[p] = handle[p]
  BY DEF RestoreTop, SetOption, TypeOK
<1>3. o \in Options => handle'[o] = Null
  BY DEF RestoreTop, SetOption, TypeOK
<1>4. QED
  BY <1>1, <1>2, <1>3 DEF StackInv, Running

(* Steps that leave the stacks alone.                                      *)
LEMMA RestKeepStack ==
  ASSUME TypeOK, StackInv, UNCHANGED stack,
         \A p \in Options \ Lasting : handle'[p] = handle[p],
         \A t \in Threads : stack[t] # <<>> => Running(t)' /\ op'[t] = op[t]
  PROVE  StackInv'
  BY DEF StackInv, Saved

LEMMA StackInductive == TypeOK /\ StackInv /\ [Next]_vars => StackInv'
<1> SUFFICES ASSUME TypeOK, StackInv, [Next]_vars
             PROVE  StackInv'
  OBVIOUS
<1> USE DEF Advance, Leave
<1>1. ASSUME NEW t \in Threads, SetStep(t)
      PROVE  StackInv'
  <2>1. \A p \in Options : p # Step(t).opt => handle'[p] = handle[p]
    BY <1>1 DEF SetStep, SetOption, TypeOK
  <2>2. QED
    BY <1>1, <2>1, PushKeeps DEF SetStep, At
<1>2. ASSUME NEW t \in Threads, SetFails(t)
      PROVE  StackInv'
  BY <1>2, PushKeeps DEF SetFails, clientVars, TypeOK
<1>3. ASSUME NEW t \in Threads, RestoreStep(t) \/ Unwind(t)
      PROVE  StackInv'
  BY <1>3, PopKeeps DEF RestoreStep, Unwind
<1>4. ASSUME NEW t \in Threads, KeepStep(t) \/ KeepFails(t)
      PROVE  StackInv'
  <2>1. \A p \in Options \ Lasting : handle'[p] = handle[p]
    BY <1>4, KeepTyped DEF KeepStep, KeepFails, SetOption, TypeOK
  <2>2. UNCHANGED <<stack, op>>
    BY <1>4 DEF KeepStep, KeepFails
  <2>3. \A u \in Threads : Running(u) => Running(u)'
    BY <1>4 DEF KeepStep, KeepFails, Running, TypeOK
  <2>4. QED
    BY <2>1, <2>2, <2>3, RestKeepStack DEF StackInv
<1>5. ASSUME NEW t \in Threads,
             \/ NoteStep(t) \/ RelockStep(t) \/ ClearStep(t) \/ Accept(t) \/ ReturnVersion(t)
      PROVE  StackInv'
  <2>1. UNCHANGED <<stack, handle, op, status>>
    BY <1>5 DEF NoteStep, RelockStep, ClearStep, Accept, ReturnVersion, clientVars
  <2>2. QED
    BY <2>1, RestKeepStack DEF StackInv, Running
<1>6. ASSUME NEW t \in Threads,
             \/ Perform(t) \/ Reject(t) \/ Return(t) \/ SetLanguage(t) \/ SetAdditionalHeaders(t)
             \/ Answered(t) \/ PerformFails(t) \/ Lock(t) \/ SocketStep(t) \/ SocketEnds(t)
      PROVE  StackInv'
  <2>1. UNCHANGED <<stack, handle, op>>
    BY <1>6 DEF Perform, Reject, Return, SetLanguage, SetAdditionalHeaders, Answered, PerformFails,
                Lock, SocketStep, SocketEnds, clientVars
  <2>2. \A u \in Threads : Running(u) => Running(u)'
    BY <1>6 DEF Perform, Reject, Return, SetLanguage, SetAdditionalHeaders, Answered, PerformFails,
                Lock, SocketStep, SocketEnds, Running, TypeOK
  <2>3. QED
    BY <2>1, <2>2, RestKeepStack DEF StackInv
<1>7. ASSUME NEW t \in Threads, NEW o \in Ops, Begin(t, o)
      PROVE  StackInv'
  <2>1. stack[t] = <<>> /\ UNCHANGED <<stack, handle>>
    BY <1>7 DEF Begin, StackInv, Running, clientVars
  <2>2. \A u \in Threads \ {t} : status'[u] = status[u] /\ op'[u] = op[u]
    BY <1>7 DEF Begin, TypeOK
  <2>3. QED
    BY <2>1, <2>2, RestKeepStack DEF StackInv, Running
<1>8. ASSUME NEW t \in Threads, End(t)
      PROVE  StackInv'
  <2>1. stack[t] = <<>> /\ UNCHANGED <<stack, handle>>
    BY <1>8 DEF End
  <2>2. \A u \in Threads \ {t} : status'[u] = status[u] /\ op'[u] = op[u]
    BY <1>8 DEF End, Forget, TypeOK
  <2>3. QED
    BY <2>1, <2>2, RestKeepStack DEF StackInv, Running
<1>9. CASE UNCHANGED vars
  BY <1>9, RestKeepStack DEF vars, clientVars, threadVars, StackInv, Running
<1>10. QED
  BY <1>1, <1>2, <1>3, <1>4, <1>5, <1>6, <1>7, <1>8, <1>9
     DEF Next, ThreadStep, ProgramStep, Answer

LEMMA InitStack == Init => StackInv
<1> SUFFICES ASSUME Init
             PROVE  StackInv
  OBVIOUS
<1>1. \A o \in Options : handle[o] = IF o = "writedata" THEN <<"stdout", 0>> ELSE Null
  BY DEF Init
<1>2. \A t \in Threads : stack[t] = <<>>
  BY DEF Init
<1>3. QED
  BY <1>1, <1>2 DEF StackInv

LEMMA StackInvariant == Spec => []StackInv
  BY InitStack, StackInductive, TypeCorrect, PTL DEF Spec

(* However calls end, and whatever threads do at the same time, no option  *)
(* of the handle points to an object of a call that is over.               *)
THEOREM NothingRemains == Spec => []NothingLeftBehind
<1>1. ASSUME StackInv, \A t \in Threads : ~Running(t)
      PROVE  \A o \in Options \ Lasting : handle[o] \in {Null, <<"stdout", 0>>}
  <2>1. \A t \in Threads : stack[t] = <<>>
    BY <1>1 DEF StackInv
  <2>2. \A t \in Threads, i \in DOMAIN <<>> : FALSE
    OBVIOUS
  <2>3. \A o : ~Saved(o)
    BY <2>1, <2>2, Zenon DEF Saved
  <2>4. QED
    BY <1>1, <2>3 DEF StackInv
<1>2. StackInv => NothingLeftBehind
  BY <1>1 DEF NothingLeftBehind
<1>3. QED
  BY <1>2, StackInvariant, PTL

-----------------------------------------------------------------------------
(* The application does not overlap the methods that use the client        *)
(* without its mutex with other calls.                                     *)
Discipline == (Unguarded \cup Hasty) \cap Ops \subseteq Solo

(* Two threads never are inside their programs at the same time.           *)
LEMMA Alone ==
  ASSUME Discipline, OwnerInv, NEW t \in Threads, NEW u \in Threads, t # u
  PROVE  ~(Running(t) /\ Running(u))
<1> SUFFICES ASSUME Running(t), Running(u)
             PROVE  FALSE
  OBVIOUS
<1>1. status[t] # "idle" /\ status[u] # "idle"
  BY DEF Running
<1>2. op[t] \notin Solo /\ op[u] \notin Solo
  BY <1>1 DEF OwnerInv
<1>3. op[t] \notin Unguarded /\ op[u] \notin Unguarded
  BY <1>1, <1>2 DEF OwnerInv, Discipline
<1>4. QED
  BY <1>3 DEF OwnerInv

LEMMA OwnerInductive == TypeOK /\ OwnerInv /\ [Next]_vars => OwnerInv'
<1> SUFFICES ASSUME TypeOK, OwnerInv, [Next]_vars
             PROVE  OwnerInv'
  OBVIOUS
<1> USE DEF Advance, Leave
<1>1. ASSUME NEW t \in Threads, NEW o \in Ops, Begin(t, o)
      PROVE  OwnerInv'
  <2>1. /\ status[t] = "idle" /\ op'[t] = o /\ mutex' = mutex
        /\ status'[t] = IF o \in Unguarded THEN "run" ELSE "lock"
        /\ \A u \in Threads \ {t} : status'[u] = status[u] /\ op'[u] = op[u]
    BY <1>1 DEF Begin, clientVars, TypeOK
  <2>2. /\ o \in Solo => \A u \in Threads : status[u] = "idle"
        /\ \A u \in Threads : status[u] # "idle" => op[u] \notin Solo
    BY <1>1 DEF Begin, MayBegin
  <2>3. Running(t)' => o \in Unguarded
    BY <2>1 DEF Running
  <2>4. QED
    BY <2>1, <2>2, <2>3 DEF OwnerInv, Running
<1>2. ASSUME NEW t \in Threads, Lock(t) \/ RelockStep(t)
      PROVE  OwnerInv'
  <2>1. /\ mutex = NoThread /\ mutex' = t /\ op' = op
        /\ status[t] # "idle" /\ status'[t] = "run"
        /\ \A u \in Threads \ {t} : status'[u] = status[u]
    BY <1>2 DEF Lock, RelockStep, At, TypeOK
  <2>2. \A u \in Threads : Running(u) => op[u] \in Unguarded
    BY <2>1, HttpAssumption DEF OwnerInv
  <2>3. QED
    BY <2>1, <2>2 DEF OwnerInv, Running
<1>3. ASSUME NEW t \in Threads, End(t)
      PROVE  OwnerInv'
  <2>1. /\ status'[t] = "idle" /\ (mutex' = mutex \/ mutex = t)
        /\ \A u \in Threads \ {t} : status'[u] = status[u] /\ op'[u] = op[u]
    BY <1>3 DEF End, Forget, TypeOK
  <2>2. QED
    BY <2>1 DEF OwnerInv, Running
<1>4. ASSUME NEW t \in Threads,
             \/ SetStep(t) \/ SetFails(t) \/ KeepStep(t) \/ KeepFails(t) \/ NoteStep(t)
             \/ SocketStep(t) \/ ClearStep(t) \/ RestoreStep(t) \/ Perform(t) \/ Accept(t)
             \/ Reject(t) \/ Return(t)
      PROVE  OwnerInv'
  <2>1. /\ op' = op /\ mutex' = mutex
        /\ Running(t) /\ Running(t)' /\ \A u \in Threads \ {t} : status'[u] = status[u]
    BY <1>4 DEF SetStep, SetFails, KeepStep, KeepFails, NoteStep, SocketStep, ClearStep,
                RestoreStep, Perform, Accept, Reject, Return, At, Running, clientVars, TypeOK
  <2>2. QED
    BY <2>1 DEF OwnerInv, Running
<1>5. ASSUME NEW t \in Threads,
             \/ SetLanguage(t) \/ SetAdditionalHeaders(t) \/ Unwind(t) \/ Answer(t)
             \/ SocketEnds(t)
      PROVE  OwnerInv'
  <2>1. /\ op' = op /\ mutex' = mutex
        /\ Running(t) /\ Running(t)' /\ \A u \in Threads \ {t} : status'[u] = status[u]
    BY <1>5 DEF SetLanguage, SetAdditionalHeaders, Unwind, Answer, Answered, PerformFails,
                SocketEnds, Running, clientVars, TypeOK
  <2>2. QED
    BY <2>1 DEF OwnerInv, Running
<1>6. ASSUME NEW t \in Threads, ReturnVersion(t)
      PROVE  OwnerInv'
  BY <1>6 DEF ReturnVersion, clientVars, OwnerInv, Running
<1>7. CASE UNCHANGED vars
  BY <1>7 DEF vars, clientVars, threadVars, OwnerInv, Running
<1>8. QED
  BY <1>1, <1>2, <1>3, <1>4, <1>5, <1>6, <1>7 DEF Next, ThreadStep, ProgramStep

LEMMA InitOwner == Init => OwnerInv
  BY DEF Init, OwnerInv, Running

LEMMA OwnerInvariant == Spec => []OwnerInv
  BY InitOwner, OwnerInductive, TypeCorrect, PTL DEF Spec

LEMMA HandleChanges ==
  ASSUME TypeOK, Next
  PROVE  \/ UNCHANGED <<handle, method>>
         \/ \E t \in Threads : status[t] \in {"run", "unwind"}
  BY DEF Next, Begin, ReturnVersion, ThreadStep, Lock, ProgramStep, SetStep, SetFails, KeepStep,
         KeepFails, NoteStep, RelockStep, SocketStep, SocketEnds, ClearStep, RestoreStep, Perform, Accept, Reject, Return, SetLanguage,
         SetAdditionalHeaders, Unwind, End, Answer, Answered, PerformFails, At, clientVars

(* While libcurl performs a request nobody changes the handle.             *)
THEOREM HandleUntouched == ASSUME Discipline PROVE Spec => HandleStable
<1> DEFINE Step1 ==
      \A t \in Threads : status[t] = "perform" /\ status'[t] = "perform"
          => UNCHANGED <<handle, method>>
<1>1. TypeOK /\ OwnerInv /\ [Next]_vars => [Step1]_vars
  <2> SUFFICES ASSUME TypeOK, OwnerInv, Next, NEW t \in Threads, status[t] = "perform"
               PROVE  UNCHANGED <<handle, method>>
    OBVIOUS
  <2>1. ASSUME NEW u \in Threads, status[u] \in {"run", "unwind"}
        PROVE  FALSE
    BY <2>1, Alone DEF Running
  <2>2. QED
    BY <2>1, HandleChanges
<1>2. QED
  BY <1>1, TypeCorrect, OwnerInvariant, PTL DEF Spec, HandleStable

-----------------------------------------------------------------------------
(* Header lists                                                            *)

LEMMA SameLists ==
  ASSUME UNCHANGED list, NEW v, Live(v)
  PROVE  Live(v)'
  BY DEF Live

LEMMA ListValue ==
  ASSUME NEW t \in Threads, NEW k \in Kinds
  PROVE  Live(ValueOf(t, k))
<1>1. k # "own" /\ k # "early"
  BY DEF Kinds
<1>2. ValueOf(t, k) = <<k, list[k].gen>>
  BY <1>1 DEF ValueOf
<1>3. QED
  BY <1>2 DEF Live

LEMMA EarlyLive == \A o : Live(Early(o))
<1> SUFFICES ASSUME NEW o PROVE Live(Early(o))
  OBVIOUS
<1>1. CASE o = "putJSON"
  BY <1>1 DEF Early, Live, Kinds
<1>2. CASE o = "putSTL"
  BY <1>2 DEF Early, Live, Kinds
<1>3. CASE o \notin {"putJSON", "putSTL"}
  BY <1>3 DEF Early, Live
<1>4. QED
  BY <1>1, <1>2, <1>3

(* A thread that frees header lists is alone, and has set no option.       *)
LEMMA NoHeaderInUse ==
  ASSUME Discipline, StackInv, OwnerInv, NEW t \in Threads,
         status[t] = "run", op[t] \in Rebuilding
  PROVE  /\ handle["header"] = Null
         /\ \A u \in Threads : status[u] # "idle" => op[u] \notin Hasty
<1>1. Running(t) /\ "header" \in Options \ Lasting
  BY DEF Running, Options, Lasting
<1>2. \A u \in Threads : stack[u] = <<>>
  BY <1>1, Alone DEF StackInv
<1>3. \A i \in DOMAIN <<>> : FALSE
  OBVIOUS
<1>4. ~Saved("header")
  BY <1>2, <1>3, Zenon DEF Saved
<1>5. handle["header"] = Null
  BY <1>1, <1>4 DEF StackInv
<1>6. ASSUME NEW u \in Threads, status[u] # "idle", op[u] \in Hasty
      PROVE  FALSE
  <2>1. op[u] \in Solo /\ u # t
    BY <1>6, Kinds1 DEF OwnerInv, Discipline
  <2>2. QED
    BY <1>6, <2>1 DEF OwnerInv
<1>7. QED
  BY <1>5, <1>6

LEMMA RebuildKeeps ==
  ASSUME Discipline, TypeOK, StackInv, OwnerInv, NEW t \in Threads,
         SetLanguage(t) \/ SetAdditionalHeaders(t)
  PROVE  HeaderInv'
<1>1. /\ handle["header"] = Null
      /\ \A u \in Threads : status[u] # "idle" => op[u] \notin Hasty
  BY NoHeaderInUse DEF SetLanguage, SetAdditionalHeaders, Rebuilding
<1>2. /\ handle' = handle /\ op' = op
      /\ \A u \in Threads : status'[u] # "idle" => status[u] # "idle"
  BY DEF SetLanguage, SetAdditionalHeaders, Leave, clientVars, TypeOK
<1>3. Live(Null)'
  BY DEF Live
<1>4. QED
  BY <1>1, <1>2, <1>3 DEF HeaderInv

(* Steps that leave the lists alone.                                       *)
LEMMA RestKeepsHeaders ==
  ASSUME HeaderInv, UNCHANGED list, Live(handle'["header"]),
         \A t \in Threads : /\ status'[t] # "idle" => status[t] # "idle"
                            /\ status'[t] # "idle" => op'[t] = op[t] /\ early'[t] = early[t]
  PROVE  HeaderInv'
<1>1. Live(handle["header"])'
  BY DEF Live
<1>2. ASSUME NEW t \in Threads, status'[t] # "idle", op'[t] \in Hasty
      PROVE  Live(early[t])'
  <2>1. status[t] # "idle" /\ op[t] \in Hasty /\ early'[t] = early[t]
    BY <1>2
  <2>2. Live(early[t])
    BY <2>1 DEF HeaderInv
  <2>3. QED
    BY <2>1, <2>2 DEF Live
<1>3. QED
  BY <1>1, <1>2 DEF HeaderInv

LEMMA HeaderInductive ==
  ASSUME Discipline, TypeOK, StackInv, OwnerInv, HeaderInv, [Next]_vars
  PROVE  HeaderInv'
<1> USE DEF Advance, Leave
<1>1. ASSUME NEW t \in Threads, SetStep(t)
      PROVE  HeaderInv'
  <2>1. CASE Step(t).opt # "header"
    <3>1. handle'["header"] = handle["header"]
      BY <1>1, <2>1 DEF SetStep, SetOption, TypeOK, Options
    <3>2. QED
      BY <1>1, <3>1, RestKeepsHeaders DEF SetStep, setup, HeaderInv
  <2>2. CASE Step(t).opt = "header"
    <3>1. handle'["header"] = ValueOf(t, Step(t).val)
      BY <1>1, <2>2 DEF SetStep, SetOption, TypeOK, Options
    <3>2. Step(t).val \in Kinds \/ (Step(t).val = "early" /\ op[t] \in Hasty)
      BY <1>1, <2>2, SetTyped DEF SetStep
    <3>3. CASE Step(t).val \in Kinds
      BY <1>1, <3>1, <3>3, ListValue, RestKeepsHeaders DEF SetStep, setup
    <3>4. CASE Step(t).val = "early" /\ op[t] \in Hasty
      <4>1. ValueOf(t, Step(t).val) = early[t]
        BY <3>4 DEF ValueOf, Kinds
      <4>2. Live(early[t])
        BY <1>1, <3>4 DEF SetStep, At, HeaderInv
      <4>3. QED
        BY <1>1, <3>1, <4>1, <4>2, RestKeepsHeaders DEF SetStep, setup
    <3>5. QED
      BY <3>2, <3>3, <3>4
  <2>3. QED
    BY <2>1, <2>2
<1>2. ASSUME NEW t \in Threads, KeepStep(t) \/ KeepFails(t)
      PROVE  HeaderInv'
  <2>1. handle'["header"] = handle["header"]
    BY <1>2, KeepTyped DEF KeepStep, KeepFails, SetOption, TypeOK, Options, Lasting
  <2>2. UNCHANGED <<list, op, early>>
    BY <1>2 DEF KeepStep, KeepFails, setup
  <2>3. \A u \in Threads : status'[u] # "idle" => status[u] # "idle"
    BY <1>2 DEF KeepStep, KeepFails, At, TypeOK
  <2>4. QED
    BY <2>1, <2>2, <2>3, RestKeepsHeaders DEF HeaderInv
<1>3. ASSUME NEW t \in Threads, RestoreStep(t) \/ Unwind(t)
      PROVE  HeaderInv'
  <2>1. handle'["header"] \in {handle["header"], Null}
    BY <1>3 DEF RestoreStep, Unwind, RestoreTop, SetOption, TypeOK, Options
  <2>2. Live(handle'["header"])
    BY <2>1 DEF HeaderInv, Live
  <2>3. UNCHANGED <<list, op, early, status>>
    BY <1>3 DEF RestoreStep, Unwind, setup
  <2>4. QED
    BY <2>2, <2>3, RestKeepsHeaders
<1>4. ASSUME NEW t \in Threads,
             \/ SetFails(t) \/ NoteStep(t) \/ RelockStep(t) \/ ClearStep(t) \/ Perform(t)
             \/ Accept(t) \/ Reject(t) \/ Return(t) \/ SocketStep(t)
      PROVE  HeaderInv'
  <2>1. UNCHANGED <<handle, list, op, early>>
    BY <1>4 DEF SetFails, NoteStep, RelockStep, ClearStep, Perform, Accept, Reject, Return,
                SocketStep, clientVars, setup
  <2>2. \A u \in Threads : status'[u] # "idle" => status[u] # "idle"
    BY <1>4 DEF SetFails, NoteStep, RelockStep, ClearStep, Perform, Accept, Reject, Return,
                SocketStep, At, TypeOK
  <2>3. QED
    BY <2>1, <2>2, RestKeepsHeaders DEF HeaderInv
<1>5. ASSUME NEW t \in Threads, Lock(t) \/ Answer(t) \/ SocketEnds(t) \/ ReturnVersion(t)
      PROVE  HeaderInv'
  <2>1. UNCHANGED <<handle, list, op, early>>
    BY <1>5 DEF Lock, Answer, Answered, PerformFails, SocketEnds, ReturnVersion, clientVars, setup
  <2>2. \A u \in Threads : status'[u] # "idle" => status[u] # "idle"
    BY <1>5 DEF Lock, Answer, Answered, PerformFails, SocketEnds, ReturnVersion, TypeOK
  <2>3. QED
    BY <2>1, <2>2, RestKeepsHeaders DEF HeaderInv
<1>6. ASSUME NEW t \in Threads, End(t)
      PROVE  HeaderInv'
  <2>1. UNCHANGED <<handle, list>>
    BY <1>6 DEF End, setup
  <2>2. /\ status'[t] = "idle"
        /\ \A u \in Threads \ {t} : /\ status'[u] = status[u] /\ op'[u] = op[u]
                                    /\ early'[u] = early[u]
    BY <1>6 DEF End, Forget, TypeOK
  <2>3. QED
    BY <2>1, <2>2, RestKeepsHeaders DEF HeaderInv
<1>7. ASSUME NEW t \in Threads, NEW o \in Ops, Begin(t, o)
      PROVE  HeaderInv'
  <2>1. UNCHANGED <<handle, list>>
    BY <1>7 DEF Begin, clientVars
  <2>2. /\ early'[t] = Early(o)
        /\ \A u \in Threads \ {t} : /\ status'[u] = status[u] /\ op'[u] = op[u]
                                    /\ early'[u] = early[u]
    BY <1>7 DEF Begin, TypeOK
  <2>3. Live(Early(o))
    BY EarlyLive
  <2>4. Live(handle["header"])'
    BY <2>1 DEF HeaderInv, Live
  <2>5. \A u \in Threads : status'[u] # "idle" /\ op'[u] \in Hasty => Live(early[u])'
    BY <2>1, <2>2, <2>3 DEF HeaderInv, Live
  <2>6. QED
    BY <2>4, <2>5 DEF HeaderInv
<1>8. CASE UNCHANGED vars
  BY <1>8, RestKeepsHeaders DEF vars, clientVars, setup, threadVars, HeaderInv
<1>9. QED
  BY <1>1, <1>2, <1>3, <1>4, <1>5, <1>6, <1>7, <1>8, RebuildKeeps DEF Next, ThreadStep, ProgramStep

LEMMA InitHeader == Init => HeaderInv
<1> SUFFICES ASSUME Init
             PROVE  HeaderInv
  OBVIOUS
<1>1. handle["header"] = Null
  BY DEF Init, Options
<1>2. QED
  BY <1>1 DEF Init, HeaderInv, Live

(* libcurl never reads a header list that SetLanguage, SetCharacterEncoding*)
(* or SetAdditionalHeaders has freed.                                      *)
THEOREM HeadersLive == ASSUME Discipline PROVE Spec => []HeadersAlive
<1>1. TypeOK /\ StackInv /\ OwnerInv /\ HeaderInv /\ [Next]_vars => HeaderInv'
  BY HeaderInductive
<1>2. HeaderInv => HeadersAlive
  BY DEF HeaderInv, HeadersAlive
<1>3. QED
  BY <1>1, <1>2, InitHeader, TypeCorrect, StackInvariant, OwnerInvariant, PTL DEF Spec

-----------------------------------------------------------------------------
(* The route to the controller                                             *)

Switchers    == {"setProxy", "setUnixEndpoint"}
Switching(t) == status[t] \in {"run", "wait"} /\ op[t] \in Switchers

RouteOK == Null \in {handle["proxy"], handle["unix"]} /\ handle["unix"] \in {Null, endpoint}

(* How far a thread has come in changing the route.  Only between the last *)
(* option of SetUnixEndpoint and the assignment of unixEndpoint, where     *)
(* nothing throws, the route is not in order.                              *)
Switched(t) ==
    /\ status[t] = "wait" => pos[t] > 4
    /\ op[t] = "setProxy" => RouteOK /\ (pos[t] > 1 => handle["unix"] = Null)
    /\ op[t] = "setUnixEndpoint" =>
          /\ pos[t] > 1 => handle["proxy"] = Null
          /\ pos[t] = 4 => handle["unix"] = <<"call", call[t]>>
          /\ pos[t] # 4 => RouteOK

(* Only the two methods change the route, and neither leaves it in disorder*)
(* however it ends.                                                        *)
RouteInv ==
    /\ \A t \in Threads : \A i \in DOMAIN stack[t] : stack[t][i] \notin Lasting
    /\ \A t \in Threads : status[t] \in {"lock", "perform"} => op[t] \notin Switchers
    /\ \A t \in Threads : Switching(t) => Switched(t)
    /\ (\A t \in Threads : ~Switching(t)) => RouteOK

LEMMA SwitchPrograms ==
  /\ Program["setProxy"] = <<Keep("unix", "null"), Keep("proxy", "own"), Keep("proxyuser", "own"),
                             Note("null"), Relock, Socket>>
  /\ Program["setUnixEndpoint"] = <<Keep("proxy", "null"), Keep("proxyuser", "null"),
                                    Keep("unix", "own"), Note("own"), Relock, Socket>>
  /\ Program["setUserAgent"] = <<Keep("agent", "own")>>
  /\ Program["subscribe"] = <<Socket>>
  BY DEF Program, SetProxy, SetUnixEndpoint, SetUserAgent, ExecuteGraphSubscription

(* A thread that changes the route is alone.                               *)
LEMMA SwitchAlone ==
  ASSUME Discipline, OwnerInv, NEW t \in Threads, Switching(t), NEW u \in Threads, u # t
  PROVE  status[u] = "idle"
<1>1. status[t] # "idle" /\ op[t] \in Ops /\ op[t] \in Unguarded
  BY DEF Switching, Switchers, OwnerInv, Unguarded
<1>2. op[t] \in Solo
  BY <1>1 DEF Discipline
<1>3. QED
  BY <1>1, <1>2 DEF OwnerInv

(* The stack holds no lasting option.                                      *)
LEMMA StackRoute ==
  ASSUME TypeOK, RouteInv, NEW t \in Threads, NEW o,
         o \notin Lasting, stack' \in {stack, [stack EXCEPT ![t] = Append(@, o)]}
  PROVE  \A u \in Threads : \A i \in DOMAIN stack'[u] : stack'[u][i] \notin Lasting
<1>1. stack[t] \in Seq(Options)
  BY DEF TypeOK
<1>2. \A i \in DOMAIN Append(stack[t], o) : Append(stack[t], o)[i] \notin Lasting
  BY <1>1 DEF RouteInv
<1>3. \A u \in Threads : stack'[u] = stack[u] \/ stack'[u] = Append(stack[t], o)
  BY DEF TypeOK
<1>4. QED
  BY <1>2, <1>3 DEF RouteInv

LEMMA PopRoute ==
  ASSUME TypeOK, RouteInv, NEW t \in Threads, stack[t] # <<>>, RestoreTop(t)
  PROVE  /\ \A u \in Threads : \A i \in DOMAIN stack'[u] : stack'[u][i] \notin Lasting
         /\ \A o \in Lasting : handle'[o] = handle[o]
<1> DEFINE s == stack[t]
           r == SubSeq(s, 1, Len(s) - 1)
<1>1. s \in Seq(Options) /\ Len(s) \in Nat \ {0}
  BY DEF TypeOK
<1>2. r \in Seq(Options) /\ \A i \in DOMAIN r : i \in DOMAIN s /\ r[i] = s[i]
  BY <1>1
<1>3. \A u \in Threads : stack'[u] = stack[u] \/ stack'[u] = r
  BY DEF RestoreTop, TypeOK
<1>4. s[Len(s)] \notin Lasting
  BY <1>1 DEF RouteInv
<1>5. \A o \in Lasting : handle'[o] = handle[o]
  BY <1>4 DEF RestoreTop, SetOption, TypeOK, Options, Lasting
<1>6. QED
  BY <1>2, <1>3, <1>5 DEF RouteInv

(* Where a thread that changes the route is in its program.                *)
LEMMA SwitchAt ==
  ASSUME TypeOK, NEW t \in Threads, op[t] \in Switchers, NEW w, At(t, w)
  PROVE  /\ pos[t] \in 1 .. 6 /\ Step(t) = Program[op[t]][pos[t]]
         /\ w = "keep" => pos[t] \in 1 .. 3
         /\ w = "note" => pos[t] = 4
         /\ w = "relock" => pos[t] = 5
         /\ w = "socket" => pos[t] = 6
         /\ w \in {"keep", "note", "relock", "socket"}
<1>1. Step(t).do = w /\ pos[t] \in 1 .. 6 /\ Step(t) = Program[op[t]][pos[t]]
  BY SwitchPrograms DEF At, Step, Switchers
<1>2. QED
  BY <1>1, SwitchPrograms DEF Switchers, Keep, Note, Relock, Socket

(* What it sets, or clears when it fails to set it.                        *)
LEMMA SwitchKeep ==
  ASSUME TypeOK, NEW t \in Threads, op[t] \in Switchers, At(t, "keep"), Switched(t),
         NEW v \in {Null, ValueOf(t, Step(t).val)}, handle' = [handle EXCEPT ![Step(t).opt] = v],
         UNCHANGED endpoint
  PROVE  /\ op[t] = "setProxy" => RouteOK' /\ handle'["unix"] = Null
         /\ op[t] = "setUnixEndpoint" /\ pos[t] < 3 => RouteOK' /\ handle'["proxy"] = Null
         /\ op[t] = "setUnixEndpoint" /\ pos[t] = 3 =>
               handle'["proxy"] = Null /\ handle'["unix"] = v
<1>1. pos[t] \in 1 .. 3 /\ Step(t) = Program[op[t]][pos[t]]
  BY SwitchAt
<1>2. CASE op[t] = "setProxy" /\ pos[t] = 1
  <2>1. Step(t).opt = "unix" /\ ValueOf(t, Step(t).val) = Null
    BY <1>1, <1>2, SwitchPrograms DEF Keep, ValueOf, Kinds, Null
  <2>2. handle'["unix"] = Null
    BY <2>1 DEF TypeOK, Options
  <2>3. QED
    BY <1>2, <2>2 DEF RouteOK
<1>3. CASE op[t] = "setProxy" /\ pos[t] # 1
  <2>1. Step(t).opt \in {"proxy", "proxyuser"}
    BY <1>1, <1>3, SwitchPrograms DEF Keep
  <2>2. handle'["unix"] = Null
    BY <1>1, <1>3, <2>1 DEF Switched, TypeOK, Options
  <2>3. QED
    BY <1>3, <2>2 DEF RouteOK
<1>4. CASE op[t] = "setUnixEndpoint" /\ pos[t] = 1
  <2>1. Step(t).opt = "proxy" /\ ValueOf(t, Step(t).val) = Null
    BY <1>1, <1>4, SwitchPrograms DEF Keep, ValueOf, Kinds, Null
  <2>2. handle'["proxy"] = Null /\ handle'["unix"] = handle["unix"]
    BY <2>1 DEF TypeOK, Options
  <2>3. QED
    BY <1>4, <2>2 DEF RouteOK, Switched
<1>5. CASE op[t] = "setUnixEndpoint" /\ pos[t] = 2
  <2>1. Step(t).opt = "proxyuser"
    BY <1>1, <1>5, SwitchPrograms DEF Keep
  <2>2. handle'["proxy"] = handle["proxy"] /\ handle'["unix"] = handle["unix"]
    BY <2>1 DEF TypeOK, Options
  <2>3. QED
    BY <1>5, <2>2 DEF RouteOK, Switched
<1>6. CASE op[t] = "setUnixEndpoint" /\ pos[t] = 3
  <2>1. Step(t).opt = "unix"
    BY <1>1, <1>6, SwitchPrograms DEF Keep
  <2>2. handle'["proxy"] = handle["proxy"] /\ handle'["unix"] = v
    BY <2>1 DEF TypeOK, Options
  <2>3. QED
    BY <1>6, <2>2 DEF Switched
<1>7. QED
  BY <1>1, <1>2, <1>3, <1>4, <1>5, <1>6 DEF Switchers

(* Its steps, if nothing throws.                                           *)
LEMMA SwitchStep ==
  ASSUME TypeOK, NEW t \in Threads, Switching(t), Switched(t),
         KeepStep(t) \/ NoteStep(t) \/ RelockStep(t)
  PROVE  Switching(t)' /\ Switched(t)'
<1>1. /\ status[t] = "run" /\ op[t] \in Switchers
      /\ pos' = [pos EXCEPT ![t] = @ + 1] /\ UNCHANGED <<status, op, call>>
  BY DEF KeepStep, NoteStep, RelockStep, At, Advance, Switching
<1>2. pos'[t] = pos[t] + 1 /\ pos[t] \in Nat
  BY <1>1 DEF TypeOK
<1>3. Switching(t)' /\ status'[t] # "wait"
  BY <1>1 DEF Switching
<1>4. CASE KeepStep(t)
  <2>1. /\ handle' = [handle EXCEPT ![Step(t).opt] = ValueOf(t, Step(t).val)]
        /\ UNCHANGED endpoint /\ At(t, "keep")
    BY <1>4 DEF KeepStep, SetOption, setup
  <2>2. pos[t] \in 1 .. 3 /\ Step(t) = Program[op[t]][pos[t]]
    BY <1>1, <2>1, SwitchAt
  <2>3. /\ op[t] = "setProxy" => RouteOK' /\ handle'["unix"] = Null
        /\ op[t] = "setUnixEndpoint" /\ pos[t] < 3 => RouteOK' /\ handle'["proxy"] = Null
        /\ op[t] = "setUnixEndpoint" /\ pos[t] = 3 =>
              handle'["proxy"] = Null /\ handle'["unix"] = ValueOf(t, Step(t).val)
    BY <1>1, <2>1, SwitchKeep
  <2>4. op[t] = "setUnixEndpoint" /\ pos[t] = 3 => ValueOf(t, Step(t).val) = <<"call", call[t]>>
    BY <2>2, SwitchPrograms DEF Keep, ValueOf, Kinds
  <2>5. pos'[t] \in 2 .. 4 /\ (pos'[t] = 4 <=> pos[t] = 3)
    BY <1>2, <2>2
  <2>6. QED
    BY <1>1, <1>3, <2>2, <2>3, <2>4, <2>5 DEF Switched
<1>5. CASE NoteStep(t)
  <2>1. endpoint' = ValueOf(t, Step(t).val) /\ UNCHANGED handle /\ At(t, "note")
    BY <1>5 DEF NoteStep, clientVars
  <2>2. pos[t] = 4 /\ Step(t) = Program[op[t]][pos[t]] /\ pos'[t] = 5
    BY <1>1, <1>2, <2>1, SwitchAt
  <2>3. CASE op[t] = "setProxy"
    BY <1>1, <1>3, <2>1, <2>2, <2>3 DEF Switched, RouteOK
  <2>4. CASE op[t] = "setUnixEndpoint"
    <3>1. ValueOf(t, Step(t).val) = <<"call", call[t]>>
      BY <2>2, <2>4, SwitchPrograms DEF Note, ValueOf, Kinds
    <3>2. QED
      BY <1>1, <1>3, <2>1, <2>2, <2>4, <3>1 DEF Switched, RouteOK
  <2>5. QED
    BY <1>1, <2>3, <2>4 DEF Switchers
<1>6. CASE RelockStep(t)
  <2>1. UNCHANGED <<handle, endpoint>> /\ At(t, "relock")
    BY <1>6 DEF RelockStep, setup
  <2>2. pos[t] = 5 /\ pos'[t] = 6
    BY <1>1, <1>2, <2>1, SwitchAt
  <2>3. QED
    BY <1>1, <1>3, <2>1, <2>2 DEF Switched, RouteOK
<1>7. QED
  BY <1>4, <1>5, <1>6

(* It leaves the route in order when an option cannot be set ...           *)
LEMMA SwitchFails ==
  ASSUME TypeOK, NEW t \in Threads, Switching(t), Switched(t), KeepFails(t)
  PROVE  RouteOK'
<1>1. op[t] \in Switchers /\ At(t, "keep") /\ UNCHANGED endpoint
  BY DEF KeepFails, Switching, setup
<1>2. pos[t] \in 1 .. 3
  BY <1>1, SwitchAt
<1>3. CASE SetOption(Step(t).opt, Null)
  <2>1. handle' = [handle EXCEPT ![Step(t).opt] = Null]
    BY <1>3 DEF SetOption
  <2>2. /\ op[t] = "setProxy" => RouteOK'
        /\ op[t] = "setUnixEndpoint" /\ pos[t] < 3 => RouteOK'
        /\ op[t] = "setUnixEndpoint" /\ pos[t] = 3 => handle'["unix"] = Null
    BY <1>1, <2>1, SwitchKeep
  <2>3. QED
    BY <1>1, <1>2, <2>2 DEF Switchers, RouteOK
<1>4. CASE UNCHANGED handle
  BY <1>1, <1>2, <1>4 DEF Switched, Switchers, RouteOK
<1>5. QED
  BY <1>3, <1>4 DEF KeepFails

(* ... and in the steps that follow the change.                            *)
LEMMA SwitchRest ==
  ASSUME TypeOK, NEW t \in Threads, Switching(t), Switched(t),
         SocketStep(t) \/ SocketEnds(t) \/ Return(t)
  PROVE  RouteOK' /\ (Switching(t)' => Switched(t)')
<1>1. op[t] \in Switchers /\ pos[t] \in Nat
  BY DEF Switching, TypeOK
<1>2. UNCHANGED <<handle, endpoint, op, call>> /\ pos'[t] \in {pos[t], pos[t] + 1}
  BY DEF SocketStep, SocketEnds, Return, Advance, Leave, clientVars, setup, TypeOK
<1>3. CASE SocketStep(t) \/ SocketEnds(t)
  <2>1. pos[t] > 4
    BY <1>1, <1>3, SwitchAt DEF SocketStep, SocketEnds, Switched
  <2>2. RouteOK
    BY <1>1, <2>1 DEF Switched, Switchers
  <2>3. pos'[t] > 4
    BY <1>1, <1>2, <2>1
  <2>4. QED
    BY <1>1, <1>2, <2>1, <2>2, <2>3 DEF Switched, Switchers, RouteOK
<1>4. CASE Return(t)
  <2>1. pos[t] # 4
    BY <1>1, <1>4, SwitchPrograms DEF Return, Switchers
  <2>2. status'[t] = "unwind"
    BY <1>4 DEF Return, Leave, TypeOK
  <2>3. QED
    BY <1>1, <1>2, <2>1, <2>2 DEF Switched, Switchers, Switching, RouteOK
<1>5. QED
  BY <1>3, <1>4

LEMMA RouteInductive ==
  ASSUME Discipline, TypeOK, OwnerInv, RouteInv, [Next]_vars
  PROVE  RouteInv'
<1> USE DEF Leave, Advance
<1>1. ASSUME NEW t \in Threads, Switching(t), NEW u \in Threads, u # t
      PROVE  status[u] = "idle"
  BY <1>1, SwitchAlone
<1>2. ASSUME NEW t \in Threads, Switching(t),
             KeepStep(t) \/ NoteStep(t) \/ RelockStep(t)
      PROVE  RouteInv'
  <2>1. UNCHANGED <<op, call, stack, status>>
    BY <1>2 DEF KeepStep, NoteStep, RelockStep
  <2>2. Switching(t)' /\ Switched(t)'
    BY <1>2, <2>1, SwitchStep DEF RouteInv
  <2>3. \A u \in Threads \ {t} : status'[u] = "idle"
    BY <1>1, <1>2, <2>1
  <2>4. QED
    BY <2>1, <2>2, <2>3 DEF RouteInv, Switching
<1>3. ASSUME NEW t \in Threads, Switching(t),
             KeepFails(t) \/ SocketStep(t) \/ SocketEnds(t) \/ Return(t)
      PROVE  RouteInv'
  <2>1. RouteOK'
    BY <1>3, SwitchFails, SwitchRest DEF RouteInv
  <2>2. Switching(t)' => Switched(t)'
    <3>1. CASE KeepFails(t)
      BY <3>1 DEF KeepFails, Switching, TypeOK
    <3>2. CASE ~KeepFails(t)
      BY <1>3, <3>2, SwitchRest DEF RouteInv
    <3>3. QED
      BY <3>1, <3>2
  <2>3. UNCHANGED <<stack, op>> /\ \A u \in Threads \ {t} : status'[u] = status[u]
    BY <1>3 DEF KeepFails, SocketStep, SocketEnds, Return, TypeOK
  <2>4. status'[t] \in {"run", "wait", "unwind"}
    BY <1>3 DEF KeepFails, SocketStep, SocketEnds, Return, At, TypeOK
  <2>5. \A u \in Threads \ {t} : status'[u] = "idle"
    BY <1>1, <1>3, <2>3
  <2>6. QED
    BY <2>1, <2>2, <2>3, <2>4, <2>5 DEF RouteInv, Switching
<1>4. ASSUME NEW t \in Threads, ~Switching(t),
             UNCHANGED <<endpoint, op>>, \A o \in Lasting \ {"agent"} : handle'[o] = handle[o],
             \A u \in Threads : \A i \in DOMAIN stack'[u] : stack'[u][i] \notin Lasting,
             \A u \in Threads \ {t} : status'[u] = status[u],
             status[t] # "idle",
             status'[t] \in {"perform", "run", "wait"} => op[t] \notin Switchers,
             status'[t] # "lock"
      PROVE  RouteInv'
  <2>1. \A u \in Threads : ~Switching(u)
    BY <1>1, <1>4
  <2>2. RouteOK'
    BY <1>4, <2>1 DEF RouteInv, RouteOK, Lasting
  <2>3. \A u \in Threads : ~Switching(u)'
    BY <1>4, <2>1 DEF Switching
  <2>4. QED
    BY <1>4, <2>2, <2>3 DEF RouteInv
<1>5. ASSUME NEW t \in Threads, ~Switching(t), SetStep(t) \/ SetFails(t)
      PROVE  RouteInv'
  <2>1. Step(t).opt \in Options \ Lasting /\ op[t] \notin Switchers
    BY <1>5, SetTyped DEF SetStep, SetFails, At, Switching
  <2>2. \A u \in Threads : \A i \in DOMAIN stack'[u] : stack'[u][i] \notin Lasting
    BY <1>5, <2>1, StackRoute DEF SetStep, SetFails
  <2>3. \A o \in Lasting : handle'[o] = handle[o]
    BY <1>5, <2>1 DEF SetStep, SetFails, SetOption, clientVars, TypeOK, Options, Lasting
  <2>4. /\ UNCHANGED <<endpoint, op>> /\ \A u \in Threads \ {t} : status'[u] = status[u]
        /\ status[t] = "run" /\ status'[t] \in {"run", "unwind"}
    BY <1>5 DEF SetStep, SetFails, setup, At, TypeOK
  <2>5. QED
    BY <1>4, <1>5, <2>1, <2>2, <2>3, <2>4
<1>6. ASSUME NEW t \in Threads, ~Switching(t), KeepStep(t) \/ KeepFails(t) \/ NoteStep(t)
      PROVE  RouteInv'
  <2>1. At(t, "keep") \/ At(t, "note")
    BY <1>6 DEF KeepStep, KeepFails, NoteStep
  <2>2. op[t] = "setUserAgent"
    <3>1. op[t] \notin Switchers
      BY <1>6, <2>1 DEF At, Switching
    <3>2. op[t] \in Quiet
      BY <2>1, StepTyped DEF Instr, SetInstr, HastyInstr, SendInstr, OtherInstr
    <3>3. op[t] # "subscribe"
      BY <2>1, SwitchPrograms DEF At, Socket
    <3>4. QED
      BY <3>1, <3>2, <3>3 DEF Quiet, Switchers
  <2>3. Step(t) = Keep("agent", "own")
    BY <2>1, <2>2, SwitchPrograms DEF At, Step
  <2>4. (KeepStep(t) \/ KeepFails(t)) /\ Step(t).opt = "agent"
    BY <1>6, <2>3 DEF NoteStep, At, Step, Keep
  <2>5. \A o \in Lasting \ {"agent"} : handle'[o] = handle[o]
    BY <2>4 DEF KeepStep, KeepFails, SetOption, TypeOK, Options, Lasting
  <2>6. /\ UNCHANGED <<endpoint, op, stack>> /\ status[t] = "run" /\ op[t] \notin Switchers
        /\ status'[t] \in {"run", "unwind"} /\ \A u \in Threads \ {t} : status'[u] = status[u]
    BY <2>2, <2>4 DEF KeepStep, KeepFails, setup, At, Switchers, TypeOK
  <2>7. \A u \in Threads : \A i \in DOMAIN stack'[u] : stack'[u][i] \notin Lasting
    BY <2>6 DEF RouteInv
  <2>8. QED
    BY <1>4, <1>6, <2>5, <2>6, <2>7
<1>7. ASSUME NEW t \in Threads, ~Switching(t), RestoreStep(t) \/ Unwind(t)
      PROVE  RouteInv'
  <2>1. /\ \A u \in Threads : \A i \in DOMAIN stack'[u] : stack'[u][i] \notin Lasting
        /\ \A o \in Lasting : handle'[o] = handle[o]
    BY <1>7, PopRoute DEF RestoreStep, Unwind
  <2>2. /\ UNCHANGED <<endpoint, op, status>> /\ status[t] \in {"run", "unwind"}
        /\ status[t] = "run" => op[t] \notin Switchers
    BY <1>7 DEF RestoreStep, Unwind, setup, At, Switching
  <2>3. QED
    BY <1>4, <1>7, <2>1, <2>2
<1>8. ASSUME NEW t \in Threads, ~Switching(t),
             \/ RelockStep(t) \/ ClearStep(t) \/ Perform(t) \/ Accept(t) \/ Reject(t) \/ Return(t)
             \/ SetLanguage(t) \/ SetAdditionalHeaders(t) \/ SocketStep(t) \/ SocketEnds(t)
      PROVE  RouteInv'
  <2>1. UNCHANGED <<endpoint, op, stack, handle>>
    BY <1>8 DEF RelockStep, ClearStep, Perform, Accept, Reject, Return, SetLanguage,
                SetAdditionalHeaders, SocketStep, SocketEnds, setup, clientVars
  <2>2. /\ status[t] \in {"run", "wait"} /\ \A u \in Threads \ {t} : status'[u] = status[u]
        /\ status'[t] \in {"run", "perform", "wait", "unwind"}
    BY <1>8 DEF RelockStep, ClearStep, Perform, Accept, Reject, Return, SetLanguage,
                SetAdditionalHeaders, SocketStep, SocketEnds, At, TypeOK
  <2>3. op[t] \notin Switchers
    BY <1>8, <2>2 DEF Switching
  <2>4. QED
    BY <1>4, <1>8, <2>1, <2>2, <2>3 DEF RouteInv
<1>9. ASSUME NEW t \in Threads, Lock(t) \/ Answer(t)
      PROVE  RouteInv'
  <2>1. UNCHANGED <<endpoint, op, stack, handle>>
    BY <1>9 DEF Lock, Answer, Answered, PerformFails, setup, clientVars
  <2>2. /\ status[t] \in {"lock", "perform"} /\ \A u \in Threads \ {t} : status'[u] = status[u]
        /\ status'[t] \in {"run", "unwind"}
    BY <1>9 DEF Lock, Answer, Answered, PerformFails, TypeOK
  <2>3. op[t] \notin Switchers /\ ~Switching(t)
    BY <2>2 DEF RouteInv, Switching
  <2>4. QED
    BY <1>4, <2>1, <2>2, <2>3 DEF RouteInv
<1>10. ASSUME NEW t \in Threads, Switching(t), \A w \in {"set", "restore", "clear", "send", "parse", "check"} : ~At(t, w)
       PROVE  /\ ~SetStep(t) /\ ~SetFails(t) /\ ~ClearStep(t) /\ ~RestoreStep(t) /\ ~Perform(t)
              /\ ~Accept(t) /\ ~Reject(t) /\ ~SetLanguage(t) /\ ~SetAdditionalHeaders(t) /\ ~Unwind(t)
  BY <1>10 DEF SetStep, SetFails, ClearStep, RestoreStep, Perform, Accept, Reject, SetLanguage,
               SetAdditionalHeaders, Unwind, Switching, Switchers
<1>11. ASSUME NEW t \in Threads, Switching(t)
       PROVE  \A w \in {"set", "restore", "clear", "send", "parse", "check"} : ~At(t, w)
  BY <1>11, SwitchAt DEF Switching
<1>12. ASSUME NEW t \in Threads, NEW o \in Ops, Begin(t, o)
       PROVE  RouteInv'
  <2>1. /\ status[t] = "idle" /\ UNCHANGED <<handle, endpoint, stack>>
        /\ status' = [status EXCEPT ![t] = IF o \in Unguarded THEN "run" ELSE "lock"]
        /\ op'[t] = o /\ pos'[t] = 1
        /\ \A u \in Threads \ {t} : op'[u] = op[u] /\ pos'[u] = pos[u] /\ call'[u] = call[u]
    BY <1>12 DEF Begin, clientVars, TypeOK
  <2>2. /\ status'[t] \in {"run", "lock"} /\ (status'[t] = "lock" => o \notin Switchers)
        /\ \A u \in Threads \ {t} : status'[u] = status[u]
    BY <2>1 DEF Unguarded, Switchers, TypeOK
  <2>3. \A u \in Threads \ {t} : ~Switching(u)
    BY <1>1, <1>12, <2>1 DEF Begin, MayBegin, Switching, OwnerInv, Discipline, Switchers, Unguarded
  <2>4. RouteOK'
    BY <2>1, <2>3 DEF RouteInv, RouteOK, Switching
  <2>5. Switched(t)'
    BY <2>1, <2>2, <2>4 DEF Switched
  <2>6. QED
    BY <2>1, <2>2, <2>3, <2>4, <2>5 DEF RouteInv, Switching
<1>13. ASSUME NEW t \in Threads, End(t)
       PROVE  RouteInv'
  <2>1. /\ status[t] = "unwind" /\ status'[t] = "idle" /\ UNCHANGED <<handle, endpoint, stack>>
        /\ \A u \in Threads \ {t} : /\ status'[u] = status[u] /\ op'[u] = op[u]
                                    /\ pos'[u] = pos[u] /\ call'[u] = call[u]
    BY <1>13 DEF End, Forget, setup, TypeOK
  <2>2. \A u \in Threads : ~Switching(u)
    BY <1>1, <2>1 DEF Switching
  <2>3. QED
    BY <2>1, <2>2 DEF RouteInv, RouteOK, Switching
<1>14. CASE UNCHANGED <<handle, endpoint, stack, status, op, pos, call>>
  BY <1>14 DEF RouteInv, RouteOK, Switching, Switched
<1>15. ASSUME NEW t \in Threads, ThreadStep(t)
       PROVE  RouteInv'
  <2>1. CASE Switching(t)
    BY <1>2, <1>3, <1>9, <1>10, <1>11, <1>13, <1>15, <2>1 DEF ThreadStep, ProgramStep
  <2>2. CASE ~Switching(t)
    BY <1>5, <1>6, <1>7, <1>8, <1>9, <1>13, <1>15, <2>2 DEF ThreadStep, ProgramStep
  <2>3. QED
    BY <2>1, <2>2
<1>16. CASE UNCHANGED vars
  BY <1>14, <1>16 DEF vars, clientVars, setup, threadVars
<1>17. ASSUME NEW t \in Threads, ReturnVersion(t)
       PROVE  RouteInv'
  BY <1>14, <1>17 DEF ReturnVersion, clientVars, setup
<1>18. QED
  BY <1>3, <1>8, <1>9, <1>12, <1>15, <1>16, <1>17 DEF Next

(* SetProxy and SetUnixEndpoint exclude each other, and requests go to no  *)
(* other unix endpoint than that of _clientInfo, wherever a setter throws  *)
(* (SetProxy, SetUnixEndpoint).                                            *)
THEOREM OneRoute == ASSUME Discipline PROVE Spec => []RouteIsOne
<1>1. Init => RouteInv
  <2> SUFFICES ASSUME Init
               PROVE  RouteInv
    OBVIOUS
  <2>1. handle["proxy"] = Null /\ handle["unix"] = Null /\ endpoint = Null
    BY DEF Init, Options
  <2>2. \A t \in Threads : status[t] = "idle" /\ stack[t] = <<>>
    BY DEF Init
  <2>3. QED
    <3>1. \A i \in DOMAIN <<>> : FALSE
      OBVIOUS
    <3>2. \A t \in Threads : \A i \in DOMAIN stack[t] : stack[t][i] \notin Lasting
      BY <2>2, <3>1, Zenon
    <3>3. QED
      BY <2>1, <2>2, <3>2 DEF RouteInv, RouteOK, Switching
<1>2. RouteInv => RouteIsOne
  BY DEF RouteInv, RouteIsOne, RouteOK, Switching
<1>3. TypeOK /\ OwnerInv /\ RouteInv /\ [Next]_vars => RouteInv'
  BY RouteInductive
<1>4. QED
  BY <1>1, <1>2, <1>3, TypeCorrect, OwnerInvariant, PTL DEF Spec

-----------------------------------------------------------------------------
(* What a method does to the handle.  A picture shows the client to a      *)
(* thread without the numbers of its call and of the header lists: what the*)
(* options hold (h), the kind of request (m), the savers on the stack (s), *)
(* and whether the buffer is empty, holds the response of the call itself  *)
(* ("own"), or may hold anything.                                          *)
Marks == Operands \cup Kinds \cup {"early", "stdout"}

Picture == [h : [Options -> Marks], m : Methods, s : Seq(Options), b : {"any", "empty", "own"}]

(* A setting puts its saver on the stack, a saver resets its option.       *)
Put(a, o, v) == [h |-> [a.h EXCEPT ![o] = v], m |-> MethodAfter(a.m, o, <<v, 0>>),
                 s |-> Append(a.s, o), b |-> a.b]

Drop(a, s, o) == [h |-> [a.h EXCEPT ![o] = "null"], m |-> MethodAfter(a.m, o, Null),
                  s |-> s, b |-> a.b]

(* The buffer is cleared, and the response arrives where the handle says.  *)
Emptied(a) == [h |-> a.h, m |-> a.m, s |-> a.s, b |-> "empty"]

Filled(a) == [h |-> a.h, m |-> a.m, s |-> a.s,
              b |-> IF a.h["writedata"] # "buffer" THEN a.b
                    ELSE IF a.b = "empty" THEN "own" ELSE "any"]

(* The picture after an instruction.                                       *)
After(i, a) ==
    CASE i.do = "set"     -> Put(a, i.opt, i.val)
      [] i.do = "restore" -> Drop(a, SubSeq(a.s, 1, Len(a.s) - 1), a.s[Len(a.s)])
      [] i.do = "clear"   -> Emptied(a)
      [] i.do = "send"    -> Filled(a)
      [] OTHER            -> a

(* The header list that a hasty method chooses before it has the mutex.    *)
EarlyKind(o) == IF o = "putSTL" THEN "stl" ELSE "json"

(* The request that the picture a amounts to is the one that the           *)
(* instruction i of method o means to make.                                *)
FitsSend(o, i, a) ==
    /\ i.verb = IF a.h["custom"] # "null" THEN a.h["custom"]
                ELSE IF a.m = "FORM" THEN "POST" ELSE a.m
    /\ a.h["url"] = "own"
    /\ \/ i.body = "own" /\ a.m = "FORM" /\ a.h["form"] = "own"
       \/ i.body = "own" /\ a.m = "POST" /\ a.h["size"] = "own" /\ a.h["fields"] = "own"
       \/ i.body = "null" /\ a.m \in {"GET", "HEAD"}
       \/ i.body = "null" /\ a.h["form"] = "null" /\ a.h["size"] = "null"
    /\ \/ a.h["header"] = i.headers
       \/ a.h["header"] = "early" /\ o \in Hasty /\ i.headers = EarlyKind(o)
    /\ a.h["timecond"] = IF o = "download" THEN "on" ELSE "null"
    /\ a.h["timeout"] \in {"null", "own"} /\ a.h["readfn"] \in {"null", "own"}
    /\ IF i.sink = "any" THEN a.h["writefn"] = "null"
       ELSE a.h["writefn"] = i.sink /\ a.h["writedata"] = i.sink

(* The instruction may be carried out: a request is as intended, and a     *)
(* method that reads the buffer finds its own response in it.              *)
Fits(o, i, a) ==
    /\ i.do = "send" => FitsSend(o, i, a)
    /\ i.do = "parse" => a.b = "own"

(* The pictures that the first instructions of a program pass through.     *)
Path(P, A) ==
    /\ A \in Seq(Picture) /\ Len(A) \in 1 .. Len(P) + 1
    /\ \A i \in 1 .. Len(A) - 1 : A[i + 1] = After(P[i], A[i])

AnyInstr == Instr \cup HastyInstr

(* From the picture a every instruction of P fits, and P ends in b.        *)
Leads(o, P, a, b) ==
    /\ P \in Seq(AnyInstr)
    /\ \A A : Path(P, A) /\ A[1] = a =>
          /\ \A i \in 1 .. Len(A) : i <= Len(P) => Fits(o, P[i], A[i])
          /\ Len(A) = Len(P) + 1 => A[Len(A)] = b

(* Programs one after the other.                                           *)
LEMMA LeadsOn ==
  ASSUME NEW o, NEW P, NEW Q, NEW a, NEW b, NEW c,
         Leads(o, P, a, b), Leads(o, Q, b, c)
  PROVE  Leads(o, P \o Q, a, c)
<1>0. P \in Seq(AnyInstr) /\ Q \in Seq(AnyInstr) /\ P \o Q \in Seq(AnyInstr)
  BY DEF Leads
<1> SUFFICES ASSUME NEW A, Path(P \o Q, A), A[1] = a
             PROVE  /\ \A i \in 1 .. Len(A) : i <= Len(P \o Q) => Fits(o, (P \o Q)[i], A[i])
                    /\ Len(A) = Len(P \o Q) + 1 => A[Len(A)] = c
  BY <1>0 DEF Leads
<1> DEFINE n == Len(A)
           k == Len(P)
<1>1. /\ A \in Seq(Picture) /\ n \in Nat /\ k \in Nat /\ Len(P \o Q) = k + Len(Q) /\ Len(Q) \in Nat
      /\ n \in 1 .. k + Len(Q) + 1
      /\ \A i \in 1 .. n - 1 : A[i + 1] = After((P \o Q)[i], A[i])
  <2>1. k \in Nat /\ Len(P \o Q) = k + Len(Q) /\ Len(Q) \in Nat
    BY <1>0
  <2>2. /\ A \in Seq(Picture) /\ n \in 1 .. Len(P \o Q) + 1
        /\ \A i \in 1 .. n - 1 : A[i + 1] = After((P \o Q)[i], A[i])
    BY DEF Path
  <2>3. n \in Nat
    BY <2>2
  <2> QED
    BY <2>1, <2>2, <2>3
<1>2. /\ \A i \in 1 .. k : (P \o Q)[i] = P[i]
      /\ \A i \in 1 .. Len(Q) : (P \o Q)[k + i] = Q[i]
  BY <1>0
<1> HIDE DEF n, k
<1>3. CASE n <= k
  <2>1. Path(P, A)
    BY <1>1, <1>2, <1>3 DEF Path, n, k
  <2>2. \A i \in 1 .. n : i <= k => Fits(o, P[i], A[i])
    BY <2>1 DEF Leads, n, k
  <2>3. QED
    BY <1>1, <1>2, <1>3, <2>2 DEF n, k
<1>4. CASE n > k
  <2> DEFINE B == SubSeq(A, 1, k + 1)
             C == SubSeq(A, k + 1, n)
  <2>1. /\ B \in Seq(Picture) /\ Len(B) = k + 1 /\ \A i \in 1 .. k + 1 : B[i] = A[i]
    BY <1>1, <1>4 DEF n
  <2>2. /\ C \in Seq(Picture) /\ Len(C) = n - k /\ \A i \in 1 .. n - k : C[i] = A[k + i]
    <3>1. n - (k + 1) + 1 = n - k /\ k + 1 \in 1 .. n
      BY <1>1, <1>4
    <3>2. C \in Seq(Picture) /\ Len(C) = n - k
      BY <1>1, <1>4, <3>1 DEF n
    <3>3. \A i \in 1 .. n - k : C[i] = A[k + i]
      BY <1>1, <1>4, <3>1 DEF n
    <3>4. QED
      BY <3>2, <3>3
  <2> HIDE DEF B, C
  <2>3. Path(P, B) /\ B[1] = a
    BY <1>1, <1>2, <1>4, <2>1 DEF Path, n, k
  <2>4. /\ \A i \in 1 .. k : Fits(o, P[i], A[i])
        /\ A[k + 1] = b
    <3>1. /\ \A i \in 1 .. Len(B) : i <= Len(P) => Fits(o, P[i], B[i])
          /\ Len(B) = Len(P) + 1 => B[Len(B)] = b
      BY <2>3 DEF Leads
    <3>2. QED
      BY <1>1, <2>1, <3>1 DEF k
  <2>5. Path(Q, C) /\ C[1] = b
    <3>1. Len(C) \in 1 .. Len(Q) + 1 /\ C[1] = b
      BY <1>1, <1>4, <2>2, <2>4
    <3>2. ASSUME NEW i \in 1 .. Len(C) - 1
          PROVE  C[i + 1] = After(Q[i], C[i])
      <4>1. /\ i \in Nat /\ k + i \in 1 .. n - 1 /\ i \in 1 .. Len(Q) /\ i \in 1 .. n - k
            /\ i + 1 \in 1 .. n - k /\ k + (i + 1) = (k + i) + 1
        <5>1. i \in 1 .. (n - k) - 1
          BY <2>2
        <5>2. QED
          BY <1>1, <1>4, <5>1
      <4>2. A[(k + i) + 1] = After((P \o Q)[k + i], A[k + i])
        BY <1>1, <4>1
      <4>3. QED
        BY <1>2, <2>2, <4>1, <4>2
    <3>3. QED
      BY <2>2, <3>1, <3>2 DEF Path
  <2>6. /\ \A i \in 1 .. Len(C) : i <= Len(Q) => Fits(o, Q[i], C[i])
        /\ Len(C) = Len(Q) + 1 => C[Len(C)] = c
    BY <2>5 DEF Leads
  <2>7. ASSUME NEW i \in 1 .. n, i <= k + Len(Q), i > k
        PROVE  Fits(o, (P \o Q)[i], A[i])
    <3>1. i - k \in 1 .. Len(C) /\ i - k \in 1 .. Len(Q) /\ k + (i - k) = i
      BY <1>1, <1>4, <2>2, <2>7
    <3>2. Fits(o, Q[i - k], C[i - k])
      BY <2>6, <3>1
    <3>3. QED
      BY <1>2, <2>2, <3>1, <3>2
  <2>8. ASSUME n = k + Len(Q) + 1
        PROVE  A[n] = c
    <3>1. n - k = Len(Q) + 1 /\ n - k \in 1 .. n - k /\ k + (n - k) = n
      BY <1>1, <2>8
    <3>2. C[n - k] = c
      BY <2>2, <2>6, <3>1
    <3>3. QED
      BY <2>2, <3>1, <3>2
  <2>9. ASSUME NEW i \in 1 .. n, i <= k + Len(Q)
        PROVE  Fits(o, (P \o Q)[i], A[i])
    <3>1. CASE i <= k
      <4>1. i \in 1 .. k /\ (P \o Q)[i] = P[i]
        BY <1>1, <1>2, <3>1
      <4>2. QED
        BY <2>4, <4>1
    <3>2. CASE i > k
      BY <2>7, <2>9, <3>2
    <3>3. i \in Nat /\ (i <= k \/ i > k)
      BY <1>1, <2>9
    <3>4. QED
      BY <3>1, <3>2, <3>3
  <2>10. QED
    BY <1>1, <2>8, <2>9 DEF n
<1>5. QED
  BY <1>1, <1>3, <1>4

(* A single instruction.                                                   *)
LEMMA LeadsOne ==
  ASSUME NEW o, NEW i \in AnyInstr, NEW a, Fits(o, i, a)
  PROVE  Leads(o, <<i>>, a, After(i, a))
<1>1. Len(<<i>>) = 1 /\ <<i>>[1] = i /\ <<i>> \in Seq(AnyInstr)
  OBVIOUS
<1>2. ASSUME NEW P, Len(P) = 1, P[1] = i, NEW A, Path(P, A), A[1] = a
      PROVE  /\ \A j \in 1 .. Len(A) : j <= Len(P) => Fits(o, P[j], A[j])
             /\ Len(A) = Len(P) + 1 => A[Len(A)] = After(i, a)
  <2>1. A \in Seq(Picture) /\ Len(A) \in 1 .. 2
    BY <1>2 DEF Path
  <2>2. ASSUME Len(A) = 2
        PROVE  A[2] = After(i, a)
    <3>1. A[1 + 1] = After(P[1], A[1])
      BY <1>2, <2>2 DEF Path
    <3>2. QED
      BY <1>2, <3>1
  <2>3. QED
    BY <1>2, <2>1, <2>2
<1>3. QED
  BY <1>1, <1>2 DEF Leads

(* Tuples as concatenations.                                               *)
LEMMA Pairs ==
  ASSUME NEW S, NEW u \in S, NEW v \in S
  PROVE  <<u>> \o <<v>> = <<u, v>>
<1>1. <<u>> \o <<v>> \in Seq(S) /\ Len(<<u>> \o <<v>>) = 2
  OBVIOUS
<1>2. (<<u>> \o <<v>>)[1] = u /\ (<<u>> \o <<v>>)[2] = v
  OBVIOUS
<1>3. <<u, v>> \in Seq(S) /\ Len(<<u, v>>) = 2 /\ <<u, v>>[1] = u /\ <<u, v>>[2] = v
  OBVIOUS
<1>4. \A i \in 1 .. 2 : (<<u>> \o <<v>>)[i] = <<u, v>>[i]
  BY <1>2, <1>3
<1>5. \A p, q \in Seq(S) : Len(p) = Len(q) /\ (\A i \in 1 .. Len(p) : p[i] = q[i]) => p = q
  OBVIOUS
<1>6. QED
  BY <1>1, <1>3, <1>4, <1>5

LEMMA Tuples ==
  ASSUME NEW S, NEW u \in S, NEW v \in S, NEW w \in S, NEW x \in S, NEW y \in S, NEW z \in S
  PROVE  /\ <<u, v, w>> = <<u>> \o <<v, w>>
         /\ <<u, v, w, x>> = <<u>> \o <<v, w, x>>
         /\ <<u, v, w, x, y>> = <<u>> \o <<v, w, x, y>>
         /\ <<u, v, w, x, y, z>> = <<u>> \o <<v, w, x, y, z>>
<1>2. <<u, v, w>> = <<u>> \o <<v, w>>
  OBVIOUS
<1>3. <<u, v, w, x>> = <<u>> \o <<v, w, x>>
  OBVIOUS
<1>4. <<u, v, w, x, y>> = <<u>> \o <<v, w, x, y>>
  OBVIOUS
<1>5. <<u, v, w, x, y, z>> = <<u>> \o <<v, w, x, y, z>>
  OBVIOUS
<1>6. QED
  BY <1>2, <1>3, <1>4, <1>5

(* The picture with these parts, and what each instruction makes of it.    *)
Pic(h, m, s, b) == [h |-> h, m |-> m, s |-> s, b |-> b]

LEMMA LeadsOther ==
  ASSUME NEW o, NEW h, NEW m, NEW s, NEW b
  PROVE  /\ Leads(o, <<Clear>>, Pic(h, m, s, b), Pic(h, m, s, "empty"))
         /\ Leads(o, <<Check>>, Pic(h, m, s, b), Pic(h, m, s, b))
         /\ Leads(o, <<Relock>>, Pic(h, m, s, b), Pic(h, m, s, b))
         /\ Leads(o, <<Parse>>, Pic(h, m, s, "own"), Pic(h, m, s, "own"))
<1>1. /\ Clear \in AnyInstr /\ Check \in AnyInstr /\ Relock \in AnyInstr /\ Parse \in AnyInstr
  BY Instructions DEF AnyInstr
<1>2. /\ \A a : Fits(o, Clear, a) /\ Fits(o, Check, a) /\ Fits(o, Relock, a)
      /\ Fits(o, Parse, Pic(h, m, s, "own"))
  BY DEF Fits, Clear, Check, Relock, Parse, Pic
<1>3. /\ After(Clear, Pic(h, m, s, b)) = Pic(h, m, s, "empty")
      /\ \A a : After(Check, a) = a /\ After(Relock, a) = a /\ After(Parse, a) = a
  BY DEF After, Clear, Check, Relock, Parse, Pic, Emptied
<1>4. QED
  BY <1>1, <1>2, <1>3, LeadsOne

LEMMA LeadsSet ==
  ASSUME NEW o, NEW p \in Options \ (Lasting \cup {"header"}), NEW v \in Operands,
         NEW h, NEW m, NEW s, NEW b
  PROVE  Leads(o, <<Set(p, v)>>, Pic(h, m, s, b),
               Pic([h EXCEPT ![p] = v], MethodAfter(m, p, <<v, 0>>), Append(s, p), b))
<1>1. Set(p, v) \in AnyInstr
  BY Instructions DEF AnyInstr
<1>2. Fits(o, Set(p, v), Pic(h, m, s, b))
  BY DEF Fits, Set
<1>3. After(Set(p, v), Pic(h, m, s, b)) =
        Pic([h EXCEPT ![p] = v], MethodAfter(m, p, <<v, 0>>), Append(s, p), b)
  BY DEF After, Set, Pic, Put
<1>4. QED
  BY <1>1, <1>2, <1>3, LeadsOne

(* The options that do not change the kind of request.                     *)
Plain == Options \ (Lasting \cup {"header", "httpget", "post", "fields", "form", "nobody"})

LEMMA LeadsPlain ==
  ASSUME NEW o, NEW p \in Plain, NEW v \in Operands, NEW h, NEW m, NEW s, NEW b
  PROVE  Leads(o, <<Set(p, v)>>, Pic(h, m, s, b), Pic([h EXCEPT ![p] = v], m, Append(s, p), b))
<1>1. p \in Options \ (Lasting \cup {"header"}) /\ MethodAfter(m, p, <<v, 0>>) = m
  BY DEF Plain, MethodAfter
<1>2. QED
  BY <1>1, LeadsSet

LEMMA LeadsHeader ==
  ASSUME NEW o, NEW k \in Kinds \cup {"early"}, NEW h, NEW m, NEW s, NEW b
  PROVE  Leads(o, <<Set("header", k)>>, Pic(h, m, s, b),
               Pic([h EXCEPT !["header"] = k], m, Append(s, "header"), b))
<1>1. Set("header", k) \in AnyInstr
  BY Instructions DEF AnyInstr, HastyInstr, Set
<1>2. Fits(o, Set("header", k), Pic(h, m, s, b))
  BY DEF Fits, Set
<1>3. After(Set("header", k), Pic(h, m, s, b)) =
        Pic([h EXCEPT !["header"] = k], m, Append(s, "header"), b)
  BY DEF After, Set, Pic, Put, MethodAfter
<1>4. QED
  BY <1>1, <1>2, <1>3, LeadsOne

LEMMA LeadsSend ==
  ASSUME NEW o, NEW v \in Verbs, NEW d \in Bodies, NEW k \in Kinds, NEW x \in Sinks,
         NEW h, NEW m, NEW s, NEW b, FitsSend(o, Send(v, d, k, x), Pic(h, m, s, b))
  PROVE  /\ x = "buffer" /\ b = "empty" =>
              Leads(o, <<Send(v, d, k, x)>>, Pic(h, m, s, b), Pic(h, m, s, "own"))
         /\ \E c : Leads(o, <<Send(v, d, k, x)>>, Pic(h, m, s, b), Pic(h, m, s, c))
<1> DEFINE i == Send(v, d, k, x)
           a == Pic(h, m, s, b)
<1>1. i \in AnyInstr
  BY Instructions DEF AnyInstr
<1>2. Fits(o, i, a) /\ After(i, a) = Filled(a)
  BY DEF Fits, Send, After
<1>3. \E c : Filled(a) = Pic(h, m, s, c)
  BY DEF Filled, Pic
<1>4. ASSUME x = "buffer", b = "empty"
      PROVE  Filled(a) = Pic(h, m, s, "own")
  <2>1. h["writedata"] = "buffer"
    BY <1>4 DEF FitsSend, Send, Pic
  <2>2. QED
    BY <1>4, <2>1 DEF Filled, Pic
<1> HIDE DEF i, a
<1>5. Leads(o, <<i>>, a, Filled(a))
  BY <1>1, <1>2, LeadsOne
<1>6. QED
  BY <1>3, <1>4, <1>5 DEF i, a

(* The same, of a response that no later step of the program reads.        *)
LEMMA SendLeads ==
  ASSUME NEW o, NEW v, NEW d, NEW k, NEW x, NEW h, NEW m, NEW s, NEW b,
         v \in Verbs, d \in Bodies, k \in Kinds, x \in Sinks,
         FitsSend(o, Send(v, d, k, x), Pic(h, m, s, b))
  PROVE  \E c : Leads(o, <<Send(v, d, k, x)>>, Pic(h, m, s, b), Pic(h, m, s, c))
  BY LeadsSend

(* The words that requests are made of.                                    *)
LEMMA Words ==
  /\ "GET" \in Verbs /\ "POST" \in Verbs /\ "PUT" \in Verbs
  /\ "DELETE" \in Verbs /\ "MKCOL" \in Verbs /\ "HEAD" \in Verbs
  /\ "own" \in Bodies /\ "null" \in Bodies
  /\ "buffer" \in Sinks /\ "own" \in Sinks /\ "any" \in Sinks
  /\ "json" \in Kinds /\ "stl" \in Kinds /\ "multipart" \in Kinds
  BY DEF Verbs, Bodies, Sinks, Kinds

LEMMA LeadsRestore ==
  ASSUME NEW o, NEW h, NEW m, NEW s \in Seq(Options), NEW p \in Options, NEW b
  PROVE  Leads(o, <<Restore>>, Pic(h, m, Append(s, p), b),
               Pic([h EXCEPT ![p] = "null"], MethodAfter(m, p, Null), s, b))
<1> DEFINE a == Pic(h, m, Append(s, p), b)
<1>1. /\ Len(Append(s, p)) = Len(s) + 1 /\ Append(s, p)[Len(s) + 1] = p
      /\ SubSeq(Append(s, p), 1, (Len(s) + 1) - 1) = s
  OBVIOUS
<1>2. a.s = Append(s, p) /\ a.h = h /\ a.m = m /\ a.b = b
  BY DEF Pic
<1> HIDE DEF a
<1>3. After(Restore, a) = Drop(a, s, p)
  BY <1>1, <1>2 DEF After, Restore
<1>4. Drop(a, s, p) = Pic([h EXCEPT ![p] = "null"], MethodAfter(m, p, Null), s, b)
  BY <1>2 DEF Drop, Pic
<1>5. Restore \in AnyInstr /\ Fits(o, Restore, a)
  BY Instructions DEF AnyInstr, Fits, Restore
<1>6. QED
  BY <1>3, <1>4, <1>5, LeadsOne DEF a

(* A tuple is led one instruction after the other.                         *)
LEMMA LeadsCons ==
  ASSUME NEW o, NEW u, NEW v, NEW w, NEW x, NEW y, NEW z, NEW a, NEW b, NEW c,
         Leads(o, <<u>>, a, b)
  PROVE  /\ Leads(o, <<v>>, b, c) => Leads(o, <<u, v>>, a, c)
         /\ Leads(o, <<v, w>>, b, c) => Leads(o, <<u, v, w>>, a, c)
         /\ Leads(o, <<v, w, x>>, b, c) => Leads(o, <<u, v, w, x>>, a, c)
         /\ Leads(o, <<v, w, x, y>>, b, c) => Leads(o, <<u, v, w, x, y>>, a, c)
         /\ Leads(o, <<v, w, x, y, z>>, b, c) => Leads(o, <<u, v, w, x, y, z>>, a, c)
<1> DEFINE S == {u, v, w, x, y, z}
<1>1. u \in S /\ v \in S /\ w \in S /\ x \in S /\ y \in S /\ z \in S
  OBVIOUS
<1> HIDE DEF S
<1>2. Leads(o, <<v>>, b, c) => Leads(o, <<u, v>>, a, c)
  <2>1. <<u>> \o <<v>> = <<u, v>>
    BY <1>1, Pairs
  <2>2. QED
    BY <2>1, LeadsOn
<1>3. Leads(o, <<v, w>>, b, c) => Leads(o, <<u, v, w>>, a, c)
  <2>1. <<u, v, w>> = <<u>> \o <<v, w>>
    BY <1>1, Tuples
  <2>2. QED
    BY <2>1, LeadsOn
<1>4. Leads(o, <<v, w, x>>, b, c) => Leads(o, <<u, v, w, x>>, a, c)
  <2>1. <<u, v, w, x>> = <<u>> \o <<v, w, x>>
    BY <1>1, Tuples
  <2>2. QED
    BY <2>1, LeadsOn
<1>5. Leads(o, <<v, w, x, y>>, b, c) => Leads(o, <<u, v, w, x, y>>, a, c)
  <2>1. <<u, v, w, x, y>> = <<u>> \o <<v, w, x, y>>
    BY <1>1, Tuples
  <2>2. QED
    BY <2>1, LeadsOn
<1>6. Leads(o, <<v, w, x, y, z>>, b, c) => Leads(o, <<u, v, w, x, y, z>>, a, c)
  <2>1. <<u, v, w, x, y, z>> = <<u>> \o <<v, w, x, y, z>>
    BY <1>1, Tuples
  <2>2. QED
    BY <2>1, LeadsOn
<1>7. QED
  BY <1>2, <1>3, <1>4, <1>5, <1>6

(* The handle after the settings that most methods begin with.             *)
Targeted(h) == [h EXCEPT !["timeout"] = "own", !["header"] = "json", !["url"] = "own"]
Sunk(h, v)  == [h EXCEPT !["writefn"] = v, !["writedata"] = v]

(* What the options of a picture may hold.                                 *)
Marked == [Options -> Marks]

(* What the handle may hold when a request is to be built in it.           *)
Held(o, h) ==
    /\ h \in Marked
    /\ h["custom"] = "null" /\ h["readfn"] \in {"null", "own"}
    /\ h["timecond"] = IF o = "download" THEN "on" ELSE "null"

(* The settings that change the kind of request.                           *)
LEMMA LeadsMethod ==
  ASSUME NEW o, NEW h, NEW m, NEW s, NEW b
  PROVE  /\ Leads(o, <<Set("httpget", "on")>>, Pic(h, m, s, b),
                  Pic([h EXCEPT !["httpget"] = "on"], "GET", Append(s, "httpget"), b))
         /\ Leads(o, <<Set("post", "on")>>, Pic(h, m, s, b),
                  Pic([h EXCEPT !["post"] = "on"], "POST", Append(s, "post"), b))
         /\ Leads(o, <<Set("fields", "own")>>, Pic(h, m, s, b),
                  Pic([h EXCEPT !["fields"] = "own"], "POST", Append(s, "fields"), b))
         /\ Leads(o, <<Set("form", "own")>>, Pic(h, m, s, b),
                  Pic([h EXCEPT !["form"] = "own"], "FORM", Append(s, "form"), b))
         /\ Leads(o, <<Set("nobody", "on")>>, Pic(h, m, s, b),
                  Pic([h EXCEPT !["nobody"] = "on"], "HEAD", Append(s, "nobody"), b))
<1>1. \A p \in {"httpget", "post", "fields", "form", "nobody"} : p \in Options \ (Lasting \cup {"header"})
  BY DEF Options, Lasting
<1>2. "on" \in Operands /\ "own" \in Operands
  BY DEF Operands
<1>3. /\ MethodAfter(m, "httpget", <<"on", 0>>) = "GET"
      /\ MethodAfter(m, "post", <<"on", 0>>) = "POST"
      /\ MethodAfter(m, "fields", <<"own", 0>>) = "POST"
      /\ MethodAfter(m, "form", <<"own", 0>>) = "FORM"
      /\ MethodAfter(m, "nobody", <<"on", 0>>) = "HEAD"
  BY DEF MethodAfter, Null
<1>4. \A p \in {"httpget", "post", "fields", "form", "nobody"}, v \in Operands :
        Leads(o, <<Set(p, v)>>, Pic(h, m, s, b),
              Pic([h EXCEPT ![p] = v], MethodAfter(m, p, <<v, 0>>), Append(s, p), b))
  BY <1>1, LeadsSet
<1>5. QED
  BY <1>2, <1>3, <1>4

(* The savers at the end of a block.                                       *)
LEMMA NoRestores == \A o, a : Leads(o, Restores(0), a, a)
<1>1. Restores(0) \in Seq(AnyInstr) /\ Len(Restores(0)) = 0
  BY DEF Restores
<1>2. QED
  BY <1>1 DEF Leads, Path

LEMMA RestoresMore ==
  ASSUME NEW n \in Nat, NEW k \in Nat, k = n + 1
  PROVE  Restores(k) = <<Restore>> \o Restores(n)
<1>1. /\ Restores(k) \in Seq({Restore}) /\ Len(Restores(k)) = k
      /\ \A i \in 1 .. k : Restores(k)[i] = Restore
  BY DEF Restores
<1>2. /\ Restores(n) \in Seq({Restore}) /\ Len(Restores(n)) = n
      /\ \A i \in 1 .. n : Restores(n)[i] = Restore
  BY DEF Restores
<1> DEFINE r == <<Restore>> \o Restores(n)
<1>3. r \in Seq({Restore}) /\ Len(r) = k /\ \A i \in 1 .. k : r[i] = Restore
  BY <1>2
<1>4. \A p, q \in Seq({Restore}) : Len(p) = Len(q) /\ (\A i \in 1 .. Len(p) : p[i] = q[i]) => p = q
  OBVIOUS
<1> HIDE DEF r
<1>5. QED
  BY <1>1, <1>3, <1>4 DEF r

(* The kind of request after a saver of one of these options.              *)
LEMMA Savers ==
  /\ "custom" \in Options /\ "header" \in Options /\ "url" \in Options /\ "writefn" \in Options
  /\ "writedata" \in Options /\ "timeout" \in Options /\ "readfn" \in Options /\ "form" \in Options
  /\ \A m : /\ MethodAfter(m, "custom", Null) = m /\ MethodAfter(m, "header", Null) = m
            /\ MethodAfter(m, "url", Null) = m /\ MethodAfter(m, "writefn", Null) = m
            /\ MethodAfter(m, "writedata", Null) = m /\ MethodAfter(m, "timeout", Null) = m
            /\ MethodAfter(m, "readfn", Null) = m
  /\ MethodAfter("FORM", "form", Null) = "FORM"
  BY DEF Options, MethodAfter

(* A block is left: its savers run in the reverse order.                   *)
Without(h, p) == [h EXCEPT ![p] = "null"]

LEMMA RestoresCons ==
  ASSUME NEW o, NEW h, NEW m, NEW s \in Seq(Options), NEW p \in Options, NEW b, NEW c,
         NEW n \in Nat, NEW k \in Nat, k = n + 1,
         Leads(o, Restores(n), Pic(Without(h, p), m, s, b), c), MethodAfter(m, p, Null) = m
  PROVE  Leads(o, Restores(k), Pic(h, m, Append(s, p), b), c)
<1>1. Leads(o, <<Restore>>, Pic(h, m, Append(s, p), b), Pic(Without(h, p), m, s, b))
  BY LeadsRestore DEF Without
<1>2. Restores(k) = <<Restore>> \o Restores(n)
  BY RestoresMore
<1>3. QED
  BY <1>1, <1>2, LeadsOn

(* The parts that programs have in common.                                 *)
LEMMA TargetLeads ==
  ASSUME NEW o, NEW h, NEW m, NEW s, NEW b
  PROVE  Leads(o, Target, Pic(h, m, s, b),
               Pic(Targeted(h), m, Append(Append(Append(s, "timeout"), "header"), "url"), b))
<1> DEFINE h1 == [h EXCEPT !["timeout"] = "own"]
           h2 == [h1 EXCEPT !["header"] = "json"]
           h3 == [h2 EXCEPT !["url"] = "own"]
           s1 == Append(s, "timeout")
           s2 == Append(s1, "header")
           s3 == Append(s2, "url")
<1>0. h3 = Targeted(h)
  BY DEF Targeted
<1> HIDE DEF h1, h2, h3, s1, s2, s3
<1>1. Leads(o, <<Set("timeout", "own")>>, Pic(h, m, s, b), Pic(h1, m, s1, b))
  BY LeadsPlain DEF h1, s1, Plain, Options, Lasting, Operands
<1>2. Leads(o, <<Set("header", "json")>>, Pic(h1, m, s1, b), Pic(h2, m, s2, b))
  BY LeadsHeader DEF h2, s2, Kinds
<1>3. Leads(o, <<Set("url", "own")>>, Pic(h2, m, s2, b), Pic(h3, m, s3, b))
  BY LeadsPlain DEF h3, s3, Plain, Options, Lasting, Operands
<1>4. QED
  BY <1>0, <1>1, <1>2, <1>3, LeadsCons DEF Target, s1, s2, s3

LEMMA SinkLeads ==
  ASSUME NEW o, NEW h, NEW m, NEW s, NEW b
  PROVE  /\ Leads(o, Sink, Pic(h, m, s, b),
                  Pic(Sunk(h, "buffer"), m, Append(Append(s, "writefn"), "writedata"), b))
         /\ Leads(o, OwnSink, Pic(h, m, s, b),
                  Pic(Sunk(h, "own"), m, Append(Append(s, "writefn"), "writedata"), b))
<1>1. ASSUME NEW v \in {"buffer", "own"}
      PROVE  Leads(o, <<Set("writefn", v), Set("writedata", v)>>, Pic(h, m, s, b),
                   Pic(Sunk(h, v), m, Append(Append(s, "writefn"), "writedata"), b))
  <2> DEFINE h1 == [h EXCEPT !["writefn"] = v]
             h2 == [h1 EXCEPT !["writedata"] = v]
             s1 == Append(s, "writefn")
             s2 == Append(s1, "writedata")
  <2>0. h2 = Sunk(h, v)
    BY DEF Sunk
  <2>1. "writefn" \in Plain /\ "writedata" \in Plain /\ v \in Operands
    BY DEF Plain, Options, Lasting, Operands
  <2> HIDE DEF h1, h2, s1, s2
  <2>2. Leads(o, <<Set("writefn", v)>>, Pic(h, m, s, b), Pic(h1, m, s1, b))
    BY <2>1, LeadsPlain DEF h1, s1
  <2>3. Leads(o, <<Set("writedata", v)>>, Pic(h1, m, s1, b), Pic(h2, m, s2, b))
    BY <2>1, LeadsPlain DEF h2, s2
  <2>4. QED
    BY <2>0, <2>2, <2>3, LeadsCons DEF s1, s2
<1>2. QED
  BY <1>1 DEF Sink, OwnSink

(* The programs, from any handle in which no other request was left.       *)
LEMMA GetLeads ==
  ASSUME NEW o, NEW h, NEW m, NEW s, NEW b, Held(o, h)
  PROVE  \E c : Leads(o, CallGet, Pic(h, m, s, b), c)
<1> DEFINE h1 == Targeted(h)
           s1 == Append(s, "timeout")
           s2 == Append(s1, "header")
           s3 == Append(s2, "url")
           h2 == Sunk(h1, "buffer")
           s4 == Append(s3, "writefn")
           s5 == Append(s4, "writedata")
           h3 == [h2 EXCEPT !["httpget"] = "on"]
           s6 == Append(s5, "httpget")
<1> HIDE DEF h1, s1, s2, s3, h2, s4, s5, h3, s6
<1>1. Leads(o, Target, Pic(h, m, s, b), Pic(h1, m, s3, b))
  BY TargetLeads DEF h1, s1, s2, s3
<1>2. Leads(o, <<Clear>>, Pic(h1, m, s3, b), Pic(h1, m, s3, "empty"))
  BY LeadsOther
<1>3. Leads(o, Sink, Pic(h1, m, s3, "empty"), Pic(h2, m, s5, "empty"))
  BY SinkLeads DEF h2, s4, s5
<1>4. Leads(o, <<Set("httpget", "on")>>, Pic(h2, m, s5, "empty"), Pic(h3, "GET", s6, "empty"))
  BY LeadsMethod DEF h3, s6
<1>5. FitsSend(o, Send("GET", "null", "json", "buffer"), Pic(h3, "GET", s6, "empty"))
  BY DEF FitsSend, Send, Pic, Marked, Options, Held, h1, h2, h3, Targeted, Sunk
<1>6. Leads(o, <<Send("GET", "null", "json", "buffer")>>,
            Pic(h3, "GET", s6, "empty"), Pic(h3, "GET", s6, "own"))
  BY <1>5, Words, LeadsSend
<1>7. Leads(o, <<Parse>>, Pic(h3, "GET", s6, "own"), Pic(h3, "GET", s6, "own"))
  BY LeadsOther
<1>8. Leads(o, <<Send("GET", "null", "json", "buffer"), Parse>>,
            Pic(h3, "GET", s6, "empty"), Pic(h3, "GET", s6, "own"))
  BY <1>6, <1>7, LeadsCons
<1>9. Leads(o, <<Set("httpget", "on"), Send("GET", "null", "json", "buffer"), Parse>>,
            Pic(h2, m, s5, "empty"), Pic(h3, "GET", s6, "own"))
  BY <1>4, <1>8, LeadsCons
<1>10. QED
  BY <1>1, <1>2, <1>3, <1>9, LeadsOn DEF CallGet

LEMMA GetIntoLeads ==
  ASSUME NEW o, NEW h, NEW m, NEW s, NEW b, Held(o, h)
  PROVE  \E c : Leads(o, CallGetInto, Pic(h, m, s, b), c)
<1> DEFINE h1 == Targeted(h)
           s1 == Append(s, "timeout")
           s2 == Append(s1, "header")
           s3 == Append(s2, "url")
           h2 == Sunk(h1, "own")
           s4 == Append(s3, "writefn")
           s5 == Append(s4, "writedata")
           h3 == [h2 EXCEPT !["httpget"] = "on"]
           s6 == Append(s5, "httpget")
<1> HIDE DEF h1, s1, s2, s3, h2, s4, s5, h3, s6
<1>1. Leads(o, Target, Pic(h, m, s, b), Pic(h1, m, s3, b))
  BY TargetLeads DEF h1, s1, s2, s3
<1>2. Leads(o, OwnSink, Pic(h1, m, s3, b), Pic(h2, m, s5, b))
  BY SinkLeads DEF h2, s4, s5
<1>3. Leads(o, <<Set("httpget", "on")>>, Pic(h2, m, s5, b), Pic(h3, "GET", s6, b))
  BY LeadsMethod DEF h3, s6
<1>4. FitsSend(o, Send("GET", "null", "json", "own"), Pic(h3, "GET", s6, b))
  BY DEF FitsSend, Send, Pic, Marked, Options, Held, h1, h2, h3, Targeted, Sunk
<1>5. PICK c5 : Leads(o, <<Send("GET", "null", "json", "own")>>,
                      Pic(h3, "GET", s6, b), Pic(h3, "GET", s6, c5))
  BY <1>4, Words, SendLeads
<1>6. Leads(o, <<Check>>, Pic(h3, "GET", s6, c5), Pic(h3, "GET", s6, c5))
  BY LeadsOther
<1>7. Leads(o, <<Send("GET", "null", "json", "own"), Check>>,
            Pic(h3, "GET", s6, b), Pic(h3, "GET", s6, c5))
  BY <1>5, <1>6, LeadsCons
<1>8. Leads(o, <<Set("httpget", "on"), Send("GET", "null", "json", "own"), Check>>,
            Pic(h2, m, s5, b), Pic(h3, "GET", s6, c5))
  BY <1>3, <1>7, LeadsCons
<1>9. QED
  BY <1>1, <1>2, <1>8, LeadsOn DEF CallGetInto

LEMMA PostLeads ==
  ASSUME NEW o, NEW h, NEW m, NEW s, NEW b, Held(o, h)
  PROVE  \E c : Leads(o, CallPost, Pic(h, m, s, b), c)
<1> DEFINE h1 == Targeted(h)
           s1 == Append(s, "timeout")
           s2 == Append(s1, "header")
           s3 == Append(s2, "url")
           h2 == Sunk(h1, "buffer")
           s4 == Append(s3, "writefn")
           s5 == Append(s4, "writedata")
           h3 == [h2 EXCEPT !["post"] = "on"]
           s6 == Append(s5, "post")
           h4 == [h3 EXCEPT !["size"] = "own"]
           s7 == Append(s6, "size")
           h5 == [h4 EXCEPT !["fields"] = "own"]
           s8 == Append(s7, "fields")
<1> HIDE DEF h1, s1, s2, s3, h2, s4, s5, h3, s6, h4, s7, h5, s8
<1>1. Leads(o, Target, Pic(h, m, s, b), Pic(h1, m, s3, b))
  BY TargetLeads DEF h1, s1, s2, s3
<1>2. Leads(o, <<Clear>>, Pic(h1, m, s3, b), Pic(h1, m, s3, "empty"))
  BY LeadsOther
<1>3. Leads(o, Sink, Pic(h1, m, s3, "empty"), Pic(h2, m, s5, "empty"))
  BY SinkLeads DEF h2, s4, s5
<1>4. Leads(o, <<Set("post", "on")>>, Pic(h2, m, s5, "empty"), Pic(h3, "POST", s6, "empty"))
  BY LeadsMethod DEF h3, s6
<1>5. Leads(o, <<Set("size", "own")>>, Pic(h3, "POST", s6, "empty"), Pic(h4, "POST", s7, "empty"))
  BY LeadsPlain DEF h4, s7, Plain, Options, Lasting, Operands
<1>6. Leads(o, <<Set("fields", "own")>>, Pic(h4, "POST", s7, "empty"), Pic(h5, "POST", s8, "empty"))
  BY LeadsMethod DEF h5, s8
<1>7. FitsSend(o, Send("POST", "own", "json", "buffer"), Pic(h5, "POST", s8, "empty"))
  BY DEF FitsSend, Send, Pic, Marked, Options, Held, h1, h2, h3, h4, h5, Targeted, Sunk
<1>8. Leads(o, <<Send("POST", "own", "json", "buffer")>>,
            Pic(h5, "POST", s8, "empty"), Pic(h5, "POST", s8, "own"))
  BY <1>7, Words, LeadsSend
<1>9. Leads(o, <<Parse>>, Pic(h5, "POST", s8, "own"), Pic(h5, "POST", s8, "own"))
  BY LeadsOther
<1>10. Leads(o, <<Send("POST", "own", "json", "buffer"), Parse>>,
            Pic(h5, "POST", s8, "empty"), Pic(h5, "POST", s8, "own"))
  BY <1>8, <1>9, LeadsCons
<1>11. Leads(o, <<Set("fields", "own"), Send("POST", "own", "json", "buffer"), Parse>>,
            Pic(h4, "POST", s7, "empty"), Pic(h5, "POST", s8, "own"))
  BY <1>6, <1>10, LeadsCons
<1>12. Leads(o, <<Set("size", "own"), Set("fields", "own"), Send("POST", "own", "json", "buffer"),
      Parse>>,
            Pic(h3, "POST", s6, "empty"), Pic(h5, "POST", s8, "own"))
  BY <1>5, <1>11, LeadsCons
<1>13. Leads(o, <<Set("post", "on"), Set("size", "own"), Set("fields", "own"), Send("POST", "own",
      "json", "buffer"), Parse>>,
            Pic(h2, m, s5, "empty"), Pic(h5, "POST", s8, "own"))
  BY <1>4, <1>12, LeadsCons
<1>14. QED
  BY <1>1, <1>2, <1>3, <1>13, LeadsOn DEF CallPost

LEMMA DeleteLeads ==
  ASSUME NEW o, NEW h, NEW m, NEW s, NEW b, Held(o, h), h["form"] = "null", h["size"] = "null"
  PROVE  \E c : Leads(o, CallDelete, Pic(h, m, s, b), c)
<1> DEFINE h1 == Targeted(h)
           s1 == Append(s, "timeout")
           s2 == Append(s1, "header")
           s3 == Append(s2, "url")
           h2 == [h1 EXCEPT !["custom"] = "DELETE"]
           s4 == Append(s3, "custom")
           h3 == Sunk(h2, "buffer")
           s5 == Append(s4, "writefn")
           s6 == Append(s5, "writedata")
<1> HIDE DEF h1, s1, s2, s3, h2, s4, h3, s5, s6
<1>1. Leads(o, Target, Pic(h, m, s, b), Pic(h1, m, s3, b))
  BY TargetLeads DEF h1, s1, s2, s3
<1>2. Leads(o, <<Set("custom", "DELETE")>>, Pic(h1, m, s3, b), Pic(h2, m, s4, b))
  BY LeadsPlain DEF h2, s4, Plain, Options, Lasting, Operands
<1>3. Leads(o, <<Clear>>, Pic(h2, m, s4, b), Pic(h2, m, s4, "empty"))
  BY LeadsOther
<1>4. Leads(o, <<Set("custom", "DELETE"), Clear>>,
            Pic(h1, m, s3, b), Pic(h2, m, s4, "empty"))
  BY <1>2, <1>3, LeadsCons
<1>5. Leads(o, Sink, Pic(h2, m, s4, "empty"), Pic(h3, m, s6, "empty"))
  BY SinkLeads DEF h3, s5, s6
<1>6. FitsSend(o, Send("DELETE", "null", "json", "buffer"), Pic(h3, m, s6, "empty"))
  BY DEF FitsSend, Send, Pic, Marked, Options, Held, h1, h2, h3, Targeted, Sunk
<1>7. Leads(o, <<Send("DELETE", "null", "json", "buffer")>>,
            Pic(h3, m, s6, "empty"), Pic(h3, m, s6, "own"))
  BY <1>6, Words, LeadsSend
<1>8. Leads(o, <<Parse>>, Pic(h3, m, s6, "own"), Pic(h3, m, s6, "own"))
  BY LeadsOther
<1>9. Leads(o, <<Send("DELETE", "null", "json", "buffer"), Parse>>,
            Pic(h3, m, s6, "empty"), Pic(h3, m, s6, "own"))
  BY <1>7, <1>8, LeadsCons
<1>10. QED
  BY <1>1, <1>4, <1>5, <1>9, LeadsOn DEF CallDelete

LEMMA RestartLeads ==
  ASSUME NEW o, NEW h, NEW m, NEW s, NEW b, Held(o, h), h["form"] = "null", h["size"] = "null"
  PROVE  \E c : Leads(o, RestartServer, Pic(h, m, s, b), c)
<1> DEFINE h1 == Targeted(h)
           s1 == Append(s, "timeout")
           s2 == Append(s1, "header")
           s3 == Append(s2, "url")
           h2 == [h1 EXCEPT !["post"] = "on"]
           s4 == Append(s3, "post")
           h3 == Sunk(h2, "buffer")
           s5 == Append(s4, "writefn")
           s6 == Append(s5, "writedata")
<1> HIDE DEF h1, s1, s2, s3, h2, s4, h3, s5, s6
<1>1. Leads(o, Target, Pic(h, m, s, b), Pic(h1, m, s3, b))
  BY TargetLeads DEF h1, s1, s2, s3
<1>2. Leads(o, <<Set("post", "on")>>, Pic(h1, m, s3, b), Pic(h2, "POST", s4, b))
  BY LeadsMethod DEF h2, s4
<1>3. Leads(o, <<Clear>>, Pic(h2, "POST", s4, b), Pic(h2, "POST", s4, "empty"))
  BY LeadsOther
<1>4. Leads(o, <<Set("post", "on"), Clear>>,
            Pic(h1, m, s3, b), Pic(h2, "POST", s4, "empty"))
  BY <1>2, <1>3, LeadsCons
<1>5. Leads(o, Sink, Pic(h2, "POST", s4, "empty"), Pic(h3, "POST", s6, "empty"))
  BY SinkLeads DEF h3, s5, s6
<1>6. FitsSend(o, Send("POST", "null", "json", "buffer"), Pic(h3, "POST", s6, "empty"))
  BY DEF FitsSend, Send, Pic, Marked, Options, Held, h1, h2, h3, Targeted, Sunk
<1>7. Leads(o, <<Send("POST", "null", "json", "buffer")>>,
            Pic(h3, "POST", s6, "empty"), Pic(h3, "POST", s6, "own"))
  BY <1>6, Words, LeadsSend
<1>8. Leads(o, <<Check>>, Pic(h3, "POST", s6, "own"), Pic(h3, "POST", s6, "own"))
  BY LeadsOther
<1>9. Leads(o, <<Send("POST", "null", "json", "buffer"), Check>>,
            Pic(h3, "POST", s6, "empty"), Pic(h3, "POST", s6, "own"))
  BY <1>7, <1>8, LeadsCons
<1>10. QED
  BY <1>1, <1>4, <1>5, <1>9, LeadsOn DEF RestartServer

LEMMA PutLeads ==
  ASSUME NEW o, NEW h, NEW m, NEW s, NEW b, Held(o, h), o \in Hasty, NEW kind \in Kinds, kind = EarlyKind(o)
  PROVE  \E c : Leads(o, CallPut(kind), Pic(h, m, s, b), c)
<1> DEFINE h1 == [h EXCEPT !["header"] = "early"]
           s1 == Append(s, "header")
           h2 == [h1 EXCEPT !["timeout"] = "own"]
           s2 == Append(s1, "timeout")
           h3 == [h2 EXCEPT !["url"] = "own"]
           s3 == Append(s2, "url")
           h4 == Sunk(h3, "buffer")
           s4 == Append(s3, "writefn")
           s5 == Append(s4, "writedata")
           h5 == [h4 EXCEPT !["custom"] = "PUT"]
           s6 == Append(s5, "custom")
           h6 == [h5 EXCEPT !["size"] = "own"]
           s7 == Append(s6, "size")
           h7 == [h6 EXCEPT !["fields"] = "own"]
           s8 == Append(s7, "fields")
<1> HIDE DEF h1, s1, h2, s2, h3, s3, h4, s4, s5, h5, s6, h6, s7, h7, s8
<1>1. Leads(o, <<Set("header", "early")>>, Pic(h, m, s, b), Pic(h1, m, s1, b))
  BY LeadsHeader DEF h1, s1, Kinds
<1>2. Leads(o, <<Set("timeout", "own")>>, Pic(h1, m, s1, b), Pic(h2, m, s2, b))
  BY LeadsPlain DEF h2, s2, Plain, Options, Lasting, Operands
<1>3. Leads(o, <<Set("url", "own")>>, Pic(h2, m, s2, b), Pic(h3, m, s3, b))
  BY LeadsPlain DEF h3, s3, Plain, Options, Lasting, Operands
<1>4. Leads(o, <<Clear>>, Pic(h3, m, s3, b), Pic(h3, m, s3, "empty"))
  BY LeadsOther
<1>5. Leads(o, <<Set("url", "own"), Clear>>,
            Pic(h2, m, s2, b), Pic(h3, m, s3, "empty"))
  BY <1>3, <1>4, LeadsCons
<1>6. Leads(o, <<Set("timeout", "own"), Set("url", "own"), Clear>>,
            Pic(h1, m, s1, b), Pic(h3, m, s3, "empty"))
  BY <1>2, <1>5, LeadsCons
<1>7. Leads(o, <<Set("header", "early"), Set("timeout", "own"), Set("url", "own"), Clear>>,
            Pic(h, m, s, b), Pic(h3, m, s3, "empty"))
  BY <1>1, <1>6, LeadsCons
<1>8. Leads(o, Sink, Pic(h3, m, s3, "empty"), Pic(h4, m, s5, "empty"))
  BY SinkLeads DEF h4, s4, s5
<1>9. Leads(o, <<Set("custom", "PUT")>>, Pic(h4, m, s5, "empty"), Pic(h5, m, s6, "empty"))
  BY LeadsPlain DEF h5, s6, Plain, Options, Lasting, Operands
<1>10. Leads(o, <<Set("size", "own")>>, Pic(h5, m, s6, "empty"), Pic(h6, m, s7, "empty"))
  BY LeadsPlain DEF h6, s7, Plain, Options, Lasting, Operands
<1>11. Leads(o, <<Set("fields", "own")>>, Pic(h6, m, s7, "empty"), Pic(h7, "POST", s8, "empty"))
  BY LeadsMethod DEF h7, s8
<1>12. FitsSend(o, Send("PUT", "own", kind, "buffer"), Pic(h7, "POST", s8, "empty"))
  BY DEF FitsSend, Send, Pic, Marked, Options, Held, h1, h2, h3, h4, h5, h6, h7, Sunk
<1>13. Leads(o, <<Send("PUT", "own", kind, "buffer")>>,
             Pic(h7, "POST", s8, "empty"), Pic(h7, "POST", s8, "own"))
  BY <1>12, Words, LeadsSend
<1>14. Leads(o, <<Parse>>, Pic(h7, "POST", s8, "own"), Pic(h7, "POST", s8, "own"))
  BY LeadsOther
<1>15. Leads(o, <<Send("PUT", "own", kind, "buffer"), Parse>>,
            Pic(h7, "POST", s8, "empty"), Pic(h7, "POST", s8, "own"))
  BY <1>13, <1>14, LeadsCons
<1>16. Leads(o, <<Set("fields", "own"), Send("PUT", "own", kind, "buffer"), Parse>>,
            Pic(h6, m, s7, "empty"), Pic(h7, "POST", s8, "own"))
  BY <1>11, <1>15, LeadsCons
<1>17. Leads(o, <<Set("size", "own"), Set("fields", "own"), Send("PUT", "own", kind, "buffer"),
      Parse>>,
            Pic(h5, m, s6, "empty"), Pic(h7, "POST", s8, "own"))
  BY <1>10, <1>16, LeadsCons
<1>18. Leads(o, <<Set("custom", "PUT"), Set("size", "own"), Set("fields", "own"), Send("PUT",
      "own", kind, "buffer"), Parse>>,
            Pic(h4, m, s5, "empty"), Pic(h7, "POST", s8, "own"))
  BY <1>9, <1>17, LeadsCons
<1>19. QED
  BY <1>7, <1>8, <1>18, LeadsOn DEF CallPut

LEMMA ModifiedTimeLeads ==
  ASSUME NEW o, NEW h, NEW m, NEW s, NEW b, Held(o, h), h["timeout"] = "null", h["writefn"] = "null"
  PROVE  \E c : Leads(o, GetModifiedTime, Pic(h, m, s, b), c)
<1> DEFINE h1 == [h EXCEPT !["header"] = "json"]
           s1 == Append(s, "header")
           h2 == [h1 EXCEPT !["url"] = "own"]
           s2 == Append(s1, "url")
           h3 == [h2 EXCEPT !["filetime"] = "on"]
           s3 == Append(s2, "filetime")
           h4 == [h3 EXCEPT !["nobody"] = "on"]
           s4 == Append(s3, "nobody")
<1> HIDE DEF h1, s1, h2, s2, h3, s3, h4, s4
<1>1. Leads(o, <<Set("header", "json")>>, Pic(h, m, s, b), Pic(h1, m, s1, b))
  BY LeadsHeader DEF h1, s1, Kinds
<1>2. Leads(o, <<Set("url", "own")>>, Pic(h1, m, s1, b), Pic(h2, m, s2, b))
  BY LeadsPlain DEF h2, s2, Plain, Options, Lasting, Operands
<1>3. Leads(o, <<Set("filetime", "on")>>, Pic(h2, m, s2, b), Pic(h3, m, s3, b))
  BY LeadsPlain DEF h3, s3, Plain, Options, Lasting, Operands
<1>4. Leads(o, <<Set("nobody", "on")>>, Pic(h3, m, s3, b), Pic(h4, "HEAD", s4, b))
  BY LeadsMethod DEF h4, s4
<1>5. FitsSend(o, Send("HEAD", "null", "json", "any"), Pic(h4, "HEAD", s4, b))
  BY DEF FitsSend, Send, Pic, Marked, Options, Held, h1, h2, h3, h4
<1>6. PICK c6 : Leads(o, <<Send("HEAD", "null", "json", "any")>>,
                      Pic(h4, "HEAD", s4, b), Pic(h4, "HEAD", s4, c6))
  BY <1>5, Words, SendLeads
<1>7. Leads(o, <<Check>>, Pic(h4, "HEAD", s4, c6), Pic(h4, "HEAD", s4, c6))
  BY LeadsOther
<1>8. Leads(o, <<Send("HEAD", "null", "json", "any"), Check>>,
            Pic(h4, "HEAD", s4, b), Pic(h4, "HEAD", s4, c6))
  BY <1>6, <1>7, LeadsCons
<1>9. Leads(o, <<Set("nobody", "on"), Send("HEAD", "null", "json", "any"), Check>>,
            Pic(h3, m, s3, b), Pic(h4, "HEAD", s4, c6))
  BY <1>4, <1>8, LeadsCons
<1>10. Leads(o, <<Set("filetime", "on"), Set("nobody", "on"), Send("HEAD", "null", "json", "any"),
      Check>>,
            Pic(h2, m, s2, b), Pic(h4, "HEAD", s4, c6))
  BY <1>3, <1>9, LeadsCons
<1>11. Leads(o, <<Set("url", "own"), Set("filetime", "on"), Set("nobody", "on"), Send("HEAD",
      "null", "json", "any"), Check>>,
            Pic(h1, m, s1, b), Pic(h4, "HEAD", s4, c6))
  BY <1>2, <1>10, LeadsCons
<1>12. Leads(o, <<Set("header", "json"), Set("url", "own"), Set("filetime", "on"), Set("nobody",
      "on"), Send("HEAD", "null", "json", "any"), Check>>,
            Pic(h, m, s, b), Pic(h4, "HEAD", s4, c6))
  BY <1>1, <1>11, LeadsCons
<1>13. QED
  BY <1>12, LeadsOn DEF GetModifiedTime

LEMMA DeleteDirectoryLeads ==
  ASSUME NEW o, NEW h, NEW m, NEW s, NEW b, Held(o, h), h["timeout"] = "null", h["writefn"] = "null",
         h["form"] = "null", h["size"] = "null"
  PROVE  \E c : Leads(o, DeleteDirectory, Pic(h, m, s, b), c)
<1> DEFINE h1 == [h EXCEPT !["custom"] = "DELETE"]
           s1 == Append(s, "custom")
           h2 == [h1 EXCEPT !["header"] = "json"]
           s2 == Append(s1, "header")
           h3 == [h2 EXCEPT !["url"] = "own"]
           s3 == Append(s2, "url")
<1> HIDE DEF h1, s1, h2, s2, h3, s3
<1>1. Leads(o, <<Set("custom", "DELETE")>>, Pic(h, m, s, b), Pic(h1, m, s1, b))
  BY LeadsPlain DEF h1, s1, Plain, Options, Lasting, Operands
<1>2. Leads(o, <<Set("header", "json")>>, Pic(h1, m, s1, b), Pic(h2, m, s2, b))
  BY LeadsHeader DEF h2, s2, Kinds
<1>3. Leads(o, <<Set("url", "own")>>, Pic(h2, m, s2, b), Pic(h3, m, s3, b))
  BY LeadsPlain DEF h3, s3, Plain, Options, Lasting, Operands
<1>4. FitsSend(o, Send("DELETE", "null", "json", "any"), Pic(h3, m, s3, b))
  BY DEF FitsSend, Send, Pic, Marked, Options, Held, h1, h2, h3
<1>5. PICK c5 : Leads(o, <<Send("DELETE", "null", "json", "any")>>,
                      Pic(h3, m, s3, b), Pic(h3, m, s3, c5))
  BY <1>4, Words, SendLeads
<1>6. Leads(o, <<Set("url", "own"), Send("DELETE", "null", "json", "any")>>,
            Pic(h2, m, s2, b), Pic(h3, m, s3, c5))
  BY <1>3, <1>5, LeadsCons
<1>7. Leads(o, <<Set("header", "json"), Set("url", "own"), Send("DELETE", "null", "json", "any")>>,
            Pic(h1, m, s1, b), Pic(h3, m, s3, c5))
  BY <1>2, <1>6, LeadsCons
<1>8. Leads(o, <<Set("custom", "DELETE"), Set("header", "json"), Set("url", "own"), Send("DELETE",
      "null", "json", "any")>>,
            Pic(h, m, s, b), Pic(h3, m, s3, c5))
  BY <1>1, <1>7, LeadsCons
<1>9. QED
  BY <1>8, LeadsOn DEF DeleteDirectory

(* The handle after MKCOL, whose settings but those of the response are in *)
(* a block, after one round of the loop, and after the upload of a file.   *)
Made(h)  == [Sunk(h, "buffer") EXCEPT !["custom"] = "null", !["header"] = "null", !["url"] = "null"]
Again(h) == [h EXCEPT !["header"] = "null", !["url"] = "null"]
Idle(h)  == [Sunk(h, "null") EXCEPT !["readfn"] = "null", !["timeout"] = "null", !["url"] = "null",
                                    !["form"] = "null", !["header"] = "null"]

LEMMA MakeDirectoryLeads ==
  ASSUME NEW o, NEW h, NEW m, NEW s \in Seq(Options), NEW b, Held(o, h), h["form"] = "null", h["size"] = "null",
         h["timeout"] \in {"null", "own"}, o # "download"
  PROVE  \E c : Leads(o, MakeDirectory, Pic(h, m, s, b),
                   Pic(Made(h), m, Append(Append(s, "writefn"), "writedata"), c))
<1> DEFINE h1 == Sunk(h, "buffer")
           s1 == Append(s, "writefn")
           s2 == Append(s1, "writedata")
           h2 == [h1 EXCEPT !["custom"] = "MKCOL"]
           s3 == Append(s2, "custom")
           h3 == [h2 EXCEPT !["header"] = "json"]
           s4 == Append(s3, "header")
           h4 == [h3 EXCEPT !["url"] = "own"]
           s5 == Append(s4, "url")
           h5 == Without(h4, "url")
           h6 == Without(h5, "header")
           h7 == Without(h6, "custom")
<1> HIDE DEF h1, s1, s2, h2, s3, h3, s4, h4, s5, h5, h6, h7
<1>1. Leads(o, Sink, Pic(h, m, s, b), Pic(h1, m, s2, b))
  BY SinkLeads DEF h1, s1, s2
<1>2. Leads(o, <<Set("custom", "MKCOL")>>, Pic(h1, m, s2, b), Pic(h2, m, s3, b))
  BY LeadsPlain DEF h2, s3, Plain, Options, Lasting, Operands
<1>3. Leads(o, <<Set("header", "json")>>, Pic(h2, m, s3, b), Pic(h3, m, s4, b))
  BY LeadsHeader DEF h3, s4, Kinds
<1>4. Leads(o, <<Set("url", "own")>>, Pic(h3, m, s4, b), Pic(h4, m, s5, b))
  BY LeadsPlain DEF h4, s5, Plain, Options, Lasting, Operands
<1>5. FitsSend(o, Send("MKCOL", "null", "json", "buffer"), Pic(h4, m, s5, b))
  BY DEF FitsSend, Send, Pic, Marked, Options, Held, h1, h2, h3, h4, Sunk
<1>6. PICK c6 : Leads(o, <<Send("MKCOL", "null", "json", "buffer")>>,
                      Pic(h4, m, s5, b), Pic(h4, m, s5, c6))
  BY <1>5, Words, SendLeads
<1>7. Leads(o, <<Check>>, Pic(h4, m, s5, c6), Pic(h4, m, s5, c6))
  BY LeadsOther
<1>8. Leads(o, <<Send("MKCOL", "null", "json", "buffer"), Check>>,
            Pic(h4, m, s5, b), Pic(h4, m, s5, c6))
  BY <1>6, <1>7, LeadsCons
<1>9. Leads(o, <<Set("url", "own"), Send("MKCOL", "null", "json", "buffer"), Check>>,
            Pic(h3, m, s4, b), Pic(h4, m, s5, c6))
  BY <1>4, <1>8, LeadsCons
<1>10. Leads(o, <<Set("header", "json"), Set("url", "own"), Send("MKCOL", "null", "json",
      "buffer"), Check>>,
            Pic(h2, m, s3, b), Pic(h4, m, s5, c6))
  BY <1>3, <1>9, LeadsCons
<1>11. Leads(o, <<Set("custom", "MKCOL"), Set("header", "json"), Set("url", "own"), Send("MKCOL",
      "null", "json", "buffer"), Check>>,
            Pic(h1, m, s2, b), Pic(h4, m, s5, c6))
  BY <1>2, <1>10, LeadsCons
<1>12. /\ s1 \in Seq(Options) /\ s2 \in Seq(Options) /\ s3 \in Seq(Options)
      /\ s4 \in Seq(Options) /\ s5 \in Seq(Options)
  BY DEF s1, s2, s3, s4, s5, Options
<1>13. Leads(o, Restores(0), Pic(h7, m, s2, c6), Pic(h7, m, s2, c6))
  BY NoRestores
<1>14. Leads(o, Restores(1), Pic(h6, m, s3, c6), Pic(h7, m, s2, c6))
  BY <1>12, <1>13, Savers, RestoresCons DEF h7, s3
<1>15. Leads(o, Restores(2), Pic(h5, m, s4, c6), Pic(h7, m, s2, c6))
  BY <1>12, <1>14, Savers, RestoresCons DEF h6, s4
<1>16. Leads(o, Restores(3), Pic(h4, m, s5, c6), Pic(h7, m, s2, c6))
  BY <1>12, <1>15, Savers, RestoresCons DEF h5, s5
<1>17. h7 = Made(h)
  BY DEF Without, Marked, Options, Held, Sunk, Made, h1, h2, h3, h4, h5, h6, h7
<1>18. QED
  BY <1>1, <1>11, <1>16, <1>17, LeadsOn DEF MakeDirectory, s1, s2

LEMMA MakeNextLeads ==
  ASSUME NEW o, NEW h, NEW m, NEW s \in Seq(Options), NEW b, h \in Marked, o # "download",
         h["custom"] = "MKCOL", h["timecond"] = "null", h["form"] = "null", h["size"] = "null",
         h["readfn"] \in {"null", "own"}, h["timeout"] \in {"null", "own"},
         h["writefn"] = "buffer", h["writedata"] = "buffer"
  PROVE  \E c : Leads(o, MakeNext, Pic(h, m, s, b), Pic(Again(h), m, s, c))
<1> DEFINE h1 == [h EXCEPT !["header"] = "json"]
           s1 == Append(s, "header")
           h2 == [h1 EXCEPT !["url"] = "own"]
           s2 == Append(s1, "url")
           h3 == Without(h2, "url")
           h4 == Without(h3, "header")
<1> HIDE DEF h1, s1, h2, s2, h3, h4
<1>1. Leads(o, <<Set("header", "json")>>, Pic(h, m, s, b), Pic(h1, m, s1, b))
  BY LeadsHeader DEF h1, s1, Kinds
<1>2. Leads(o, <<Set("url", "own")>>, Pic(h1, m, s1, b), Pic(h2, m, s2, b))
  BY LeadsPlain DEF h2, s2, Plain, Options, Lasting, Operands
<1>3. Leads(o, <<Clear>>, Pic(h2, m, s2, b), Pic(h2, m, s2, "empty"))
  BY LeadsOther
<1>4. FitsSend(o, Send("MKCOL", "null", "json", "buffer"), Pic(h2, m, s2, "empty"))
  BY DEF FitsSend, Send, Pic, Marked, Options, Held, h1, h2
<1>5. Leads(o, <<Send("MKCOL", "null", "json", "buffer")>>,
            Pic(h2, m, s2, "empty"), Pic(h2, m, s2, "own"))
  BY <1>4, Words, LeadsSend
<1>6. Leads(o, <<Check>>, Pic(h2, m, s2, "own"), Pic(h2, m, s2, "own"))
  BY LeadsOther
<1>7. Leads(o, <<Send("MKCOL", "null", "json", "buffer"), Check>>,
            Pic(h2, m, s2, "empty"), Pic(h2, m, s2, "own"))
  BY <1>5, <1>6, LeadsCons
<1>8. Leads(o, <<Clear, Send("MKCOL", "null", "json", "buffer"), Check>>,
            Pic(h2, m, s2, b), Pic(h2, m, s2, "own"))
  BY <1>3, <1>7, LeadsCons
<1>9. Leads(o, <<Set("url", "own"), Clear, Send("MKCOL", "null", "json", "buffer"), Check>>,
            Pic(h1, m, s1, b), Pic(h2, m, s2, "own"))
  BY <1>2, <1>8, LeadsCons
<1>10. Leads(o, <<Set("header", "json"), Set("url", "own"), Clear, Send("MKCOL", "null", "json",
      "buffer"), Check>>,
            Pic(h, m, s, b), Pic(h2, m, s2, "own"))
  BY <1>1, <1>9, LeadsCons
<1>11. /\ s1 \in Seq(Options) /\ s2 \in Seq(Options)
  BY DEF s1, s2, Options
<1>12. Leads(o, Restores(0), Pic(h4, m, s, "own"), Pic(h4, m, s, "own"))
  BY NoRestores
<1>13. Leads(o, Restores(1), Pic(h3, m, s1, "own"), Pic(h4, m, s, "own"))
  BY <1>11, <1>12, Savers, RestoresCons DEF h4, s1
<1>14. Leads(o, Restores(2), Pic(h2, m, s2, "own"), Pic(h4, m, s, "own"))
  BY <1>11, <1>13, Savers, RestoresCons DEF h3, s2
<1>15. h4 = Again(h)
  BY DEF Without, Marked, Options, Again, h1, h2, h3, h4
<1>16. QED
  BY <1>10, <1>14, <1>15, LeadsOn DEF MakeNext

LEMMA UploadFileLeads ==
  ASSUME NEW o, NEW h, NEW m, NEW s \in Seq(Options), NEW b, Held(o, h), o # "download"
  PROVE  \E c : /\ Leads(o, UploadFile, Pic(h, m, s, b), c)
               /\ Leads(o, Restores(7), c, Pic(Idle(h), "FORM", s, "own"))
<1> DEFINE h1 == [h EXCEPT !["readfn"] = "own"]
           s1 == Append(s, "readfn")
           h2 == [h1 EXCEPT !["timeout"] = "own"]
           s2 == Append(s1, "timeout")
           h3 == [h2 EXCEPT !["url"] = "own"]
           s3 == Append(s2, "url")
           h4 == Sunk(h3, "buffer")
           s4 == Append(s3, "writefn")
           s5 == Append(s4, "writedata")
           h5 == [h4 EXCEPT !["form"] = "own"]
           s6 == Append(s5, "form")
           h6 == [h5 EXCEPT !["header"] = "multipart"]
           s7 == Append(s6, "header")
           h7 == Without(h6, "header")
           h8 == Without(h7, "form")
           h9 == Without(h8, "writedata")
           h10 == Without(h9, "writefn")
           h11 == Without(h10, "url")
           h12 == Without(h11, "timeout")
           h13 == Without(h12, "readfn")
<1> HIDE DEF h1, s1, h2, s2, h3, s3, h4, s4, s5, h5, s6, h6, s7, h7, h8, h9, h10, h11, h12, h13
<1>1. Leads(o, <<Set("readfn", "own")>>, Pic(h, m, s, b), Pic(h1, m, s1, b))
  BY LeadsPlain DEF h1, s1, Plain, Options, Lasting, Operands
<1>2. Leads(o, <<Set("timeout", "own")>>, Pic(h1, m, s1, b), Pic(h2, m, s2, b))
  BY LeadsPlain DEF h2, s2, Plain, Options, Lasting, Operands
<1>3. Leads(o, <<Set("url", "own")>>, Pic(h2, m, s2, b), Pic(h3, m, s3, b))
  BY LeadsPlain DEF h3, s3, Plain, Options, Lasting, Operands
<1>4. Leads(o, <<Clear>>, Pic(h3, m, s3, b), Pic(h3, m, s3, "empty"))
  BY LeadsOther
<1>5. Leads(o, <<Set("url", "own"), Clear>>,
            Pic(h2, m, s2, b), Pic(h3, m, s3, "empty"))
  BY <1>3, <1>4, LeadsCons
<1>6. Leads(o, <<Set("timeout", "own"), Set("url", "own"), Clear>>,
            Pic(h1, m, s1, b), Pic(h3, m, s3, "empty"))
  BY <1>2, <1>5, LeadsCons
<1>7. Leads(o, Sink, Pic(h3, m, s3, "empty"), Pic(h4, m, s5, "empty"))
  BY SinkLeads DEF h4, s4, s5
<1>8. Leads(o, <<Set("form", "own")>>, Pic(h4, m, s5, "empty"), Pic(h5, "FORM", s6, "empty"))
  BY LeadsMethod DEF h5, s6
<1>9. Leads(o, <<Set("header", "multipart")>>,
            Pic(h5, "FORM", s6, "empty"), Pic(h6, "FORM", s7, "empty"))
  BY LeadsHeader DEF h6, s7, Kinds
<1>10. FitsSend(o, Send("POST", "own", "multipart", "buffer"), Pic(h6, "FORM", s7, "empty"))
  BY DEF FitsSend, Send, Pic, Marked, Options, Held, h1, h2, h3, h4, h5, h6, Sunk
<1>11. Leads(o, <<Send("POST", "own", "multipart", "buffer")>>,
             Pic(h6, "FORM", s7, "empty"), Pic(h6, "FORM", s7, "own"))
  BY <1>10, Words, LeadsSend
<1>12. Leads(o, <<Parse>>, Pic(h6, "FORM", s7, "own"), Pic(h6, "FORM", s7, "own"))
  BY LeadsOther
<1>13. Leads(o, <<Send("POST", "own", "multipart", "buffer"), Parse>>,
            Pic(h6, "FORM", s7, "empty"), Pic(h6, "FORM", s7, "own"))
  BY <1>11, <1>12, LeadsCons
<1>14. Leads(o, <<Set("header", "multipart"), Send("POST", "own", "multipart", "buffer"), Parse>>,
            Pic(h5, "FORM", s6, "empty"), Pic(h6, "FORM", s7, "own"))
  BY <1>9, <1>13, LeadsCons
<1>15. Leads(o, <<Set("form", "own"), Set("header", "multipart"), Send("POST", "own", "multipart",
      "buffer"), Parse>>,
            Pic(h4, m, s5, "empty"), Pic(h6, "FORM", s7, "own"))
  BY <1>8, <1>14, LeadsCons
<1>16. Leads(o, CallPostForm, Pic(h1, m, s1, b), Pic(h6, "FORM", s7, "own"))
  BY <1>6, <1>7, <1>15, LeadsOn DEF CallPostForm
<1>17. Leads(o, UploadFile, Pic(h, m, s, b), Pic(h6, "FORM", s7, "own"))
  BY <1>1, <1>16, LeadsOn DEF UploadFile
<1>18. /\ s1 \in Seq(Options) /\ s2 \in Seq(Options) /\ s3 \in Seq(Options)
      /\ s4 \in Seq(Options) /\ s5 \in Seq(Options) /\ s6 \in Seq(Options) /\ s7 \in Seq(Options)
  BY DEF s1, s2, s3, s4, s5, s6, s7, Options
<1>19. Leads(o, Restores(0), Pic(h13, "FORM", s, "own"), Pic(h13, "FORM", s, "own"))
  BY NoRestores
<1>20. Leads(o, Restores(1), Pic(h12, "FORM", s1, "own"), Pic(h13, "FORM", s, "own"))
  BY <1>18, <1>19, Savers, RestoresCons DEF h13, s1
<1>21. Leads(o, Restores(2), Pic(h11, "FORM", s2, "own"), Pic(h13, "FORM", s, "own"))
  BY <1>18, <1>20, Savers, RestoresCons DEF h12, s2
<1>22. Leads(o, Restores(3), Pic(h10, "FORM", s3, "own"), Pic(h13, "FORM", s, "own"))
  BY <1>18, <1>21, Savers, RestoresCons DEF h11, s3
<1>23. Leads(o, Restores(4), Pic(h9, "FORM", s4, "own"), Pic(h13, "FORM", s, "own"))
  BY <1>18, <1>22, Savers, RestoresCons DEF h10, s4
<1>24. Leads(o, Restores(5), Pic(h8, "FORM", s5, "own"), Pic(h13, "FORM", s, "own"))
  BY <1>18, <1>23, Savers, RestoresCons DEF h9, s5
<1>25. Leads(o, Restores(6), Pic(h7, "FORM", s6, "own"), Pic(h13, "FORM", s, "own"))
  BY <1>18, <1>24, Savers, RestoresCons DEF h8, s6
<1>26. Leads(o, Restores(7), Pic(h6, "FORM", s7, "own"), Pic(h13, "FORM", s, "own"))
  BY <1>18, <1>25, Savers, RestoresCons DEF h7, s7
<1>27. h13 = Idle(h)
  BY DEF Without, Marked, Options, Held, Sunk, Idle, h1, h2, h3, h4, h5, h6, h7, h8, h9, h10, h11, h12, h13
<1>28. QED
  BY <1>17, <1>26, <1>27

LEMMA PostFormLeads ==
  ASSUME NEW o, NEW h, NEW m, NEW s, NEW b, Held(o, h)
  PROVE  \E c : Leads(o, CallPostForm, Pic(h, m, s, b), c)
<1> DEFINE h1 == [h EXCEPT !["timeout"] = "own"]
           s1 == Append(s, "timeout")
           h2 == [h1 EXCEPT !["url"] = "own"]
           s2 == Append(s1, "url")
           h3 == Sunk(h2, "buffer")
           s3 == Append(s2, "writefn")
           s4 == Append(s3, "writedata")
           h4 == [h3 EXCEPT !["form"] = "own"]
           s5 == Append(s4, "form")
           h5 == [h4 EXCEPT !["header"] = "multipart"]
           s6 == Append(s5, "header")
<1> HIDE DEF h1, s1, h2, s2, h3, s3, s4, h4, s5, h5, s6
<1>1. Leads(o, <<Set("timeout", "own")>>, Pic(h, m, s, b), Pic(h1, m, s1, b))
  BY LeadsPlain DEF h1, s1, Plain, Options, Lasting, Operands
<1>2. Leads(o, <<Set("url", "own")>>, Pic(h1, m, s1, b), Pic(h2, m, s2, b))
  BY LeadsPlain DEF h2, s2, Plain, Options, Lasting, Operands
<1>3. Leads(o, <<Clear>>, Pic(h2, m, s2, b), Pic(h2, m, s2, "empty"))
  BY LeadsOther
<1>4. Leads(o, <<Set("url", "own"), Clear>>,
            Pic(h1, m, s1, b), Pic(h2, m, s2, "empty"))
  BY <1>2, <1>3, LeadsCons
<1>5. Leads(o, <<Set("timeout", "own"), Set("url", "own"), Clear>>,
            Pic(h, m, s, b), Pic(h2, m, s2, "empty"))
  BY <1>1, <1>4, LeadsCons
<1>6. Leads(o, Sink, Pic(h2, m, s2, "empty"), Pic(h3, m, s4, "empty"))
  BY SinkLeads DEF h3, s3, s4
<1>7. Leads(o, <<Set("form", "own")>>, Pic(h3, m, s4, "empty"), Pic(h4, "FORM", s5, "empty"))
  BY LeadsMethod DEF h4, s5
<1>8. Leads(o, <<Set("header", "multipart")>>,
            Pic(h4, "FORM", s5, "empty"), Pic(h5, "FORM", s6, "empty"))
  BY LeadsHeader DEF h5, s6, Kinds
<1>9. FitsSend(o, Send("POST", "own", "multipart", "buffer"), Pic(h5, "FORM", s6, "empty"))
  BY DEF FitsSend, Send, Pic, Marked, Options, Held, h1, h2, h3, h4, h5, Sunk
<1>10. Leads(o, <<Send("POST", "own", "multipart", "buffer")>>,
             Pic(h5, "FORM", s6, "empty"), Pic(h5, "FORM", s6, "own"))
  BY <1>9, Words, LeadsSend
<1>11. Leads(o, <<Parse>>, Pic(h5, "FORM", s6, "own"), Pic(h5, "FORM", s6, "own"))
  BY LeadsOther
<1>12. Leads(o, <<Send("POST", "own", "multipart", "buffer"), Parse>>,
            Pic(h5, "FORM", s6, "empty"), Pic(h5, "FORM", s6, "own"))
  BY <1>10, <1>11, LeadsCons
<1>13. Leads(o, <<Set("header", "multipart"), Send("POST", "own", "multipart", "buffer"), Parse>>,
            Pic(h4, "FORM", s5, "empty"), Pic(h5, "FORM", s6, "own"))
  BY <1>8, <1>12, LeadsCons
<1>14. Leads(o, <<Set("form", "own"), Set("header", "multipart"), Send("POST", "own", "multipart",
      "buffer"), Parse>>,
            Pic(h3, m, s4, "empty"), Pic(h5, "FORM", s6, "own"))
  BY <1>7, <1>13, LeadsCons
<1>15. QED
  BY <1>5, <1>6, <1>14, LeadsOn DEF CallPostForm

LEMMA DownloadLeads ==
  ASSUME NEW h \in Marked, NEW m, NEW s, NEW b, h["custom"] = "null", h["readfn"] = "null"
  PROVE  \E c : Leads("download", Download, Pic(h, m, s, b), c)
<1> DEFINE h1 == [h EXCEPT !["filetime"] = "on"]
           s1 == Append(s, "filetime")
           h2 == [h1 EXCEPT !["timecond"] = "on"]
           s2 == Append(s1, "timecond")
           h3 == [h2 EXCEPT !["timevalue"] = "own"]
           s3 == Append(s2, "timevalue")
<1> HIDE DEF h1, s1, h2, s2, h3, s3
<1>1. Leads("download", <<Set("filetime", "on")>>, Pic(h, m, s, b), Pic(h1, m, s1, b))
  BY LeadsPlain DEF h1, s1, Plain, Options, Lasting, Operands
<1>2. Leads("download", <<Set("timecond", "on")>>, Pic(h1, m, s1, b), Pic(h2, m, s2, b))
  BY LeadsPlain DEF h2, s2, Plain, Options, Lasting, Operands
<1>3. Leads("download", <<Set("timevalue", "own")>>, Pic(h2, m, s2, b), Pic(h3, m, s3, b))
  BY LeadsPlain DEF h3, s3, Plain, Options, Lasting, Operands
<1>4. Leads("download", <<Set("timecond", "on"), Set("timevalue", "own")>>,
            Pic(h1, m, s1, b), Pic(h3, m, s3, b))
  BY <1>2, <1>3, LeadsCons
<1>5. Leads("download", <<Set("filetime", "on"), Set("timecond", "on"), Set("timevalue", "own")>>,
            Pic(h, m, s, b), Pic(h3, m, s3, b))
  BY <1>1, <1>4, LeadsCons
<1>6. Held("download", h3)
  BY DEF Held, Marked, Marks, Operands, Options, h1, h2, h3
<1>7. PICK c : Leads("download", CallGetInto, Pic(h3, m, s3, b), c)
  BY <1>6, GetIntoLeads
<1>8. QED
  BY <1>5, <1>7, LeadsOn DEF Download

(* The handle after the directories were ensured.                          *)
Ensured(h) == [Sunk(h, "null") EXCEPT !["timeout"] = "null", !["custom"] = "null",
                                      !["header"] = "null", !["url"] = "null"]

LEMMA EnsureLeads ==
  ASSUME NEW o, NEW h, NEW m, NEW s \in Seq(Options), NEW b, Held(o, h), o # "download",
         h["form"] = "null", h["size"] = "null"
  PROVE  \E c : Leads(o, EnsureDirectories, Pic(h, m, s, b), Pic(Ensured(h), m, s, c))
<1> DEFINE h1 == [h EXCEPT !["timeout"] = "own"]
           s1 == Append(s, "timeout")
           h2 == Sunk(h1, "buffer")
           s2 == Append(s1, "writefn")
           s3 == Append(s2, "writedata")
           h3 == [h2 EXCEPT !["custom"] = "MKCOL"]
           s4 == Append(s3, "custom")
           h4 == Again(h3)
           h5 == Again(h4)
           h6 == Without(h5, "custom")
           h7 == Without(h6, "writedata")
           h8 == Without(h7, "writefn")
           h9 == Without(h8, "timeout")
<1> HIDE DEF h1, s1, h2, s2, s3, h3, s4, h4, h5, h6, h7, h8, h9
<1>1. Leads(o, <<Set("timeout", "own")>>, Pic(h, m, s, b), Pic(h1, m, s1, b))
  BY LeadsPlain DEF h1, s1, Plain, Options, Lasting, Operands
<1>2. Leads(o, Sink, Pic(h1, m, s1, b), Pic(h2, m, s3, b))
  BY SinkLeads DEF h2, s2, s3
<1>3. Leads(o, <<Set("custom", "MKCOL")>>, Pic(h2, m, s3, b), Pic(h3, m, s4, b))
  BY LeadsPlain DEF h3, s4, Plain, Options, Lasting, Operands
<1>4. h3 \in Marked /\ h3["timecond"] = "null" /\ h3["form"] = "null" /\ h3["size"] = "null"
      /\ h3["custom"] = "MKCOL" /\ h3["timeout"] = "own"
      /\ h3["readfn"] \in {"null", "own"} /\ h3["writefn"] = "buffer" /\ h3["writedata"] = "buffer"
  BY DEF Held, Marked, Marks, Operands, Options, Sunk, Again, h1, h2, h3
<1>6. s4 \in Seq(Options)
  BY DEF Options, s1, s2, s3, s4
<1>7. PICK c7 : Leads(o, MakeNext, Pic(h3, m, s4, b), Pic(h4, m, s4, c7))
  BY <1>4, <1>6, MakeNextLeads DEF h4
<1>8. h4 \in Marked /\ h4["timecond"] = "null" /\ h4["form"] = "null" /\ h4["size"] = "null"
      /\ h4["custom"] = "MKCOL" /\ h4["timeout"] = "own"
      /\ h4["readfn"] \in {"null", "own"} /\ h4["writefn"] = "buffer" /\ h4["writedata"] = "buffer"
  BY DEF Held, Marked, Marks, Operands, Options, Sunk, Again, h1, h2, h3, h4
<1>10. s4 \in Seq(Options)
  BY DEF Options, s1, s2, s3, s4
<1>11. PICK c11 : Leads(o, MakeNext, Pic(h4, m, s4, c7), Pic(h5, m, s4, c11))
  BY <1>8, <1>10, MakeNextLeads DEF h5
<1>12. /\ s1 \in Seq(Options) /\ s2 \in Seq(Options) /\ s3 \in Seq(Options) /\ s4 \in Seq(Options)
  BY DEF s1, s2, s3, s4, Options
<1>13. Leads(o, Restores(0), Pic(h9, m, s, c11), Pic(h9, m, s, c11))
  BY NoRestores
<1>14. Leads(o, Restores(1), Pic(h8, m, s1, c11), Pic(h9, m, s, c11))
  BY <1>12, <1>13, Savers, RestoresCons DEF h9, s1
<1>15. Leads(o, Restores(2), Pic(h7, m, s2, c11), Pic(h9, m, s, c11))
  BY <1>12, <1>14, Savers, RestoresCons DEF h8, s2
<1>16. Leads(o, Restores(3), Pic(h6, m, s3, c11), Pic(h9, m, s, c11))
  BY <1>12, <1>15, Savers, RestoresCons DEF h7, s3
<1>17. Leads(o, Restores(4), Pic(h5, m, s4, c11), Pic(h9, m, s, c11))
  BY <1>12, <1>16, Savers, RestoresCons DEF h6, s4
<1>18. h9 = Ensured(h)
  BY DEF Ensured, Without, Again, Marked, Options, Held, Sunk, h1, h2, h3, h4, h5, h6, h7, h8, h9
<1>19. QED
  BY <1>1, <1>2, <1>3, <1>7, <1>11, <1>17, <1>18, LeadsOn DEF EnsureDirectories

LEMMA SyncUploadLeads ==
  ASSUME NEW o, NEW h, NEW m, NEW s \in Seq(Options), NEW b, Held(o, h), o # "download",
         h["form"] = "null", h["size"] = "null"
  PROVE  \E c : Leads(o, SyncUpload, Pic(h, m, s, b), c)
<1>1. PICK c1 : Leads(o, EnsureDirectories, Pic(h, m, s, b), Pic(Ensured(h), m, s, c1))
  BY EnsureLeads
<1>2. Held(o, Ensured(h))
  BY DEF Held, Ensured, Sunk, Marked, Marks, Operands, Options
<1>3. \E c : Leads(o, UploadFile, Pic(Ensured(h), m, s, c1), c)
  BY <1>2, UploadFileLeads
<1>4. QED
  BY <1>1, <1>3, LeadsOn DEF SyncUpload

LEMMA UploadDirectoryLeads ==
  ASSUME NEW o, NEW h, NEW m, NEW s \in Seq(Options), NEW b, Held(o, h), o # "download",
         h["form"] = "null", h["size"] = "null", h["timeout"] = "null"
  PROVE  \E c : Leads(o, UploadDirectory, Pic(h, m, s, b), c)
<1> DEFINE s2 == Append(Append(s, "writefn"), "writedata")
           h1 == Made(h)
           h2 == Idle(h1)
<1>1. s2 \in Seq(Options)
  BY DEF Options
<1>2. Held(o, h1) /\ h1["form"] = "null" /\ h1["size"] = "null"
  BY DEF Held, Made, Sunk, Marked, Marks, Operands, Options
<1>3. Held(o, h2) /\ h2["form"] = "null" /\ h2["size"] = "null" /\ h2["timeout"] = "null"
  BY DEF Held, Made, Idle, Sunk, Marked, Marks, Operands, Options
<1>4. PICK c1 : Leads(o, MakeDirectory, Pic(h, m, s, b), Pic(h1, m, s2, c1))
  BY MakeDirectoryLeads
<1> HIDE DEF s2, h1, h2
<1>5. PICK c2 : /\ Leads(o, UploadFile, Pic(h1, m, s2, c1), c2)
                /\ Leads(o, Restores(7), c2, Pic(h2, "FORM", s2, "own"))
  BY <1>1, <1>2, UploadFileLeads DEF h2
<1>6. \E c : Leads(o, MakeDirectory, Pic(h2, "FORM", s2, "own"), c)
  BY <1>1, <1>3, MakeDirectoryLeads
<1>7. QED
  BY <1>4, <1>5, <1>6, LeadsOn DEF UploadDirectory

(* The handle when no call is running, whatever the last request was.      *)
Bare(w)     == [p \in Options |-> IF p = "writedata" THEN w ELSE "null"]
Blank(m, w) == Pic(Bare(w), m, <<>>, "any")

(* Whatever requests were made before, every method that makes requests    *)
(* makes those it means to make and parses the response to its own.        *)
LEMMA ProgramLeads ==
  ASSUME NEW o \in DOMAIN Program \ Quiet, NEW m \in Methods, NEW w \in {"null", "stdout"}
  PROVE  \E c : Leads(o, Program[o], Blank(m, w), c)
<1> DEFINE h == Bare(w)
           s == <<>>
           a == Pic(h, m, s, "any")
<1>1. h \in Marked /\ \A p \in Options \ {"writedata"} : h[p] = "null"
  BY DEF Bare, Marked, Marks, Operands, Options
<1>2. /\ h["custom"] = "null" /\ h["readfn"] = "null" /\ h["timecond"] = "null" /\ h["form"] = "null"
      /\ h["size"] = "null" /\ h["timeout"] = "null" /\ h["writefn"] = "null"
  BY <1>1 DEF Options
<1>3. o # "download" => Held(o, h)
  BY <1>1, <1>2 DEF Held
<1>4. s \in Seq(Options)
  OBVIOUS
<1>5. Blank(m, w) = a
  BY DEF Blank
<1> HIDE DEF h, s, a
<1>6. CASE o \in {"get", "getVersion", "listFiles"}
  <2>1. Program[o] = CallGet
    BY <1>6 DEF Program
  <2>2. QED
    BY <1>3, <1>5, <1>6, <2>1, GetLeads DEF a
<1>7. CASE o = "getInto"
  <2>1. Program[o] = CallGetInto
    BY <1>7 DEF Program
  <2>2. QED
    BY <1>3, <1>5, <1>7, <2>1, GetIntoLeads DEF a
<1>8. CASE o = "post"
  <2>1. Program[o] = CallPost
    BY <1>8 DEF Program
  <2>2. QED
    BY <1>3, <1>5, <1>8, <2>1, PostLeads DEF a
<1>9. CASE o = "postForm"
  <2>1. Program[o] = CallPostForm
    BY <1>9 DEF Program
  <2>2. QED
    BY <1>3, <1>5, <1>9, <2>1, PostFormLeads DEF a
<1>10. CASE o \in Hasty
  <2>1. PICK kind \in Kinds : Program[o] = CallPut(kind) /\ kind = EarlyKind(o)
    BY <1>10 DEF Program, Hasty, Kinds, EarlyKind
  <2>2. o # "download"
    BY <1>10 DEF Hasty
  <2>3. \E c : Leads(o, CallPut(kind), Pic(h, m, s, "any"), c)
    BY <1>3, <1>10, <2>1, <2>2, PutLeads
  <2>4. QED
    BY <1>5, <2>1, <2>3 DEF a
<1>11. CASE o \in {"delete", "deleteAllScenes"}
  <2>1. PICK c : Leads(o, CallDelete, a, c)
    BY <1>2, <1>3, <1>11, DeleteLeads DEF a
  <2>2. Leads(o, <<Relock>>, a, a)
    BY LeadsOther DEF a
  <2>3. Leads(o, <<Relock>> \o CallDelete, a, c)
    BY <2>1, <2>2, LeadsOn
  <2>4. Program[o] = CallDelete \/ Program[o] = <<Relock>> \o CallDelete
    BY <1>11 DEF Program
  <2>5. QED
    BY <1>5, <2>1, <2>3, <2>4
<1>12. CASE o = "restart"
  <2>1. Program[o] = RestartServer
    BY <1>12 DEF Program
  <2>2. QED
    BY <1>2, <1>3, <1>5, <1>12, <2>1, RestartLeads DEF a
<1>13. CASE o = "download"
  <2>1. Program[o] = Download
    BY <1>13 DEF Program
  <2>2. QED
    BY <1>1, <1>2, <1>5, <1>13, <2>1, DownloadLeads DEF a
<1>14. CASE o = "uploadFile"
  <2>1. Program[o] = UploadFile
    BY <1>14 DEF Program
  <2>2. QED
    BY <1>3, <1>4, <1>5, <1>14, <2>1, UploadFileLeads DEF a
<1>15. CASE o = "uploadDirectory"
  <2>1. Program[o] = UploadDirectory
    BY <1>15 DEF Program
  <2>2. QED
    BY <1>2, <1>3, <1>4, <1>5, <1>15, <2>1, UploadDirectoryLeads DEF a
<1>16. CASE o = "syncUpload"
  <2>1. Program[o] = SyncUpload
    BY <1>16 DEF Program
  <2>2. QED
    BY <1>2, <1>3, <1>4, <1>5, <1>16, <2>1, SyncUploadLeads DEF a
<1>17. CASE o = "modifiedTime"
  <2>1. Program[o] = GetModifiedTime
    BY <1>17 DEF Program
  <2>2. QED
    BY <1>2, <1>3, <1>5, <1>17, <2>1, ModifiedTimeLeads DEF a
<1>18. CASE o = "deleteDirectory"
  <2>1. Program[o] = DeleteDirectory
    BY <1>18 DEF Program
  <2>2. QED
    BY <1>2, <1>3, <1>5, <1>18, <2>1, DeleteDirectoryLeads DEF a
<1>19. o \in {"get", "getVersion", "listFiles", "getInto", "post", "postForm", "delete", "deleteAllScenes",
              "restart", "download", "uploadFile", "uploadDirectory", "syncUpload", "modifiedTime",
              "deleteDirectory"} \cup Hasty
  BY DEF Program, Quiet, Hasty
<1>20. QED
  BY <1>6, <1>7, <1>8, <1>9, <1>10, <1>11, <1>12, <1>13, <1>14, <1>15, <1>16, <1>17, <1>18, <1>19

(* The states of the client in which a method may begin.                   *)
Blanks == {Blank(m, w) : m \in Methods, w \in {"null", "stdout"}}

(* The client is as the picture shows it to the thread.                    *)
Agrees(t, a) ==
    /\ stack[t] = a.s /\ method = a.m
    /\ \A p \in Options \ Lasting : handle[p] = ValueOf(t, a.h[p])
    /\ a.b = "empty" => buffer = <<>>
    /\ a.b = "own" => buffer = <<call[t]>>

Inside(t) == status[t] \in {"run", "perform"} /\ op[t] \in DOMAIN Program \ Quiet

(* The thread came to where it is along a path from the blank handle.      *)
Followed(t) == \E A : /\ Path(Program[op[t]], A) /\ Len(A) = pos[t]
                      /\ A[1] \in Blanks /\ Agrees(t, A[pos[t]])

(* Every thread inside a program that makes requests has followed it.      *)
FollowInv == \A t \in Threads : Inside(t) => Followed(t)

(* How threads enter their programs, and where they wait for an answer.    *)
EntryInv == \A t \in Threads :
    /\ status[t] \in {"idle", "lock"} => pos[t] = 1
    /\ status[t] = "perform" =>
          /\ op[t] \in DOMAIN Program /\ pos[t] \in DOMAIN Program[op[t]]
          /\ Step(t).do = "send"
    /\ status[t] = "wait" => op[t] \in Quiet
    /\ early[t][1] \in {"null", "json", "stl"}
    /\ status[t] # "idle" /\ op[t] \in Hasty => early[t][1] = EarlyKind(op[t])

(* The steps of a thread.                                                  *)
Moves(t) ==
    \/ \E o \in Ops : Begin(t, o)
    \/ ReturnVersion(t) \/ ThreadStep(t) \/ Answer(t) \/ SocketEnds(t)

(* A step changes the locals of no other thread.                           *)
LEMMA Locals ==
  ASSUME TypeOK, NEW t \in Threads, Moves(t), NEW u \in Threads \ {t}
  PROVE  /\ status'[u] = status[u] /\ op'[u] = op[u] /\ call'[u] = call[u] /\ pos'[u] = pos[u]
         /\ stack'[u] = stack[u] /\ early'[u] = early[u]
<1> USE DEF Advance, Leave, TypeOK
<1>1. CASE \E o \in Ops : Begin(t, o)
  BY <1>1 DEF Begin
<1>2. CASE ReturnVersion(t)
  BY <1>2 DEF ReturnVersion
<1>3. CASE Answer(t) \/ SocketEnds(t)
  BY <1>3 DEF Answer, Answered, PerformFails, SocketEnds
<1>4. CASE Lock(t) \/ SetLanguage(t) \/ SetAdditionalHeaders(t)
  BY <1>4 DEF Lock, SetLanguage, SetAdditionalHeaders
<1>5. CASE Unwind(t) \/ End(t)
  BY <1>5 DEF Unwind, End, Forget, RestoreTop
<1>6. CASE \/ SetStep(t) \/ SetFails(t) \/ KeepStep(t) \/ KeepFails(t) \/ NoteStep(t)
           \/ RelockStep(t) \/ SocketStep(t)
  BY <1>6 DEF SetStep, SetFails, KeepStep, KeepFails, NoteStep, RelockStep, SocketStep
<1>7. CASE RestoreStep(t)
  BY <1>7 DEF RestoreStep, RestoreTop
<1>8. CASE ClearStep(t) \/ Perform(t) \/ Accept(t) \/ Reject(t) \/ Return(t)
  BY <1>8 DEF ClearStep, Perform, Accept, Reject, Return
<1>9. QED
  BY <1>1, <1>2, <1>3, <1>4, <1>5, <1>6, <1>7, <1>8 DEF Moves, ThreadStep, ProgramStep

(* Only a running thread touches what threads share.                       *)
LEMMA Shared ==
  ASSUME NEW t \in Threads, Moves(t), ~Running(t)
  PROVE  UNCHANGED <<handle, method, buffer, list>>
  BY DEF Moves, Begin, ReturnVersion, ThreadStep, Lock, ProgramStep, SetStep, SetFails, KeepStep,
         KeepFails, NoteStep, RelockStep, SocketStep, SocketEnds, ClearStep, RestoreStep, Perform,
         Accept, Reject, Return, SetLanguage, SetAdditionalHeaders, Unwind, End, Answer, Answered,
         PerformFails, At, clientVars, setup, Running

LEMMA SameFollowed ==
  ASSUME NEW t \in Threads, Followed(t), UNCHANGED <<handle, method, buffer, list>>,
         op'[t] = op[t], call'[t] = call[t], pos'[t] = pos[t], stack'[t] = stack[t],
         early'[t] = early[t]
  PROVE  Followed(t)'
<1>1. PICK A : /\ Path(Program[op[t]], A) /\ Len(A) = pos[t] /\ A[1] \in Blanks
               /\ Agrees(t, A[pos[t]])
  BY DEF Followed
<1>2. \A v : ValueOf(t, v)' = ValueOf(t, v)
  BY DEF ValueOf
<1>3. Agrees(t, A[pos[t]])'
  BY <1>1, <1>2 DEF Agrees
<1>4. QED
  BY <1>1, <1>3 DEF Followed

(* The picture after an instruction is one.                                *)
LEMMA AfterTyped ==
  ASSUME NEW i \in AnyInstr, NEW a \in Picture, i.do = "restore" => a.s # <<>>
  PROVE  After(i, a) \in Picture
<1>0. a.h \in Marked /\ a.m \in Methods /\ a.s \in Seq(Options) /\ a.b \in {"any", "empty", "own"}
  BY DEF Picture, Marked
<1>1. CASE i.do = "set"
  <2>1. i.opt \in Options /\ i.val \in Marks
    BY <1>1 DEF AnyInstr, Instr, SetInstr, HastyInstr, SendInstr, OtherInstr, Marks, Options
  <2>2. MethodAfter(a.m, i.opt, <<i.val, 0>>) \in Methods
    BY <1>0, MethodTyped
  <2>3. [a.h EXCEPT ![i.opt] = i.val] \in Marked
    BY <1>0, <2>1 DEF Marked
  <2>4. Append(a.s, i.opt) \in Seq(Options)
    BY <1>0, <2>1
  <2>5. Put(a, i.opt, i.val) \in Picture
    BY <1>0, <2>2, <2>3, <2>4 DEF Put, Picture, Marked
  <2>6. QED
    BY <1>1, <2>5 DEF After
<1>2. CASE i.do = "restore"
  <2> DEFINE p == a.s[Len(a.s)]
             s == SubSeq(a.s, 1, Len(a.s) - 1)
  <2>1. p \in Options /\ s \in Seq(Options)
    BY <1>0, <1>2
  <2>2. MethodAfter(a.m, p, Null) \in Methods
    BY <1>0, MethodTyped
  <2>3. After(i, a) = Drop(a, s, p)
    BY <1>2 DEF After
  <2> HIDE DEF p, s
  <2>4. [a.h EXCEPT ![p] = "null"] \in Marked
    BY <1>0 DEF Marked, Marks, Operands
  <2>5. QED
    BY <1>0, <2>1, <2>2, <2>3, <2>4 DEF Drop, Picture, Marked
<1>3. Emptied(a) \in Picture /\ Filled(a) \in Picture
  BY <1>0 DEF Emptied, Filled, Picture, Marked
<1>4. QED
  BY <1>1, <1>2, <1>3 DEF After

LEMMA MovesOn ==
  ASSUME TypeOK, NEW t \in Threads, Inside(t), Followed(t), pos[t] \in DOMAIN Program[op[t]],
         op'[t] = op[t], pos'[t] = pos[t] + 1,
         \A a, c \in Picture : Agrees(t, a) /\ c = After(Step(t), a) => Agrees(t, c)',
         Step(t).do = "restore" => stack[t] # <<>>
  PROVE  Followed(t)'
<1>0. PICK P, n : P = Program[op[t]] /\ n = pos[t]
  OBVIOUS
<1>1. PICK A : Path(P, A) /\ Len(A) = n /\ A[1] \in Blanks /\ Agrees(t, A[n])
  BY <1>0 DEF Followed
<1>2. P \in Seq(AnyInstr) /\ n \in 1 .. Len(P)
  <2>1. P \in Seq(AnyInstr)
    BY <1>0, ProgramsTyped DEF Inside, AnyInstr
  <2>2. QED
    BY <1>0, <2>1
<1>3. A \in Seq(Picture) /\ A[n] \in Picture /\ \A i \in 1 .. n - 1 : A[i + 1] = After(P[i], A[i])
  BY <1>1, <1>2 DEF Path
<1>4. PICK a : a = After(P[n], A[n])
  OBVIOUS
<1>5. a \in Picture
  <2>1. P[n].do = "restore" => A[n].s # <<>>
    BY <1>0, <1>1 DEF Step, Agrees
  <2>2. P[n] \in AnyInstr
    BY <1>2
  <2>3. QED
    BY <1>3, <1>4, <2>1, <2>2, AfterTyped
<1>6. Agrees(t, a)'
  BY <1>0, <1>1, <1>3, <1>4, <1>5 DEF Step
<1>7. PICK B : B = Append(A, a)
  OBVIOUS
<1>8. B \in Seq(Picture) /\ Len(B) = n + 1 /\ B[n + 1] = a /\ \A i \in 1 .. n : B[i] = A[i]
  BY <1>1, <1>2, <1>3, <1>5, <1>7
<1>9. ASSUME NEW i \in 1 .. n
      PROVE  B[i + 1] = After(P[i], B[i])
  <2>1. CASE i = n
    BY <1>2, <1>4, <1>8, <2>1
  <2>2. CASE i # n
    <3>1. i \in 1 .. n - 1 /\ i + 1 \in 1 .. n
      BY <1>2, <2>2
    <3>2. QED
      BY <1>3, <1>8, <3>1
  <2>3. QED
    BY <2>1, <2>2
<1>10. Path(P, B)
  BY <1>2, <1>8, <1>9 DEF Path
<1>11. B[1] = A[1]
  BY <1>2, <1>8
<1>12. pos'[t] = n + 1 /\ Program[op'[t]] = P
  BY <1>0
<1>13. Agrees(t, B[pos[t]])'
  <2>1. B[pos'[t]] = a
    BY <1>8, <1>12
  <2>2. QED
    BY <1>6, <2>1 DEF Agrees
<1>14. QED
  BY <1>1, <1>8, <1>10, <1>11, <1>12, <1>13 DEF Followed

LEMMA EntryInductive == TypeOK /\ EntryInv /\ [Next]_vars => EntryInv'
<1> SUFFICES ASSUME TypeOK, EntryInv, [Next]_vars
             PROVE  EntryInv'
  OBVIOUS
<1> DEFINE Entry(u) ==
             /\ status[u] \in {"idle", "lock"} => pos[u] = 1
             /\ status[u] = "perform" =>
                   /\ op[u] \in DOMAIN Program /\ pos[u] \in DOMAIN Program[op[u]]
                   /\ Step(u).do = "send"
             /\ status[u] = "wait" => op[u] \in Quiet
             /\ early[u][1] \in {"null", "json", "stl"}
             /\ status[u] # "idle" /\ op[u] \in Hasty => early[u][1] = EarlyKind(op[u])
<1>1. CASE UNCHANGED vars
  BY <1>1 DEF vars, threadVars, EntryInv, Step
<1>2. ASSUME NEW t \in Threads, Moves(t)
      PROVE  EntryInv'
  <2>1. ASSUME NEW u \in Threads \ {t}
        PROVE  Entry(u)'
    <3>1. /\ status'[u] = status[u] /\ op'[u] = op[u] /\ pos'[u] = pos[u] /\ early'[u] = early[u]
      BY <1>2, Locals
    <3>2. QED
      BY <3>1 DEF EntryInv, Step
  <2>2. Entry(t)'
    <3> USE DEF Advance, Leave, TypeOK
    <3>1. CASE \E o \in Ops : Begin(t, o)
      <4>1. PICK o \in Ops : Begin(t, o)
        BY <3>1
      <4>2. pos'[t] = 1 /\ op'[t] = o /\ early'[t] = Early(o) /\ status'[t] \in {"run", "lock"}
        BY <4>1 DEF Begin
      <4>3. /\ Early(o)[1] \in {"null", "json", "stl"}
            /\ o \in Hasty => Early(o)[1] = EarlyKind(o)
        BY DEF Early, EarlyKind, Hasty, Null
      <4>4. QED
        BY <4>2, <4>3
    <3>2. CASE ReturnVersion(t)
      BY <3>2 DEF ReturnVersion, EntryInv, Step
    <3>3. CASE Perform(t)
      BY <3>3 DEF Perform, EntryInv, At, Step
    <3>4. CASE End(t)
      <4>1. status'[t] = "idle" /\ pos'[t] = 1 /\ early'[t] = Null
        BY <3>4 DEF End, Forget
      <4>2. QED
        BY <4>1 DEF Null
    <3>5. CASE SocketStep(t)
      <4>1. /\ op[t] \in Quiet /\ op'[t] = op[t] /\ early'[t] = early[t]
            /\ status[t] = "run" /\ status'[t] \in {"run", "wait"}
        BY <3>5, SocketTyped DEF SocketStep, At
      <4>2. QED
        BY <4>1 DEF EntryInv
    <3>6. CASE /\ ~(\E o \in Ops : Begin(t, o)) /\ ~ReturnVersion(t) /\ ~Perform(t) /\ ~End(t)
               /\ ~SocketStep(t)
      <4>1. \/ Lock(t) \/ SetStep(t) \/ SetFails(t) \/ KeepStep(t) \/ NoteStep(t) \/ RelockStep(t)
            \/ ClearStep(t) \/ RestoreStep(t) \/ Accept(t) \/ Reject(t) \/ Return(t)
            \/ SetLanguage(t) \/ SetAdditionalHeaders(t) \/ Unwind(t) \/ Answered(t) \/ PerformFails(t)
            \/ KeepFails(t) \/ SocketEnds(t)
        BY <1>2, <3>6 DEF Moves, ThreadStep, ProgramStep, Answer
      <4>2. /\ status[t] # "idle" /\ status'[t] \in {"run", "unwind"}
            /\ op'[t] = op[t] /\ early'[t] = early[t]
        BY <4>1 DEF Lock, SetStep, SetFails, KeepStep, KeepFails, NoteStep, RelockStep,
                    SocketEnds, ClearStep, RestoreStep, Accept, Reject, Return, SetLanguage, SetAdditionalHeaders, Unwind, Answered,
                    PerformFails, At
      <4>3. QED
        BY <4>2 DEF EntryInv
    <3>7. QED
      BY <3>1, <3>2, <3>3, <3>4, <3>5, <3>6
  <2>3. \A u \in Threads : Entry(u)'
    BY <2>1, <2>2
  <2> HIDE DEF Entry
  <2>4. QED
    BY <2>3 DEF EntryInv, Entry
<1>3. Next => \E t \in Threads : Moves(t)
  BY DEF Next, Moves
<1>4. QED
  BY <1>1, <1>2, <1>3

LEMMA InitEntry == Init => EntryInv
<1> SUFFICES ASSUME Init
             PROVE  EntryInv
  OBVIOUS
<1>1. ASSUME NEW t \in Threads
      PROVE  status[t] = "idle" /\ pos[t] = 1 /\ early[t] = Null
  BY DEF Init
<1>2. Null[1] = "null"
  BY DEF Null
<1>3. QED
  BY <1>1, <1>2 DEF EntryInv

(* The handle is blank when no thread is inside its program.               *)
LEMMA BlankStart ==
  ASSUME TypeOK, StackInv, NEW t \in Threads, \A u \in Threads : ~Running(u),
         UNCHANGED <<handle, method, stack>>, op'[t] \in DOMAIN Program \ Quiet, pos'[t] = 1
  PROVE  Followed(t)'
<1>1. /\ \A p \in Options \ Lasting : handle[p] \in {Null, <<"stdout", 0>>}
      /\ \A p \in Options \ (Lasting \cup {"writedata"}) : handle[p] = Null
      /\ stack[t] = <<>>
  <2>1. \A u \in Threads : stack[u] = <<>>
    BY DEF StackInv
  <2>2. \A u \in Threads, i \in DOMAIN <<>> : FALSE
    OBVIOUS
  <2>3. \A o : ~Saved(o)
    BY <2>1, <2>2, Zenon DEF Saved
  <2>4. QED
    BY <2>1, <2>3 DEF StackInv
<1>2. PICK w \in {"null", "stdout"} : handle["writedata"] = <<w, 0>>
  BY <1>1 DEF Null, Options, Lasting
<1>3. PICK m : m = method
  OBVIOUS
<1>4. PICK a : a = Blank(m, w)
  OBVIOUS
<1>5. a \in Picture /\ a \in Blanks
  <2>1. m \in Methods
    BY <1>3 DEF TypeOK
  <2>2. Bare(w) \in Marked
    BY DEF Bare, Marked, Marks, Operands
  <2>3. QED
    BY <1>4, <2>1, <2>2 DEF Blank, Blanks, Pic, Picture, Marked
<1>6. Agrees(t, a)'
  <2>1. ASSUME NEW p \in Options \ Lasting
        PROVE  handle'[p] = ValueOf(t, a.h[p])'
    <3>1. a.h[p] = IF p = "writedata" THEN w ELSE "null"
      BY <1>4 DEF Blank, Pic, Bare
    <3>2. ValueOf(t, "null")' = Null /\ ValueOf(t, w)' = <<w, 0>>
      BY DEF ValueOf, Kinds, Null
    <3>3. QED
      BY <1>1, <1>2, <3>1, <3>2
  <2>2. a.s = <<>> /\ a.m = m /\ a.b = "any"
    BY <1>4 DEF Blank, Pic
  <2>3. QED
    BY <1>1, <1>3, <2>1, <2>2 DEF Agrees
<1>7. PICK A : A = <<a>>
  OBVIOUS
<1>8. A \in Seq(Picture) /\ Len(A) = 1 /\ A[1] = a
  BY <1>5, <1>7
<1>9. PICK P : P = Program[op'[t]]
  OBVIOUS
<1>10. P \in Seq(AnyInstr)
  BY <1>9, ProgramsTyped DEF AnyInstr
<1>11. Path(P, A)
  BY <1>8, <1>10 DEF Path
<1>12. Agrees(t, A[pos[t]])'
  <2>1. A[pos'[t]] = a
    BY <1>8
  <2>2. QED
    BY <1>6, <2>1 DEF Agrees
<1>13. QED
  BY <1>5, <1>8, <1>9, <1>11, <1>12 DEF Followed

(* The step of a thread inside the program of a method that makes requests.*)
LEMMA InsideStep ==
  ASSUME TypeOK, NEW t \in Threads, op[t] \notin Quiet, NEW what, At(t, what)
  PROVE  /\ Inside(t) /\ pos[t] \in DOMAIN Program[op[t]]
         /\ Step(t) \in AnyInstr /\ Step(t).do = what
         /\ what \notin {"keep", "note"}
<1>1. /\ Inside(t) /\ pos[t] \in DOMAIN Program[op[t]]
      /\ Step(t) \in AnyInstr /\ Step(t).do = what
  BY StepTyped DEF Inside, At, AnyInstr
<1>2. QED
  BY <1>1 DEF AnyInstr, Instr, SetInstr, HastyInstr, SendInstr, OtherInstr

(* A step of a thread takes it one picture further on its path.            *)
LEMMA SetFollowed ==
  ASSUME TypeOK, NEW t \in Threads, op[t] \notin Quiet, SetStep(t), Followed(t)
  PROVE  Followed(t)'
<1> DEFINE p == Step(t).opt
           v == Step(t).val
<1>1. At(t, "set") /\ Inside(t) /\ pos[t] \in DOMAIN Program[op[t]] /\ Step(t).do = "set"
  BY InsideStep DEF SetStep
<1>2. /\ p \in Options \ Lasting
      /\ v \in Operands \cup Kinds \cup {"early"} /\ (p # "header" => v \in Operands)
  BY <1>1, SetTyped
<1>3. MethodAfter(method, p, ValueOf(t, v)) = MethodAfter(method, p, <<v, 0>>)
  <2>1. CASE p = "header"
    BY <2>1 DEF MethodAfter
  <2>2. CASE v \in Operands
    <3>1. ValueOf(t, v) = Null <=> <<v, 0>> = Null
      BY <2>2 DEF ValueOf, Null, Operands, Kinds
    <3>2. QED
      BY <3>1 DEF MethodAfter
  <2>3. QED
    BY <1>2, <2>1, <2>2
<1>4. /\ handle' = [handle EXCEPT ![p] = ValueOf(t, v)]
      /\ method' = MethodAfter(method, p, ValueOf(t, v))
      /\ stack'[t] = Append(stack[t], p)
      /\ UNCHANGED <<buffer, list, op, call, early>> /\ pos'[t] = pos[t] + 1
  BY DEF SetStep, SetOption, setup, TypeOK, Advance
<1>5. \A x : ValueOf(t, x)' = ValueOf(t, x)
  BY <1>4 DEF ValueOf
<1>6. ASSUME NEW a \in Picture, NEW c \in Picture, Agrees(t, a), c = After(Step(t), a)
      PROVE  Agrees(t, c)'
  <2>1. /\ c.h = [a.h EXCEPT ![p] = v] /\ c.m = MethodAfter(a.m, p, <<v, 0>>)
        /\ c.s = Append(a.s, p) /\ c.b = a.b
    BY <1>1, <1>6 DEF After, Put
  <2>2. a.h \in Marked
    BY DEF Picture, Marked
  <2> HIDE DEF p, v
  <2>3. ASSUME NEW q \in Options \ Lasting
        PROVE  handle'[q] = ValueOf(t, c.h[q])
    BY <1>2, <1>4, <1>6, <2>1, <2>2, <2>3 DEF Agrees, Marked, TypeOK
  <2>4. stack'[t] = c.s /\ method' = c.m
    BY <1>3, <1>4, <1>6, <2>1 DEF Agrees
  <2>5. QED
    BY <1>4, <1>5, <1>6, <2>1, <2>3, <2>4 DEF Agrees
<1>7. QED
  BY <1>1, <1>4, <1>6, MovesOn

LEMMA RestoreFollowed ==
  ASSUME TypeOK, NEW t \in Threads, op[t] \notin Quiet, RestoreStep(t), Followed(t)
  PROVE  Followed(t)'
<1> DEFINE p == stack[t][Len(stack[t])]
           r == SubSeq(stack[t], 1, Len(stack[t]) - 1)
<1>1. /\ At(t, "restore") /\ Inside(t) /\ pos[t] \in DOMAIN Program[op[t]] /\ Step(t).do = "restore"
      /\ stack[t] # <<>>
  BY InsideStep DEF RestoreStep
<1>2. p \in Options
  <2>1. stack[t] \in Seq(Options) /\ Len(stack[t]) \in 1 .. Len(stack[t])
    BY <1>1 DEF TypeOK
  <2>2. QED
    BY <2>1
<1>4. /\ handle' = [handle EXCEPT ![p] = Null]
      /\ method' = MethodAfter(method, p, Null)
      /\ stack'[t] = r
      /\ UNCHANGED <<buffer, list, op, call, early>> /\ pos'[t] = pos[t] + 1
  BY DEF RestoreStep, RestoreTop, SetOption, setup, TypeOK, Advance
<1>5. \A x : ValueOf(t, x)' = ValueOf(t, x)
  BY <1>4 DEF ValueOf
<1>6. ASSUME NEW a \in Picture, NEW c \in Picture, Agrees(t, a), c = After(Step(t), a)
      PROVE  Agrees(t, c)'
  <2>1. /\ c.h = [a.h EXCEPT ![p] = "null"] /\ c.m = MethodAfter(a.m, p, Null)
        /\ c.s = r /\ c.b = a.b
    BY <1>1, <1>6 DEF After, Drop, Agrees
  <2>2. a.h \in Marked /\ ValueOf(t, "null") = Null
    BY DEF Picture, Marked, ValueOf, Kinds, Null
  <2> HIDE DEF p, r
  <2>3. ASSUME NEW q \in Options \ Lasting
        PROVE  handle'[q] = ValueOf(t, c.h[q])
    BY <1>2, <1>4, <1>6, <2>1, <2>2, <2>3 DEF Agrees, Marked, TypeOK
  <2>4. stack'[t] = c.s /\ method' = c.m
    BY <1>4, <1>6, <2>1 DEF Agrees
  <2>5. QED
    BY <1>4, <1>5, <1>6, <2>1, <2>3, <2>4 DEF Agrees
<1>7. QED
  BY <1>1, <1>4, <1>6, MovesOn

LEMMA ClearFollowed ==
  ASSUME TypeOK, NEW t \in Threads, op[t] \notin Quiet, ClearStep(t), Followed(t)
  PROVE  Followed(t)'
<1>1. Inside(t) /\ pos[t] \in DOMAIN Program[op[t]] /\ Step(t).do = "clear"
  BY InsideStep DEF ClearStep
<1>2. buffer' = <<>> /\ UNCHANGED <<handle, method, stack, list, op, call, early>> /\ pos'[t] = pos[t] + 1
  BY DEF ClearStep, setup, TypeOK, Advance
<1>3. \A x : ValueOf(t, x)' = ValueOf(t, x)
  BY <1>2 DEF ValueOf
<1>4. ASSUME NEW a \in Picture, NEW c \in Picture, Agrees(t, a), c = After(Step(t), a)
      PROVE  Agrees(t, c)'
  <2>1. c.h = a.h /\ c.m = a.m /\ c.s = a.s /\ c.b = "empty"
    BY <1>1, <1>4 DEF After, Emptied
  <2>2. QED
    BY <1>2, <1>3, <1>4, <2>1 DEF Agrees
<1>5. QED
  BY <1>1, <1>2, <1>4, MovesOn

LEMMA OtherFollowed ==
  ASSUME TypeOK, NEW t \in Threads, op[t] \notin Quiet, RelockStep(t) \/ Accept(t), Followed(t)
  PROVE  Followed(t)'
<1>1. Inside(t) /\ pos[t] \in DOMAIN Program[op[t]] /\ Step(t).do \in {"relock", "parse", "check"}
  BY InsideStep DEF RelockStep, Accept
<1>2. UNCHANGED <<buffer, handle, method, stack, list, op, call, early>> /\ pos'[t] = pos[t] + 1
  BY DEF RelockStep, Accept, setup, clientVars, TypeOK, Advance
<1>3. \A x : ValueOf(t, x)' = ValueOf(t, x)
  BY <1>2 DEF ValueOf
<1>4. ASSUME NEW a \in Picture, NEW c \in Picture, Agrees(t, a), c = After(Step(t), a)
      PROVE  Agrees(t, c)'
  <2>1. c = a
    BY <1>1, <1>4 DEF After
  <2>2. QED
    BY <1>2, <1>3, <1>4, <2>1 DEF Agrees
<1>5. QED
  BY <1>1, <1>2, <1>4, MovesOn

(* The response lands in the buffer if the picture says so.                *)
LEMMA AnsweredFollowed ==
  ASSUME TypeOK, EntryInv, NEW t \in Threads, op[t] \notin Quiet, Answered(t), Followed(t)
  PROVE  Followed(t)'
<1>1. Inside(t) /\ pos[t] \in DOMAIN Program[op[t]] /\ Step(t).do = "send"
  BY DEF Answered, EntryInv, Inside
<1>2. /\ Deliver(t)
      /\ UNCHANGED <<handle, method, stack, list, op, call, early>> /\ pos'[t] = pos[t] + 1
  BY DEF Answered, setup, TypeOK
<1>3. \A x : ValueOf(t, x)' = ValueOf(t, x)
  BY <1>2 DEF ValueOf
<1>4. \A v \in Marks : ValueOf(t, v) = <<"buffer", 0>> <=> v = "buffer"
  <2>1. early[t][1] \in {"null", "json", "stl"}
    BY DEF EntryInv
  <2>2. \A k \in Kinds : ValueOf(t, k) # <<"buffer", 0>> /\ k # "buffer"
    BY DEF ValueOf, Kinds
  <2>3. ValueOf(t, "early") # <<"buffer", 0>>
    BY <2>1 DEF ValueOf, Kinds
  <2>4. QED
    BY <2>2, <2>3 DEF ValueOf, Marks, Operands, Kinds
<1>5. ASSUME NEW a \in Picture, NEW c \in Picture, Agrees(t, a), c = After(Step(t), a)
      PROVE  Agrees(t, c)'
  <2>1. /\ c.h = a.h /\ c.m = a.m /\ c.s = a.s
        /\ c.b = IF a.h["writedata"] # "buffer" THEN a.b
                 ELSE IF a.b = "empty" THEN "own" ELSE "any"
    BY <1>1, <1>5 DEF After, Filled
  <2>2. a.h["writedata"] \in Marks /\ handle["writedata"] = ValueOf(t, a.h["writedata"])
    BY <1>5 DEF Picture, Options, Lasting, Agrees
  <2>3. (c.b = "empty" => buffer' = <<>>) /\ (c.b = "own" => buffer' = <<call[t]>>)
    <3>1. CASE a.h["writedata"] = "buffer"
      <4>1. buffer' = Append(buffer, call[t])
        BY <1>2, <1>4, <2>2, <3>1 DEF Deliver
      <4>2. Append(<<>>, call[t]) = <<call[t]>>
        OBVIOUS
      <4>3. QED
        BY <1>5, <2>1, <3>1, <4>1, <4>2 DEF Agrees
    <3>2. CASE a.h["writedata"] # "buffer"
      <4>1. buffer' = buffer
        BY <1>2, <1>4, <2>2, <3>2 DEF Deliver
      <4>2. QED
        BY <1>5, <2>1, <3>2, <4>1 DEF Agrees
    <3>3. QED
      BY <3>1, <3>2
  <2>4. QED
    BY <1>2, <1>3, <1>5, <2>1, <2>3 DEF Agrees
<1>6. QED
  BY <1>1, <1>2, <1>5, MovesOn

(* A thread follows its program: it began with a blank handle, and no other*)
(* thread is inside a program at the same time.                            *)
LEMMA FollowInductive ==
  ASSUME Discipline, TypeOK, StackInv, OwnerInv, OwnerInv', EntryInv, FollowInv, [Next]_vars
  PROVE  FollowInv'
<1>1. CASE UNCHANGED vars
  BY <1>1, SameFollowed DEF vars, clientVars, setup, threadVars, FollowInv, Inside
<1>2. ASSUME NEW t \in Threads, Moves(t)
      PROVE  FollowInv'
  <2>1. ASSUME NEW u \in Threads \ {t}, Inside(u)'
        PROVE  Followed(u)'
    <3>1. /\ status'[u] = status[u] /\ op'[u] = op[u] /\ call'[u] = call[u] /\ pos'[u] = pos[u]
          /\ stack'[u] = stack[u] /\ early'[u] = early[u]
      BY <1>2, Locals
    <3>2. Inside(u) /\ Running(u)
      BY <2>1, <3>1 DEF Inside, Running
    <3>3. ~Running(t)
      BY <3>2, Alone
    <3>4. QED
      BY <1>2, <3>1, <3>2, <3>3, Shared, SameFollowed DEF FollowInv
  <2>2. ASSUME Inside(t)'
        PROVE  Followed(t)'
    <3>1. CASE (\E o \in Ops : Begin(t, o)) \/ Lock(t)
      <4>1. /\ ~Running(t) /\ Running(t)' /\ pos'[t] = 1
            /\ UNCHANGED <<handle, method, stack>>
        BY <2>2, <3>1 DEF Begin, Lock, Running, Inside, EntryInv, clientVars, TypeOK
      <4>2. \A u \in Threads \ {t} : Running(u) => Running(u)'
        BY <1>2, Locals DEF Running
      <4>3. \A u \in Threads \ {t} : ~(Running(t) /\ Running(u))'
        <5>1. ASSUME NEW u \in Threads \ {t}, Running(t)', Running(u)'
              PROVE  FALSE
          <6>1. status'[t] # "idle" /\ status'[u] # "idle"
            BY <5>1 DEF Running
          <6>2. op'[t] \notin Solo /\ op'[u] \notin Solo /\ op'[t] \in Ops /\ op'[u] \in Ops
            BY <6>1 DEF OwnerInv
          <6>3. op'[t] \notin Unguarded /\ op'[u] \notin Unguarded
            BY <6>2 DEF Discipline
          <6>4. QED
            BY <5>1, <6>3 DEF OwnerInv
        <5>2. QED
          BY <5>1 DEF Running
      <4>4. \A u \in Threads : ~Running(u)
        BY <4>1, <4>2, <4>3
      <4>5. QED
        BY <2>2, <4>1, <4>4, BlankStart DEF Inside
    <3>2. CASE ~(\E o \in Ops : Begin(t, o)) /\ ~Lock(t)
      <4>1. \/ ReturnVersion(t)
            \/ SetStep(t) \/ SetFails(t) \/ KeepStep(t) \/ NoteStep(t) \/ RelockStep(t)
            \/ ClearStep(t) \/ RestoreStep(t) \/ Perform(t) \/ Accept(t) \/ Reject(t) \/ Return(t)
            \/ SetLanguage(t) \/ SetAdditionalHeaders(t) \/ Unwind(t) \/ End(t)
            \/ Answered(t) \/ PerformFails(t)
            \/ KeepFails(t) \/ SocketStep(t) \/ SocketEnds(t)
        BY <1>2, <3>2 DEF Moves, ThreadStep, ProgramStep, Answer
      <4>2. status'[t] \in {"run", "perform"}
        BY <2>2 DEF Inside
      <4>3. ~(\/ SetFails(t) \/ Reject(t) \/ Return(t) \/ SetLanguage(t) \/ SetAdditionalHeaders(t)
              \/ Unwind(t) \/ End(t) \/ PerformFails(t) \/ KeepFails(t))
        BY <4>2 DEF KeepFails, SetFails, Reject, Return, SetLanguage, SetAdditionalHeaders, Unwind, End, Forget,
                    PerformFails, Leave, TypeOK
      <4>4. ~SocketStep(t) /\ ~SocketEnds(t)
        BY <2>2, SocketTyped DEF SocketStep, SocketEnds, EntryInv, Inside
      <4>5. /\ op'[t] = op[t] /\ op[t] \notin Quiet /\ Inside(t) /\ Followed(t)
        <5>1. op'[t] = op[t] /\ status[t] \in {"run", "perform"}
          BY <4>1, <4>2, <4>3, <4>4 DEF ReturnVersion, SetStep, KeepStep, NoteStep, RelockStep,
             ClearStep, RestoreStep, Perform, Accept, Answered, At
        <5>2. QED
          BY <2>2, <5>1 DEF Inside, FollowInv
      <4>6. ~(KeepStep(t) \/ NoteStep(t))
        BY <4>5, InsideStep DEF KeepStep, NoteStep
      <4>7. CASE ReturnVersion(t) \/ Perform(t)
        BY <4>5, <4>7, SameFollowed DEF ReturnVersion, Perform, clientVars, setup
      <4>8. QED
        BY <4>1, <4>3, <4>4, <4>5, <4>6, <4>7, SetFollowed, RestoreFollowed, ClearFollowed,
           OtherFollowed, AnsweredFollowed
    <3>3. QED
      BY <3>1, <3>2
  <2>3. QED
    BY <2>1, <2>2 DEF FollowInv
<1>3. Next => \E t \in Threads : Moves(t)
  BY DEF Next, Moves
<1>4. QED
  BY <1>1, <1>2, <1>3

LEMMA InitFollow == Init => FollowInv
  BY DEF Init, FollowInv, Inside

LEMMA FollowInvariant == ASSUME Discipline PROVE Spec => [](EntryInv /\ FollowInv)
<1>1. TypeOK /\ StackInv /\ OwnerInv /\ OwnerInv' /\ EntryInv /\ FollowInv /\ [Next]_vars => FollowInv'
  BY FollowInductive
<1>2. QED
  BY <1>1, EntryInductive, InitEntry, InitFollow, TypeCorrect, StackInvariant, OwnerInvariant,
     PTL DEF Spec

(* A thread at an instruction sees the client as its method needs it.      *)
LEMMA FollowedFits ==
  ASSUME NEW t \in Threads, Inside(t), FollowInv, pos[t] \in DOMAIN Program[op[t]]
  PROVE  \E a \in Picture : Agrees(t, a) /\ Fits(op[t], Step(t), a)
<1> DEFINE P == Program[op[t]]
           n == pos[t]
<1>1. PICK A : Path(P, A) /\ Len(A) = n /\ A[1] \in Blanks /\ Agrees(t, A[n])
  BY DEF FollowInv, Followed
<1>2. P \in Seq(AnyInstr)
  BY ProgramsTyped DEF Inside, AnyInstr
<1>3. \E c : Leads(op[t], P, A[1], c)
  BY <1>1, ProgramLeads DEF Blanks, Inside
<1>4. n \in 1 .. Len(P) /\ A \in Seq(Picture)
  BY <1>1, <1>2 DEF Path
<1>5. Fits(op[t], P[n], A[n])
  <2>1. \A i \in 1 .. Len(A) : i <= Len(P) => Fits(op[t], P[i], A[i])
    BY <1>1, <1>3 DEF Leads
  <2>2. QED
    BY <1>1, <1>2, <1>4, <2>1
<1>6. A[n] \in Picture
  BY <1>1, <1>4
<1>7. QED
  BY <1>1, <1>5, <1>6 DEF Step

(* The setters neither make requests nor read responses.                   *)
LEMMA QuietMethods ==
  ASSUME NEW t \in Threads, op[t] \in Quiet, pos[t] \in DOMAIN Program[op[t]]
  PROVE  Step(t).do \notin {"send", "parse"}
  BY SwitchPrograms DEF Quiet, Step, Keep, Note, Relock, Socket

LEMMA RequestFollows ==
  ASSUME TypeOK, EntryInv, FollowInv
  PROVE  RequestAsIntended
<1> SUFFICES ASSUME NEW t \in Threads, status[t] = "perform"
             PROVE
        /\ Effective.verb = Step(t).verb
        /\ Effective.url = <<"call", call[t]>>
        /\ Effective.body = IF Step(t).body = "own" THEN <<"call", call[t]>> ELSE Null
        /\ Effective.headers[1] = Step(t).headers
        /\ Effective.conditional <=> op[t] = "download"
        /\ OwnOrNull(t, handle["timeout"]) /\ OwnOrNull(t, handle["readfn"])
        /\ IF Step(t).sink = "any" THEN handle["writefn"] = Null
           ELSE /\ handle["writefn"] = ValueOf(t, Step(t).sink)
                /\ handle["writedata"] = ValueOf(t, Step(t).sink)
  BY DEF RequestAsIntended
<1>1. op[t] \in DOMAIN Program /\ pos[t] \in DOMAIN Program[op[t]] /\ Step(t).do = "send"
  BY DEF EntryInv
<1>2. Inside(t)
  BY <1>1, QuietMethods DEF Inside
<1>3. PICK a \in Picture : Agrees(t, a) /\ Fits(op[t], Step(t), a)
  BY <1>1, <1>2, FollowedFits
<1> DEFINE i == Step(t)
           h == a.h
<1>4. FitsSend(op[t], i, a)
  BY <1>1, <1>3 DEF Fits
<1>5. i \in SendInstr
  <2>1. i \in Instr \cup HastyInstr
    BY <1>1, <1>2, ProgramsTyped DEF Inside, Step
  <2>2. QED
    BY <1>1, <2>1 DEF Instr, SetInstr, HastyInstr, OtherInstr
<1>6. /\ method = a.m /\ a.m \in Methods
      /\ \A p \in Options \ Lasting : handle[p] = ValueOf(t, h[p]) /\ h[p] \in Marks
  BY <1>3 DEF Agrees, Picture
<1>7. /\ ValueOf(t, "null") = Null /\ ValueOf(t, "own") = <<"call", call[t]>>
      /\ \A v \in Verbs : ValueOf(t, v) = <<v, 0>>
      /\ \A k \in Kinds : ValueOf(t, k)[1] = k
      /\ ValueOf(t, "on") = <<"on", 0>> /\ ValueOf(t, "early") = early[t]
  BY DEF ValueOf, Kinds, Null, Verbs
<1>8. <<"call", call[t]>> # Null /\ <<"on", 0>> # Null /\ \A v \in Verbs : <<v, 0>> # Null /\ v # "null"
  BY DEF Null, Verbs
<1>9. /\ handle["custom"] = ValueOf(t, h["custom"]) /\ handle["url"] = ValueOf(t, h["url"])
      /\ handle["header"] = ValueOf(t, h["header"]) /\ handle["form"] = ValueOf(t, h["form"])
      /\ handle["size"] = ValueOf(t, h["size"]) /\ handle["fields"] = ValueOf(t, h["fields"])
      /\ handle["timecond"] = ValueOf(t, h["timecond"]) /\ handle["timeout"] = ValueOf(t, h["timeout"])
      /\ handle["readfn"] = ValueOf(t, h["readfn"]) /\ handle["writefn"] = ValueOf(t, h["writefn"])
      /\ handle["writedata"] = ValueOf(t, h["writedata"])
  BY <1>6 DEF Options, Lasting
<1> HIDE DEF i, h
<1>10. Effective.verb = i.verb
  <2>1. i.verb = IF h["custom"] # "null" THEN h["custom"]
                 ELSE IF a.m = "FORM" THEN "POST" ELSE a.m
    BY <1>4 DEF FitsSend, h
  <2>2. i.verb \in Verbs
    BY <1>5 DEF SendInstr
  <2>3. Effective.verb = IF handle["custom"] # Null THEN handle["custom"][1]
                         ELSE IF method = "FORM" THEN "POST" ELSE method
    BY DEF Effective
  <2>4. CASE h["custom"] = "null"
    BY <1>6, <1>7, <1>9, <2>1, <2>3, <2>4
  <2>5. CASE h["custom"] # "null"
    <3>1. handle["custom"] = <<i.verb, 0>> /\ handle["custom"] # Null
      BY <1>7, <1>8, <1>9, <2>1, <2>2, <2>5
    <3>2. QED
      BY <2>3, <3>1
  <2>6. QED
    BY <2>4, <2>5
<1>11. Effective.url = <<"call", call[t]>>
  BY <1>4, <1>7, <1>9 DEF FitsSend, Effective, h
<1>12. Effective.body = IF i.body = "own" THEN <<"call", call[t]>> ELSE Null
  <2>1. Effective.body = CASE method = "FORM" -> handle["form"]
                  [] method = "POST" -> IF handle["size"] = Null THEN Null ELSE handle["fields"]
                  [] OTHER -> Null
    BY DEF Effective
  <2>2. \/ i.body = "own" /\ a.m = "FORM" /\ h["form"] = "own"
        \/ i.body = "own" /\ a.m = "POST" /\ h["size"] = "own" /\ h["fields"] = "own"
        \/ i.body = "null" /\ a.m \in {"GET", "HEAD"}
        \/ i.body = "null" /\ h["form"] = "null" /\ h["size"] = "null"
    BY <1>4 DEF FitsSend, h
  <2>3. QED
    BY <1>6, <1>7, <1>8, <1>9, <2>1, <2>2
<1>13. Effective.headers[1] = i.headers
  <2>1. \/ h["header"] = i.headers
        \/ h["header"] = "early" /\ op[t] \in Hasty /\ i.headers = EarlyKind(op[t])
    BY <1>4 DEF FitsSend, h
  <2>2. Effective.headers = handle["header"] /\ i.headers \in Kinds
    BY <1>5 DEF Effective, SendInstr
  <2>3. op[t] \in Hasty => early[t][1] = EarlyKind(op[t])
    BY DEF EntryInv
  <2>4. QED
    BY <1>7, <1>9, <2>1, <2>2, <2>3
<1>14. Effective.conditional <=> op[t] = "download"
  <2>1. h["timecond"] = IF op[t] = "download" THEN "on" ELSE "null"
    BY <1>4 DEF FitsSend, h
  <2>2. Effective.conditional <=> handle["timecond"] # Null
    BY DEF Effective
  <2>3. QED
    BY <1>7, <1>8, <1>9, <2>1, <2>2
<1>15. OwnOrNull(t, handle["timeout"]) /\ OwnOrNull(t, handle["readfn"])
  BY <1>4, <1>7, <1>9 DEF FitsSend, OwnOrNull, h
<1>16. IF i.sink = "any" THEN handle["writefn"] = Null
       ELSE /\ handle["writefn"] = ValueOf(t, i.sink)
            /\ handle["writedata"] = ValueOf(t, i.sink)
  BY <1>4, <1>7, <1>9 DEF FitsSend, h
<1>17. QED
  BY <1>10, <1>11, <1>12, <1>13, <1>14, <1>15, <1>16 DEF i

LEMMA ResponseFollows ==
  ASSUME FollowInv
  PROVE  ResponseIsOwn
<1> SUFFICES ASSUME NEW t \in Threads, At(t, "parse")
             PROVE  buffer = <<call[t]>>
  BY DEF ResponseIsOwn
<1>1. op[t] \in DOMAIN Program /\ pos[t] \in DOMAIN Program[op[t]] /\ Step(t).do = "parse"
  BY DEF At, Step
<1>2. Inside(t)
  BY <1>1, QuietMethods DEF Inside, At
<1>3. PICK a \in Picture : Agrees(t, a) /\ Fits(op[t], Step(t), a)
  BY <1>1, <1>2, FollowedFits
<1>4. QED
  BY <1>1, <1>3 DEF Fits, Agrees

(* Whatever requests were made before and however they ended, each request *)
(* has the verb, target, body, header list, time-out and place for the     *)
(* response that its method means it to have (CallGet ... DeleteDirectory).*)
THEOREM RequestsAsIntended == ASSUME Discipline PROVE Spec => []RequestAsIntended
<1>1. TypeOK /\ EntryInv /\ FollowInv => RequestAsIntended
  BY RequestFollows
<1>2. QED
  BY <1>1, FollowInvariant, TypeCorrect, PTL

(* What a method parses is the response to its own request and nothing     *)
(* else: no part of an earlier response, and none of another thread's.     *)
THEOREM ResponsesAreOwn == ASSUME Discipline PROVE Spec => []ResponseIsOwn
<1>1. FollowInv => ResponseIsOwn
  BY ResponseFollows
<1>2. QED
  BY <1>1, FollowInvariant, PTL
=============================================================================
