-------------------------------- MODULE Rpc --------------------------------
(***************************************************************************)
(* What a caller of ZmqClient::Call is promised: calls are made one after  *)
(* another, a call issues its request at most once, the server executes    *)
(* an issued request at most once (perhaps after the caller gave up), and  *)
(* a call whose request was issued is answered by the reply to that        *)
(* request or by an error.  Module ZmqClient implements this one.          *)
(***************************************************************************)
EXTENDS Naturals

CONSTANT MaxCalls     \* bound on the number of calls

VARIABLES
    calls,        \* number of calls made so far; the last one has this number
    busy,         \* a call is in progress
    issued,       \* calls whose request was handed to the network
    executions,   \* how often the server executed each call's request
    result        \* how the last finished call ended

rpcVars == <<calls, busy, issued, executions, result>>

Calls == 1 .. MaxCalls

(* Ways a call ends: the reply to call r, or an error that carries none.   *)
Reply(r)  == [kind |-> "reply", of |-> r]
Errors    == {"Empty", "Timeout", "Failed", "Preempted"}
Error(e)  == [kind |-> e, of |-> 0]
NoResult  == [kind |-> "none", of |-> 0]
Results   == {Reply(r) : r \in Calls} \cup {Error(e) : e \in Errors}
             \cup {NoResult}

RpcInit ==
    /\ calls = 0
    /\ busy = FALSE
    /\ issued = {}
    /\ executions = [c \in Calls |-> 0]
    /\ result = NoResult

Begin ==
    /\ ~busy /\ calls < MaxCalls
    /\ calls' = calls + 1
    /\ busy' = TRUE
    /\ result' = NoResult
    /\ UNCHANGED <<issued, executions>>

Issue ==
    /\ busy /\ calls \notin issued
    /\ issued' = issued \cup {calls}
    /\ UNCHANGED <<calls, busy, executions, result>>

Execute(c) ==
    /\ c \in issued /\ executions[c] = 0
    /\ executions' = [executions EXCEPT ![c] = 1]
    /\ UNCHANGED <<calls, busy, issued, result>>

(* A call that issued its request gets no reply but its own.  A call that  *)
(* gave up before sending may still be handed an older call's reply: that  *)
(* is all the code guarantees (see ReplyIsForThisCall in ZmqClient).       *)
Answer(c) ==
    /\ busy
    /\ c \in issued /\ executions[c] = 1
    /\ calls \in issued => c = calls
    /\ busy' = FALSE
    /\ result' = Reply(c)
    /\ UNCHANGED <<calls, issued, executions>>

GiveUp(e) ==
    /\ busy
    /\ busy' = FALSE
    /\ result' = Error(e)
    /\ UNCHANGED <<calls, issued, executions>>

RpcNext ==
    \/ Begin
    \/ Issue
    \/ \E c \in Calls : Execute(c) \/ Answer(c)
    \/ \E e \in Errors : GiveUp(e)

RpcSpec == RpcInit /\ [][RpcNext]_rpcVars
=============================================================================
