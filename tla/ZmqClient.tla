----------------------------- MODULE ZmqClient -----------------------------
(***************************************************************************)
(* mujinzmq::ZmqClient (src/src/mujinzmq.cpp): one thread calling Call()   *)
(* over and over on a ZMQ_REQ socket, the network and the ZMQ_REP server   *)
(* behind it.  A REQ socket is in lockstep: after a send it must receive   *)
(* before it can send again, a send out of turn fails (EFSM), and closing  *)
(* the socket forgets the request it was waiting for.                      *)
(*                                                                         *)
(* send, poll and recv of the binding never throw EAGAIN (zmq.hpp:1856,    *)
(* 1948: EAGAIN is a false return, impossible for a blocking call without  *)
(* a socket timeout; zmq_poll does not report it), so the two              *)
(* "EAGAIN: sleep and continue" branches of Call are unreachable and have  *)
(* no action here.                                                         *)
(***************************************************************************)
EXTENDS Naturals

CONSTANTS
    MaxCalls,     \* bound on the number of calls
    Timeouts,     \* the values of Call's parameter "timeout", in clock ticks
    HasPreempt    \* whether the client was built with a _preemptfn

ASSUME ZmqAssumption ==
    /\ MaxCalls \in Nat
    /\ Timeouts \subseteq Nat
    /\ HasPreempt \in BOOLEAN

VARIABLES
    \* the caller's thread inside Call
    pc,           \* where it is ("idle": not in Call)
    calls,        \* number of calls so far; the current one has this number
    timeout,      \* its timeout
    elapsed,      \* GetMilliTime() - starttime, capped at timeout + 1
    waited,       \* time spent in the current zmq::poll
    recreated,    \* recreatedonce
    received,     \* receivedonce
    result,       \* what the last finished call returned or threw
    \* the socket, the network and the server
    awaiting,     \* call whose reply _socket is waiting for, 0 if none
    requests,     \* calls whose request is on its way to the server
    replies,      \* calls whose reply is on its way back
    executions,   \* how often the server executed each call's request
    \* history
    issued,       \* calls whose request left through the send on line 254
    faults        \* errors of the socket library during the current call

clientVars == <<pc, calls, timeout, elapsed, waited, recreated, received, result>>
netVars    == <<requests, replies, executions>>
vars       == <<clientVars, awaiting, netVars, issued, faults>>

Calls == 1 .. MaxCalls

R == INSTANCE Rpc WITH busy <- pc # "idle"

PCs == {"idle", "sendCond", "send", "sendPreempt", "sendLate",
        "recvCond", "recvPreempt", "poll", "recv", "recvLate"}

FlagsOK ==
    /\ recreated \in BOOLEAN
    /\ received \in BOOLEAN

DataOK ==
    /\ pc \in PCs
    /\ calls \in 0 .. MaxCalls
    /\ timeout \in Timeouts \cup {0}
    /\ elapsed \in 0 .. timeout + 1
    /\ waited \in 0 .. timeout
    /\ result \in R!Results
    /\ awaiting \in 0 .. MaxCalls
    /\ requests \subseteq Calls
    /\ replies \subseteq Calls
    /\ executions \in [Calls -> Nat]
    /\ issued \subseteq Calls
    /\ faults \in Nat

TypeOK == DataOK /\ FlagsOK

Init ==
    /\ pc = "idle"
    /\ calls = 0
    /\ timeout = 0 /\ elapsed = 0 /\ waited = 0
    /\ recreated = FALSE /\ received = FALSE
    /\ result = R!NoResult
    /\ awaiting = 0
    /\ requests = {} /\ replies = {}
    /\ executions = [c \in Calls |-> 0]
    /\ issued = {}
    /\ faults = 0

-----------------------------------------------------------------------------
(* _InitializeSocket: a new REQ socket, which waits for nothing.           *)
_InitializeSocket == awaiting' = 0

(* Leaving Call, by return or by exception.                                *)
Return(r) ==
    /\ pc' = "idle"
    /\ result' = r
    /\ UNCHANGED <<calls, timeout, elapsed, waited, recreated, received>>

Goto(label) ==
    /\ pc' = label
    /\ UNCHANGED <<calls, timeout, elapsed, waited, recreated, received, result>>

(* Mutant: recreatedonce is not reset for a new call.                      *)
BeginRecreatedNotReset ==
    /\ pc = "idle" /\ calls < MaxCalls
    /\ pc' = "sendCond"
    /\ calls' = calls + 1
    /\ timeout' \in Timeouts
    /\ elapsed' = 0 /\ waited' = 0
    /\ recreated' = recreated /\ received' = FALSE
    /\ result' = R!NoResult
    /\ faults' = 0
    /\ UNCHANGED <<awaiting, netVars, issued>>

Begin ==
    /\ pc = "idle" /\ calls < MaxCalls
    /\ pc' = "sendCond"
    /\ calls' = calls + 1
    /\ timeout' \in Timeouts
    /\ elapsed' = 0 /\ waited' = 0
    /\ recreated' = FALSE /\ received' = FALSE
    /\ result' = R!NoResult
    /\ faults' = 0
    /\ UNCHANGED <<awaiting, netVars, issued>>

(* while (GetMilliTime() - starttime < timeout*1000.0)                     *)
SendCond ==
    /\ pc = "sendCond"
    /\ Goto(IF elapsed < timeout THEN "send" ELSE "sendLate")
    /\ UNCHANGED <<awaiting, netVars, issued, faults>>

SendOk ==
    /\ pc = "send"
    /\ awaiting = 0
    /\ awaiting' = calls
    /\ requests' = requests \cup {calls}
    /\ issued' = issued \cup {calls}
    /\ Goto("sendLate")
    /\ UNCHANGED <<replies, executions, faults>>

(* The catch block of the send loop: re-create the socket once, then fail. *)
SendError ==
    /\ pc = "send"
    /\ \/ /\ ~recreated
          /\ _InitializeSocket
          /\ recreated' = TRUE
          /\ pc' = "sendPreempt"
          /\ UNCHANGED <<calls, timeout, elapsed, waited, received, result>>
       \/ /\ recreated
          /\ Return(R!Error("Failed"))
          /\ UNCHANGED awaiting
    /\ UNCHANGED <<netVars, issued>>

(* Mutant: a refused send is taken for a request already sent.             *)
SendRefusedIgnored ==
    /\ pc = "send" /\ awaiting # 0
    /\ issued' = issued \cup {calls}
    /\ Goto("sendLate")
    /\ UNCHANGED <<awaiting, netVars, faults>>

(* EFSM: the socket still waits for the reply of an abandoned call.        *)
SendRefused ==
    /\ awaiting # 0
    /\ SendError
    /\ UNCHANGED faults

(* Any other error of the library; a failed send transmits nothing.        *)
SendFault ==
    /\ awaiting = 0
    /\ SendError
    /\ faults' = faults + 1

(* if (!!_preemptfn) _preemptfn(checkpreemptbits), in both loops           *)
PreemptPasses ==
    /\ \/ /\ pc = "sendPreempt"
          /\ Goto("sendCond")
       \/ /\ pc = "recvPreempt"
          /\ pc' = "poll"
          /\ waited' = 0
          /\ UNCHANGED <<calls, timeout, elapsed, recreated, received, result>>
    /\ UNCHANGED <<awaiting, netVars, issued, faults>>

PreemptThrows ==
    /\ HasPreempt
    /\ pc \in {"sendPreempt", "recvPreempt"}
    /\ Return(R!Error("Preempted"))
    /\ UNCHANGED <<awaiting, netVars, issued, faults>>

(* Line 291: the clock is read again after the loop.                       *)
SendLate ==
    /\ pc = "sendLate"
    /\ \/ /\ elapsed > timeout
          /\ Return(R!Error("Timeout"))
       \/ /\ elapsed <= timeout
          /\ pc' = "recvCond"
          /\ recreated' = FALSE
          /\ received' = FALSE
          /\ UNCHANGED <<calls, timeout, elapsed, waited, result>>
    /\ UNCHANGED <<awaiting, netVars, issued, faults>>

(* while (!receivedonce || GetMilliTime() - starttime < timeout * 1000.0)  *)
RecvCond ==
    /\ pc = "recvCond"
    /\ Goto(IF ~received \/ elapsed < timeout THEN "recvPreempt" ELSE "recvLate")
    /\ UNCHANGED <<awaiting, netVars, issued, faults>>

(* Mutants: revents is not tested, or only that something was sent.        *)
ReplyReadyUntested == TRUE
ReplyReadyIfSent   == awaiting # 0

(* zmq::poll reports ZMQ_POLLIN: the awaited reply has arrived.            *)
ReplyReady == awaiting # 0 /\ awaiting \in replies

PollReady ==
    /\ pc = "poll"
    /\ ReplyReady
    /\ received' = TRUE
    /\ pc' = "recv"
    /\ UNCHANGED <<calls, timeout, elapsed, waited, recreated, result>>
    /\ UNCHANGED <<awaiting, netVars, issued, faults>>

(* Mutant: the test that makes the wait infinite is inverted.              *)
PollTimesOutInverted ==
    /\ pc = "poll"
    /\ ~ReplyReady
    /\ timeout = 0
    /\ Return(R!Error("Timeout"))
    /\ UNCHANGED <<awaiting, netVars, issued, faults>>

(* zmq::poll waits for the whole timeout again, or for ever (-1) when it   *)
(* is 0.                                                                   *)
PollTimesOut ==
    /\ pc = "poll"
    /\ ~ReplyReady
    /\ timeout > 0 /\ waited = timeout
    /\ Return(R!Error("Timeout"))
    /\ UNCHANGED <<awaiting, netVars, issued, faults>>

RecvOk ==
    /\ pc = "recv"
    /\ Return(R!Reply(awaiting))
    /\ replies' = replies \ {awaiting}
    /\ awaiting' = 0
    /\ UNCHANGED <<requests, executions, issued, faults>>

(* Mutant: "trying again" sends the request a second time.                 *)
RecvFaultResends ==
    /\ pc \in {"poll", "recv"}
    /\ faults' = faults + 1
    /\ \/ /\ ~recreated
          /\ _InitializeSocket
          /\ recreated' = TRUE
          /\ pc' = "sendCond"
          /\ UNCHANGED <<calls, timeout, elapsed, waited, received, result>>
       \/ /\ recreated
          /\ Return(R!Error("Failed"))
          /\ UNCHANGED awaiting
    /\ UNCHANGED <<netVars, issued>>

(* zmq::poll or recv throws: re-create the socket once; the request is not *)
(* sent again.                                                             *)
RecvFault ==
    /\ pc \in {"poll", "recv"}
    /\ faults' = faults + 1
    /\ \/ /\ ~recreated
          /\ _InitializeSocket
          /\ recreated' = TRUE
          /\ pc' = "recvCond"
          /\ UNCHANGED <<calls, timeout, elapsed, waited, received, result>>
       \/ /\ recreated
          /\ Return(R!Error("Failed"))
          /\ UNCHANGED awaiting
    /\ UNCHANGED <<netVars, issued>>

(* Line 380: out of time after a recv fault; at the exact boundary Call    *)
(* returns the empty string.                                               *)
RecvLate ==
    /\ pc = "recvLate"
    /\ Return(R!Error(IF elapsed > timeout THEN "Failed" ELSE "Empty"))
    /\ UNCHANGED <<awaiting, netVars, issued, faults>>

(* The owner (BinPickingTaskZmqResource::Initialize) replaces the client:  *)
(* _DestroySocket closes the socket and a new one is opened.               *)
Reconnect ==
    /\ pc = "idle"
    /\ _InitializeSocket
    /\ UNCHANGED <<clientVars, netVars, issued, faults>>

Tick ==
    /\ pc # "idle"
    /\ elapsed <= timeout \/ (pc = "poll" /\ waited < timeout)
    /\ elapsed' = IF elapsed <= timeout THEN elapsed + 1 ELSE elapsed
    /\ waited' = IF pc = "poll" /\ waited < timeout THEN waited + 1 ELSE waited
    /\ UNCHANGED <<pc, calls, timeout, recreated, received, result>>
    /\ UNCHANGED <<awaiting, netVars, issued, faults>>

-----------------------------------------------------------------------------
(* The server and the network (external).  A closed socket lingers: its    *)
(* request may still be delivered, or be lost with the connection.  A      *)
(* reply that poll reported is in the socket and cannot be lost.           *)
Serve(c) ==
    /\ c \in requests
    /\ requests' = requests \ {c}
    /\ executions' = [executions EXCEPT ![c] = @ + 1]
    /\ replies' = replies \cup {c}
    /\ UNCHANGED <<clientVars, awaiting, issued, faults>>

Lose(c) ==
    /\ \/ c \in requests
       \/ c \in replies /\ ~(pc = "recv" /\ c = awaiting)
    /\ requests' = requests \ {c}
    /\ replies' = replies \ {c}
    /\ UNCHANGED <<clientVars, awaiting, executions, issued, faults>>

-----------------------------------------------------------------------------
CallStep ==
    \/ SendCond \/ SendOk \/ SendRefused \/ SendLate
    \/ PreemptPasses
    \/ RecvCond \/ PollReady \/ PollTimesOut \/ RecvOk \/ RecvLate

Fault == SendFault \/ RecvFault

Next ==
    \/ Begin
    \/ CallStep
    \/ PreemptThrows
    \/ Fault
    \/ Reconnect
    \/ Tick
    \/ \E c \in Calls : Serve(c) \/ Lose(c)

Spec == Init /\ [][Next]_vars

(* The caller's thread keeps running and the clock keeps ticking.  Nothing *)
(* is assumed of the server, the network or the preempt callback, and no   *)
(* fault is forced to happen.                                              *)
FairSpec == Spec /\ WF_vars(CallStep) /\ WF_vars(Tick)

-----------------------------------------------------------------------------
(* A call that did send its request never returns the reply to another     *)
(* one, whatever an earlier call left behind: timed out, interrupted and   *)
(* preempted calls abandon the socket in mid-conversation (lines 286-289,  *)
(* 307-308, 349) and their replies may arrive at any later time.           *)
SentReplyIsOwn ==
    result.kind = "reply" /\ calls \in issued => result.of = calls

(* The server executes the command of a call at most once, although Call   *)
(* re-creates the socket and "tries again" in both loops.                  *)
ExecutedAtMostOnce == \A c \in Calls : executions[c] <= 1

(* Call reports MEC_Failed only if the socket library failed during this   *)
(* very call: the refused send on a socket that an abandoned call left     *)
(* waiting is absorbed by the one re-creation the send loop allows.        *)
AbandonedCallIsHarmless == result.kind = "Failed" => faults > 0

(* With a positive timeout every Call ends, even if the server is dead and *)
(* every message is lost.                                                  *)
CallTerminates == pc # "idle" /\ timeout > 0 ~> pc = "idle"

(* Call implements the at-most-once calls of module Rpc.                   *)
ImplementsRpc == R!RpcSpec

-----------------------------------------------------------------------------
(* Claims of the repository that the code does not keep (README, findings) *)

(* "makes request and receives reply" (mujinzmq.h:84): the reply returned  *)
(* is the reply to this request.                                           *)
ReplyIsForThisCall == result.kind = "reply" => result.of = calls
=============================================================================
