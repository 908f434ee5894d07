-------------------------- MODULE ZmqClientProofs --------------------------
(***************************************************************************)
(* Proofs about ZmqClient for every number of calls, every set of timeouts *)
(* and with or without a preempt callback.                                 *)
(***************************************************************************)
EXTENDS ZmqClient, TLAPS

(* The request of the current call has not been sent while Call is in its  *)
(* send loop.                                                              *)
Sending == pc \in {"sendCond", "send", "sendPreempt"}

CallInv ==
    /\ issued \subseteq 1 .. calls
    /\ Sending => calls \in Calls \ issued
    /\ pc # "idle" => calls \in Calls /\ result = R!NoResult

(* Each request exists once: on the wire, or executed, or lost.            *)
NetInv ==
    /\ requests \subseteq issued
    /\ \A c \in Calls \ issued : executions[c] = 0
    /\ \A c \in requests : executions[c] = 0
    /\ \A c \in Calls : executions[c] <= 1
    /\ \A c \in replies : executions[c] = 1 /\ c \in issued

(* What the socket can be waiting for, and what a re-creation excludes.    *)
SocketInv ==
    /\ awaiting # 0 => awaiting \in issued
    /\ pc # "idle" /\ calls \in issued => awaiting \in {0, calls}
    /\ Sending /\ recreated => awaiting = 0
    /\ pc = "recv" => ReplyReady

(* An exit of the receive loop that is not a timeout had a fault.          *)
FaultInv ==
    /\ pc \in {"recvCond", "recvPreempt", "poll", "recvLate"} /\ received
          => faults > 0
    /\ pc = "recvLate" => received
    /\ result.kind = "Failed" => faults > 0

ResultInv == result.kind = "reply" /\ calls \in issued => result.of = calls

IInv == TypeOK /\ CallInv /\ NetInv /\ SocketInv /\ FaultInv /\ ResultInv

-----------------------------------------------------------------------------
(* The shape of results, used wherever a call returns.                     *)
LEMMA ResultShape ==
    /\ R!NoResult \in R!Results
    /\ R!NoResult.kind = "none"
    /\ \A r \in Calls : /\ R!Reply(r) \in R!Results
                        /\ R!Reply(r).kind = "reply"
                        /\ R!Reply(r).of = r
    /\ \A e \in R!Errors : /\ R!Error(e) \in R!Results
                           /\ R!Error(e).kind = e
                           /\ e # "reply"
    /\ R!Errors = {"Empty", "Timeout", "Failed", "Preempted"}
  BY DEF R!NoResult, R!Results, R!Reply, R!Error, R!Errors, R!Calls, Calls

LEMMA InitIInv == Init => IInv
  <1> SUFFICES ASSUME Init PROVE IInv
    OBVIOUS
  <1> USE ZmqAssumption DEF Init, Calls, PCs, Sending
  <1>0. result \in R!Results /\ result.kind = "none"
    BY ResultShape
  <1>1. DataOK /\ FlagsOK
    <2>1. DataOK
      BY <1>0 DEF DataOK
    <2>2. FlagsOK
      BY DEF FlagsOK
    <2> QED
      BY <2>1, <2>2
  <1>2. CallInv /\ NetInv /\ SocketInv
    BY DEF CallInv, NetInv, SocketInv
  <1>3. FaultInv /\ ResultInv
    BY <1>0 DEF FaultInv, ResultInv
  <1> QED
    BY <1>1, <1>2, <1>3 DEF IInv, TypeOK

(* The flags are Booleans; kept apart from the rest, which is arithmetic.   *)
LEMMA NextFlags == IInv /\ [Next]_vars => FlagsOK'
  BY DEF IInv, TypeOK, FlagsOK, Next, CallStep, Fault, vars, clientVars,
         Begin, SendCond, SendOk, SendRefused, SendFault, SendError, SendLate,
         PreemptPasses, PreemptThrows, RecvCond, PollReady, PollTimesOut,
         RecvOk, RecvFault, RecvLate, Reconnect, Tick, Serve, Lose, Goto, Return

LEMMA ClockAtZero == \A t \in Nat : 0 \in 0 .. t + 1 /\ 0 \in 0 .. t
  OBVIOUS

(* Every step preserves the rest of the inductive invariant.               *)
LEMMA NextInv ==
    IInv /\ [Next]_vars =>
        DataOK' /\ CallInv' /\ NetInv' /\ SocketInv' /\ FaultInv' /\ ResultInv'
  <1> DEFINE Goal == DataOK /\ CallInv /\ NetInv /\ SocketInv /\ FaultInv
                     /\ ResultInv
  <1> SUFFICES ASSUME IInv, [Next]_vars PROVE Goal'
    OBVIOUS
  <1> USE ZmqAssumption
      DEF IInv, TypeOK, DataOK, CallInv, NetInv, SocketInv, FaultInv, ResultInv,
          Calls, PCs, Sending, clientVars, netVars
  <1>0. /\ R!NoResult \in R!Results /\ R!NoResult.kind = "none"
        /\ \A e \in {"Empty", "Timeout", "Failed", "Preempted"} :
              R!Error(e) \in R!Results /\ R!Error(e).kind = e
    BY ResultShape
  <1>f. /\ R!Error("Failed") \in R!Results
        /\ R!Error("Failed").kind = "Failed"
    BY ResultShape
  <1>1. CASE Begin
    <2>0. timeout' \in Timeouts /\ timeout' \in Nat
      BY <1>1 DEF Begin
    <2>2. calls' \in Calls \ issued
      BY <1>1 DEF Begin
    <2>1. DataOK'
      <3>1. elapsed' \in 0 .. timeout' + 1 /\ waited' \in 0 .. timeout'
        BY <1>1, <2>0, ClockAtZero DEF Begin
      <3>2. /\ requests' \subseteq Calls /\ replies' \subseteq Calls
            /\ executions' \in [Calls -> Nat] /\ issued' \subseteq Calls
            /\ awaiting' \in 0 .. MaxCalls
        BY <1>1 DEF Begin
      <3>3. pc' \in PCs /\ result' \in R!Results /\ faults' \in Nat
        BY <1>0, <1>1 DEF Begin
      <3>4. calls' \in 0 .. MaxCalls /\ timeout' \in Timeouts \cup {0}
        BY <2>0, <2>2
      <3> QED
        BY <3>1, <3>2, <3>3, <3>4
    <2>3. CallInv'
      BY <1>1, <2>2 DEF Begin
    <2>4. NetInv' /\ SocketInv' /\ FaultInv' /\ ResultInv'
      BY <1>0, <1>1, <2>2 DEF Begin
    <2> QED
      BY <2>1, <2>3, <2>4
  <1>2. CASE SendCond
    BY <1>2 DEF SendCond, Goto
  <1>3. CASE SendOk
    <2>1. DataOK' /\ CallInv'
      BY <1>3 DEF SendOk, Goto
    <2>2. NetInv'
      BY <1>3 DEF SendOk, Goto
    <2>3. SocketInv' /\ FaultInv' /\ ResultInv'
      BY <1>3, <1>0 DEF SendOk, Goto
    <2> QED
      BY <2>1, <2>2, <2>3
  <1>4. CASE SendRefused
    <2>1. CASE recreated
      BY <1>f, <1>4, <2>1 DEF SendRefused, SendError, Return, _InitializeSocket
    <2>2. CASE ~recreated
      BY SMTT(60), <1>4, <2>2 DEF SendRefused, SendError, Return, _InitializeSocket
    <2> QED
      BY <2>1, <2>2
  <1>5. CASE SendLate
    BY <1>0, <1>5 DEF SendLate, Return
  <1>6. CASE PreemptPasses
    BY SMTT(60), <1>6 DEF PreemptPasses, Goto
  <1>7. CASE PreemptThrows
    BY <1>0, <1>7 DEF PreemptThrows, Return
  <1>8. CASE RecvCond
    BY <1>8 DEF RecvCond, Goto
  <1>9. CASE PollReady
    BY <1>9 DEF PollReady, ReplyReady
  <1>10. CASE PollTimesOut
    BY <1>0, <1>10 DEF PollTimesOut, Return
  <1>11. CASE RecvOk
    BY ResultShape, <1>11 DEF RecvOk, Return, ReplyReady
  <1>12. CASE RecvLate
    BY <1>0, <1>12 DEF RecvLate, Return
  <1>13. CASE SendFault
    <2>1. CASE recreated
      BY <1>f, <1>13, <2>1 DEF SendFault, SendError, Return, _InitializeSocket
    <2>2. CASE ~recreated
      BY SMTT(60), <1>13, <2>2 DEF SendFault, SendError, Return, _InitializeSocket
    <2> QED
      BY <2>1, <2>2
  <1>14. CASE RecvFault
    <2>1. CASE recreated
      BY <1>f, <1>14, <2>1 DEF RecvFault, Return, _InitializeSocket
    <2>2. CASE ~recreated
      BY SMTT(60), <1>14, <2>2 DEF RecvFault, Return, _InitializeSocket
    <2> QED
      BY <2>1, <2>2
  <1>15. CASE Reconnect
    BY <1>15 DEF Reconnect, _InitializeSocket
  <1>16. CASE Tick
    BY <1>16 DEF Tick, ReplyReady
  <1>17. ASSUME NEW c \in Calls, Serve(c) PROVE Goal'
    BY <1>17 DEF Serve, ReplyReady
  <1>18. ASSUME NEW c \in Calls, Lose(c) PROVE Goal'
    BY <1>18 DEF Lose, ReplyReady
  <1>19. CASE UNCHANGED vars
    BY <1>19 DEF vars, ReplyReady
  <1> QED
    BY <1>1, <1>2, <1>3, <1>4, <1>5, <1>6, <1>7, <1>8, <1>9, <1>10, <1>11,
       <1>12, <1>13, <1>14, <1>15, <1>16, <1>17, <1>18, <1>19
    DEF Next, CallStep, Fault

LEMMA NextIInv == IInv /\ [Next]_vars => IInv'
  BY NextFlags, NextInv DEF IInv, TypeOK

THEOREM InductiveInvariant == Spec => []IInv
  BY InitIInv, NextIInv, PTL DEF Spec

-----------------------------------------------------------------------------
(* Every variable of Call, of the socket and of the network keeps its      *)
(* type: the clock never passes its cap, awaiting names a call.            *)
THEOREM TypeCorrect == Spec => []TypeOK
  <1>1. IInv => TypeOK
    BY DEF IInv
  <1> QED
    BY <1>1, InductiveInvariant, PTL

(* A call that sent its request never returns another call's reply.        *)
THEOREM OwnReply == Spec => []SentReplyIsOwn
  <1>1. IInv => SentReplyIsOwn
    BY DEF IInv, ResultInv, SentReplyIsOwn
  <1> QED
    BY <1>1, InductiveInvariant, PTL

(* No command is executed twice, in whichever loop the socket failed.      *)
THEOREM AtMostOnce == Spec => []ExecutedAtMostOnce
  <1>1. IInv => ExecutedAtMostOnce
    BY DEF IInv, NetInv, ExecutedAtMostOnce
  <1> QED
    BY <1>1, InductiveInvariant, PTL

(* A call fails with MEC_Failed only after a fault of its own.             *)
THEOREM AbandonedHarmless == Spec => []AbandonedCallIsHarmless
  <1>1. IInv => AbandonedCallIsHarmless
    BY DEF IInv, FaultInv, AbandonedCallIsHarmless
  <1> QED
    BY <1>1, InductiveInvariant, PTL

-----------------------------------------------------------------------------
(* Every step of the client, of the network and of the server is a step of *)
(* Rpc or leaves the variables of Rpc unchanged.                           *)
LEMMA StepRefinesRpc == IInv /\ [Next]_vars => [R!RpcNext]_(R!rpcVars)
  <1> SUFFICES ASSUME IInv, [Next]_vars
               PROVE R!RpcNext \/ UNCHANGED R!rpcVars
    OBVIOUS
  <1> USE ZmqAssumption
      DEF IInv, TypeOK, DataOK, CallInv, NetInv, SocketInv, Calls, PCs, Sending,
          clientVars, netVars, R!rpcVars, R!Calls
  <1>1. CASE Begin
    <2>1. R!Begin
      BY <1>1 DEF Begin, R!Begin
    <2> QED
      BY <2>1 DEF R!RpcNext
  <1>2. CASE SendOk
    <2>1. R!Issue
      BY <1>2 DEF SendOk, Goto, R!Issue
    <2> QED
      BY <2>1 DEF R!RpcNext
  <1>3. CASE RecvOk
    <2>1. /\ awaiting \in Calls /\ awaiting \in issued
          /\ executions[awaiting] = 1
          /\ calls \in issued => awaiting = calls
      BY <1>3 DEF RecvOk, ReplyReady
    <2>2. R!Answer(awaiting)
      BY <1>3, <2>1 DEF RecvOk, Return, R!Answer
    <2> QED
      BY <2>1, <2>2 DEF R!RpcNext
  <1>4. ASSUME NEW e \in R!Errors, pc # "idle", Return(R!Error(e)),
               UNCHANGED <<issued, executions>>
        PROVE  R!RpcNext
    <2>1. R!GiveUp(e)
      BY <1>4 DEF Return, R!GiveUp
    <2> QED
      BY <2>1 DEF R!RpcNext
  <1>5. {"Empty", "Timeout", "Failed", "Preempted"} \subseteq R!Errors
    BY DEF R!Errors
  <1>6. CASE SendCond \/ RecvCond \/ PreemptPasses
    BY <1>6 DEF SendCond, RecvCond, PreemptPasses, Goto
  <1>7. CASE SendRefused \/ SendFault
    BY <1>4, <1>5, <1>7 DEF SendRefused, SendFault, SendError
  <1>8. CASE SendLate
    BY <1>4, <1>5, <1>8 DEF SendLate
  <1>9. CASE PreemptThrows
    BY <1>4, <1>5, <1>9 DEF PreemptThrows
  <1>10. CASE PollReady
    BY <1>10 DEF PollReady
  <1>11. CASE PollTimesOut
    BY <1>4, <1>5, <1>11 DEF PollTimesOut
  <1>12. CASE RecvFault
    BY <1>4, <1>5, <1>12 DEF RecvFault
  <1>13. CASE RecvLate
    BY <1>4, <1>5, <1>13 DEF RecvLate
  <1>14. CASE Reconnect \/ Tick
    BY <1>14 DEF Reconnect, Tick
  <1>15. ASSUME NEW c \in Calls, Serve(c) PROVE R!RpcNext
    <2>1. c \in issued /\ executions[c] = 0
      BY <1>15 DEF Serve
    <2>2. R!Execute(c)
      BY <1>15, <2>1 DEF Serve, R!Execute
    <2> QED
      BY <2>2 DEF R!RpcNext
  <1>16. ASSUME NEW c \in Calls, Lose(c) PROVE UNCHANGED R!rpcVars
    BY <1>16 DEF Lose
  <1>17. CASE UNCHANGED vars
    BY <1>17 DEF vars
  <1> QED
    BY <1>1, <1>2, <1>3, <1>6, <1>7, <1>8, <1>9, <1>10, <1>11, <1>12, <1>13,
       <1>14, <1>15, <1>16, <1>17
    DEF Next, CallStep, Fault

(* ZmqClient::Call implements the at-most-once calls of Rpc.               *)
THEOREM RefinesRpc == Spec => ImplementsRpc
  <1>1. Init => R!RpcInit
    BY DEF Init, R!RpcInit, Calls, R!Calls
  <1> QED
    BY <1>1, StepRefinesRpc, InductiveInvariant, PTL
    DEF Spec, R!RpcSpec, ImplementsRpc
=============================================================================
