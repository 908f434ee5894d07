------------------------- MODULE GraphSubscription -------------------------
(***************************************************************************)
(* GraphQL subscriptions of ControllerClientImpl                           *)
(* (src/src/controllerclientimpl.cpp): application threads subscribe,      *)
(* destroy their subscription handles and switch proxies; every websocket  *)
(* connection has a background thread that reads messages and runs the     *)
(* callbacks.  The client's _mutex protects the weak pointer to the        *)
(* current connection, each connection's _mutex its map of callbacks; a    *)
(* connection is destroyed by whoever drops the last reference to it.      *)
(*                                                                         *)
(* A callback never destroys a handle (the documented rule).               *)
(***************************************************************************)
EXTENDS Naturals, FiniteSets

CONSTANTS
    Users,               \* application threads
    Subs,                \* subscriptions, each made at most once (bound)
    Conns,               \* websocket connections, each opened at most once (bound)
    None,                \* no thread, no connection
    CallbackUsesClient   \* whether callbacks call methods of the client

ASSUME GraphAssumption ==
    /\ CallbackUsesClient \in BOOLEAN
    /\ None \notin Users \cup Conns \cup Subs
    /\ Users \cap Conns = {}

VARIABLES
    \* ControllerClientImpl
    clientMutex,   \* owner of _mutex, or None
    current,       \* _graphSubscriptionWebSocketHandler (weak), or None
    \* GraphSubscriptionWebSocketHandler, per connection
    object,        \* "fresh", "alive", "dying" (in its destructor) or "dead"
    mutex,         \* owner of its _mutex: a user, the connection's reader, or None
    open,          \* is_open() of its stream
    handlers,      \* keys of _onReadHandlers
    reader,        \* where its background thread is
    message,       \* subscription of the message being handled, or None
    \* the application
    sub,           \* stage of each subscription
    subConn,       \* connection its handle refers to
    pc,            \* where each application thread is
    arg,           \* the subscription it works on
    held,          \* connection held by a local shared_ptr of the thread
    target,        \* connection the thread is stopping or destroying
    todo,          \* callbacks still to be invoked by an error loop
    \* history
    started,       \* per connection, subscriptions whose start message was written
    told           \* subscriptions whose callback was given an error

clientVars == <<clientMutex, current>>
connVars   == <<object, mutex, open, handlers, reader, message>>
userVars   == <<sub, subConn, pc, arg, held, target>>
vars       == <<clientVars, connVars, userVars, todo, started, told>>

Stages == {"unused", "starting", "live", "failed", "stopping", "stopped"}

PCs == {"idle", "subLock", "subCheck", "subOpen", "subCreate", "subStart",
        "startWrite", "subDone", "stopSub", "stopWrite", "proxyLock",
        "proxyCheck", "proxyOpen", "stopAll", "closing", "stopAllLoop",
        "join", "release", "unlock"}

ReaderStates == {"none", "reading", "message", "callback",
                 "error", "errorLoop", "done"}

VariablesOK ==
    /\ clientMutex \in Users \cup {None}
    /\ current \in Conns \cup {None}
    /\ object \in [Conns -> {"fresh", "alive", "dying", "dead"}]
    /\ mutex \in [Conns -> Users \cup Conns \cup {None}]
    /\ open \in [Conns -> BOOLEAN]
    /\ handlers \in [Conns -> SUBSET Subs]
    /\ reader \in [Conns -> ReaderStates]
    /\ message \in [Conns -> Subs \cup {None}]
    /\ sub \in [Subs -> Stages]
    /\ subConn \in [Subs -> Conns \cup {None}]
    /\ pc \in [Users -> PCs]
    /\ arg \in [Users -> Subs \cup {None}]
    /\ held \in [Users -> Conns \cup {None}]
    /\ target \in [Users -> Conns \cup {None}]
    /\ todo \in [Users \cup Conns -> SUBSET Subs]
    /\ started \in [Conns -> SUBSET Subs]
    /\ told \subseteq Subs

(* No null pointer is dereferenced.                                        *)
PointersOK ==
    /\ \A s \in Subs :
           sub[s] \in {"live", "stopping", "stopped"} => subConn[s] \in Conns
    /\ \A u \in Users :
        /\ pc[u] \in {"subOpen", "proxyOpen", "subStart", "startWrite",
                      "subDone", "release"} => held[u] \in Conns
        /\ pc[u] \in {"stopAll", "closing", "stopAllLoop", "join"}
               => target[u] \in Conns

TypeOK == VariablesOK /\ PointersOK

Init ==
    /\ clientMutex = None
    /\ current = None
    /\ object = [c \in Conns |-> "fresh"]
    /\ mutex = [c \in Conns |-> None]
    /\ open = [c \in Conns |-> FALSE]
    /\ handlers = [c \in Conns |-> {}]
    /\ reader = [c \in Conns |-> "none"]
    /\ message = [c \in Conns |-> None]
    /\ sub = [s \in Subs |-> "unused"]
    /\ subConn = [s \in Subs |-> None]
    /\ pc = [u \in Users |-> "idle"]
    /\ arg = [u \in Users |-> None]
    /\ held = [u \in Users |-> None]
    /\ target = [u \in Users |-> None]
    /\ todo = [t \in Users \cup Conns |-> {}]
    /\ started = [c \in Conns |-> {}]
    /\ told = {}

-----------------------------------------------------------------------------
Goto(u, label) == pc' = [pc EXCEPT ![u] = label]

(* Handles and local shared_ptrs that keep connection c alive.             *)
Handles(c) == {s \in Subs : sub[s] \in {"live", "stopping"} /\ subConn[s] = c}
Locals(c)  == {u \in Users : held[u] = c}

(* weak_ptr::lock() on _graphSubscriptionWebSocketHandler succeeds.        *)
CurrentAlive == current # None /\ object[current] = "alive"

(* Thread u gives up its reference to c: if it was the last one, u runs    *)
(* the destructor of c before it goes on at label.                         *)
DropReference(u, c, label) ==
    IF Handles(c) = {} /\ Locals(c) = {u}
    THEN /\ object' = [object EXCEPT ![c] = "dying"]
         /\ target' = [target EXCEPT ![u] = c]
         /\ Goto(u, "stopAll")
    ELSE /\ Goto(u, label)
         /\ UNCHANGED <<object, target>>

(* Where a thread goes when it no longer holds a local reference.          *)
AfterRelease(u) == IF clientMutex = u THEN "unlock" ELSE "idle"

-----------------------------------------------------------------------------
(* ExecuteGraphSubscription                                                *)
Subscribe(u, s) ==
    /\ pc[u] = "idle" /\ sub[s] = "unused"
    /\ sub' = [sub EXCEPT ![s] = "starting"]
    /\ arg' = [arg EXCEPT ![u] = s]
    /\ Goto(u, "subLock")
    /\ UNCHANGED <<clientVars, connVars, subConn, held, target, todo, started, told>>

(* SetProxy and SetUnixEndpoint                                            *)
SetProxy(u) ==
    /\ pc[u] = "idle"
    /\ Goto(u, "proxyLock")
    /\ UNCHANGED <<clientVars, connVars, sub, subConn, arg, held, target,
                   todo, started, told>>

LockClient(u) ==
    /\ pc[u] \in {"subLock", "proxyLock"}
    /\ clientMutex = None
    /\ clientMutex' = u
    /\ Goto(u, IF pc[u] = "subLock" THEN "subCheck" ELSE "proxyCheck")
    /\ UNCHANGED <<current, connVars, sub, subConn, arg, held, target,
                   todo, started, told>>

UnlockClient(u) ==
    /\ pc[u] = "unlock"
    /\ clientMutex' = None
    /\ Goto(u, "idle")
    /\ UNCHANGED <<current, connVars, sub, subConn, arg, held, target,
                   todo, started, told>>

(* _graphSubscriptionWebSocketHandler.lock()                               *)
LockWeak(u) ==
    /\ pc[u] \in {"subCheck", "proxyCheck"}
    /\ \/ /\ CurrentAlive
          /\ held' = [held EXCEPT ![u] = current]
          /\ Goto(u, IF pc[u] = "subCheck" THEN "subOpen" ELSE "proxyOpen")
       \/ /\ ~CurrentAlive
          /\ Goto(u, IF pc[u] = "subCheck" THEN "subCreate" ELSE "unlock")
          /\ UNCHANGED held
    /\ UNCHANGED <<clientVars, connVars, sub, subConn, arg, target,
                   todo, started, told>>

(* IsStreamOpen takes and releases the connection's mutex.                 *)
IsStreamOpen(u) ==
    /\ pc[u] \in {"subOpen", "proxyOpen"}
    /\ mutex[held[u]] = None
    /\ IF pc[u] = "subOpen"
       THEN /\ Goto(u, IF open[held[u]] THEN "subStart" ELSE "subCreate")
            /\ UNCHANGED target
       ELSE /\ Goto(u, IF open[held[u]] THEN "stopAll" ELSE "release")
            /\ target' = [target EXCEPT ![u] = IF open[held[u]] THEN held[u] ELSE None]
    /\ UNCHANGED <<clientVars, connVars, sub, subConn, arg, held,
                   todo, started, told>>

(* make_shared<GraphSubscriptionWebSocketHandler>(_clientInfo): connect,   *)
(* handshake, wait for connection_ack, start reading.  The new pointer     *)
(* replaces the one to a closed connection, which may be the last.         *)
CreateConnection(u, c) ==
    /\ pc[u] = "subCreate" /\ object[c] = "fresh"
    /\ held' = [held EXCEPT ![u] = c]
    /\ LET old == held[u]
           last == old # None /\ Handles(old) = {} /\ Locals(old) = {u}
       IN /\ object' = [d \in Conns |-> IF d = c THEN "alive"
                                        ELSE IF last /\ d = old THEN "dying"
                                        ELSE object[d]]
          /\ target' = [target EXCEPT ![u] = IF last THEN old ELSE None]
          /\ Goto(u, IF last THEN "stopAll" ELSE "subStart")
    /\ open' = [open EXCEPT ![c] = TRUE]
    /\ reader' = [reader EXCEPT ![c] = "reading"]
    /\ UNCHANGED <<clientVars, mutex, handlers, message, sub, subConn, arg,
                   todo, started, told>>

(* Its constructor throws before the background thread exists.             *)
CreateFails(u) ==
    /\ pc[u] = "subCreate"
    /\ sub' = [sub EXCEPT ![arg[u]] = "failed"]
    /\ Goto(u, IF held[u] = None THEN "unlock" ELSE "release")
    /\ UNCHANGED <<clientVars, connVars, subConn, arg, held, target,
                   todo, started, told>>

(* StartSubscription: the callback is stored before the start message is   *)
(* sent; _SendMessage sends nothing, silently, on a stream that is closed. *)
(* Otherwise it waits, with the mutex, until the socket takes the message. *)
StartSubscription(u) ==
    LET c == held[u] IN
    /\ pc[u] = "subStart"
    /\ mutex[c] = None
    /\ handlers' = [handlers EXCEPT ![c] = @ \cup {arg[u]}]
    /\ mutex' = [mutex EXCEPT ![c] = IF open[c] THEN u ELSE None]
    /\ Goto(u, IF open[c] THEN "startWrite" ELSE "subDone")
    /\ UNCHANGED <<clientVars, object, open, reader, message, sub, subConn, arg,
                   held, target, todo, started, told>>

(* The write returns or throws.                                            *)
StartWritten(u) ==
    LET c == held[u]  s == arg[u] IN
    /\ pc[u] = "startWrite"
    /\ mutex' = [mutex EXCEPT ![c] = None]
    /\ \/ /\ open[c]
          /\ started' = [started EXCEPT ![c] = @ \cup {s}]
          /\ Goto(u, "subDone")
          /\ UNCHANGED <<open, sub>>
       \/ /\ open' = [open EXCEPT ![c] = FALSE]
          /\ sub' = [sub EXCEPT ![s] = "failed"]
          /\ Goto(u, "release")
          /\ UNCHANGED started
    /\ UNCHANGED <<clientVars, object, handlers, reader, message, subConn, arg,
                   held, target, todo, told>>

(* Mutants: the handle is made from the weak pointer before that is        *)
(* updated; the weak pointer is not updated.                               *)
ReturnHandleOfCurrent(u) ==
    /\ pc[u] = "subDone"
    /\ current' = held[u]
    /\ sub' = [sub EXCEPT ![arg[u]] = "live"]
    /\ subConn' = [subConn EXCEPT ![arg[u]] = current]
    /\ held' = [held EXCEPT ![u] = None]
    /\ Goto(u, "unlock")
    /\ UNCHANGED <<clientMutex, connVars, arg, target, todo, started, told>>

ReturnHandleNotCurrent(u) ==
    /\ pc[u] = "subDone"
    /\ sub' = [sub EXCEPT ![arg[u]] = "live"]
    /\ subConn' = [subConn EXCEPT ![arg[u]] = held[u]]
    /\ held' = [held EXCEPT ![u] = None]
    /\ Goto(u, "unlock")
    /\ UNCHANGED <<clientVars, connVars, arg, target, todo, started, told>>

(* The connection becomes the current one and the handle is returned.      *)
ReturnHandle(u) ==
    /\ pc[u] = "subDone"
    /\ current' = held[u]
    /\ sub' = [sub EXCEPT ![arg[u]] = "live"]
    /\ subConn' = [subConn EXCEPT ![arg[u]] = held[u]]
    /\ held' = [held EXCEPT ![u] = None]
    /\ Goto(u, "unlock")
    /\ UNCHANGED <<clientMutex, connVars, arg, target, todo, started, told>>

(* ~GraphSubscriptionHandlerImpl                                           *)
DestroyHandle(u, s) ==
    /\ pc[u] = "idle" /\ sub[s] = "live"
    /\ sub' = [sub EXCEPT ![s] = "stopping"]
    /\ arg' = [arg EXCEPT ![u] = s]
    /\ Goto(u, "stopSub")
    /\ UNCHANGED <<clientVars, connVars, subConn, held, target, todo, started, told>>

(* Mutants: the connection's mutex is not taken; the callback stays in the *)
(* map.                                                                    *)
StopSubscriptionUnlocked(u) ==
    LET s == arg[u]  c == subConn[s] IN
    /\ pc[u] = "stopSub"
    /\ handlers' = [handlers EXCEPT ![c] = @ \ {s}]
    /\ sub' = [sub EXCEPT ![s] = "stopped"]
    /\ held' = [held EXCEPT ![u] = c]
    /\ Goto(u, "release")
    /\ UNCHANGED <<clientVars, object, mutex, open, reader, message, subConn,
                   arg, target, todo, started, told>>

StopSubscriptionKeeps(u) ==
    LET s == arg[u]  c == subConn[s] IN
    /\ pc[u] = "stopSub"
    /\ mutex[c] = None
    /\ sub' = [sub EXCEPT ![s] = "stopped"]
    /\ held' = [held EXCEPT ![u] = c]
    /\ Goto(u, "release")
    /\ UNCHANGED <<clientVars, object, mutex, open, handlers, reader, message,
                   subConn, arg, target, todo, started, told>>

(* The subscription's destructor is through; the handle's pointer, about   *)
(* to go, still keeps the connection.                                      *)
Stopped(u, s) ==
    /\ sub' = [sub EXCEPT ![s] = "stopped"]
    /\ held' = [held EXCEPT ![u] = subConn[s]]
    /\ Goto(u, "release")

(* StopSubscription: forget the callback, then tell the server: wait, with *)
(* the mutex, until the socket takes the message.  Nothing is sent if the  *)
(* callback was not known or the stream is closed.                         *)
StopSubscription(u) ==
    LET s == arg[u]  c == subConn[s] IN
    /\ pc[u] = "stopSub"
    /\ mutex[c] = None
    /\ handlers' = [handlers EXCEPT ![c] = @ \ {s}]
    /\ \/ /\ s \in handlers[c] /\ open[c]
          /\ mutex' = [mutex EXCEPT ![c] = u]
          /\ Goto(u, "stopWrite")
          /\ UNCHANGED <<sub, held>>
       \/ /\ s \notin handlers[c] \/ ~open[c]
          /\ Stopped(u, s)
          /\ UNCHANGED mutex
    /\ UNCHANGED <<clientVars, object, open, reader, message, subConn, arg,
                   target, todo, started, told>>

(* The write returns or throws, which is swallowed.                        *)
StopWritten(u) ==
    LET s == arg[u]  c == subConn[s] IN
    /\ pc[u] = "stopWrite"
    /\ mutex' = [mutex EXCEPT ![c] = None]
    /\ \/ UNCHANGED open
       \/ open' = [open EXCEPT ![c] = FALSE]
    /\ Stopped(u, s)
    /\ UNCHANGED <<clientVars, object, handlers, reader, message, subConn, arg,
                   target, todo, started, told>>

(* The thread's local shared_ptr goes out of scope.                        *)
Release(u) ==
    /\ pc[u] = "release"
    /\ DropReference(u, held[u], AfterRelease(u))
    /\ held' = [held EXCEPT ![u] = None]
    /\ UNCHANGED <<clientVars, mutex, open, handlers, reader, message,
                   sub, subConn, arg, todo, started, told>>

(* StopAllSubscriptions, called by SetProxy and by the destructor: close   *)
(* the stream and tell every callback, all under the connection's mutex.   *)
StopAllSubscriptions(u) ==
    LET c == target[u] IN
    /\ pc[u] = "stopAll"
    /\ mutex[c] = None
    /\ mutex' = [mutex EXCEPT ![c] = u]
    /\ todo' = [todo EXCEPT ![u] = handlers[c]]
    /\ Goto(u, IF open[c] THEN "closing" ELSE "stopAllLoop")
    /\ UNCHANGED <<clientVars, object, open, handlers, reader, message, sub,
                   subConn, arg, held, target, started, told>>

(* Mutant: the stream is left open.                                        *)
CloseReturnsLeavesOpen(u) ==
    /\ pc[u] = "closing"
    /\ Goto(u, "stopAllLoop")
    /\ UNCHANGED <<clientVars, connVars, sub, subConn, arg, held, target, todo,
                   started, told>>

(* close() waits for the server's close frame; an error is only logged.    *)
CloseReturns(u) ==
    /\ pc[u] = "closing"
    /\ open' = [open EXCEPT ![target[u]] = FALSE]
    /\ Goto(u, "stopAllLoop")
    /\ UNCHANGED <<clientVars, object, mutex, handlers, reader, message, sub,
                   subConn, arg, held, target, todo, started, told>>

(* A callback that calls the client needs the client's mutex, which is not *)
(* recursive.                                                              *)
CallbackCanRun == CallbackUsesClient => clientMutex = None

StopAllCallback(u, s) ==
    /\ pc[u] = "stopAllLoop" /\ s \in todo[u]
    /\ CallbackCanRun
    /\ told' = told \cup {s}
    /\ todo' = [todo EXCEPT ![u] = @ \ {s}]
    /\ UNCHANGED <<clientVars, connVars, userVars, started>>

(* An exception of a callback leaves the loop and SetProxy: the weak       *)
(* pointer is not reset.  (From the destructor it would end the program.)  *)
StopAllCallbackThrows(u, s) ==
    LET c == target[u] IN
    /\ pc[u] = "stopAllLoop" /\ s \in todo[u]
    /\ object[c] = "alive"
    /\ CallbackCanRun
    /\ told' = told \cup {s}
    /\ todo' = [todo EXCEPT ![u] = {}]
    /\ mutex' = [mutex EXCEPT ![c] = None]
    /\ target' = [target EXCEPT ![u] = None]
    /\ Goto(u, "release")
    /\ UNCHANGED <<clientVars, object, open, handlers, reader, message, sub,
                   subConn, arg, held, started>>

StopAllDone(u) ==
    LET c == target[u] IN
    /\ pc[u] = "stopAllLoop" /\ todo[u] = {}
    /\ mutex' = [mutex EXCEPT ![c] = None]
    /\ \/ /\ object[c] = "alive"                       \* back in SetProxy
          /\ current' = None
          /\ target' = [target EXCEPT ![u] = None]
          /\ Goto(u, "release")
       \/ /\ object[c] = "dying"                       \* in the destructor
          /\ Goto(u, "join")
          /\ UNCHANGED <<current, target>>
    /\ UNCHANGED <<clientMutex, object, open, handlers, reader, message, sub,
                   subConn, arg, held, todo, started, told>>

(* Mutant: the background thread is not waited for.                        *)
JoinNotWaiting(u) ==
    LET c == target[u] IN
    /\ pc[u] = "join"
    /\ object' = [object EXCEPT ![c] = "dead"]
    /\ target' = [target EXCEPT ![u] = None]
    /\ Goto(u, IF held[u] # None THEN "subStart" ELSE AfterRelease(u))
    /\ UNCHANGED <<clientVars, mutex, open, handlers, reader, message, sub,
                   subConn, arg, held, todo, started, told>>

(* ~GraphSubscriptionWebSocketHandler waits for the background thread.     *)
Join(u) ==
    LET c == target[u] IN
    /\ pc[u] = "join"
    /\ reader[c] = "done"
    /\ object' = [object EXCEPT ![c] = "dead"]
    /\ target' = [target EXCEPT ![u] = None]
    /\ Goto(u, IF held[u] # None THEN "subStart" ELSE AfterRelease(u))
    /\ UNCHANGED <<clientVars, mutex, open, handlers, reader, message, sub,
                   subConn, arg, held, todo, started, told>>

-----------------------------------------------------------------------------
(* The background thread of connection c (ioContext->run()): the lambda of *)
(* _ReadFromSubscriptionStream is the completion of each async_read.       *)
readerUnchanged == <<clientVars, userVars, object, handlers, started>>

(* A message arrives: of a subscription the server knows, or knew when it  *)
(* sent it, or of none.                                                    *)
Receive(c, s) ==
    /\ reader[c] = "reading" /\ open[c]
    /\ s \in started[c] \cup {None}
    /\ reader' = [reader EXCEPT ![c] = "message"]
    /\ message' = [message EXCEPT ![c] = s]
    /\ UNCHANGED <<readerUnchanged, mutex, open, todo, told>>

(* The server or the network closes the connection.                        *)
StreamFails(c) ==
    /\ reader[c] = "reading" /\ open[c]
    /\ open' = [open EXCEPT ![c] = FALSE]
    /\ reader' = [reader EXCEPT ![c] = "error"]
    /\ UNCHANGED <<readerUnchanged, mutex, message, todo, told>>

(* A read pending on, or started on, a stream closed by another thread.    *)
ReadAborts(c) ==
    /\ reader[c] = "reading" /\ ~open[c]
    /\ reader' = [reader EXCEPT ![c] = "error"]
    /\ UNCHANGED <<readerUnchanged, mutex, message, open, todo, told>>

(* Mutant: a branch that ignores a message forgets to start the next read. *)
DispatchNoNextRead(c) ==
    /\ reader[c] = "message"
    /\ mutex[c] = None
    /\ \/ /\ message[c] \in handlers[c]
          /\ mutex' = [mutex EXCEPT ![c] = c]
          /\ reader' = [reader EXCEPT ![c] = "callback"]
          /\ UNCHANGED message
       \/ /\ reader' = [reader EXCEPT ![c] = "done"]
          /\ message' = [message EXCEPT ![c] = None]
          /\ UNCHANGED mutex
    /\ UNCHANGED <<readerUnchanged, open, todo, told>>

(* A message with a payload for a known subscription runs its callback;    *)
(* any other message (pong, ka, malformed, no payload, unknown id) only    *)
(* starts the next read.                                                   *)
Dispatch(c) ==
    /\ reader[c] = "message"
    /\ mutex[c] = None
    /\ \/ /\ message[c] \in handlers[c]
          /\ mutex' = [mutex EXCEPT ![c] = c]
          /\ reader' = [reader EXCEPT ![c] = "callback"]
          /\ UNCHANGED message
       \/ /\ reader' = [reader EXCEPT ![c] = "reading"]
          /\ message' = [message EXCEPT ![c] = None]
          /\ UNCHANGED mutex
    /\ UNCHANGED <<readerUnchanged, open, todo, told>>

(* The callback returns or throws (caught): start the next read, unlock.   *)
CallbackReturns(c) ==
    /\ reader[c] = "callback"
    /\ CallbackCanRun
    /\ mutex' = [mutex EXCEPT ![c] = None]
    /\ reader' = [reader EXCEPT ![c] = "reading"]
    /\ message' = [message EXCEPT ![c] = None]
    /\ UNCHANGED <<readerUnchanged, open, todo, told>>

ErrorLock(c) ==
    /\ reader[c] = "error"
    /\ mutex[c] = None
    /\ mutex' = [mutex EXCEPT ![c] = c]
    /\ reader' = [reader EXCEPT ![c] = "errorLoop"]
    /\ todo' = [todo EXCEPT ![c] = handlers[c]]
    /\ UNCHANGED <<readerUnchanged, message, open, told>>

ErrorCallback(c, s) ==
    /\ reader[c] = "errorLoop" /\ s \in todo[c]
    /\ CallbackCanRun
    /\ told' = told \cup {s}
    /\ todo' = [todo EXCEPT ![c] = @ \ {s}]
    /\ UNCHANGED <<readerUnchanged, mutex, reader, message, open>>

(* No further read: io_context runs out of work and the thread ends.       *)
ErrorDone(c) ==
    /\ reader[c] = "errorLoop" /\ todo[c] = {}
    /\ mutex' = [mutex EXCEPT ![c] = None]
    /\ reader' = [reader EXCEPT ![c] = "done"]
    /\ UNCHANGED <<readerUnchanged, message, open, todo, told>>

-----------------------------------------------------------------------------
Operation(u) ==
    \/ SetProxy(u)
    \/ \E s \in Subs : Subscribe(u, s) \/ DestroyHandle(u, s)

UserStep(u) ==
    \/ LockClient(u) \/ UnlockClient(u) \/ LockWeak(u) \/ IsStreamOpen(u)
    \/ CreateFails(u) \/ \E c \in Conns : CreateConnection(u, c)
    \/ StartSubscription(u) \/ StartWritten(u) \/ ReturnHandle(u)
    \/ StopSubscription(u) \/ StopWritten(u) \/ Release(u)
    \/ StopAllSubscriptions(u) \/ CloseReturns(u) \/ StopAllDone(u) \/ Join(u)
    \/ \E s \in Subs : StopAllCallback(u, s) \/ StopAllCallbackThrows(u, s)

ReaderStep(c) ==
    \/ ReadAborts(c) \/ Dispatch(c) \/ CallbackReturns(c)
    \/ ErrorLock(c) \/ ErrorDone(c)
    \/ \E s \in Subs : ErrorCallback(c, s)

Environment(c) == StreamFails(c) \/ \E s \in Subs \cup {None} : Receive(c, s)

Next ==
    \/ \E u \in Users : Operation(u) \/ UserStep(u)
    \/ \E c \in Conns : ReaderStep(c) \/ Environment(c)

Spec == Init /\ [][Next]_vars

(* The calls that wait for the server or the network: connect, handshake   *)
(* and the read of connection_ack (lines 2294-2345), the writes of         *)
(* _SendMessage and the close of the stream (line 2451).  No time-out is   *)
(* set on any of them, and a mutex is held meanwhile: the client's by the  *)
(* first, the connection's by the others.                                  *)
Waits(u) == pc[u] \in {"subCreate", "startWrite", "stopWrite", "closing"}

(* Such a call returns when its stream has failed; nothing else forces it. *)
MayHang(u) ==
    \/ pc[u] = "subCreate"
    \/ pc[u] = "startWrite" /\ open[held[u]]
    \/ pc[u] = "stopWrite" /\ open[subConn[arg[u]]]
    \/ pc[u] = "closing" /\ open[target[u]]

(* Threads run, but for the calls that may hang.  A thread that waits for  *)
(* a mutex which is free again and again eventually gets it (strong        *)
(* fairness).  No operation, message or failure is forced to happen.       *)
FairSpec ==
    /\ Spec
    /\ \A u \in Users : SF_vars(~MayHang(u) /\ UserStep(u))
    /\ \A c \in Conns : SF_vars(ReaderStep(c))
-----------------------------------------------------------------------------
(* "destroying the handler will automatically stop the subscription": once *)
(* ~GraphSubscriptionHandlerImpl is through, the callback of its           *)
(* subscription is not running and will not be called again, neither for a *)
(* message nor by a loop over the callbacks that another thread is in      *)
(* (lines 2187-2275, 2419-2467).                                           *)
NoCallbackAfterStop ==
    /\ \A c \in Conns : reader[c] = "callback" =>
           message[c] \in Subs /\ sub[message[c]] # "stopped"
    /\ \A t \in Users \cup Conns : \A s \in todo[t] : sub[s] # "stopped"

(* No thread uses a connection that is being or has been destroyed: the    *)
(* background thread ended before the members it refers to are gone (line  *)
(* 2477) and the threads' pointers are to living connections (lines 373,   *)
(* 507, 2173).                                                             *)
NoUseAfterDestroy ==
    /\ \A c \in Conns : object[c] = "dead" => reader[c] = "done"
    /\ \A u \in Users : held[u] # None => object[held[u]] = "alive"
    /\ \A s \in Subs : sub[s] \in {"live", "stopping"} =>
           object[subConn[s]] = "alive"

(* The destructor of a connection calls the callbacks that are still in    *)
(* the map (line 2472): these can only be callbacks of subscriptions whose *)
(* start failed, since every handle that was returned removed its own.     *)
OrphansAreFailedStarts ==
    \A c \in Conns : object[c] = "dying" =>
        \A s \in handlers[c] : sub[s] = "failed"

(* The subscriptions of a client share one open connection, however        *)
(* subscribing, destroying handles, switching proxies and failures are     *)
(* interleaved (lines 506-514).                                            *)
OneOpenConnection ==
    \A c, d \in Conns :
        /\ open[c] /\ object[c] = "alive"
        /\ open[d] /\ object[d] = "alive"
        => c = d

(* Whoever closes the stream or however it fails, the callback of every    *)
(* subscription that was started on it is told, or its handle destroyed.   *)
EveryoneHearsOfTheEnd ==
    \A c \in Conns : \A s \in Subs :
        sub[s] = "live" /\ s \in started[c] /\ ~open[c] ~> s \in told \/ sub[s] # "live"

(* Every operation of an application thread returns (with callbacks that   *)
(* do not use the client), unless a thread waits for the server for ever:  *)
(* the lock order client, connection is acyclic, and the destructor's join *)
(* is not waited for under the connection's lock (lines 2470-2477).        *)
OperationsEnd ==
    \A u \in Users : []<>(pc[u] = "idle") \/ \E v \in Users : <>[]Waits(v)

-----------------------------------------------------------------------------
(* Claims of the repository that the code does not keep (README, findings) *)

(* "Throws an exception if failed to start subscription"                   *)
(* (mujincontrollerclient.h:441): a subscription whose handle was returned *)
(* was started, or its callback was told of an error or will be.           *)
LiveMeansStarted ==
    \A s \in Subs : sub[s] = "live" =>
        s \in started[subConn[s]] \/ s \in told \/ reader[subConn[s]] # "done"
=============================================================================
