---------------------------- MODULE IpcClientWin ----------------------------
(***************************************************************************)
(* ipc::client_win (source/windows/ipc-client-win.cpp): application        *)
(* threads that make calls, and the one worker thread that reads replies   *)
(* from the pipe and runs callbacks.  The pipe is modelled as socket_win   *)
(* uses it; the server process is the environment: it takes one request at *)
(* a time, executes it, writes its reply, and may go away at any moment.   *)
(*                                                                         *)
(* A call is named by the timestamp that is its uid.  Four kinds of call   *)
(* are made:                                                               *)
(*   "sync"    call_synchronous_helper: own cbid, waits for the callback   *)
(*   "own"     call() with a callback and a cbid variable of its own       *)
(*   "async"   call() with a callback and the default cbid, &g_cbid        *)
(*   "oneway"  call() without a callback and with the default cbid         *)
(***************************************************************************)
EXTENDS Integers, Sequences, FiniteSets

CONSTANTS
  Threads,          \* application threads
  Kinds,            \* the kinds of call the application makes
  MaxCalls,         \* bound on the number of calls
  HasDisconnectCb,  \* the application passed a disconnection callback
  StopRaces         \* stop() may overlap the sending part of a call()

AllKinds == {"sync", "own", "async", "oneway"}

ASSUME ClientAssumption ==
  /\ Kinds \subseteq AllKinds
  /\ MaxCalls \in Nat \ {0}
  /\ HasDisconnectCb \in BOOLEAN
  /\ StopRaces \in BOOLEAN

Uids == 1..MaxCalls

VARIABLES
  timestamp,    \* call()'s static counter
  pc,           \* [Threads -> where a thread is inside call()]
  uid,          \* [Threads -> the call the thread makes or made last, 0 = none]
  made,         \* [Threads -> the calls the thread made, earlier ones included]
  kind,         \* [Uids -> the kind of the call]
  ret,          \* [Uids -> what call() returned: "none" so far, "true", "false"]
  m_cb,         \* uids with a callback registered
  m_lock,       \* the mutex: "free" or "worker" (application threads hold it
                \* within one step)
  g_cbid,       \* the global every call() without a cbid argument refers to
  m_socket,     \* the socket object exists
  stop,         \* m_watcher.stop
  stopper,      \* the thread in stop(): "none", "join", "done"
  wpc,          \* where the worker is
  m_rop,        \* its read: "invalid", "header" (pending), "msg" (body read)
  rbuf,         \* uid of the reply in m_watcher.buf, 0 = none
  wtodo,        \* callbacks the final loop over m_cb has still to call
  notified,     \* m_disconnectionCallback was called
  srv,          \* far end of the pipe: "open"; "closing" (process gone, what
                \* it wrote is still readable); "disconnected" (discarded)
  toServer,     \* requests written and not read
  toClient,     \* replies written and not read
  serving,      \* the request the server executes or has yet to answer, 0 = none
  executed,     \* [Uids -> how often the server executed the call]
  invoked,      \* [Uids -> how often the callback was called]
  outcome,      \* [Uids -> what it was called with: "none", "reply", "lost"]
  proc          \* the client process: "up", "terminated" (by an exception that
                \* leaves the worker, or by a null m_socket)

threadVars == <<timestamp, pc, uid, made, kind, ret>>
tableVars  == <<m_cb, m_lock, g_cbid>>
stopVars   == <<m_socket, stop, stopper>>
workerVars == <<wpc, m_rop, rbuf, wtodo, notified>>
pipeVars   == <<srv, toServer, toClient, serving, executed>>
userVars   == <<invoked, outcome>>
vars == <<threadVars, tableVars, stopVars, workerVars, pipeVars, userVars, proc>>

ThreadPcs == {"idle", "register", "write", "written", "cancel", "waiting"}
WorkerPcs == {"top", "issue", "wait", "body", "erase",
              "lock", "drain", "final", "done"}

ThreadTypes ==
  /\ timestamp \in 0..MaxCalls
  /\ pc \in [Threads -> ThreadPcs]
  /\ uid \in [Threads -> 0..MaxCalls]
  /\ made \in [Threads -> SUBSET Uids]
  /\ kind \in [Uids -> AllKinds]
  /\ ret \in [Uids -> {"none", "true", "false"}]

TableTypes ==
  /\ m_cb \subseteq Uids
  /\ m_lock \in {"free", "worker"}
  /\ g_cbid \in 0..MaxCalls

StopTypes ==
  /\ m_socket \in BOOLEAN
  /\ stop \in BOOLEAN
  /\ stopper \in {"none", "join", "done"}

WorkerTypes ==
  /\ wpc \in WorkerPcs
  /\ m_rop \in {"invalid", "header", "msg"}
  /\ rbuf \in 0..MaxCalls
  /\ wtodo \subseteq Uids
  /\ notified \in BOOLEAN

PipeTypes ==
  /\ srv \in {"open", "closing", "disconnected"}
  /\ toServer \in Seq(Uids)
  /\ toClient \in Seq(Uids)
  /\ serving \in 0..MaxCalls
  /\ executed \in [Uids -> Nat]

UserTypes ==
  /\ invoked \in [Uids -> Nat]
  /\ outcome \in [Uids -> {"none", "reply", "lost"}]

TypeOK ==
  /\ ThreadTypes /\ TableTypes /\ StopTypes
  /\ WorkerTypes /\ PipeTypes /\ UserTypes
  /\ proc \in {"up", "terminated"}

\* Both constructors call start(): the pipe is open and the worker runs.
Init ==
  /\ timestamp = 0
  /\ pc = [t \in Threads |-> "idle"]
  /\ uid = [t \in Threads |-> 0]
  /\ made = [t \in Threads |-> {}]
  /\ kind = [u \in Uids |-> "sync"]
  /\ ret = [u \in Uids |-> "none"]
  /\ m_cb = {} /\ m_lock = "free" /\ g_cbid = 0
  /\ m_socket = TRUE /\ stop = FALSE /\ stopper = "none"
  /\ wpc = "top" /\ m_rop = "invalid" /\ rbuf = 0
  /\ wtodo = {} /\ notified = FALSE
  /\ srv = "open" /\ toServer = <<>> /\ toClient = <<>> /\ serving = 0
  /\ executed = [u \in Uids |-> 0]
  /\ invoked = [u \in Uids |-> 0]
  /\ outcome = [u \in Uids |-> "none"]
  /\ proc = "up"

-----------------------------------------------------------------------------
(* The pipe, as socket_win::is_connected sees it.                          *)

\* PeekNamedPipe succeeds on an open pipe, and on a closing one only while
\* there is something left to read.
is_connected == srv = "open" \/ (srv = "closing" /\ toClient # <<>>)

-----------------------------------------------------------------------------
(* Application threads.                                                    *)

\* call() without fn registers nothing; the others go through m_lock.
HasFn(u) == kind[u] # "oneway"

OwnCbid(u) == kind[u] \in {"sync", "own"}

\* Mutant of CancelId: the caller's cbid was never assigned.
CancelNothing(u) == 0

\* The cbid that call() passes to cancel() when it fails.
CancelId(u) == IF OwnCbid(u) THEN u ELSE g_cbid

\* call() up to the critical section around m_cb.  With m_socket null it
\* returns false and changes nothing, so no step is needed for that.
Call(t) ==
  /\ pc[t] = "idle" /\ m_socket
  /\ StopRaces \/ ~stop
  /\ timestamp < MaxCalls
  /\ timestamp' = timestamp + 1
  /\ uid' = [uid EXCEPT ![t] = timestamp + 1]
  /\ made' = [made EXCEPT ![t] = @ \union {timestamp + 1}]
  /\ \E k \in Kinds :
       /\ kind' = [kind EXCEPT ![timestamp + 1] = k]
       /\ pc' = [pc EXCEPT ![t] = IF k = "oneway" THEN "write" ELSE "register"]
  /\ UNCHANGED <<ret, tableVars, stopVars, workerVars, pipeVars, userVars, proc>>

\* Mutant of Register: the key is the counter before its increment.
RegisterOldStamp(t) ==
  /\ pc[t] = "register" /\ m_lock = "free"
  /\ m_cb' = m_cb \union {uid[t] - 1}
  /\ g_cbid' = IF kind[uid[t]] = "async" THEN uid[t] ELSE g_cbid
  /\ pc' = [pc EXCEPT ![t] = "write"]
  /\ UNCHANGED <<timestamp, uid, made, kind, ret, m_lock, stopVars, workerVars,
                 pipeVars, userVars, proc>>

\* m_cb.insert and the assignment to cbid, under m_lock.
Register(t) ==
  /\ pc[t] = "register" /\ m_lock = "free"
  /\ m_cb' = m_cb \union {uid[t]}
  /\ g_cbid' = IF kind[uid[t]] = "async" THEN uid[t] ELSE g_cbid
  /\ pc' = [pc EXCEPT ![t] = "write"]
  /\ UNCHANGED <<timestamp, uid, made, kind, ret, m_lock, stopVars, workerVars,
                 pipeVars, userVars, proc>>

\* Mutant of WriteOk: the test of the write's result does not know Pending.
WriteMisread(t) ==
  /\ pc[t] = "write" /\ m_socket /\ srv = "open"
  /\ toServer' = Append(toServer, uid[t])
  /\ pc' = [pc EXCEPT ![t] = "cancel"]
  /\ UNCHANGED <<timestamp, uid, made, kind, ret, tableVars, stopVars, workerVars,
                 srv, toClient, serving, executed, userVars, proc>>

\* m_socket->write succeeds only on an open pipe; on any other it reports
\* Disconnected or Error, and both lead to cancel().
WriteOk(t) ==
  /\ pc[t] = "write" /\ m_socket /\ srv = "open"
  /\ toServer' = Append(toServer, uid[t])
  /\ pc' = [pc EXCEPT ![t] = "written"]
  /\ UNCHANGED <<timestamp, uid, made, kind, ret, tableVars, stopVars, workerVars,
                 srv, toClient, serving, executed, userVars, proc>>

WriteFails(t) ==
  /\ pc[t] = "write" /\ m_socket /\ srv # "open"
  /\ pc' = [pc EXCEPT ![t] = "cancel"]
  /\ UNCHANGED <<timestamp, uid, made, kind, ret, tableVars, stopVars, workerVars,
                 pipeVars, userVars, proc>>

\* stop() set m_socket to null between the check at the top of call() and here.
WriteNull(t) ==
  /\ pc[t] = "write" /\ ~m_socket
  /\ proc' = "terminated"
  /\ UNCHANGED <<threadVars, tableVars, stopVars, workerVars, pipeVars, userVars>>

\* write_op->wait ends when the write completes, however it completes.
Written(t) ==
  /\ pc[t] = "written"
  /\ pc' = [pc EXCEPT ![t] = IF kind[uid[t]] = "sync" THEN "waiting" ELSE "idle"]
  /\ ret' = [ret EXCEPT ![uid[t]] = IF kind[uid[t]] = "sync" THEN @ ELSE "true"]
  /\ UNCHANGED <<timestamp, uid, made, kind, tableVars, stopVars, workerVars,
                 pipeVars, userVars, proc>>

\* Mutant of Cancel: the entry is erased without m_lock.
CancelUnlocked(t) ==
  /\ pc[t] = "cancel"
  /\ m_cb' = m_cb \ {CancelId(uid[t])}
  /\ ret' = [ret EXCEPT ![uid[t]] = "false"]
  /\ pc' = [pc EXCEPT ![t] = "idle"]
  /\ UNCHANGED <<timestamp, uid, made, kind, m_lock, g_cbid, stopVars, workerVars,
                 pipeVars, userVars, proc>>

\* cancel(cbid); return false.
Cancel(t) ==
  /\ pc[t] = "cancel" /\ m_lock = "free"
  /\ m_cb' = m_cb \ {CancelId(uid[t])}
  /\ ret' = [ret EXCEPT ![uid[t]] = "false"]
  /\ pc' = [pc EXCEPT ![t] = "idle"]
  /\ UNCHANGED <<timestamp, uid, made, kind, m_lock, g_cbid, stopVars, workerVars,
                 pipeVars, userVars, proc>>

\* cd.sgn->wait ends once the callback signalled: cd.called holds, the values
\* are returned and the frame with the CallData is gone.  (The branch without
\* cd.called, which cancels, is for a semaphore whose wait itself fails.)
WakeUp(t) ==
  /\ pc[t] = "waiting" /\ invoked[uid[t]] > 0
  /\ ret' = [ret EXCEPT ![uid[t]] = "true"]
  /\ pc' = [pc EXCEPT ![t] = "idle"]
  /\ UNCHANGED <<timestamp, uid, made, kind, tableVars, stopVars, workerVars,
                 pipeVars, userVars, proc>>

ThreadStep(t) ==
  \/ Register(t) \/ WriteOk(t) \/ WriteFails(t) \/ WriteNull(t)
  \/ Written(t) \/ Cancel(t) \/ WakeUp(t)

-----------------------------------------------------------------------------
(* stop(), also the whole of the destructor.                               *)

\* m_watcher.stop.exchange(true).  Unless StopRaces, the application does not
\* call stop() while a call() is still to use m_cb or m_socket.
StopBegin ==
  /\ ~stop
  /\ StopRaces \/ \A t \in Threads : pc[t] \in {"idle", "written", "waiting"}
  /\ stop' = TRUE
  /\ stopper' = "join"
  /\ UNCHANGED <<threadVars, tableVars, m_socket, workerVars, pipeVars,
                 userVars, proc>>

\* The worker has been joined; m_socket = nullptr.
StopEnd ==
  /\ stopper = "join" /\ wpc = "done"
  /\ stopper' = "done"
  /\ m_socket' = FALSE
  /\ UNCHANGED <<threadVars, tableVars, stop, workerVars, pipeVars, userVars,
                 proc>>

-----------------------------------------------------------------------------
(* The worker thread.                                                      *)

workerFrame == <<threadVars, stopVars, proc>>

\* Mutant of Top: a lost connection leaves the thread, not the loop.
TopReturns ==
  /\ wpc = "top"
  /\ wpc' = IF ~is_connected \/ stop THEN "final"
            ELSE IF m_rop = "invalid" THEN "issue" ELSE "wait"
  /\ UNCHANGED <<workerFrame, tableVars, m_rop, rbuf, wtodo, notified,
                 pipeVars, userVars>>

\* while (m_socket->is_connected() && !m_watcher.stop), and whether a new
\* header read has to be issued.
Top ==
  /\ wpc = "top"
  /\ wpc' = IF ~is_connected \/ stop THEN "lock"
            ELSE IF m_rop = "invalid" THEN "issue" ELSE "wait"
  /\ UNCHANGED <<workerFrame, tableVars, m_rop, rbuf, wtodo, notified,
                 pipeVars, userVars>>

\* m_socket->read of a header.
Issue ==
  /\ wpc = "issue"
  /\ IF is_connected
       THEN m_rop' = "header" /\ wpc' = "wait"
       ELSE m_rop' = m_rop /\ wpc' = "lock"
  /\ UNCHANGED <<workerFrame, tableVars, rbuf, wtodo, notified, pipeVars,
                 userVars>>

\* The server disconnected the pipe after read()'s own is_connected() and
\* before ReadFileEx: Error, "Unexpected error." is thrown, nothing catches it.
\* The callback that read() makes first invalidates m_rop, which is invalid, or
\* throws itself: behind a failed read of a body the buffer starts with its
\* header, which as the size of a message is more than the buffer.
ReadError ==
  /\ wpc \in {"issue", "body"} /\ srv = "disconnected"
  /\ proc' = "terminated"
  /\ UNCHANGED <<threadVars, tableVars, stopVars, workerVars, pipeVars, userVars>>

\* Both waits time out.
Timeout ==
  /\ wpc = "wait" /\ m_rop = "header" /\ srv = "open" /\ toClient = <<>>
  /\ wpc' = "top"
  /\ UNCHANGED <<workerFrame, tableVars, m_rop, rbuf, wtodo, notified,
                 pipeVars, userVars>>

\* The header arrived: read_callback_init up to the read of the body.
Header ==
  /\ wpc = "wait" /\ m_rop = "header" /\ toClient # <<>>
  /\ m_rop' = "invalid"
  /\ wpc' = "body"
  /\ UNCHANGED <<workerFrame, tableVars, rbuf, wtodo, notified, pipeVars,
                 userVars>>

\* The pending header read ended with the pipe: read_callback_init returns.
HeaderError ==
  /\ wpc = "wait" /\ m_rop = "header" /\ srv # "open" /\ toClient = <<>>
  /\ m_rop' = "invalid"
  /\ wpc' = "top"
  /\ UNCHANGED <<workerFrame, tableVars, rbuf, wtodo, notified, pipeVars,
                 userVars>>

\* The rest of read_callback_init.  Header and body were written together, so
\* the body is there unless the pipe was disconnected in between.
Body ==
  /\ wpc = "body"
  /\ wpc' = "top"
  /\ IF is_connected
       THEN /\ rbuf' = Head(toClient)
            /\ toClient' = Tail(toClient)
            /\ m_rop' = "msg"
       ELSE UNCHANGED <<rbuf, toClient, m_rop>>
  /\ UNCHANGED <<workerFrame, tableVars, wtodo, notified, srv, toServer,
                 serving, executed, userVars>>

\* read_callback_msg up to the callback, which runs under m_lock; a reply
\* nobody waits for is dropped.
Message ==
  /\ wpc = "wait" /\ m_rop = "msg" /\ m_lock = "free"
  /\ m_rop' = "invalid"
  /\ IF rbuf \in m_cb
       THEN /\ invoked' = [invoked EXCEPT ![rbuf] = @ + 1]
            /\ outcome' = [outcome EXCEPT ![rbuf] = "reply"]
            /\ m_lock' = "worker"
            /\ wpc' = "erase"
            /\ rbuf' = rbuf
       ELSE /\ wpc' = "top"
            /\ rbuf' = 0
            /\ UNCHANGED <<userVars, m_lock>>
  /\ UNCHANGED <<workerFrame, m_cb, g_cbid, wtodo, notified, pipeVars>>

\* Mutants of Erase: the entry stays; all entries go.
EraseForgotten ==
  /\ wpc = "erase"
  /\ m_lock' = "free"
  /\ rbuf' = 0
  /\ wpc' = "top"
  /\ UNCHANGED <<workerFrame, m_cb, g_cbid, m_rop, wtodo, notified, pipeVars, userVars>>

EraseAll ==
  /\ wpc = "erase"
  /\ m_cb' = {}
  /\ m_lock' = "free"
  /\ rbuf' = 0
  /\ wpc' = "top"
  /\ UNCHANGED <<workerFrame, g_cbid, m_rop, wtodo, notified, pipeVars, userVars>>

\* m_cb.erase, and the lock is released.
Erase ==
  /\ wpc = "erase"
  /\ m_cb' = m_cb \ {rbuf}
  /\ m_lock' = "free"
  /\ rbuf' = 0
  /\ wpc' = "top"
  /\ UNCHANGED <<workerFrame, g_cbid, m_rop, wtodo, notified, pipeVars, userVars>>

\* "Call any remaining callbacks", under m_lock, in the order of the map.
DrainLock ==
  /\ wpc = "lock" /\ m_lock = "free"
  /\ m_lock' = "worker"
  /\ wtodo' = m_cb
  /\ wpc' = "drain"
  /\ UNCHANGED <<workerFrame, m_cb, g_cbid, m_rop, rbuf, notified, pipeVars,
                 userVars>>

\* Mutant of DrainOne: the map is walked from its end.
DrainBackwards ==
  /\ wpc = "drain"
  /\ \E u \in wtodo :
       /\ \A v \in wtodo : v <= u
       /\ invoked' = [invoked EXCEPT ![u] = @ + 1]
       /\ outcome' = [outcome EXCEPT ![u] = "lost"]
       /\ wtodo' = wtodo \ {u}
  /\ UNCHANGED <<workerFrame, tableVars, wpc, m_rop, rbuf, notified, pipeVars>>

DrainOne ==
  /\ wpc = "drain"
  /\ \E u \in wtodo :
       /\ \A v \in wtodo : u <= v
       /\ invoked' = [invoked EXCEPT ![u] = @ + 1]
       /\ outcome' = [outcome EXCEPT ![u] = "lost"]
       /\ wtodo' = wtodo \ {u}
  /\ UNCHANGED <<workerFrame, tableVars, wpc, m_rop, rbuf, notified, pipeVars>>

\* Mutant of DrainEnd: the loop ends before its last entry.
DrainEndsEarly ==
  /\ wpc = "drain"
  /\ m_cb' = {}
  /\ m_lock' = "free"
  /\ wpc' = "final"
  /\ UNCHANGED <<workerFrame, g_cbid, m_rop, rbuf, wtodo, notified, pipeVars,
                 userVars>>

DrainEnd ==
  /\ wpc = "drain" /\ wtodo = {}
  /\ m_cb' = {}
  /\ m_lock' = "free"
  /\ wpc' = "final"
  /\ UNCHANGED <<workerFrame, g_cbid, m_rop, rbuf, wtodo, notified, pipeVars,
                 userVars>>

\* The disconnection callback, and the end of the thread.
Final ==
  /\ wpc = "final"
  /\ notified' = (~is_connected /\ HasDisconnectCb)
  /\ wpc' = "done"
  /\ UNCHANGED <<workerFrame, tableVars, m_rop, rbuf, wtodo, pipeVars, userVars>>

Worker ==
  \/ Top \/ Issue \/ ReadError \/ Timeout \/ Header \/ HeaderError \/ Body
  \/ Message \/ Erase \/ DrainLock \/ DrainOne \/ DrainEnd \/ Final

-----------------------------------------------------------------------------
(* The server process.                                                     *)

clientFrame == <<threadVars, tableVars, stopVars, workerVars, userVars, proc>>

\* The instance reads a request and runs the function.
ServerTake ==
  /\ srv = "open" /\ serving = 0 /\ toServer # <<>>
  /\ serving' = Head(toServer)
  /\ toServer' = Tail(toServer)
  /\ executed' = [executed EXCEPT ![Head(toServer)] = @ + 1]
  /\ UNCHANGED <<clientFrame, srv, toClient>>

\* It writes the reply; only then does it read the next request.
ServerReply ==
  /\ srv = "open" /\ serving # 0
  /\ toClient' = Append(toClient, serving)
  /\ serving' = 0
  /\ UNCHANGED <<clientFrame, srv, toServer, executed>>

\* The process exits or dies: what it had written can still be read.
ServerExits ==
  /\ srv = "open"
  /\ srv' = "closing"
  /\ toServer' = <<>> /\ serving' = 0
  /\ UNCHANGED <<clientFrame, toClient, executed>>

\* finalize() destroys the socket: DisconnectNamedPipe discards both directions.
ServerDisconnects ==
  /\ srv = "open"
  /\ srv' = "disconnected"
  /\ toServer' = <<>> /\ toClient' = <<>> /\ serving' = 0
  /\ UNCHANGED <<clientFrame, executed>>

Server == ServerTake \/ ServerReply

-----------------------------------------------------------------------------
Next ==
  /\ proc = "up"
  /\ \/ \E t \in Threads : Call(t) \/ ThreadStep(t)
     \/ StopBegin \/ StopEnd
     \/ Worker
     \/ Server \/ ServerExits \/ ServerDisconnects

Spec == Init /\ [][Next]_vars

\* Threads are scheduled, writes complete, and the server's functions return
\* (otherwise its watchdog ends the server process).  Nothing forces a call,
\* a stop, or the server to go away.
Fairness ==
  /\ \A t \in Threads : WF_vars(proc = "up" /\ ThreadStep(t))
  /\ WF_vars(proc = "up" /\ StopEnd)
  /\ WF_vars(proc = "up" /\ Worker)
  /\ WF_vars(proc = "up" /\ Server)

FairSpec == Spec /\ Fairness

-----------------------------------------------------------------------------
(* Properties.                                                             *)

\* An entry of m_cb the worker will still call: not one it has just called
\* and is about to erase.
Pending(u) ==
  /\ u \in m_cb
  /\ ~(wpc = "erase" /\ u = rbuf)
  /\ wpc = "drain" => u \in wtodo

\* The stack frame that holds the CallData of a synchronous call.
FrameAlive(u) == \E t \in Threads : uid[t] = u /\ pc[t] # "idle"

(* The callback of call_synchronous_helper writes through a pointer into   *)
(* its caller's stack frame (&cd).  It never runs when that frame is gone, *)
(* whether the call failed, was answered, or the connection was lost.      *)
CallbackIntoLiveFrame ==
  [][\A u \in Uids : kind[u] = "sync" /\ invoked'[u] # invoked[u] => FrameAlive(u)]_vars

(* A callback runs at most once, although the reply, the final loop over   *)
(* m_cb and cancel() all compete for its entry.                            *)
CalledAtMostOnce == \A u \in Uids : invoked[u] <= 1

(* Once a call() with a cbid of its own has returned false, the callback   *)
(* it was given is not called any more: a caller may free its data then.   *)
SilentAfterFalse ==
  [][\A u \in Uids : ret[u] = "false" /\ OwnCbid(u) => invoked'[u] = invoked[u]]_vars

(* The calls of one thread are answered in the order they were made: by    *)
(* the replies, which the server sends in the order of the requests, and   *)
(* then by the final loop, which visits m_cb in the order of the uids.     *)
AnswersInOrder ==
  \A t \in Threads : \A u, v \in made[t] :
    (u < v /\ HasFn(u) /\ invoked[v] > 0) => invoked[u] > 0 \/ ret[u] = "false"

(* When the disconnection callback has run, no accepted call is left       *)
(* without its answer: its callback was called before.                     *)
AnsweredBeforeNotified ==
  notified => \A u \in Uids : ret[u] = "true" /\ HasFn(u) => invoked[u] > 0

(* Once the worker is gone nobody calls callbacks any more, so it leaves   *)
(* no synchronous caller behind that still waits for one.                  *)
NobodyLeftWaiting ==
  wpc \in {"final", "done"} =>
    \A t \in Threads : pc[t] \in {"written", "waiting"} /\ HasFn(uid[t])
                         => invoked[uid[t]] > 0

-----------------------------------------------------------------------------
(* Why the safety properties hold: the inductive invariant that the proofs *)
(* of IpcClientWinProofs use.                                              *)

Busy(t) == pc[t] # "idle"

\* The worker holds m_lock exactly while it calls callbacks.
LockHeld == (m_lock = "worker") <=> wpc \in {"erase", "drain"}

\* A timestamp not handed out yet has left no trace.
FreshUids ==
  \A u \in Uids : u > timestamp => invoked[u] = 0 /\ u \notin m_cb /\ ret[u] = "none"

\* A busy thread makes one call, no other thread makes it, and the call has
\* not returned; before it is registered nothing can have called it back.
OneCallPerThread ==
  \A t \in Threads : Busy(t) =>
    /\ uid[t] \in 1..timestamp
    /\ ret[uid[t]] = "none"
    /\ \A s \in Threads : Busy(s) /\ uid[s] = uid[t] => s = t
    /\ pc[t] = "register" => invoked[uid[t]] = 0 /\ uid[t] \notin m_cb
    /\ pc[t] = "waiting" => kind[uid[t]] = "sync"

\* What the worker may still call was not called before, did not fail, and,
\* for a synchronous call, belongs to a thread that is past its registration.
PendingEntries ==
  \A u \in Uids : Pending(u) =>
    /\ invoked[u] = 0
    /\ OwnCbid(u) => ret[u] # "false"
    /\ kind[u] = "sync" => FrameAlive(u)

\* While read_callback_init asks for a body, the reply it belongs to is still
\* in the pipe, unless the pipe was disconnected.
BodyThere == wpc = "body" /\ srv # "disconnected" => toClient # <<>>

\* The final loop over m_cb still stands on entries of m_cb.
TodoInTable == wpc = "drain" => wtodo \subseteq m_cb

SafetyInv ==
  /\ TodoInTable
  /\ BodyThere
  /\ LockHeld
  /\ FreshUids
  /\ OneCallPerThread
  /\ PendingEntries
  /\ CalledAtMostOnce

-----------------------------------------------------------------------------
(* Every synchronous call returns, unless the process ends.                *)
SyncCallReturns ==
  \A t \in Threads : pc[t] = "waiting" ~> (pc[t] = "idle" \/ proc = "terminated")

(* Every call accepted with a callback gets its callback called, unless    *)
(* the process ends: tests/ipc/simple-multi-client/test.cpp:236-238 counts *)
(* on it.                                                                  *)
AcceptedIsAnswered ==
  \A u \in Uids : (ret[u] = "true" /\ HasFn(u)) ~>
                    (invoked[u] > 0 \/ proc = "terminated")

-----------------------------------------------------------------------------
(* The client implements the contract of remote calls.                     *)

resultOf(u) ==
  CASE ret[u] = "false" -> "refused"
    [] ret[u] = "true"  -> outcome[u]
    [] OTHER            -> "none"

phaseOf(u) ==
  IF u > timestamp THEN "new"
  ELSE IF resultOf(u) = "none" THEN "issued" ELSE "done"

Contract == INSTANCE RpcContract WITH
  Calls  <- Uids,
  phase  <- [u \in Uids |-> phaseOf(u)],
  runs   <- executed,
  result <- [u \in Uids |-> resultOf(u)]

(* Every behaviour of the client with its server is one the contract       *)
(* allows: executed at most once, "reply" only after execution, a call     *)
(* that returned false never executes, no call is answered twice.          *)
ImplementsContract == Contract!Spec
=============================================================================
