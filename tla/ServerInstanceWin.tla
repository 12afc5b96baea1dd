------------------------- MODULE ServerInstanceWin -------------------------
(***************************************************************************)
(* ipc::server_instance_win (source/windows/ipc-server-instance-win.cpp):  *)
(* the worker thread that serves one connected client, its watchdog, and   *)
(* the destructor that joins both.  The client at the other end of the     *)
(* pipe is the environment: it sends requests, reads replies and may leave *)
(* at any moment.  Requests are named 1, 2, ... in the order they are      *)
(* sent.  Header and body are written by one call, so the exceptions for a *)
(* body that cannot be read, a size of zero and a request that does not    *)
(* deserialize, all of which end the process, are left out.                *)
(***************************************************************************)
EXTENDS Integers, Sequences

CONSTANTS
  MaxRequests,    \* bound on the requests the client sends
  PipeCapacity,   \* replies the pipe buffers before a write stays pending
  HasWatchdog     \* call_timeout # 0

ASSUME InstanceAssumption ==
  /\ MaxRequests \in Nat \ {0}
  /\ PipeCapacity \in Nat
  /\ HasWatchdog \in BOOLEAN

Requests == 1..MaxRequests

VARIABLES
  sent,             \* number of requests sent
  conn,             \* client's end of the pipe: "open", or "closing" when the
                    \* client has left and its requests are still readable
  inbox,            \* requests in the pipe
  outbox,           \* replies in the pipe
  wpc,              \* where the worker is
  m_rop,            \* the read: "invalid", "header" or "body" (issued),
                    \* "called" (completed, its callback was called, valid)
  m_rbuf,           \* the request in m_rbuf, 0 = none
  m_wop,            \* the write: "invalid", "pending"
  m_write_queue,    \* replies to write
  m_write_waiting,  \* a request was read and its reply is not written yet
  overdue,          \* ... since longer than the call timeout
  dog,              \* the watchdog thread: "none", "loop", "check", "done"
  m_stopWorkers,
  dtor,             \* the destructor: "none", "join", "joindog", "done"
  proc              \* the server process: "up", "terminated" by the watchdog

pipeVars  == <<sent, conn, inbox, outbox>>
opVars    == <<m_rop, m_rbuf, m_wop, m_write_queue>>
watchVars == <<m_write_waiting, overdue>>
dtorVars  == <<m_stopWorkers, dtor>>
vars == <<pipeVars, wpc, opVars, watchVars, dog, dtorVars, proc>>

TypeOK ==
  /\ sent \in 0..MaxRequests
  /\ conn \in {"open", "closing"}
  /\ inbox \in Seq(Requests)
  /\ outbox \in Seq(Requests)
  /\ wpc \in {"top", "read", "write", "sent", "wait", "body", "exec", "done"}
  /\ m_rop \in {"invalid", "header", "body", "called"}
  /\ m_rbuf \in 0..MaxRequests
  /\ m_wop \in {"invalid", "pending"}
  /\ m_write_queue \in Seq(Requests)
  /\ m_write_waiting \in BOOLEAN
  /\ overdue \in BOOLEAN
  /\ dog \in {"none", "loop", "check", "done"}
  /\ m_stopWorkers \in BOOLEAN
  /\ dtor \in {"none", "join", "joindog", "done"}
  /\ proc \in {"up", "terminated"}

\* The constructor, called for a client that has just connected.
Init ==
  /\ sent = 0 /\ conn = "open" /\ inbox = <<>> /\ outbox = <<>>
  /\ wpc = "top"
  /\ m_rop = "invalid" /\ m_rbuf = 0 /\ m_wop = "invalid" /\ m_write_queue = <<>>
  /\ m_write_waiting = FALSE /\ overdue = FALSE
  /\ dog = IF HasWatchdog THEN "loop" ELSE "none"
  /\ m_stopWorkers = FALSE /\ dtor = "none"
  /\ proc = "up"

-----------------------------------------------------------------------------
(* The worker.                                                             *)

\* A closing pipe counts as connected while requests are left in it.
is_connected == conn = "open" \/ inbox # <<>>

\* Mutant of Top: the loop does not look at m_stopWorkers.
TopIgnoresStop ==
  /\ wpc = "top"
  /\ wpc' = IF ~is_connected THEN "done"
            ELSE IF m_rop = "invalid" THEN "read" ELSE "write"
  /\ UNCHANGED <<pipeVars, opVars, watchVars, dog, dtorVars, proc>>

Top ==
  /\ wpc = "top"
  /\ wpc' = IF m_stopWorkers \/ ~is_connected THEN "done"
            ELSE IF m_rop = "invalid" THEN "read" ELSE "write"
  /\ UNCHANGED <<pipeVars, opVars, watchVars, dog, dtorVars, proc>>

\* m_socket->read of a header; Disconnected leaves the loop.
ReadHeader ==
  /\ wpc = "read"
  /\ IF is_connected
       THEN m_rop' = "header" /\ wpc' = "write"
       ELSE m_rop' = m_rop /\ wpc' = "done"
  /\ UNCHANGED <<pipeVars, m_rbuf, m_wop, m_write_queue, watchVars, dog, dtorVars, proc>>

NothingToWrite ==
  /\ wpc = "write" /\ (m_wop # "invalid" \/ m_write_queue = <<>>)
  /\ wpc' = "wait"
  /\ UNCHANGED <<pipeVars, opVars, watchVars, dog, dtorVars, proc>>

\* The front of the queue is written; on a closing pipe the write reports
\* Disconnected, the loop ends and m_write_waiting stays as it is.  When it is
\* WriteFileEx that fails, and not is_connected, write_callback is called too.
WriteReply ==
  /\ wpc = "write" /\ m_wop = "invalid" /\ m_write_queue # <<>>
  /\ IF conn = "open"
       THEN /\ outbox' = Append(outbox, Head(m_write_queue))
            /\ m_wop' = "pending" /\ m_rop' = m_rop
            /\ wpc' = "sent"
       ELSE /\ UNCHANGED <<outbox, m_wop>>
            /\ m_rop' = IF is_connected THEN "invalid" ELSE m_rop
            /\ wpc' = "done"
  /\ UNCHANGED <<sent, conn, inbox, m_rbuf, m_write_queue, watchVars,
                 dog, dtorVars, proc>>

\* Mutant of ReplySent: the queue is not popped.
ReplySentNotPopped ==
  /\ wpc = "sent"
  /\ m_write_waiting' = FALSE /\ overdue' = FALSE
  /\ wpc' = "wait"
  /\ UNCHANGED <<pipeVars, opVars, dog, dtorVars, proc>>

\* m_write_waiting is cleared under the watchdog's mutex; the queue is popped.
ReplySent ==
  /\ wpc = "sent"
  /\ m_write_waiting' = FALSE /\ overdue' = FALSE
  /\ m_write_queue' = Tail(m_write_queue)
  /\ wpc' = "wait"
  /\ UNCHANGED <<pipeVars, m_rop, m_rbuf, m_wop, dog, dtorVars, proc>>

ReadDone == \/ m_rop = "header" /\ (inbox # <<>> \/ conn = "closing")
            \/ m_rop = "body"

\* A write completes once the pipe has room for it, or with the pipe's end.
WriteDone == m_wop = "pending" /\ (Len(outbox) <= PipeCapacity \/ conn = "closing")

Timeout ==
  /\ wpc = "wait" /\ ~ReadDone /\ ~WriteDone
  /\ wpc' = "top"
  /\ UNCHANGED <<pipeVars, opVars, watchVars, dog, dtorVars, proc>>

\* read_callback_init up to the read of the body, or all of it on an error.
HeaderRead ==
  /\ wpc = "wait" /\ ReadDone /\ m_rop = "header"
  /\ m_rop' = "invalid"
  /\ wpc' = IF inbox # <<>> THEN "body" ELSE "top"
  /\ UNCHANGED <<pipeVars, m_rbuf, m_wop, m_write_queue, watchVars, dog, dtorVars, proc>>

\* The rest of read_callback_init: header and body were written together.
ReadBody ==
  /\ wpc = "body"
  /\ m_rbuf' = Head(inbox)
  /\ inbox' = Tail(inbox)
  /\ m_rop' = "body"
  /\ wpc' = "top"
  /\ UNCHANGED <<sent, conn, outbox, m_wop, m_write_queue, watchVars, dog, dtorVars, proc>>

\* Mutant of BeginCall: it invalidates m_rop, as read_callback_init does.
BeginCallInvalidates ==
  /\ wpc = "wait" /\ m_rop = "body"
  /\ m_rop' = "invalid"
  /\ m_write_waiting' = TRUE /\ overdue' = FALSE
  /\ wpc' = "exec"
  /\ UNCHANGED <<pipeVars, m_rbuf, m_wop, m_write_queue, dog, dtorVars, proc>>

\* read_callback_msg up to the call of the function.
BeginCall ==
  /\ wpc = "wait" /\ m_rop = "body"
  /\ m_rop' = "called"
  /\ m_write_waiting' = TRUE /\ overdue' = FALSE
  /\ wpc' = "exec"
  /\ UNCHANGED <<pipeVars, m_rbuf, m_wop, m_write_queue, dog, dtorVars, proc>>

\* Mutants of EndCall: the uid of the reply is taken after the request was
\* cleared; m_rop is invalidated with a reply to write.
EndCallLosesUid ==
  /\ wpc = "exec"
  /\ m_write_queue' = Append(m_write_queue, 0)
  /\ m_rbuf' = 0
  /\ wpc' = "top"
  /\ UNCHANGED <<pipeVars, m_rop, m_wop, watchVars, dog, dtorVars, proc>>

EndCallInvalidates ==
  /\ wpc = "exec"
  /\ m_write_queue' = Append(m_write_queue, m_rbuf)
  /\ m_rbuf' = 0
  /\ m_rop' = "invalid"
  /\ wpc' = "top"
  /\ UNCHANGED <<pipeVars, m_wop, watchVars, dog, dtorVars, proc>>

\* The function returned: the reply is queued.  m_rop stays valid, so no
\* request is read before the reply is written.
EndCall ==
  /\ wpc = "exec"
  /\ m_write_queue' = Append(m_write_queue, m_rbuf)
  /\ m_rbuf' = 0
  /\ wpc' = "top"
  /\ UNCHANGED <<pipeVars, m_rop, m_wop, watchVars, dog, dtorVars, proc>>

\* Mutant of WriteCallback: it invalidates only the write.
WriteCallbackKeepsRead ==
  /\ wpc = "wait" /\ ~ReadDone /\ WriteDone
  /\ m_wop' = "invalid"
  /\ wpc' = "top"
  /\ UNCHANGED <<pipeVars, m_rop, m_rbuf, m_write_queue, watchVars, dog, dtorVars, proc>>

\* write_callback invalidates both operations.
WriteCallback ==
  /\ wpc = "wait" /\ ~ReadDone /\ WriteDone
  /\ m_wop' = "invalid" /\ m_rop' = "invalid"
  /\ wpc' = "top"
  /\ UNCHANGED <<pipeVars, m_rbuf, m_write_queue, watchVars, dog, dtorVars, proc>>

\* Everything the worker does on its own; EndCall is up to the function.
Worker ==
  \/ Top \/ ReadHeader \/ NothingToWrite \/ WriteReply \/ ReplySent \/ Timeout
  \/ HeaderRead \/ ReadBody \/ BeginCall \/ WriteCallback

-----------------------------------------------------------------------------
(* The watchdog, and the time that passes while a reply is waited for.     *)

dogFrame == <<pipeVars, wpc, opVars, dtorVars>>

TimePasses ==
  /\ m_write_waiting /\ ~overdue
  /\ overdue' = TRUE
  /\ UNCHANGED <<dogFrame, m_write_waiting, dog, proc>>

DogLoop ==
  /\ dog = "loop"
  /\ dog' = IF m_stopWorkers THEN "done" ELSE "check"
  /\ UNCHANGED <<dogFrame, watchVars, proc>>

\* Under the mutex; the exception leaves the thread and ends the process.
DogCheck ==
  /\ dog = "check"
  /\ IF m_write_waiting /\ overdue
       THEN proc' = "terminated" /\ dog' = dog
       ELSE proc' = proc /\ dog' = "loop"
  /\ UNCHANGED <<dogFrame, watchVars>>

Watchdog == DogLoop \/ DogCheck

-----------------------------------------------------------------------------
(* The destructor: run by kill_client once the client is gone, or by       *)
(* finalize at any time.                                                   *)

dtorFrame == <<pipeVars, wpc, opVars, watchVars, dog, proc>>

Destroy ==
  /\ dtor = "none"
  /\ m_stopWorkers' = TRUE
  /\ dtor' = "join"
  /\ UNCHANGED dtorFrame

WorkerJoined ==
  /\ dtor = "join" /\ wpc = "done"
  /\ dtor' = "joindog"
  /\ UNCHANGED <<dtorFrame, m_stopWorkers>>

WatchdogJoined ==
  /\ dtor = "joindog" /\ dog \in {"none", "done"}
  /\ dtor' = "done"
  /\ UNCHANGED <<dtorFrame, m_stopWorkers>>

-----------------------------------------------------------------------------
(* The client.                                                             *)

clientFrame == <<wpc, opVars, watchVars, dog, dtorVars, proc>>

Send ==
  /\ conn = "open" /\ sent < MaxRequests
  /\ sent' = sent + 1
  /\ inbox' = Append(inbox, sent + 1)
  /\ UNCHANGED <<clientFrame, conn, outbox>>

Receive ==
  /\ conn = "open" /\ outbox # <<>>
  /\ outbox' = Tail(outbox)
  /\ UNCHANGED <<clientFrame, sent, conn, inbox>>

Leave ==
  /\ conn = "open"
  /\ conn' = "closing"
  /\ outbox' = <<>>
  /\ UNCHANGED <<clientFrame, sent, inbox>>

-----------------------------------------------------------------------------
Next ==
  /\ proc = "up"
  /\ \/ Worker \/ EndCall
     \/ TimePasses \/ Watchdog
     \/ Destroy \/ WorkerJoined \/ WatchdogJoined
     \/ Send \/ Receive \/ Leave

Spec == Init /\ [][Next]_vars

\* Threads are scheduled, time passes and the client's worker reads what is
\* there.  A function need not return: there is no fairness on EndCall.
Fairness ==
  /\ WF_vars(proc = "up" /\ Worker)
  /\ WF_vars(proc = "up" /\ Watchdog)
  /\ WF_vars(proc = "up" /\ TimePasses)
  /\ WF_vars(proc = "up" /\ (WorkerJoined \/ WatchdogJoined))
  /\ WF_vars(proc = "up" /\ Receive)

FairSpec == Spec /\ Fairness

-----------------------------------------------------------------------------
(* Properties.                                                             *)

(* write_callback invalidates m_rop, and every read uses the one OVERLAPPED *)
(* and the one buffer of the instance: while a write is under way, or a    *)
(* reply waits for it, no read is in flight, and none can be issued before *)
(* the write completes unless the worker has ended.                        *)
HalfDuplex ==
  (m_wop = "pending" \/ m_write_queue # <<>>) =>
    m_rop = "called" \/ (wpc = "done" /\ m_rop = "invalid")

(* There is never more than one reply to write, and none of an earlier     *)
(* request when a function runs.                                           *)
OneReplyAtATime ==
  /\ Len(m_write_queue) <= 1
  /\ wpc = "exec" => m_write_queue = <<>> /\ m_wop = "invalid"

(* A read that is complete but for its callback always gets it: the worker *)
(* never waits with neither a read nor a write to wait for, which is where *)
(* a connection would stall for good (m_rop valid with its event consumed, *)
(* and no write pending).                                                  *)
SomethingToWaitFor ==
  wpc = "wait" => m_rop \in {"header", "body"} \/ m_wop = "pending"

\* The request taken from the pipe whose reply has not been written.
serving ==
  IF m_rbuf # 0 THEN m_rbuf
  ELSE IF m_write_queue # <<>> /\ wpc # "sent" THEN Head(m_write_queue) ELSE 0

Answered(r) ==
  r <= sent /\ r # serving /\ \A i \in DOMAIN inbox : inbox[i] # r

(* A request is answered, unless the client leaves, the instance is        *)
(* destroyed, or the server process ends: functions that never return end  *)
(* it through the watchdog.                                                *)
RequestAnswered ==
  \A r \in Requests :
    (sent >= r) ~> (Answered(r) \/ conn = "closing" \/ m_stopWorkers
                    \/ proc = "terminated")

(* The destructor returns, unless a function of the application never      *)
(* does, or the process ends.                                              *)
DestructorReturns ==
  (dtor = "join") ~> (dtor = "done" \/ wpc = "exec" \/ proc = "terminated")

Service == INSTANCE SerialService
  WITH link <- IF conn = "open" THEN "up" ELSE "gone"

(* The instance is the serial service that the client's side relies on:    *)
(* replies in the order of the requests, each request answered once.       *)
ImplementsSerialService == Service!Spec
=============================================================================
