------------------------- MODULE ServerInstanceOsx -------------------------
(***************************************************************************)
(* ipc::server_instance_osx (source/apple/ipc-server-instance-osx.cpp):    *)
(* worker_req reads the requests, worker_rep runs them and writes the      *)
(* replies, two semaphores hand the turn from one to the other, and the    *)
(* destructor wakes and joins both.  The destructor and worker_rep write   *)
(* through the same member fd_write of the socket.                         *)
(***************************************************************************)
EXTENDS OsxPipes

VARIABLES
  rqpc,           \* where worker_req is
  rppc,           \* where worker_rep is
  dpc,            \* the instance: "none" yet; "no": its destructor is not called;
                  \* where the destructor is; "never": the server ended first
  m_reader_sem,
  s_writer_sem,   \* the instance's m_writer_sem
  msgs,           \* the requests read and not yet served
  serving,        \* the request worker_rep works on, Dummy = none
  fd_write,       \* the FIFO fd_write was last opened on, "none" at first
  m_stopWorkers,
  proc            \* the server process: "up", "killed" by SIGPIPE or abort()

semVars == <<m_reader_sem, s_writer_sem>>
instanceVars == <<rqpc, rppc, dpc, semVars, msgs, serving, fd_write,
                  m_stopWorkers, proc>>

InstanceTypeOK(inc, uid) ==
  /\ rqpc \in {"new", "top", "wait", "header", "body", "exit"}
  /\ rppc \in {"new", "top", "wait", "pop", "exec", "open", "write", "exit"}
  /\ dpc \in {"none", "never", "no", "close", "open", "write", "join", "done"}
  /\ m_reader_sem \in Nat
  /\ s_writer_sem \in Nat
  /\ msgs \in Seq(Items(inc, uid))
  /\ serving \in Items(inc, uid)
  /\ fd_write \in {"none", "req", "rep"}
  /\ m_stopWorkers \in BOOLEAN
  /\ proc \in {"up", "killed"}

\* server::initialize made the FIFOs.
InstanceInit ==
  /\ rqpc = "new"
  /\ rppc = "new"
  /\ dpc = "none"
  /\ m_reader_sem = 1
  /\ s_writer_sem = 0
  /\ msgs = <<>>
  /\ serving = Dummy
  /\ fd_write = "none"
  /\ m_stopWorkers = FALSE
  /\ proc = "up"

-----------------------------------------------------------------------------
\* spawn_client constructs the instance, which starts its two threads.
SpawnClient ==
  /\ dpc' = "no"
  /\ rqpc' = "top"
  /\ rppc' = "top"

\* The watcher calls accept(), which says Connected at once, client or not, and
\* is_connected() stays true: the server has this one instance to its end.
Accept ==
  /\ dpc = "none"
  /\ SpawnClient
  /\ UNCHANGED <<fifo, fds, semVars, msgs, serving, fd_write, m_stopWorkers, proc>>

\* finalize() before that: there is nothing to kill, and the names stay.
FinalizeFirst ==
  /\ dpc = "none"
  /\ dpc' = "never"
  /\ UNCHANGED <<fifo, fds, rqpc, rppc, semVars, msgs, serving, fd_write,
                 m_stopWorkers, proc>>

-----------------------------------------------------------------------------
(* socket_osx::write in its three calls, for the thread that runs it.       *)
FdWrite == <<"server", "w", fd_write>>

\* close(fd_write).  The member keeps the number of the closed descriptor.
CloseWrite == CloseFds({FdWrite}) /\ UNCHANGED fd_write

\* open(O_WRONLY): it waits for a reader.
OpenWrite(on) ==
  /\ HasReader(on)
  /\ OpenFds({<<"server", "w", on>>})
  /\ fd_write' = on

\* write(fd_write): whatever FIFO fd_write names by now.  On a descriptor that
\* the other thread closed it fails, and no caller looks at the result; with no
\* reader left SIGPIPE kills the process.
WriteFd(m) ==
  IF FdWrite \notin fds
    THEN UNCHANGED <<fifo, fds, proc>>
    ELSE IF HasReader(fd_write)
      THEN PipesBecome(fds, Append1(fd_write, m)) /\ UNCHANGED proc
      ELSE CloseFds(FdsOf("server")) /\ proc' = "killed"

-----------------------------------------------------------------------------
(* worker_req                                                               *)
ReqTop ==
  /\ rqpc = "top"
  /\ rqpc' = IF m_stopWorkers THEN "exit" ELSE "wait"
  /\ UNCHANGED <<fifo, fds, rppc, dpc, semVars, msgs, serving, fd_write,
                 m_stopWorkers, proc>>

\* sem_wait(m_reader_sem), and read() opens the request FIFO.
ReqWait ==
  /\ rqpc = "wait"
  /\ m_reader_sem > 0
  /\ m_reader_sem' = m_reader_sem - 1
  /\ rqpc' = "header"
  /\ OpenFds({<<"server", "r", "req">>})
  /\ UNCHANGED <<rppc, dpc, s_writer_sem, msgs, serving, fd_write,
                 m_stopWorkers, proc>>

\* read_callback_init: the header of a request.
ReqHeader ==
  /\ rqpc = "header"
  /\ StartsWith("req", "call")
  /\ rqpc' = "body"
  /\ UNCHANGED <<fifo, fds, rppc, dpc, semVars, msgs, serving, fd_write,
                 m_stopWorkers, proc>>

\* Mutant: an empty message is dropped without a word to worker_rep.
ReqDummyDropped ==
  /\ rqpc = "header"
  /\ fifo.req = <<Dummy>>
  /\ rqpc' = "top"
  /\ PipesBecome(fds, Drop1("req"))
  /\ UNCHANGED <<rppc, dpc, semVars, msgs, serving, fd_write, m_stopWorkers, proc>>

\* ... of size 0 or 1, the destructor's dummy: m_writer_sem is posted, and the
\* descriptor stays open.
ReqDummy ==
  /\ rqpc = "header"
  /\ fifo.req = <<Dummy>>
  /\ s_writer_sem' = s_writer_sem + 1
  /\ rqpc' = "top"
  /\ PipesBecome(fds, Drop1("req"))
  /\ UNCHANGED <<rppc, dpc, m_reader_sem, msgs, serving, fd_write,
                 m_stopWorkers, proc>>

\* The body is read and the read descriptors are closed.
TakeRequest(data) == PipesBecome(fds \ {<<"server", "r", "req">>}, data)

\* read_callback_msg.
ReqBody ==
  /\ rqpc = "body"
  /\ fifo.req # <<>>
  /\ msgs' = Append(msgs, Head(fifo.req))
  /\ s_writer_sem' = s_writer_sem + 1
  /\ rqpc' = "top"
  /\ TakeRequest(Drop1("req"))
  /\ UNCHANGED <<rppc, dpc, m_reader_sem, serving, fd_write, m_stopWorkers, proc>>

\* The dummy byte and a request behind it: header and body are read from one
\* byte too early.  The types found there are of no value, so deserialize yields
\* a call of nothing (which is not served: m_stopWorkers is set before the byte
\* is written), or it meets a length beyond the buffer and calls abort().
ReqGarbled ==
  /\ rqpc = "header"
  /\ StartsWith("req", "dummy") /\ Len(fifo.req) > 1
  /\ LET data == [fifo EXCEPT !.req = Tail(Tail(@))] IN
       \/ /\ TakeRequest(data)
          /\ s_writer_sem' = s_writer_sem + 1 /\ msgs' = Append(msgs, Dummy)
          /\ rqpc' = "top" /\ UNCHANGED proc
       \/ /\ PipesBecome(fds \ FdsOf("server"), data) /\ proc' = "killed"
          /\ UNCHANGED <<rqpc, s_writer_sem, msgs>>
  /\ UNCHANGED <<rppc, dpc, m_reader_sem, serving, fd_write, m_stopWorkers>>

-----------------------------------------------------------------------------
(* worker_rep                                                               *)
RepTop ==
  /\ rppc = "top"
  /\ rppc' = IF m_stopWorkers THEN "exit" ELSE "wait"
  /\ UNCHANGED <<fifo, fds, rqpc, dpc, semVars, msgs, serving, fd_write,
                 m_stopWorkers, proc>>

\* Mutant: without the second look.
RepWaitUnchecked ==
  /\ rppc = "wait"
  /\ s_writer_sem > 0
  /\ s_writer_sem' = s_writer_sem - 1
  /\ rppc' = "pop"
  /\ UNCHANGED <<fifo, fds, rqpc, dpc, m_reader_sem, msgs, serving, fd_write,
                 m_stopWorkers, proc>>

\* sem_wait(m_writer_sem) and the second look at m_stopWorkers.
RepWait ==
  /\ rppc = "wait"
  /\ s_writer_sem > 0
  /\ s_writer_sem' = s_writer_sem - 1
  /\ rppc' = IF m_stopWorkers THEN "exit" ELSE "pop"
  /\ UNCHANGED <<fifo, fds, rqpc, dpc, m_reader_sem, msgs, serving, fd_write,
                 m_stopWorkers, proc>>

\* Mutant: the message stays in the queue.
RepFront ==
  /\ rppc = "pop"
  /\ msgs # <<>>
  /\ serving' = Head(msgs)
  /\ rppc' = "exec"
  /\ UNCHANGED <<fifo, fds, rqpc, dpc, semVars, msgs, fd_write, m_stopWorkers, proc>>

\* msgs.front(), msgs.pop().
RepPop ==
  /\ rppc = "pop"
  /\ msgs # <<>>
  /\ serving' = Head(msgs)
  /\ msgs' = Tail(msgs)
  /\ rppc' = "exec"
  /\ UNCHANGED <<fifo, fds, rqpc, dpc, semVars, fd_write, m_stopWorkers, proc>>

\* Mutant: worker_req may go on before the reply is written.
RepExecPosted ==
  /\ rppc = "exec"
  /\ rppc' = "open"
  /\ CloseWrite
  /\ m_reader_sem' = m_reader_sem + 1
  /\ UNCHANGED <<rqpc, dpc, s_writer_sem, msgs, serving, m_stopWorkers, proc>>

\* client_call_function returns and the reply is serialized; then
\* read_callback_msg_write (m_wop is null and m_write_queue is empty, always)
\* writes it at once.
RepExec ==
  /\ rppc = "exec"
  /\ rppc' = "open"
  /\ CloseWrite
  /\ UNCHANGED <<rqpc, dpc, semVars, msgs, serving, m_stopWorkers, proc>>

RepOpen ==
  /\ rppc = "open"
  /\ rppc' = "write"
  /\ OpenWrite("rep")
  /\ UNCHANGED <<rqpc, dpc, semVars, msgs, serving, m_stopWorkers, proc>>

RepWrite ==
  /\ rppc = "write"
  /\ rppc' = "top"
  /\ WriteFd(Reply(serving.inc, serving.uid))
  /\ m_reader_sem' = m_reader_sem + 1
  /\ serving' = Dummy
  /\ UNCHANGED <<rqpc, dpc, s_writer_sem, msgs, fd_write, m_stopWorkers>>

-----------------------------------------------------------------------------
(* the destructor                                                           *)
DtorStart ==
  /\ dpc = "no"
  /\ dpc' = "close"
  /\ m_stopWorkers' = TRUE
  /\ UNCHANGED <<fifo, fds, rqpc, rppc, semVars, msgs, serving, fd_write, proc>>

DtorClose ==
  /\ dpc = "close"
  /\ dpc' = "open"
  /\ CloseWrite
  /\ UNCHANGED <<rqpc, rppc, semVars, msgs, serving, m_stopWorkers, proc>>

DtorOpen ==
  /\ dpc = "open"
  /\ dpc' = "write"
  /\ OpenWrite("req")
  /\ UNCHANGED <<rqpc, rppc, semVars, msgs, serving, m_stopWorkers, proc>>

\* The dummy byte that is to unblock worker_req.  (make_sendable writes its
\* size behind the one byte of the buffer, out of bounds: what that may do to
\* the heap is left out.)
DtorWrite ==
  /\ dpc = "write"
  /\ dpc' = "join"
  /\ WriteFd(Dummy)
  /\ UNCHANGED <<rqpc, rppc, semVars, msgs, serving, fd_write, m_stopWorkers>>

\* clean_file_descriptors() closes what the members name, and removes the names.
CleanFds ==
  /\ CloseFds({FdWrite, <<"server", "r", "req">>})
  /\ names' = FALSE

\* Both threads are joined.
DtorJoin ==
  /\ dpc = "join"
  /\ rppc = "exit"
  /\ rqpc = "exit"
  /\ dpc' = "done"
  /\ CleanFds
  /\ UNCHANGED <<rqpc, rppc, semVars, msgs, serving, fd_write, m_stopWorkers, proc>>

WorkerReq == ReqTop \/ ReqWait \/ ReqHeader \/ ReqDummy \/ ReqBody \/ ReqGarbled
WorkerRep == RepTop \/ RepWait \/ RepPop \/ RepExec \/ RepOpen \/ RepWrite
DtorGoesOn == DtorClose \/ DtorOpen \/ DtorWrite

InstanceNext ==
  /\ proc = "up"
  /\ \/ (Accept \/ FinalizeFirst \/ WorkerReq \/ WorkerRep \/ DtorStart
          \/ DtorGoesOn) /\ UNCHANGED names
     \/ DtorJoin
=============================================================================
