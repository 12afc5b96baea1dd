------------------------------- MODULE OsxIpc -------------------------------
(***************************************************************************)
(* The macOS build: the client process and the server's instance (it has   *)
(* one socket, whose accept() succeeds before any client exists) over the  *)
(* two FIFOs.                                                              *)
(***************************************************************************)
EXTENDS IpcClientOsx, ServerInstanceOsx

vars == <<pipeVars, clientVars, instanceVars>>

Init == PipesInit /\ ClientInit /\ InstanceInit

ClientStep == ClientNext /\ UNCHANGED instanceVars
ServerStep == InstanceNext /\ UNCHANGED clientVars
Next == ClientStep \/ ServerStep

\* Each thread that can take a step takes one in the end, and a function that
\* was called returns; the application owes no call, no stop, no destruction.
ServerUp(A) == proc = "up" /\ A /\ UNCHANGED <<names, clientVars>>
Fairness ==
  /\ \A c \in Callers : WF_vars(CallerStep(c) /\ UNCHANGED instanceVars)
  /\ WF_vars(ServerUp(Accept))
  /\ WF_vars(ServerUp(WorkerReq))
  /\ WF_vars(ServerUp(WorkerRep))
  /\ WF_vars(ServerUp(DtorGoesOn))
  /\ WF_vars(proc = "up" /\ DtorJoin /\ UNCHANGED clientVars)

Spec == Init /\ [][Next]_vars /\ Fairness

TypeOK ==
  /\ PipesTypeOK(MaxInc, MaxUid)
  /\ ClientTypeOK
  /\ InstanceTypeOK(MaxInc, MaxUid)

-----------------------------------------------------------------------------
\* m_writer_sem lets one caller at a time write its request and read a reply
\* into the shared buffer, whatever replies arrive, as long as stop() does not
\* post it once more (ipc-client-osx.cpp:39).  The post that ends a turn is made
\* in one of two functions, which depends on the reply that was read.
TurnTaking ==
  m_socket => \A c, d \in Callers : pc[c] \in InTurn /\ pc[d] \in InTurn => c = d

\* A callback is given the reply to its own call.  Replies carry only the uid,
\* and uids start again with each process, so this holds until a process ends
\* with an answer still due to it: the server sends that answer to the next one.
OwnReply == ~orphan => \A a \in answers : a[2] = inc

\* worker_rep never pops an empty queue: m_writer_sem is posted by a request, but
\* also by the destructor's dummy byte, for which there is nothing to pop.
PopsARequest == rppc = "pop" => msgs # <<>>

\* Requests travel in one FIFO and replies in the other, although worker_rep and
\* the destructor write through one fd_write without a lock: the destructor's
\* open() waits for worker_req, and worker_req waits while a reply is written.
StreamsUnmixed ==
  /\ \A i \in DOMAIN fifo.req : fifo.req[i].type # "reply"
  /\ \A i \in DOMAIN fifo.rep : fifo.rep[i].type = "reply"

\* Every call returns, and a synchronous one with its answer, when all calls are
\* synchronous or without a function (one call() with a function keeps the
\* semaphore for ever), the client is neither stopped nor shutting down nor the
\* successor of one that was owed a reply, and the server's instance lives.
Undisturbed ==
  /\ m_socket /\ ~m_shutting_down /\ ~orphan /\ ~kept
  /\ dpc \in {"none", "no"} /\ proc = "up"
CallReturns == \A c \in Callers :
  pc[c] # "idle" ~> (pc[c] = "idle" \/ ~Undisturbed)

\* The destructor's dummy byte unblocks worker_req, which wakes worker_rep, and
\* the destructor returns, when it starts with both workers waiting for work and
\* no caller opens the request FIFO meanwhile.
QuietDestruction ==
  /\ dpc = "close"
  /\ rqpc = "header" /\ rppc = "wait"
  /\ fifo.req = <<>>
  /\ \A c \in Callers : pc[c] # "write"
DestructorReturns ==
  QuietDestruction ~> (dpc = "done" \/ \E c \in Callers : pc[c] = "write")
=============================================================================
