---------------------------- MODULE IpcClientOsx ----------------------------
(***************************************************************************)
(* ipc::client_osx (source/apple/ipc-client-osx.cpp).  There is no worker  *)
(* thread: a caller takes m_writer_sem, writes its request, reads one      *)
(* reply and runs the callback that the reply's uid names, its own or not. *)
(* The client process may end at any step; a new one then starts with a    *)
(* fresh semaphore, an empty m_cb and uids counted from 1 again, while the *)
(* server keeps its single instance.                                       *)
(***************************************************************************)
EXTENDS OsxPipes, FiniteSets

CONSTANTS
  Callers,   \* the application's threads
  MaxUid,    \* bound on the calls of the first client process
  LaterUid,  \* bound on the calls of each later one
  MaxInc     \* bound on the client processes, one after the other

ASSUME ClientAssumption ==
  /\ MaxUid \in Nat \ {0}
  /\ LaterUid \in 0..MaxUid
  /\ MaxInc \in Nat \ {0}

\* call_synchronous_helper(); call() with a function; call() without one.
Kinds == {"sync", "async", "plain"}

VARIABLES
  inc,              \* the client process, 1, 2, ...
  pc,               \* where each caller is
  kind,             \* the kind of its call
  uid,              \* the uid of its call
  timestamp,        \* the static counter of call()
  m_cb,             \* the uids whose callbacks are registered
  m_writer_sem,     \* the semaphore's value
  m_socket,         \* m_socket is not null
  m_shutting_down,  \* the application announced the call of "Shutdown"
  answers,          \* the callbacks run: <<their uid, the process whose reply>>
  kept,             \* call() was used with a function, which keeps the turn
  owed,             \* the uids it wrote and whose replies it has not read
  orphan            \* an earlier process ended while it was owed a reply

callVars == <<pc, kind, uid, timestamp, kept>>
replyVars == <<answers, owed, orphan>>
clientVars == <<inc, callVars, m_cb, m_writer_sem, m_socket, m_shutting_down,
                replyVars>>

\* Between sem_wait(m_writer_sem) and the return of call().
InTurn == {"open", "write", "reply", "header", "body"}

ClientTypeOK ==
  /\ inc \in 1..MaxInc
  /\ pc \in [Callers -> InTurn \union {"idle", "turn", "wait"}]
  /\ kind \in [Callers -> Kinds]
  /\ uid \in [Callers -> 0..MaxUid]
  /\ timestamp \in 0..MaxUid
  /\ m_cb \subseteq 1..MaxUid
  /\ m_writer_sem \in Nat
  /\ m_socket \in BOOLEAN
  /\ m_shutting_down \in BOOLEAN
  /\ answers \subseteq (1..MaxUid) \X (0..MaxInc)
  /\ kept \in BOOLEAN
  /\ owed \subseteq 0..MaxUid
  /\ orphan \in BOOLEAN

\* The variables of a process that starts: the constructor, and the statics.
Fresh(new) ==
  /\ inc' = new
  /\ pc' = [c \in Callers |-> "idle"]
  /\ kind' = [c \in Callers |-> "plain"]
  /\ uid' = [c \in Callers |-> 0]
  /\ timestamp' = 0
  /\ m_cb' = {}
  /\ m_writer_sem' = 1
  /\ m_socket' = TRUE
  /\ m_shutting_down' = FALSE
  /\ answers' = {}
  /\ kept' = FALSE
  /\ owed' = {}

ClientInit ==
  /\ inc = 1
  /\ pc = [c \in Callers |-> "idle"]
  /\ kind = [c \in Callers |-> "plain"]
  /\ uid = [c \in Callers |-> 0]
  /\ timestamp = 0
  /\ m_cb = {}
  /\ m_writer_sem = 1
  /\ m_socket = TRUE
  /\ m_shutting_down = FALSE
  /\ answers = {}
  /\ kept = FALSE
  /\ owed = {}
  /\ orphan = FALSE

\* A call that ends forgets its locals.
Goto(c, where) ==
  /\ pc' = [pc EXCEPT ![c] = where]
  /\ kind' = IF where = "idle" THEN [kind EXCEPT ![c] = "plain"] ELSE kind
  /\ uid' = IF where = "idle" THEN [uid EXCEPT ![c] = 0] ELSE uid

\* call() returned: call_synchronous_helper() goes on to wait for its callback.
AfterCall(c) == IF kind[c] = "sync" THEN "wait" ELSE "idle"

-----------------------------------------------------------------------------
\* call(), up to sem_wait: the uid, and the callback's registration.
StartCall(c, k) ==
  /\ pc[c] = "idle"
  /\ timestamp < IF inc = 1 THEN MaxUid ELSE LaterUid
  /\ m_socket
  /\ timestamp' = timestamp + 1
  /\ uid' = [uid EXCEPT ![c] = timestamp']
  /\ kind' = [kind EXCEPT ![c] = k]
  /\ kept' = (kept \/ k = "async")
  /\ m_cb' = IF k = "plain" THEN m_cb ELSE m_cb \union {timestamp'}
  /\ pc' = [pc EXCEPT ![c] = "turn"]
  /\ UNCHANGED <<inc, m_writer_sem, m_socket, m_shutting_down, replyVars, pipeVars>>

\* Mutant: the semaphore does not hold a caller back.
TakeTurnAnyway(c) ==
  /\ pc[c] = "turn"
  /\ m_socket
  /\ m_writer_sem' = m_writer_sem - 1
  /\ Goto(c, "open")
  /\ UNCHANGED <<inc, timestamp, kept, m_cb, m_socket, m_shutting_down,
                 replyVars, pipeVars>>

\* sem_wait(m_writer_sem).
TakeTurn(c) ==
  /\ pc[c] = "turn"
  /\ m_writer_sem > 0
  /\ m_socket
  /\ m_writer_sem' = m_writer_sem - 1
  /\ Goto(c, "open")
  /\ UNCHANGED <<inc, timestamp, kept, m_cb, m_socket, m_shutting_down,
                 replyVars, pipeVars>>

CallerMoves(c, where) ==
  /\ Goto(c, where)
  /\ UNCHANGED <<inc, timestamp, kept, m_cb, m_writer_sem, m_socket,
                 m_shutting_down, answers, orphan>>
Moves(c, where) == CallerMoves(c, where) /\ UNCHANGED owed

\* write(REQUEST): close the last descriptor and open the request FIFO, which
\* waits for a reader.  Without the name open() fails, and call() tries again.
\* (A close before the open could discard a request that is still unread; one
\* is left unread only by a call that was given an orphan's reply.)
OpenRequest(c) ==
  /\ pc[c] = "open"
  /\ names
  /\ HasReader("req")
  /\ OpenFds({<<"client", "w", "req">>})
  /\ Moves(c, "write")
  /\ UNCHANGED names

\* The request is written.  Nothing is read while the client shuts down.
WriteRequest(c) ==
  /\ pc[c] = "write"
  /\ HasReader("req")
  /\ PipesBecome(fds, Append1("req", Call(inc, uid[c])))
  /\ owed' = owed \union {uid[c]}
  /\ CallerMoves(c, IF m_shutting_down THEN AfterCall(c) ELSE "reply")
  /\ UNCHANGED names

\* read(REPLY, blocking): open the reply FIFO; if it has no name, the error is
\* dropped and call() returns true.
OpenReply(c) ==
  /\ pc[c] = "reply"
  /\ m_socket
  /\ IF names
       THEN OpenFds({<<"client", "r", "rep">>}) /\ Moves(c, "header")
       ELSE UNCHANGED <<fifo, fds>> /\ Moves(c, AfterCall(c))
  /\ UNCHANGED names

\* read_callback_init with the header of a reply.  (A header of size 0 would end
\* the call here; StreamsUnmixed says that none is in the reply FIFO.)
ReadHeader(c) ==
  /\ pc[c] = "header"
  /\ StartsWith("rep", "reply")
  /\ Moves(c, "body")
  /\ UNCHANGED pipeVars

\* Mutant: the early return forgets the post.
ReplyUnposted(c) ==
  /\ Goto(c, AfterCall(c))
  /\ UNCHANGED <<inc, timestamp, kept, m_cb, m_writer_sem, m_socket,
                 m_shutting_down, answers, orphan>>

\* read_callback_msg when no callback has the reply's uid: the turn ends.
ReplyUnknown(c) ==
  /\ m_writer_sem' = m_writer_sem + 1
  /\ Goto(c, AfterCall(c))
  /\ UNCHANGED <<inc, timestamp, kept, m_cb, m_socket,
                 m_shutting_down, answers, orphan>>

\* Mutant: the turn ends here too, and again in call_synchronous_helper().
ReplyKnownPosted(c, u, from) ==
  /\ answers' = answers \union {<<u, from>>}
  /\ m_cb' = m_cb \ {u}
  /\ m_writer_sem' = m_writer_sem + 1
  /\ Goto(c, AfterCall(c))
  /\ UNCHANGED <<inc, timestamp, kept, m_socket, m_shutting_down, orphan>>

\* read_callback_msg when the callback of uid u is run and erased.  The turn
\* goes on: call_synchronous_helper() ends it, for a synchronous call.
ReplyKnown(c, u, from) ==
  /\ answers' = answers \union {<<u, from>>}
  /\ m_cb' = m_cb \ {u}
  /\ Goto(c, AfterCall(c))
  /\ UNCHANGED <<inc, timestamp, kept, m_writer_sem, m_socket,
                 m_shutting_down, orphan>>

\* The body is read and both read descriptors are closed.
ReadReply(c) ==
  /\ pc[c] = "body"
  /\ fifo.rep # <<>>
  /\ m_socket
  /\ PipesBecome(fds \ {<<"client", "r", "rep">>}, Drop1("rep"))
  /\ LET r == Head(fifo.rep) IN
       /\ owed' = IF r.inc = inc THEN owed \ {r.uid} ELSE owed
       /\ IF r.uid \in m_cb THEN ReplyKnown(c, r.uid, r.inc) ELSE ReplyUnknown(c)
  /\ UNCHANGED names

\* call_synchronous_helper() after its callback ran: it ends the turn.
Answered(c) == \E a \in answers : a[1] = uid[c]
FinishSync(c) ==
  /\ pc[c] = "wait"
  /\ Answered(c)
  /\ m_writer_sem' = m_writer_sem + 1
  /\ answers' = {a \in answers : a[1] # uid[c]}
  /\ Goto(c, "idle")
  /\ UNCHANGED <<inc, timestamp, kept, m_cb, m_socket,
                 m_shutting_down, owed, orphan, pipeVars>>

-----------------------------------------------------------------------------
\* stop(): a last post, and the socket is destroyed under the callers' feet.
Stop ==
  /\ m_socket
  /\ m_socket' = FALSE
  /\ m_writer_sem' = m_writer_sem + 1
  /\ UNCHANGED <<inc, callVars, m_cb, m_shutting_down, replyVars, pipeVars>>

\* The application sets m_shutting_down before it calls "Shutdown".
AnnounceShutdown ==
  /\ ~m_shutting_down
  /\ m_shutting_down' = TRUE
  /\ UNCHANGED <<inc, callVars, m_cb, m_writer_sem, m_socket, replyVars, pipeVars>>

\* The process ends, of itself or killed, and another starts.  (A caller
\* that uses m_socket after stop() crashes it, and so does one that writes when
\* the last reader is gone, SIGPIPE: both are instances of this step.)  A
\* request that was written and not answered stays in the server's hands.
ClientEnds ==
  /\ inc < MaxInc
  /\ Fresh(inc + 1)
  /\ orphan' = (orphan \/ owed # {})
  /\ CloseFds(FdsOf("client"))
  /\ UNCHANGED names

CallerStep(c) ==
  \/ TakeTurn(c)
  \/ OpenRequest(c)
  \/ WriteRequest(c)
  \/ OpenReply(c)
  \/ ReadHeader(c)
  \/ ReadReply(c)
  \/ FinishSync(c)

ClientNext ==
  \/ \E c \in Callers : CallerStep(c)
  \/ \E c \in Callers, k \in Kinds : StartCall(c, k)
  \/ Stop
  \/ AnnounceShutdown
  \/ ClientEnds
=============================================================================
