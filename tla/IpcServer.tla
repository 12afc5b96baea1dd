----------------------------- MODULE IpcServer -----------------------------
(***************************************************************************)
(* ipc::server (source/ipc-server.cpp) on Windows: the watcher thread that *)
(* accepts clients and reaps dead ones, and the application thread that    *)
(* initializes, finalizes and destroys the server.  Of a server_instance   *)
(* only its worker's loop is here, as far as the server can tell: it takes *)
(* requests out of the pipe, runs functions of the application, and ends   *)
(* when the connection or the instance does.  ServerInstanceWin has the    *)
(* rest, its watchdog too, which exists only if the application has set a  *)
(* call timeout and ends the process when a reply stays unwritten for that *)
(* long.  Client processes are the environment.                            *)
(*                                                                         *)
(* kill_client is called by both threads: its steps are parameterised by   *)
(* the thread, "watcher" or "app".                                         *)
(***************************************************************************)
EXTENDS Integers, Sequences

CONSTANTS
  Clients,      \* client processes
  MaxSockets,   \* bound on the number of successful calls of initialize()
  MaxUnread,    \* bound on the requests a client has in the pipe
  None          \* no client

ASSUME ServerAssumption ==
  /\ MaxSockets \in Nat \ {0}
  /\ MaxUnread \in Nat
  /\ None \notin Clients

Sockets == 1..MaxSockets

VARIABLES
  m_isInitialized,
  m_sockets,       \* the list of sockets
  created,         \* number of sockets created so far
  m_sockets_mtx,   \* "free", "watcher" or "app"
  m_clients,       \* the sockets that are keys of the map
  m_clients_mtx,   \* "free", "watcher" or "app"
  stop,            \* m_watcher.stop
  pc,              \* [{"watcher", "app"} -> where the thread is]
  cur,             \* [{"watcher", "app"} -> the socket it handles, 0 = none]
  todo,            \* sockets the watcher has still to visit in this scan
  destroying,      \* the application thread is in ~server
  inst,            \* [Sockets -> the worker of the server_instance: "none",
                   \*  at the "loop" test, in the "turn" after it, "busy" in a
                   \*  function, with a "reply" to write, "ended"]
  killed,          \* [Sockets -> the instance's destructor has begun]
  pipe,            \* [Sockets -> "none", "listening", "connected", "left" (the
                   \*  client is gone), "closed"]
  unread,          \* [Sockets -> requests in the pipe]
  peer,            \* [Sockets -> the client at the other end]
  connects,        \* [Sockets -> calls of the connect handler]
  disconnects,     \* [Sockets -> calls of the disconnect handler]
  cstate           \* [Clients -> "out", "trying", "attached", "gone"]

lockVars   == <<m_sockets_mtx, m_clients_mtx>>
socketVars == <<m_isInitialized, m_sockets, created>>
threadVars == <<stop, pc, cur, todo, destroying>>
instVars   == <<inst, killed>>
pipeVars   == <<pipe, unread, peer, cstate>>
userVars   == <<connects, disconnects>>
vars == <<lockVars, socketVars, m_clients, threadVars, instVars, pipeVars, userVars>>

Kill == {"erase", "join", "notify"}
WatcherPcs == {"loop", "lock", "scan", "spawn", "connect", "insert", "done"} \union Kill
WorkerPcs == {"loop", "turn", "busy", "reply", "ended"}
AppPcs == {"ready", "finalize", "lockclients", "kill", "join watcher", "gone"} \union Kill

TypeOK ==
  /\ m_isInitialized \in BOOLEAN
  /\ m_sockets \in Seq(Sockets)
  /\ created \in 0..MaxSockets
  /\ m_sockets_mtx \in {"free", "watcher", "app"}
  /\ m_clients_mtx \in {"free", "watcher", "app"}
  /\ m_clients \subseteq Sockets
  /\ stop \in BOOLEAN
  /\ DOMAIN pc = {"watcher", "app"} /\ pc["watcher"] \in WatcherPcs /\ pc["app"] \in AppPcs
  /\ cur \in [{"watcher", "app"} -> 0..MaxSockets]
  /\ todo \in Seq(Sockets)
  /\ destroying \in BOOLEAN
  /\ inst \in [Sockets -> WorkerPcs \union {"none"}]
  /\ killed \in [Sockets -> BOOLEAN]
  /\ pipe \in [Sockets -> {"none", "listening", "connected", "left", "closed"}]
  /\ unread \in [Sockets -> 0..MaxUnread]
  /\ peer \in [Sockets -> Clients \union {None}]
  /\ connects \in [Sockets -> Nat]
  /\ disconnects \in [Sockets -> Nat]
  /\ cstate \in [Clients -> {"out", "trying", "attached", "gone"}]

\* The constructor starts the watcher.
Init ==
  /\ m_isInitialized = FALSE /\ m_sockets = <<>> /\ created = 0
  /\ m_sockets_mtx = "free" /\ m_clients_mtx = "free"
  /\ m_clients = {}
  /\ stop = FALSE
  /\ pc = [p \in {"watcher", "app"} |-> IF p = "watcher" THEN "loop" ELSE "ready"]
  /\ cur = [p \in {"watcher", "app"} |-> 0]
  /\ todo = <<>> /\ destroying = FALSE
  /\ inst = [s \in Sockets |-> "none"]
  /\ killed = [s \in Sockets |-> FALSE]
  /\ pipe = [s \in Sockets |-> "none"]
  /\ unread = [s \in Sockets |-> 0]
  /\ peer = [s \in Sockets |-> None]
  /\ connects = [s \in Sockets |-> 0]
  /\ disconnects = [s \in Sockets |-> 0]
  /\ cstate = [c \in Clients |-> "out"]

goto(p, label) == pc' = [pc EXCEPT ![p] = label]

-----------------------------------------------------------------------------
(* kill_client, by thread p, with m_sockets_mtx held.                      *)

\* Mutant of AfterKill: both threads go on as the watcher does.
AfterKillScans(p) == "scan"

\* Where the thread goes on after kill_client.
AfterKill(p) == IF p = "watcher" THEN "scan" ELSE "kill"

\* m_clients.erase drops the last reference: ~server_instance begins.
EraseClient(p) ==
  /\ pc[p] = "erase"
  /\ m_clients' = m_clients \ {cur[p]}
  /\ killed' = [killed EXCEPT ![cur[p]] = TRUE]
  /\ goto(p, "join")
  /\ UNCHANGED <<lockVars, socketVars, stop, cur, todo, destroying, inst, pipeVars, userVars>>

\* Mutant of JoinInstance: the worker is detached.
DetachInstance(p) ==
  /\ pc[p] = "join"
  /\ goto(p, "notify")
  /\ UNCHANGED <<lockVars, socketVars, m_clients, stop, cur, todo, destroying, instVars,
                 pipeVars, userVars>>

\* The instance's worker is joined: it has left its loop, and so a function
\* that ran has returned.
JoinInstance(p) ==
  /\ pc[p] = "join" /\ inst[cur[p]] = "ended"
  /\ inst' = [inst EXCEPT ![cur[p]] = "none"]
  /\ goto(p, "notify")
  /\ UNCHANGED <<lockVars, socketVars, m_clients, stop, cur, todo, destroying, killed,
                 pipeVars, userVars>>

\* The disconnect handler.
NotifyDisconnect(p) ==
  /\ pc[p] = "notify"
  /\ disconnects' = [disconnects EXCEPT ![cur[p]] = @ + 1]
  /\ cur' = [cur EXCEPT ![p] = 0]
  /\ goto(p, AfterKill(p))
  /\ UNCHANGED <<lockVars, socketVars, m_clients, stop, todo, destroying, instVars,
                 pipeVars, connects>>

KillClient(p) == EraseClient(p) \/ JoinInstance(p) \/ NotifyDisconnect(p)

-----------------------------------------------------------------------------
(* watcher()                                                               *)

\* while (!m_watcher.stop)
WatcherLoop ==
  /\ pc["watcher"] = "loop"
  /\ goto("watcher", IF stop THEN "done" ELSE "lock")
  /\ UNCHANGED <<lockVars, socketVars, m_clients, stop, cur, todo, destroying, instVars,
                 pipeVars, userVars>>

WatcherLock ==
  /\ pc["watcher"] = "lock" /\ m_sockets_mtx = "free"
  /\ m_sockets_mtx' = "watcher"
  /\ todo' = m_sockets
  /\ goto("watcher", "scan")
  /\ UNCHANGED <<m_clients_mtx, socketVars, m_clients, stop, cur, destroying, instVars,
                 pipeVars, userVars>>

\* Mutant of ScanEnd: the lock is not scoped to the scan.
ScanEndLocked ==
  /\ pc["watcher"] = "scan" /\ todo = <<>>
  /\ goto("watcher", "loop")
  /\ UNCHANGED <<lockVars, socketVars, m_clients, stop, cur, todo, destroying,
                 instVars, pipeVars, userVars>>

\* The end of the scan; the pending accepts it made are dropped and
\* cancelled, and the watcher sleeps for 20 ms.
ScanEnd ==
  /\ pc["watcher"] = "scan" /\ todo = <<>>
  /\ m_sockets_mtx' = "free"
  /\ goto("watcher", "loop")
  /\ UNCHANGED <<m_clients_mtx, socketVars, m_clients, stop, cur, todo, destroying,
                 instVars, pipeVars, userVars>>

\* socket_win::is_connected: PeekNamedPipe succeeds also on a pipe whose client
\* has left, as long as something is left to read.
IsConnected(s) == pipe[s] = "connected" \/ (pipe[s] = "left" /\ unread[s] > 0)

\* Mutants of ClientDied and of ClientWaits: a pipe whose client left still
\* counts as connected; only a client that comes after accept() is seen.
ClientDiedUnseen(s) == s \in m_clients /\ pipe[s] = "closed"
ClientWaitsUnseen(s) == s \notin m_clients /\ pipe[s] = "none"

\* !is_connected() of a socket with a client.
ClientDied(s) == s \in m_clients /\ ~IsConnected(s)

\* accept() on a socket without one reports Connected if a client waits,
\* Pending if none came yet, Disconnected if its client has left.
ClientWaits(s) == s \notin m_clients /\ pipe[s] = "connected"

\* The body of the scan: kill the client that died, or spawn the one that waits.
VisitSocket ==
  /\ pc["watcher"] = "scan" /\ todo # <<>>
  /\ LET s == Head(todo)
     IN \/ /\ ClientDied(s)
           /\ cur' = [cur EXCEPT !["watcher"] = s] /\ goto("watcher", "erase")
        \/ /\ ClientWaits(s)
           /\ cur' = [cur EXCEPT !["watcher"] = s] /\ goto("watcher", "spawn")
        \/ ~ClientDied(s) /\ ~ClientWaits(s) /\ UNCHANGED <<cur, pc>>
  /\ todo' = Tail(todo)
  /\ UNCHANGED <<lockVars, socketVars, m_clients, stop, destroying, instVars, pipeVars,
                 userVars>>

\* spawn_client: under m_clients_mtx the instance is created and starts to
\* serve, the connect handler is called, and the map gets its entry.
Spawn ==
  /\ pc["watcher"] = "spawn" /\ m_clients_mtx = "free"
  /\ m_clients_mtx' = "watcher"
  /\ inst' = [inst EXCEPT ![cur["watcher"]] = "loop"]
  /\ goto("watcher", "connect")
  /\ UNCHANGED <<m_sockets_mtx, socketVars, m_clients, stop, cur, todo, destroying, killed,
                 pipeVars, userVars>>

ConnectHandler ==
  /\ pc["watcher"] = "connect"
  /\ connects' = [connects EXCEPT ![cur["watcher"]] = @ + 1]
  /\ goto("watcher", "insert")
  /\ UNCHANGED <<lockVars, socketVars, m_clients, stop, cur, todo, destroying, instVars,
                 pipeVars, disconnects>>

InsertClient ==
  /\ pc["watcher"] = "insert"
  /\ m_clients' = m_clients \union {cur["watcher"]}
  /\ m_clients_mtx' = "free"
  /\ cur' = [cur EXCEPT !["watcher"] = 0]
  /\ goto("watcher", "scan")
  /\ UNCHANGED <<m_sockets_mtx, socketVars, stop, todo, destroying, instVars, pipeVars,
                 userVars>>

Watcher ==
  \/ WatcherLoop \/ WatcherLock \/ ScanEnd \/ VisitSocket
  \/ Spawn \/ ConnectHandler \/ InsertClient \/ KillClient("watcher")

-----------------------------------------------------------------------------
(* The application thread.                                                 *)

\* Creates one socket, under m_sockets_mtx.
Initialize ==
  /\ pc["app"] = "ready" /\ created < MaxSockets /\ m_sockets_mtx = "free"
  /\ created' = created + 1
  /\ m_sockets' = Append(m_sockets, created + 1)
  /\ pipe' = [pipe EXCEPT ![created + 1] = "listening"]
  /\ m_isInitialized' = TRUE
  /\ UNCHANGED <<lockVars, m_clients, threadVars, instVars, unread, peer, cstate,
                 userVars>>

\* finalize() returns at once on a server that was never initialized;
\* ~server calls it first.
FinalizeBegin ==
  /\ pc["app"] = "ready" /\ m_isInitialized
  /\ goto("app", "finalize")
  /\ UNCHANGED <<lockVars, socketVars, m_clients, stop, cur, todo, destroying, instVars,
                 pipeVars, userVars>>

DestroyBegin ==
  /\ pc["app"] = "ready"
  /\ destroying' = TRUE
  /\ IF m_isInitialized
       THEN stop' = stop /\ goto("app", "finalize")
       ELSE stop' = TRUE /\ goto("app", "join watcher")
  /\ UNCHANGED <<lockVars, socketVars, m_clients, cur, todo, instVars, pipeVars, userVars>>

\* Mutant of FinalizeLock: it does not wait for the watcher's scan.
FinalizeUnlocked ==
  /\ pc["app"] = "finalize"
  /\ m_sockets_mtx' = "app"
  /\ goto("app", "lockclients")
  /\ UNCHANGED <<m_clients_mtx, socketVars, m_clients, stop, cur, todo, destroying,
                 instVars, pipeVars, userVars>>

\* "Lock sockets mutex so that watcher pauses."
FinalizeLock ==
  /\ pc["app"] = "finalize" /\ m_sockets_mtx = "free"
  /\ m_sockets_mtx' = "app"
  /\ goto("app", "lockclients")
  /\ UNCHANGED <<m_clients_mtx, socketVars, m_clients, stop, cur, todo, destroying,
                 instVars, pipeVars, userVars>>

LockClients ==
  /\ pc["app"] = "lockclients" /\ m_clients_mtx = "free"
  /\ m_clients_mtx' = "app"
  /\ goto("app", "kill")
  /\ UNCHANGED <<m_sockets_mtx, socketVars, m_clients, stop, cur, todo, destroying,
                 instVars, pipeVars, userVars>>

\* while (m_clients.size() > 0) kill_client(m_clients.begin()->first)
KillNext ==
  /\ pc["app"] = "kill"
  /\ \E s \in m_clients : cur' = [cur EXCEPT !["app"] = s]
  /\ goto("app", "erase")
  /\ UNCHANGED <<lockVars, socketVars, m_clients, stop, todo, destroying, instVars,
                 pipeVars, userVars>>

\* Mutant of KilledAll: finalize() clears the map without kill_client.
KilledAllSkipped == TRUE

\* m_clients.size() = 0
KilledAll == m_clients = {}

\* The locks are released and the sockets destroyed, which disconnects every
\* client; ~server goes on to stop the watcher.
FinalizeEnd ==
  /\ pc["app"] = "kill" /\ KilledAll
  /\ m_clients' = {}
  /\ m_clients_mtx' = "free" /\ m_sockets_mtx' = "free"
  /\ m_sockets' = <<>>
  /\ pipe' = [s \in Sockets |-> IF pipe[s] = "none" THEN "none" ELSE "closed"]
  /\ cstate' = [c \in Clients |-> IF cstate[c] = "attached" THEN "gone" ELSE cstate[c]]
  /\ unread' = [s \in Sockets |-> 0]
  /\ peer' = [s \in Sockets |-> None]
  /\ stop' = destroying
  /\ goto("app", IF destroying THEN "join watcher" ELSE "ready")
  /\ UNCHANGED <<m_isInitialized, created, cur, todo, destroying, instVars, userVars>>

JoinWatcher ==
  /\ pc["app"] = "join watcher" /\ pc["watcher"] = "done"
  /\ goto("app", "gone")
  /\ UNCHANGED <<lockVars, socketVars, m_clients, stop, cur, todo, destroying, instVars,
                 pipeVars, userVars>>

Finalizing ==
  FinalizeLock \/ LockClients \/ KillNext \/ FinalizeEnd \/ JoinWatcher \/ KillClient("app")

-----------------------------------------------------------------------------
(* Instances and clients.                                                  *)

serverFrame == <<lockVars, socketVars, m_clients, threadVars, userVars>>

instFrame == <<serverFrame, killed, pipe, peer, cstate>>

\* while ((!m_stopWorkers) && m_socket->is_connected())
InstanceLoop(s) ==
  /\ inst[s] = "loop"
  /\ inst' = [inst EXCEPT ![s] = IF killed[s] \/ ~IsConnected(s) THEN "ended" ELSE "turn"]
  /\ UNCHANGED <<instFrame, unread>>

\* The wait for the next request times out.
WaitTimedOut(s) ==
  /\ inst[s] = "turn" /\ unread[s] = 0
  /\ inst' = [inst EXCEPT ![s] = "loop"]
  /\ UNCHANGED <<instFrame, unread>>

\* A request is read, also one that its client left behind, and its function
\* called; ~server_instance may have begun since the worker passed its test.
BeginFunction(s) ==
  /\ inst[s] = "turn" /\ unread[s] > 0
  /\ inst' = [inst EXCEPT ![s] = "busy"]
  /\ unread' = [unread EXCEPT ![s] = @ - 1]
  /\ UNCHANGED instFrame

EndFunction(s) ==
  /\ inst[s] = "busy"
  /\ inst' = [inst EXCEPT ![s] = "reply"]
  /\ UNCHANGED <<instFrame, unread>>

\* The next turn begins with the test of the loop and writes the reply.  To a
\* client that has left the write reports Disconnected, and the loop ends with
\* the requests that are still in the pipe.
WriteReply(s) ==
  /\ inst[s] = "reply"
  /\ inst' = [inst EXCEPT ![s] =
                IF killed[s] \/ pipe[s] # "connected" THEN "ended" ELSE "loop"]
  /\ UNCHANGED <<instFrame, unread>>

Instance(s) ==
  InstanceLoop(s) \/ WaitTimedOut(s) \/ BeginFunction(s) \/ EndFunction(s) \/ WriteReply(s)

Start(c) ==
  /\ cstate[c] = "out"
  /\ cstate' = [cstate EXCEPT ![c] = "trying"]
  /\ UNCHANGED <<serverFrame, instVars, pipe, unread, peer>>

\* CreateFile succeeds on an instance of the pipe that is listening, before
\* or after ConnectNamedPipe; otherwise the constructor throws.
Open(c, s) ==
  /\ cstate[c] = "trying" /\ pipe[s] = "listening"
  /\ cstate' = [cstate EXCEPT ![c] = "attached"]
  /\ pipe' = [pipe EXCEPT ![s] = "connected"]
  /\ peer' = [peer EXCEPT ![s] = c]
  /\ UNCHANGED <<serverFrame, instVars, unread>>

\* A request, of a thread of the client that may have others under way.
SendRequest(c, s) ==
  /\ peer[s] = c /\ pipe[s] = "connected" /\ unread[s] < MaxUnread
  /\ unread' = [unread EXCEPT ![s] = @ + 1]
  /\ UNCHANGED <<serverFrame, instVars, pipe, peer, cstate>>

\* The client closes its end or dies; what it wrote can still be read.
LeavePipe(c, s) ==
  /\ peer[s] = c /\ pipe[s] = "connected"
  /\ cstate' = [cstate EXCEPT ![c] = "gone"]
  /\ pipe' = [pipe EXCEPT ![s] = "left"]
  /\ UNCHANGED <<serverFrame, instVars, unread, peer>>

-----------------------------------------------------------------------------
Next ==
  \/ Watcher
  \/ Initialize \/ FinalizeBegin \/ DestroyBegin \/ Finalizing
  \/ \E s \in Sockets : Instance(s)
  \/ \E c \in Clients : Start(c)
  \/ \E c \in Clients, s \in Sockets : Open(c, s) \/ SendRequest(c, s) \/ LeavePipe(c, s)

Spec == Init /\ [][Next]_vars

\* All threads are scheduled, functions return, and a client that fails to
\* open the pipe tries again; it need not ever leave.  finalize() takes
\* m_sockets_mtx although the watcher takes it again and again: the watcher
\* sleeps for 20 ms between two scans with the mutex free (ipc-server.cpp:113),
\* so the fairness of that one step is strong.  Nothing forces the application
\* to initialize, finalize or destroy the server.
Fairness ==
  /\ WF_vars(Watcher)
  /\ WF_vars(Finalizing)
  /\ SF_vars(FinalizeLock)
  /\ \A s \in Sockets : WF_vars(Instance(s))
  /\ \A c \in Clients : WF_vars(\E s \in Sockets : Open(c, s))

FairSpec == Spec /\ Fairness

-----------------------------------------------------------------------------
(* Properties.                                                             *)

Listed(s) == \E i \in DOMAIN m_sockets : m_sockets[i] = s

(* The two handlers alternate on every socket, starting with connect, and  *)
(* between a connect and its disconnect the server keeps the client: in    *)
(* its map, or about to insert or to kill it.                              *)
HandlersBalanced ==
  \A s \in Sockets :
    connects[s] - disconnects[s] =
      IF \/ s \in m_clients
         \/ cur["watcher"] = s /\ pc["watcher"] \in {"insert", "join", "notify"}
         \/ cur["app"] = s /\ pc["app"] \in {"join", "notify"}
      THEN 1 ELSE 0

(* kill_client promises that the disconnect handler runs only after the    *)
(* functions of that client are finished: after it, none of them runs.     *)
QuietAfterDisconnect ==
  \A s \in Sockets :
    (connects[s] > 0 /\ connects[s] = disconnects[s]) => inst[s] = "none"

(* When finalize() has returned, nothing of a connection is left: no       *)
(* client in the map, no instance, every connect was followed by its       *)
(* disconnect, although the watcher may have been spawning or killing when *)
(* finalize() was called.                                                  *)
FinalizedIsQuiet ==
  (m_sockets = <<>> /\ m_sockets_mtx = "free") =>
    /\ m_clients = {}
    /\ \A s \in Sockets : inst[s] = "none" /\ connects[s] = disconnects[s]

(* finalize() and the destructor return, whatever the watcher does.        *)
FinalizeReturns ==
  (pc["app"] \notin {"ready", "gone"}) ~> (pc["app"] \in {"ready", "gone"})

(* A client that has opened the pipe gets an instance, unless it leaves or *)
(* the server is finalized.                                                *)
ConnectedIsServed ==
  \A s \in Sockets : (pipe[s] = "connected") ~> (inst[s] # "none" \/ pipe[s] # "connected")

\* What the worker leaves in the pipe of a client that is gone: it runs at most
\* one more function, because the write of its reply ends the loop.
Drained(s) == unread[s] = 0 \/ (unread[s] = 1 /\ inst[s] \in {"loop", "turn"})

(* A client that left nothing behind that the instance will not read is    *)
(* noticed, although is_connected() stays true for a while and the         *)
(* instance may be inside a function: its disconnect handler is called.    *)
DrainedClientReaped ==
  \A s \in Sockets :
    (s \in m_clients /\ pipe[s] = "left" /\ Drained(s)) ~> (disconnects[s] = connects[s])

(* ipc-server.cpp:63 and :74 say that each scan verifies the state of the  *)
(* sockets and kills a client that died, which notifies the consumer about *)
(* the disconnection (:136): the disconnect handler of a client that left  *)
(* is called.                                                              *)
DeadClientReaped ==
  \A s \in Sockets :
    (s \in m_clients /\ pipe[s] = "left") ~> (disconnects[s] = connects[s])

(* ipc-server.cpp:86 expects another client in the future, and the test    *)
(* simple-multi-client starts four (test.cpp:185-188): a client that tries *)
(* gets to the server, unless another one is connected or the server is    *)
(* finalized.                                                              *)
EveryClientAdmitted ==
  \A c \in Clients :
    (cstate[c] = "trying" /\ m_sockets # <<>>) ~>
      (cstate[c] # "trying" \/ m_sockets = <<>> \/ \E s \in Sockets : pipe[s] = "connected")
=============================================================================
