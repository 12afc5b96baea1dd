-------------------------- MODULE IpcServerProofs --------------------------
(***************************************************************************)
(* Proofs about the server (IpcServer), for any clients and any number of  *)
(* sockets.                                                                *)
(***************************************************************************)
EXTENDS IpcServer, SequenceTheorems, TLAPS

Threads == {"watcher", "app"}

-----------------------------------------------------------------------------
(* The inductive invariant.                                                 *)

\* Where a thread holds m_sockets_mtx.
WatcherHolds == {"scan", "spawn", "connect", "insert"} \union Kill
AppHolds == {"lockclients", "kill"} \union Kill

\* Who holds a mutex, by where the threads are.
Locks ==
  /\ m_sockets_mtx = "watcher" <=> pc["watcher"] \in WatcherHolds
  /\ m_sockets_mtx = "app" <=> pc["app"] \in AppHolds
  /\ m_clients_mtx = "watcher" <=> pc["watcher"] \in {"connect", "insert"}
  /\ m_clients_mtx = "app" <=> pc["app"] \in {"kill"} \union Kill

\* A thread handles a socket while it spawns or kills a client.
Handling ==
  /\ cur["watcher"] # 0 <=> pc["watcher"] \in {"spawn", "connect", "insert"} \union Kill
  /\ cur["app"] # 0 <=> pc["app"] \in Kill

\* Thread p handles socket s at one of the places.
At(p, s, places) == cur[p] = s /\ pc[p] \in places

\* The server has called the connect handler and not yet the disconnect handler.
Kept(s) ==
  \/ s \in m_clients
  \/ At("watcher", s, {"insert", "join", "notify"})
  \/ At("app", s, {"join", "notify"})

\* What is true of a socket that a thread spawns or kills a client of.
HandledOK(s) ==
  /\ At("watcher", s, {"spawn", "connect", "insert"}) =>
       s \notin m_clients /\ ~killed[s] /\ pipe[s] \in {"connected", "left"}
  /\ At("watcher", s, Kill) => pipe[s] = "left"
  /\ \A p \in Threads :
       /\ At(p, s, {"erase"}) => s \in m_clients
       /\ At(p, s, {"join", "notify"}) => killed[s]

\* The pipe of a socket through its life.
PipeOK(s) ==
  /\ s > created => pipe[s] = "none"
  /\ pipe[s] \in {"listening", "connected", "left"} => Listed(s)
  /\ s \in m_clients => pipe[s] \in {"connected", "left"} /\ ~killed[s]
  /\ killed[s] =>
       pipe[s] \in {"left", "closed"} \/ (pipe[s] = "connected" /\ pc["app"] \in AppHolds)

\* A socket has one client in its life: its handlers are called at most once.
HandlersOK(s) ==
  IF Kept(s)
    THEN connects[s] = 1 /\ disconnects[s] = 0
    ELSE /\ connects[s] = disconnects[s] /\ connects[s] \in {0, 1}
         /\ connects[s] = 1 => killed[s]

\* An instance belongs to a client, or to one that is spawned or killed.
InstanceOK(s) ==
  inst[s] # "none" =>
    \/ s \in m_clients
    \/ At("watcher", s, {"connect", "insert", "join"})
    \/ At("app", s, {"join"})

SocketInv(s) == HandledOK(s) /\ PipeOK(s) /\ HandlersOK(s) /\ InstanceOK(s)

IInv == TypeOK /\ Locks /\ Handling /\ \A s \in Sockets : SocketInv(s)

-----------------------------------------------------------------------------
(* Types.                                                                  *)

(* Moving one thread leaves the other where it is.                          *)
LEMMA GotoMoves ==
  ASSUME DOMAIN pc = Threads, NEW p \in Threads, NEW label, goto(p, label)
  PROVE  DOMAIN pc' = Threads /\ pc'[p] = label /\ \A q \in Threads \ {p} : pc'[q] = pc[q]
  BY DEF goto

\* TypeOK of pc.
PcOK == DOMAIN pc = Threads /\ pc["watcher"] \in WatcherPcs /\ pc["app"] \in AppPcs

(* A thread that moves to one of its places keeps the types of the places.  *)
LEMMA GotoType ==
  ASSUME PcOK, NEW p \in Threads,
         NEW label \in IF p = "watcher" THEN WatcherPcs ELSE AppPcs, goto(p, label)
  PROVE  PcOK'
<1> USE DEF PcOK
<1>1. DOMAIN pc' = Threads /\ pc'[p] = label /\ \A q \in Threads \ {p} : pc'[q] = pc[q]
  BY GotoMoves
<1>2. CASE p = "watcher"
  BY <1>1, <1>2 DEF Threads
<1>3. CASE p = "app"
  BY <1>1, <1>3 DEF Threads
<1> QED
  BY <1>2, <1>3 DEF Threads

(* Counting one more call of a handler.                                     *)
LEMMA CountType ==
  ASSUME NEW f \in [Sockets -> Nat], NEW s \in Sockets
  PROVE  /\ [f EXCEPT ![s] = @ + 1] \in [Sockets -> Nat]
         /\ [f EXCEPT ![s] = @ + 1][s] = f[s] + 1
         /\ \A t \in Sockets \ {s} : [f EXCEPT ![s] = @ + 1][t] = f[t]
  OBVIOUS

(* Handling a socket, or none.                                              *)
LEMMA CurType ==
  ASSUME cur \in [Threads -> 0..MaxSockets], NEW p \in Threads, NEW s \in 0..MaxSockets
  PROVE  /\ [cur EXCEPT ![p] = s] \in [Threads -> 0..MaxSockets]
         /\ [cur EXCEPT ![p] = s][p] = s
         /\ \A q \in Threads \ {p} : [cur EXCEPT ![p] = s][q] = cur[q]
  OBVIOUS

(* A socket is not zero, and zero is no socket.                             *)
LEMMA SocketIsPositive ==
  /\ 0 \in 0..MaxSockets
  /\ \A s : s \in Sockets <=> s \in 0..MaxSockets /\ s # 0
  BY ServerAssumption DEF Sockets

(* The initial state is typed.                                              *)
LEMMA TypeInit == Init => TypeOK
<1> SUFFICES ASSUME Init PROVE TypeOK
  OBVIOUS
<1>1. DOMAIN pc = {"watcher", "app"} /\ pc["watcher"] = "loop" /\ pc["app"] = "ready"
  BY DEF Init
<1>2. m_sockets \in Seq(Sockets) /\ todo \in Seq(Sockets)
  BY DEF Init
<1>3. 0 \in 0..MaxSockets
  BY SocketIsPositive
<1>4. cur \in [{"watcher", "app"} -> 0..MaxSockets]
  BY <1>3 DEF Init
<1>5. unread \in [Sockets -> 0..MaxUnread]
  BY ServerAssumption DEF Init
<1> QED
  BY <1>1, <1>2, <1>3, <1>4, <1>5 DEF Init, TypeOK, WatcherPcs, AppPcs, WorkerPcs

(* A step of kill_client keeps the types.                                   *)
LEMMA TypeKill ==
  ASSUME TypeOK, Handling, NEW p \in Threads, KillClient(p)
  PROVE  TypeOK'
<1> USE DEF lockVars, socketVars, pipeVars, userVars, instVars
<1>1. PcOK /\ cur[p] \in 0..MaxSockets
  BY DEF TypeOK, PcOK, Threads
<1>2. \A label \in Kill : label \in IF p = "watcher" THEN WatcherPcs ELSE AppPcs
  BY DEF WatcherPcs, AppPcs
<1>3. CASE EraseClient(p)
  <2>1. PcOK'
    BY <1>3, <1>1, <1>2, GotoType DEF EraseClient, Kill
  <2> QED
    BY <1>3, <2>1 DEF EraseClient, TypeOK, PcOK, Threads
<1>4. CASE JoinInstance(p)
  <2>1. PcOK'
    BY <1>4, <1>1, <1>2, GotoType DEF JoinInstance, Kill
  <2> QED
    BY <1>4, <2>1 DEF JoinInstance, TypeOK, PcOK, Threads
<1>5. CASE NotifyDisconnect(p)
  <2>1. AfterKill(p) \in IF p = "watcher" THEN WatcherPcs ELSE AppPcs
    BY DEF AfterKill, WatcherPcs, AppPcs
  <2>2. PcOK'
    BY <1>5, <1>1, <2>1, GotoType DEF NotifyDisconnect
  <2>3. disconnects' \in [Sockets -> Nat]
    <3>1. cur[p] \in Sockets
      BY <1>5, <1>1, SocketIsPositive DEF NotifyDisconnect, Handling, Threads, Kill
    <3> QED
      BY <1>5, <3>1, CountType DEF NotifyDisconnect, TypeOK
  <2>4. cur' \in [{"watcher", "app"} -> 0..MaxSockets]
    BY <1>5, SocketIsPositive, CurType DEF NotifyDisconnect, TypeOK, Threads
  <2> QED
    BY <1>5, <2>2, <2>3, <2>4 DEF NotifyDisconnect, TypeOK, PcOK, Threads
<1> QED
  BY <1>3, <1>4, <1>5 DEF KillClient

(* The watcher keeps the types.                                            *)
LEMMA TypeWatcher ==
  ASSUME TypeOK, Handling, Watcher
  PROVE  TypeOK'
<1> USE DEF lockVars, socketVars, pipeVars, userVars, instVars, threadVars
<1>1. PcOK
  BY DEF TypeOK, PcOK, Threads
<1>2. CASE WatcherLoop
  <2>1. PcOK'
    BY <1>2, <1>1, GotoType DEF WatcherLoop, Threads, WatcherPcs, AppPcs
  <2> QED
    BY <1>2, <2>1 DEF WatcherLoop, TypeOK, PcOK, Threads
<1>3. CASE WatcherLock
  <2>1. PcOK'
    BY <1>3, <1>1, GotoType DEF WatcherLock, Threads, WatcherPcs, AppPcs
  <2> QED
    BY <1>3, <2>1 DEF WatcherLock, TypeOK, PcOK, Threads
<1>4. CASE ScanEnd
  <2>1. PcOK'
    BY <1>4, <1>1, GotoType DEF ScanEnd, Threads, WatcherPcs, AppPcs
  <2> QED
    BY <1>4, <2>1 DEF ScanEnd, TypeOK, PcOK, Threads
<1>5. CASE VisitSocket
  <2>1. PcOK'
    <3>1. goto("watcher", "erase") \/ goto("watcher", "spawn") \/ pc' = pc
      BY <1>5 DEF VisitSocket
    <3>2. pc' = pc => PcOK'
      BY <1>1 DEF PcOK
    <3> QED
      BY <1>1, <3>1, <3>2, GotoType DEF Threads, WatcherPcs, Kill
  <2>2. Head(todo) \in Sockets /\ Tail(todo) \in Seq(Sockets)
    BY <1>5 DEF VisitSocket, TypeOK
  <2>3. cur' \in [{"watcher", "app"} -> 0..MaxSockets]
    BY <1>5, <2>2 DEF VisitSocket, TypeOK, Sockets
  <2> QED
    BY <1>5, <2>1, <2>2, <2>3 DEF VisitSocket, TypeOK, PcOK, Threads
<1>6. CASE Spawn
  <2>1. PcOK'
    BY <1>6, <1>1, GotoType DEF Spawn, Threads, WatcherPcs, AppPcs
  <2> QED
    BY <1>6, <2>1 DEF Spawn, TypeOK, PcOK, Threads, WorkerPcs
<1>7. CASE ConnectHandler
  <2>1. PcOK'
    BY <1>7, <1>1, GotoType DEF ConnectHandler, Threads, WatcherPcs, AppPcs
  <2>2. connects' \in [Sockets -> Nat]
    <3>1. cur["watcher"] \in Sockets
      BY <1>7, SocketIsPositive DEF ConnectHandler, Handling, TypeOK
    <3> QED
      BY <1>7, <3>1, CountType DEF ConnectHandler, TypeOK
  <2> QED
    BY <1>7, <2>1, <2>2 DEF ConnectHandler, TypeOK, PcOK, Threads
<1>8. CASE InsertClient
  <2>1. PcOK'
    BY <1>8, <1>1, GotoType DEF InsertClient, Threads, WatcherPcs, AppPcs
  <2>2. cur["watcher"] \in Sockets
    BY <1>8, ServerAssumption DEF InsertClient, Handling, TypeOK, Sockets
  <2>3. cur' \in [{"watcher", "app"} -> 0..MaxSockets]
    BY <1>8, ServerAssumption DEF InsertClient, TypeOK
  <2> QED
    BY <1>8, <2>1, <2>2, <2>3 DEF InsertClient, TypeOK, PcOK, Threads
<1>9. CASE KillClient("watcher")
  BY <1>9, TypeKill DEF Threads
<1> QED
  BY <1>2, <1>3, <1>4, <1>5, <1>6, <1>7, <1>8, <1>9 DEF Watcher

(* The application thread keeps the types.                                 *)
LEMMA TypeApp ==
  ASSUME TypeOK, Handling, Initialize \/ FinalizeBegin \/ DestroyBegin \/ Finalizing
  PROVE  TypeOK'
<1> USE DEF lockVars, socketVars, pipeVars, userVars, instVars, threadVars
<1>1. PcOK
  BY DEF TypeOK, PcOK, Threads
<1>2. CASE Initialize
  <2>1. created + 1 \in Sockets /\ created' \in 0..MaxSockets
    BY <1>2, ServerAssumption DEF Initialize, TypeOK, Sockets
  <2>2. m_sockets' \in Seq(Sockets)
    BY <1>2, <2>1 DEF Initialize, TypeOK
  <2> QED
    BY <1>2, <2>1, <2>2 DEF Initialize, TypeOK, PcOK, Threads
<1>3. CASE FinalizeBegin
  <2>1. PcOK'
    BY <1>3, <1>1, GotoType DEF FinalizeBegin, Threads, WatcherPcs, AppPcs
  <2> QED
    BY <1>3, <2>1 DEF FinalizeBegin, TypeOK, PcOK, Threads
<1>4. CASE DestroyBegin
  <2>1. PcOK'
    BY <1>4, <1>1, GotoType DEF DestroyBegin, Threads, WatcherPcs, AppPcs
  <2> QED
    BY <1>4, <2>1 DEF DestroyBegin, TypeOK, PcOK, Threads
<1>5. CASE FinalizeLock
  <2>1. PcOK'
    BY <1>5, <1>1, GotoType DEF FinalizeLock, Threads, WatcherPcs, AppPcs
  <2> QED
    BY <1>5, <2>1 DEF FinalizeLock, TypeOK, PcOK, Threads
<1>6. CASE LockClients
  <2>1. PcOK'
    BY <1>6, <1>1, GotoType DEF LockClients, Threads, WatcherPcs, AppPcs
  <2> QED
    BY <1>6, <2>1 DEF LockClients, TypeOK, PcOK, Threads
<1>7. CASE KillNext
  <2>1. PcOK'
    BY <1>7, <1>1, GotoType DEF KillNext, Threads, AppPcs, Kill
  <2>2. cur' \in [{"watcher", "app"} -> 0..MaxSockets]
    BY <1>7 DEF KillNext, TypeOK, Sockets
  <2> QED
    BY <1>7, <2>1, <2>2 DEF KillNext, TypeOK, PcOK, Threads
<1>8. CASE FinalizeEnd
  <2>1. PcOK'
    BY <1>8, <1>1, GotoType DEF FinalizeEnd, Threads, WatcherPcs, AppPcs
  <2>2. stop' \in BOOLEAN
    BY <1>8 DEF FinalizeEnd, TypeOK
  <2>3. m_sockets' \in Seq(Sockets)
    BY <1>8, EmptySeq DEF FinalizeEnd
  <2>4. pipe' \in [Sockets -> {"none", "listening", "connected", "left", "closed"}]
    BY <1>8 DEF FinalizeEnd, TypeOK
  <2>5. peer' \in [Sockets -> Clients \union {None}]
    BY <1>8 DEF FinalizeEnd
  <2>6. cstate' \in [Clients -> {"out", "trying", "attached", "gone"}]
    BY <1>8 DEF FinalizeEnd, TypeOK
  <2>7. unread' \in [Sockets -> 0..MaxUnread]
    <3>1. 0 \in 0..MaxUnread
      BY ServerAssumption
    <3> QED
      BY <1>8, <3>1 DEF FinalizeEnd
  <2> QED
    BY <1>8, <2>1, <2>2, <2>3, <2>4, <2>5, <2>6, <2>7 DEF FinalizeEnd, TypeOK, PcOK, Threads
<1>9. CASE JoinWatcher
  <2>1. PcOK'
    BY <1>9, <1>1, GotoType DEF JoinWatcher, Threads, WatcherPcs, AppPcs
  <2> QED
    BY <1>9, <2>1 DEF JoinWatcher, TypeOK, PcOK, Threads
<1>10. CASE KillClient("app")
  BY <1>10, TypeKill DEF Threads
<1> QED
  BY <1>2, <1>3, <1>4, <1>5, <1>6, <1>7, <1>8, <1>9, <1>10 DEF Finalizing

\* A step of an instance or of a client.
Environment ==
  \/ \E s \in Sockets : Instance(s)
  \/ \E c \in Clients : Start(c)
  \/ \E c \in Clients, s \in Sockets : Open(c, s) \/ SendRequest(c, s) \/ LeavePipe(c, s)

(* Instances and clients keep the types.                                    *)
LEMMA TypeEnvironment ==
  ASSUME TypeOK, Environment
  PROVE  TypeOK'
<1> USE DEF TypeOK, lockVars, socketVars, pipeVars, userVars, instVars, threadVars,
            serverFrame, instFrame
<1>1. ASSUME NEW s \in Sockets, Instance(s)
      PROVE  TypeOK'
  <2>1. CASE BeginFunction(s)
    <3>1. unread' \in [Sockets -> 0..MaxUnread]
      <4>1. unread[s] \in 0..MaxUnread /\ unread[s] > 0
        BY <2>1 DEF BeginFunction
      <4>2. unread[s] - 1 \in 0..MaxUnread
        BY <4>1, ServerAssumption
      <4> QED
        BY <2>1, <4>2 DEF BeginFunction
    <3>2. inst' \in [Sockets -> WorkerPcs \union {"none"}]
      BY <2>1 DEF BeginFunction, WorkerPcs
    <3> QED
      BY <2>1, <3>1, <3>2 DEF BeginFunction
  <2>2. CASE InstanceLoop(s)
    <3>1. inst' \in [Sockets -> WorkerPcs \union {"none"}]
      BY <2>2 DEF InstanceLoop, WorkerPcs
    <3> QED
      BY <2>2, <3>1 DEF InstanceLoop
  <2>3. CASE WaitTimedOut(s)
    BY <2>3 DEF WaitTimedOut, WorkerPcs
  <2>4. CASE EndFunction(s)
    BY <2>4 DEF EndFunction, WorkerPcs
  <2>5. CASE WriteReply(s)
    <3>1. inst' \in [Sockets -> WorkerPcs \union {"none"}]
      BY <2>5 DEF WriteReply, WorkerPcs
    <3> QED
      BY <2>5, <3>1 DEF WriteReply
  <2> QED
    BY <1>1, <2>1, <2>2, <2>3, <2>4, <2>5 DEF Instance
<1>2. ASSUME NEW c \in Clients, Start(c)
      PROVE  TypeOK'
  BY <1>2 DEF Start
<1>3. ASSUME NEW c \in Clients, NEW s \in Sockets, Open(c, s)
      PROVE  TypeOK'
  BY <1>3 DEF Open
<1>4. ASSUME NEW c \in Clients, NEW s \in Sockets, LeavePipe(c, s)
      PROVE  TypeOK'
  BY <1>4 DEF LeavePipe
<1>5. ASSUME NEW c \in Clients, NEW s \in Sockets, SendRequest(c, s)
      PROVE  TypeOK'
  <2>1. unread[s] + 1 \in 0..MaxUnread
    BY <1>5, ServerAssumption DEF SendRequest
  <2> QED
    BY <1>5, <2>1 DEF SendRequest
<1> QED
  BY <1>1, <1>2, <1>3, <1>4, <1>5 DEF Environment

-----------------------------------------------------------------------------
(* Every step keeps the invariant.                                         *)

\* What the invariant of a socket is about, besides where the threads are.
socketState == <<m_sockets, created, m_clients, cur, inst, killed, pipe, connects, disconnects>>

(* A thread that handles no socket moves without a socket noticing, as long *)
(* as the application keeps the mutexes it has.                             *)
LEMMA ThreadMoves ==
  ASSUME \A s \in Sockets : SocketInv(s), UNCHANGED socketState,
         pc'["watcher"] = pc["watcher"] \/ cur["watcher"] = 0,
         pc'["app"] = pc["app"] \/ cur["app"] = 0,
         pc["app"] \in AppHolds => pc'["app"] \in AppHolds
  PROVE  \A s \in Sockets : SocketInv(s)'
<1> SUFFICES ASSUME NEW s \in Sockets PROVE SocketInv(s)'
  OBVIOUS
<1>1. SocketInv(s) /\ s # 0
  BY SocketIsPositive
<1>2. ASSUME NEW p \in Threads, NEW places PROVE At(p, s, places)' = At(p, s, places)
  BY <1>1 DEF At, Threads, socketState
<1>3. Listed(s)' = Listed(s)
  BY DEF Listed, socketState
<1> QED
  BY <1>1, <1>2, <1>3
     DEF SocketInv, HandledOK, PipeOK, HandlersOK, InstanceOK, Kept, Threads,
         socketState

(* kill_client keeps the invariant, whichever thread runs it.               *)
LEMMA KillStep ==
  ASSUME IInv, TypeOK', NEW p \in Threads, KillClient(p)
  PROVE  Locks' /\ Handling' /\ \A s \in Sockets : SocketInv(s)'
<1> USE DEF lockVars, socketVars, pipeVars, userVars, instVars, Kill
<1>1. TypeOK /\ PcOK /\ Locks /\ Handling /\ \A s \in Sockets : SocketInv(s)
  BY DEF IInv, TypeOK, PcOK, Threads
<1> DEFINE k == cur[p]
<1>2. pc[p] \in Kill
  <2>1. EraseClient(p) \/ JoinInstance(p) \/ NotifyDisconnect(p)
    BY DEF KillClient
  <2> QED
    BY <2>1 DEF EraseClient, JoinInstance, NotifyDisconnect
<1>3. k \in Sockets /\ k # 0
  BY <1>1, <1>2, SocketIsPositive DEF Handling, TypeOK, Threads
<1>4. \A q \in Threads \ {p} : pc[q] \notin Kill /\ cur[q] = 0
  BY <1>1, <1>2 DEF Locks, Handling, WatcherHolds, AppHolds, Threads
<1>5. ASSUME NEW s \in Sockets
      PROVE  /\ s # 0 /\ SocketInv(s)
             /\ UNCHANGED m_sockets => Listed(s)' = Listed(s)
  BY <1>1, SocketIsPositive DEF Listed
<1>6. CASE EraseClient(p)
  <2>1. pc'[p] = "join" /\ (\A q \in Threads \ {p} : pc'[q] = pc[q])
    BY <1>1, <1>6, GotoMoves DEF EraseClient, PcOK
  <2>2. /\ pc[p] = "erase" /\ m_clients' = m_clients \ {k}
        /\ \A s \in Sockets : killed'[s] = (killed[s] \/ s = k)
        /\ UNCHANGED <<m_sockets_mtx, m_clients_mtx, m_sockets, created, cur, inst, pipe,
                       connects, disconnects>>
    BY <1>1, <1>6 DEF EraseClient, TypeOK
  <2>3. Locks' /\ Handling'
    BY <1>1, <2>1, <2>2 DEF Locks, Handling, WatcherHolds, AppHolds, Threads
  <2>4. ASSUME NEW s \in Sockets PROVE SocketInv(s)'
    <3>1. SocketInv(s) /\ SocketInv(k) /\ s # 0 /\ Listed(s)' = Listed(s)
      BY <1>3, <1>5, <2>2
    <3>2. HandledOK(s)'
      BY <1>4, <2>1, <2>2, <3>1 DEF SocketInv, HandledOK, At, Threads
    <3>3. PipeOK(s)'
      BY <1>1, <1>4, <2>1, <2>2, <3>1
         DEF SocketInv, PipeOK, HandledOK, At, Threads, AppHolds
    <3>4. HandlersOK(s)'
      BY <1>4, <2>1, <2>2, <3>1 DEF SocketInv, HandlersOK, HandledOK, Kept, At, Threads
    <3>5. InstanceOK(s)'
      BY <1>4, <2>1, <2>2, <3>1 DEF SocketInv, InstanceOK, HandledOK, At, Threads
    <3> QED
      BY <3>2, <3>3, <3>4, <3>5 DEF SocketInv
  <2> QED
    BY <2>3, <2>4
<1>7. CASE JoinInstance(p)
  <2>1. pc'[p] = "notify" /\ (\A q \in Threads \ {p} : pc'[q] = pc[q])
    BY <1>1, <1>7, GotoMoves DEF JoinInstance, PcOK
  <2>2. /\ pc[p] = "join"
        /\ \A s \in Sockets : inst'[s] = IF s = k THEN "none" ELSE inst[s]
        /\ UNCHANGED <<m_sockets_mtx, m_clients_mtx, m_clients, m_sockets, created, cur,
                       killed, pipe, connects, disconnects>>
    BY <1>1, <1>7 DEF JoinInstance, TypeOK
  <2>3. Locks' /\ Handling'
    BY <1>1, <2>1, <2>2 DEF Locks, Handling, WatcherHolds, AppHolds, Threads
  <2>4. ASSUME NEW s \in Sockets PROVE SocketInv(s)'
    <3>1. SocketInv(s) /\ SocketInv(k) /\ s # 0 /\ Listed(s)' = Listed(s)
      BY <1>3, <1>5, <2>2
    <3>2. HandledOK(s)'
      BY <1>4, <2>1, <2>2, <3>1 DEF SocketInv, HandledOK, At, Threads
    <3>3. PipeOK(s)'
      BY <1>1, <1>4, <2>1, <2>2, <3>1
         DEF SocketInv, PipeOK, HandledOK, At, Threads, AppHolds
    <3>4. HandlersOK(s)'
      BY <1>4, <2>1, <2>2, <3>1 DEF SocketInv, HandlersOK, HandledOK, Kept, At, Threads
    <3>5. InstanceOK(s)'
      BY <1>4, <2>1, <2>2, <3>1 DEF SocketInv, InstanceOK, HandledOK, At, Threads
    <3> QED
      BY <3>2, <3>3, <3>4, <3>5 DEF SocketInv
  <2> QED
    BY <2>3, <2>4
<1>8. CASE NotifyDisconnect(p)
  <2>1. pc'[p] = AfterKill(p) /\ (\A q \in Threads \ {p} : pc'[q] = pc[q])
    BY <1>1, <1>8, GotoMoves DEF NotifyDisconnect, PcOK
  <2>2. cur'[p] = 0 /\ (\A q \in Threads \ {p} : cur'[q] = cur[q])
    BY <1>1, <1>8, CurType, SocketIsPositive DEF NotifyDisconnect, TypeOK, Threads
  <2>3. /\ pc[p] = "notify"
        /\ UNCHANGED <<m_sockets_mtx, m_clients_mtx, m_clients, m_sockets, created, inst,
                       killed, pipe, connects>>
    BY <1>8 DEF NotifyDisconnect
  <2>4. \A s \in Sockets : disconnects'[s] = IF s = k THEN disconnects[s] + 1 ELSE disconnects[s]
    BY <1>1, <1>8, <1>3, CountType DEF NotifyDisconnect, TypeOK
  <2>5. Locks' /\ Handling'
    BY <1>1, <2>1, <2>2, <2>3
       DEF Locks, Handling, WatcherHolds, AppHolds, Threads, AfterKill
  <2>6. ASSUME NEW s \in Sockets PROVE SocketInv(s)'
    <3>1. SocketInv(s) /\ SocketInv(k) /\ s # 0 /\ Listed(s)' = Listed(s)
      BY <1>3, <1>5, <2>3
    <3>2. HandledOK(s)'
      BY <1>4, <2>1, <2>2, <2>3, <3>1 DEF SocketInv, HandledOK, At, Threads
    <3>3. PipeOK(s)'
      BY <1>1, <1>4, <2>1, <2>3, <3>1
         DEF SocketInv, PipeOK, AppHolds, AfterKill, Threads
    <3>4. HandlersOK(s)'
      <4>1. CASE s = k
        <5>1. killed[s] /\ s \notin m_clients /\ Kept(s)
          BY <2>3, <3>1, <4>1 DEF SocketInv, HandledOK, PipeOK, Kept, At, Threads
        <5>2. ~Kept(s)'
          BY <1>4, <2>2, <2>3, <3>1, <5>1 DEF Kept, At, Threads
        <5> QED
          BY <2>4, <2>3, <3>1, <4>1, <5>1, <5>2 DEF SocketInv, HandlersOK
      <4>2. CASE s # k
        <5>1. Kept(s)' = Kept(s)
          BY <1>4, <2>1, <2>2, <2>3, <3>1, <4>2 DEF Kept, At, Threads
        <5> QED
          BY <2>4, <2>3, <3>1, <4>2, <5>1 DEF SocketInv, HandlersOK
      <4> QED
        BY <4>1, <4>2
    <3>5. InstanceOK(s)'
      BY <1>4, <2>1, <2>2, <2>3, <3>1 DEF SocketInv, InstanceOK, HandledOK, At, Threads
    <3> QED
      BY <3>2, <3>3, <3>4, <3>5 DEF SocketInv
  <2> QED
    BY <2>5, <2>6
<1> QED
  BY <1>6, <1>7, <1>8 DEF KillClient

(* The watcher keeps the invariant.                                        *)
LEMMA WatcherStep ==
  ASSUME IInv, TypeOK', Watcher
  PROVE  Locks' /\ Handling' /\ \A s \in Sockets : SocketInv(s)'
<1> USE DEF lockVars, socketVars, pipeVars, userVars, instVars, threadVars, Threads, Kill,
        WatcherHolds, AppHolds
<1>1. TypeOK /\ PcOK /\ Locks /\ Handling /\ \A s \in Sockets : SocketInv(s)
  BY DEF IInv, TypeOK, PcOK
<1>2. CASE WatcherLoop
  <2>1. pc'["watcher"] \in {"done", "lock"} /\ pc'["app"] = pc["app"]
    BY <1>1, <1>2, GotoMoves DEF WatcherLoop, PcOK
  <2>2. Locks'
    BY <1>1, <1>2, <2>1 DEF WatcherLoop, Locks
  <2>3. Handling'
    BY <1>1, <1>2, <2>1, SocketIsPositive DEF WatcherLoop, Handling, TypeOK
  <2>4. \A s \in Sockets : SocketInv(s)'
    BY <1>1, <1>2, <2>1, ThreadMoves DEF WatcherLoop, Handling, socketState
  <2> QED
    BY <2>2, <2>3, <2>4
<1>3. CASE WatcherLock
  <2>1. pc'["watcher"] = "scan" /\ pc'["app"] = pc["app"]
    BY <1>1, <1>3, GotoMoves DEF WatcherLock, PcOK
  <2>2. Locks'
    BY <1>1, <1>3, <2>1 DEF WatcherLock, Locks
  <2>3. Handling'
    BY <1>1, <1>3, <2>1, SocketIsPositive DEF WatcherLock, Handling, TypeOK
  <2>4. \A s \in Sockets : SocketInv(s)'
    BY <1>1, <1>3, <2>1, ThreadMoves DEF WatcherLock, Handling, socketState
  <2> QED
    BY <2>2, <2>3, <2>4
<1>4. CASE ScanEnd
  <2>1. pc'["watcher"] = "loop" /\ pc'["app"] = pc["app"]
    BY <1>1, <1>4, GotoMoves DEF ScanEnd, PcOK
  <2>2. Locks'
    BY <1>1, <1>4, <2>1 DEF ScanEnd, Locks
  <2>3. Handling'
    BY <1>1, <1>4, <2>1, SocketIsPositive DEF ScanEnd, Handling, TypeOK
  <2>4. \A s \in Sockets : SocketInv(s)'
    BY <1>1, <1>4, <2>1, ThreadMoves DEF ScanEnd, Handling, socketState
  <2> QED
    BY <2>2, <2>3, <2>4
<1>5. CASE VisitSocket
  <2> DEFINE h == Head(todo)
  <2>1. h \in Sockets /\ h # 0
    BY <1>1, <1>5, SocketIsPositive DEF VisitSocket, TypeOK
  <2>2. UNCHANGED <<lockVars, m_sockets, created, m_clients, inst, killed, pipe, connects, disconnects>>
    BY <1>5 DEF VisitSocket
  <2>3. \/ UNCHANGED <<pc, cur>>
        \/ ClientDied(h) /\ cur' = [cur EXCEPT !["watcher"] = h] /\ goto("watcher", "erase")
        \/ ClientWaits(h) /\ cur' = [cur EXCEPT !["watcher"] = h] /\ goto("watcher", "spawn")
    BY <1>5 DEF VisitSocket
  <2>4. pc["watcher"] = "scan"
    BY <1>5 DEF VisitSocket
  <2> HIDE DEF h
  <2>5. CASE UNCHANGED <<pc, cur>>
    <3>1. Locks' /\ Handling'
      BY <1>1, <2>2, <2>5 DEF Locks, Handling
    <3>2. \A s \in Sockets : SocketInv(s)'
      BY <1>1, <2>2, <2>5, ThreadMoves DEF socketState
    <3> QED
      BY <3>1, <3>2
  <2>6. ASSUME NEW label \in {"erase", "spawn"}, goto("watcher", label),
               cur' = [cur EXCEPT !["watcher"] = h],
               label = "erase" => ClientDied(h), label = "spawn" => ClientWaits(h)
        PROVE  Locks' /\ Handling' /\ \A s \in Sockets : SocketInv(s)'
    <3>1. pc'["watcher"] = label /\ pc'["app"] = pc["app"]
      BY <1>1, <2>6, GotoMoves DEF PcOK
    <3>2. cur'["watcher"] = h /\ cur'["app"] = cur["app"]
      BY <1>1, <2>6 DEF TypeOK
    <3>3. Locks'
      BY <1>1, <2>2, <2>4, <2>6, <3>1 DEF Locks
    <3>4. Handling'
      BY <1>1, <2>1, <2>6, <3>1, <3>2 DEF Handling
    <3>5. ASSUME NEW s \in Sockets PROVE SocketInv(s)'
      <4>1. Listed(s)' = Listed(s)
        BY <2>2 DEF Listed
      <4>2. /\ pc["app"] \notin AppHolds /\ cur["watcher"] = 0 /\ s # 0 /\ SocketInv(s) /\ SocketInv(h)
            /\ label = "erase" => pipe[h] = "left" /\ h \in m_clients
            /\ label = "spawn" => pipe[h] = "connected" /\ h \notin m_clients
        BY <1>1, <2>6, <2>1, <2>4, SocketIsPositive
           DEF Locks, Handling, ClientDied, IsConnected, ClientWaits, SocketInv, PipeOK
      <4>3. HandledOK(s)'
        BY <2>2, <2>6, <2>4, <3>1, <3>2, <4>2 DEF SocketInv, HandledOK, PipeOK, At
      <4>4. PipeOK(s)'
        BY <2>2, <2>6, <2>4, <3>1, <4>1, <4>2 DEF SocketInv, PipeOK
      <4>5. HandlersOK(s)'
        BY <2>2, <2>6, <2>4, <3>1, <3>2, <4>2 DEF SocketInv, HandlersOK, Kept, At
      <4>6. InstanceOK(s)'
        BY <2>2, <2>6, <2>4, <3>1, <3>2, <4>2 DEF SocketInv, InstanceOK, At
      <4> QED
        BY <4>3, <4>4, <4>5, <4>6 DEF SocketInv
    <3> QED
      BY <3>3, <3>4, <3>5
  <2> QED
    BY <2>3, <2>5, <2>6
<1>6. CASE Spawn
  <2>1. pc'["watcher"] = "connect" /\ pc'["app"] = pc["app"]
    BY <1>1, <1>6, GotoMoves DEF Spawn, PcOK
  <2>2. Locks'
    BY <1>1, <1>6, <2>1 DEF Spawn, Locks
  <2>3. Handling'
    BY <1>1, <1>6, <2>1, SocketIsPositive DEF Spawn, Handling, TypeOK
  <2>4. ASSUME NEW s \in Sockets PROVE SocketInv(s)'
    <3>1. Listed(s)' = Listed(s)
      BY <1>6 DEF Spawn, Listed
    <3>2. HandledOK(s)'
      BY <1>1, <1>6, <2>1, <3>1, SocketIsPositive
         DEF Spawn, Locks, Handling, TypeOK, SocketInv, HandledOK, PipeOK,
             HandlersOK, InstanceOK, Kept, At
    <3>3. PipeOK(s)'
      BY <1>1, <1>6, <2>1, <3>1, SocketIsPositive
         DEF Spawn, Locks, Handling, TypeOK, SocketInv, HandledOK, PipeOK,
             HandlersOK, InstanceOK, Kept, At
    <3>4. HandlersOK(s)'
      BY <1>1, <1>6, <2>1, <3>1, SocketIsPositive
         DEF Spawn, Locks, Handling, TypeOK, SocketInv, HandledOK, PipeOK,
             HandlersOK, InstanceOK, Kept, At
    <3>5. InstanceOK(s)'
      BY <1>1, <1>6, <2>1, <3>1, SocketIsPositive
         DEF Spawn, Locks, Handling, TypeOK, SocketInv, HandledOK, PipeOK,
             HandlersOK, InstanceOK, Kept, At
    <3> QED
      BY <3>2, <3>3, <3>4, <3>5 DEF SocketInv
  <2> QED
    BY <2>2, <2>3, <2>4
<1>7. CASE ConnectHandler
  <2>1. pc'["watcher"] = "insert" /\ pc'["app"] = pc["app"]
    BY <1>1, <1>7, GotoMoves DEF ConnectHandler, PcOK
  <2>2. Locks'
    BY <1>1, <1>7, <2>1 DEF ConnectHandler, Locks
  <2>3. Handling'
    BY <1>1, <1>7, <2>1, SocketIsPositive DEF ConnectHandler, Handling, TypeOK
  <2>4. ASSUME NEW s \in Sockets PROVE SocketInv(s)'
    <3>1. Listed(s)' = Listed(s)
      BY <1>7 DEF ConnectHandler, Listed
    <3>2. HandledOK(s)'
      BY <1>1, <1>7, <2>1, <3>1, SocketIsPositive
         DEF ConnectHandler, Locks, Handling, TypeOK, SocketInv, HandledOK,
             PipeOK, HandlersOK, InstanceOK, Kept, At
    <3>3. PipeOK(s)'
      BY <1>1, <1>7, <2>1, <3>1, SocketIsPositive
         DEF ConnectHandler, Locks, Handling, TypeOK, SocketInv, HandledOK,
             PipeOK, HandlersOK, InstanceOK, Kept, At
    <3>4. HandlersOK(s)'
      BY <1>1, <1>7, <2>1, <3>1, SocketIsPositive
         DEF ConnectHandler, Locks, Handling, TypeOK, SocketInv, HandledOK,
             PipeOK, HandlersOK, InstanceOK, Kept, At
    <3>5. InstanceOK(s)'
      BY <1>1, <1>7, <2>1, <3>1, SocketIsPositive
         DEF ConnectHandler, Locks, Handling, TypeOK, SocketInv, HandledOK,
             PipeOK, HandlersOK, InstanceOK, Kept, At
    <3> QED
      BY <3>2, <3>3, <3>4, <3>5 DEF SocketInv
  <2> QED
    BY <2>2, <2>3, <2>4
<1>8. CASE InsertClient
  <2>1. pc'["watcher"] = "scan" /\ pc'["app"] = pc["app"]
    BY <1>1, <1>8, GotoMoves DEF InsertClient, PcOK
  <2>2. Locks'
    BY <1>1, <1>8, <2>1 DEF InsertClient, Locks
  <2>3. Handling'
    BY <1>1, <1>8, <2>1, SocketIsPositive DEF InsertClient, Handling, TypeOK
  <2>4. ASSUME NEW s \in Sockets PROVE SocketInv(s)'
    <3>1. Listed(s)' = Listed(s)
      BY <1>8 DEF InsertClient, Listed
    <3>2. HandledOK(s)'
      BY <1>1, <1>8, <2>1, <3>1, SocketIsPositive
         DEF InsertClient, Locks, Handling, TypeOK, SocketInv, HandledOK,
             PipeOK, HandlersOK, InstanceOK, Kept, At
    <3>3. PipeOK(s)'
      BY <1>1, <1>8, <2>1, <3>1, SocketIsPositive
         DEF InsertClient, Locks, Handling, TypeOK, SocketInv, HandledOK,
             PipeOK, HandlersOK, InstanceOK, Kept, At
    <3>4. HandlersOK(s)'
      BY <1>1, <1>8, <2>1, <3>1, SocketIsPositive
         DEF InsertClient, Locks, Handling, TypeOK, SocketInv, HandledOK,
             PipeOK, HandlersOK, InstanceOK, Kept, At
    <3>5. InstanceOK(s)'
      BY <1>1, <1>8, <2>1, <3>1, SocketIsPositive
         DEF InsertClient, Locks, Handling, TypeOK, SocketInv, HandledOK,
             PipeOK, HandlersOK, InstanceOK, Kept, At
    <3> QED
      BY <3>2, <3>3, <3>4, <3>5 DEF SocketInv
  <2> QED
    BY <2>2, <2>3, <2>4
<1>9. CASE KillClient("watcher")
  BY <1>9, KillStep
<1> QED
  BY <1>2, <1>3, <1>4, <1>5, <1>6, <1>7, <1>8, <1>9 DEF Watcher

(* The application thread keeps the invariant.                             *)
LEMMA AppStep ==
  ASSUME IInv, TypeOK', Initialize \/ FinalizeBegin \/ DestroyBegin \/ Finalizing
  PROVE  Locks' /\ Handling' /\ \A s \in Sockets : SocketInv(s)'
<1> USE DEF lockVars, socketVars, pipeVars, userVars, instVars, threadVars, Threads, Kill,
        WatcherHolds, AppHolds
<1>1. TypeOK /\ PcOK /\ Locks /\ Handling /\ \A s \in Sockets : SocketInv(s)
  BY DEF IInv, TypeOK, PcOK
<1>2. CASE Initialize
  <2>1. pc' = pc /\ cur' = cur
    BY <1>2 DEF Initialize
  <2>2. Locks'
    BY <1>1, <1>2, <2>1 DEF Initialize, Locks
  <2>3. Handling'
    BY <1>1, <1>2, <2>1, SocketIsPositive DEF Initialize, Handling, TypeOK
  <2>4. ASSUME NEW s \in Sockets PROVE SocketInv(s)'
    <3>1. Listed(s) => Listed(s)'
      <4>1. created + 1 \in Sockets /\ m_sockets \in Seq(Sockets)
        BY <1>1, <1>2, ServerAssumption DEF Initialize, TypeOK, Sockets
      <4>2. \A i \in DOMAIN m_sockets : i \in DOMAIN m_sockets' /\ m_sockets'[i] = m_sockets[i]
        BY <1>2, <4>1, AppendProperties DEF Initialize
      <4> QED
        BY <4>2 DEF Listed
    <3>2. /\ created' = created + 1 /\ created + 1 \in Sockets /\ (s = created + 1 => Listed(s)')
          /\ \A t \in Sockets : pipe'[t] = IF t = created + 1 THEN "listening" ELSE pipe[t]
      <4>1. created + 1 \in Sockets /\ m_sockets \in Seq(Sockets)
        BY <1>1, <1>2, ServerAssumption DEF Initialize, TypeOK, Sockets
      <4>2. /\ m_sockets' = Append(m_sockets, created + 1)
            /\ Len(m_sockets') \in DOMAIN m_sockets' /\ m_sockets'[Len(m_sockets')] = created + 1
        BY <1>2, <4>1, AppendProperties DEF Initialize
      <4>3. s = created + 1 => Listed(s)'
        BY <4>2 DEF Listed
      <4>4. \A t \in Sockets : pipe'[t] = IF t = created + 1 THEN "listening" ELSE pipe[t]
        <5>1. DOMAIN pipe = Sockets
          BY <1>1 DEF TypeOK
        <5> QED
          BY <1>2, <4>1, <5>1 DEF Initialize
      <4> QED
        BY <1>2, <4>1, <4>3, <4>4 DEF Initialize
    <3>3. HandledOK(s)'
      BY <1>1, <1>2, <2>1, <3>1, <3>2, SocketIsPositive
         DEF Initialize, Locks, Handling, TypeOK, SocketInv, HandledOK, PipeOK,
             HandlersOK, InstanceOK, Kept, At
    <3>4. PipeOK(s)'
      <4>1. created \in Nat /\ s \in Nat /\ PipeOK(s)
        BY <1>1 DEF TypeOK, Sockets, SocketInv
      <4>2. UNCHANGED <<m_clients, killed, pc>>
        BY <1>2 DEF Initialize
      <4> QED
        BY <2>1, <3>1, <3>2, <4>1, <4>2 DEF PipeOK
    <3>5. HandlersOK(s)'
      BY <1>1, <1>2, <2>1, <3>1, <3>2, SocketIsPositive
         DEF Initialize, Locks, Handling, TypeOK, SocketInv, HandledOK, PipeOK,
             HandlersOK, InstanceOK, Kept, At
    <3>6. InstanceOK(s)'
      BY <1>1, <1>2, <2>1, <3>1, <3>2, SocketIsPositive
         DEF Initialize, Locks, Handling, TypeOK, SocketInv, HandledOK, PipeOK,
             HandlersOK, InstanceOK, Kept, At
    <3> QED
      BY <3>3, <3>4, <3>5, <3>6 DEF SocketInv
  <2> QED
    BY <2>2, <2>3, <2>4
<1>3. CASE FinalizeBegin
  <2>1. pc'["app"] = "finalize" /\ pc'["watcher"] = pc["watcher"]
    BY <1>1, <1>3, GotoMoves DEF FinalizeBegin, PcOK
  <2>2. Locks'
    BY <1>1, <1>3, <2>1 DEF FinalizeBegin, Locks
  <2>3. Handling'
    BY <1>1, <1>3, <2>1, SocketIsPositive DEF FinalizeBegin, Handling, TypeOK
  <2>4. \A s \in Sockets : SocketInv(s)'
    BY <1>1, <1>3, <2>1, ThreadMoves DEF FinalizeBegin, Handling, socketState
  <2> QED
    BY <2>2, <2>3, <2>4
<1>4. CASE DestroyBegin
  <2>1. pc'["app"] \in {"finalize", "join watcher"} /\ pc'["watcher"] = pc["watcher"]
    BY <1>1, <1>4, GotoMoves DEF DestroyBegin, PcOK
  <2>2. Locks'
    BY <1>1, <1>4, <2>1 DEF DestroyBegin, Locks
  <2>3. Handling'
    BY <1>1, <1>4, <2>1, SocketIsPositive DEF DestroyBegin, Handling, TypeOK
  <2>4. \A s \in Sockets : SocketInv(s)'
    BY <1>1, <1>4, <2>1, ThreadMoves DEF DestroyBegin, Handling, socketState
  <2> QED
    BY <2>2, <2>3, <2>4
<1>5. CASE FinalizeLock
  <2>1. pc'["app"] = "lockclients" /\ pc'["watcher"] = pc["watcher"]
    BY <1>1, <1>5, GotoMoves DEF FinalizeLock, PcOK
  <2>2. Locks'
    BY <1>1, <1>5, <2>1 DEF FinalizeLock, Locks
  <2>3. Handling'
    BY <1>1, <1>5, <2>1, SocketIsPositive DEF FinalizeLock, Handling, TypeOK
  <2>4. \A s \in Sockets : SocketInv(s)'
    BY <1>1, <1>5, <2>1, ThreadMoves DEF FinalizeLock, Handling, socketState
  <2> QED
    BY <2>2, <2>3, <2>4
<1>6. CASE LockClients
  <2>1. pc'["app"] = "kill" /\ pc'["watcher"] = pc["watcher"]
    BY <1>1, <1>6, GotoMoves DEF LockClients, PcOK
  <2>2. Locks'
    BY <1>1, <1>6, <2>1 DEF LockClients, Locks
  <2>3. Handling'
    BY <1>1, <1>6, <2>1, SocketIsPositive DEF LockClients, Handling, TypeOK
  <2>4. \A s \in Sockets : SocketInv(s)'
    BY <1>1, <1>6, <2>1, ThreadMoves DEF LockClients, Handling, socketState
  <2> QED
    BY <2>2, <2>3, <2>4
<1>7. CASE KillNext
  <2>1. pc'["app"] = "erase" /\ pc'["watcher"] = pc["watcher"]
    BY <1>1, <1>7, GotoMoves DEF KillNext, PcOK
  <2>2. Locks'
    BY <1>1, <1>7, <2>1 DEF KillNext, Locks
  <2>3. Handling'
    BY <1>1, <1>7, <2>1, SocketIsPositive DEF KillNext, Handling, TypeOK
  <2>4. ASSUME NEW s \in Sockets PROVE SocketInv(s)'
    <3>1. Listed(s)' = Listed(s)
      BY <1>7 DEF KillNext, Listed
    <3>2. HandledOK(s)'
      BY <1>1, <1>7, <2>1, <3>1, SocketIsPositive
         DEF KillNext, Locks, Handling, TypeOK, SocketInv, HandledOK, PipeOK,
             HandlersOK, InstanceOK, Kept, At
    <3>3. PipeOK(s)'
      BY <1>1, <1>7, <2>1, <3>1, SocketIsPositive
         DEF KillNext, Locks, Handling, TypeOK, SocketInv, HandledOK, PipeOK,
             HandlersOK, InstanceOK, Kept, At
    <3>4. HandlersOK(s)'
      BY <1>1, <1>7, <2>1, <3>1, SocketIsPositive
         DEF KillNext, Locks, Handling, TypeOK, SocketInv, HandledOK, PipeOK,
             HandlersOK, InstanceOK, Kept, At
    <3>5. InstanceOK(s)'
      BY <1>1, <1>7, <2>1, <3>1, SocketIsPositive
         DEF KillNext, Locks, Handling, TypeOK, SocketInv, HandledOK, PipeOK,
             HandlersOK, InstanceOK, Kept, At
    <3> QED
      BY <3>2, <3>3, <3>4, <3>5 DEF SocketInv
  <2> QED
    BY <2>2, <2>3, <2>4
<1>8. CASE FinalizeEnd
  <2>1. pc'["app"] \in {"join watcher", "ready"} /\ pc'["watcher"] = pc["watcher"]
    BY <1>1, <1>8, GotoMoves DEF FinalizeEnd, PcOK
  <2>2. Locks'
    BY <1>1, <1>8, <2>1 DEF FinalizeEnd, Locks
  <2>3. Handling'
    BY <1>1, <1>8, <2>1, SocketIsPositive DEF FinalizeEnd, Handling, TypeOK
  <2>4. ASSUME NEW s \in Sockets PROVE SocketInv(s)'
    <3>1. /\ cur' = cur /\ cur["app"] = 0 /\ cur["watcher"] = 0
          /\ pipe'[s] \in {"none", "closed"} /\ (pipe'[s] = "none" <=> pipe[s] = "none")
          /\ m_clients = {} /\ s # 0 /\ SocketInv(s)
      BY <1>1, <1>8, SocketIsPositive
         DEF FinalizeEnd, KilledAll, Handling, Locks, TypeOK
    <3>2. HandledOK(s)'
      <4>1. \A p \in Threads : cur'[p] # s
        BY <3>1
      <4> QED
        BY <4>1 DEF HandledOK, At
    <3>3. PipeOK(s)'
      BY <1>1, <1>8, <2>1, <3>1
         DEF FinalizeEnd, Locks, Handling, TypeOK, SocketInv, HandledOK,
             PipeOK, HandlersOK, InstanceOK, Kept, At
    <3>4. HandlersOK(s)'
      BY <1>1, <1>8, <2>1, <3>1
         DEF FinalizeEnd, Locks, Handling, TypeOK, SocketInv, HandledOK,
             PipeOK, HandlersOK, InstanceOK, Kept, At
    <3>5. InstanceOK(s)'
      BY <1>1, <1>8, <2>1, <3>1
         DEF FinalizeEnd, Locks, Handling, TypeOK, SocketInv, HandledOK,
             PipeOK, HandlersOK, InstanceOK, Kept, At
    <3> QED
      BY <3>2, <3>3, <3>4, <3>5 DEF SocketInv
  <2> QED
    BY <2>2, <2>3, <2>4
<1>9. CASE JoinWatcher
  <2>1. pc'["app"] = "gone" /\ pc'["watcher"] = pc["watcher"]
    BY <1>1, <1>9, GotoMoves DEF JoinWatcher, PcOK
  <2>2. Locks'
    BY <1>1, <1>9, <2>1 DEF JoinWatcher, Locks
  <2>3. Handling'
    BY <1>1, <1>9, <2>1, SocketIsPositive DEF JoinWatcher, Handling, TypeOK
  <2>4. \A s \in Sockets : SocketInv(s)'
    BY <1>1, <1>9, <2>1, ThreadMoves DEF JoinWatcher, Handling, socketState
  <2> QED
    BY <2>2, <2>3, <2>4
<1>10. CASE KillClient("app")
  BY <1>10, KillStep
<1> QED
  BY <1>2, <1>3, <1>4, <1>5, <1>6, <1>7, <1>8, <1>9, <1>10 DEF Finalizing

(* Instances and clients keep the invariant.                                *)
LEMMA EnvironmentStep ==
  ASSUME IInv, Environment
  PROVE  Locks' /\ Handling' /\ \A s \in Sockets : SocketInv(s)'
<1> USE DEF lockVars, socketVars, userVars, threadVars, serverFrame, instFrame, Instance,
            InstanceLoop, WaitTimedOut, BeginFunction, EndFunction, WriteReply
<1>1. TypeOK /\ Locks /\ Handling /\ \A s \in Sockets : SocketInv(s)
  BY DEF IInv
<1>2. UNCHANGED serverFrame
  BY DEF Environment, Start, Open, SendRequest, LeavePipe
<1>3. Locks' /\ Handling'
  BY <1>1, <1>2 DEF Locks, Handling
<1>4. ASSUME NEW s \in Sockets
      PROVE  /\ SocketInv(s) /\ Listed(s)' = Listed(s) /\ Kept(s)' = Kept(s)
             /\ \A p \in Threads : \A places : At(p, s, places)' = At(p, s, places)
  BY <1>1, <1>2 DEF Listed, Kept, At
<1>5. ASSUME NEW t \in Sockets, Instance(t), NEW s \in Sockets
      PROVE  SocketInv(s)'
  <2>1. UNCHANGED <<pipe, killed>> /\ (inst'[s] # "none" => inst[s] # "none")
    BY <1>1, <1>5 DEF TypeOK
  <2> QED
    BY <1>2, <1>4, <2>1
       DEF SocketInv, HandledOK, PipeOK, HandlersOK, InstanceOK, Threads
<1>6. ASSUME NEW s \in Sockets, UNCHANGED <<inst, killed>>,
             \/ pipe'[s] = pipe[s]
             \/ pipe[s] = "listening" /\ pipe'[s] = "connected"
             \/ pipe[s] = "connected" /\ pipe'[s] = "left"
      PROVE  SocketInv(s)'
  <2>1. HandledOK(s)'
    BY <1>2, <1>4, <1>6 DEF SocketInv, HandledOK, Threads
  <2>2. PipeOK(s)'
    BY <1>2, <1>4, <1>6 DEF SocketInv, PipeOK
  <2> QED
    BY <1>2, <1>4, <1>6, <2>1, <2>2 DEF SocketInv, HandlersOK, InstanceOK, Threads
<1>7. ASSUME NEW c \in Clients, Start(c), NEW s \in Sockets
      PROVE  SocketInv(s)'
  BY <1>6, <1>7 DEF Start, instVars
<1>8. ASSUME NEW c \in Clients, NEW t \in Sockets, NEW s \in Sockets,
             Open(c, t) \/ SendRequest(c, t) \/ LeavePipe(c, t)
      PROVE  SocketInv(s)'
  BY <1>1, <1>6, <1>8 DEF Open, SendRequest, LeavePipe, instVars, TypeOK
<1> QED
  BY <1>3, <1>5, <1>7, <1>8 DEF Environment

(* The initial state satisfies the invariant.                               *)
LEMMA InvInit == Init => IInv
<1> SUFFICES ASSUME Init PROVE IInv
  OBVIOUS
<1>1. TypeOK
  BY TypeInit
<1>2. Locks /\ Handling
  BY DEF Init, Locks, Handling, WatcherHolds, AppHolds, Kill
<1>3. ASSUME NEW s \in Sockets PROVE SocketInv(s)
  BY SocketIsPositive
     DEF Init, SocketInv, HandledOK, PipeOK, HandlersOK, InstanceOK, Kept, At,
         Threads
<1> QED
  BY <1>1, <1>2, <1>3 DEF IInv

(* Every step keeps the invariant.                                          *)
LEMMA InvStep == IInv /\ [Next]_vars => IInv'
<1> SUFFICES ASSUME IInv, [Next]_vars PROVE IInv'
  OBVIOUS
<1>1. TypeOK /\ Handling
  BY DEF IInv
<1>2. CASE Watcher
  BY <1>1, <1>2, TypeWatcher, WatcherStep DEF IInv
<1>3. CASE Initialize \/ FinalizeBegin \/ DestroyBegin \/ Finalizing
  BY <1>1, <1>3, TypeApp, AppStep DEF IInv
<1>4. CASE Environment
  BY <1>1, <1>4, TypeEnvironment, EnvironmentStep DEF IInv
<1>5. CASE UNCHANGED vars
  <2>1. TypeOK'
    BY <1>1, <1>5
       DEF TypeOK, vars, lockVars, socketVars, threadVars, instVars, pipeVars,
           userVars
  <2>2. Locks' /\ Handling'
    BY <1>5 DEF IInv, Locks, Handling, vars, lockVars, threadVars
  <2>3. UNCHANGED socketState /\ pc' = pc
    BY <1>5
       DEF socketState, vars, lockVars, socketVars, threadVars, instVars,
           pipeVars, userVars
  <2> QED
    BY <2>1, <2>2, <2>3, ThreadMoves DEF IInv
<1> QED
  BY <1>2, <1>3, <1>4, <1>5 DEF Next, Environment

(* The invariant holds in every reachable state.                            *)
THEOREM ServerInvariant == Spec => []IInv
  BY InvInit, InvStep, PTL DEF Spec

-----------------------------------------------------------------------------
(* What the server promises.                                                *)

(* Every variable keeps its type.                                           *)
THEOREM TypeCorrect == Spec => []TypeOK
<1>1. IInv => TypeOK
  BY DEF IInv
<1> QED
  BY <1>1, ServerInvariant, PTL

(* The connect and disconnect handlers alternate on every socket, and the   *)
(* server keeps the client in between (spawn_client and kill_client).       *)
THEOREM ConnectsMatchDisconnects == Spec => []HandlersBalanced
<1>1. IInv => HandlersBalanced
  <2> SUFFICES ASSUME IInv, NEW s \in Sockets
               PROVE  connects[s] - disconnects[s] = IF Kept(s) THEN 1 ELSE 0
    BY DEF HandlersBalanced, Kept, At
  <2>1. HandlersOK(s)
    BY DEF IInv, SocketInv
  <2> QED
    BY <2>1 DEF HandlersOK
<1> QED
  BY <1>1, ServerInvariant, PTL

(* kill_client joins the instance before it calls the disconnect handler:   *)
(* no function of that client runs afterwards.                              *)
THEOREM NothingRunsAfterDisconnect == Spec => []QuietAfterDisconnect
<1>1. IInv => QuietAfterDisconnect
  <2> SUFFICES ASSUME IInv, NEW s \in Sockets, connects[s] > 0, connects[s] = disconnects[s]
               PROVE  inst[s] = "none"
    BY DEF QuietAfterDisconnect
  <2>1. SocketInv(s)
    BY DEF IInv
  <2>2. ~Kept(s) /\ killed[s]
    BY <2>1 DEF SocketInv, HandlersOK
  <2> QED
    BY <2>1, <2>2 DEF SocketInv, HandledOK, InstanceOK, Kept, At
<1> QED
  BY <1>1, ServerInvariant, PTL

(* After finalize() no client, no instance and no unmatched connect is left, *)
(* wherever the watcher was when it was called.                              *)
THEOREM FinalizeLeavesNothing == Spec => []FinalizedIsQuiet
<1>1. IInv => FinalizedIsQuiet
  <2> SUFFICES ASSUME IInv, m_sockets = <<>>, m_sockets_mtx = "free"
               PROVE  /\ m_clients = {}
                      /\ \A s \in Sockets : inst[s] = "none" /\ connects[s] = disconnects[s]
    BY DEF FinalizedIsQuiet
  <2>1. TypeOK /\ Locks /\ Handling
    BY DEF IInv
  <2>2. ASSUME NEW s \in Sockets PROVE s # 0 /\ SocketInv(s) /\ ~Listed(s)
    BY SocketIsPositive DEF IInv, Listed
  <2>3. cur["watcher"] = 0 /\ cur["app"] = 0
    BY <2>1 DEF Locks, Handling, WatcherHolds, AppHolds, Kill
  <2>4. m_clients = {}
    BY <2>1, <2>2 DEF SocketInv, PipeOK, TypeOK
  <2>5. ASSUME NEW s \in Sockets PROVE ~Kept(s) /\ inst[s] = "none"
    BY <2>2, <2>3, <2>4 DEF SocketInv, InstanceOK, Kept, At
  <2>6. ASSUME NEW s \in Sockets PROVE connects[s] = disconnects[s]
    BY <2>2, <2>5 DEF SocketInv, HandlersOK
  <2> QED
    BY <2>4, <2>5, <2>6
<1> QED
  BY <1>1, ServerInvariant, PTL

(* A socket admits one client in its life: the watcher never spawns a second *)
(* instance on it, since nothing disconnects a pipe that its client left.    *)
OneClientPerSocket == \A s \in Sockets : connects[s] <= 1

(* The second client of a server with one socket is never admitted: each     *)
(* socket calls the connect handler at most once.                            *)
THEOREM SocketServesOnce == Spec => []OneClientPerSocket
<1>1. IInv => OneClientPerSocket
  <2> SUFFICES ASSUME IInv, NEW s \in Sockets PROVE connects[s] <= 1
    BY DEF OneClientPerSocket
  <2>1. HandlersOK(s)
    BY DEF IInv, SocketInv
  <2> QED
    BY <2>1 DEF HandlersOK
<1> QED
  BY <1>1, ServerInvariant, PTL

(* The two threads never work on the sockets, or on the clients, at once.    *)
MutexesExclude ==
  /\ ~(pc["watcher"] \in WatcherHolds /\ pc["app"] \in AppHolds)
  /\ ~(pc["watcher"] \in {"connect", "insert"} /\ pc["app"] \in {"kill"} \union Kill)

(* The scan and finalize() exclude each other, and so do the steps of        *)
(* spawn_client and of finalize()'s loop that change m_clients.              *)
THEOREM ThreadsExclude == Spec => []MutexesExclude
<1>1. IInv => MutexesExclude
  BY DEF IInv, Locks, MutexesExclude
<1> QED
  BY <1>1, ServerInvariant, PTL

=============================================================================
