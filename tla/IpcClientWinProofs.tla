-------------------------- MODULE IpcClientWinProofs --------------------------
(***************************************************************************)
(* Proofs about IpcClientWin, for any set of threads, any kinds of call    *)
(* and any bound on the number of calls.                                   *)
(***************************************************************************)
EXTENDS IpcClientWin, SequenceTheorems, TLAPS

(* A group of variables a step leaves alone keeps its types.               *)
LEMMA UnchangedTypes ==
  ASSUME TypeOK
  PROVE  /\ UNCHANGED threadVars => ThreadTypes'
         /\ UNCHANGED tableVars => TableTypes'
         /\ UNCHANGED stopVars => StopTypes'
         /\ UNCHANGED workerVars => WorkerTypes'
         /\ UNCHANGED pipeVars => PipeTypes'
         /\ UNCHANGED userVars => UserTypes'
<1>1. UNCHANGED threadVars => ThreadTypes'
  BY DEF TypeOK, ThreadTypes, threadVars
<1>2. UNCHANGED tableVars => TableTypes'
  BY DEF TypeOK, TableTypes, tableVars
<1>3. UNCHANGED stopVars => StopTypes'
  BY DEF TypeOK, StopTypes, stopVars
<1>4. UNCHANGED workerVars => WorkerTypes'
  BY DEF TypeOK, WorkerTypes, workerVars
<1>5. UNCHANGED pipeVars => PipeTypes'
  BY DEF TypeOK, PipeTypes, pipeVars
<1>6. UNCHANGED userVars => UserTypes'
  BY DEF TypeOK, UserTypes, userVars
<1> QED
  BY <1>1, <1>2, <1>3, <1>4, <1>5, <1>6

(* A thread inside call() makes a call with a uid.                         *)
LEMMA BusyUid ==
  ASSUME TypeOK, OneCallPerThread, NEW t \in Threads, Busy(t)
  PROVE  uid[t] \in Uids /\ uid[t] <= timestamp
<1>1. uid[t] \in 1..timestamp /\ timestamp \in 0..MaxCalls
  BY DEF OneCallPerThread, TypeOK, ThreadTypes
<1> QED
  BY <1>1, ClientAssumption DEF Uids

(* The type invariant is inductive with the help of SafetyInv: the uid of  *)
(* a busy thread is a call, and a body that is read is in the pipe.        *)
LEMMA TypeStep ==
  ASSUME TypeOK, SafetyInv, [Next]_vars
  PROVE  TypeOK'
<1> USE ClientAssumption DEF TypeOK
<1>1. ASSUME NEW t \in Threads, Call(t) PROVE TypeOK'
  <2>1. ThreadTypes'
    BY <1>1 DEF Call, ThreadTypes, AllKinds, ThreadPcs, Uids
  <2> QED
    BY <1>1, <2>1, UnchangedTypes DEF Call
<1>2. ASSUME NEW t \in Threads, Register(t) PROVE TypeOK'
  <2>1. uid[t] \in Uids
    BY <1>2, BusyUid DEF Register, Busy, SafetyInv
  <2>2. ThreadTypes'
    BY <1>2 DEF Register, ThreadTypes, ThreadPcs
  <2>3. TableTypes'
    <3>1. m_cb' = m_cb \union {uid[t]} /\ m_lock' = m_lock /\ g_cbid' \in {uid[t], g_cbid}
      BY <1>2 DEF Register
    <3>2. m_cb' \subseteq Uids
      BY <2>1, <3>1 DEF TableTypes
    <3>3. g_cbid' \in 0..MaxCalls
      BY <2>1, <3>1 DEF TableTypes, Uids
    <3> QED
      BY <3>1, <3>2, <3>3 DEF TableTypes
  <2> QED
    BY <1>2, <2>2, <2>3, UnchangedTypes DEF Register
<1>3. ASSUME NEW t \in Threads, WriteOk(t) PROVE TypeOK'
  <2>1. uid[t] \in Uids
    BY <1>3, BusyUid DEF WriteOk, Busy, SafetyInv
  <2>2. ThreadTypes'
    BY <1>3 DEF WriteOk, ThreadTypes, ThreadPcs
  <2>3. PipeTypes'
    BY <1>3, <2>1 DEF WriteOk, PipeTypes
  <2> QED
    BY <1>3, <2>2, <2>3, UnchangedTypes DEF WriteOk
<1>4. ASSUME NEW t \in Threads, WriteFails(t) PROVE TypeOK'
  <2>1. ThreadTypes'
    BY <1>4 DEF WriteFails, ThreadTypes, AllKinds, ThreadPcs, Uids
  <2> QED
    BY <1>4, <2>1, UnchangedTypes DEF WriteFails
<1>5. ASSUME NEW t \in Threads, WriteNull(t) PROVE TypeOK'
  <2> QED
    BY <1>5, UnchangedTypes DEF WriteNull
<1>6. ASSUME NEW t \in Threads, Written(t) PROVE TypeOK'
  <2>1. ThreadTypes'
    BY <1>6 DEF Written, ThreadTypes, AllKinds, ThreadPcs, Uids
  <2> QED
    BY <1>6, <2>1, UnchangedTypes DEF Written
<1>7. ASSUME NEW t \in Threads, Cancel(t) PROVE TypeOK'
  <2>1. ThreadTypes'
    BY <1>7 DEF Cancel, ThreadTypes, AllKinds, ThreadPcs, Uids
  <2>2. TableTypes'
    BY <1>7 DEF Cancel, TableTypes, Uids
  <2> QED
    BY <1>7, <2>1, <2>2, UnchangedTypes DEF Cancel
<1>8. ASSUME NEW t \in Threads, WakeUp(t) PROVE TypeOK'
  <2>1. ThreadTypes'
    BY <1>8 DEF WakeUp, ThreadTypes, AllKinds, ThreadPcs, Uids
  <2> QED
    BY <1>8, <2>1, UnchangedTypes DEF WakeUp
<1>9. CASE StopBegin
  <2>1. StopTypes'
    BY <1>9 DEF StopBegin, StopTypes
  <2> QED
    BY <1>9, <2>1, UnchangedTypes DEF StopBegin
<1>10. CASE StopEnd
  <2>1. StopTypes'
    BY <1>10 DEF StopEnd, StopTypes
  <2> QED
    BY <1>10, <2>1, UnchangedTypes DEF StopEnd
<1>11. CASE Top
  <2>1. WorkerTypes'
    BY <1>11 DEF Top, WorkerTypes, WorkerPcs, workerFrame, Uids
  <2> QED
    BY <1>11, <2>1, UnchangedTypes DEF Top, workerFrame
<1>12. CASE Issue
  <2>1. WorkerTypes'
    BY <1>12 DEF Issue, WorkerTypes, WorkerPcs, workerFrame, Uids
  <2> QED
    BY <1>12, <2>1, UnchangedTypes DEF Issue, workerFrame
<1>13. CASE ReadError
  <2> QED
    BY <1>13, UnchangedTypes DEF ReadError
<1>14. CASE Timeout
  <2>1. WorkerTypes'
    BY <1>14 DEF Timeout, WorkerTypes, WorkerPcs, workerFrame, Uids
  <2> QED
    BY <1>14, <2>1, UnchangedTypes DEF Timeout, workerFrame
<1>15. CASE Header
  <2>1. WorkerTypes'
    BY <1>15 DEF Header, WorkerTypes, WorkerPcs, workerFrame, Uids
  <2> QED
    BY <1>15, <2>1, UnchangedTypes DEF Header, workerFrame
<1>16. CASE HeaderError
  <2>1. WorkerTypes'
    BY <1>16 DEF HeaderError, WorkerTypes, WorkerPcs, workerFrame, Uids
  <2> QED
    BY <1>16, <2>1, UnchangedTypes DEF HeaderError, workerFrame
<1>17. CASE Body
  <2>1. is_connected => Head(toClient) \in Uids /\ Tail(toClient) \in Seq(Uids)
    BY <1>17 DEF Body, is_connected, SafetyInv, BodyThere, PipeTypes
  <2>2. WorkerTypes'
    BY <1>17, <2>1 DEF Body, WorkerTypes, WorkerPcs, Uids
  <2>3. PipeTypes'
    BY <1>17, <2>1 DEF Body, PipeTypes
  <2> QED
    BY <1>17, <2>2, <2>3, UnchangedTypes DEF Body, workerFrame
<1>18. CASE Message
  <2>1. WorkerTypes'
    BY <1>18 DEF Message, WorkerTypes, WorkerPcs
  <2>2. TableTypes'
    BY <1>18 DEF Message, TableTypes
  <2>3. UserTypes'
    <3>1. CASE rbuf \in m_cb
      <4>1. rbuf \in Uids
        BY <3>1 DEF TableTypes
      <4>2. /\ invoked' = [invoked EXCEPT ![rbuf] = @ + 1]
            /\ outcome' = [outcome EXCEPT ![rbuf] = "reply"]
        BY <1>18, <3>1 DEF Message
      <4> QED
        BY <4>1, <4>2 DEF UserTypes
    <3>2. CASE rbuf \notin m_cb
      BY <1>18, <3>2, UnchangedTypes DEF Message
    <3> QED
      BY <3>1, <3>2
  <2> QED
    BY <1>18, <2>1, <2>2, <2>3, UnchangedTypes DEF Message, workerFrame
<1>19. CASE Erase
  <2>1. WorkerTypes'
    BY <1>19 DEF Erase, WorkerTypes, WorkerPcs, workerFrame, Uids
  <2>2. TableTypes'
    BY <1>19 DEF Erase, TableTypes, workerFrame, Uids
  <2> QED
    BY <1>19, <2>1, <2>2, UnchangedTypes DEF Erase, workerFrame
<1>20. CASE DrainLock
  <2>1. WorkerTypes'
    BY <1>20 DEF DrainLock, WorkerTypes, WorkerPcs, workerFrame, Uids, TableTypes
  <2>2. TableTypes'
    BY <1>20 DEF DrainLock, TableTypes, workerFrame, Uids
  <2> QED
    BY <1>20, <2>1, <2>2, UnchangedTypes DEF DrainLock, workerFrame
<1>21. CASE DrainOne
  <2>1. WorkerTypes'
    BY <1>21 DEF DrainOne, WorkerTypes, WorkerPcs, workerFrame, Uids
  <2>2. UserTypes'
    BY <1>21 DEF DrainOne, UserTypes, workerFrame, Uids, WorkerTypes
  <2> QED
    BY <1>21, <2>1, <2>2, UnchangedTypes DEF DrainOne, workerFrame
<1>22. CASE DrainEnd
  <2>1. WorkerTypes'
    BY <1>22 DEF DrainEnd, WorkerTypes, WorkerPcs, workerFrame, Uids
  <2>2. TableTypes'
    BY <1>22 DEF DrainEnd, TableTypes, workerFrame, Uids
  <2> QED
    BY <1>22, <2>1, <2>2, UnchangedTypes DEF DrainEnd, workerFrame
<1>23. CASE Final
  <2>1. WorkerTypes'
    BY <1>23 DEF Final, WorkerTypes, WorkerPcs, workerFrame, Uids
  <2> QED
    BY <1>23, <2>1, UnchangedTypes DEF Final, workerFrame
<1>24. CASE ServerTake
  <2>1. PipeTypes'
    BY <1>24 DEF ServerTake, PipeTypes, clientFrame, Uids
  <2> QED
    BY <1>24, <2>1, UnchangedTypes DEF ServerTake, clientFrame
<1>25. CASE ServerReply
  <2>1. PipeTypes'
    BY <1>25 DEF ServerReply, PipeTypes, clientFrame, Uids
  <2> QED
    BY <1>25, <2>1, UnchangedTypes DEF ServerReply, clientFrame
<1>26. CASE ServerExits
  <2>1. PipeTypes'
    BY <1>26 DEF ServerExits, PipeTypes, clientFrame, Uids
  <2> QED
    BY <1>26, <2>1, UnchangedTypes DEF ServerExits, clientFrame
<1>27. CASE ServerDisconnects
  <2>1. PipeTypes'
    BY <1>27 DEF ServerDisconnects, PipeTypes, clientFrame, Uids
  <2> QED
    BY <1>27, <2>1, UnchangedTypes DEF ServerDisconnects, clientFrame
<1>28. CASE UNCHANGED vars
  BY <1>28, UnchangedTypes DEF vars
<1> QED
  BY <1>1, <1>2, <1>3, <1>4, <1>5, <1>6, <1>7, <1>8, <1>9, <1>10, <1>11, <1>12, <1>13,
     <1>14, <1>15, <1>16, <1>17, <1>18, <1>19, <1>20, <1>21, <1>22, <1>23, <1>24, <1>25,
     <1>26, <1>27, <1>28
     DEF Next, ThreadStep, Worker, Server

(* A step that calls nobody, and neither moves the worker into or out of a *)
(* critical section nor touches what the application threads own, keeps    *)
(* all of SafetyInv but BodyThere.                                         *)
LEMMA QuietStep ==
  ASSUME SafetyInv, BodyThere',
         UNCHANGED <<timestamp, pc, uid, kind, ret, m_cb, m_lock, invoked>>,
         UNCHANGED <<wpc, rbuf, wtodo>> \/ {wpc, wpc'} \cap {"erase", "drain"} = {}
  PROVE  SafetyInv'
<1> USE DEF SafetyInv
<1>1. TodoInTable' /\ LockHeld'
  BY DEF TodoInTable, LockHeld
<1>2. FreshUids' /\ OneCallPerThread' /\ CalledAtMostOnce'
  BY DEF FreshUids, OneCallPerThread, CalledAtMostOnce, Busy
<1>3. PendingEntries'
  BY DEF PendingEntries, Pending, FrameAlive, OwnCbid
<1> QED
  BY <1>1, <1>2, <1>3

(* SafetyInv is preserved by every step, action by action.                 *)
LEMMA SafetyStep ==
  ASSUME TypeOK, SafetyInv, [Next]_vars
  PROVE  SafetyInv'
<1> USE ClientAssumption DEF TypeOK, SafetyInv
<1>1. ASSUME NEW t \in Threads, Call(t) PROVE SafetyInv'
  <2> DEFINE n == timestamp + 1
  <2>0. /\ n \in Uids /\ timestamp' = n /\ timestamp \in Nat
        /\ invoked[n] = 0 /\ n \notin m_cb /\ ret[n] = "none"
        /\ pc[t] = "idle" /\ pc'[t] \in {"register", "write"} /\ uid'[t] = n
        /\ \A s \in Threads \ {t} : pc'[s] = pc[s] /\ uid'[s] = uid[s]
        /\ \A u \in Uids \ {n} : kind'[u] = kind[u]
        /\ UNCHANGED <<m_cb, ret, invoked, wpc, wtodo, rbuf>>
    BY <1>1 DEF Call, ThreadTypes, FreshUids, Uids, tableVars, workerVars, userVars
  <2> HIDE DEF n
  <2>11. TodoInTable'
    BY <1>1 DEF Call, TodoInTable, tableVars, stopVars, workerVars, pipeVars, userVars
  <2>12. BodyThere'
    BY <1>1 DEF Call, BodyThere, PipeTypes, tableVars, stopVars, workerVars, pipeVars,
       userVars
  <2>13. LockHeld'
    BY <1>1 DEF Call, LockHeld, tableVars, stopVars, workerVars, pipeVars, userVars
  <2>14. FreshUids'
    BY <2>0 DEF FreshUids, Uids, n
  <2>15. OneCallPerThread'
    <3> SUFFICES ASSUME NEW s \in Threads, Busy(s)'
                 PROVE  /\ uid'[s] \in 1..timestamp'
                        /\ ret'[uid'[s]] = "none"
                        /\ \A r \in Threads : Busy(r)' /\ uid'[r] = uid'[s] => r = s
                        /\ pc'[s] = "register" => invoked'[uid'[s]] = 0 /\ uid'[s] \notin m_cb'
                        /\ pc'[s] = "waiting" => kind'[uid'[s]] = "sync"
      BY DEF OneCallPerThread
    <3>1. \A r \in Threads \ {t} : Busy(r)' => Busy(r) /\ uid[r] \in Uids \ {n} /\ uid[r] \in 1..timestamp
      BY <2>0, BusyUid DEF Busy, OneCallPerThread, n
    <3>2. CASE s = t
      BY <2>0, <3>1, <3>2 DEF Uids, n
    <3>3. CASE s # t
      BY <2>0, <3>1, <3>3 DEF OneCallPerThread, Busy, n
    <3> QED
      BY <3>2, <3>3
  <2>16. PendingEntries'
    <3> SUFFICES ASSUME NEW u \in Uids, Pending(u)'
                 PROVE  /\ invoked'[u] = 0
                        /\ OwnCbid(u)' => ret'[u] # "false"
                        /\ kind'[u] = "sync" => FrameAlive(u)'
      BY DEF PendingEntries
    <3>1. Pending(u) /\ u # n /\ kind'[u] = kind[u]
      BY <2>0 DEF Pending
    <3>2. FrameAlive(u) => FrameAlive(u)'
      BY <2>0 DEF FrameAlive
    <3> QED
      BY <2>0, <3>1, <3>2 DEF PendingEntries, OwnCbid
  <2>17. CalledAtMostOnce'
    BY <1>1 DEF Call, CalledAtMostOnce, UserTypes, tableVars, stopVars, workerVars,
       pipeVars, userVars
  <2> QED
    BY <2>11, <2>12, <2>13, <2>14, <2>15, <2>16, <2>17
<1>2. ASSUME NEW t \in Threads, Register(t) PROVE SafetyInv'
  <2>0. /\ pc[t] = "register" /\ uid[t] \in Uids /\ uid[t] <= timestamp
        /\ ret[uid[t]] = "none" /\ invoked[uid[t]] = 0 /\ uid[t] \notin m_cb
        /\ m_cb' = m_cb \union {uid[t]} /\ m_lock = "free"
        /\ pc' = [pc EXCEPT ![t] = "write"]
        /\ UNCHANGED <<timestamp, uid, kind, ret, invoked, wpc, wtodo, rbuf, m_lock>>
    BY <1>2, BusyUid DEF Register, Busy, OneCallPerThread, workerVars, userVars
  <2>11. TodoInTable'
    BY <1>2 DEF Register, TodoInTable, stopVars, workerVars, pipeVars, userVars
  <2>12. BodyThere'
    BY <1>2 DEF Register, BodyThere, PipeTypes, stopVars, workerVars, pipeVars, userVars
  <2>13. LockHeld'
    BY <1>2 DEF Register, LockHeld, stopVars, workerVars, pipeVars, userVars
  <2>14. FreshUids'
    BY <2>0 DEF FreshUids, ThreadTypes, Uids
  <2>15. OneCallPerThread'
    BY <1>2 DEF Register, OneCallPerThread, Busy, ThreadTypes, stopVars, workerVars,
       pipeVars, userVars
  <2>16. PendingEntries'
    <3> SUFFICES ASSUME NEW u \in Uids, Pending(u)'
                 PROVE  /\ invoked'[u] = 0
                        /\ OwnCbid(u)' => ret'[u] # "false"
                        /\ kind'[u] = "sync" => FrameAlive(u)'
      BY DEF PendingEntries
    <3>1. CASE u = uid[t]
      BY <2>0, <3>1 DEF FrameAlive, ThreadTypes
    <3>2. CASE u # uid[t]
      <4>1. Pending(u)
        BY <2>0, <3>2 DEF Pending
      <4>2. FrameAlive(u) => FrameAlive(u)'
        BY <2>0 DEF FrameAlive, ThreadTypes
      <4> QED
        BY <2>0, <4>1, <4>2 DEF PendingEntries, OwnCbid
    <3> QED
      BY <3>1, <3>2
  <2>17. CalledAtMostOnce'
    BY <1>2 DEF Register, CalledAtMostOnce, UserTypes, stopVars, workerVars, pipeVars,
       userVars
  <2> QED
    BY <2>11, <2>12, <2>13, <2>14, <2>15, <2>16, <2>17
<1>3. ASSUME NEW t \in Threads, WriteOk(t) PROVE SafetyInv'
  <2>1. TodoInTable'
    BY <1>3 DEF WriteOk, TodoInTable, tableVars, stopVars, workerVars, userVars
  <2>2. BodyThere'
    BY <1>3 DEF WriteOk, BodyThere, PipeTypes, tableVars, stopVars, workerVars, userVars
  <2>3. LockHeld'
    BY <1>3 DEF WriteOk, LockHeld, tableVars, stopVars, workerVars, userVars
  <2>4. FreshUids'
    BY <1>3 DEF WriteOk, FreshUids, ThreadTypes, tableVars, stopVars, workerVars,
       userVars
  <2>5. OneCallPerThread'
    BY <1>3 DEF WriteOk, OneCallPerThread, Busy, ThreadTypes, tableVars, stopVars,
       workerVars, userVars
  <2>6. PendingEntries'
    BY <1>3 DEF WriteOk, PendingEntries, Pending, FrameAlive, OwnCbid, ThreadTypes,
       tableVars, stopVars, workerVars, userVars
  <2>7. CalledAtMostOnce'
    BY <1>3 DEF WriteOk, CalledAtMostOnce, UserTypes, tableVars, stopVars, workerVars,
       userVars
  <2> QED
    BY <2>1, <2>2, <2>3, <2>4, <2>5, <2>6, <2>7
<1>4. ASSUME NEW t \in Threads, WriteFails(t) PROVE SafetyInv'
  <2>1. TodoInTable'
    BY <1>4 DEF WriteFails, TodoInTable, tableVars, stopVars, workerVars, pipeVars,
       userVars
  <2>2. BodyThere'
    BY <1>4 DEF WriteFails, BodyThere, PipeTypes, tableVars, stopVars, workerVars,
       pipeVars, userVars
  <2>3. LockHeld'
    BY <1>4 DEF WriteFails, LockHeld, tableVars, stopVars, workerVars, pipeVars,
       userVars
  <2>4. FreshUids'
    BY <1>4 DEF WriteFails, FreshUids, ThreadTypes, tableVars, stopVars, workerVars,
       pipeVars, userVars
  <2>5. OneCallPerThread'
    BY <1>4 DEF WriteFails, OneCallPerThread, Busy, ThreadTypes, tableVars, stopVars,
       workerVars, pipeVars, userVars
  <2>6. PendingEntries'
    BY <1>4 DEF WriteFails, PendingEntries, Pending, FrameAlive, OwnCbid, ThreadTypes,
       tableVars, stopVars, workerVars, pipeVars, userVars
  <2>7. CalledAtMostOnce'
    BY <1>4 DEF WriteFails, CalledAtMostOnce, UserTypes, tableVars, stopVars,
       workerVars, pipeVars, userVars
  <2> QED
    BY <2>1, <2>2, <2>3, <2>4, <2>5, <2>6, <2>7
<1>5. ASSUME NEW t \in Threads, WriteNull(t) PROVE SafetyInv'
  <2>1. BodyThere'
    BY <1>5 DEF WriteNull, BodyThere, PipeTypes, threadVars, tableVars, stopVars,
       workerVars, pipeVars, userVars
  <2> QED
    BY <1>5, <2>1, QuietStep DEF WriteNull, threadVars, tableVars, stopVars, workerVars,
       pipeVars, userVars
<1>6. ASSUME NEW t \in Threads, Written(t) PROVE SafetyInv'
  <2>1. TodoInTable'
    BY <1>6 DEF Written, TodoInTable, tableVars, stopVars, workerVars, pipeVars,
       userVars
  <2>2. BodyThere'
    BY <1>6 DEF Written, BodyThere, PipeTypes, tableVars, stopVars, workerVars,
       pipeVars, userVars
  <2>3. LockHeld'
    BY <1>6 DEF Written, LockHeld, tableVars, stopVars, workerVars, pipeVars, userVars
  <2>4. FreshUids'
    <3>1. uid[t] \in Uids /\ uid[t] <= timestamp
      BY <1>6, BusyUid DEF Written, Busy
    <3>2. /\ \A u \in Uids : u > timestamp => ret'[u] = ret[u]
          /\ UNCHANGED <<timestamp, invoked, m_cb>>
      BY <1>6, <3>1 DEF Written, ThreadTypes, Uids, tableVars, userVars
    <3> QED
      BY <3>2 DEF FreshUids
  <2>5. OneCallPerThread'
    BY <1>6 DEF Written, OneCallPerThread, Busy, ThreadTypes, tableVars, stopVars,
       workerVars, pipeVars, userVars
  <2>6. PendingEntries'
    BY <1>6 DEF Written, PendingEntries, Pending, FrameAlive, OwnCbid, ThreadTypes,
       tableVars, stopVars, workerVars, pipeVars, userVars
  <2>7. CalledAtMostOnce'
    BY <1>6 DEF Written, CalledAtMostOnce, UserTypes, tableVars, stopVars, workerVars,
       pipeVars, userVars
  <2> QED
    BY <2>1, <2>2, <2>3, <2>4, <2>5, <2>6, <2>7
<1>7. ASSUME NEW t \in Threads, Cancel(t) PROVE SafetyInv'
  <2>0. /\ pc[t] = "cancel" /\ uid[t] \in Uids /\ uid[t] <= timestamp
        /\ m_cb' = m_cb \ {CancelId(uid[t])} /\ m_lock = "free"
        /\ ret' = [ret EXCEPT ![uid[t]] = "false"]
        /\ pc' = [pc EXCEPT ![t] = "idle"]
        /\ UNCHANGED <<timestamp, uid, kind, invoked, wpc, wtodo, rbuf, m_lock>>
    BY <1>7, BusyUid DEF Cancel, Busy, workerVars, userVars
  <2>11. TodoInTable'
    BY <2>0 DEF TodoInTable, LockHeld
  <2>12. BodyThere'
    BY <1>7 DEF Cancel, BodyThere, PipeTypes, stopVars, workerVars, pipeVars, userVars
  <2>13. LockHeld'
    BY <1>7 DEF Cancel, LockHeld, stopVars, workerVars, pipeVars, userVars
  <2>14. FreshUids'
    <3>1. \A u \in Uids : u > timestamp => ret'[u] = ret[u]
      BY <2>0 DEF ThreadTypes, Uids
    <3> QED
      BY <2>0, <3>1 DEF FreshUids
  <2>15. OneCallPerThread'
    BY <1>7 DEF Cancel, OneCallPerThread, Busy, ThreadTypes, stopVars, workerVars,
       pipeVars, userVars
  <2>16. PendingEntries'
    <3> SUFFICES ASSUME NEW u \in Uids, Pending(u)'
                 PROVE  /\ invoked'[u] = 0
                        /\ OwnCbid(u)' => ret'[u] # "false"
                        /\ kind'[u] = "sync" => FrameAlive(u)'
      BY DEF PendingEntries
    <3>1. Pending(u) /\ (OwnCbid(u) => u # uid[t])
      BY <2>0 DEF Pending, CancelId
    <3>2. u # uid[t] => ret'[u] = ret[u]
      BY <2>0 DEF ThreadTypes
    <3>3. kind[u] = "sync" => FrameAlive(u)'
      <4> SUFFICES ASSUME kind[u] = "sync" PROVE FrameAlive(u)'
        OBVIOUS
      <4>1. PICK s \in Threads : uid[s] = u /\ pc[s] # "idle"
        BY <3>1 DEF PendingEntries, FrameAlive
      <4>2. s # t
        BY <3>1, <4>1 DEF OwnCbid
      <4> QED
        BY <2>0, <4>1, <4>2 DEF FrameAlive, ThreadTypes
    <3> QED
      BY <2>0, <3>1, <3>2, <3>3 DEF PendingEntries, OwnCbid
  <2>17. CalledAtMostOnce'
    BY <1>7 DEF Cancel, CalledAtMostOnce, UserTypes, stopVars, workerVars, pipeVars,
       userVars
  <2> QED
    BY <2>11, <2>12, <2>13, <2>14, <2>15, <2>16, <2>17
<1>8. ASSUME NEW t \in Threads, WakeUp(t) PROVE SafetyInv'
  <2>1. TodoInTable'
    BY <1>8 DEF WakeUp, TodoInTable, tableVars, stopVars, workerVars, pipeVars, userVars
  <2>2. BodyThere'
    BY <1>8 DEF WakeUp, BodyThere, PipeTypes, tableVars, stopVars, workerVars, pipeVars,
       userVars
  <2>3. LockHeld'
    BY <1>8 DEF WakeUp, LockHeld, tableVars, stopVars, workerVars, pipeVars, userVars
  <2>4. FreshUids'
    BY <1>8 DEF WakeUp, FreshUids, ThreadTypes, tableVars, stopVars, workerVars,
       pipeVars, userVars
  <2>5. OneCallPerThread'
    BY <1>8 DEF WakeUp, OneCallPerThread, Busy, ThreadTypes, tableVars, stopVars,
       workerVars, pipeVars, userVars
  <2>6. PendingEntries'
    BY <1>8 DEF WakeUp, PendingEntries, Pending, FrameAlive, OwnCbid, ThreadTypes,
       tableVars, stopVars, workerVars, pipeVars, userVars
  <2>7. CalledAtMostOnce'
    BY <1>8 DEF WakeUp, CalledAtMostOnce, UserTypes, tableVars, stopVars, workerVars,
       pipeVars, userVars
  <2> QED
    BY <2>1, <2>2, <2>3, <2>4, <2>5, <2>6, <2>7
<1>9. CASE StopBegin
  <2>1. BodyThere'
    BY <1>9 DEF StopBegin, BodyThere, PipeTypes, threadVars, tableVars, workerVars,
       pipeVars, userVars
  <2> QED
    BY <1>9, <2>1, QuietStep DEF StopBegin, threadVars, tableVars, workerVars, pipeVars,
       userVars
<1>10. CASE StopEnd
  <2>1. BodyThere'
    BY <1>10 DEF StopEnd, BodyThere, PipeTypes, threadVars, tableVars, workerVars,
       pipeVars, userVars
  <2> QED
    BY <1>10, <2>1, QuietStep DEF StopEnd, threadVars, tableVars, workerVars, pipeVars,
       userVars
<1>11. CASE Top
  <2>1. BodyThere'
    BY <1>11 DEF Top, BodyThere, PipeTypes, workerFrame, threadVars, tableVars,
       stopVars, pipeVars, userVars
  <2> QED
    BY <1>11, <2>1, QuietStep DEF Top, workerFrame, threadVars, tableVars, stopVars,
       pipeVars, userVars
<1>12. CASE Issue
  <2>1. BodyThere'
    BY <1>12 DEF Issue, BodyThere, PipeTypes, workerFrame, threadVars, tableVars,
       stopVars, pipeVars, userVars
  <2> QED
    BY <1>12, <2>1, QuietStep DEF Issue, workerFrame, threadVars, tableVars, stopVars,
       pipeVars, userVars
<1>13. CASE ReadError
  <2>1. BodyThere'
    BY <1>13 DEF ReadError, BodyThere, PipeTypes, threadVars, tableVars, stopVars,
       workerVars, pipeVars, userVars
  <2> QED
    BY <1>13, <2>1, QuietStep DEF ReadError, threadVars, tableVars, stopVars,
       workerVars, pipeVars, userVars
<1>14. CASE Timeout
  <2>1. BodyThere'
    BY <1>14 DEF Timeout, BodyThere, PipeTypes, workerFrame, threadVars, tableVars,
       stopVars, pipeVars, userVars
  <2> QED
    BY <1>14, <2>1, QuietStep DEF Timeout, workerFrame, threadVars, tableVars, stopVars,
       pipeVars, userVars
<1>15. CASE Header
  <2>1. BodyThere'
    BY <1>15 DEF Header, BodyThere, PipeTypes, workerFrame, threadVars, tableVars,
       stopVars, pipeVars, userVars
  <2> QED
    BY <1>15, <2>1, QuietStep DEF Header, workerFrame, threadVars, tableVars, stopVars,
       pipeVars, userVars
<1>16. CASE HeaderError
  <2>1. BodyThere'
    BY <1>16 DEF HeaderError, BodyThere, PipeTypes, workerFrame, threadVars, tableVars,
       stopVars, pipeVars, userVars
  <2> QED
    BY <1>16, <2>1, QuietStep DEF HeaderError, workerFrame, threadVars, tableVars,
       stopVars, pipeVars, userVars
<1>17. CASE Body
  <2>1. BodyThere'
    BY <1>17 DEF Body, BodyThere, PipeTypes, workerFrame, threadVars, tableVars,
       stopVars, userVars
  <2> QED
    BY <1>17, <2>1, QuietStep DEF Body, workerFrame, threadVars, tableVars, stopVars,
       userVars
<1>18. CASE Message
  <2>0. /\ wpc = "wait" /\ m_lock = "free"
        /\ UNCHANGED <<timestamp, pc, uid, kind, ret, m_cb, wtodo>>
        /\ \/ /\ rbuf \in m_cb /\ rbuf \in Uids /\ Pending(rbuf)
              /\ invoked' = [invoked EXCEPT ![rbuf] = @ + 1]
              /\ wpc' = "erase" /\ rbuf' = rbuf
           \/ wpc' = "top" /\ invoked' = invoked
    BY <1>18 DEF Message, Pending, TableTypes, workerFrame, threadVars, userVars
  <2>1. rbuf \in m_cb => invoked[rbuf] = 0
    BY <2>0 DEF PendingEntries, TableTypes, Pending
  <2>2. \A u \in Uids : u # rbuf => invoked'[u] = invoked[u]
    BY <2>0 DEF UserTypes
  <2>11. TodoInTable'
    BY <1>18 DEF Message, TodoInTable, workerFrame, threadVars, stopVars, pipeVars
  <2>12. BodyThere'
    BY <1>18 DEF Message, BodyThere, PipeTypes, workerFrame, threadVars, stopVars,
       pipeVars
  <2>13. LockHeld'
    BY <1>18 DEF Message, LockHeld, workerFrame, threadVars, stopVars, pipeVars
  <2>14. FreshUids'
    BY <2>0, <2>2 DEF FreshUids
  <2>15. OneCallPerThread'
    <3>1. \A s \in Threads : pc[s] = "register" => uid[s] \in Uids
      BY BusyUid DEF Busy
    <3>2. \A s \in Threads : pc[s] = "register" => invoked'[uid[s]] = invoked[uid[s]]
      BY <2>0, <2>2, <3>1 DEF OneCallPerThread, Busy
    <3> QED
      BY <2>0, <3>2 DEF OneCallPerThread, Busy
  <2>16. PendingEntries'
    <3> SUFFICES ASSUME NEW u \in Uids, Pending(u)'
                 PROVE  /\ invoked'[u] = 0
                        /\ OwnCbid(u)' => ret'[u] # "false"
                        /\ kind'[u] = "sync" => FrameAlive(u)'
      BY DEF PendingEntries
    <3>1. Pending(u) /\ invoked'[u] = invoked[u]
      BY <2>0, <2>2 DEF Pending
    <3> QED
      BY <2>0, <3>1 DEF PendingEntries, OwnCbid, FrameAlive
  <2>17. CalledAtMostOnce'
    BY <2>0, <2>1, <2>2 DEF CalledAtMostOnce, UserTypes
  <2> QED
    BY <2>11, <2>12, <2>13, <2>14, <2>15, <2>16, <2>17
<1>19. CASE Erase
  <2>1. TodoInTable'
    BY <1>19 DEF Erase, TodoInTable, workerFrame, threadVars, stopVars, pipeVars,
       userVars
  <2>2. BodyThere'
    BY <1>19 DEF Erase, BodyThere, PipeTypes, workerFrame, threadVars, stopVars,
       pipeVars, userVars
  <2>3. LockHeld'
    BY <1>19 DEF Erase, LockHeld, workerFrame, threadVars, stopVars, pipeVars, userVars
  <2>4. FreshUids'
    BY <1>19 DEF Erase, FreshUids, ThreadTypes, workerFrame, threadVars, stopVars,
       pipeVars, userVars
  <2>5. OneCallPerThread'
    BY <1>19 DEF Erase, OneCallPerThread, Busy, ThreadTypes, workerFrame, threadVars,
       stopVars, pipeVars, userVars
  <2>6. PendingEntries'
    BY <1>19 DEF Erase, PendingEntries, Pending, FrameAlive, OwnCbid, ThreadTypes,
       workerFrame, threadVars, stopVars, pipeVars, userVars
  <2>7. CalledAtMostOnce'
    BY <1>19 DEF Erase, CalledAtMostOnce, UserTypes, workerFrame, threadVars, stopVars,
       pipeVars, userVars
  <2> QED
    BY <2>1, <2>2, <2>3, <2>4, <2>5, <2>6, <2>7
<1>20. CASE DrainLock
  <2>1. TodoInTable'
    BY <1>20 DEF DrainLock, TodoInTable, workerFrame, threadVars, stopVars, pipeVars,
       userVars
  <2>2. BodyThere'
    BY <1>20 DEF DrainLock, BodyThere, PipeTypes, workerFrame, threadVars, stopVars,
       pipeVars, userVars
  <2>3. LockHeld'
    BY <1>20 DEF DrainLock, LockHeld, workerFrame, threadVars, stopVars, pipeVars,
       userVars
  <2>4. FreshUids'
    BY <1>20 DEF DrainLock, FreshUids, ThreadTypes, workerFrame, threadVars, stopVars,
       pipeVars, userVars
  <2>5. OneCallPerThread'
    BY <1>20 DEF DrainLock, OneCallPerThread, Busy, ThreadTypes, workerFrame,
       threadVars, stopVars, pipeVars, userVars
  <2>6. PendingEntries'
    BY <1>20 DEF DrainLock, PendingEntries, Pending, FrameAlive, OwnCbid, ThreadTypes,
       workerFrame, threadVars, stopVars, pipeVars, userVars
  <2>7. CalledAtMostOnce'
    BY <1>20 DEF DrainLock, CalledAtMostOnce, UserTypes, workerFrame, threadVars,
       stopVars, pipeVars, userVars
  <2> QED
    BY <2>1, <2>2, <2>3, <2>4, <2>5, <2>6, <2>7
<1>21. CASE DrainOne
  <2>0. PICK d \in wtodo :
          /\ d \in Uids /\ d \in m_cb /\ wpc = "drain" /\ m_lock = "worker"
          /\ invoked' = [invoked EXCEPT ![d] = @ + 1]
          /\ wtodo' = wtodo \ {d}
          /\ UNCHANGED <<timestamp, pc, uid, kind, ret, m_cb, m_lock, wpc, rbuf>>
    BY <1>21 DEF DrainOne, LockHeld, TodoInTable, WorkerTypes, workerFrame, threadVars,
       tableVars
  <2>1. invoked[d] = 0
    BY <2>0 DEF Pending, PendingEntries
  <2>2. \A u \in Uids : u # d => invoked'[u] = invoked[u]
    BY <2>0 DEF UserTypes
  <2>11. TodoInTable'
    BY <1>21 DEF DrainOne, TodoInTable, workerFrame, threadVars, tableVars, stopVars,
       pipeVars
  <2>12. BodyThere'
    BY <1>21 DEF DrainOne, BodyThere, PipeTypes, workerFrame, threadVars, tableVars,
       stopVars, pipeVars
  <2>13. LockHeld'
    BY <1>21 DEF DrainOne, LockHeld, workerFrame, threadVars, tableVars, stopVars,
       pipeVars
  <2>14. FreshUids'
    BY <2>0, <2>2 DEF FreshUids
  <2>15. OneCallPerThread'
    <3>1. \A s \in Threads : pc[s] = "register" => uid[s] \in Uids
      BY BusyUid DEF Busy
    <3>2. \A s \in Threads : pc[s] = "register" => invoked'[uid[s]] = invoked[uid[s]]
      BY <2>0, <2>2, <3>1 DEF OneCallPerThread, Busy
    <3> QED
      BY <2>0, <3>2 DEF OneCallPerThread, Busy
  <2>16. PendingEntries'
    <3> SUFFICES ASSUME NEW u \in Uids, Pending(u)'
                 PROVE  /\ invoked'[u] = 0
                        /\ OwnCbid(u)' => ret'[u] # "false"
                        /\ kind'[u] = "sync" => FrameAlive(u)'
      BY DEF PendingEntries
    <3>1. Pending(u) /\ u # d
      BY <2>0 DEF Pending
    <3> QED
      BY <2>0, <2>2, <3>1 DEF PendingEntries, OwnCbid, FrameAlive
  <2>17. CalledAtMostOnce'
    BY <2>0, <2>1, <2>2 DEF CalledAtMostOnce, UserTypes
  <2> QED
    BY <2>11, <2>12, <2>13, <2>14, <2>15, <2>16, <2>17
<1>22. CASE DrainEnd
  <2>1. TodoInTable'
    BY <1>22 DEF DrainEnd, TodoInTable, workerFrame, threadVars, stopVars, pipeVars,
       userVars
  <2>2. BodyThere'
    BY <1>22 DEF DrainEnd, BodyThere, PipeTypes, workerFrame, threadVars, stopVars,
       pipeVars, userVars
  <2>3. LockHeld'
    BY <1>22 DEF DrainEnd, LockHeld, workerFrame, threadVars, stopVars, pipeVars,
       userVars
  <2>4. FreshUids'
    BY <1>22 DEF DrainEnd, FreshUids, ThreadTypes, workerFrame, threadVars, stopVars,
       pipeVars, userVars
  <2>5. OneCallPerThread'
    BY <1>22 DEF DrainEnd, OneCallPerThread, Busy, ThreadTypes, workerFrame, threadVars,
       stopVars, pipeVars, userVars
  <2>6. PendingEntries'
    BY <1>22 DEF DrainEnd, PendingEntries, Pending, FrameAlive, OwnCbid, ThreadTypes,
       workerFrame, threadVars, stopVars, pipeVars, userVars
  <2>7. CalledAtMostOnce'
    BY <1>22 DEF DrainEnd, CalledAtMostOnce, UserTypes, workerFrame, threadVars,
       stopVars, pipeVars, userVars
  <2> QED
    BY <2>1, <2>2, <2>3, <2>4, <2>5, <2>6, <2>7
<1>23. CASE Final
  <2>1. BodyThere'
    BY <1>23 DEF Final, BodyThere, PipeTypes, workerFrame, threadVars, tableVars,
       stopVars, pipeVars, userVars
  <2> QED
    BY <1>23, <2>1, QuietStep DEF Final, workerFrame, threadVars, tableVars, stopVars,
       pipeVars, userVars
<1>24. CASE ServerTake
  <2>1. BodyThere'
    BY <1>24 DEF ServerTake, BodyThere, PipeTypes, clientFrame, threadVars, tableVars,
       workerVars, userVars
  <2> QED
    BY <1>24, <2>1, QuietStep DEF ServerTake, clientFrame, threadVars, tableVars,
       workerVars, userVars
<1>25. CASE ServerReply
  <2>1. BodyThere'
    <3>1. toClient' = Append(toClient, serving)
      BY <1>25 DEF ServerReply
    <3>2. toClient \in Seq(Nat) /\ serving \in Nat
      BY DEF PipeTypes, Uids
    <3>3. toClient' # <<>>
      BY <3>1, <3>2, AppendProperties
    <3> QED
      BY <3>3 DEF BodyThere
  <2> QED
    BY <1>25, <2>1, QuietStep DEF ServerReply, clientFrame, threadVars, tableVars,
       workerVars, userVars
<1>26. CASE ServerExits
  <2>1. BodyThere'
    BY <1>26 DEF ServerExits, BodyThere, PipeTypes, clientFrame, threadVars, tableVars,
       workerVars, userVars
  <2> QED
    BY <1>26, <2>1, QuietStep DEF ServerExits, clientFrame, threadVars, tableVars,
       workerVars, userVars
<1>27. CASE ServerDisconnects
  <2>1. BodyThere'
    BY <1>27 DEF ServerDisconnects, BodyThere, PipeTypes, clientFrame, threadVars,
       tableVars, workerVars, userVars
  <2> QED
    BY <1>27, <2>1, QuietStep DEF ServerDisconnects, clientFrame, threadVars, tableVars,
       workerVars, userVars
<1>28. CASE UNCHANGED vars
  BY <1>28 DEF vars, threadVars, tableVars, stopVars, workerVars, pipeVars, userVars,
     TodoInTable, BodyThere, LockHeld, FreshUids, OneCallPerThread, Busy,
     PendingEntries, Pending, FrameAlive, OwnCbid, CalledAtMostOnce
<1> QED
  BY <1>1, <1>2, <1>3, <1>4, <1>5, <1>6, <1>7, <1>8, <1>9, <1>10, <1>11, <1>12, <1>13,
     <1>14, <1>15, <1>16, <1>17, <1>18, <1>19, <1>20, <1>21, <1>22, <1>23, <1>24, <1>25,
     <1>26, <1>27, <1>28
     DEF Next, ThreadStep, Worker, Server

(* The inductive invariant: what the code relies on when it calls a callback,*)
(* for any threads, kinds of call and number of calls.                      *)
THEOREM InvariantHolds == Spec => [](TypeOK /\ SafetyInv)
<1>1. Init => TypeOK /\ SafetyInv
  <2> SUFFICES ASSUME Init PROVE TypeOK /\ SafetyInv
    OBVIOUS
  <2>1. TypeOK
    <3> USE ClientAssumption DEF Init
    <3>1. ThreadTypes
      BY DEF ThreadTypes, Uids, AllKinds, ThreadPcs
    <3>2. TableTypes
      BY DEF TableTypes
    <3>3. StopTypes
      BY Zenon DEF StopTypes
    <3>4. WorkerTypes
      <4>1. notified \in BOOLEAN
        BY Zenon
      <4> QED
        BY <4>1 DEF WorkerTypes, WorkerPcs
    <3>5. PipeTypes
      BY DEF PipeTypes
    <3>6. UserTypes
      BY DEF UserTypes
    <3> QED
      BY <3>1, <3>2, <3>3, <3>4, <3>5, <3>6 DEF TypeOK
  <2>2. SafetyInv
    BY ClientAssumption
       DEF Init, SafetyInv, TodoInTable, BodyThere, LockHeld, FreshUids, OneCallPerThread,
           Busy, PendingEntries, Pending, CalledAtMostOnce, Uids
  <2> QED
    BY <2>1, <2>2
<1>2. TypeOK /\ SafetyInv /\ [Next]_vars => (TypeOK /\ SafetyInv)'
  BY TypeStep, SafetyStep
<1> QED
  BY <1>1, <1>2, PTL DEF Spec

(* Every variable keeps its type.                                          *)
THEOREM TypeCorrect == Spec => []TypeOK
  BY InvariantHolds, PTL

(* A callback runs at most once, however replies, the final loop of the    *)
(* worker, cancel() and stop() interleave.                                 *)
THEOREM CalledAtMostOnceHolds == Spec => []CalledAtMostOnce
<1>1. TypeOK /\ SafetyInv => CalledAtMostOnce
  BY DEF SafetyInv
<1> QED
  BY <1>1, InvariantHolds, PTL

(* Only the reply and the final loop call a callback, and they call what   *)
(* is pending.                                                             *)
LEMMA OnlyPendingIsCalled ==
  ASSUME TypeOK, SafetyInv, [Next]_vars, NEW u \in Uids, invoked'[u] # invoked[u]
  PROVE  Pending(u)
<1>1. CASE Message
  <2>1. rbuf \in m_cb /\ wpc = "wait" /\ invoked' = [invoked EXCEPT ![rbuf] = @ + 1]
    BY <1>1 DEF Message, userVars
  <2> QED
    BY <2>1 DEF Pending, TypeOK, UserTypes
<1>2. CASE DrainOne
  <2>1. PICK d \in wtodo : wpc = "drain" /\ invoked' = [invoked EXCEPT ![d] = @ + 1]
    BY <1>2 DEF DrainOne
  <2> QED
    BY <2>1 DEF Pending, SafetyInv, TodoInTable, TypeOK, UserTypes
<1>3. ~Message /\ ~DrainOne => UNCHANGED invoked
  BY DEF Next, ThreadStep, Worker, Server, Call, Register, WriteOk, WriteFails,
         WriteNull, Written, Cancel, WakeUp, StopBegin, StopEnd, Top, Issue, ReadError,
         Timeout, Header, HeaderError, Body, Erase, DrainLock, DrainEnd, Final,
         ServerTake, ServerReply, ServerExits, ServerDisconnects, clientFrame, vars,
         userVars
<1> QED
  BY <1>1, <1>2, <1>3

(* No callback of a synchronous call runs when its frame is gone.          *)
THEOREM CallbackIntoLiveFrameHolds == Spec => CallbackIntoLiveFrame
<1>1. TypeOK /\ SafetyInv /\ [Next]_vars
      => [\A u \in Uids : kind[u] = "sync" /\ invoked'[u] # invoked[u] => FrameAlive(u)]_vars
  BY OnlyPendingIsCalled DEF SafetyInv, PendingEntries
<1> QED
  BY <1>1, InvariantHolds, PTL DEF Spec, CallbackIntoLiveFrame

(* A call that returned false is not called back.                          *)
THEOREM SilentAfterFalseHolds == Spec => SilentAfterFalse
<1>1. TypeOK /\ SafetyInv /\ [Next]_vars
      => [\A u \in Uids : ret[u] = "false" /\ OwnCbid(u) => invoked'[u] = invoked[u]]_vars
  BY OnlyPendingIsCalled DEF SafetyInv, PendingEntries
<1> QED
  BY <1>1, InvariantHolds, PTL DEF Spec, SilentAfterFalse
=============================================================================
