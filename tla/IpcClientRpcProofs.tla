------------------------- MODULE IpcClientRpcProofs -------------------------
(***************************************************************************)
(* The client with its server (IpcClientWin), for any threads, any kinds   *)
(* of call and any number of calls.                                        *)
(*                                                                         *)
(* First, the two implement the contract of remote calls (RpcContract),    *)
(* also when stop() overlaps a call().  Then, the order in which the calls *)
(* of a thread are answered, and what the worker leaves behind when it     *)
(* ends.  The second part is about calls with a cbid of their own,         *)
(* whatever other kinds of call the application makes: a failed call()     *)
(* with the default cbid erases the entry of some other call, which is     *)
(* then never answered.                                                    *)
(***************************************************************************)
EXTENDS IpcClientWinProofs

-----------------------------------------------------------------------------
(* The contract: the inductive invariant.                                  *)

Sending(t) == pc[t] \in {"register", "write", "cancel"}

\* The request of call u was written: whoever makes the call is past that.
Sent(u) ==
  /\ u \in 1..timestamp
  /\ ret[u] # "false"
  /\ \A t \in Threads : uid[t] = u => ~Sending(t)

\* A request on its way to the server was sent once and not executed yet.
RequestsOnce ==
  /\ \A i \in 1..Len(toServer) : executed[toServer[i]] = 0 /\ Sent(toServer[i])
  /\ \A i, j \in 1..Len(toServer) : toServer[i] = toServer[j] => i = j

\* The server executed only calls that were sent, each once.
ExecutedOnce == \A u \in Uids : executed[u] # 0 => executed[u] = 1 /\ Sent(u)

\* A reply stands for an executed call, from the server to the callback.
RepliesAreEarned ==
  /\ serving # 0 => executed[serving] = 1
  /\ \A i \in 1..Len(toClient) : executed[toClient[i]] = 1
  /\ m_rop = "msg" => rbuf # 0 /\ executed[rbuf] = 1
  /\ \A u \in Uids : outcome[u] = "reply" => executed[u] = 1

\* A message read is kept until the worker looks at it.
NothingUnread == wpc \in {"issue", "body", "erase"} => m_rop = "invalid"

\* A callback is called with an outcome.
OutcomeKnown == \A u \in Uids : outcome[u] = "none" <=> invoked[u] = 0

ContractInv ==
  /\ TypeOK /\ SafetyInv
  /\ RequestsOnce /\ ExecutedOnce /\ RepliesAreEarned /\ NothingUnread /\ OutcomeKnown

-----------------------------------------------------------------------------
(* Every step keeps the invariant.                                         *)

(* What a step that is not one of the named ones leaves alone.             *)
LEMMA WhatMoves ==
  ASSUME [Next]_vars
  PROVE  /\ \/ UNCHANGED <<timestamp, pc, uid, ret>>
            \/ \E t \in Threads : Call(t) \/ ThreadStep(t)
         /\ \/ UNCHANGED <<toServer, executed>>
            \/ \E t \in Threads : WriteOk(t)
            \/ ServerTake \/ ServerExits \/ ServerDisconnects
         /\ \/ UNCHANGED <<serving, toClient>>
            \/ Body \/ ServerTake \/ ServerReply \/ ServerExits \/ ServerDisconnects
         /\ \/ UNCHANGED <<m_rop, rbuf>>
            \/ Issue \/ Header \/ HeaderError \/ Body \/ Message \/ Erase
         /\ UNCHANGED <<invoked, outcome>> \/ Message \/ DrainOne
         /\ UNCHANGED <<wpc, m_rop>> \/ wpc' \notin {"issue", "body", "erase"} \/ m_rop' = "invalid"
<1> USE DEF Call, ThreadStep, Register, WriteOk, WriteFails, WriteNull, Written, Cancel, WakeUp,
        StopBegin, StopEnd, Top, Issue, ReadError, Timeout, Header, HeaderError, Body, Message,
        Erase, DrainLock, DrainOne, DrainEnd, Final, ServerTake, ServerReply, ServerExits,
        ServerDisconnects, workerFrame, clientFrame, threadVars, tableVars, stopVars,
        workerVars, pipeVars, userVars
<1>1. ASSUME NEW t \in Threads, Call(t) \/ ThreadStep(t)
      PROVE  /\ UNCHANGED <<serving, toClient, executed, m_rop, rbuf, invoked, outcome>>
             /\ toServer' = toServer \/ WriteOk(t)
             /\ wpc' = wpc
  BY <1>1
<1>2. CASE StopBegin \/ StopEnd
  BY <1>2
<1>3. CASE Worker
  BY <1>3 DEF Worker
<1>4. CASE Server \/ ServerExits \/ ServerDisconnects
  BY <1>4 DEF Server
<1>5. CASE UNCHANGED vars
  BY <1>5 DEF vars
<1> QED
  BY <1>1, <1>2, <1>3, <1>4, <1>5 DEF Next

(* A call in the making belongs to one thread and has not returned.         *)
LEMMA SendersDiffer ==
  ASSUME TypeOK, SafetyInv, NEW t \in Threads, Sending(t)
  PROVE  /\ uid[t] \in Uids /\ uid[t] \in 1..timestamp /\ ret[uid[t]] = "none" /\ ~Sent(uid[t])
         /\ \A s \in Threads : Sending(s) /\ uid[s] = uid[t] => s = t
<1>1. Busy(t) /\ \A s \in Threads : Sending(s) => Busy(s)
  BY DEF Sending, Busy
<1> QED
  BY <1>1, BusyUid DEF SafetyInv, OneCallPerThread, Sent

(* What was sent stays sent.                                                *)
LEMMA SentStays ==
  ASSUME TypeOK, SafetyInv, [Next]_vars, NEW u \in Uids, Sent(u)
  PROVE  Sent(u)'
<1>1. /\ timestamp \in Nat /\ pc \in [Threads -> ThreadPcs] /\ uid \in [Threads -> 0..MaxCalls]
      /\ ret \in [Uids -> {"none", "true", "false"}]
  BY ClientAssumption DEF TypeOK, ThreadTypes
<1>2. CASE UNCHANGED <<timestamp, pc, uid, ret>>
  BY <1>2 DEF Sent, Sending
<1>3. ASSUME NEW t \in Threads, Call(t) PROVE Sent(u)'
  <2>1. /\ timestamp' = timestamp + 1 /\ uid'[t] = timestamp + 1 /\ ret' = ret
        /\ \A s \in Threads \ {t} : uid'[s] = uid[s] /\ pc'[s] = pc[s]
    BY <1>1, <1>3 DEF Call
  <2>2. u # timestamp + 1 /\ u \in 1..timestamp'
    BY <1>1, <2>1 DEF Sent
  <2> QED
    BY <2>1, <2>2 DEF Sent, Sending
<1>4. ASSUME NEW t \in Threads, UNCHANGED <<timestamp, uid>>,
             Sending(t) \/ ~Sending(t)',
             ret'[u] = "false" => ret[u] = "false" \/ (Sending(t) /\ uid[t] = u),
             \A s \in Threads \ {t} : pc'[s] = pc[s]
      PROVE  Sent(u)'
  <2>1. uid[t] = u => ~Sending(t) /\ ~Sending(t)'
    BY <1>4 DEF Sent
  <2>2. ASSUME NEW s \in Threads, uid[s] = u PROVE ~Sending(s)'
    BY <1>4, <2>1, <2>2 DEF Sent, Sending
  <2> QED
    BY <1>4, <2>1, <2>2 DEF Sent
<1>5. ASSUME NEW t \in Threads, ThreadStep(t) PROVE Sent(u)'
  <2>1. CASE Register(t) \/ WriteOk(t) \/ WriteFails(t)
    <3>1. Sending(t) /\ UNCHANGED <<timestamp, uid, ret>> /\ \A s \in Threads \ {t} : pc'[s] = pc[s]
      BY <1>1, <2>1 DEF Register, WriteOk, WriteFails, Sending
    <3> QED
      BY <1>4, <3>1
  <2>2. CASE WriteNull(t)
    BY <1>2, <2>2 DEF WriteNull, threadVars
  <2>3. CASE Written(t) \/ WakeUp(t)
    <3>1. /\ UNCHANGED <<timestamp, uid>> /\ pc'[t] \in {"waiting", "idle"}
          /\ \A s \in Threads \ {t} : pc'[s] = pc[s]
      BY <1>1, <2>3 DEF Written, WakeUp
    <3>2. ret' = ret \/ ret' = [ret EXCEPT ![uid[t]] = "true"]
      BY <1>1, <2>3 DEF Written, WakeUp
    <3>3. ret'[u] = "false" => ret[u] = "false"
      BY <1>1, <3>2
    <3> QED
      BY <1>4, <3>1, <3>3 DEF Sending
  <2>4. CASE Cancel(t)
    <3>1. /\ UNCHANGED <<timestamp, uid>> /\ Sending(t) /\ ret' = [ret EXCEPT ![uid[t]] = "false"]
          /\ \A s \in Threads \ {t} : pc'[s] = pc[s]
      BY <1>1, <2>4 DEF Cancel, Sending
    <3> QED
      BY <1>1, <1>4, <3>1
  <2> QED
    BY <1>5, <2>1, <2>2, <2>3, <2>4 DEF ThreadStep
<1> QED
  BY <1>2, <1>3, <1>5, WhatMoves

(* A sequence without its head, and with one element more.                  *)
LEMMA TailElements ==
  ASSUME NEW S, NEW q \in Seq(S), q # <<>>
  PROVE  /\ Head(q) \in S /\ Head(q) = q[1] /\ 1 \in 1..Len(q)
         /\ \A i \in 1..Len(Tail(q)) : i + 1 \in 1..Len(q) /\ Tail(q)[i] = q[i + 1]
         /\ \A i \in 1..Len(q) : q[i] \in S
  BY HeadTailProperties

LEMMA AppendElements ==
  ASSUME NEW S, NEW q \in Seq(S), NEW e \in S
  PROVE  /\ Len(Append(q, e)) = Len(q) + 1 /\ Len(q) \in Nat
         /\ \A i \in 1..Len(q) : Append(q, e)[i] = q[i]
         /\ Append(q, e)[Len(q) + 1] = e
  BY AppendProperties

(* Requests are sent once.                                                  *)
LEMMA RequestsStep ==
  ASSUME ContractInv, [Next]_vars
  PROVE  RequestsOnce'
<1>1. /\ TypeOK /\ SafetyInv /\ RequestsOnce /\ ExecutedOnce
      /\ toServer \in Seq(Uids) /\ executed \in [Uids -> Nat]
  BY DEF ContractInv, TypeOK, PipeTypes
<1>2. ASSUME NEW u \in Uids, Sent(u) PROVE Sent(u)'
  BY <1>1, <1>2, SentStays
<1>3. \A i \in 1..Len(toServer) : toServer[i] \in Uids
  BY <1>1
<1>4. CASE UNCHANGED <<toServer, executed>>
  BY <1>1, <1>2, <1>3, <1>4 DEF RequestsOnce
<1>5. ASSUME NEW t \in Threads, WriteOk(t) PROVE RequestsOnce'
  <2>1. /\ toServer' = Append(toServer, uid[t]) /\ executed' = executed /\ Sending(t)
        /\ UNCHANGED <<timestamp, uid, ret>> /\ pc' = [pc EXCEPT ![t] = "written"]
    BY <1>5 DEF WriteOk, Sending
  <2>2. /\ uid[t] \in Uids /\ uid[t] \in 1..timestamp /\ ret[uid[t]] = "none" /\ ~Sent(uid[t])
        /\ \A s \in Threads : Sending(s) /\ uid[s] = uid[t] => s = t
    BY <1>1, <2>1, SendersDiffer
  <2>3. Sent(uid[t])'
    <3>1. \A s \in Threads : uid'[s] = uid[t] => ~Sending(s)'
      BY <1>1, <2>1, <2>2 DEF Sending, TypeOK, ThreadTypes
    <3> QED
      BY <2>1, <2>2, <3>1 DEF Sent
  <2>4. executed[uid[t]] = 0 /\ \A i \in 1..Len(toServer) : toServer[i] # uid[t]
    BY <1>1, <2>2 DEF ExecutedOnce, RequestsOnce
  <2> QED
    BY <1>1, <1>2, <1>3, <2>1, <2>2, <2>3, <2>4, AppendElements DEF RequestsOnce
<1>6. CASE ServerTake
  <2>1. /\ toServer # <<>> /\ toServer' = Tail(toServer)
        /\ executed' = [executed EXCEPT ![toServer[1]] = @ + 1]
    BY <1>1, <1>6, TailElements DEF ServerTake
  <2>2. /\ \A i \in 1..Len(toServer') : i + 1 \in 1..Len(toServer) /\ toServer'[i] = toServer[i + 1]
        /\ 1 \in 1..Len(toServer)
    BY <1>1, <2>1, TailElements
  <2>3. \A i \in 1..Len(toServer') : toServer'[i] # toServer[1]
    BY <2>2, <1>1 DEF RequestsOnce
  <2> QED
    BY <1>1, <1>2, <1>3, <2>1, <2>2, <2>3 DEF RequestsOnce
<1>7. CASE ServerExits \/ ServerDisconnects
  BY <1>7 DEF ServerExits, ServerDisconnects, RequestsOnce
<1> QED
  BY <1>4, <1>5, <1>6, <1>7, WhatMoves

(* Each call is executed once, after it was sent.                           *)
LEMMA ExecutionsStep ==
  ASSUME ContractInv, [Next]_vars
  PROVE  ExecutedOnce' /\ \A u \in Uids : executed[u] = 1 => executed'[u] = 1
<1>1. /\ TypeOK /\ SafetyInv /\ RequestsOnce /\ ExecutedOnce
      /\ toServer \in Seq(Uids) /\ executed \in [Uids -> Nat]
  BY DEF ContractInv, TypeOK, PipeTypes
<1>2. ASSUME NEW u \in Uids, Sent(u) PROVE Sent(u)'
  BY <1>1, <1>2, SentStays
<1>3. CASE executed' = executed
  BY <1>1, <1>2, <1>3 DEF ExecutedOnce
<1>4. CASE ServerTake
  <2>1. toServer # <<>> /\ executed' = [executed EXCEPT ![toServer[1]] = @ + 1]
    BY <1>1, <1>4, TailElements DEF ServerTake
  <2>2. toServer[1] \in Uids /\ executed[toServer[1]] = 0 /\ Sent(toServer[1])
    BY <1>1, <2>1, TailElements DEF RequestsOnce
  <2> QED
    BY <1>1, <1>2, <2>1, <2>2 DEF ExecutedOnce
<1> QED
  BY <1>3, <1>4, WhatMoves DEF WriteOk, ServerExits, ServerDisconnects

(* Only what is pending is called, with an outcome, and was not before.     *)
LEMMA OutcomeStep ==
  ASSUME ContractInv, [Next]_vars
  PROVE  OutcomeKnown'
<1>1. /\ TypeOK /\ SafetyInv /\ OutcomeKnown
      /\ invoked \in [Uids -> Nat] /\ outcome \in [Uids -> {"none", "reply", "lost"}]
  BY DEF ContractInv, TypeOK, UserTypes
<1>2. CASE UNCHANGED <<invoked, outcome>>
  BY <1>1, <1>2 DEF OutcomeKnown
<1>3. ASSUME NEW u \in Uids, NEW o \in {"reply", "lost"},
             invoked' = [invoked EXCEPT ![u] = @ + 1], outcome' = [outcome EXCEPT ![u] = o]
      PROVE  OutcomeKnown'
  BY <1>1, <1>3 DEF OutcomeKnown
<1>4. CASE Message
  <2>1. CASE rbuf \in m_cb
    BY <1>1, <1>3, <1>4, <2>1 DEF Message, TypeOK, TableTypes
  <2> QED
    BY <1>2, <1>4, <2>1 DEF Message, userVars
<1>5. CASE DrainOne
  BY <1>1, <1>3, <1>5 DEF DrainOne, TypeOK, WorkerTypes
<1> QED
  BY <1>2, <1>4, <1>5, WhatMoves

(* A reply is earned by an execution.                                       *)
LEMMA RepliesStep ==
  ASSUME ContractInv, [Next]_vars
  PROVE  RepliesAreEarned' /\ NothingUnread'
<1>1. /\ TypeOK /\ SafetyInv /\ RepliesAreEarned /\ NothingUnread /\ RequestsOnce
      /\ toServer \in Seq(Uids) /\ toClient \in Seq(Uids) /\ serving \in 0..MaxCalls
      /\ executed \in [Uids -> Nat] /\ outcome \in [Uids -> {"none", "reply", "lost"}]
      /\ rbuf \in 0..MaxCalls
  BY DEF ContractInv, TypeOK, PipeTypes, WorkerTypes, UserTypes
<1>2. \A n \in 0..MaxCalls : n # 0 => n \in Uids
  BY ClientAssumption DEF Uids
<1>3. \A u \in Uids : executed[u] = 1 => executed'[u] = 1
  BY ExecutionsStep
<1>4. \A i \in 1..Len(toClient) : toClient[i] \in Uids
  BY <1>1
<1>5. serving' # 0 => executed'[serving'] = 1
  <2>1. CASE ServerTake
    <3>1. /\ toServer # <<>> /\ serving' = toServer[1]
          /\ executed' = [executed EXCEPT ![toServer[1]] = @ + 1]
      BY <1>1, <2>1, TailElements DEF ServerTake
    <3>2. toServer[1] \in Uids /\ executed[toServer[1]] = 0
      BY <1>1, <3>1, TailElements DEF RequestsOnce
    <3> QED
      BY <1>1, <3>1, <3>2
  <2>2. CASE serving' = serving
    BY <1>1, <1>2, <1>3, <2>2 DEF RepliesAreEarned
  <2>3. CASE serving' = 0
    BY <2>3
  <2> QED
    BY <2>1, <2>2, <2>3, WhatMoves DEF Body, ServerReply, ServerExits, ServerDisconnects
<1>6. \A i \in 1..Len(toClient') : executed'[toClient'[i]] = 1
  <2>1. CASE toClient' = toClient
    BY <1>1, <1>4, <1>3, <2>1 DEF RepliesAreEarned
  <2>2. CASE Body /\ is_connected
    <3>1. toClient # <<>> /\ toClient' = Tail(toClient)
      BY <1>1, <2>2 DEF Body, is_connected, SafetyInv, BodyThere
    <3>2. \A i \in 1..Len(toClient') : i + 1 \in 1..Len(toClient) /\ toClient'[i] = toClient[i + 1]
      BY <1>1, <3>1, TailElements
    <3> QED
      BY <1>1, <1>4, <1>3, <3>2 DEF RepliesAreEarned
  <2>3. CASE ServerReply
    <3>1. serving \in Uids /\ executed[serving] = 1 /\ toClient' = Append(toClient, serving)
      BY <1>1, <1>2, <2>3 DEF ServerReply, RepliesAreEarned
    <3>2. /\ Len(toClient') = Len(toClient) + 1 /\ Len(toClient) \in Nat
          /\ \A i \in 1..Len(toClient) : toClient'[i] = toClient[i]
          /\ toClient'[Len(toClient) + 1] = serving
      BY <1>1, <3>1, AppendElements
    <3>3. ASSUME NEW i \in 1..Len(toClient')
          PROVE  executed'[toClient'[i]] = 1
      <4>1. i \in 1..Len(toClient) \/ i = Len(toClient) + 1
        BY <3>2
      <4> QED
        BY <1>1, <1>4, <1>3, <3>1, <3>2, <4>1 DEF RepliesAreEarned
    <3> QED
      BY <3>3
  <2>4. CASE toClient' = <<>>
    BY <2>4
  <2> QED
    BY <2>1, <2>2, <2>3, <2>4, WhatMoves
       DEF Body, ServerTake, ServerExits, ServerDisconnects
<1>7. m_rop' = "msg" => rbuf' # 0 /\ executed'[rbuf'] = 1
  <2>1. CASE UNCHANGED <<m_rop, rbuf>>
    BY <1>1, <1>2, <1>3, <2>1 DEF RepliesAreEarned
  <2>2. CASE Issue
    BY <1>1, <1>2, <1>3, <2>2 DEF Issue, RepliesAreEarned
  <2>3. CASE Header \/ HeaderError \/ Message
    BY <2>3 DEF Header, HeaderError, Message
  <2>4. CASE Body
    <3>1. CASE is_connected
      <4>1. toClient # <<>> /\ rbuf' = Head(toClient)
        BY <1>1, <2>4, <3>1 DEF Body, is_connected, SafetyInv, BodyThere
      <4>2. rbuf' \in Uids /\ executed[rbuf'] = 1
        BY <1>1, <4>1, TailElements DEF RepliesAreEarned
      <4> QED
        BY <1>3, <4>2 DEF Uids
    <3> QED
      BY <2>1, <2>4, <3>1 DEF Body
  <2>5. CASE Erase
    <3>1. m_rop' = m_rop /\ m_rop = "invalid"
      BY <1>1, <2>5 DEF Erase, NothingUnread
    <3> QED
      BY <3>1
  <2> QED
    BY <2>1, <2>2, <2>3, <2>4, <2>5, WhatMoves
<1>8. \A u \in Uids : outcome'[u] = "reply" => executed'[u] = 1
  <2>1. CASE outcome' = outcome
    BY <1>1, <1>3, <2>1 DEF RepliesAreEarned
  <2>2. CASE Message /\ rbuf \in m_cb
    <3>1. rbuf \in Uids /\ executed[rbuf] = 1 /\ outcome' = [outcome EXCEPT ![rbuf] = "reply"]
      BY <1>1, <1>2, <2>2 DEF Message, RepliesAreEarned
    <3> QED
      BY <1>1, <1>3, <3>1 DEF RepliesAreEarned
  <2>3. CASE DrainOne
    <3>1. PICK d \in wtodo : outcome' = [outcome EXCEPT ![d] = "lost"]
      BY <2>3 DEF DrainOne
    <3> QED
      BY <1>1, <1>3, <3>1 DEF RepliesAreEarned
  <2> QED
    BY <2>1, <2>2, <2>3, WhatMoves DEF Message, userVars
<1>9. NothingUnread'
  BY <1>1, WhatMoves DEF NothingUnread
<1> QED
  BY <1>5, <1>6, <1>7, <1>8, <1>9 DEF RepliesAreEarned

(* The invariant holds in every reachable state.                            *)
LEMMA ContractInvHolds == Spec => []ContractInv
<1> DEFINE Inv == RequestsOnce /\ ExecutedOnce /\ RepliesAreEarned /\ NothingUnread /\ OutcomeKnown
<1>1. Init => Inv
  BY DEF Init, RequestsOnce, ExecutedOnce, RepliesAreEarned, NothingUnread, OutcomeKnown
<1>2. ContractInv /\ [Next]_vars => Inv'
  BY RequestsStep, ExecutionsStep, RepliesStep, OutcomeStep
<1>3. ContractInv <=> TypeOK /\ SafetyInv /\ Inv
  BY DEF ContractInv
<1> HIDE DEF Inv
<1> QED
  BY <1>1, <1>2, <1>3, InvariantHolds, PTL DEF Spec

-----------------------------------------------------------------------------
(* The refinement.                                                         *)

\* The contract's functions, as the client implements them.
CPhase == [u \in Uids |-> phaseOf(u)]
CResult == [u \in Uids |-> resultOf(u)]

(* A call whose values stay looks the same.                                 *)
LEMMA SameView ==
  ASSUME NEW u \in Uids, ret'[u] = ret[u], outcome'[u] = outcome[u] \/ ret[u] # "true"
  PROVE  /\ resultOf(u)' = resultOf(u)
         /\ (u > timestamp <=> u > timestamp') => phaseOf(u)' = phaseOf(u)
  BY DEF resultOf, phaseOf

(* A step that changes no call's values is a stutter.                       *)
LEMMA Stutter ==
  ASSUME timestamp' = timestamp, executed' = executed,
         \A u \in Uids : ret'[u] = ret[u] /\ (outcome'[u] = outcome[u] \/ ret[u] # "true")
  PROVE  UNCHANGED Contract!cvars
<1>1. CPhase' = CPhase /\ CResult' = CResult
  BY SameView DEF CPhase, CResult
<1> QED
  BY <1>1 DEF Contract!cvars, CPhase, CResult

(* A step that gives one call its result is the contract's Return.          *)
LEMMA ReturnMaps ==
  ASSUME NEW u \in Uids, u <= timestamp, timestamp \in Nat,
         UNCHANGED <<timestamp, executed>>,
         \A v \in Uids \ {u} : ret'[v] = ret[v] /\ outcome'[v] = outcome[v],
         resultOf(u) = "none",
         NEW r \in {"reply", "lost", "refused"}, resultOf(u)' = r,
         r = "reply" => executed[u] = 1, r = "refused" => executed[u] = 0
  PROVE  Contract!Next
<1>1. ~(u > timestamp)
  BY DEF Uids
<1>2. CPhase[u] = "issued" /\ CPhase' = [CPhase EXCEPT ![u] = "done"]
  <2>1. phaseOf(u) = "issued" /\ phaseOf(u)' = "done"
    BY <1>1 DEF phaseOf
  <2>2. \A v \in Uids \ {u} : phaseOf(v)' = phaseOf(v)
    BY SameView
  <2> QED
    BY <2>1, <2>2 DEF CPhase
<1>3. CResult' = [CResult EXCEPT ![u] = r]
  <2>1. \A v \in Uids \ {u} : resultOf(v)' = resultOf(v)
    BY SameView
  <2> QED
    BY <2>1 DEF CResult
<1>4. Contract!Return(u, r)
  BY <1>2, <1>3 DEF Contract!Return, CPhase, CResult
<1> QED
  BY <1>4 DEF Contract!Next

(* Every step of the client or of its server is a step of the contract, or  *)
(* changes nothing that the contract sees.                                  *)
LEMMA RefinementStep ==
  ASSUME ContractInv, ContractInv', [Next]_vars
  PROVE  [Contract!Next]_(Contract!cvars)
<1>1. /\ TypeOK /\ SafetyInv /\ OutcomeKnown /\ RepliesAreEarned /\ ExecutedOnce /\ RequestsOnce
      /\ timestamp \in Nat /\ uid \in [Threads -> 0..MaxCalls]
      /\ ret \in [Uids -> {"none", "true", "false"}]
      /\ invoked \in [Uids -> Nat] /\ outcome \in [Uids -> {"none", "reply", "lost"}]
      /\ executed \in [Uids -> Nat] /\ toServer \in Seq(Uids)
  BY ClientAssumption DEF ContractInv, TypeOK, ThreadTypes, UserTypes, PipeTypes
<1>2. \A u \in Uids : ret[u] = "none" => resultOf(u) = "none"
  BY DEF resultOf
<1>3. CASE UNCHANGED <<timestamp, ret, outcome, executed>>
  BY <1>3, Stutter
<1>4. ASSUME NEW t \in Threads, Call(t) PROVE Contract!Next
  <2>1. PICK n \in Uids : /\ n = timestamp + 1 /\ timestamp' = n
                          /\ UNCHANGED <<ret, executed, outcome>>
    BY <1>1, <1>4, ClientAssumption DEF Call, pipeVars, userVars, Uids
  <2>2. ret[n] = "none"
    BY <1>1, <2>1 DEF SafetyInv, FreshUids
  <2>3. phaseOf(n) = "new" /\ phaseOf(n)' = "issued"
    <3>1. resultOf(n)' = "none"
      BY <2>1, <2>2 DEF resultOf
    <3> QED
      BY <1>1, <2>1, <3>1 DEF phaseOf
  <2>4. \A v \in Uids \ {n} : phaseOf(v)' = phaseOf(v)
    BY <1>1, <2>1, SameView DEF Uids
  <2>5. CPhase[n] = "new" /\ CPhase' = [CPhase EXCEPT ![n] = "issued"] /\ CResult' = CResult
    BY <2>1, <2>3, <2>4, SameView DEF CPhase, CResult
  <2>6. Contract!Issue(n)
    BY <2>1, <2>5 DEF Contract!Issue, CPhase, CResult
  <2> QED
    BY <2>1, <2>6 DEF Contract!Next
<1>5. ASSUME NEW t \in Threads, Written(t) \/ WakeUp(t)
      PROVE  [Contract!Next]_(Contract!cvars)
  <2>1. Busy(t)
    BY <1>5 DEF Written, WakeUp, Busy
  <2>2. PICK u \in Uids : u = uid[t] /\ u <= timestamp /\ ret[u] = "none"
    BY <1>1, <2>1, BusyUid DEF SafetyInv, OneCallPerThread
  <2>3. /\ UNCHANGED <<timestamp, executed, outcome>>
        /\ ret' = ret \/ ret' = [ret EXCEPT ![u] = "true"]
    BY <1>1, <1>5, <2>2 DEF Written, WakeUp, pipeVars, userVars
  <2>4. CASE outcome[u] = "none" \/ ret' = ret
    <3>1. \A v \in Uids : resultOf(v)' = resultOf(v)
      BY <1>1, <2>3, <2>2, <2>4 DEF resultOf
    <3>2. CPhase' = CPhase /\ CResult' = CResult
      BY <2>3, <3>1 DEF CPhase, CResult, phaseOf
    <3> QED
      BY <2>3, <3>2 DEF Contract!cvars, CPhase, CResult
  <2>5. CASE outcome[u] # "none" /\ ret' # ret
    <3>1. resultOf(u)' = outcome[u] /\ resultOf(u) = "none" /\ outcome[u] \in {"reply", "lost"}
      BY <1>1, <2>3, <2>2, <2>5 DEF resultOf
    <3>2. outcome[u] = "reply" => executed[u] = 1
      BY <1>1, <2>2 DEF RepliesAreEarned
    <3>3. \A v \in Uids \ {u} : ret'[v] = ret[v] /\ outcome'[v] = outcome[v]
      BY <1>1, <2>3
    <3>4. Contract!Next
      BY <1>1, <2>3, <2>2, <3>1, <3>2, <3>3, ReturnMaps
    <3> QED
      BY <3>4
  <2> QED
    BY <2>4, <2>5
<1>6. ASSUME NEW t \in Threads, Cancel(t) PROVE Contract!Next
  <2>1. /\ UNCHANGED <<timestamp, executed, outcome>> /\ Sending(t)
        /\ ret' = [ret EXCEPT ![uid[t]] = "false"]
    BY <1>6 DEF Cancel, Sending, pipeVars, userVars
  <2>2. /\ uid[t] \in Uids /\ uid[t] <= timestamp /\ ret[uid[t]] = "none" /\ executed[uid[t]] = 0
    BY <1>1, <2>1, SendersDiffer DEF ExecutedOnce
  <2>3. PICK u \in Uids : u = uid[t]
    BY <2>2
  <2>4. resultOf(u)' = "refused" /\ resultOf(u) = "none"
    BY <1>1, <2>1, <2>2, <2>3 DEF resultOf
  <2>5. \A v \in Uids \ {u} : ret'[v] = ret[v] /\ outcome'[v] = outcome[v]
    BY <1>1, <2>1, <2>3
  <2> QED
    BY <1>1, <2>1, <2>2, <2>3, <2>4, <2>5, ReturnMaps
<1>7. ASSUME NEW u \in Uids, NEW o \in {"reply", "lost"}, Pending(u),
             UNCHANGED <<timestamp, ret, executed>>, outcome' = [outcome EXCEPT ![u] = o],
             o = "reply" => executed[u] = 1
      PROVE  [Contract!Next]_(Contract!cvars)
  <2>1. outcome[u] = "none" /\ u <= timestamp
    BY <1>1, <1>7 DEF SafetyInv, PendingEntries, FreshUids, OutcomeKnown, Pending, Uids
  <2>2. CASE ret[u] = "true"
    <3>1. resultOf(u)' = o /\ resultOf(u) = "none"
      BY <1>1, <1>7, <2>1, <2>2 DEF resultOf
    <3> QED
      BY <1>1, <1>7, <2>1, <3>1, ReturnMaps
  <2>3. CASE ret[u] # "true"
    BY <1>1, <1>7, <2>3, Stutter
  <2> QED
    BY <2>2, <2>3
<1>8. CASE Message
  <2>1. CASE rbuf \in m_cb
    <3>1. /\ rbuf \in Uids /\ Pending(rbuf) /\ executed[rbuf] = 1
          /\ UNCHANGED <<timestamp, ret, executed>> /\ outcome' = [outcome EXCEPT ![rbuf] = "reply"]
      BY <1>1, <1>8, <2>1 DEF Message, Pending, RepliesAreEarned, TypeOK, TableTypes,
         workerFrame, threadVars, pipeVars
    <3> QED
      BY <1>7, <3>1
  <2> QED
    BY <1>3, <1>8, <2>1 DEF Message, workerFrame, threadVars, pipeVars, userVars
<1>9. CASE DrainOne
  <2>1. PICK d \in wtodo : wpc = "drain" /\ outcome' = [outcome EXCEPT ![d] = "lost"]
    BY <1>9 DEF DrainOne
  <2>2. d \in Uids /\ Pending(d) /\ UNCHANGED <<timestamp, ret, executed>>
    BY <1>1, <1>9, <2>1
       DEF DrainOne, Pending, SafetyInv, TodoInTable, TypeOK, TableTypes,
       workerFrame, threadVars, pipeVars
  <2> QED
    BY <1>7, <2>1, <2>2
<1>10. CASE ServerTake
  <2>1. PICK u \in Uids : /\ executed' = [executed EXCEPT ![u] = @ + 1]
                          /\ executed[u] = 0 /\ Sent(u)
    <3>1. toServer # <<>> /\ executed' = [executed EXCEPT ![toServer[1]] = @ + 1]
      BY <1>1, <1>10, TailElements DEF ServerTake
    <3>2. toServer[1] \in Uids /\ executed[toServer[1]] = 0 /\ Sent(toServer[1])
      BY <1>1, <3>1, TailElements DEF RequestsOnce
    <3> QED
      BY <3>1, <3>2
  <2>2. UNCHANGED <<timestamp, ret, outcome>>
    BY <1>10 DEF ServerTake, clientFrame, threadVars, userVars
  <2>3. CPhase' = CPhase /\ CResult' = CResult
    BY <2>2, SameView DEF CPhase, CResult
  <2>4. phaseOf(u) # "new" /\ resultOf(u) # "refused"
    <3>1. resultOf(u) # "refused"
      BY <1>1, <2>1 DEF resultOf, Sent
    <3>2. ~(u > timestamp)
      BY <1>1, <2>1 DEF Sent
    <3> QED
      BY <3>1, <3>2 DEF phaseOf
  <2>5. executed' = [executed EXCEPT ![u] = 1]
    BY <1>1, <2>1
  <2>6. Contract!Execute(u)
    BY <2>1, <2>3, <2>4, <2>5 DEF Contract!Execute, CPhase, CResult
  <2> QED
    BY <2>6 DEF Contract!Next
<1>11. \/ UNCHANGED <<timestamp, ret, outcome, executed>>
       \/ \E t \in Threads : Call(t) \/ Written(t) \/ WakeUp(t) \/ Cancel(t)
       \/ Message \/ DrainOne \/ ServerTake
  <2>1. ASSUME NEW t \in Threads, Register(t) \/ WriteOk(t) \/ WriteFails(t) \/ WriteNull(t)
        PROVE  UNCHANGED <<timestamp, ret, outcome, executed>>
    BY <2>1 DEF Register, WriteOk, WriteFails, WriteNull, threadVars, pipeVars, userVars
  <2> QED
    BY <2>1, WhatMoves
       DEF ThreadStep, Message, DrainOne, ServerExits, ServerDisconnects, WriteOk
<1> QED
  BY <1>3, <1>4, <1>5, <1>6, <1>8, <1>9, <1>10, <1>11

(* A remote call of this client keeps the contract: executed at most once,  *)
(* "reply" only after it was, never executed once call() returned false.    *)
THEOREM ClientImplementsContract == Spec => ImplementsContract
<1>1. Init => Contract!Init
  <2> SUFFICES ASSUME Init PROVE Contract!Init
    OBVIOUS
  <2>1. \A u \in Uids : phaseOf(u) = "new" /\ resultOf(u) = "none"
    BY DEF Init, phaseOf, resultOf, Uids
  <2> QED
    BY <2>1 DEF Init, Contract!Init
<1>2. ContractInv /\ ContractInv' /\ [Next]_vars => [Contract!Next]_(Contract!cvars)
  BY RefinementStep
<1> QED
  BY <1>1, <1>2, ContractInvHolds, PTL DEF Spec, ImplementsContract, Contract!Spec

-----------------------------------------------------------------------------
(* The order of the answers: the inductive invariant.                      *)

\* A call that owns its entry of m_cb, did not fail and was not answered.
Unsettled(u) == OwnCbid(u) /\ invoked[u] = 0 /\ ret[u] # "false"

\* The worker has read the reply of call u and not looked it up yet.
InRbuf(u) == m_rop = "msg" /\ rbuf = u

In(q, u) == \E i \in 1..Len(q) : q[i] = u

\* In the queue q no v comes before the first u.
Ahead(q, u, v) == \A i \in 1..Len(q) : q[i] = v => \E j \in 1..Len(q) : j < i /\ q[j] = u

\* The path of a call, from its request to its reply, has not reached v
\* further than u.
Behind(u, v) ==
  /\ invoked[v] = 0
  /\ ~InRbuf(v)
  /\ InRbuf(u) \/ Ahead(toClient, u, v)
  /\ serving = v => InRbuf(u) \/ In(toClient, u)
  /\ InRbuf(u) \/ In(toClient, u) \/ serving = u \/ Ahead(toServer, u, v)

\* g_cbid is the uid of a call that was given no cbid.
GlobalId == g_cbid # 0 => g_cbid <= timestamp /\ kind[g_cbid] = "async"

\* A thread's current call is its last one, and no call has two makers.
MadeInOrder ==
  \A t \in Threads :
    /\ \A u \in made[t] : u <= uid[t] /\ u <= timestamp
    /\ Busy(t) => uid[t] \in made[t]
    /\ \A s \in Threads : s # t => made[s] \cap made[t] = {}

\* An unsettled call has its entry, unless its thread has still to insert it.
Registered ==
  \A u \in Uids : u <= timestamp /\ Unsettled(u) /\ u \notin m_cb =>
    \E t \in Threads : uid[t] = u /\ pc[t] = "register"

\* What the worker is about to erase, or has passed in its final loop, was
\* called.
ErasedCalled == wpc = "erase" => invoked[rbuf] > 0
Drained == wpc = "drain" => \A u \in m_cb \ wtodo : invoked[u] > 0

\* As long as the server lives, an unsettled call that was sent is somewhere
\* on its way.
OnItsWay ==
  srv = "open" => \A u \in Uids : Sent(u) /\ Unsettled(u) =>
    InRbuf(u) \/ In(toClient, u) \/ serving = u \/ In(toServer, u)

\* No later call of the same thread overtakes an unsettled one.
Ordered ==
  \A t \in Threads : \A u, v \in made[t] : u < v /\ Unsettled(u) => Behind(u, v)

OrderInv ==
  /\ ContractInv
  /\ GlobalId /\ MadeInOrder
  /\ Registered /\ ErasedCalled /\ Drained
  /\ OnItsWay /\ Ordered

-----------------------------------------------------------------------------
(* The queues.                                                             *)

(* The queue without its head.                                             *)
LEMMA TailOrder ==
  ASSUME NEW S, NEW q \in Seq(S), q # <<>>, NEW u, NEW v, u # v
  PROVE  /\ In(q, u) => q[1] = u \/ In(Tail(q), u)
         /\ Ahead(q, u, v) => q[1] # v /\ (q[1] = u \/ Ahead(Tail(q), u, v))
<1>1. /\ 1 \in 1..Len(q) /\ Len(q) \in Nat /\ Len(Tail(q)) = Len(q) - 1
      /\ \A i \in 1..Len(Tail(q)) : i + 1 \in 1..Len(q) /\ Tail(q)[i] = q[i + 1]
  BY TailElements, HeadTailProperties
<1>2. \A i \in 1..Len(q) : i # 1 => i - 1 \in 1..Len(Tail(q)) /\ Tail(q)[i - 1] = q[i]
  BY <1>1
<1>3. In(q, u) => q[1] = u \/ In(Tail(q), u)
  BY <1>1, <1>2 DEF In
<1>4. ASSUME Ahead(q, u, v) PROVE q[1] # v
  BY <1>1, <1>4 DEF Ahead
<1>5. ASSUME Ahead(q, u, v), q[1] # u, NEW i \in 1..Len(Tail(q)), Tail(q)[i] = v
      PROVE  \E j \in 1..Len(Tail(q)) : j < i /\ Tail(q)[j] = u
  <2>1. PICK j \in 1..Len(q) : j < i + 1 /\ q[j] = u
    BY <1>1, <1>5 DEF Ahead
  <2> QED
    BY <1>2, <1>5, <2>1
<1> QED
  BY <1>3, <1>4, <1>5 DEF Ahead

(* The queue with one element more.                                        *)
LEMMA AppendOrder ==
  ASSUME NEW S, NEW q \in Seq(S), NEW e \in S, NEW u, NEW v
  PROVE  /\ In(q, u) \/ e = u => In(Append(q, e), u)
         /\ Ahead(q, u, v) /\ (e = v => In(q, u)) => Ahead(Append(q, e), u, v)
<1>1. /\ Len(Append(q, e)) = Len(q) + 1 /\ Len(q) \in Nat
      /\ \A i \in 1..Len(q) : Append(q, e)[i] = q[i]
      /\ Append(q, e)[Len(q) + 1] = e
  BY AppendElements
<1>2. In(q, u) \/ e = u => In(Append(q, e), u)
  BY <1>1 DEF In
<1>3. ASSUME Ahead(q, u, v), e = v => In(q, u),
             NEW i \in 1..Len(Append(q, e)), Append(q, e)[i] = v
      PROVE  \E j \in 1..Len(Append(q, e)) : j < i /\ Append(q, e)[j] = u
  <2>1. CASE i \in 1..Len(q)
    BY <1>1, <1>3, <2>1 DEF Ahead
  <2>2. CASE i = Len(q) + 1
    BY <1>1, <1>3, <2>2 DEF In
  <2> QED
    BY <1>1, <2>1, <2>2
<1> QED
  BY <1>2, <1>3 DEF Ahead

(* A queue without v.                                                      *)
LEMMA AbsentOrder ==
  ASSUME NEW q, NEW u, NEW v, ~In(q, v)
  PROVE  Ahead(q, u, v)
  BY DEF In, Ahead

-----------------------------------------------------------------------------
(* What a step may change.                                                 *)

(* What a step that is not one of the named ones leaves alone.             *)
LEMMA WhatElseMoves ==
  ASSUME [Next]_vars
  PROVE  /\ UNCHANGED <<timestamp, uid, made, kind>> \/ \E t \in Threads : Call(t)
         /\ \/ UNCHANGED <<m_cb, g_cbid>>
            \/ \E t \in Threads : Register(t) \/ Cancel(t)
            \/ Erase \/ DrainEnd
         /\ UNCHANGED <<stop>> \/ StopBegin
         /\ UNCHANGED <<srv>> \/ ServerExits \/ ServerDisconnects
         /\ UNCHANGED <<wpc, wtodo, notified>> \/ Worker
<1> USE DEF Call, ThreadStep, Register, WriteOk, WriteFails, WriteNull, Written, Cancel, WakeUp,
        StopBegin, StopEnd, workerFrame, clientFrame, threadVars, tableVars, stopVars,
        workerVars, pipeVars, userVars
<1>1. ASSUME NEW t \in Threads, Call(t) \/ ThreadStep(t)
      PROVE  /\ UNCHANGED <<stop, srv, wpc, wtodo, notified>>
             /\ UNCHANGED <<timestamp, uid, made, kind>> \/ Call(t)
             /\ UNCHANGED <<m_cb, g_cbid>> \/ Register(t) \/ Cancel(t)
  BY <1>1
<1>2. CASE StopBegin \/ StopEnd
  BY <1>2
<1>3. CASE Worker
  <2>1. UNCHANGED <<timestamp, uid, made, kind, stop, srv>>
    BY <1>3
       DEF Worker, Top, Issue, ReadError, Timeout, Header, HeaderError, Body,
           Message,
       Erase, DrainLock, DrainOne, DrainEnd, Final
  <2>2. UNCHANGED <<m_cb, g_cbid>> \/ Erase \/ DrainEnd
    BY <1>3
       DEF Worker, Top, Issue, ReadError, Timeout, Header, HeaderError, Body,
           Message,
       DrainLock, DrainOne, Final
  <2> QED
    BY <1>3, <2>1, <2>2
<1>4. CASE Server \/ ServerExits \/ ServerDisconnects
  BY <1>4 DEF Server, ServerTake, ServerReply, ServerExits, ServerDisconnects
<1>5. CASE UNCHANGED vars
  BY <1>5 DEF vars
<1> QED
  BY <1>1, <1>2, <1>3, <1>4, <1>5 DEF Next

(* Who moves the calls along their way.                                    *)
LEMMA WhoDelivers ==
  ASSUME NothingUnread, [Next]_vars
  PROVE  \/ /\ UNCHANGED <<toServer, toClient, serving>>
            /\ \A x \in Uids : InRbuf(x)' <=> InRbuf(x)
         \/ \E t \in Threads : WriteOk(t)
         \/ ServerTake \/ ServerReply \/ ServerExits \/ ServerDisconnects
         \/ Body \/ Message
<1>1. CASE UNCHANGED <<m_rop, rbuf>>
  BY <1>1, WhatMoves DEF InRbuf
<1>2. CASE Issue \/ Header \/ HeaderError \/ Erase
  <2>1. UNCHANGED <<toServer, toClient, serving>>
    BY <1>2 DEF Issue, Header, HeaderError, Erase, pipeVars
  <2>2. m_rop # "msg" /\ m_rop' # "msg"
    BY <1>2 DEF Issue, Header, HeaderError, Erase, NothingUnread
  <2> QED
    BY <2>1, <2>2 DEF InRbuf
<1> QED
  BY <1>1, <1>2, WhatMoves

(* An unsettled call was unsettled before, unless it was just made.        *)
LEMMA UnsettledBefore ==
  ASSUME TypeOK, SafetyInv, [Next]_vars, NEW u \in Uids, u <= timestamp, Unsettled(u)'
  PROVE  Unsettled(u)
<1>1. /\ timestamp \in Nat /\ ret \in [Uids -> {"none", "true", "false"}]
      /\ uid \in [Threads -> 0..MaxCalls] /\ kind \in [Uids -> AllKinds]
      /\ invoked \in [Uids -> Nat] /\ wtodo \subseteq Uids
  BY ClientAssumption DEF TypeOK, ThreadTypes, UserTypes, WorkerTypes
<1>2. OwnCbid(u)
  <2>1. kind'[u] = kind[u]
    <3>1. ASSUME NEW t \in Threads, Call(t) PROVE kind'[u] = kind[u]
      <4>1. PICK k \in Kinds : kind' = [kind EXCEPT ![timestamp + 1] = k]
        BY <3>1 DEF Call
      <4>2. u # timestamp + 1
        BY <1>1
      <4> QED
        BY <1>1, <4>1, <4>2
    <3> QED
      BY <3>1, WhatElseMoves
  <2> QED
    BY <2>1 DEF Unsettled, OwnCbid
<1>3. invoked[u] = 0
  <2>1. ASSUME NEW d \in Uids, invoked' = [invoked EXCEPT ![d] = @ + 1]
        PROVE  invoked[u] = 0
    <3>1. CASE u = d
      BY <1>1, <2>1, <3>1 DEF Unsettled
    <3> QED
      BY <1>1, <2>1, <3>1 DEF Unsettled
  <2>2. CASE Message
    BY <2>1, <2>2 DEF Message, Unsettled, userVars, TypeOK, TableTypes
  <2>3. CASE DrainOne
    BY <1>1, <2>1, <2>3 DEF DrainOne
  <2> QED
    BY <2>2, <2>3, WhatMoves DEF Unsettled
<1>4. ret[u] # "false"
  <2>1. ASSUME NEW t \in Threads, Call(t) PROVE ret' = ret
    BY <2>1 DEF Call
  <2>2. ASSUME NEW t \in Threads, ThreadStep(t) PROVE ret[u] # "false"
    <3>1. CASE ret' = ret
      BY <3>1 DEF Unsettled
    <3>2. CASE ret' # ret
      <4>1. Busy(t) /\ \E r \in {"none", "true", "false"} : ret' = [ret EXCEPT ![uid[t]] = r]
        BY <1>1, <2>2, <3>2
           DEF ThreadStep, Register, WriteOk, WriteFails, WriteNull, Written, Cancel, WakeUp,
           threadVars, Busy
      <4>2. ret[uid[t]] = "none"
        BY <4>1 DEF SafetyInv, OneCallPerThread
      <4> QED
        BY <1>1, <4>1, <4>2 DEF Unsettled
    <3> QED
      BY <3>1, <3>2
  <2> QED
    BY <2>1, <2>2, WhatMoves DEF Unsettled
<1> QED
  BY <1>2, <1>3, <1>4 DEF Unsettled

(* What was called stays called.                                           *)
LEMMA CalledStays ==
  ASSUME TypeOK, [Next]_vars, NEW u \in Uids, invoked[u] > 0
  PROVE  invoked'[u] > 0
<1>1. invoked \in [Uids -> Nat] /\ wtodo \subseteq Uids /\ m_cb \subseteq Uids
  BY DEF TypeOK, UserTypes, WorkerTypes, TableTypes
<1>2. ASSUME NEW d \in Uids, invoked' = [invoked EXCEPT ![d] = @ + 1]
      PROVE  invoked'[u] > 0
  <2>1. invoked'[u] = invoked[u] \/ invoked'[u] = invoked[u] + 1
    BY <1>1, <1>2
  <2> QED
    BY <1>1, <2>1
<1>3. CASE Message
  BY <1>1, <1>2, <1>3 DEF Message, userVars
<1>4. CASE DrainOne
  BY <1>1, <1>2, <1>4 DEF DrainOne
<1> QED
  BY <1>3, <1>4, WhatMoves

-----------------------------------------------------------------------------
(* Every step keeps the invariant.                                         *)

(* The books about who made which call.                                    *)
LEMMA MadeStep ==
  ASSUME TypeOK, SafetyInv, GlobalId, MadeInOrder, [Next]_vars
  PROVE  GlobalId' /\ MadeInOrder'
<1>1. /\ timestamp \in 0..MaxCalls
      /\ pc \in [Threads -> ThreadPcs] /\ uid \in [Threads -> 0..MaxCalls]
      /\ made \in [Threads -> SUBSET Uids] /\ kind \in [Uids -> AllKinds] /\ g_cbid \in 0..MaxCalls
      /\ MaxCalls \in Nat
  BY ClientAssumption DEF TypeOK, ThreadTypes, TableTypes
<1>2. ASSUME NEW t \in Threads, Call(t) PROVE GlobalId' /\ MadeInOrder'
  <2>1. PICK n \in Uids : /\ n = timestamp + 1 /\ timestamp' = n
                          /\ uid' = [uid EXCEPT ![t] = n]
                          /\ made' = [made EXCEPT ![t] = @ \union {n}]
                          /\ \E k \in Kinds : kind' = [kind EXCEPT ![n] = k]
                          /\ \A s \in Threads \ {t} : pc'[s] = pc[s]
                          /\ g_cbid' = g_cbid
    <3>1. timestamp + 1 \in Uids /\ g_cbid' = g_cbid
      BY <1>1, <1>2 DEF Call, Uids, tableVars
    <3>2. \A s \in Threads \ {t} : pc'[s] = pc[s]
      BY <1>1, <1>2 DEF Call
    <3> QED
      BY <1>2, <3>1, <3>2 DEF Call
  <2>2. GlobalId'
    <3>1. CASE g_cbid = 0
      BY <2>1, <3>1 DEF GlobalId
    <3>2. CASE g_cbid # 0
      <4>1. g_cbid \in Uids \ {n} /\ g_cbid <= timestamp' /\ kind[g_cbid] = "async"
        BY <1>1, <2>1, <3>2 DEF GlobalId, Uids
      <4>2. kind'[g_cbid] = "async"
        BY <1>1, <2>1, <4>1
      <4> QED
        BY <2>1, <4>1, <4>2 DEF GlobalId
    <3> QED
      BY <3>1, <3>2
  <2>3. made'[t] = made[t] \union {n} /\ \A s \in Threads \ {t} : made'[s] = made[s]
    BY <1>1, <2>1
  <2>4. \A s \in Threads : \A u \in made[s] : u <= timestamp /\ u \in Nat
    BY <1>1 DEF MadeInOrder, Uids
  <2>5. ASSUME NEW s \in Threads
        PROVE  /\ \A u \in made'[s] : u <= uid'[s] /\ u <= timestamp'
               /\ Busy(s)' => uid'[s] \in made'[s]
               /\ \A r \in Threads : r # s => made'[r] \cap made'[s] = {}
    <3>1. \A u \in made'[s] : u <= uid'[s] /\ u <= timestamp'
      BY <1>1, <2>1, <2>3, <2>4 DEF MadeInOrder, Uids
    <3>2. Busy(s)' => uid'[s] \in made'[s]
      BY <1>1, <2>1, <2>3 DEF MadeInOrder, Busy
    <3>3. \A r \in Threads : n \notin made[r]
      BY <1>1, <2>1, <2>4
    <3>4. \A r \in Threads : r # s => made'[r] \cap made'[s] = {}
      BY <2>3, <3>3 DEF MadeInOrder
    <3> QED
      BY <3>1, <3>2, <3>4
  <2> QED
    BY <2>2, <2>5 DEF MadeInOrder
<1>3. CASE UNCHANGED <<timestamp, uid, made, kind>>
  <2>1. GlobalId'
    <3>1. ASSUME NEW t \in Threads, Register(t) PROVE GlobalId'
      <4>1. g_cbid' = (IF kind[uid[t]] = "async" THEN uid[t] ELSE g_cbid) /\ uid[t] <= timestamp
        BY <3>1, BusyUid DEF Register, Busy, SafetyInv
      <4> QED
        BY <1>3, <4>1 DEF GlobalId
    <3>2. CASE g_cbid' = g_cbid
      BY <1>3, <3>2 DEF GlobalId
    <3>3. ASSUME NEW t \in Threads, Cancel(t) PROVE g_cbid' = g_cbid
      BY <3>3 DEF Cancel
    <3>4. CASE Erase \/ DrainEnd
      BY <3>2, <3>4 DEF Erase, DrainEnd
    <3> QED
      BY <3>1, <3>2, <3>3, <3>4, WhatElseMoves
  <2>2. ASSUME NEW s \in Threads, Busy(s)' PROVE Busy(s)
    <3>1. ASSUME NEW t \in Threads, ThreadStep(t)
          PROVE  pc[t] # "idle" /\ \A r \in Threads \ {t} : pc'[r] = pc[r]
      BY <1>1, <3>1
         DEF ThreadStep, Register, WriteOk, WriteFails, WriteNull, Written,
             Cancel, WakeUp,
         threadVars
    <3>2. ASSUME NEW t \in Threads, Call(t) PROVE FALSE
      BY <1>1, <1>3, <3>2 DEF Call
    <3> QED
      BY <2>2, <3>1, <3>2, WhatMoves DEF Busy
  <2>3. MadeInOrder'
    BY <1>3, <2>2 DEF MadeInOrder
  <2> QED
    BY <2>1, <2>3
<1> QED
  BY <1>2, <1>3, WhatElseMoves

(* What the worker leaves behind in m_cb was called.                       *)
LEMMA CalledStep ==
  ASSUME TypeOK, SafetyInv, ErasedCalled, Drained, [Next]_vars
  PROVE  ErasedCalled' /\ Drained'
<1>1. /\ m_cb \subseteq Uids /\ invoked \in [Uids -> Nat] /\ wtodo \subseteq Uids
      /\ LockHeld
  BY DEF TypeOK, UserTypes, WorkerTypes, TableTypes, SafetyInv
<1>2. \A u \in Uids : invoked[u] > 0 => invoked'[u] > 0
  BY CalledStays
<1>3. CASE Message
  <2>1. wpc' # "drain"
    BY <1>3 DEF Message
  <2>2. rbuf \in m_cb => rbuf' = rbuf /\ invoked'[rbuf] = invoked[rbuf] + 1
    BY <1>1, <1>3 DEF Message
  <2>3. wpc' = "erase" => rbuf \in m_cb
    BY <1>3 DEF Message
  <2> QED
    BY <1>1, <2>1, <2>2, <2>3 DEF ErasedCalled, Drained
<1>4. CASE DrainOne
  <2>1. /\ wpc = "drain" /\ wpc' = "drain" /\ m_cb' = m_cb
        /\ \E d \in wtodo : invoked' = [invoked EXCEPT ![d] = @ + 1] /\ wtodo' = wtodo \ {d}
    BY <1>4 DEF DrainOne, tableVars
  <2>2. PICK d \in wtodo : invoked' = [invoked EXCEPT ![d] = @ + 1] /\ wtodo' = wtodo \ {d}
    BY <2>1
  <2>3. invoked'[d] > 0
    BY <1>1, <2>2
  <2> QED
    BY <1>1, <1>2, <2>1, <2>2, <2>3 DEF ErasedCalled, Drained
<1>5. CASE DrainLock
  BY <1>5 DEF DrainLock, ErasedCalled, Drained
<1>6. CASE Worker /\ ~Message /\ ~DrainOne /\ ~DrainLock
  <2>1. (wpc' = "drain" \/ wpc' = "erase") => UNCHANGED <<wpc, m_cb, wtodo, rbuf, invoked>>
    BY <1>6
       DEF Worker, Top, Issue, ReadError, Timeout, Header, HeaderError, Body,
           Erase, DrainEnd,
       Final, tableVars, workerVars, userVars
  <2> QED
    BY <2>1 DEF ErasedCalled, Drained
<1>7. CASE ~Worker
  <2>1. UNCHANGED <<wpc, wtodo, rbuf, invoked>>
    BY <1>7, WhatElseMoves, WhatMoves DEF Worker
  <2>2. wpc = "drain" => m_cb' \subseteq m_cb
    <3>1. ASSUME NEW t \in Threads, Register(t) PROVE wpc # "drain"
      BY <1>1, <3>1 DEF Register, LockHeld
    <3>2. ASSUME NEW t \in Threads, Cancel(t) PROVE m_cb' \subseteq m_cb
      BY <3>2 DEF Cancel
    <3> QED
      BY <1>7, <3>1, <3>2, WhatElseMoves DEF Worker
  <2> QED
    BY <2>1, <2>2 DEF ErasedCalled, Drained
<1> QED
  BY <1>3, <1>4, <1>5, <1>6, <1>7

(* An unsettled call keeps its entry.                                      *)
LEMMA RegisteredStep ==
  ASSUME OrderInv, [Next]_vars
  PROVE  Registered'
<1>1. /\ TypeOK /\ SafetyInv /\ GlobalId /\ Registered /\ ErasedCalled /\ Drained
      /\ timestamp \in Nat /\ pc \in [Threads -> ThreadPcs] /\ uid \in [Threads -> 0..MaxCalls]
      /\ kind \in [Uids -> AllKinds] /\ invoked \in [Uids -> Nat]
      /\ ret \in [Uids -> {"none", "true", "false"}] /\ m_cb \subseteq Uids
  BY ClientAssumption
     DEF OrderInv, ContractInv, TypeOK, ThreadTypes, UserTypes, TableTypes
<1> SUFFICES ASSUME NEW u \in Uids, u <= timestamp', Unsettled(u)', u \notin m_cb'
             PROVE  \E t \in Threads : uid'[t] = u /\ pc'[t] = "register"
  BY DEF Registered
<1>2. CASE u > timestamp
  <2>1. PICK t \in Threads : Call(t)
    BY <1>1, <1>2, WhatElseMoves DEF Uids
  <2>2. /\ u = timestamp + 1 /\ uid'[t] = u
        /\ \E k \in Kinds : /\ kind'[u] = k
                            /\ pc'[t] = IF k = "oneway" THEN "write" ELSE "register"
    BY <1>1, <1>2, <2>1 DEF Call, Uids
  <2>3. kind'[u] # "oneway"
    BY DEF Unsettled, OwnCbid
  <2> QED
    BY <2>2, <2>3
<1>3. CASE u <= timestamp
  <2>1. Unsettled(u)
    BY <1>1, <1>3, UnsettledBefore
  <2>2. CASE u \in m_cb
    <3>1. ASSUME NEW t \in Threads, Cancel(t) PROVE FALSE
      <4>1. /\ m_cb' = m_cb \ {CancelId(uid[t])} /\ ret'[u] # "false"
            /\ ret' = [ret EXCEPT ![uid[t]] = "false"] /\ kind' = kind
        BY <3>1 DEF Cancel, Unsettled
      <4>2. u # uid[t]
        BY <1>1, <4>1
      <4>3. u = CancelId(uid[t])
        BY <2>2, <4>1
      <4>4. u = g_cbid /\ u # 0 /\ kind[u] = "async"
        BY <1>1, <4>2, <4>3 DEF CancelId, GlobalId, Uids
      <4> QED
        BY <2>1, <4>4 DEF Unsettled, OwnCbid
    <3>2. CASE Erase
      <4>1. u = rbuf /\ invoked[rbuf] > 0
        BY <1>1, <2>2, <3>2 DEF Erase, ErasedCalled
      <4> QED
        BY <2>1, <4>1 DEF Unsettled
    <3>3. CASE DrainEnd
      <4>1. invoked[u] > 0
        BY <1>1, <2>2, <3>3 DEF DrainEnd, Drained
      <4> QED
        BY <2>1, <4>1 DEF Unsettled
    <3>4. ASSUME NEW t \in Threads, Register(t) PROVE FALSE
      BY <2>2, <3>4 DEF Register
    <3> QED
      BY <2>2, <3>1, <3>2, <3>3, <3>4, WhatElseMoves
  <2>3. CASE u \notin m_cb
    <3>1. PICK t \in Threads : uid[t] = u /\ pc[t] = "register"
      BY <1>1, <1>3, <2>1, <2>3 DEF Registered
    <3>2. ~Register(t)
      BY <3>1 DEF Register
    <3>3. uid'[t] = uid[t] /\ pc'[t] = pc[t]
      <4>1. ASSUME NEW s \in Threads, Call(s) PROVE uid'[t] = uid[t] /\ pc'[t] = pc[t]
        BY <1>1, <3>1, <4>1 DEF Call
      <4>2. ASSUME NEW s \in Threads, ThreadStep(s)
            PROVE  uid'[t] = uid[t] /\ pc'[t] = pc[t]
        BY <1>1, <3>1, <3>2, <4>2
           DEF ThreadStep, Register, WriteOk, WriteFails, WriteNull, Written,
           Cancel, WakeUp, threadVars
      <4> QED
        BY <4>1, <4>2, WhatMoves
    <3> QED
      BY <3>1, <3>3
  <2> QED
    BY <2>2, <2>3
<1> QED
  BY <1>1, <1>2, <1>3 DEF Uids

(* Only what was sent is on its way.                                       *)
LEMMA TravellersSent ==
  ASSUME ContractInv, NEW u \in Uids,
         InRbuf(u) \/ In(toClient, u) \/ serving = u \/ In(toServer, u)
  PROVE  Sent(u)
<1>1. CASE In(toServer, u)
  BY <1>1 DEF In, ContractInv, RequestsOnce
<1>2. CASE InRbuf(u) \/ In(toClient, u) \/ serving = u
  <2>1. executed[u] = 1
    BY <1>2 DEF In, InRbuf, ContractInv, RepliesAreEarned, Uids
  <2> QED
    BY <2>1 DEF ContractInv, ExecutedOnce
<1> QED
  BY <1>1, <1>2

(* A request is sent by the write of the thread that makes the call.       *)
LEMMA NewlySent ==
  ASSUME TypeOK, SafetyInv, [Next]_vars, NEW u \in Uids, Unsettled(u), Sent(u)', ~Sent(u)
  PROVE  \E t \in Threads : WriteOk(t) /\ uid[t] = u
<1>1. /\ timestamp \in Nat /\ pc \in [Threads -> ThreadPcs] /\ uid \in [Threads -> 0..MaxCalls]
      /\ ret \in [Uids -> {"none", "true", "false"}]
  BY ClientAssumption DEF TypeOK, ThreadTypes
<1>2. u \in 1..timestamp
  <2>1. ASSUME NEW t \in Threads, Call(t) PROVE u # timestamp + 1
    <3>1. uid'[t] = timestamp + 1 /\ pc'[t] \in {"write", "register"}
      BY <1>1, <2>1 DEF Call
    <3> QED
      BY <3>1 DEF Sent, Sending
  <2> QED
    BY <1>1, <2>1, WhatElseMoves DEF Sent, Call
<1>3. PICK t \in Threads : uid[t] = u /\ Sending(t)
  BY <1>2 DEF Sent, Unsettled
<1>4. uid'[t] # u \/ ~Sending(t)'
  BY DEF Sent
<1>5. ASSUME NEW s \in Threads, Call(s) PROVE FALSE
  <2>1. s # t
    BY <1>3, <1>5 DEF Call, Sending
  <2>2. uid'[t] = uid[t] /\ pc'[t] = pc[t]
    BY <1>1, <1>5, <2>1 DEF Call
  <2> QED
    BY <1>3, <1>4, <2>2 DEF Sending
<1>6. ASSUME NEW s \in Threads, ThreadStep(s) PROVE s = t
  <2>1. s # t => uid'[t] = uid[t] /\ pc'[t] = pc[t]
    BY <1>1, <1>6
       DEF ThreadStep, Register, WriteOk, WriteFails, WriteNull, Written, Cancel,
       WakeUp, threadVars
  <2> QED
    BY <1>3, <1>4, <2>1 DEF Sending
<1>7. ThreadStep(t)
  BY <1>3, <1>4, <1>5, <1>6, WhatMoves DEF Sending
<1>8. ~Register(t) /\ ~WriteFails(t) /\ ~WriteNull(t)
  BY <1>1, <1>3, <1>4 DEF Register, WriteFails, WriteNull, threadVars, Sending
<1>9. ~Written(t) /\ ~WakeUp(t)
  BY <1>3 DEF Written, WakeUp, Sending
<1>10. ~Cancel(t)
  BY <1>1, <1>3 DEF Cancel, Sent
<1> QED
  BY <1>3, <1>7, <1>8, <1>9, <1>10 DEF ThreadStep

(* The call whose reply the worker looks up is settled by that.            *)
LEMMA LookedUp ==
  ASSUME OrderInv, Message, rbuf \in Uids
  PROVE  ~Unsettled(rbuf) \/ invoked'[rbuf] > 0
<1>1. CASE rbuf \in m_cb
  <2>1. invoked' = [invoked EXCEPT ![rbuf] = @ + 1] /\ invoked \in [Uids -> Nat]
    BY <1>1 DEF Message, OrderInv, ContractInv, TypeOK, UserTypes
  <2> QED
    BY <2>1
<1>2. CASE rbuf \notin m_cb
  <2>1. Sent(rbuf)
    BY TravellersSent DEF Message, InRbuf, OrderInv
  <2>2. rbuf <= timestamp /\ ~\E t \in Threads : uid[t] = rbuf /\ pc[t] = "register"
    BY <2>1 DEF Sent, Sending
  <2> QED
    BY <1>2, <2>2 DEF OrderInv, Registered
<1> QED
  BY <1>1, <1>2

(* An unsettled call that was sent stays on its way.                       *)
LEMMA OnItsWayStep ==
  ASSUME OrderInv, [Next]_vars
  PROVE  OnItsWay'
<1>1. /\ TypeOK /\ SafetyInv /\ BodyThere /\ OnItsWay /\ NothingUnread /\ ContractInv
      /\ timestamp \in Nat /\ toServer \in Seq(Uids) /\ toClient \in Seq(Uids)
      /\ uid \in [Threads -> 0..MaxCalls] /\ serving \in 0..MaxCalls
      /\ invoked \in [Uids -> Nat]
  BY ClientAssumption
     DEF OrderInv, ContractInv, SafetyInv, TypeOK, ThreadTypes, PipeTypes,
         UserTypes
<1> SUFFICES ASSUME srv' = "open", NEW u \in Uids, Sent(u)', Unsettled(u)'
             PROVE  InRbuf(u)' \/ In(toClient', u) \/ serving' = u \/ In(toServer', u)
  BY DEF OnItsWay, In
<1>2. srv = "open" /\ ~ServerExits /\ ~ServerDisconnects
  BY WhatElseMoves DEF ServerExits, ServerDisconnects
<1>3. u <= timestamp
  <2>1. ASSUME NEW t \in Threads, Call(t)
        PROVE  timestamp' = timestamp + 1 /\ u # timestamp + 1
    <3>1. uid'[t] = timestamp + 1 /\ pc'[t] \in {"write", "register"} /\ timestamp' = timestamp + 1
      BY <1>1, <2>1 DEF Call, TypeOK, ThreadTypes
    <3> QED
      BY <3>1 DEF Sent, Sending
  <2>2. timestamp' = timestamp \/ (timestamp' = timestamp + 1 /\ u # timestamp + 1)
    BY <2>1, WhatElseMoves
  <2>3. u \in 1..timestamp'
    BY DEF Sent
  <2> QED
    BY <1>1, <2>2, <2>3
<1>4. Unsettled(u)
  BY <1>1, <1>3, UnsettledBefore
<1>5. CASE ~Sent(u)
  <2>1. PICK t \in Threads : WriteOk(t) /\ uid[t] = u
    BY <1>1, <1>4, <1>5, NewlySent
  <2>2. toServer' = Append(toServer, u)
    BY <2>1 DEF WriteOk
  <2> QED
    BY <1>1, <2>2, AppendOrder
<1>6. CASE Sent(u)
  <2>1. InRbuf(u) \/ In(toClient, u) \/ serving = u \/ In(toServer, u)
    BY <1>1, <1>2, <1>4, <1>6 DEF OnItsWay
  <2>2. ASSUME NEW t \in Threads, WriteOk(t)
        PROVE  InRbuf(u)' \/ In(toClient', u) \/ serving' = u \/ In(toServer', u)
    <3>1. /\ toServer' = Append(toServer, uid[t]) /\ toClient' = toClient /\ serving' = serving
          /\ InRbuf(u)' <=> InRbuf(u)
      BY <2>2 DEF WriteOk, InRbuf, workerVars
    <3>2. uid[t] \in Uids
      BY <1>1, <2>2, SendersDiffer DEF WriteOk, Sending
    <3> QED
      BY <1>1, <2>1, <3>1, <3>2, AppendOrder
  <2>3. CASE ServerTake
    <3>1. /\ serving = 0 /\ toServer # <<>> /\ serving' = toServer[1] /\ toServer' = Tail(toServer)
          /\ toClient' = toClient /\ (InRbuf(u)' <=> InRbuf(u))
      BY <1>1, <2>3, TailElements DEF ServerTake, InRbuf, clientFrame, workerVars
    <3>2. In(toServer, u) => toServer[1] = u \/ In(Tail(toServer), u)
      BY <1>1, <3>1, TailElements, TailOrder, u # 0 DEF Uids
    <3> QED
      BY <2>1, <3>1, <3>2 DEF Uids
  <2>4. CASE ServerReply
    <3>1. /\ toClient' = Append(toClient, serving) /\ toServer' = toServer
          /\ serving \in Uids /\ (InRbuf(u)' <=> InRbuf(u))
      BY <1>1, <2>4, ClientAssumption
         DEF ServerReply, InRbuf, clientFrame, workerVars, Uids
    <3> QED
      BY <1>1, <2>1, <3>1, AppendOrder
  <2>5. CASE Body
    <3>1. /\ toClient # <<>> /\ rbuf' = toClient[1] /\ m_rop' = "msg" /\ toClient' = Tail(toClient)
          /\ toServer' = toServer /\ serving' = serving /\ ~InRbuf(u)
      BY <1>1, <1>2, <2>5, TailElements
         DEF Body, is_connected, BodyThere, NothingUnread, InRbuf
    <3>2. In(toClient, u) => toClient[1] = u \/ In(Tail(toClient), u)
      BY <1>1, <3>1, TailElements, TailOrder, u # 0 DEF Uids
    <3> QED
      BY <2>1, <3>1, <3>2 DEF InRbuf
  <2>6. CASE Message
    <3>1. UNCHANGED <<toServer, toClient, serving>>
      BY <2>6 DEF Message, pipeVars
    <3>2. ~InRbuf(u)
      BY <1>4, <2>6, LookedUp DEF InRbuf, Unsettled
    <3> QED
      BY <2>1, <3>1, <3>2
  <2>7. CASE /\ UNCHANGED <<toServer, toClient, serving>>
             /\ \A x \in Uids : InRbuf(x)' <=> InRbuf(x)
    BY <2>1, <2>7
  <2> QED
    BY <1>1, <1>2, <2>2, <2>3, <2>4, <2>5, <2>6, <2>7, WhoDelivers
<1> QED
  BY <1>5, <1>6

(* A thread writes the request of a call after those of its earlier calls. *)
LEMMA EarlierSent ==
  ASSUME OrderInv, NEW t \in Threads, NEW u \in made[t], Unsettled(u),
         NEW s \in Threads, Sending(s), uid[s] \in made[t], u < uid[s]
  PROVE  Sent(u)
<1>1. /\ TypeOK /\ MadeInOrder /\ made \in [Threads -> SUBSET Uids]
      /\ uid \in [Threads -> 0..MaxCalls] /\ timestamp \in Nat /\ MaxCalls \in Nat
  BY ClientAssumption DEF OrderInv, ContractInv, TypeOK, ThreadTypes
<1>2. \A r \in Threads : Sending(r) => Busy(r)
  BY DEF Sending, Busy
<1>3. \A r \in Threads : \A x \in made[t] : x \in made[r] => r = t
  BY <1>1 DEF MadeInOrder
<1>4. s = t
  BY <1>1, <1>2, <1>3 DEF MadeInOrder
<1>5. ASSUME NEW r \in Threads, uid[r] = u, Sending(r) PROVE FALSE
  <2>1. r = t
    BY <1>1, <1>2, <1>3, <1>5 DEF MadeInOrder
  <2> QED
    BY <1>1, <1>4, <1>5, <2>1
<1>6. u \in 1..timestamp
  <2>1. u \in Uids /\ u <= timestamp
    BY <1>1 DEF MadeInOrder
  <2> QED
    BY <1>1, <2>1, ClientAssumption DEF Uids
<1> QED
  BY <1>5, <1>6 DEF Sent, Unsettled

(* The final loop calls no later call of a thread before an unsettled one. *)
LEMMA DrainInOrder ==
  ASSUME OrderInv, wpc = "drain", NEW t \in Threads, NEW u \in made[t], NEW v \in made[t],
         u < v, Unsettled(u), v \in wtodo, \A w \in wtodo : v <= w
  PROVE  FALSE
<1>1. /\ TypeOK /\ MadeInOrder /\ Drained /\ Registered /\ made \in [Threads -> SUBSET Uids]
      /\ u \in Uids /\ v \in Uids /\ invoked \in [Uids -> Nat]
  BY DEF OrderInv, ContractInv, TypeOK, ThreadTypes, UserTypes
<1>2. CASE u \in m_cb
  <2>1. u \in wtodo
    BY <1>1, <1>2 DEF Drained, Unsettled
  <2> QED
    BY <1>1, <2>1 DEF Uids
<1>3. CASE u \notin m_cb
  <2>1. PICK s \in Threads : uid[s] = u /\ pc[s] = "register"
    BY <1>1, <1>3 DEF MadeInOrder, Registered
  <2>2. u \in made[s]
    BY <1>1, <2>1 DEF MadeInOrder, Busy
  <2>3. s = t
    BY <1>1, <2>2 DEF MadeInOrder
  <2>4. v <= u
    BY <1>1, <2>1, <2>3 DEF MadeInOrder
  <2> QED
    BY <1>1, <2>4 DEF Uids
<1> QED
  BY <1>2, <1>3

(* A later call of the same thread stays behind an unsettled one.          *)
LEMMA BehindStep ==
  ASSUME OrderInv, [Next]_vars, NEW t \in Threads, NEW u \in made[t], NEW v \in made[t], u < v,
         Unsettled(u), Unsettled(u)'
  PROVE  Behind(u, v)'
<1>1. /\ TypeOK /\ SafetyInv /\ BodyThere /\ OnItsWay /\ NothingUnread /\ ContractInv
      /\ toServer \in Seq(Uids) /\ toClient \in Seq(Uids) /\ uid \in [Threads -> 0..MaxCalls]
      /\ serving \in 0..MaxCalls /\ rbuf \in 0..MaxCalls /\ invoked \in [Uids -> Nat]
      /\ m_cb \subseteq Uids /\ wtodo \subseteq Uids
  BY DEF OrderInv, ContractInv, SafetyInv, TypeOK, ThreadTypes, PipeTypes, UserTypes,
     TableTypes, WorkerTypes
<1>2. u \in Uids /\ v \in Uids /\ u # v /\ u # 0 /\ v # 0
  BY <1>1 DEF TypeOK, ThreadTypes, Uids
<1>3. Behind(u, v)
  BY DEF OrderInv, Ordered
<1>4. invoked'[v] = 0
  <2>1. CASE Message
    <3>1. v # rbuf
      BY <1>3, <2>1 DEF Message, Behind, InRbuf
    <3>2. invoked' = invoked \/ invoked' = [invoked EXCEPT ![rbuf] = @ + 1]
      BY <2>1 DEF Message, userVars
    <3> QED
      BY <1>1, <1>2, <1>3, <3>1, <3>2 DEF Behind
  <2>2. CASE DrainOne
    <3>1. PICK d \in wtodo : /\ \A w \in wtodo : d <= w
                             /\ invoked' = [invoked EXCEPT ![d] = @ + 1]
      BY <2>2 DEF DrainOne
    <3>2. d # v
      BY <2>2, <3>1, DrainInOrder DEF DrainOne
    <3> QED
      BY <1>1, <1>2, <1>3, <3>1, <3>2 DEF Behind
  <2> QED
    BY <1>3, <2>1, <2>2, WhatMoves DEF Behind
<1>5. ASSUME NEW s \in Threads, WriteOk(s) PROVE Behind(u, v)'
  <2>1. /\ toServer' = Append(toServer, uid[s]) /\ toClient' = toClient /\ serving' = serving
        /\ srv = "open" /\ Sending(s)
        /\ \A x \in Uids : InRbuf(x)' <=> InRbuf(x)
    BY <1>5 DEF WriteOk, InRbuf, workerVars, Sending
  <2>2. uid[s] \in Uids
    BY <1>1, <2>1, SendersDiffer
  <2>3. uid[s] = v => InRbuf(u) \/ In(toClient, u) \/ serving = u \/ In(toServer, u)
    BY <1>1, <1>2, <2>1, EarlierSent DEF OnItsWay
  <2>4. InRbuf(u) \/ In(toClient, u) \/ serving = u \/ Ahead(Append(toServer, uid[s]), u, v)
    BY <1>1, <1>3, <2>2, <2>3, AppendOrder DEF Behind
  <2> QED
    BY <1>2, <1>3, <1>4, <2>1, <2>4 DEF Behind
<1>6. CASE ServerTake
  <2>1. /\ serving = 0 /\ toServer # <<>> /\ serving' = toServer[1] /\ toServer' = Tail(toServer)
        /\ toClient' = toClient
        /\ \A x \in Uids : InRbuf(x)' <=> InRbuf(x)
    BY <1>1, <1>6, TailElements DEF ServerTake, InRbuf, clientFrame, workerVars
  <2>2. Ahead(toServer, u, v) => toServer[1] # v /\ (toServer[1] = u \/ Ahead(Tail(toServer), u, v))
    BY <1>1, <1>2, <2>1, TailOrder
  <2> QED
    BY <1>2, <1>3, <1>4, <2>1, <2>2 DEF Behind
<1>7. CASE ServerReply
  <2>1. /\ toClient' = Append(toClient, serving) /\ toServer' = toServer
        /\ serving \in Uids /\ serving' = 0
        /\ \A x \in Uids : InRbuf(x)' <=> InRbuf(x)
    BY <1>1, <1>7, ClientAssumption
       DEF ServerReply, InRbuf, clientFrame, workerVars, Uids
  <2>2. /\ InRbuf(u) \/ Ahead(Append(toClient, serving), u, v)
        /\ In(toClient, u) \/ serving = u => In(Append(toClient, serving), u)
    BY <1>1, <1>3, <2>1, AppendOrder DEF Behind
  <2> QED
    BY <1>2, <1>3, <1>4, <2>1, <2>2 DEF Behind
<1>8. CASE ServerExits \/ ServerDisconnects
  <2>1. /\ toServer' = <<>> /\ serving' = 0 /\ toClient' \in {toClient, <<>>}
        /\ \A x \in Uids : InRbuf(x)' <=> InRbuf(x)
    BY <1>8 DEF ServerExits, ServerDisconnects, InRbuf, clientFrame, workerVars
  <2>2. Ahead(<<>>, u, v)
    BY AbsentOrder DEF In
  <2> QED
    BY <1>2, <1>3, <1>4, <2>1, <2>2 DEF Behind
<1>9. CASE Body
  <2>1. CASE is_connected
    <3>1. /\ toClient # <<>> /\ rbuf' = toClient[1] /\ m_rop' = "msg" /\ toClient' = Tail(toClient)
          /\ toServer' = toServer /\ serving' = serving /\ m_rop = "invalid"
      BY <1>1, <1>9, <2>1, TailElements DEF Body, is_connected, BodyThere, NothingUnread
    <3>2. /\ In(toClient, u) => toClient[1] = u \/ In(Tail(toClient), u)
          /\ Ahead(toClient, u, v) =>
               toClient[1] # v /\ (toClient[1] = u \/ Ahead(Tail(toClient), u, v))
      BY <1>1, <1>2, <3>1, TailOrder
    <3> QED
      BY <1>3, <1>4, <3>1, <3>2 DEF Behind, InRbuf
  <2>2. CASE ~is_connected
    <3>1. UNCHANGED <<toServer, toClient, serving, rbuf, m_rop>>
      BY <1>9, <2>2 DEF Body
    <3> QED
      BY <1>3, <1>4, <3>1 DEF Behind, InRbuf
  <2> QED
    BY <2>1, <2>2
<1>10. CASE Message
  <2>1. UNCHANGED <<toServer, toClient, serving>> /\ \A x \in Uids : ~InRbuf(x)'
    BY <1>10 DEF Message, pipeVars, InRbuf
  <2>2. ~InRbuf(u)
    BY <1>2, <1>10, LookedUp DEF InRbuf, Unsettled
  <2> QED
    BY <1>2, <1>3, <1>4, <2>1, <2>2 DEF Behind
<1>11. CASE /\ UNCHANGED <<toServer, toClient, serving>>
            /\ \A x \in Uids : InRbuf(x)' <=> InRbuf(x)
  BY <1>2, <1>3, <1>4, <1>11 DEF Behind
<1> QED
  BY <1>1, <1>5, <1>6, <1>7, <1>8, <1>9, <1>10, <1>11, WhoDelivers

(* The order is kept.                                                      *)
LEMMA OrderedStep ==
  ASSUME OrderInv, [Next]_vars
  PROVE  Ordered'
<1>1. /\ TypeOK /\ SafetyInv /\ ContractInv /\ MadeInOrder /\ made \in [Threads -> SUBSET Uids]
      /\ timestamp \in Nat /\ toServer \in Seq(Uids) /\ toClient \in Seq(Uids)
  BY ClientAssumption DEF OrderInv, ContractInv, TypeOK, ThreadTypes, PipeTypes
<1> SUFFICES ASSUME NEW t \in Threads, NEW u \in made'[t], NEW v \in made'[t], u < v, Unsettled(u)'
             PROVE  Behind(u, v)'
  BY DEF Ordered, Behind, InRbuf, In, Ahead, Unsettled, OwnCbid
<1>2. ASSUME NEW s \in Threads, Call(s), s = t => v # timestamp + 1
      PROVE  u \in made[t] /\ v \in made[t]
  <2>1. made' = [made EXCEPT ![s] = @ \union {timestamp + 1}]
    BY <1>2 DEF Call
  <2>2. CASE s # t
    BY <1>1, <2>1, <2>2
  <2>3. CASE s = t
    <3>1. v \in made[t] /\ (u \in made[t] \/ u = timestamp + 1)
      BY <1>1, <1>2, <2>1, <2>3
    <3>2. v \in Nat /\ v <= timestamp
      BY <1>1, <3>1 DEF MadeInOrder, Uids
    <3> QED
      BY <1>1, <3>1, <3>2
  <2> QED
    BY <2>2, <2>3
<1>3. CASE u \in made[t] /\ v \in made[t]
  <2>1. u \in Uids /\ u <= timestamp
    BY <1>1, <1>3 DEF MadeInOrder
  <2>2. Unsettled(u)
    BY <1>1, <2>1, UnsettledBefore
  <2> QED
    BY <1>3, <2>2, BehindStep
<1>4. ASSUME Call(t), v = timestamp + 1 PROVE Behind(u, v)'
  <2>1. v \in Uids /\ invoked[v] = 0 /\ ~Sent(v)
    <3>1. v \in Uids /\ v > timestamp
      BY <1>1, <1>4, ClientAssumption DEF Call, Uids
    <3> QED
      BY <1>1, <3>1 DEF SafetyInv, FreshUids, Sent
  <2>2. ~InRbuf(v) /\ ~In(toClient, v) /\ serving # v /\ ~In(toServer, v)
    BY <1>1, <2>1, TravellersSent
  <2>3. UNCHANGED <<toServer, toClient, serving, m_rop, rbuf, invoked>>
    BY <1>4 DEF Call, pipeVars, workerVars, userVars
  <2> QED
    BY <2>1, <2>2, <2>3, AbsentOrder DEF Behind, InRbuf
<1> QED
  BY <1>2, <1>3, <1>4, WhatElseMoves

(* The invariant holds in every reachable state.                           *)
LEMMA OrderInvHolds == Spec => []OrderInv
<1> DEFINE Inv == GlobalId /\ MadeInOrder /\ Registered /\ ErasedCalled /\ Drained /\ OnItsWay /\ Ordered
<1>1. Init => Inv
  BY ClientAssumption
     DEF Init, GlobalId, MadeInOrder, Registered, ErasedCalled, Drained, OnItsWay, Ordered, Sent,
     Busy, Uids
<1>2. OrderInv /\ [Next]_vars => Inv'
  <2> SUFFICES ASSUME OrderInv, [Next]_vars PROVE Inv'
    OBVIOUS
  <2>1. TypeOK /\ SafetyInv
    BY DEF OrderInv, ContractInv
  <2>2. GlobalId' /\ MadeInOrder'
    BY <2>1, MadeStep DEF OrderInv
  <2>3. ErasedCalled' /\ Drained'
    BY <2>1, CalledStep DEF OrderInv
  <2> QED
    BY <2>2, <2>3, RegisteredStep, OnItsWayStep, OrderedStep
<1>3. OrderInv <=> ContractInv /\ Inv
  BY DEF OrderInv
<1> HIDE DEF Inv
<1> QED
  BY <1>1, <1>2, <1>3, ContractInvHolds, PTL DEF Spec

-----------------------------------------------------------------------------
(* When the worker ends.                                                   *)

\* Once stop() was called no call() is on its way to the pipe any more.
StopIsLate == stop => \A t \in Threads : ~Sending(t)

\* The worker leaves its loop for a lost connection or for stop().
Leaving == wpc \in {"lock", "drain", "final", "done"} => ~is_connected \/ stop

\* After the final loop only a call that is bound to fail has an entry.
LateEntries ==
  wpc \in {"final", "done"} =>
    \A u \in m_cb : OwnCbid(u) => \E t \in Threads : uid[t] = u /\ pc[t] \in {"write", "cancel"}

NotifiedAtEnd == notified => wpc = "done"

EndInv == OrderInv /\ StopIsLate /\ Leaving /\ LateEntries /\ NotifiedAtEnd

(* No call() starts once stop() was called, and stop() waits for those     *)
(* that have.                                                              *)
LEMMA StopIsLateStep ==
  ASSUME StopRaces = FALSE, TypeOK, StopIsLate, [Next]_vars
  PROVE  StopIsLate'
<1>1. pc \in [Threads -> ThreadPcs]
  BY DEF TypeOK, ThreadTypes
<1>2. CASE StopBegin
  <2>1. pc' = pc /\ \A t \in Threads : pc[t] \in {"idle", "written", "waiting"}
    BY <1>2 DEF StopBegin, threadVars
  <2> QED
    BY <2>1 DEF StopIsLate, Sending
<1>3. CASE stop' = stop
  <2>1. ASSUME NEW t \in Threads, Call(t) PROVE ~stop
    BY <2>1 DEF Call
  <2>2. ASSUME NEW t \in Threads, ThreadStep(t)
        PROVE  \A s \in Threads : Sending(s)' => Sending(s)
    BY <1>1, <2>2
       DEF ThreadStep, Register, WriteOk, WriteFails, WriteNull, Written, Cancel,
           WakeUp,
       threadVars, Sending
  <2>3. CASE pc' = pc
    BY <1>3, <2>3 DEF StopIsLate, Sending
  <2> QED
    BY <1>3, <2>1, <2>2, <2>3, WhatMoves DEF StopIsLate
<1> QED
  BY <1>2, <1>3, WhatElseMoves

(* A connection that is lost stays lost.                                   *)
LEMMA LeavingStep ==
  ASSUME TypeOK, Leaving, NotifiedAtEnd, [Next]_vars
  PROVE  Leaving' /\ NotifiedAtEnd'
<1>1. stop => stop'
  BY WhatElseMoves DEF StopBegin
<1>2. ~is_connected => ~is_connected'
  <2>1. CASE Body
    BY <2>1 DEF Body, is_connected
  <2>2. CASE ServerTake \/ ServerReply \/ ServerExits \/ ServerDisconnects
    BY <2>2 DEF ServerTake, ServerReply, ServerExits, ServerDisconnects, is_connected
  <2>3. CASE UNCHANGED <<srv, toClient>>
    BY <2>3 DEF is_connected
  <2> QED
    BY <2>1, <2>2, <2>3, WhatMoves, WhatElseMoves
<1>3. CASE Worker
  <2>1. /\ wpc' \in {"lock", "drain", "final", "done"} =>
             \/ wpc \in {"lock", "drain", "final", "done"}
             \/ ~is_connected \/ stop
        /\ (notified' /\ ~notified) => wpc' = "done"
        /\ wpc = "done" => wpc' = "done"
    BY <1>3
       DEF Worker, Top, Issue, ReadError, Timeout, Header, HeaderError, Body,
           Message, Erase,
       DrainLock, DrainOne, DrainEnd, Final, workerVars
  <2> QED
    BY <1>1, <1>2, <2>1 DEF Leaving, NotifiedAtEnd
<1>4. CASE UNCHANGED <<wpc, wtodo, notified>>
  BY <1>1, <1>2, <1>4 DEF Leaving, NotifiedAtEnd
<1> QED
  BY <1>3, <1>4, WhatElseMoves

(* What registers after the final loop finds the pipe closed.              *)
LEMMA LateEntriesStep ==
  ASSUME TypeOK, SafetyInv, StopIsLate, Leaving, LateEntries, [Next]_vars
  PROVE  LateEntries'
<1>1. /\ timestamp \in Nat /\ pc \in [Threads -> ThreadPcs] /\ uid \in [Threads -> 0..MaxCalls]
      /\ kind \in [Uids -> AllKinds] /\ m_cb \subseteq Uids /\ wpc \in WorkerPcs
  BY ClientAssumption DEF TypeOK, ThreadTypes, TableTypes, WorkerTypes
<1>2. CASE Worker
  <2>1. CASE DrainEnd
    BY <2>1 DEF DrainEnd, LateEntries
  <2>2. CASE ~DrainEnd
    <3>1. /\ wpc' \in {"final", "done"} => wpc \in {"final", "done"} /\ m_cb' = m_cb
          /\ UNCHANGED <<uid, pc, kind>>
      BY <1>2, <2>2
         DEF Worker, Top, Issue, ReadError, Timeout, Header, HeaderError, Body,
             Message,
         Erase, DrainLock, DrainOne, Final, workerFrame, threadVars, tableVars, workerVars
    <3> QED
      BY <3>1 DEF LateEntries, OwnCbid
  <2> QED
    BY <2>1, <2>2
<1>3. CASE UNCHANGED wpc
  <2> SUFFICES ASSUME wpc \in {"final", "done"}, NEW u \in m_cb', OwnCbid(u)'
               PROVE  \E t \in Threads : uid'[t] = u /\ pc'[t] \in {"write", "cancel"}
    BY <1>3 DEF LateEntries
  <2>1. ASSUME NEW t \in Threads, Call(t)
        PROVE  \E s \in Threads : uid'[s] = u /\ pc'[s] \in {"write", "cancel"}
    <3>1. u \in m_cb /\ u # timestamp + 1
      BY <1>1, <2>1 DEF Call, tableVars, SafetyInv, FreshUids, Uids
    <3>2. kind'[u] = kind[u]
      BY <1>1, <2>1, <3>1 DEF Call
    <3>3. PICK s \in Threads : uid[s] = u /\ pc[s] \in {"write", "cancel"}
      BY <3>1, <3>2 DEF LateEntries, OwnCbid
    <3>4. s # t
      BY <2>1, <3>3 DEF Call
    <3> QED
      BY <1>1, <2>1, <3>3, <3>4 DEF Call
  <2>2. ASSUME NEW t \in Threads, Register(t)
        PROVE  \E s \in Threads : uid'[s] = u /\ pc'[s] \in {"write", "cancel"}
    <3>1. u \in m_cb \/ u = uid[t]
      BY <2>2 DEF Register
    <3>2. uid' = uid /\ kind' = kind /\ pc[t] = "register" /\ pc' = [pc EXCEPT ![t] = "write"]
      BY <2>2 DEF Register
    <3> QED
      BY <1>1, <3>1, <3>2 DEF LateEntries, OwnCbid
  <2>3. CASE u \in m_cb /\ kind' = kind /\ uid' = uid
    <3>1. PICK s \in Threads : uid[s] = u /\ pc[s] \in {"write", "cancel"}
      BY <2>3 DEF LateEntries, OwnCbid
    <3>2. ~WriteOk(s)
      BY <3>1 DEF WriteOk, Leaving, is_connected, StopIsLate, Sending
    <3>3. ~Cancel(s)
      BY <2>3, <3>1 DEF Cancel, CancelId, OwnCbid
    <3>4. ASSUME NEW t \in Threads, ThreadStep(t) PROVE pc'[s] \in {"write", "cancel"}
      BY <1>1, <3>1, <3>2, <3>3, <3>4
         DEF ThreadStep, Register, WriteOk, WriteFails, WriteNull,
         Written, Cancel, WakeUp, threadVars
    <3>5. ASSUME NEW t \in Threads, Call(t) PROVE pc'[s] = pc[s]
      BY <1>1, <3>1, <3>5 DEF Call
    <3> QED
      BY <2>3, <3>1, <3>4, <3>5, WhatMoves
  <2>4. ASSUME NEW t \in Threads, Cancel(t) PROVE u \in m_cb
    BY <2>4 DEF Cancel
  <2>5. CASE Erase \/ DrainEnd
    BY <2>5 DEF Erase, DrainEnd
  <2> QED
    BY <2>1, <2>2, <2>3, <2>4, <2>5, WhatElseMoves
<1> QED
  BY <1>2, <1>3, WhatElseMoves

(* The invariant about the end of the worker holds in every reachable      *)
(* state, unless stop() overlaps the sending part of a call().             *)
LEMMA EndInvHolds ==
  ASSUME StopRaces = FALSE
  PROVE  Spec => []EndInv
<1> DEFINE Inv == StopIsLate /\ Leaving /\ LateEntries /\ NotifiedAtEnd
<1>1. Init => Inv
  BY DEF Init, StopIsLate, Leaving, LateEntries, NotifiedAtEnd
<1>2. OrderInv /\ Inv /\ [Next]_vars => Inv'
  <2> SUFFICES ASSUME OrderInv, Inv, [Next]_vars PROVE Inv'
    OBVIOUS
  <2>1. TypeOK /\ SafetyInv
    BY DEF OrderInv, ContractInv
  <2> QED
    BY <2>1, StopIsLateStep, LeavingStep, LateEntriesStep
<1>3. EndInv <=> OrderInv /\ Inv
  BY DEF EndInv
<1> HIDE DEF Inv
<1> QED
  BY <1>1, <1>2, <1>3, OrderInvHolds, PTL DEF Spec

-----------------------------------------------------------------------------
(* The properties, for calls with a cbid of their own next to any others.  *)

OwnAnswersInOrder ==
  \A t \in Threads : \A u, v \in made[t] :
    (u < v /\ OwnCbid(u) /\ invoked[v] > 0) => invoked[u] > 0 \/ ret[u] = "false"

OwnAnsweredBeforeNotified ==
  notified => \A u \in Uids : ret[u] = "true" /\ OwnCbid(u) => invoked[u] > 0

NoOwnLeftWaiting ==
  wpc \in {"final", "done"} =>
    \A t \in Threads : pc[t] \in {"written", "waiting"} /\ OwnCbid(uid[t])
                         => invoked[uid[t]] > 0

(* A call with a cbid of its own is answered before the later calls of its *)
(* thread, or failed.                                                      *)
THEOREM OwnAnsweredInOrder == Spec => []OwnAnswersInOrder
<1>1. OrderInv => OwnAnswersInOrder
  <2> SUFFICES ASSUME OrderInv, NEW t \in Threads, NEW u \in made[t], NEW v \in made[t],
                      u < v, OwnCbid(u), invoked[v] > 0, ret[u] # "false"
               PROVE  invoked[u] > 0
    BY DEF OwnAnswersInOrder
  <2>1. invoked \in [Uids -> Nat] /\ u \in Uids /\ v \in Uids
    BY DEF OrderInv, ContractInv, TypeOK, ThreadTypes, UserTypes
  <2>2. ~Unsettled(u)
    BY <2>1 DEF OrderInv, Ordered, Behind
  <2> QED
    BY <2>1, <2>2 DEF Unsettled
<1> QED
  BY <1>1, OrderInvHolds, PTL

(* A worker that has ended leaves no unsettled call but one that is to     *)
(* fail: its thread is about to insert, to write or to cancel it.          *)
LEMMA LeftAtEnd ==
  ASSUME EndInv, wpc \in {"final", "done"}, NEW u \in Uids, u <= timestamp, Unsettled(u)
  PROVE  \E t \in Threads : uid[t] = u /\ pc[t] \in {"register", "write", "cancel"}
<1>1. CASE u \in m_cb
  BY <1>1 DEF EndInv, LateEntries, Unsettled
<1>2. CASE u \notin m_cb
  BY <1>2 DEF EndInv, OrderInv, Registered
<1> QED
  BY <1>1, <1>2

(* When the disconnection callback runs, every accepted call with a cbid   *)
(* of its own was answered.                                                *)
THEOREM OwnAnsweredFirst ==
  ASSUME StopRaces = FALSE
  PROVE  Spec => []OwnAnsweredBeforeNotified
<1>1. EndInv => OwnAnsweredBeforeNotified
  <2> SUFFICES ASSUME EndInv, notified, NEW u \in Uids, ret[u] = "true", OwnCbid(u),
                      ~(invoked[u] > 0)
               PROVE  FALSE
    BY DEF OwnAnsweredBeforeNotified
  <2>1. wpc = "done" /\ OneCallPerThread /\ FreshUids /\ invoked \in [Uids -> Nat] /\ timestamp \in Nat
    BY ClientAssumption
       DEF EndInv, NotifiedAtEnd, OrderInv, ContractInv, SafetyInv, TypeOK, ThreadTypes, UserTypes
  <2>2. u <= timestamp /\ Unsettled(u)
    BY <2>1 DEF FreshUids, Unsettled, Uids
  <2>3. PICK t \in Threads : uid[t] = u /\ pc[t] \in {"register", "write", "cancel"}
    BY <2>1, <2>2, LeftAtEnd
  <2> QED
    BY <2>1, <2>3 DEF OneCallPerThread, Busy
<1> QED
  BY <1>1, EndInvHolds, PTL

(* When the worker has left its final loop, no caller with a cbid of its   *)
(* own waits for an answer.                                                *)
THEOREM NoOwnCallerLeft ==
  ASSUME StopRaces = FALSE
  PROVE  Spec => []NoOwnLeftWaiting
<1>1. EndInv => NoOwnLeftWaiting
  <2> SUFFICES ASSUME EndInv, wpc \in {"final", "done"}, NEW t \in Threads,
                      pc[t] \in {"written", "waiting"}, OwnCbid(uid[t]), ~(invoked[uid[t]] > 0)
               PROVE  FALSE
    BY DEF NoOwnLeftWaiting
  <2>1. TypeOK /\ OneCallPerThread /\ invoked \in [Uids -> Nat]
    BY DEF EndInv, OrderInv, ContractInv, SafetyInv, TypeOK, UserTypes
  <2>2. Busy(t) /\ ret[uid[t]] = "none" /\ uid[t] \in Uids /\ uid[t] <= timestamp
    BY <2>1, BusyUid DEF OneCallPerThread, Busy
  <2>3. Unsettled(uid[t])
    BY <2>1, <2>2 DEF Unsettled
  <2>4. PICK s \in Threads : uid[s] = uid[t] /\ pc[s] \in {"register", "write", "cancel"}
    BY <2>2, <2>3, LeftAtEnd
  <2>5. s = t
    BY <2>1, <2>2, <2>4 DEF OneCallPerThread, Busy
  <2> QED
    BY <2>4, <2>5
<1> QED
  BY <1>1, EndInvHolds, PTL

-----------------------------------------------------------------------------
(* The properties of IpcClientWin, for an application that gives each call *)
(* with a callback a cbid of its own.                                      *)

\* Whoever has a callback has a cbid.
NoAsync == \A u \in Uids : kind[u] # "async"

(* The application makes no other calls than Kinds says.                   *)
LEMMA NoAsyncHolds ==
  ASSUME "async" \notin Kinds
  PROVE  Spec => [](NoAsync /\ TypeOK)
<1>1. Init => NoAsync
  BY DEF Init, NoAsync
<1>2. TypeOK /\ NoAsync /\ [Next]_vars => NoAsync'
  <2> SUFFICES ASSUME TypeOK, NoAsync, [Next]_vars PROVE NoAsync'
    OBVIOUS
  <2>1. ASSUME NEW t \in Threads, Call(t) PROVE NoAsync'
    BY <2>1 DEF Call, NoAsync, TypeOK, ThreadTypes
  <2> QED
    BY <2>1, WhatElseMoves DEF NoAsync
<1> QED
  BY <1>1, <1>2, InvariantHolds, PTL DEF Spec

(* The calls of one thread are answered in the order they were made.       *)
THEOREM AnsweredInOrder ==
  ASSUME "async" \notin Kinds
  PROVE  Spec => []AnswersInOrder
<1>1. NoAsync /\ TypeOK /\ OwnAnswersInOrder => AnswersInOrder
  BY
     DEF NoAsync, TypeOK, ThreadTypes, AllKinds, OwnAnswersInOrder, AnswersInOrder,
         HasFn, OwnCbid
<1> QED
  BY <1>1, NoAsyncHolds, OwnAnsweredInOrder, PTL

(* No accepted call is without its answer when the disconnection callback  *)
(* has run.                                                                *)
THEOREM AnsweredFirst ==
  ASSUME "async" \notin Kinds, StopRaces = FALSE
  PROVE  Spec => []AnsweredBeforeNotified
<1>1. NoAsync /\ TypeOK /\ OwnAnsweredBeforeNotified => AnsweredBeforeNotified
  BY DEF NoAsync, TypeOK, ThreadTypes, AllKinds, OwnAnsweredBeforeNotified,
     AnsweredBeforeNotified, HasFn, OwnCbid
<1> QED
  BY <1>1, NoAsyncHolds, OwnAnsweredFirst, PTL

(* The worker leaves no caller behind that still waits.                    *)
THEOREM NoCallerLeft ==
  ASSUME "async" \notin Kinds, StopRaces = FALSE
  PROVE  Spec => []NobodyLeftWaiting
<1>1. NoAsync /\ TypeOK /\ OneCallPerThread /\ NoOwnLeftWaiting => NobodyLeftWaiting
  <2> SUFFICES ASSUME NoAsync, TypeOK, OneCallPerThread, NoOwnLeftWaiting,
                      wpc \in {"final", "done"}, NEW t \in Threads,
                      pc[t] \in {"written", "waiting"}, HasFn(uid[t])
               PROVE  invoked[uid[t]] > 0
    BY DEF NobodyLeftWaiting
  <2>1. uid[t] \in Uids
    BY BusyUid DEF Busy
  <2>2. OwnCbid(uid[t])
    BY <2>1 DEF NoAsync, TypeOK, ThreadTypes, AllKinds, HasFn, OwnCbid
  <2> QED
    BY <2>2 DEF NoOwnLeftWaiting
<1>2. OrderInv => OneCallPerThread
  BY DEF OrderInv, ContractInv, SafetyInv
<1> QED
  BY <1>1, <1>2, NoAsyncHolds, OrderInvHolds, NoOwnCallerLeft, PTL

=============================================================================
