---------------------- MODULE ServerInstanceWinProofs ----------------------
(***************************************************************************)
(* Proofs about ServerInstanceWin, for any number of requests, any pipe    *)
(* capacity, with and without a watchdog: the protocol of the two          *)
(* OVERLAPPED operations, and that the instance is a SerialService.        *)
(***************************************************************************)
EXTENDS ServerInstanceWin, SequenceTheorems, TLAPS

(* One iteration of the server for one request.  The request is nowhere,   *)
(* read, executed, its reply queued, in m_socket->write, and written.      *)
Idle ==
  /\ m_rop \in {"invalid", "header"} /\ m_rbuf = 0
  /\ m_write_queue = <<>> /\ m_wop = "invalid"
  /\ wpc \in {"top", "read", "write", "wait", "body", "done"}
  /\ wpc \in {"read", "body"} => m_rop = "invalid"
  /\ wpc \in {"write", "wait"} => m_rop = "header"
  /\ wpc = "body" => inbox # <<>>

Taken ==
  /\ m_rop = "body" /\ m_rbuf \in Requests
  /\ m_write_queue = <<>> /\ m_wop = "invalid"
  /\ wpc \in {"top", "write", "wait", "done"}

Running ==
  /\ m_rop = "called" /\ m_rbuf \in Requests
  /\ m_write_queue = <<>> /\ m_wop = "invalid"
  /\ wpc = "exec"

Queued ==
  /\ m_rop = "called" \/ (wpc = "done" /\ m_rop = "invalid")
  /\ m_rbuf = 0
  /\ Len(m_write_queue) = 1 /\ m_wop = "invalid"
  /\ wpc \in {"top", "write", "done"}

Writing ==
  /\ m_rop = "called" /\ m_rbuf = 0
  /\ Len(m_write_queue) = 1 /\ m_wop = "pending"
  /\ wpc = "sent"

Written ==
  /\ m_rop = "called" /\ m_rbuf = 0
  /\ m_write_queue = <<>> /\ m_wop = "pending"
  /\ wpc \in {"top", "write", "wait", "done"}

(* The inductive invariant: the instance is always in one of these phases. *)
Phase == Idle \/ Taken \/ Running \/ Queued \/ Writing \/ Written

IInv == TypeOK /\ Phase

-----------------------------------------------------------------------------
(* Sequences, as the queue and the pipe use them.                          *)

LEMMA AppendTyped ==
  ASSUME NEW S, NEW q \in Seq(S), NEW x \in S
  PROVE  Append(q, x) \in Seq(S) /\ Append(q, x) # <<>>
  BY AppendProperties, EmptySeq, LenProperties

(* The queue of an idle instance holds the one reply appended to it ...    *)
LEMMA OneReply ==
  ASSUME NEW S, NEW x \in S
  PROVE  LET q == Append(<<>>, x)
         IN q \in Seq(S) /\ Len(q) = 1 /\ q # <<>> /\ Head(q) = x
  BY AppendProperties, EmptySeq

(* ... and is empty again when that one is popped.                         *)
LEMMA PopOneReply ==
  ASSUME NEW S, NEW q \in Seq(S), Len(q) = 1
  PROVE  q # <<>> /\ Head(q) \in S /\ Tail(q) = <<>>
<1>1. q # <<>>
  <2>1. Len(<<>>) = 0 /\ 0 # 1
    BY EmptySeq
  <2> QED
    BY <2>1, Zenon
<1>2. Tail(q) \in Seq(S) /\ Len(Tail(q)) = 0 /\ Head(q) \in S
  BY <1>1, HeadTailProperties
<1> QED
  BY <1>1, <1>2, EmptySeq

LEMMA RequestsAreNotZero == 0 \notin Requests /\ Requests \subseteq 0..MaxRequests
  BY InstanceAssumption DEF Requests

-----------------------------------------------------------------------------
(* The invariant.                                                          *)

PipeTypes ==
  /\ sent \in 0..MaxRequests
  /\ conn \in {"open", "closing"}
  /\ inbox \in Seq(Requests)
  /\ outbox \in Seq(Requests)

WorkerTypes ==
  /\ wpc \in {"top", "read", "write", "sent", "wait", "body", "exec", "done"}
  /\ m_rop \in {"invalid", "header", "body", "called"}
  /\ m_rbuf \in 0..MaxRequests
  /\ m_wop \in {"invalid", "pending"}
  /\ m_write_queue \in Seq(Requests)

ThreadTypes ==
  /\ m_write_waiting \in BOOLEAN
  /\ overdue \in BOOLEAN
  /\ dog \in {"none", "loop", "check", "done"}
  /\ m_stopWorkers \in BOOLEAN
  /\ dtor \in {"none", "join", "joindog", "done"}
  /\ proc \in {"up", "terminated"}

LEMMA TypeGroups == TypeOK <=> PipeTypes /\ WorkerTypes /\ ThreadTypes
  BY DEF TypeOK, PipeTypes, WorkerTypes, ThreadTypes

LEMMA UnchangedTypes ==
  ASSUME TypeOK
  PROVE  /\ UNCHANGED pipeVars => PipeTypes'
         /\ UNCHANGED <<wpc, opVars>> => WorkerTypes'
         /\ UNCHANGED <<watchVars, dog, dtorVars, proc>> => ThreadTypes'
<1>1. UNCHANGED pipeVars => PipeTypes'
  BY TypeGroups DEF pipeVars, PipeTypes
<1>2. UNCHANGED <<wpc, opVars>> => WorkerTypes'
  BY TypeGroups DEF opVars, WorkerTypes
<1>3. UNCHANGED <<watchVars, dog, dtorVars, proc>> => ThreadTypes'
  BY TypeGroups DEF watchVars, dtorVars, ThreadTypes
<1> QED
  BY <1>1, <1>2, <1>3

LEMMA TypeStep ==
  ASSUME IInv, [Next]_vars
  PROVE  TypeOK'
<1>1. TypeOK /\ PipeTypes /\ WorkerTypes /\ ThreadTypes /\ Phase
  BY TypeGroups DEF IInv
<1> SUFFICES PipeTypes' /\ WorkerTypes' /\ ThreadTypes'
  BY TypeGroups, PTL
<1>2. CASE UNCHANGED vars
  BY <1>1, <1>2, UnchangedTypes DEF vars
<1>3. CASE Top
  <2>1. WorkerTypes'
    BY <1>1, <1>3 DEF Top, WorkerTypes, opVars
  <2> QED
    BY <1>1, <1>3, <2>1, UnchangedTypes DEF Top
<1>4. CASE ReadHeader
  <2>1. WorkerTypes'
    BY <1>1, <1>4 DEF ReadHeader, WorkerTypes
  <2> QED
    BY <1>1, <1>4, <2>1, UnchangedTypes DEF ReadHeader
<1>5. CASE NothingToWrite
  <2>1. WorkerTypes'
    BY <1>1, <1>5 DEF NothingToWrite, WorkerTypes, opVars
  <2> QED
    BY <1>1, <1>5, <2>1, UnchangedTypes DEF NothingToWrite
<1>6. CASE WriteReply
  <2>1. WorkerTypes'
    BY <1>1, <1>6 DEF WriteReply, WorkerTypes
  <2>2. Head(m_write_queue) \in Requests
    BY <1>1, <1>6, HeadTailProperties DEF WriteReply, WorkerTypes
  <2>3. PipeTypes'
    BY <1>1, <1>6, <2>2, AppendTyped DEF WriteReply, PipeTypes
  <2> QED
    BY <1>1, <1>6, <2>1, <2>3, UnchangedTypes DEF WriteReply
<1>7. CASE ReplySent
  <2>1. Len(m_write_queue) = 1
    BY <1>1, <1>7 DEF ReplySent, Phase, Idle, Taken, Running, Queued, Writing, Written
  <2>2. m_write_queue' = <<>>
    BY <1>1, <1>7, <2>1, PopOneReply DEF ReplySent, WorkerTypes
  <2>3. WorkerTypes'
    BY <1>1, <1>7, <2>2, EmptySeq DEF ReplySent, WorkerTypes
  <2>4. ThreadTypes'
    BY <1>1, <1>7 DEF ReplySent, ThreadTypes, dtorVars
  <2> QED
    BY <1>1, <1>7, <2>3, <2>4, UnchangedTypes DEF ReplySent
<1>8. CASE Timeout
  <2>1. WorkerTypes'
    BY <1>1, <1>8 DEF Timeout, WorkerTypes, opVars
  <2> QED
    BY <1>1, <1>8, <2>1, UnchangedTypes DEF Timeout
<1>9. CASE HeaderRead
  <2>1. WorkerTypes'
    BY <1>1, <1>9 DEF HeaderRead, WorkerTypes
  <2> QED
    BY <1>1, <1>9, <2>1, UnchangedTypes DEF HeaderRead
<1>10. CASE ReadBody
  <2>1. inbox # <<>>
    BY <1>1, <1>10 DEF ReadBody, Phase, Idle, Taken, Running, Queued, Writing, Written
  <2>2. Head(inbox) \in Requests /\ Tail(inbox) \in Seq(Requests)
    BY <1>1, <2>1, HeadTailProperties DEF PipeTypes
  <2>3. WorkerTypes'
    BY <1>1, <1>10, <2>2, RequestsAreNotZero DEF ReadBody, WorkerTypes
  <2>4. PipeTypes'
    BY <1>1, <1>10, <2>2 DEF ReadBody, PipeTypes
  <2> QED
    BY <1>1, <1>10, <2>3, <2>4, UnchangedTypes DEF ReadBody
<1>11. CASE BeginCall
  <2>1. WorkerTypes'
    BY <1>1, <1>11 DEF BeginCall, WorkerTypes
  <2>2. ThreadTypes'
    BY <1>1, <1>11 DEF BeginCall, ThreadTypes, dtorVars
  <2> QED
    BY <1>1, <1>11, <2>1, <2>2, UnchangedTypes DEF BeginCall
<1>12. CASE WriteCallback
  <2>1. WorkerTypes'
    BY <1>1, <1>12 DEF WriteCallback, WorkerTypes
  <2> QED
    BY <1>1, <1>12, <2>1, UnchangedTypes DEF WriteCallback
<1>13. CASE EndCall
  <2>1. m_rbuf \in Requests
    BY <1>1, <1>13 DEF EndCall, Phase, Idle, Taken, Running, Queued, Writing, Written
  <2>2. m_write_queue' \in Seq(Requests)
    BY <1>1, <1>13, <2>1, AppendTyped DEF EndCall, WorkerTypes
  <2>3. WorkerTypes'
    BY <1>1, <1>13, <2>2, InstanceAssumption DEF EndCall, WorkerTypes
  <2> QED
    BY <1>1, <1>13, <2>3, UnchangedTypes DEF EndCall
<1>14. CASE TimePasses \/ Watchdog
  <2>1. ThreadTypes'
    BY <1>1, <1>14 DEF TimePasses, Watchdog, DogLoop, DogCheck, ThreadTypes, dogFrame,
                       watchVars, dtorVars
  <2> QED
    BY <1>1, <1>14, <2>1, UnchangedTypes
    DEF TimePasses, Watchdog, DogLoop, DogCheck, dogFrame
<1>15. CASE Destroy \/ WorkerJoined \/ WatchdogJoined
  <2>1. ThreadTypes'
    BY <1>1, <1>15 DEF Destroy, WorkerJoined, WatchdogJoined, ThreadTypes, dtorFrame,
                       watchVars
  <2> QED
    BY <1>1, <1>15, <2>1, UnchangedTypes
    DEF Destroy, WorkerJoined, WatchdogJoined, dtorFrame
<1>16. CASE Send
  <2>1. sent + 1 \in Requests /\ sent + 1 \in 0..MaxRequests
    BY <1>1, <1>16, InstanceAssumption DEF Send, PipeTypes, Requests
  <2>2. PipeTypes'
    BY <1>1, <1>16, <2>1, AppendTyped DEF Send, PipeTypes
  <2> QED
    BY <1>1, <1>16, <2>2, UnchangedTypes DEF Send, clientFrame
<1>17. CASE Receive
  <2>1. PipeTypes'
    BY <1>1, <1>17, HeadTailProperties DEF Receive, PipeTypes
  <2> QED
    BY <1>1, <1>17, <2>1, UnchangedTypes DEF Receive, clientFrame
<1>18. CASE Leave
  <2>1. PipeTypes'
    BY <1>1, <1>18, EmptySeq DEF Leave, PipeTypes
  <2> QED
    BY <1>1, <1>18, <2>1, UnchangedTypes DEF Leave, clientFrame
<1> QED
  BY <1>2, <1>3, <1>4, <1>5, <1>6, <1>7, <1>8, <1>9, <1>10, <1>11, <1>12, <1>13,
     <1>14, <1>15, <1>16, <1>17, <1>18 DEF Next, Worker

(* Each step of the worker stays in its phase or goes to the next one;     *)
(* every other step leaves the operations alone and may only add to inbox, *)
(* which the worker alone takes from.                                      *)
LEMMA PhaseStep ==
  ASSUME IInv, [Next]_vars
  PROVE  Phase'
<1>1. TypeOK /\ PipeTypes /\ WorkerTypes /\ Phase
  BY TypeGroups DEF IInv
<1>2. ASSUME UNCHANGED <<wpc, opVars>>, inbox # <<>> => inbox' # <<>>
      PROVE  Phase'
  BY <1>1, <1>2 DEF opVars, Phase, Idle, Taken, Running, Queued, Writing, Written
<1>3. CASE Top
  BY <1>1, <1>3 DEF Top, pipeVars, opVars, Phase, Idle, Taken, Running, Queued, Writing,
                    Written
<1>4. CASE ReadHeader
  BY <1>1, <1>4 DEF ReadHeader, pipeVars, Phase, Idle, Taken, Running, Queued, Writing,
                    Written
<1>5. CASE NothingToWrite
  <2>1. ~Queued
    BY <1>1, <1>5, EmptySeq DEF NothingToWrite, Queued
  <2> QED
    BY <1>1, <1>5, <2>1 DEF NothingToWrite, pipeVars, opVars, Phase, Idle, Taken, Running,
                            Writing, Written
<1>6. CASE WriteReply
  BY <1>1, <1>6 DEF WriteReply, Phase, Idle, Taken, Running, Queued, Writing, Written
<1>7. CASE ReplySent
  <2>1. Writing
    BY <1>1, <1>7 DEF ReplySent, Phase, Idle, Taken, Running, Queued, Written
  <2>2. m_write_queue' = <<>>
    BY <1>1, <1>7, <2>1, PopOneReply DEF ReplySent, WorkerTypes, Writing
  <2>3. Written'
    BY <1>7, <2>1, <2>2 DEF ReplySent, Writing, Written
  <2> QED
    BY <2>3 DEF Phase
<1>8. CASE Timeout
  BY <1>1, <1>8 DEF Timeout, pipeVars, opVars, Phase, Idle, Taken, Running, Queued, Writing,
                    Written
<1>9. CASE HeaderRead
  BY <1>1, <1>9 DEF HeaderRead, pipeVars, Phase, Idle, Taken, Running, Queued, Writing,
                    Written
<1>10. CASE ReadBody
  <2>1. Idle /\ inbox # <<>>
    BY <1>1, <1>10 DEF ReadBody, Phase, Idle, Taken, Running, Queued, Writing, Written
  <2>2. Head(inbox) \in Requests
    BY <1>1, <2>1, HeadTailProperties DEF PipeTypes
  <2>3. Taken'
    BY <1>10, <2>1, <2>2 DEF ReadBody, Idle, Taken
  <2> QED
    BY <2>3 DEF Phase
<1>11. CASE BeginCall
  BY <1>1, <1>11 DEF BeginCall, Phase, Idle, Taken, Running, Queued, Writing, Written
<1>12. CASE WriteCallback
  BY <1>1, <1>12 DEF WriteCallback, WriteDone, Phase, Idle, Taken, Running, Queued, Writing,
                     Written
<1>13. CASE EndCall
  <2>1. Running
    BY <1>1, <1>13 DEF EndCall, Phase, Idle, Taken, Queued, Writing, Written
  <2>2. Len(m_write_queue') = 1
    BY <1>13, <2>1, OneReply DEF EndCall, Running
  <2>3. Queued'
    BY <1>13, <2>1, <2>2 DEF EndCall, Running, Queued
  <2> QED
    BY <2>3 DEF Phase
<1>14. CASE TimePasses \/ Watchdog \/ Destroy \/ WorkerJoined \/ WatchdogJoined
  <2>1. UNCHANGED <<wpc, opVars, inbox>>
    BY <1>14 DEF TimePasses, Watchdog, DogLoop, DogCheck, Destroy, WorkerJoined,
                 WatchdogJoined, dogFrame, dtorFrame, pipeVars
  <2> QED
    BY <1>2, <2>1
<1>15. CASE Send
  <2>1. sent + 1 \in Requests
    BY <1>1, <1>15, InstanceAssumption DEF Send, PipeTypes, Requests
  <2>2. inbox' # <<>>
    BY <1>1, <1>15, <2>1, AppendTyped DEF Send, PipeTypes
  <2> QED
    BY <1>2, <1>15, <2>2 DEF Send, clientFrame
<1>16. CASE Receive \/ Leave
  BY <1>2, <1>16 DEF Receive, Leave, clientFrame
<1>17. CASE UNCHANGED vars
  BY <1>2, <1>17 DEF vars, pipeVars
<1> QED
  BY <1>3, <1>4, <1>5, <1>6, <1>7, <1>8, <1>9, <1>10, <1>11, <1>12, <1>13, <1>14, <1>15,
     <1>16, <1>17 DEF Next, Worker

(* The worker is always in one of the phases of serving one request.       *)
THEOREM InvariantHolds == Spec => []IInv
<1>1. Init => IInv
  <2>1. Init => PipeTypes
    BY InstanceAssumption, EmptySeq DEF Init, PipeTypes
  <2>2. Init => WorkerTypes
    BY InstanceAssumption, EmptySeq DEF Init, WorkerTypes
  <2>3. Init => ThreadTypes
    BY DEF Init, ThreadTypes
  <2>4. Init => Phase
    BY DEF Init, Phase, Idle
  <2> QED
    BY <2>1, <2>2, <2>3, <2>4, TypeGroups DEF IInv
<1>2. IInv /\ [Next]_vars => IInv'
  BY TypeStep, PhaseStep DEF IInv
<1> QED
  BY <1>1, <1>2, PTL DEF Spec

(* Every variable keeps its type.                                          *)
THEOREM TypeCorrect == Spec => []TypeOK
<1>1. IInv => TypeOK
  BY DEF IInv
<1> QED
  BY <1>1, InvariantHolds, PTL

(* No read is in flight while a reply is queued or being written, so the   *)
(* invalidation of m_rop by write_callback never drops one.                *)
THEOREM HalfDuplexHolds == Spec => []HalfDuplex
<1>1. IInv => HalfDuplex
  BY DEF IInv, HalfDuplex, Phase, Idle, Taken, Running, Queued, Writing, Written
<1> QED
  BY <1>1, InvariantHolds, PTL

(* The queue of replies never holds two, and holds none during a call.     *)
THEOREM OneReplyAtATimeHolds == Spec => []OneReplyAtATime
<1>1. ASSUME IInv PROVE OneReplyAtATime
  <2>1. m_write_queue = <<>> \/ Len(m_write_queue) = 1
    BY <1>1 DEF IInv, Phase, Idle, Taken, Running, Queued, Writing, Written
  <2>2. Len(m_write_queue) <= 1
    <3>1. m_write_queue = <<>> => Len(m_write_queue) = 0
      BY EmptySeq
    <3>2. \A n \in {0, 1} : n <= 1
      OBVIOUS
    <3> QED
      BY <2>1, <3>1, <3>2, Zenon
  <2>3. wpc = "exec" => m_write_queue = <<>> /\ m_wop = "invalid"
    BY <1>1 DEF IInv, Phase, Idle, Taken, Running, Queued, Writing, Written
  <2> QED
    BY <2>2, <2>3 DEF OneReplyAtATime
<1> QED
  BY <1>1, InvariantHolds, PTL

(* The worker never waits on nothing.                                      *)
THEOREM SomethingToWaitForHolds == Spec => []SomethingToWaitFor
<1>1. IInv => SomethingToWaitFor
  BY DEF IInv, SomethingToWaitFor, Phase, Idle, Taken, Running, Queued, Writing, Written
<1> QED
  BY <1>1, InvariantHolds, PTL

-----------------------------------------------------------------------------
(* The refinement.                                                         *)

(* Steps that move no message and finish no reply are stutters of the      *)
(* service.                                                                *)
LEMMA Stutter ==
  ASSUME UNCHANGED pipeVars, serving' = serving
  PROVE  UNCHANGED Service!svars
  BY DEF pipeVars, Service!svars

(* ReadBody is Take, m_socket->write of a reply is Reply, what the client  *)
(* does is what it does there; every other step is a stutter.              *)
LEMMA RefinementStep ==
  ASSUME IInv, [Next]_vars
  PROVE  [Service!Next]_(Service!svars)
<1>1. TypeOK /\ PipeTypes /\ WorkerTypes /\ Phase
  BY TypeGroups DEF IInv
<1> USE DEF serving
<1>2. CASE UNCHANGED <<pipeVars, wpc, opVars>>
  BY <1>2, Stutter DEF opVars
<1>3. CASE Top \/ NothingToWrite \/ Timeout
  <2>1. UNCHANGED <<pipeVars, opVars>> /\ wpc # "sent" /\ wpc' # "sent"
    BY <1>3 DEF Top, NothingToWrite, Timeout
  <2> QED
    BY <2>1, Stutter DEF opVars
<1>4. CASE ReadHeader \/ HeaderRead \/ BeginCall \/ WriteCallback
  <2>1. UNCHANGED <<pipeVars, m_rbuf, m_write_queue>> /\ wpc # "sent" /\ wpc' # "sent"
    BY <1>4 DEF ReadHeader, HeaderRead, BeginCall, WriteCallback
  <2> QED
    BY <2>1, Stutter
<1>5. CASE WriteReply
  <2>1. Queued
    BY <1>1, <1>5 DEF WriteReply, Phase, Idle, Taken, Running, Writing, Written
  <2>2. Head(m_write_queue) \in Requests /\ m_write_queue # <<>>
    BY <1>1, <2>1, PopOneReply DEF Queued, WorkerTypes
  <2>3. serving = Head(m_write_queue) /\ serving # 0
    BY <1>5, <2>1, <2>2, RequestsAreNotZero DEF WriteReply, Queued
  <2>4. CASE conn = "open"
    <3>1. outbox' = Append(outbox, serving) /\ serving' = 0 /\ UNCHANGED <<conn, inbox>>
      BY <1>5, <2>1, <2>3, <2>4 DEF WriteReply, Queued
    <3>2. Service!Reply
      BY <2>3, <2>4, <3>1 DEF Service!Reply
    <3> QED
      BY <3>2 DEF Service!Next
  <2>5. CASE conn # "open"
    <3>1. UNCHANGED <<pipeVars, m_rbuf, m_write_queue>> /\ wpc # "sent" /\ wpc' # "sent"
      BY <1>5, <2>5 DEF WriteReply, pipeVars
    <3> QED
      BY <3>1, Stutter
  <2> QED
    BY <2>4, <2>5
<1>6. CASE ReplySent
  <2>1. Writing
    BY <1>1, <1>6 DEF ReplySent, Phase, Idle, Taken, Running, Queued, Written
  <2>2. m_write_queue' = <<>> /\ m_rbuf' = 0 /\ UNCHANGED pipeVars
    BY <1>1, <1>6, <2>1, PopOneReply DEF ReplySent, WorkerTypes, Writing
  <2> QED
    BY <2>1, <2>2, Stutter DEF Writing
<1>7. CASE ReadBody
  <2>1. Idle /\ inbox # <<>>
    BY <1>1, <1>7 DEF ReadBody, Phase, Idle, Taken, Running, Queued, Writing, Written
  <2>2. Head(inbox) # 0
    BY <1>1, <2>1, HeadTailProperties, RequestsAreNotZero DEF PipeTypes
  <2>3. Service!Take
    BY <1>7, <2>1, <2>2 DEF ReadBody, Idle, Service!Take
  <2> QED
    BY <2>3 DEF Service!Next
<1>8. CASE EndCall
  <2>1. Running
    BY <1>1, <1>8 DEF EndCall, Phase, Idle, Taken, Queued, Writing, Written
  <2>2. m_rbuf # 0 /\ m_rbuf' = 0 /\ wpc' = "top"
    BY <1>8, <2>1, RequestsAreNotZero DEF EndCall, Running
  <2>3. m_write_queue' # <<>> /\ Head(m_write_queue') = m_rbuf
    BY <1>8, <2>1, OneReply DEF EndCall, Running
  <2>4. serving' = serving /\ UNCHANGED pipeVars
    BY <1>8, <2>2, <2>3 DEF EndCall
  <2> QED
    BY <2>4, Stutter
<1>9. CASE TimePasses \/ Watchdog \/ Destroy \/ WorkerJoined \/ WatchdogJoined
  <2>1. UNCHANGED <<pipeVars, wpc, opVars>>
    BY <1>9 DEF TimePasses, Watchdog, DogLoop, DogCheck, Destroy, WorkerJoined,
                WatchdogJoined, dogFrame, dtorFrame
  <2> QED
    BY <1>2, <2>1
<1>10. ASSUME UNCHANGED clientFrame PROVE serving' = serving
  BY <1>10 DEF clientFrame, opVars
<1>11. CASE Send
  <2>1. sent + 1 \in Requests
    BY <1>1, <1>11, InstanceAssumption DEF Send, PipeTypes, Requests
  <2>2. Service!Request(sent + 1)
    BY <1>10, <1>11 DEF Send, Service!Request
  <2> QED
    BY <2>1, <2>2 DEF Service!Next
<1>12. CASE Receive
  <2>1. Service!Read
    BY <1>10, <1>12 DEF Receive, Service!Read
  <2> QED
    BY <2>1 DEF Service!Next
<1>13. CASE Leave
  <2>1. Service!Leave
    BY <1>10, <1>13 DEF Leave, Service!Leave
  <2> QED
    BY <2>1 DEF Service!Next
<1>14. CASE UNCHANGED vars
  BY <1>2, <1>14 DEF vars
<1> QED
  BY <1>3, <1>4, <1>5, <1>6, <1>7, <1>8, <1>9, <1>11, <1>12, <1>13, <1>14 DEF Next, Worker

(* For any number of requests and any pipe the instance is the serial      *)
(* service: replies in the order of the requests, each answered once.      *)
THEOREM Refinement == Spec => ImplementsSerialService
<1>1. Init => Service!Init
  BY DEF Init, Service!Init, serving
<1>2. IInv /\ [Next]_vars => [Service!Next]_(Service!svars)
  BY RefinementStep
<1> QED
  BY <1>1, <1>2, InvariantHolds, PTL DEF Spec, ImplementsSerialService, Service!Spec
=============================================================================
