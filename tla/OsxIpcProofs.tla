---------------------------- MODULE OsxIpcProofs ----------------------------
(***************************************************************************)
(* Proofs about the macOS client and instance (OsxIpc), for any callers,   *)
(* any number of calls and any number of client processes.                 *)
(***************************************************************************)
EXTENDS OsxIpc, SequenceTheorems, TLAPS

TheItems == Items(MaxInc, MaxUid)

-----------------------------------------------------------------------------
(* The pipes.                                                               *)

(* Opening, closing, reading and writing keep the types of the pipes.       *)
LEMMA PipesType ==
  ASSUME NEW open \in SUBSET Descriptors,
         NEW data \in [{"req", "rep"} -> Seq(TheItems)],
         PipesBecome(open, data)
  PROVE  fds' \subseteq Descriptors /\ fifo' \in [{"req", "rep"} -> Seq(TheItems)]
  BY DEF PipesBecome

(* A message carries a process and a uid in their bounds.                   *)
LEMMA ItemTypes ==
  ASSUME NEW i \in 0..MaxInc, NEW u \in 0..MaxUid
  PROVE  Call(i, u) \in TheItems /\ Reply(i, u) \in TheItems
  BY DEF Call, Reply, TheItems, Items

(* A pipe with two messages is not empty when one is taken.                 *)
LEMMA MoreThanOne ==
  ASSUME NEW s \in Seq(TheItems), Len(s) > 1
  PROVE  Tail(s) \in Seq(TheItems) /\ Tail(s) # <<>>
<1>1. Len(<<>>) = 0 /\ Len(s) \in Nat
  BY LenProperties
<1>2. s # <<>>
  BY <1>1
<1>3. Tail(s) \in Seq(TheItems) /\ Len(Tail(s)) = Len(s) - 1
  BY <1>2, HeadTailProperties
<1>4. Len(Tail(s)) # 0
  BY <1>1, <1>3
<1> QED
  BY <1>1, <1>3, <1>4, Zenon

(* The dummy is one of the messages.                                        *)
LEMMA DummyType == Dummy \in TheItems
  BY ClientAssumption DEF Dummy, TheItems, Items

(* One message more, or one less.                                           *)
LEMMA AppendType ==
  ASSUME fifo \in [{"req", "rep"} -> Seq(TheItems)],
         NEW on \in {"req", "rep"}, NEW m \in TheItems
  PROVE  Append1(on, m) \in [{"req", "rep"} -> Seq(TheItems)]
  BY DEF Append1

(* A message less, from a FIFO that has one.                                *)
LEMMA DropType ==
  ASSUME fifo \in [{"req", "rep"} -> Seq(TheItems)],
         NEW on \in {"req", "rep"}, fifo[on] # <<>>
  PROVE  /\ Drop1(on) \in [{"req", "rep"} -> Seq(TheItems)]
         /\ Head(fifo[on]) \in TheItems
  BY DEF Drop1

(* A process, an end and a FIFO make a descriptor.                          *)
LEMMA DescriptorTypes ==
  ASSUME NEW p \in {"client", "server"}, NEW e \in {"r", "w"}, NEW on \in {"req", "rep"}
  PROVE  <<p, e, on>> \in Descriptors
  BY DEF Descriptors

-----------------------------------------------------------------------------
(* Types.                                                                   *)

(* The initial state is typed.                                              *)
LEMMA TypeInit == Init => TypeOK
<1> SUFFICES ASSUME Init PROVE TypeOK
  OBVIOUS
<1>1. PipesTypeOK(MaxInc, MaxUid)
  BY DEF Init, PipesInit, PipesTypeOK, Descriptors
<1>2. ClientTypeOK
  <2>1. "idle" \in InTurn \union {"idle", "turn", "wait"} /\ "plain" \in Kinds
    BY DEF Kinds
  <2>2. ClientInit
    BY DEF Init
  <2>3. /\ pc \in [Callers -> InTurn \union {"idle", "turn", "wait"}]
        /\ kind \in [Callers -> Kinds]
        /\ uid \in [Callers -> 0..MaxUid]
    BY <2>1, <2>2, ClientAssumption DEF ClientInit
  <2>4. inc \in 1..MaxInc /\ timestamp \in 0..MaxUid /\ m_writer_sem \in Nat
    BY <2>2, ClientAssumption DEF ClientInit
  <2> QED
    BY <2>2, <2>3, <2>4 DEF ClientInit, ClientTypeOK
<1>3. InstanceTypeOK(MaxInc, MaxUid)
  <2>1. InstanceInit
    BY DEF Init
  <2>2. msgs \in Seq(TheItems) /\ serving \in TheItems
    BY <2>1, DummyType DEF InstanceInit
  <2>3. m_reader_sem \in Nat /\ s_writer_sem \in Nat
    BY <2>1 DEF InstanceInit
  <2> QED
    BY <2>1, <2>2, <2>3 DEF InstanceInit, InstanceTypeOK, TheItems
<1> QED
  BY <1>1, <1>2, <1>3 DEF TypeOK

(* A caller that moves keeps the types of the callers.                      *)
LEMMA GotoType ==
  ASSUME ClientTypeOK, NEW c \in Callers,
         NEW where \in InTurn \union {"idle", "turn", "wait"}, Goto(c, where)
  PROVE  /\ pc' \in [Callers -> InTurn \union {"idle", "turn", "wait"}]
         /\ kind' \in [Callers -> Kinds]
         /\ uid' \in [Callers -> 0..MaxUid]
  BY ClientAssumption DEF ClientTypeOK, Goto, Kinds

(* Where call() returns to is a position of a caller.                       *)
LEMMA AfterCallType ==
  ASSUME NEW c \in Callers
  PROVE  AfterCall(c) \in InTurn \union {"idle", "turn", "wait"}
  BY DEF AfterCall

(* The client keeps the types.                                              *)
LEMMA ClientTypeStep ==
  ASSUME TypeOK, ClientNext, UNCHANGED instanceVars
  PROVE  TypeOK'
<1> USE DEF TypeOK
<1>i. InstanceTypeOK(MaxInc, MaxUid)'
  BY DEF instanceVars, semVars, InstanceTypeOK, Items
<1> SUFFICES PipesTypeOK(MaxInc, MaxUid)' /\ ClientTypeOK'
  BY <1>i
<1>f. fifo \in [{"req", "rep"} -> Seq(TheItems)] /\ fds \subseteq Descriptors
  BY DEF PipesTypeOK, TheItems
<1>g. ASSUME fds' \subseteq Descriptors, fifo' \in [{"req", "rep"} -> Seq(TheItems)],
             UNCHANGED names
      PROVE  PipesTypeOK(MaxInc, MaxUid)'
  BY <1>g DEF PipesTypeOK, TheItems, Items
<1>h. UNCHANGED pipeVars => PipesTypeOK(MaxInc, MaxUid)'
  BY DEF pipeVars, PipesTypeOK, Items
<1>m. ASSUME NEW c \in Callers, NEW where \in InTurn \union {"idle", "turn", "wait"},
             CallerMoves(c, where), owed' \subseteq 0..MaxUid
      PROVE  ClientTypeOK'
  <2>1. Goto(c, where)
    BY <1>m DEF CallerMoves
  <2> QED
    BY <1>m, <2>1, GotoType DEF CallerMoves, ClientTypeOK
<1>n. ASSUME NEW c \in Callers, NEW where \in InTurn \union {"idle", "turn", "wait"},
             Moves(c, where)
      PROVE  ClientTypeOK'
  BY <1>n, <1>m DEF Moves, ClientTypeOK
<1>1. ASSUME NEW c \in Callers, NEW k \in Kinds, StartCall(c, k)
      PROVE  PipesTypeOK(MaxInc, MaxUid)' /\ ClientTypeOK'
  <2>1. UNCHANGED pipeVars
    BY <1>1 DEF StartCall
  <2>2. timestamp' \in 1..MaxUid
    BY <1>1, ClientAssumption DEF StartCall, ClientTypeOK
  <2> QED
    BY <1>1, <1>h, <2>1, <2>2 DEF StartCall, ClientTypeOK, replyVars
<1>2. ASSUME NEW c \in Callers, TakeTurn(c)
      PROVE  PipesTypeOK(MaxInc, MaxUid)' /\ ClientTypeOK'
  <2>1. UNCHANGED pipeVars /\ Goto(c, "open") /\ "open" \in InTurn
    BY <1>2 DEF TakeTurn, InTurn
  <2> QED
    BY <1>2, <1>h, <2>1, GotoType DEF TakeTurn, ClientTypeOK, replyVars
<1>3. ASSUME NEW c \in Callers, OpenRequest(c)
      PROVE  PipesTypeOK(MaxInc, MaxUid)' /\ ClientTypeOK'
  <2>1. Moves(c, "write") /\ "write" \in InTurn
    BY <1>3 DEF OpenRequest, InTurn
  <2>2. PipesBecome(fds \union {<<"client", "w", "req">>}, fifo) /\ UNCHANGED names
    BY <1>3 DEF OpenRequest, OpenFds
  <2> QED
    BY <1>f, <1>g, <1>n, <2>1, <2>2, PipesType, DescriptorTypes
<1>4. ASSUME NEW c \in Callers, WriteRequest(c)
      PROVE  PipesTypeOK(MaxInc, MaxUid)' /\ ClientTypeOK'
  <2>1. inc \in 0..MaxInc /\ uid[c] \in 0..MaxUid
    BY ClientAssumption DEF ClientTypeOK
  <2>2. Append1("req", Call(inc, uid[c])) \in [{"req", "rep"} -> Seq(TheItems)]
    BY <2>1, <1>f, ItemTypes, AppendType
  <2>3. PipesTypeOK(MaxInc, MaxUid)'
    BY <1>4, <1>f, <1>g, <2>2, PipesType DEF WriteRequest
  <2>4. (IF m_shutting_down THEN AfterCall(c) ELSE "reply")
          \in InTurn \union {"idle", "turn", "wait"}
    BY AfterCallType DEF InTurn
  <2>5. CallerMoves(c, IF m_shutting_down THEN AfterCall(c) ELSE "reply")
    BY <1>4 DEF WriteRequest
  <2>6. owed' \subseteq 0..MaxUid
    BY <1>4, <2>1 DEF WriteRequest, ClientTypeOK
  <2> QED
    BY <1>m, <2>3, <2>4, <2>5, <2>6
<1>5. ASSUME NEW c \in Callers, OpenReply(c)
      PROVE  PipesTypeOK(MaxInc, MaxUid)' /\ ClientTypeOK'
  <2>1. CASE names
    <3>1. Moves(c, "header") /\ "header" \in InTurn
      BY <1>5, <2>1 DEF OpenReply, InTurn
    <3>2. PipesBecome(fds \union {<<"client", "r", "rep">>}, fifo) /\ UNCHANGED names
      BY <1>5, <2>1 DEF OpenReply, OpenFds
    <3> QED
      BY <1>f, <1>g, <1>n, <3>1, <3>2, PipesType, DescriptorTypes
  <2>2. CASE ~names
    <3>1. UNCHANGED pipeVars /\ Moves(c, AfterCall(c))
      BY <1>5, <2>2 DEF OpenReply, pipeVars
    <3> QED
      BY <1>h, <1>n, <3>1, AfterCallType
  <2> QED
    BY <2>1, <2>2
<1>6. ASSUME NEW c \in Callers, ReadHeader(c)
      PROVE  PipesTypeOK(MaxInc, MaxUid)' /\ ClientTypeOK'
  <2>1. Moves(c, "body") /\ "body" \in InTurn /\ UNCHANGED pipeVars
    BY <1>6 DEF ReadHeader, InTurn
  <2> QED
    BY <2>1, <1>h, <1>n
<1>7. ASSUME NEW c \in Callers, ReadReply(c)
      PROVE  PipesTypeOK(MaxInc, MaxUid)' /\ ClientTypeOK'
  <2> DEFINE r == Head(fifo.rep)
  <2>1. /\ Drop1("rep") \in [{"req", "rep"} -> Seq(TheItems)]
        /\ r \in TheItems
    BY <1>7, <1>f, DropType DEF ReadReply
  <2>2. PipesTypeOK(MaxInc, MaxUid)'
    BY <1>7, <1>f, <1>g, <2>1, PipesType DEF ReadReply
  <2>3. r.inc \in 0..MaxInc
    BY <2>1 DEF TheItems, Items
  <2>4. owed' \subseteq 0..MaxUid
    BY <1>7 DEF ReadReply, ClientTypeOK
  <2>5. CASE ReplyKnown(c, r.uid, r.inc) /\ r.uid \in m_cb
    <3>1. Goto(c, AfterCall(c))
      BY <2>5 DEF ReplyKnown
    <3>2. r.uid \in 1..MaxUid
      BY <2>5 DEF ClientTypeOK
    <3>3. answers' \subseteq (1..MaxUid) \X (0..MaxInc)
      BY <2>3, <2>5, <3>2 DEF ReplyKnown, ClientTypeOK
    <3> QED
      BY <2>2, <2>4, <2>5, <3>1, <3>3, GotoType, AfterCallType DEF ReplyKnown, ClientTypeOK
  <2>6. CASE ReplyUnknown(c)
    <3>1. Goto(c, AfterCall(c))
      BY <2>6 DEF ReplyUnknown
    <3> QED
      BY <2>2, <2>4, <2>6, <3>1, GotoType, AfterCallType DEF ReplyUnknown, ClientTypeOK
  <2> QED
    BY <1>7, <2>5, <2>6 DEF ReadReply
<1>8. ASSUME NEW c \in Callers, FinishSync(c)
      PROVE  PipesTypeOK(MaxInc, MaxUid)' /\ ClientTypeOK'
  <2>1. Goto(c, "idle") /\ UNCHANGED pipeVars
    BY <1>8 DEF FinishSync
  <2> QED
    BY <1>8, <1>h, <2>1, GotoType DEF FinishSync, ClientTypeOK
<1>9. ASSUME Stop \/ AnnounceShutdown
      PROVE  PipesTypeOK(MaxInc, MaxUid)' /\ ClientTypeOK'
  <2>1. UNCHANGED pipeVars
    BY <1>9 DEF Stop, AnnounceShutdown
  <2>2. CASE Stop
    <3>1. m_writer_sem' \in Nat
      BY <2>2 DEF Stop, ClientTypeOK
    <3> QED
      BY <2>2, <1>h, <2>1, <3>1 DEF Stop, ClientTypeOK, callVars, replyVars
  <2>3. CASE AnnounceShutdown
    BY <2>3, <1>h, <2>1 DEF AnnounceShutdown, ClientTypeOK, callVars, replyVars
  <2> QED
    BY <1>9, <2>2, <2>3
<1>10. ASSUME ClientEnds
       PROVE  PipesTypeOK(MaxInc, MaxUid)' /\ ClientTypeOK'
  <2>1. PipesBecome(fds \ FdsOf("client"), fifo) /\ UNCHANGED names
    BY <1>10 DEF ClientEnds, CloseFds
  <2>2. PipesTypeOK(MaxInc, MaxUid)'
    BY <1>f, <1>g, <2>1, PipesType
  <2>3. inc' \in 1..MaxInc
    BY <1>10, ClientAssumption DEF ClientEnds, Fresh, ClientTypeOK
  <2>4. Fresh(inc + 1) /\ orphan' \in BOOLEAN
    BY <1>10 DEF ClientEnds, ClientTypeOK
  <2>5. "idle" \in InTurn \union {"idle", "turn", "wait"} /\ "plain" \in Kinds
    BY DEF Kinds
  <2>6. /\ pc' \in [Callers -> InTurn \union {"idle", "turn", "wait"}]
        /\ kind' \in [Callers -> Kinds]
        /\ uid' \in [Callers -> 0..MaxUid]
    BY <2>4, <2>5, ClientAssumption DEF Fresh
  <2>7. timestamp' \in 0..MaxUid /\ m_writer_sem' \in Nat
    BY <2>4, ClientAssumption DEF Fresh
  <2> QED
    BY <2>2, <2>3, <2>4, <2>6, <2>7 DEF Fresh, ClientTypeOK
<1> QED
  BY <1>1, <1>2, <1>3, <1>4, <1>5, <1>6, <1>7, <1>8, <1>9, <1>10
  DEF ClientNext, CallerStep

(* A write through fd_write keeps the types, whatever becomes of it.        *)
LEMMA WriteFdType ==
  ASSUME TypeOK, NEW m \in TheItems, WriteFd(m)
  PROVE  /\ fds' \subseteq Descriptors
         /\ fifo' \in [{"req", "rep"} -> Seq(TheItems)]
         /\ proc' \in {"up", "killed"}
<1>1. /\ fifo \in [{"req", "rep"} -> Seq(TheItems)]
      /\ fds \subseteq Descriptors
      /\ proc \in {"up", "killed"}
  BY DEF TypeOK, PipesTypeOK, InstanceTypeOK, TheItems
<1>2. CASE FdWrite \notin fds
  BY <1>1, <1>2 DEF WriteFd
<1>3. CASE FdWrite \in fds /\ HasReader(fd_write)
  <2>1. fd_write \in {"req", "rep"}
    BY <1>1, <1>3 DEF FdWrite, Descriptors
  <2>2. Append1(fd_write, m) \in [{"req", "rep"} -> Seq(TheItems)]
    BY <1>1, <2>1, AppendType
  <2> QED
    BY <1>1, <1>3, <2>2, PipesType DEF WriteFd
<1>4. CASE FdWrite \in fds /\ ~HasReader(fd_write)
  <2>1. PipesBecome(fds \ FdsOf("server"), fifo) /\ proc' = "killed"
    BY <1>4 DEF WriteFd, CloseFds
  <2> QED
    BY <1>1, <2>1, PipesType
<1> QED
  BY <1>2, <1>3, <1>4

(* The instance keeps the types.                                            *)
LEMMA InstanceTypeStep ==
  ASSUME TypeOK, InstanceNext, UNCHANGED clientVars
  PROVE  TypeOK'
<1>c. ClientTypeOK'
  BY DEF TypeOK, clientVars, callVars, replyVars, ClientTypeOK
<1>f. /\ fifo \in [{"req", "rep"} -> Seq(TheItems)]
      /\ fds \subseteq Descriptors
      /\ names \in BOOLEAN
  BY DEF TypeOK, PipesTypeOK, TheItems
<1> DEFINE InstOK == InstanceTypeOK(MaxInc, MaxUid)
<1> SUFFICES /\ fds' \subseteq Descriptors
             /\ fifo' \in [{"req", "rep"} -> Seq(TheItems)]
             /\ names' \in BOOLEAN
             /\ InstOK'
  BY <1>c DEF TypeOK, PipesTypeOK, TheItems, Items
<1>t. /\ InstOK
      /\ msgs \in Seq(TheItems)
      /\ serving \in TheItems
  BY DEF TypeOK, InstanceTypeOK, TheItems
<1>s. ASSUME NEW on \in {"req", "rep"},
             PipesBecome(fds \union {<<"server", "w", on>>}, fifo)
      PROVE  fds' \subseteq Descriptors /\ fifo' \in [{"req", "rep"} -> Seq(TheItems)]
  BY <1>f, <1>s, PipesType, DescriptorTypes
<1>r. ASSUME NEW gone, NEW data \in [{"req", "rep"} -> Seq(TheItems)],
             PipesBecome(fds \ gone, data)
      PROVE  fds' \subseteq Descriptors /\ fifo' \in [{"req", "rep"} -> Seq(TheItems)]
  BY <1>f, <1>r, PipesType
<1>k. ASSUME UNCHANGED <<fifo, fds>>
      PROVE  fds' \subseteq Descriptors /\ fifo' \in [{"req", "rep"} -> Seq(TheItems)]
  BY <1>k, <1>f
<1>1. CASE UNCHANGED names /\ (Accept \/ FinalizeFirst \/ DtorStart)
  BY <1>1, <1>f, <1>t, <1>k
  DEF Accept, SpawnClient, FinalizeFirst, DtorStart, semVars, InstanceTypeOK
<1>2. CASE UNCHANGED names /\ (ReqTop \/ ReqHeader \/ RepTop \/ RepWait)
  BY <1>2, <1>f, <1>t, <1>k
  DEF ReqTop, ReqHeader, RepTop, RepWait, semVars, InstanceTypeOK
<1>3. CASE UNCHANGED names /\ ReqWait
  <2>1. PipesBecome(fds \union {<<"server", "r", "req">>}, fifo)
    BY <1>3 DEF ReqWait, OpenFds
  <2>2. fds' \subseteq Descriptors /\ fifo' \in [{"req", "rep"} -> Seq(TheItems)]
    BY <1>f, <2>1, PipesType, DescriptorTypes
  <2> QED
    BY <1>3, <1>f, <1>t, <2>2 DEF ReqWait, InstanceTypeOK
<1>4. CASE UNCHANGED names /\ ReqDummy
  <2>0. fifo["req"] # <<>>
    BY <1>4 DEF ReqDummy
  <2>1. Drop1("req") \in [{"req", "rep"} -> Seq(TheItems)]
    BY <2>0, <1>f, DropType
  <2>2. fds' \subseteq Descriptors /\ fifo' \in [{"req", "rep"} -> Seq(TheItems)]
    BY <1>4, <1>f, <2>1, PipesType DEF ReqDummy
  <2> QED
    BY <1>4, <1>f, <1>t, <2>2 DEF ReqDummy, InstanceTypeOK
<1>5. CASE UNCHANGED names /\ ReqBody
  <2>1. /\ Drop1("req") \in [{"req", "rep"} -> Seq(TheItems)]
        /\ Head(fifo.req) \in TheItems
    BY <1>5, <1>f, DropType DEF ReqBody
  <2>2. fds' \subseteq Descriptors /\ fifo' \in [{"req", "rep"} -> Seq(TheItems)]
    BY <1>5, <1>r, <2>1 DEF ReqBody, TakeRequest
  <2>3. msgs' \in Seq(TheItems)
    BY <1>5, <1>t, <2>1 DEF ReqBody
  <2> QED
    BY <1>5, <1>f, <1>t, <2>2, <2>3 DEF ReqBody, InstanceTypeOK, TheItems
<1>6. CASE UNCHANGED names /\ ReqGarbled
  <2>1. [fifo EXCEPT !.req = Tail(Tail(@))] \in [{"req", "rep"} -> Seq(TheItems)]
    <3> DEFINE rest == Tail(fifo.req)
    <3>1. fifo.req \in Seq(TheItems) /\ fifo.req # <<>> /\ Len(fifo.req) > 1
      BY <1>6, <1>f DEF ReqGarbled, StartsWith
    <3>2. rest \in Seq(TheItems) /\ rest # <<>>
      BY <3>1, MoreThanOne, Zenon
    <3>3. Tail(rest) \in Seq(TheItems)
      BY <3>2
    <3> QED
      BY <1>f, <3>3
  <2>2. fds' \subseteq Descriptors /\ fifo' \in [{"req", "rep"} -> Seq(TheItems)]
    <3>1. \E gone : PipesBecome(fds \ gone, [fifo EXCEPT !.req = Tail(Tail(@))])
      BY <1>6, Zenon DEF ReqGarbled, TakeRequest
    <3> QED
      BY <1>r, <2>1, <3>1
  <2>3. msgs' \in Seq(TheItems)
    BY <1>6, <1>t, DummyType DEF ReqGarbled
  <2> QED
    BY <1>6, <1>f, <1>t, <2>2, <2>3 DEF ReqGarbled, InstanceTypeOK, TheItems
<1>7. CASE UNCHANGED names /\ RepPop
  <2>1. serving' \in TheItems /\ msgs' \in Seq(TheItems)
    BY <1>7, <1>t DEF RepPop
  <2> QED
    BY <1>7, <1>f, <1>t, <1>k, <2>1 DEF RepPop, semVars, InstanceTypeOK, TheItems
<1>8. CASE UNCHANGED names /\ (RepExec \/ DtorClose)
  <2>1. fds' \subseteq Descriptors /\ fifo' \in [{"req", "rep"} -> Seq(TheItems)]
    BY <1>8, <1>f, <1>r DEF RepExec, DtorClose, CloseWrite, CloseFds
  <2> QED
    BY <1>8, <1>f, <1>t, <2>1 DEF RepExec, DtorClose, CloseWrite, semVars, InstanceTypeOK
<1>9. CASE UNCHANGED names /\ (RepOpen \/ DtorOpen)
  <2>1. fds' \subseteq Descriptors /\ fifo' \in [{"req", "rep"} -> Seq(TheItems)]
    BY <1>9, <1>s DEF RepOpen, DtorOpen, OpenWrite, OpenFds
  <2> QED
    BY <1>9, <1>f, <1>t, <2>1 DEF RepOpen, DtorOpen, OpenWrite, semVars, InstanceTypeOK
<1>10. CASE UNCHANGED names /\ RepWrite
  <2>1. Reply(serving.inc, serving.uid) \in TheItems
    BY <1>t, ItemTypes DEF TheItems, Items
  <2> QED
    BY <1>10, <1>f, <1>t, <2>1, WriteFdType, DummyType DEF RepWrite, InstanceTypeOK, TheItems
<1>11. CASE UNCHANGED names /\ DtorWrite
  BY <1>11, <1>f, <1>t, WriteFdType, DummyType DEF DtorWrite, semVars, InstanceTypeOK
<1>12. CASE DtorJoin
  <2>1. fds' \subseteq Descriptors /\ fifo' \in [{"req", "rep"} -> Seq(TheItems)]
    BY <1>12, <1>f, <1>r DEF DtorJoin, CleanFds, CloseFds
  <2> QED
    BY <1>12, <1>t, <2>1 DEF DtorJoin, CleanFds, semVars, InstanceTypeOK
<1> QED
  BY <1>1, <1>2, <1>3, <1>4, <1>5, <1>6, <1>7, <1>8, <1>9, <1>10, <1>11, <1>12
  DEF InstanceNext, WorkerReq, WorkerRep, DtorGoesOn

(* Every variable of the macOS client and instance stays in its type, for   *)
(* any callers, calls and client processes.                                 *)
THEOREM TypeCorrect == Spec => []TypeOK
<1>1. TypeOK /\ [Next]_vars => TypeOK'
  <2> SUFFICES ASSUME TypeOK, [Next]_vars PROVE TypeOK'
    OBVIOUS
  <2>1. CASE ClientStep
    BY <2>1, ClientTypeStep DEF ClientStep
  <2>2. CASE ServerStep
    BY <2>2, InstanceTypeStep DEF ServerStep
  <2>3. CASE UNCHANGED vars
    BY <2>3 DEF vars, pipeVars, clientVars, callVars, replyVars, instanceVars, semVars,
                TypeOK, PipesTypeOK, ClientTypeOK, InstanceTypeOK, Items
  <2> QED
    BY <2>1, <2>2, <2>3 DEF Next
<1> QED
  BY <1>1, TypeInit, PTL DEF Spec

-----------------------------------------------------------------------------
(* The instance: one baton for two threads.                                 *)

Reading == rqpc \in {"header", "body"}
Replying == rppc \in {"pop", "exec", "open", "write"}

Calls == {i \in TheItems : i.type = "call"}
NotReplies == {i \in TheItems : i.type # "reply"}
Replies == {i \in TheItems : i.type = "reply"}

\* A post of either semaphore, a read and a reply exclude each other.
OneBaton ==
  /\ m_reader_sem + s_writer_sem <= 1
  /\ Reading \/ Replying => m_reader_sem = 0 /\ s_writer_sem = 0
  /\ ~(Reading /\ Replying)

\* Until the destructor has written its byte, what is posted was pushed.
Posted ==
  /\ rppc = "pop" => msgs # <<>>
  /\ ~m_stopWorkers /\ s_writer_sem = 1 => msgs # <<>>
  /\ dpc \notin {"join", "done"} => fifo["req"] \in Seq(Calls)
  /\ dpc \notin {"none", "never", "no"} => m_stopWorkers

\* A thread between the open() and the write() of a message owns fd_write.
OwnFd ==
  /\ dpc = "none" => rqpc = "new" /\ rppc = "new"
  /\ rppc = "write" => fd_write = "rep"
  /\ dpc = "write" => fd_write = "req"
  /\ dpc \in {"write", "join", "done"} => ~Replying
  /\ <<"client", "r", "req">> \notin fds
  /\ <<"server", "r", "req">> \in fds => Reading \/ dpc \in {"join", "done"}

Typed == fifo["req"] \in Seq(NotReplies) /\ fifo["rep"] \in Seq(Replies)

Handover == OneBaton /\ Posted /\ OwnFd /\ Typed

(* The baton is in m_reader_sem at first.                                   *)
LEMMA HandoverInit == Init => Handover
  BY DEF Init, PipesInit, InstanceInit, Handover, OneBaton, Posted, OwnFd, Typed,
         Reading, Replying

(* The rest of a sequence, and its first element, are of its elements.       *)
LEMMA TailType ==
  ASSUME NEW S, NEW s \in Seq(S), s # <<>>
  PROVE  Tail(s) \in Seq(S) /\ Head(s) \in S
  OBVIOUS

(* A sequence of two or more has a rest.                                    *)
LEMMA TailIsLeft ==
  ASSUME NEW S, NEW s \in Seq(S), Len(s) > 1
  PROVE  Tail(s) # <<>>
<1>1. s # <<>>
  OBVIOUS
<1>2. Len(Tail(s)) = Len(s) - 1
  BY <1>1, HeadTailProperties
<1>3. Tail(s) \in Seq(S)
  BY <1>1, TailType
<1>4. Len(Tail(s)) # 0
  <2>1. Len(s) \in Nat
    OBVIOUS
  <2>2. \A n \in Nat : n > 1 => n - 1 # 0
    OBVIOUS
  <2>3. Len(s) - 1 # 0
    BY <2>1, <2>2
  <2> QED
    BY <1>2, <2>3, Zenon
<1> QED
  BY <1>3, <1>4, EmptySeq

(* What is discarded keeps a FIFO's kind.                                    *)
LEMMA PipesKeep ==
  ASSUME NEW S, NEW open, NEW on \in {"req", "rep"}, NEW data,
         data[on] \in Seq(S), PipesBecome(open, data)
  PROVE  fifo'[on] \in Seq(S)
  BY DEF PipesBecome

(* Calls and replies are of their kinds.                                    *)
LEMMA ItemKinds ==
  ASSUME NEW i \in 0..MaxInc, NEW u \in 0..MaxUid
  PROVE  Call(i, u) \in Calls /\ Call(i, u) \in NotReplies /\ Reply(i, u) \in Replies
  BY ItemTypes DEF Call, Reply, Calls, NotReplies, Replies

(* The dummy is no reply.                                                   *)
LEMMA DummyKind == Dummy \in NotReplies
  BY DummyType DEF Dummy, NotReplies

(* The client writes calls and takes replies, and reads no request.         *)
LEMMA ClientPipes ==
  ASSUME TypeOK, Handover, ClientNext
  PROVE  /\ \A S \in {Calls, NotReplies} :
              fifo["req"] \in Seq(S) => fifo'["req"] \in Seq(S)
         /\ fifo'["rep"] \in Seq(Replies)
         /\ <<"client", "r", "req">> \notin fds'
         /\ <<"server", "r", "req">> \in fds' => <<"server", "r", "req">> \in fds
<1> DEFINE Goal ==
       /\ \A S \in {Calls, NotReplies} :
            fifo["req"] \in Seq(S) => fifo'["req"] \in Seq(S)
       /\ fifo'["rep"] \in Seq(Replies)
       /\ <<"client", "r", "req">> \notin fds'
       /\ <<"server", "r", "req">> \in fds' => <<"server", "r", "req">> \in fds
<1>f. /\ fifo \in [{"req", "rep"} -> Seq(TheItems)]
      /\ fifo["rep"] \in Seq(Replies)
      /\ <<"client", "r", "req">> \notin fds
  BY DEF TypeOK, PipesTypeOK, Handover, Typed, OwnFd, TheItems
<1>p. ASSUME NEW open, PipesBecome(open, fifo),
             <<"client", "r", "req">> \notin open,
             <<"server", "r", "req">> \in open => <<"server", "r", "req">> \in fds
      PROVE  Goal
  <2>1. fds' = open
    BY <1>p DEF PipesBecome
  <2> QED
    BY <1>f, <1>p, <2>1, PipesKeep
<1>u. UNCHANGED <<fifo, fds>> => Goal
  BY <1>f
<1>1. ASSUME NEW c \in Callers, NEW k \in Kinds, StartCall(c, k)
      PROVE  Goal
  BY <1>1, <1>u DEF StartCall, pipeVars
<1>2. ASSUME NEW c \in Callers, TakeTurn(c) \/ ReadHeader(c) \/ FinishSync(c)
      PROVE  Goal
  BY <1>2, <1>u DEF TakeTurn, ReadHeader, FinishSync, pipeVars
<1>3. ASSUME Stop \/ AnnounceShutdown
      PROVE  Goal
  BY <1>3, <1>u DEF Stop, AnnounceShutdown, pipeVars
<1>4. ASSUME NEW c \in Callers, OpenRequest(c) PROVE Goal
  <2>1. PipesBecome(fds \union {<<"client", "w", "req">>}, fifo)
    BY <1>4 DEF OpenRequest, OpenFds
  <2> QED
    BY <1>f, <1>p, <2>1
<1>5. ASSUME NEW c \in Callers, OpenReply(c) PROVE Goal
  <2>1. CASE PipesBecome(fds \union {<<"client", "r", "rep">>}, fifo)
    BY <1>f, <1>p, <2>1
  <2> QED
    BY <1>5, <1>u, <2>1 DEF OpenReply, OpenFds
<1>6. ASSUME ClientEnds PROVE Goal
  <2>1. PipesBecome(fds \ FdsOf("client"), fifo)
    BY <1>6 DEF ClientEnds, CloseFds
  <2> QED
    BY <1>f, <1>p, <2>1
<1>7. ASSUME NEW c \in Callers, WriteRequest(c) PROVE Goal
  <2> DEFINE d == Append1("req", Call(inc, uid[c]))
  <2>1. PipesBecome(fds, d)
    BY <1>7 DEF WriteRequest
  <2>2. Call(inc, uid[c]) \in Calls /\ Call(inc, uid[c]) \in NotReplies
    BY ItemKinds, ClientAssumption DEF TypeOK, ClientTypeOK
  <2>3. d["rep"] = fifo["rep"] /\ d["req"] = Append(fifo["req"], Call(inc, uid[c]))
    BY <1>f DEF Append1
  <2>a. ASSUME NEW S, Call(inc, uid[c]) \in S, fifo["req"] \in Seq(S)
        PROVE  d["req"] \in Seq(S)
    BY <2>a, <2>3
  <2>4. \A S \in {Calls, NotReplies} : fifo["req"] \in Seq(S) => d["req"] \in Seq(S)
    BY <2>2, <2>a
  <2>5. fds' = fds
    BY <2>1 DEF PipesBecome
  <2> QED
    BY <1>f, <2>1, <2>3, <2>4, <2>5, PipesKeep
<1>8. ASSUME NEW c \in Callers, ReadReply(c) PROVE Goal
  <2> DEFINE d == Drop1("rep")
  <2>1. PipesBecome(fds \ {<<"client", "r", "rep">>}, d) /\ fifo["rep"] # <<>>
    BY <1>8 DEF ReadReply
  <2>2. d["req"] = fifo["req"] /\ d["rep"] = Tail(fifo["rep"])
    BY <1>f DEF Drop1
  <2>3. d["rep"] \in Seq(Replies)
    BY <1>f, <2>1, <2>2, TailType
  <2>4. fds' = fds \ {<<"client", "r", "rep">>}
    BY <2>1 DEF PipesBecome
  <2> QED
    BY <1>f, <2>1, <2>2, <2>3, <2>4, PipesKeep
<1> QED
  BY <1>1, <1>2, <1>3, <1>4, <1>5, <1>6, <1>7, <1>8 DEF ClientNext, CallerStep

(* The client leaves the baton alone.                                       *)
LEMMA HandoverClient ==
  ASSUME TypeOK, Handover, ClientNext, UNCHANGED instanceVars
  PROVE  Handover'
  BY ClientPipes
  DEF Handover, OneBaton, Posted, OwnFd, Typed, Reading, Replying, instanceVars, semVars

(* A write reaches the FIFO that fd_write names, or none.                   *)
LEMMA WriteFdKeeps ==
  ASSUME TypeOK, NEW m, WriteFd(m), NEW S, NEW on \in {"req", "rep"},
         fifo[on] \in Seq(S), fd_write = on => m \in S
  PROVE  fifo'[on] \in Seq(S) /\ fds' \subseteq fds
<1>1. fifo \in [{"req", "rep"} -> Seq(TheItems)] /\ fds \subseteq Descriptors
  BY DEF TypeOK, PipesTypeOK, TheItems
<1>2. CASE FdWrite \notin fds
  BY <1>2 DEF WriteFd
<1>3. CASE FdWrite \in fds /\ HasReader(fd_write)
  <2> DEFINE d == Append1(fd_write, m)
  <2>1. PipesBecome(fds, d)
    BY <1>3 DEF WriteFd
  <2>2. fd_write \in {"req", "rep"}
    BY <1>1, <1>3 DEF FdWrite, Descriptors
  <2>3. d[on] = IF fd_write = on THEN Append(fifo[on], m) ELSE fifo[on]
    BY <1>1, <2>2 DEF Append1
  <2>4. d[on] \in Seq(S)
    BY <2>3
  <2>5. fds' = fds
    BY <2>1 DEF PipesBecome
  <2> QED
    BY <2>1, <2>4, <2>5, PipesKeep
<1>4. CASE FdWrite \in fds /\ ~HasReader(fd_write)
  <2>1. PipesBecome(fds \ FdsOf("server"), fifo)
    BY <1>4 DEF WriteFd, CloseFds
  <2>2. fds' = fds \ FdsOf("server")
    BY <2>1 DEF PipesBecome
  <2> QED
    BY <2>1, <2>2, PipesKeep
<1> QED
  BY <1>2, <1>3, <1>4

(* A step of the instance hands the baton on or keeps it.                   *)
LEMMA HandoverServer ==
  ASSUME TypeOK, Handover, InstanceNext, UNCHANGED clientVars
  PROVE  Handover'
<1>t. /\ fifo \in [{"req", "rep"} -> Seq(TheItems)]
      /\ m_reader_sem \in Nat /\ s_writer_sem \in Nat
      /\ msgs \in Seq(TheItems) /\ serving \in TheItems
      /\ fd_write \in {"none", "req", "rep"}
  BY DEF TypeOK, PipesTypeOK, InstanceTypeOK, TheItems
<1>h. OneBaton /\ Posted /\ OwnFd /\ Typed
  BY DEF Handover
<1> SUFFICES OneBaton' /\ Posted' /\ OwnFd' /\ Typed'
  BY DEF Handover
\* Steps that change neither the FIFOs nor the descriptors on the request FIFO
\* but by taking some away.
<1>k. ASSUME NEW open, PipesBecome(open, fifo)
      PROVE  /\ fds' = open
             /\ Typed'
             /\ dpc \notin {"join", "done"} => fifo'["req"] \in Seq(Calls)
  <2>1. fds' = open
    BY <1>k DEF PipesBecome
  <2>2. \A S : fifo["req"] \in Seq(S) => fifo'["req"] \in Seq(S)
    BY <1>k, PipesKeep
  <2>3. \A S : fifo["rep"] \in Seq(S) => fifo'["rep"] \in Seq(S)
    BY <1>k, PipesKeep
  <2> QED
    BY <1>h, <2>1, <2>2, <2>3 DEF Typed, Posted
<1>1. CASE Accept \/ FinalizeFirst \/ DtorStart
  BY <1>1, <1>h
  DEF Accept, SpawnClient, FinalizeFirst, DtorStart, semVars, OneBaton, Posted,
      OwnFd, Typed, Reading, Replying
<1>2. CASE ReqTop \/ RepTop
  BY <1>2, <1>h
  DEF ReqTop, RepTop, semVars, OneBaton, Posted, OwnFd, Typed, Reading, Replying
<1>3. CASE ReqWait
  <2>1. PipesBecome(fds \union {<<"server", "r", "req">>}, fifo)
    BY <1>3 DEF ReqWait, OpenFds
  <2>2. OneBaton'
    BY <1>3, <1>t, <1>h DEF ReqWait, OneBaton, Reading, Replying
  <2>3. Posted' /\ OwnFd'
    BY <1>3, <1>h, <1>k, <2>1 DEF ReqWait, Posted, OwnFd, Reading, Replying
  <2> QED
    BY <1>k, <2>1, <2>2, <2>3
<1>4. CASE ReqHeader
  BY <1>4, <1>h
  DEF ReqHeader, semVars, OneBaton, Posted, OwnFd, Typed, Reading, Replying
<1>5. CASE ReqDummy
  <2> DEFINE d == Drop1("req")
  <2>1. PipesBecome(fds, d)
    BY <1>5 DEF ReqDummy
  <2>2. fifo["req"] = <<Dummy>>
    BY <1>5 DEF ReqDummy
  <2>3. dpc \in {"join", "done"}
    <3> SUFFICES ASSUME fifo["req"] \in Seq(Calls) PROVE FALSE
      BY <1>h DEF Posted
    <3>1. Head(fifo["req"]) \in Calls
      BY <2>2
    <3> QED
      BY <2>2, <3>1 DEF Dummy, Calls
  <2>4. d["req"] = Tail(fifo["req"]) /\ d["rep"] = fifo["rep"]
    BY <1>t DEF Drop1
  <2>5. d["req"] \in Seq(NotReplies) /\ d["rep"] \in Seq(Replies)
    <3>1. fifo["req"] # <<>>
      BY <2>2
    <3> QED
      BY <1>h, <2>4, <3>1, TailType DEF Typed
  <2>6. Typed'
    BY <2>1, <2>5, PipesKeep DEF Typed
  <2>7. fds' = fds
    BY <2>1 DEF PipesBecome
  <2>8. OneBaton'
    BY <1>5, <1>t, <1>h DEF ReqDummy, OneBaton, Reading, Replying
  <2>9. Posted' /\ OwnFd'
    BY <1>5, <1>h, <2>3, <2>7 DEF ReqDummy, Posted, OwnFd, Reading, Replying
  <2> QED
    BY <2>6, <2>8, <2>9
<1>6. CASE ReqBody
  <2> DEFINE d == Drop1("req")
  <2>1. PipesBecome(fds \ {<<"server", "r", "req">>}, d) /\ fifo["req"] # <<>>
    BY <1>6 DEF ReqBody, TakeRequest
  <2>2. d["req"] = Tail(fifo["req"]) /\ d["rep"] = fifo["rep"]
    BY <1>t DEF Drop1
  <2>3. d["req"] \in Seq(NotReplies) /\ d["rep"] \in Seq(Replies)
    BY <1>h, <2>1, <2>2, TailType DEF Typed
  <2>4. Typed'
    BY <2>1, <2>3, PipesKeep DEF Typed
  <2>5. fds' = fds \ {<<"server", "r", "req">>}
    BY <2>1 DEF PipesBecome
  <2>6. OneBaton'
    BY <1>6, <1>t, <1>h DEF ReqBody, OneBaton, Reading, Replying
  <2>7. dpc \notin {"join", "done"} => fifo'["req"] \in Seq(Calls)
    <3> SUFFICES ASSUME fifo["req"] \in Seq(Calls) PROVE fifo'["req"] \in Seq(Calls)
      BY <1>h DEF Posted
    <3>1. d["req"] \in Seq(Calls)
      BY <2>1, <2>2, TailType
    <3> QED
      BY <2>1, <3>1, PipesKeep
  <2>8. msgs' # <<>>
    BY <1>6, <1>t DEF ReqBody
  <2>9. Posted' /\ OwnFd'
    BY <1>6, <1>h, <2>5, <2>7, <2>8 DEF ReqBody, Posted, OwnFd, Reading, Replying
  <2> QED
    BY <2>4, <2>6, <2>9
<1>7. CASE ReqGarbled
  <2> DEFINE rest == Tail(fifo["req"])
             d == [fifo EXCEPT !["req"] = Tail(Tail(@))]
  <2>1. /\ fifo["req"] # <<>> /\ Head(fifo["req"]).type = "dummy"
        /\ Len(fifo["req"]) > 1
    BY <1>7 DEF ReqGarbled, StartsWith
  <2>0. PICK open : PipesBecome(open, d) /\ open \subseteq fds
                    /\ open \in {fds \ {<<"server", "r", "req">>}, fds \ FdsOf("server")}
    <3> HIDE DEF d
    <3>1. \/ PipesBecome(fds \ {<<"server", "r", "req">>}, d)
          \/ PipesBecome(fds \ FdsOf("server"), d)
      BY <1>7 DEF ReqGarbled, TakeRequest, d
    <3> QED
      BY <3>1
  <2>2. d["req"] = Tail(rest) /\ d["rep"] = fifo["rep"]
    BY <1>t
  <2>3. rest \in Seq(NotReplies) /\ rest # <<>>
    <3>1. fifo["req"] \in Seq(NotReplies)
      BY <1>h DEF Typed
    <3>2. rest \in Seq(NotReplies)
      BY <2>1, <3>1, TailType
    <3>3. rest # <<>>
      BY <2>1, <3>1, TailIsLeft
    <3> QED
      BY <3>2, <3>3
  <2>4. d["req"] \in Seq(NotReplies) /\ d["rep"] \in Seq(Replies)
    BY <1>h, <2>2, <2>3, TailType DEF Typed
  <2>5. Typed'
    BY <2>0, <2>4, PipesKeep DEF Typed
  <2>6. dpc \in {"join", "done"}
    <3> SUFFICES ASSUME fifo["req"] \in Seq(Calls) PROVE FALSE
      BY <1>h DEF Posted
    <3>1. Head(fifo["req"]) \in Calls
      BY <2>1
    <3> QED
      BY <2>1, <3>1 DEF Calls
  <2>7. fds' \subseteq fds
    BY <2>0 DEF PipesBecome
  <2>8. OneBaton'
    BY <1>7, <1>t, <1>h DEF ReqGarbled, OneBaton, Reading, Replying
  <2>9. Posted' /\ OwnFd'
    BY <1>7, <1>t, <1>h, <2>6, <2>7 DEF ReqGarbled, Posted, OwnFd, Reading, Replying
  <2> QED
    BY <2>5, <2>8, <2>9
<1>8. CASE RepWait
  <2>1. OneBaton'
    BY <1>8, <1>t, <1>h DEF RepWait, OneBaton, Reading, Replying
  <2>2. s_writer_sem = 1
    BY <1>8, <1>t, <1>h DEF RepWait, OneBaton
  <2>3. Posted' /\ OwnFd' /\ Typed'
    BY <1>8, <1>t, <1>h, <2>2 DEF RepWait, Posted, OwnFd, Typed, Reading, Replying
  <2> QED
    BY <2>1, <2>3
<1>9. CASE RepPop
  <2>1. s_writer_sem = 0
    BY <1>9, <1>h DEF RepPop, OneBaton, Replying
  <2> QED
    BY <1>9, <1>h, <2>1
    DEF RepPop, semVars, OneBaton, Posted, OwnFd, Typed, Reading, Replying
<1>10. CASE RepExec \/ DtorClose
  <2>1. PipesBecome(fds \ {FdWrite}, fifo)
    BY <1>10 DEF RepExec, DtorClose, CloseWrite, CloseFds
  <2>2. OneBaton' /\ Posted' /\ OwnFd'
    BY <1>10, <1>h, <1>k, <2>1
    DEF RepExec, DtorClose, CloseWrite, semVars, OneBaton, Posted, OwnFd, Reading, Replying
  <2> QED
    BY <1>k, <2>1, <2>2
<1>11. CASE RepOpen
  <2>1. PipesBecome(fds \union {<<"server", "w", "rep">>}, fifo)
    BY <1>11 DEF RepOpen, OpenWrite, OpenFds
  <2>2. OneBaton' /\ Posted' /\ OwnFd'
    BY <1>11, <1>h, <1>k, <2>1
    DEF RepOpen, OpenWrite, semVars, OneBaton, Posted, OwnFd, Reading, Replying
  <2> QED
    BY <1>k, <2>1, <2>2
<1>12. CASE DtorOpen
  <2>1. PipesBecome(fds \union {<<"server", "w", "req">>}, fifo)
    BY <1>12 DEF DtorOpen, OpenWrite, OpenFds
  <2>2. Reading
    BY <1>12, <1>h DEF DtorOpen, OpenWrite, HasReader, OwnFd
  <2>3. ~Replying
    BY <1>h, <2>2 DEF OneBaton
  <2>4. OneBaton' /\ Posted' /\ OwnFd'
    BY <1>12, <1>h, <1>k, <2>1, <2>3
    DEF DtorOpen, OpenWrite, semVars, OneBaton, Posted, OwnFd, Reading, Replying
  <2> QED
    BY <1>k, <2>1, <2>4
<1>13. CASE RepWrite
  <2> DEFINE m == Reply(serving.inc, serving.uid)
  <2>1. WriteFd(m) /\ fd_write = "rep" /\ dpc \notin {"write", "join", "done"}
    BY <1>13, <1>h DEF RepWrite, OwnFd, Replying
  <2>2. m \in Replies
    BY <1>t, ItemKinds DEF TheItems, Items
  <2>3. fifo'["rep"] \in Seq(Replies) /\ fds' \subseteq fds
    BY <1>h, <2>1, <2>2, WriteFdKeeps DEF Typed
  <2>4. \A S : fifo["req"] \in Seq(S) => fifo'["req"] \in Seq(S)
    BY <2>1, WriteFdKeeps
  <2>5. Typed'
    BY <1>h, <2>3, <2>4 DEF Typed
  <2>6. OneBaton'
    BY <1>13, <1>t, <1>h DEF RepWrite, OneBaton, Reading, Replying
  <2>7. Posted' /\ OwnFd'
    BY <1>13, <1>h, <2>1, <2>3, <2>4 DEF RepWrite, Posted, OwnFd, Reading, Replying
  <2> QED
    BY <2>5, <2>6, <2>7
<1>14. CASE DtorWrite
  <2>1. WriteFd(Dummy) /\ fd_write = "req"
    BY <1>14, <1>h DEF DtorWrite, OwnFd
  <2>2. fifo'["req"] \in Seq(NotReplies) /\ fds' \subseteq fds
    BY <1>h, <2>1, WriteFdKeeps, DummyKind DEF Typed
  <2>3. fifo'["rep"] \in Seq(Replies)
    BY <1>h, <2>1, WriteFdKeeps DEF Typed
  <2>4. OneBaton' /\ Posted' /\ OwnFd'
    BY <1>14, <1>h, <2>2
    DEF DtorWrite, semVars, OneBaton, Posted, OwnFd, Reading, Replying
  <2> QED
    BY <2>2, <2>3, <2>4 DEF Typed
<1>15. CASE DtorJoin
  <2>1. PipesBecome(fds \ {FdWrite, <<"server", "r", "req">>}, fifo)
    BY <1>15 DEF DtorJoin, CleanFds, CloseFds
  <2>2. OneBaton' /\ Posted' /\ OwnFd'
    BY <1>15, <1>h, <1>k, <2>1
    DEF DtorJoin, semVars, OneBaton, Posted, OwnFd, Reading, Replying
  <2> QED
    BY <1>k, <2>1, <2>2
<1> QED
  BY <1>1, <1>2, <1>3, <1>4, <1>5, <1>6, <1>7, <1>8, <1>9, <1>10, <1>11, <1>12,
     <1>13, <1>14, <1>15
  DEF InstanceNext, WorkerReq, WorkerRep, DtorGoesOn

(* Every step keeps the handover.                                           *)
LEMMA HandoverStep == TypeOK /\ Handover /\ [Next]_vars => Handover'
<1> SUFFICES ASSUME TypeOK, Handover, [Next]_vars PROVE Handover'
  OBVIOUS
<1>1. CASE ClientStep
  BY <1>1, HandoverClient DEF ClientStep
<1>2. CASE ServerStep
  BY <1>2, HandoverServer DEF ServerStep
<1>3. CASE UNCHANGED vars
  BY <1>3 DEF vars, pipeVars, instanceVars, semVars, Handover, OneBaton, Posted, OwnFd,
              Typed, Reading, Replying
<1> QED
  BY <1>1, <1>2, <1>3 DEF Next

(* The two workers of the instance hand one baton to each other, and each   *)
(* FIFO holds messages of its own kind, for any clients and destructions.   *)
THEOREM HandoverHolds == Spec => []Handover
  BY TypeCorrect, HandoverInit, HandoverStep, PTL DEF Spec

(* worker_rep never pops an empty queue, whatever the client writes and      *)
(* whenever the destructor sends its byte.                                  *)
THEOREM PopsARequestHolds == Spec => []PopsARequest
<1>1. Handover => PopsARequest
  BY DEF Handover, Posted, PopsARequest
<1> QED
  BY <1>1, HandoverHolds, PTL

(* No reply gets into the request FIFO, and nothing but replies into the     *)
(* other, although two threads write through one descriptor.                *)
THEOREM StreamsUnmixedHolds == Spec => []StreamsUnmixed
<1>1. Handover => StreamsUnmixed
  BY DEF Handover, Typed, StreamsUnmixed, NotReplies, Replies
<1> QED
  BY <1>1, HandoverHolds, PTL

-----------------------------------------------------------------------------
(* The client: one turn for all callers.                                    *)

\* The turn is with the caller that took it, or with the caller whose callback
\* a reply ran: that one ends it when it comes to see its answer.
HasTurn(c) == pc[c] \in InTurn \/ (pc[c] \in {"turn", "wait"} /\ Answered(c))

OneTurn == m_socket =>
  /\ m_writer_sem <= 1
  /\ \A c \in Callers : HasTurn(c) => m_writer_sem = 0
  /\ \A c, d \in Callers : HasTurn(c) /\ HasTurn(d) => c = d
  /\ \A c \in Callers : pc[c] \in InTurn => ~Answered(c)

\* A process uses a uid once.
UidOnce ==
  /\ \A c \in Callers : pc[c] # "idle" => uid[c] \in 1..timestamp
  /\ \A c, d \in Callers :
       pc[c] # "idle" /\ pc[d] # "idle" /\ uid[c] = uid[d] => c = d
  /\ \A a \in answers : a[1] <= timestamp
  /\ m_cb \subseteq 1..timestamp

Turns == OneTurn /\ UidOnce

(* The turn is in m_writer_sem at first.                                    *)
LEMMA TurnsInit == Init => Turns
  BY DEF Init, ClientInit, Turns, OneTurn, UidOnce, HasTurn, InTurn, Answered

(* Without a new answer, a caller that goes on within its turn keeps it, and *)
(* one that leaves it gives it up.                                          *)
LEMMA TurnsMove ==
  ASSUME TypeOK, Turns, NEW c \in Callers, pc[c] \in InTurn,
         NEW where \in InTurn \union {"idle", "wait"}, CallerMoves(c, where)
  PROVE  Turns'
<1>t. /\ pc \in [Callers -> InTurn \union {"idle", "turn", "wait"}]
      /\ uid \in [Callers -> 0..MaxUid]
  BY DEF TypeOK, ClientTypeOK
<1>g. /\ pc' = [pc EXCEPT ![c] = where]
      /\ uid' = IF where = "idle" THEN [uid EXCEPT ![c] = 0] ELSE uid
      /\ UNCHANGED <<timestamp, answers, m_cb, m_writer_sem, m_socket>>
  BY DEF CallerMoves, Goto
<1>a. \A d \in Callers : pc'[d] # "idle" => (uid'[d] = uid[d] /\ pc[d] # "idle")
  BY <1>t, <1>g DEF InTurn
<1>b. \A d \in Callers : pc'[d] # "idle" => Answered(d)' = Answered(d)
  BY <1>a, <1>g DEF Answered
<1>1. UidOnce'
  BY <1>a, <1>g DEF Turns, UidOnce
<1>2. ASSUME m_socket' PROVE OneTurn'
  <2>1. m_socket /\ OneTurn
    BY <1>2, <1>g DEF Turns
  <2>2. ~Answered(c)
    BY <2>1 DEF OneTurn
  <2>3. \A d \in Callers : HasTurn(d)' => HasTurn(d)
    BY <1>t, <1>g, <1>b, <2>2 DEF HasTurn, InTurn
  <2>4. \A d \in Callers : pc'[d] \in InTurn => pc[d] \in InTurn /\ pc'[d] # "idle"
    BY <1>t, <1>g DEF InTurn
  <2> QED
    BY <1>b, <1>g, <2>1, <2>3, <2>4 DEF OneTurn
<1> QED
  BY <1>1, <1>2 DEF Turns, OneTurn

(* A reply is read: its callback's caller, if any, gets the turn.           *)
LEMMA TurnsReadReply ==
  ASSUME TypeOK, Turns, NEW c \in Callers, ReadReply(c)
  PROVE  Turns'
<1> DEFINE u == Head(fifo.rep).uid
           from == Head(fifo.rep).inc
           where == AfterCall(c)
<1>t. /\ pc \in [Callers -> InTurn \union {"idle", "turn", "wait"}]
      /\ uid \in [Callers -> 0..MaxUid]
      /\ m_writer_sem \in Nat
  BY DEF TypeOK, ClientTypeOK
<1>0. /\ pc[c] = "body" /\ m_socket
      /\ IF u \in m_cb THEN ReplyKnown(c, u, from) ELSE ReplyUnknown(c)
  BY DEF ReadReply
<1>g. /\ pc' = [pc EXCEPT ![c] = where]
      /\ uid' = IF where = "idle" THEN [uid EXCEPT ![c] = 0] ELSE uid
      /\ UNCHANGED <<timestamp, m_socket>>
      /\ where \in {"idle", "wait"}
  BY <1>0 DEF ReplyKnown, ReplyUnknown, Goto, AfterCall
<1>h. pc[c] \in InTurn /\ OneTurn /\ UidOnce
  BY <1>0 DEF InTurn, Turns
<1>i. HasTurn(c) /\ ~Answered(c) /\ m_writer_sem = 0
  BY <1>0, <1>h DEF HasTurn, OneTurn
<1>j. \A d \in Callers : d # c => ~HasTurn(d)
  BY <1>0, <1>h, <1>i DEF OneTurn
<1>a. \A d \in Callers : pc'[d] # "idle" => (uid'[d] = uid[d] /\ pc[d] # "idle")
  BY <1>t, <1>g, <1>0
<1>b. \A d \in Callers : pc'[d] \notin InTurn
  BY <1>t, <1>g, <1>j DEF HasTurn, InTurn
<1>1. CASE u \in m_cb
  <2>1. /\ answers' = answers \union {<<u, from>>}
        /\ m_cb' = m_cb \ {u}
        /\ m_writer_sem' = m_writer_sem
    BY <1>0, <1>1 DEF ReplyKnown
  <2>2. u \in 1..timestamp
    BY <1>h, <1>1 DEF UidOnce
  <2>3. UidOnce'
    <3>1. \A a \in answers' : a \in answers \/ a[1] = u
      BY <2>1
    <3>2. timestamp \in Nat
      BY DEF TypeOK, ClientTypeOK
    <3>3. \A a \in answers' : a[1] <= timestamp'
      BY <1>h, <1>g, <2>2, <3>1, <3>2 DEF UidOnce
    <3> QED
      BY <1>h, <1>g, <1>a, <2>1, <3>3 DEF UidOnce
  <2>4. \A d \in Callers : HasTurn(d)' => uid[d] = u /\ pc[d] # "idle"
    <3> SUFFICES ASSUME NEW d \in Callers, HasTurn(d)'
                 PROVE  uid[d] = u /\ pc[d] # "idle"
      OBVIOUS
    <3>1. pc'[d] \in {"turn", "wait"} /\ Answered(d)'
      BY <1>b DEF HasTurn
    <3>2. uid'[d] = uid[d] /\ pc[d] # "idle"
      BY <1>a, <3>1
    <3>3. Answered(d) \/ uid[d] = u
      BY <2>1, <3>1, <3>2 DEF Answered
    <3>4. ~Answered(d)
      <4>1. CASE d = c
        BY <1>i, <4>1
      <4>2. CASE d # c
        <5>1. pc[d] \in {"turn", "wait"}
          BY <1>t, <1>g, <3>1, <4>2
        <5> QED
          BY <1>j, <4>2, <5>1 DEF HasTurn
      <4> QED
        BY <4>1, <4>2
    <3> QED
      BY <3>2, <3>3, <3>4
  <2>5. \A d, e \in Callers : HasTurn(d)' /\ HasTurn(e)' => d = e
    BY <1>h, <2>4 DEF UidOnce
  <2> QED
    BY <1>b, <1>i, <2>1, <2>3, <2>5 DEF Turns, OneTurn
<1>2. CASE u \notin m_cb
  <2>1. answers' = answers /\ m_cb' = m_cb /\ m_writer_sem' = m_writer_sem + 1
    BY <1>0, <1>2 DEF ReplyUnknown
  <2>2. UidOnce'
    BY <1>h, <1>g, <1>a, <2>1 DEF UidOnce
  <2>3. \A d \in Callers : pc'[d] # "idle" => Answered(d)' = Answered(d)
    BY <1>a, <2>1 DEF Answered
  <2>4. \A d \in Callers : ~HasTurn(d)'
    BY <1>t, <1>g, <1>b, <1>i, <1>j, <2>3 DEF HasTurn
  <2> QED
    BY <1>b, <1>i, <2>1, <2>2, <2>4 DEF Turns, OneTurn
<1> QED
  BY <1>1, <1>2

(* A step of the client passes the turn on or loses it.                     *)
LEMMA TurnsClient ==
  ASSUME TypeOK, Turns, ClientNext
  PROVE  Turns'
<1>t. /\ pc \in [Callers -> InTurn \union {"idle", "turn", "wait"}]
      /\ uid \in [Callers -> 0..MaxUid]
      /\ m_writer_sem \in Nat
      /\ timestamp \in Nat
  BY DEF TypeOK, ClientTypeOK
<1>1. ASSUME NEW c \in Callers, NEW k \in Kinds, StartCall(c, k)
      PROVE  Turns'
  <2>1. /\ pc[c] = "idle"
        /\ pc' = [pc EXCEPT ![c] = "turn"]
        /\ timestamp' = timestamp + 1
        /\ uid' = [uid EXCEPT ![c] = timestamp + 1]
        /\ m_cb' \subseteq m_cb \union {timestamp + 1}
        /\ UNCHANGED <<m_writer_sem, m_socket, answers>>
    BY <1>1 DEF StartCall, replyVars
  <2>2. UidOnce'
    <3>1. \A d \in Callers : pc'[d] # "idle" =>
            (d = c /\ uid'[d] = timestamp + 1) \/ (pc[d] # "idle" /\ uid'[d] = uid[d])
      BY <1>t, <2>1
    <3>2. \A d \in Callers : pc[d] # "idle" => uid[d] \in 1..timestamp
      BY DEF Turns, UidOnce
    <3>3. \A d \in Callers : pc'[d] # "idle" => uid'[d] \in 1..timestamp'
      BY <1>t, <2>1, <3>1, <3>2
    <3>4. \A d, e \in Callers :
            pc'[d] # "idle" /\ pc'[e] # "idle" /\ uid'[d] = uid'[e] => d = e
      BY <1>t, <3>1, <3>2 DEF Turns, UidOnce
    <3>5. \A a \in answers' : a[1] <= timestamp'
      <4>1. \A a \in answers : a[1] \in Nat /\ a[1] <= timestamp
        BY DEF TypeOK, ClientTypeOK, Turns, UidOnce
      <4> QED
        BY <1>t, <2>1, <4>1
    <3>6. m_cb' \subseteq 1..timestamp'
      BY <1>t, <2>1 DEF Turns, UidOnce
    <3> QED
      BY <3>3, <3>4, <3>5, <3>6 DEF UidOnce
  <2>3. ~Answered(c)'
    <3> SUFFICES ASSUME NEW a \in answers, a[1] = timestamp + 1 PROVE FALSE
      BY <1>t, <2>1 DEF Answered
    <3> QED
      BY <1>t DEF Turns, UidOnce
  <2>4. \A d \in Callers : d # c => Answered(d)' = Answered(d) /\ pc'[d] = pc[d]
    BY <1>t, <2>1 DEF Answered
  <2>5. pc'[c] = "turn"
    BY <1>t, <2>1
  <2>6. \A d \in Callers : HasTurn(d)' => HasTurn(d)
    BY <2>3, <2>4, <2>5 DEF HasTurn, InTurn
  <2>7. \A d \in Callers : pc'[d] \in InTurn => ~Answered(d)' \/ pc[d] \in InTurn
    BY <2>3, <2>4
  <2> QED
    BY <2>1, <2>2, <2>3, <2>4, <2>6 DEF Turns, OneTurn
<1>2. ASSUME NEW c \in Callers, TakeTurn(c)
      PROVE  Turns'
  <2>1. /\ pc[c] = "turn" /\ m_writer_sem > 0 /\ m_socket
        /\ m_writer_sem' = m_writer_sem - 1
        /\ pc' = [pc EXCEPT ![c] = "open"]
        /\ UNCHANGED <<uid, timestamp, answers, m_cb, m_socket>>
    BY <1>2 DEF TakeTurn, Goto, replyVars
  <2>2. UidOnce'
    BY <1>t, <2>1 DEF Turns, UidOnce
  <2>3. \A d \in Callers : ~HasTurn(d)
    BY <1>t, <2>1 DEF Turns, OneTurn
  <2>4. \A d \in Callers : d # c => ~HasTurn(d)'
    BY <1>t, <2>1, <2>3 DEF HasTurn, Answered
  <2>5. ~Answered(c)' /\ m_writer_sem' = 0
    BY <1>t, <2>1, <2>3 DEF HasTurn, Answered, Turns, OneTurn
  <2>6. \A d \in Callers : d # c => pc'[d] \notin InTurn
    BY <2>4 DEF HasTurn
  <2> QED
    BY <2>2, <2>4, <2>5, <2>6 DEF Turns, OneTurn
<1>3. ASSUME NEW c \in Callers, OpenRequest(c) \/ OpenReply(c) \/ ReadHeader(c)
      PROVE  Turns'
  <2>1. CASE OpenRequest(c)
    BY <2>1, TurnsMove DEF OpenRequest, Moves, InTurn
  <2>2. CASE OpenReply(c)
    BY <2>2, TurnsMove DEF OpenReply, Moves, InTurn, AfterCall
  <2>3. CASE ReadHeader(c)
    BY <2>3, TurnsMove DEF ReadHeader, Moves, InTurn
  <2> QED
    BY <1>3, <2>1, <2>2, <2>3
<1>4. ASSUME NEW c \in Callers, WriteRequest(c)
      PROVE  Turns'
  BY <1>4, TurnsMove DEF WriteRequest, InTurn, AfterCall
<1>5. ASSUME NEW c \in Callers, ReadReply(c)
      PROVE  Turns'
  BY <1>5, TurnsReadReply
<1>6. ASSUME NEW c \in Callers, FinishSync(c)
      PROVE  Turns'
  <2>1. /\ pc[c] = "wait" /\ Answered(c)
        /\ m_writer_sem' = m_writer_sem + 1
        /\ answers' \subseteq answers
        /\ pc' = [pc EXCEPT ![c] = "idle"]
        /\ uid' = [uid EXCEPT ![c] = 0]
        /\ UNCHANGED <<timestamp, m_cb, m_socket>>
    BY <1>6 DEF FinishSync, Goto
  <2>2. \A d \in Callers : pc'[d] # "idle" => d # c /\ uid'[d] = uid[d] /\ pc'[d] = pc[d]
    BY <1>t, <2>1
  <2>3. UidOnce'
    BY <2>1, <2>2 DEF Turns, UidOnce
  <2>4. ASSUME m_socket' PROVE OneTurn'
    <3>1. m_socket /\ OneTurn /\ HasTurn(c)
      BY <2>1, <2>4 DEF Turns, HasTurn
    <3>2. \A d \in Callers : d # c => ~HasTurn(d)
      BY <3>1 DEF OneTurn
    <3>3. \A d \in Callers : HasTurn(d)' => d # c /\ HasTurn(d)
      BY <2>1, <2>2 DEF HasTurn, InTurn, Answered
    <3>4. \A d \in Callers : ~HasTurn(d)'
      BY <3>2, <3>3
    <3>5. m_writer_sem' <= 1
      BY <1>t, <2>1, <3>1 DEF OneTurn
    <3> QED
      BY <3>4, <3>5 DEF OneTurn, HasTurn
  <2> QED
    BY <2>3, <2>4 DEF Turns, OneTurn
<1>7. ASSUME Stop PROVE Turns'
  BY <1>7 DEF Stop, callVars, replyVars, Turns, OneTurn, UidOnce
<1>8. ASSUME AnnounceShutdown PROVE Turns'
  BY <1>8 DEF AnnounceShutdown, callVars, replyVars, Turns, OneTurn, UidOnce, HasTurn,
             Answered
<1>9. ASSUME ClientEnds PROVE Turns'
  BY <1>9 DEF ClientEnds, Fresh, Turns, OneTurn, UidOnce, HasTurn, InTurn, Answered
<1> QED
  BY <1>1, <1>2, <1>3, <1>4, <1>5, <1>6, <1>7, <1>8, <1>9 DEF ClientNext, CallerStep

(* The turn is in one place at most.                                        *)
LEMMA TurnsHold == Spec => []Turns
<1>1. TypeOK /\ Turns /\ [Next]_vars => Turns'
  <2> SUFFICES ASSUME TypeOK, Turns, [Next]_vars PROVE Turns'
    OBVIOUS
  <2>1. CASE ClientStep
    BY <2>1, TurnsClient DEF ClientStep
  <2>2. CASE ServerStep \/ UNCHANGED vars
    <3>1. UNCHANGED <<pc, uid, timestamp, m_cb, m_writer_sem, m_socket, answers>>
      BY <2>2 DEF ServerStep, vars, clientVars, callVars, replyVars
    <3>2. \A c \in Callers : Answered(c)' = Answered(c) /\ HasTurn(c)' = HasTurn(c)
      BY <3>1 DEF HasTurn, Answered
    <3>3. OneTurn'
      BY <3>1, <3>2 DEF Turns, OneTurn
    <3> QED
      BY <3>1, <3>3 DEF Turns, UidOnce
  <2> QED
    BY <2>1, <2>2 DEF Next
<1> QED
  BY <1>1, TurnsInit, TypeCorrect, PTL DEF Spec

(* One caller at a time writes a request and reads a reply, for any callers, *)
(* whatever replies come in and whoever's callbacks they run: the semaphore  *)
(* is never posted twice for one turn.                                      *)
THEOREM TurnTakingHolds == Spec => []TurnTaking
<1>1. Turns => TurnTaking
  BY DEF Turns, OneTurn, HasTurn, TurnTaking
<1> QED
  BY <1>1, TurnsHold, PTL

-----------------------------------------------------------------------------
(* Whose replies a client process gets: those to its own calls, if no      *)
(* reply was due to the process before it.                                 *)

\* The uids in a sequence of messages; dummies have none.
Uids(s) == {s[k].uid : k \in DOMAIN s} \ {0}
UidOf(i) == {i.uid} \ {0}

\* No two messages in s have one uid, and all come from process p.
Distinct(s) == \A j, k \in DOMAIN s : s[j].uid = s[k].uid /\ s[j].uid # 0 => j = k
From(s, p) == \A k \in DOMAIN s : s[k].uid # 0 => s[k].inc = p

\* A call that is due an answer is in one place: in the request FIFO q, in the
\* queue m, in hand h, or in the reply FIFO r.
InOnePlace(q, m, h, r, due, p) ==
  /\ Distinct(q) /\ Distinct(m) /\ Distinct(r)
  /\ Uids(q) \subseteq due /\ Uids(m) \subseteq due
  /\ UidOf(h) \subseteq due /\ Uids(r) \subseteq due
  /\ Uids(q) \intersect (Uids(m) \union UidOf(h) \union Uids(r)) = {}
  /\ Uids(m) \intersect (UidOf(h) \union Uids(r)) = {}
  /\ UidOf(h) \intersect Uids(r) = {}
  /\ From(q, p) /\ From(m, p) /\ From(r, p)
  /\ h.uid # 0 => h.inc = p

\* Until a process ends with a reply due to it.
InFlight ==
  ~orphan => InOnePlace(fifo["req"], msgs, serving, fifo["rep"], owed, inc)

\* A caller that has not written its request is not owed its reply.
NotYetOwed ==
  /\ owed \subseteq 0..timestamp
  /\ \A c \in Callers : pc[c] \in {"turn", "open", "write"} => uid[c] \notin owed

Owing == InFlight /\ NotYetOwed /\ OwnReply

-----------------------------------------------------------------------------
(* One message more, or less.                                               *)
LEMMA AppendUid ==
  ASSUME NEW s \in Seq(TheItems), NEW e \in TheItems
  PROVE  /\ Uids(Append(s, e)) = Uids(s) \union UidOf(e)
         /\ Distinct(s) /\ UidOf(e) \intersect Uids(s) = {} => Distinct(Append(s, e))
         /\ \A p : From(s, p) /\ (e.uid # 0 => e.inc = p) => From(Append(s, e), p)
<1> DEFINE a == Append(s, e)
<1>1. /\ DOMAIN a = DOMAIN s \union {Len(s) + 1}
      /\ Len(s) + 1 \notin DOMAIN s
      /\ a[Len(s) + 1] = e
      /\ \A k \in DOMAIN s : a[k] = s[k]
  <2>1. Len(s) \in Nat /\ DOMAIN s = 1..Len(s)
    OBVIOUS
  <2>2. a \in Seq(TheItems) /\ Len(a) = Len(s) + 1
    OBVIOUS
  <2>3. DOMAIN a = 1..(Len(s) + 1)
    BY <2>2
  <2>4. \A k \in 1..(Len(s) + 1) : a[k] = IF k = Len(s) + 1 THEN e ELSE s[k]
    BY AppendProperties
  <2> QED
    BY <2>1, <2>3, <2>4
<1> HIDE DEF a
<1>2. Uids(a) = Uids(s) \union UidOf(e)
  BY <1>1 DEF Uids, UidOf
<1>3. ASSUME Distinct(s), UidOf(e) \intersect Uids(s) = {}
      PROVE  Distinct(a)
  <2> SUFFICES ASSUME NEW j \in DOMAIN a, NEW k \in DOMAIN a,
                      a[j].uid = a[k].uid, a[j].uid # 0
               PROVE  j = k
    BY DEF Distinct
  <2>1. CASE j \in DOMAIN s /\ k \in DOMAIN s
    BY <1>1, <1>3, <2>1 DEF Distinct
  <2>2. CASE j \in DOMAIN s /\ k \notin DOMAIN s
    <3>1. s[j].uid \in UidOf(e)
      BY <1>1, <2>2 DEF UidOf
    <3>2. s[j].uid \in Uids(s)
      BY <1>1, <2>2 DEF Uids
    <3> QED
      BY <1>3, <3>1, <3>2
  <2>3. CASE j \notin DOMAIN s /\ k \in DOMAIN s
    <3>1. s[k].uid \in UidOf(e)
      BY <1>1, <2>3 DEF UidOf
    <3>2. s[k].uid \in Uids(s)
      BY <1>1, <2>3 DEF Uids
    <3> QED
      BY <1>3, <3>1, <3>2
  <2>4. CASE j \notin DOMAIN s /\ k \notin DOMAIN s
    BY <1>1, <2>4
  <2> QED
    BY <2>1, <2>2, <2>3, <2>4
<1>4. ASSUME NEW p, From(s, p), e.uid # 0 => e.inc = p
      PROVE  From(a, p)
  BY <1>1, <1>4 DEF From
<1> QED
  BY <1>2, <1>3, <1>4 DEF a

(* The first message of a sequence is told from the rest by its uid.        *)
LEMMA TailUid ==
  ASSUME NEW s \in Seq(TheItems), s # <<>>
  PROVE  /\ UidOf(Head(s)) \subseteq Uids(s)
         /\ Uids(Tail(s)) \subseteq Uids(s)
         /\ Distinct(s) => /\ Distinct(Tail(s))
                           /\ UidOf(Head(s)) \intersect Uids(Tail(s)) = {}
         /\ \A p : From(s, p) => /\ From(Tail(s), p)
                                 /\ Head(s).uid # 0 => Head(s).inc = p
<1> DEFINE t == Tail(s)
<1>1. /\ 1 \in DOMAIN s /\ Head(s) = s[1]
      /\ \A k \in DOMAIN t : k + 1 \in DOMAIN s /\ t[k] = s[k + 1] /\ k \in Nat /\ k + 1 # 1
  <2>1. Len(s) \in Nat /\ Len(s) > 0 /\ DOMAIN s = 1..Len(s) /\ Head(s) = s[1]
    BY EmptySeq
  <2>2. t \in Seq(TheItems) /\ Len(t) = Len(s) - 1
    BY HeadTailProperties
  <2>3. DOMAIN t = 1..(Len(s) - 1)
    BY <2>2
  <2>4. \A k \in 1..(Len(s) - 1) : t[k] = s[k + 1]
    BY <2>2, HeadTailProperties
  <2> QED
    BY <2>1, <2>3, <2>4
<1> HIDE DEF t
<1>2. UidOf(Head(s)) \subseteq Uids(s)
  BY <1>1 DEF UidOf, Uids
<1>3. Uids(t) \subseteq Uids(s)
  BY <1>1 DEF Uids
<1>4. ASSUME Distinct(s)
      PROVE  Distinct(t) /\ UidOf(Head(s)) \intersect Uids(t) = {}
  <2>1. ASSUME NEW j \in DOMAIN t, NEW k \in DOMAIN t,
               t[j].uid = t[k].uid, t[j].uid # 0
        PROVE  j = k
    <3>1. j + 1 = k + 1
      BY <1>1, <1>4, <2>1 DEF Distinct
    <3> QED
      BY <1>1, <3>1
  <2>2. ASSUME NEW k \in DOMAIN t, t[k].uid = s[1].uid, s[1].uid # 0
        PROVE  FALSE
    BY <1>1, <1>4, <2>2 DEF Distinct
  <2> QED
    BY <1>1, <2>1, <2>2 DEF Distinct, Uids, UidOf
<1>5. ASSUME NEW p, From(s, p)
      PROVE  From(t, p) /\ (Head(s).uid # 0 => Head(s).inc = p)
  BY <1>1, <1>5 DEF From
<1> QED
  BY <1>2, <1>3, <1>4, <1>5 DEF t

(* An empty sequence has no uid.                                            *)
LEMMA NoUid == Uids(<<>>) = {} /\ Distinct(<<>>) /\ \A p : From(<<>>, p)
  BY DEF Uids, Distinct, From

-----------------------------------------------------------------------------
(* The moves of a message, each with what the kernel may discard.           *)

(* Discarding a FIFO moves nothing.                                         *)
LEMMA Discarded ==
  ASSUME NEW q, NEW m, NEW h, NEW r, NEW due, NEW p, InOnePlace(q, m, h, r, due, p),
         NEW q2 \in {q, <<>>}, NEW r2 \in {r, <<>>}
  PROVE  InOnePlace(q2, m, h, r2, due, p)
  BY NoUid DEF InOnePlace

(* A message with a new uid is written to the request FIFO.                 *)
LEMMA Written ==
  ASSUME NEW q \in Seq(TheItems), NEW m, NEW h, NEW r, NEW due, NEW p,
         InOnePlace(q, m, h, r, due, p),
         NEW e \in TheItems, UidOf(e) \intersect due = {}, e.uid # 0 => e.inc = p
  PROVE  InOnePlace(Append(q, e), m, h, r, due \union UidOf(e), p)
<1>1. /\ Uids(Append(q, e)) = Uids(q) \union UidOf(e)
      /\ Distinct(Append(q, e)) /\ From(Append(q, e), p)
  BY AppendUid DEF InOnePlace
<1> QED
  BY <1>1 DEF InOnePlace

(* A request is dropped, or goes to the queue.                              *)
LEMMA Taken ==
  ASSUME NEW q \in Seq(TheItems), NEW m \in Seq(TheItems), NEW h, NEW r, NEW due, NEW p,
         InOnePlace(q, m, h, r, due, p), q # <<>>
  PROVE  /\ InOnePlace(Tail(q), m, h, r, due, p)
         /\ InOnePlace(Tail(q), Append(m, Head(q)), h, r, due, p)
<1>1. /\ Head(q) \in TheItems
      /\ UidOf(Head(q)) \subseteq Uids(q) /\ Uids(Tail(q)) \subseteq Uids(q)
      /\ Distinct(Tail(q)) /\ UidOf(Head(q)) \intersect Uids(Tail(q)) = {}
      /\ From(Tail(q), p)
      /\ Head(q).uid # 0 => Head(q).inc = p
  BY TailType, TailUid DEF InOnePlace
<1>2. /\ Uids(Append(m, Head(q))) = Uids(m) \union UidOf(Head(q))
      /\ Distinct(Append(m, Head(q))) /\ From(Append(m, Head(q)), p)
  BY <1>1, AppendUid DEF InOnePlace
<1>3. InOnePlace(Tail(q), m, h, r, due, p)
  BY <1>1 DEF InOnePlace
<1>4. InOnePlace(Tail(q), Append(m, Head(q)), h, r, due, p)
  BY <1>1, <1>2 DEF InOnePlace
<1> QED
  BY <1>3, <1>4

(* A request is popped.                                                     *)
LEMMA Served ==
  ASSUME NEW q, NEW m \in Seq(TheItems), NEW h, NEW r, NEW due, NEW p,
         InOnePlace(q, m, h, r, due, p), m # <<>>
  PROVE  InOnePlace(q, Tail(m), Head(m), r, due, p)
<1>1. /\ UidOf(Head(m)) \subseteq Uids(m) /\ Uids(Tail(m)) \subseteq Uids(m)
      /\ Distinct(Tail(m)) /\ UidOf(Head(m)) \intersect Uids(Tail(m)) = {}
      /\ From(Tail(m), p)
      /\ Head(m).uid # 0 => Head(m).inc = p
  BY TailUid DEF InOnePlace
<1> QED
  BY <1>1 DEF InOnePlace

\* The reply that was in hand is written, or lost.
LEMMA Replied ==
  ASSUME NEW q, NEW m, NEW h \in TheItems, NEW r \in Seq(TheItems), NEW due, NEW p,
         InOnePlace(q, m, h, r, due, p)
  PROVE  /\ InOnePlace(q, m, Dummy, r, due, p)
         /\ InOnePlace(q, m, Dummy, Append(r, Reply(h.inc, h.uid)), due, p)
<1> DEFINE e == Reply(h.inc, h.uid)
<1>1. e \in TheItems /\ e.uid = h.uid /\ e.inc = h.inc /\ UidOf(e) = UidOf(h)
  BY ItemTypes DEF TheItems, Items, Reply, UidOf
<1> HIDE DEF e
<1>2. /\ Uids(Append(r, e)) = Uids(r) \union UidOf(h)
      /\ Distinct(Append(r, e)) /\ From(Append(r, e), p)
  BY <1>1, AppendUid DEF InOnePlace
<1>3. UidOf(Dummy) = {} /\ Dummy.uid = 0
  BY DEF UidOf, Dummy
<1>4. InOnePlace(q, m, Dummy, r, due, p)
  BY <1>3 DEF InOnePlace
<1>5. InOnePlace(q, m, Dummy, Append(r, e), due, p)
  BY <1>2, <1>3 DEF InOnePlace
<1> QED
  BY <1>4, <1>5 DEF e

(* A reply is read: nothing else in flight has its uid.                     *)
LEMMA Received ==
  ASSUME NEW q, NEW m, NEW h, NEW r \in Seq(TheItems), NEW due, NEW p,
         InOnePlace(q, m, h, r, due, p), r # <<>>
  PROVE  /\ InOnePlace(q, m, h, Tail(r), due, p)
         /\ InOnePlace(q, m, h, Tail(r), due \ {Head(r).uid}, p)
         /\ Head(r).uid # 0 => Head(r).inc = p
<1>1. /\ UidOf(Head(r)) \subseteq Uids(r) /\ Uids(Tail(r)) \subseteq Uids(r)
      /\ Distinct(Tail(r)) /\ UidOf(Head(r)) \intersect Uids(Tail(r)) = {}
      /\ From(Tail(r), p)
      /\ Head(r).uid # 0 => Head(r).inc = p
  BY TailUid DEF InOnePlace
<1>2. InOnePlace(q, m, h, Tail(r), due, p)
  BY <1>1 DEF InOnePlace
<1>3. CASE Head(r).uid = 0
  <2>1. \A s : 0 \notin Uids(s)
    BY DEF Uids
  <2>2. 0 \notin UidOf(h)
    BY DEF UidOf
  <2> QED
    BY <1>1, <1>2, <1>3, <2>1, <2>2 DEF InOnePlace
<1>4. CASE Head(r).uid # 0
  <2>1. UidOf(Head(r)) = {Head(r).uid}
    BY <1>4 DEF UidOf
  <2> QED
    BY <1>1, <1>2, <2>1 DEF InOnePlace
<1> QED
  BY <1>3, <1>4

-----------------------------------------------------------------------------
(* The invariant.                                                           *)

(* Nothing is in flight at first.                                           *)
LEMMA OwingInit == Init => Owing
<1> SUFFICES ASSUME Init PROVE Owing
  OBVIOUS
<1>1. fifo["req"] = <<>> /\ fifo["rep"] = <<>> /\ msgs = <<>> /\ serving.uid = 0
  BY DEF Init, PipesInit, InstanceInit, Dummy
<1>2. InFlight
  BY <1>1, NoUid DEF InFlight, InOnePlace, UidOf
<1>3. NotYetOwed /\ OwnReply
  BY DEF Init, ClientInit, NotYetOwed, OwnReply
<1> QED
  BY <1>2, <1>3 DEF Owing

(* Opening or closing discards a FIFO or leaves it.                         *)
LEMMA PipesKeepOrDiscard ==
  ASSUME NEW open, NEW data, PipesBecome(open, data)
  PROVE  fifo'["req"] \in {data["req"], <<>>} /\ fifo'["rep"] \in {data["rep"], <<>>}
  BY DEF PipesBecome

(* A step that moves no message.                                            *)
LEMMA NothingMoves ==
  ASSUME InFlight, UNCHANGED <<msgs, serving, owed, inc, orphan>>,
         fifo'["req"] \in {fifo["req"], <<>>}, fifo'["rep"] \in {fifo["rep"], <<>>}
  PROVE  InFlight'
  BY Discarded DEF InFlight

(* A caller that goes on without a message.                                 *)
LEMMA OwingCallerMoves ==
  ASSUME TypeOK, Owing, NEW c \in Callers, NEW where, CallerMoves(c, where),
         where = "write" => pc[c] = "open",
         where \notin {"turn", "open"},
         owed' = owed, InFlight'
  PROVE  Owing'
<1>1. /\ pc' = [pc EXCEPT ![c] = where]
      /\ \A d \in Callers : pc'[d] \in {"turn", "open", "write"} => uid'[d] = uid[d]
      /\ UNCHANGED <<timestamp, answers, orphan, inc>>
  BY DEF TypeOK, ClientTypeOK, CallerMoves, Goto
<1>2. \A d \in Callers : pc'[d] \in {"turn", "open", "write"}
                           => pc[d] \in {"turn", "open", "write"}
  BY <1>1 DEF TypeOK, ClientTypeOK
<1> QED
  BY <1>1, <1>2 DEF Owing, NotYetOwed, OwnReply

(* The client writes a request once and takes a reply once.                 *)
LEMMA OwingClient ==
  ASSUME TypeOK, Turns, Owing, ClientNext, UNCHANGED instanceVars
  PROVE  Owing'
<1>t. /\ fifo \in [{"req", "rep"} -> Seq(TheItems)]
      /\ pc \in [Callers -> InTurn \union {"idle", "turn", "wait"}]
      /\ uid \in [Callers -> 0..MaxUid]
      /\ timestamp \in Nat
      /\ inc \in 0..MaxInc
      /\ owed \subseteq 0..timestamp
      /\ UNCHANGED <<msgs, serving>>
  BY DEF TypeOK, PipesTypeOK, ClientTypeOK, TheItems, instanceVars, Owing, NotYetOwed
<1>h. InFlight /\ NotYetOwed /\ OwnReply
  BY DEF Owing
<1>p. UNCHANGED fifo =>
        fifo'["req"] \in {fifo["req"], <<>>} /\ fifo'["rep"] \in {fifo["rep"], <<>>}
  OBVIOUS
<1>1. ASSUME NEW c \in Callers, NEW k \in Kinds, StartCall(c, k)
      PROVE  Owing'
  <2>1. /\ timestamp' = timestamp + 1
        /\ pc' = [pc EXCEPT ![c] = "turn"]
        /\ uid' = [uid EXCEPT ![c] = timestamp + 1]
        /\ UNCHANGED <<fifo, inc, answers, owed, orphan>>
    BY <1>1 DEF StartCall, replyVars, pipeVars
  <2>2. InFlight'
    BY <1>h, <1>t, <1>p, <2>1, NothingMoves
  <2>3. timestamp + 1 \notin owed /\ owed \subseteq 0..(timestamp + 1)
    BY <1>t
  <2>4. NotYetOwed'
    BY <1>t, <1>h, <2>1, <2>3 DEF NotYetOwed
  <2> QED
    BY <1>h, <2>1, <2>2, <2>4 DEF Owing, OwnReply
<1>2. ASSUME NEW c \in Callers, TakeTurn(c)
      PROVE  Owing'
  <2>1. /\ pc[c] = "turn"
        /\ pc' = [pc EXCEPT ![c] = "open"]
        /\ UNCHANGED <<fifo, inc, uid, timestamp, answers, owed, orphan>>
    BY <1>2 DEF TakeTurn, Goto, replyVars, pipeVars
  <2>2. InFlight'
    BY <1>h, <1>t, <1>p, <2>1, NothingMoves
  <2>3. NotYetOwed'
    BY <1>t, <1>h, <2>1 DEF NotYetOwed
  <2> QED
    BY <1>h, <2>1, <2>2, <2>3 DEF Owing, OwnReply
<1>3. ASSUME NEW c \in Callers, OpenRequest(c)
      PROVE  Owing'
  <2>1. CallerMoves(c, "write") /\ UNCHANGED <<owed, inc, orphan>> /\ pc[c] = "open"
    BY <1>3 DEF OpenRequest, Moves, CallerMoves
  <2>2. InFlight'
    BY <1>3, <1>h, <1>t, <2>1, NothingMoves, PipesKeepOrDiscard DEF OpenRequest, OpenFds
  <2> QED
    BY <2>1, <2>2, OwingCallerMoves
<1>4. ASSUME NEW c \in Callers, WriteRequest(c)
      PROVE  Owing'
  <2> DEFINE where == IF m_shutting_down THEN AfterCall(c) ELSE "reply"
             e == Call(inc, uid[c])
             d == Append1("req", e)
  <2>1. /\ PipesBecome(fds, d)
        /\ pc[c] = "write"
        /\ owed' = owed \union {uid[c]}
        /\ pc' = [pc EXCEPT ![c] = where]
        /\ UNCHANGED <<inc, timestamp, answers, orphan>>
        /\ \A a \in Callers : a # c => uid'[a] = uid[a]
    BY <1>t, <1>4 DEF WriteRequest, CallerMoves, Goto
  <2>2. where \notin {"turn", "open", "write"}
    BY DEF AfterCall
  <2>3. /\ uid[c] \in 1..timestamp
        /\ uid[c] \notin owed
        /\ \A a \in Callers : a # c /\ pc[a] # "idle" => uid[a] # uid[c]
    BY <1>h, <2>1 DEF Turns, UidOnce, NotYetOwed
  <2>4. NotYetOwed'
    <3>1. \A a \in Callers : pc'[a] \in {"turn", "open", "write"} =>
            a # c /\ pc[a] = pc'[a] /\ uid'[a] = uid[a]
      BY <1>t, <2>1, <2>2
    <3>2. owed' \subseteq 0..timestamp'
      <4>1. uid[c] \in 0..timestamp
        BY <1>t, <2>3
      <4> QED
        BY <1>t, <2>1, <4>1
    <3>3. ASSUME NEW a \in Callers, pc'[a] \in {"turn", "open", "write"}
          PROVE  uid'[a] \notin owed'
      BY <1>h, <2>1, <2>3, <3>1, <3>3 DEF NotYetOwed
    <3> QED
      BY <3>2, <3>3 DEF NotYetOwed
  <2>5. InFlight'
    <3> SUFFICES ASSUME ~orphan
                 PROVE  InOnePlace(fifo'["req"], msgs, serving, fifo'["rep"], owed', inc)
      BY <1>t, <2>1 DEF InFlight
    <3>1. e \in TheItems /\ e.uid = uid[c] /\ e.inc = inc /\ UidOf(e) = {uid[c]}
      BY <1>t, <2>3, ItemTypes DEF Call, UidOf
    <3> HIDE DEF e
    <3>2. d["req"] = Append(fifo["req"], e) /\ d["rep"] = fifo["rep"]
      BY <1>t DEF Append1
    <3>3. fifo["req"] \in Seq(TheItems)
      BY <1>t
    <3>4. InOnePlace(Append(fifo["req"], e), msgs, serving, fifo["rep"], owed', inc)
      BY <1>h, <2>1, <2>3, <3>1, <3>3, Written DEF InFlight
    <3> HIDE DEF d
    <3>5. fifo'["req"] \in {d["req"], <<>>} /\ fifo'["rep"] \in {d["rep"], <<>>}
      BY <2>1, PipesKeepOrDiscard
    <3> QED
      BY <3>2, <3>4, <3>5, Discarded
  <2> QED
    BY <1>h, <2>1, <2>4, <2>5 DEF Owing, OwnReply
<1>5. ASSUME NEW c \in Callers, OpenReply(c)
      PROVE  Owing'
  <2> DEFINE where == IF names THEN "header" ELSE AfterCall(c)
  <2>1. CallerMoves(c, where) /\ UNCHANGED <<owed, inc, orphan>>
    BY <1>5 DEF OpenReply, Moves, CallerMoves
  <2>2. where \notin {"turn", "open", "write"}
    BY DEF AfterCall
  <2>3. InFlight'
    BY <1>5, <1>h, <1>t, <1>p, <2>1, NothingMoves, PipesKeepOrDiscard
    DEF OpenReply, OpenFds
  <2> QED
    BY <2>1, <2>2, <2>3, OwingCallerMoves
<1>6. ASSUME NEW c \in Callers, ReadHeader(c)
      PROVE  Owing'
  <2>1. CallerMoves(c, "body") /\ UNCHANGED <<fifo, owed, inc, orphan>>
    BY <1>6 DEF ReadHeader, Moves, CallerMoves, pipeVars
  <2>2. InFlight'
    BY <1>h, <1>t, <1>p, <2>1, NothingMoves
  <2> QED
    BY <2>1, <2>2, OwingCallerMoves
<1>7. ASSUME NEW c \in Callers, ReadReply(c)
      PROVE  Owing'
  <2> DEFINE r == Head(fifo["rep"])
             d == Drop1("rep")
  <2>1. /\ PipesBecome(fds \ {<<"client", "r", "rep">>}, d)
        /\ fifo["rep"] # <<>>
        /\ owed' = IF r.inc = inc THEN owed \ {r.uid} ELSE owed
        /\ \/ r.uid \in m_cb /\ answers' = answers \union {<<r.uid, r.inc>>}
           \/ answers' = answers
        /\ pc' = [pc EXCEPT ![c] = AfterCall(c)]
        /\ \A a \in Callers : a # c => uid'[a] = uid[a]
        /\ UNCHANGED <<inc, timestamp, orphan>>
    BY <1>t, <1>7 DEF ReadReply, ReplyKnown, ReplyUnknown, Goto
  <2>2. d["rep"] = Tail(fifo["rep"]) /\ d["req"] = fifo["req"]
    BY <1>t DEF Drop1
  <2>3. fifo["rep"] \in Seq(TheItems)
    BY <1>t
  <2> HIDE DEF d
  <2>4. fifo'["req"] \in {d["req"], <<>>} /\ fifo'["rep"] \in {d["rep"], <<>>}
    BY <2>1, PipesKeepOrDiscard
  <2>5. ASSUME ~orphan
        PROVE  /\ InOnePlace(fifo["req"], msgs, serving, Tail(fifo["rep"]), owed', inc)
               /\ r.uid # 0 => r.inc = inc
    <3> DEFINE q == fifo["req"]
               s == fifo["rep"]
    <3>1. InOnePlace(q, msgs, serving, s, owed, inc) /\ s \in Seq(TheItems) /\ s # <<>>
      BY <1>h, <2>1, <2>3, <2>5 DEF InFlight
    <3> HIDE DEF q, s
    <3>2. /\ InOnePlace(q, msgs, serving, Tail(s), owed, inc)
          /\ InOnePlace(q, msgs, serving, Tail(s), owed \ {Head(s).uid}, inc)
          /\ Head(s).uid # 0 => Head(s).inc = inc
      BY <3>1, Received
    <3> QED
      BY <2>1, <3>2 DEF q, s
  <2>6. InFlight'
    <3> SUFFICES ASSUME ~orphan
                 PROVE  InOnePlace(fifo'["req"], msgs, serving, fifo'["rep"], owed', inc)
      BY <1>t, <2>1 DEF InFlight
    <3>1. InOnePlace(d["req"], msgs, serving, d["rep"], owed', inc)
      BY <2>2, <2>5
    <3> QED
      BY <2>4, <3>1, Discarded
  <2>7. NotYetOwed'
    <3>1. AfterCall(c) \notin {"turn", "open", "write"}
      BY DEF AfterCall
    <3>2. \A a \in Callers : pc'[a] \in {"turn", "open", "write"} =>
            pc[a] = pc'[a] /\ uid'[a] = uid[a]
      BY <1>t, <2>1, <3>1
    <3>3. owed' \subseteq owed
      BY <2>1
    <3> QED
      BY <1>h, <2>1, <3>2, <3>3 DEF NotYetOwed
  <2>8. OwnReply'
    <3> SUFFICES ASSUME ~orphan, NEW a \in answers' PROVE a[2] = inc
      BY <2>1 DEF OwnReply
    <3>1. CASE a \in answers
      BY <1>h, <3>1 DEF OwnReply
    <3>2. CASE r.uid \in m_cb /\ a = <<r.uid, r.inc>>
      <4>1. r.uid # 0
        BY <1>t, <3>2 DEF TypeOK, ClientTypeOK
      <4> QED
        BY <2>5, <3>2, <4>1
    <3> QED
      BY <2>1, <3>1, <3>2
  <2> QED
    BY <2>6, <2>7, <2>8 DEF Owing
<1>8. ASSUME NEW c \in Callers, FinishSync(c)
      PROVE  Owing'
  <2>1. /\ answers' \subseteq answers
        /\ pc' = [pc EXCEPT ![c] = "idle"]
        /\ uid' = [uid EXCEPT ![c] = 0]
        /\ UNCHANGED <<fifo, inc, timestamp, owed, orphan>>
    BY <1>8 DEF FinishSync, Goto, pipeVars
  <2>2. InFlight'
    BY <1>h, <1>t, <1>p, <2>1, NothingMoves
  <2>3. NotYetOwed'
    BY <1>t, <1>h, <2>1 DEF NotYetOwed
  <2> QED
    BY <1>h, <2>1, <2>2, <2>3 DEF Owing, OwnReply
<1>9. ASSUME Stop \/ AnnounceShutdown
      PROVE  Owing'
  <2>1. UNCHANGED <<fifo, inc, pc, uid, timestamp, answers, owed, orphan>>
    BY <1>9 DEF Stop, AnnounceShutdown, callVars, replyVars, pipeVars
  <2>2. InFlight'
    BY <1>h, <1>t, <1>p, <2>1, NothingMoves
  <2> QED
    BY <1>h, <2>1, <2>2 DEF Owing, NotYetOwed, OwnReply
<1>10. ASSUME ClientEnds
       PROVE  Owing'
  <2>1. /\ PipesBecome(fds \ FdsOf("client"), fifo)
        /\ orphan' = (orphan \/ owed # {})
        /\ pc' = [c \in Callers |-> "idle"]
        /\ timestamp' = 0 /\ answers' = {} /\ owed' = {} /\ inc' = inc + 1
    BY <1>10 DEF ClientEnds, CloseFds, Fresh
  <2>2. NotYetOwed' /\ OwnReply'
    BY <2>1 DEF NotYetOwed, OwnReply
  <2>3. InFlight'
    <3> SUFFICES ASSUME ~orphan, owed = {}
                 PROVE  InOnePlace(fifo'["req"], msgs, serving, fifo'["rep"], {}, inc + 1)
      BY <1>t, <2>1 DEF InFlight
    <3>1. InOnePlace(fifo["req"], msgs, serving, fifo["rep"], {}, inc)
      BY <1>h DEF InFlight
    <3>2. \A s : Uids(s) = {} => From(s, inc + 1)
      BY DEF Uids, From
    <3>3. UidOf(serving) = {} => serving.uid = 0
      BY DEF UidOf
    <3>4. InOnePlace(fifo["req"], msgs, serving, fifo["rep"], {}, inc + 1)
      BY <3>1, <3>2, <3>3 DEF InOnePlace
    <3> QED
      BY <2>1, <3>4, PipesKeepOrDiscard, Discarded
  <2> QED
    BY <2>2, <2>3 DEF Owing
<1> QED
  BY <1>1, <1>2, <1>3, <1>4, <1>5, <1>6, <1>7, <1>8, <1>9, <1>10
  DEF ClientNext, CallerStep

\* The descriptor that is written names this FIFO: the message goes there, or
\* nowhere.
LEMMA WriteFdAppends ==
  ASSUME TypeOK, NEW m, WriteFd(m), NEW on \in {"req", "rep"}, fd_write = on
  PROVE  /\ fifo'[on] \in {fifo[on], Append(fifo[on], m), <<>>}
         /\ \A other \in {"req", "rep"} \ {on} : fifo'[other] \in {fifo[other], <<>>}
<1>1. fifo \in [{"req", "rep"} -> Seq(TheItems)]
  BY DEF TypeOK, PipesTypeOK, TheItems
<1>2. CASE FdWrite \notin fds
  BY <1>2 DEF WriteFd
<1>3. CASE FdWrite \in fds /\ HasReader(fd_write)
  <2>1. PipesBecome(fds, Append1(on, m))
    BY <1>3 DEF WriteFd
  <2>2. /\ Append1(on, m)[on] = Append(fifo[on], m)
        /\ \A other \in {"req", "rep"} \ {on} : Append1(on, m)[other] = fifo[other]
    BY <1>1 DEF Append1
  <2> QED
    BY <2>1, <2>2 DEF PipesBecome
<1>4. CASE FdWrite \in fds /\ ~HasReader(fd_write)
  <2>1. PipesBecome(fds \ FdsOf("server"), fifo)
    BY <1>4 DEF WriteFd, CloseFds
  <2> QED
    BY <2>1 DEF PipesBecome
<1> QED
  BY <1>2, <1>3, <1>4

(* The instance passes a request on to the next place.                      *)
LEMMA OwingServer ==
  ASSUME TypeOK, Handover, Owing, InstanceNext, UNCHANGED clientVars
  PROVE  Owing'
<1>t. /\ fifo \in [{"req", "rep"} -> Seq(TheItems)]
      /\ fifo["req"] \in Seq(TheItems) /\ fifo["rep"] \in Seq(TheItems)
      /\ msgs \in Seq(TheItems) /\ serving \in TheItems
      /\ UNCHANGED <<owed, inc, orphan>>
  BY DEF TypeOK, PipesTypeOK, InstanceTypeOK, TheItems, clientVars, replyVars
<1>h. InFlight
  BY DEF Owing
<1>c. NotYetOwed' /\ OwnReply'
  BY DEF Owing, NotYetOwed, OwnReply, clientVars, callVars, replyVars
<1> SUFFICES ASSUME ~orphan
             PROVE  InOnePlace(fifo'["req"], msgs', serving', fifo'["rep"], owed, inc)
  BY <1>c, <1>t DEF Owing, InFlight
<1> DEFINE Now(q, m, h, r) == InOnePlace(q, m, h, r, owed, inc)
<1>i. Now(fifo["req"], msgs, serving, fifo["rep"])
  BY <1>h DEF InFlight
<1>k. ASSUME UNCHANGED <<msgs, serving>>,
             fifo'["req"] \in {fifo["req"], <<>>}, fifo'["rep"] \in {fifo["rep"], <<>>}
      PROVE  Now(fifo'["req"], msgs', serving', fifo'["rep"])
  BY <1>i, <1>k, Discarded
<1>1. CASE Accept \/ FinalizeFirst \/ DtorStart \/ ReqTop \/ ReqHeader \/ RepTop \/ RepWait
  BY <1>1, <1>k
  DEF Accept, FinalizeFirst, DtorStart, ReqTop, ReqHeader, RepTop, RepWait
<1>2. CASE ReqWait \/ RepExec \/ RepOpen \/ DtorClose \/ DtorOpen \/ DtorJoin
  <2>1. UNCHANGED <<msgs, serving>> /\ \E open : PipesBecome(open, fifo)
    BY <1>2
    DEF ReqWait, RepExec, RepOpen, DtorClose, DtorOpen, DtorJoin, OpenWrite, CloseWrite,
        CleanFds, OpenFds, CloseFds
  <2> QED
    BY <1>k, <2>1, PipesKeepOrDiscard
<1>3. CASE ReqDummy \/ ReqBody
  <2> DEFINE d == Drop1("req")
  <2>1. /\ fifo["req"] # <<>> /\ serving' = serving
        /\ \E open : PipesBecome(open, d)
        /\ msgs' \in {msgs, Append(msgs, Head(fifo["req"]))}
    BY <1>3 DEF ReqDummy, ReqBody, TakeRequest
  <2>2. d["req"] = Tail(fifo["req"]) /\ d["rep"] = fifo["rep"]
    BY <1>t DEF Drop1
  <2> HIDE DEF d
  <2>3. Now(d["req"], msgs', serving, d["rep"])
    BY <1>i, <1>t, <2>1, <2>2, Taken
  <2> QED
    BY <2>1, <2>3, PipesKeepOrDiscard, Discarded
<1>4. CASE ReqGarbled
  <2> DEFINE q == fifo["req"]
             d == [fifo EXCEPT !["req"] = Tail(Tail(@))]
  <2>1. /\ q # <<>> /\ Len(q) > 1 /\ serving' = serving
        /\ \E open : PipesBecome(open, d)
        /\ msgs' \in {msgs, Append(msgs, Dummy)}
    BY <1>4, Zenon DEF ReqGarbled, TakeRequest, StartsWith
  <2>2. d["req"] = Tail(Tail(q)) /\ d["rep"] = fifo["rep"]
    BY <1>t
  <2> HIDE DEF d
  <2>3. q \in Seq(TheItems)
    BY <1>t
  <2> HIDE DEF q
  <2>4. Tail(q) # <<>> /\ Tail(q) \in Seq(TheItems)
    BY <2>1, <2>3, TailType, TailIsLeft
  <2>5. Now(Tail(q), msgs, serving, fifo["rep"])
    BY <1>i, <1>t, <2>1, <2>3, Taken DEF q
  <2>6. Now(Tail(Tail(q)), msgs, serving, fifo["rep"])
    BY <1>t, <2>4, <2>5, Taken
  <2>7. /\ Uids(Append(msgs, Dummy)) = Uids(msgs)
        /\ Distinct(msgs) => Distinct(Append(msgs, Dummy))
        /\ From(msgs, inc) => From(Append(msgs, Dummy), inc)
    <3>1. UidOf(Dummy) = {} /\ Dummy.uid = 0
      BY DEF UidOf, Dummy
    <3> QED
      BY <1>t, <3>1, DummyType, AppendUid
  <2>8. Now(Tail(Tail(q)), msgs', serving, fifo["rep"])
    BY <2>1, <2>6, <2>7 DEF InOnePlace
  <2> QED
    BY <2>1, <2>2, <2>8, PipesKeepOrDiscard, Discarded
<1>5. CASE RepPop
  BY <1>5, <1>i, <1>t, Served DEF RepPop
<1>6. CASE RepWrite
  <2> DEFINE m == Reply(serving.inc, serving.uid)
  <2>1. WriteFd(m) /\ fd_write = "rep" /\ msgs' = msgs /\ serving' = Dummy
    BY <1>6 DEF RepWrite, Handover, OwnFd
  <2>2. /\ Now(fifo["req"], msgs, Dummy, fifo["rep"])
        /\ Now(fifo["req"], msgs, Dummy, Append(fifo["rep"], m))
    BY <1>i, <1>t, Replied
  <2> HIDE DEF m
  <2>3. /\ fifo'["rep"] \in {fifo["rep"], Append(fifo["rep"], m), <<>>}
        /\ fifo'["req"] \in {fifo["req"], <<>>}
    BY <2>1, WriteFdAppends
  <2> QED
    BY <2>1, <2>2, <2>3, Discarded
<1>7. CASE DtorWrite
  <2>1. WriteFd(Dummy) /\ fd_write = "req" /\ UNCHANGED <<msgs, serving>>
    BY <1>7 DEF DtorWrite, Handover, OwnFd
  <2>2. UidOf(Dummy) = {} /\ Dummy.uid = 0 /\ owed \union {} = owed
    BY DEF UidOf, Dummy
  <2>3. Now(Append(fifo["req"], Dummy), msgs, serving, fifo["rep"])
    BY <1>i, <1>t, <2>2, DummyType, Written
  <2>4. /\ fifo'["req"] \in {fifo["req"], Append(fifo["req"], Dummy), <<>>}
        /\ fifo'["rep"] \in {fifo["rep"], <<>>}
    BY <2>1, WriteFdAppends
  <2> QED
    BY <1>i, <2>1, <2>3, <2>4, Discarded
<1> QED
  BY <1>1, <1>2, <1>3, <1>4, <1>5, <1>6, <1>7
  DEF InstanceNext, WorkerReq, WorkerRep, DtorGoesOn

(* A callback is given the reply to the call it was registered for, however  *)
(* callers, workers and the destructor interleave, as long as no client      *)
(* process ended with a reply due to it.                                    *)
THEOREM OwnReplyHolds == Spec => []OwnReply
<1>1. TypeOK /\ Handover /\ Turns /\ Owing /\ [Next]_vars => Owing'
  <2> SUFFICES ASSUME TypeOK, Handover, Turns, Owing, [Next]_vars PROVE Owing'
    OBVIOUS
  <2>1. CASE ClientStep
    BY <2>1, OwingClient DEF ClientStep
  <2>2. CASE ServerStep
    BY <2>2, OwingServer DEF ServerStep
  <2>3. CASE UNCHANGED vars
    BY <2>3 DEF vars, pipeVars, clientVars, callVars, replyVars, instanceVars, Owing,
                InFlight, NotYetOwed, OwnReply
  <2> QED
    BY <2>1, <2>2, <2>3 DEF Next
<1>2. Owing => OwnReply
  BY DEF Owing
<1> QED
  BY <1>1, <1>2, OwingInit, TypeCorrect, HandoverHolds, TurnsHold, PTL DEF Spec

=============================================================================
