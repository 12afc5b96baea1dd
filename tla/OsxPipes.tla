------------------------------ MODULE OsxPipes ------------------------------
(***************************************************************************)
(* os::apple::socket_osx (source/apple/ipc-socket-osx.cpp): a request FIFO *)
(* and a reply FIFO, named files that both processes open by name, and the *)
(* descriptors they hold on them.  Messages are at most one chunk (8 KB)   *)
(* long here, so that a message is written by one write(2) call; module    *)
(* FifoStream models the longer ones.                                      *)
(***************************************************************************)
EXTENDS Integers, Sequences

VARIABLES
  fifo,    \* what each FIFO holds, the oldest first
  fds,     \* the open descriptors: <<process, "r" or "w", FIFO>>
  names    \* the two names exist in the file system

pipeVars == <<fifo, fds, names>>

\* A reader opens O_RDWR, a writer O_WRONLY.
Descriptors == {"client", "server"} \X {"r", "w"} \X {"req", "rep"}

Call(inc, uid)  == [type |-> "call", inc |-> inc, uid |-> uid]
Reply(inc, uid) == [type |-> "reply", inc |-> inc, uid |-> uid]
Dummy == [type |-> "dummy", inc |-> 0, uid |-> 0]

HasReader(on) == \E p \in {"client", "server"} : <<p, "r", on>> \in fds

\* The descriptors become `open' and the FIFOs hold `data'; what a FIFO holds
\* is discarded with the last descriptor on it.
PipesBecome(open, data) ==
  /\ fds' = open
  /\ fifo' = [on \in {"req", "rep"} |->
               IF \E d \in open : d[3] = on THEN data[on] ELSE <<>>]

OpenFds(new)   == PipesBecome(fds \union new, fifo)
CloseFds(old)  == PipesBecome(fds \ old, fifo)
Append1(on, m) == [fifo EXCEPT ![on] = Append(@, m)]
Drop1(on)       == [fifo EXCEPT ![on] = Tail(@)]

\* The descriptors of a process that ends.
FdsOf(p) == {d \in fds : d[1] = p}

StartsWith(on, type) == fifo[on] # <<>> /\ Head(fifo[on]).type = type

PipesInit == fifo = [on \in {"req", "rep"} |-> <<>>] /\ fds = {} /\ names = TRUE

Items(inc, uid) ==
  [type : {"call", "reply", "dummy"}, inc : 0..inc, uid : 0..uid]
PipesTypeOK(inc, uid) ==
  /\ fifo \in [{"req", "rep"} -> Seq(Items(inc, uid))]
  /\ fds \subseteq Descriptors
  /\ names \in BOOLEAN
=============================================================================
