----------------------------- MODULE FifoStream -----------------------------
(***************************************************************************)
(* One message of any size through a FIFO of os::apple::socket_osx         *)
(* (source/apple/ipc-socket-osx.cpp).  write() cuts it into pieces of at   *)
(* most one chunk; read(), called for the header and then for the body,    *)
(* takes what it finds and goes on only while the size of what it found is *)
(* that of a full piece.  Nothing else marks the end of a message.  The    *)
(* contents are left out: bytes are counted.                               *)
(***************************************************************************)
EXTENDS Integers

CONSTANTS
  Chunk,      \* sizeChunks, 8192 in the code
  Header,     \* sizeof(ipc_size_t), 8
  Capacity,   \* what the kernel buffers for a FIFO, 65536
  MaxBody     \* bound on the size of a message

ASSUME StreamAssumption ==
  /\ Header \in Nat \ {0}
  /\ Chunk \in Nat /\ Chunk > 2 * Header
  /\ Capacity \in Nat /\ Capacity >= Chunk
  /\ MaxBody \in Nat \ {0}

VARIABLES
  n,         \* the size of the body, as the header says
  wpc,       \* the writer: "open", "write", "done", "killed" (SIGPIPE)
  wrote,     \* size_wrote
  piece,     \* what is left of the piece that is being written
  pipe,      \* the number of bytes in the FIFO
  rpc,       \* the reader: "header", "first", "more", "done"
  offset,    \* the bytes of the body that were read
  overtaken  \* the first read of the body met more than the first piece, or a
             \* piece met a full FIFO and went in by halves

vars == <<n, wpc, wrote, piece, pipe, rpc, offset, overtaken>>

Least(a, b) == IF a < b THEN a ELSE b
Total == n + Header

Init ==
  /\ n \in 1..MaxBody
  /\ wpc = "open"
  /\ wrote = 0 /\ piece = 0 /\ pipe = 0
  /\ rpc = "header"
  /\ offset = 0
  /\ overtaken = FALSE

-----------------------------------------------------------------------------
\* open(O_WRONLY), once for each piece: it waits for a reader.
Open ==
  /\ wpc = "open"
  /\ rpc # "done"
  /\ piece' = Least(Total - wrote, Chunk)
  /\ wpc' = "write"
  /\ UNCHANGED <<n, wrote, pipe, rpc, offset, overtaken>>

\* Mutant: the descriptor is closed after a piece and not opened again.
WriteOnePiece ==
  /\ wpc = "write"
  /\ rpc # "done"
  /\ pipe < Capacity
  /\ LET k == Least(piece, Capacity - pipe) IN
       /\ pipe' = pipe + k
       /\ wrote' = wrote + k
       /\ piece' = piece - k
       /\ overtaken' = (overtaken \/ k < piece)
  /\ wpc' = IF piece' > 0 THEN "write" ELSE "done"
  /\ UNCHANGED <<n, rpc, offset>>

\* ::write: as much as the FIFO has room for at a time.  After the piece the
\* descriptor is closed, or the write is over.  (A chunk is more than PIPE_BUF:
\* that one which fits goes in as a whole is what the kernel does, not what
\* POSIX says; a reader that saw half of it would be in the overtaken case.)
Write ==
  /\ wpc = "write"
  /\ rpc # "done"
  /\ pipe < Capacity
  /\ LET k == Least(piece, Capacity - pipe) IN
       /\ pipe' = pipe + k
       /\ wrote' = wrote + k
       /\ piece' = piece - k
       /\ overtaken' = (overtaken \/ k < piece)
  /\ wpc' = IF piece' > 0 THEN "write" ELSE IF wrote' < Total THEN "open" ELSE "done"
  /\ UNCHANGED <<n, rpc, offset>>

\* The reader has closed the FIFO meanwhile.
BrokenPipe ==
  /\ wpc = "write"
  /\ rpc = "done"
  /\ wpc' = "killed"
  /\ UNCHANGED <<n, wrote, piece, pipe, rpc, offset, overtaken>>

-----------------------------------------------------------------------------
\* read() of the header; the FIFO stays open.
ReadHeader ==
  /\ rpc = "header"
  /\ pipe > 0
  /\ pipe' = pipe - Header
  /\ rpc' = "first"
  /\ UNCHANGED <<n, wpc, wrote, piece, offset, overtaken>>

\* Mutant: the first piece is not expected to lack the header.
GoesOnAfterChunk(ret) == ret = Chunk

\* The inner loop of read(): a full first piece or a full chunk is taken for a
\* part of more.
GoesOn(ret) == ret \in {Chunk - Header, Chunk}

Received(ret) ==
  /\ pipe' = pipe - ret
  /\ offset' = offset + ret
  /\ rpc' = IF GoesOn(ret) THEN "more" ELSE "done"

\* read() of the body: everything that is there, ...
ReadBody ==
  /\ rpc = "first"
  /\ pipe > 0
  /\ Received(Least(n, pipe))
  /\ overtaken' = (overtaken \/ pipe > Chunk - Header)
  /\ UNCHANGED <<n, wpc, wrote, piece>>

\* ... then chunk by chunk; an empty FIFO is asked again and again.
ReadMore ==
  /\ rpc = "more"
  /\ pipe > 0
  /\ Received(Least(Chunk, pipe))
  /\ UNCHANGED <<n, wpc, wrote, piece, overtaken>>

Writer == Open \/ Write \/ BrokenPipe
Reader == ReadHeader \/ ReadBody \/ ReadMore
Next == Writer \/ Reader

\* Two threads that run.
Spec == Init /\ [][Next]_vars /\ WF_vars(Writer) /\ WF_vars(Reader)

-----------------------------------------------------------------------------
\* read() never hands on a part of a message as the whole, and never breaks the
\* pipe under the writer, unless the writer was faster than the reader or the
\* FIFO was full: the sizes of the pieces are the only framing.
WholeUnlessOvertaken ==
  ~overtaken => (rpc = "done" => offset = n) /\ wpc # "killed"

\* The size of the last piece, or of the body when there is one piece.
LastPiece ==
  IF Total <= Chunk THEN n ELSE Total - Chunk * ((Total - 1) \div Chunk)

\* Every message is read to its end unless its last piece has a size that makes
\* read() go on: with 8 KB chunks, bodies of 8184 + 8192 k bytes, and of 8176 +
\* 8192 k for k > 0, leave the reader waiting for bytes that nobody sends.
Delivered ==
  LastPiece \notin {Chunk - Header, Chunk}
    ~> ((rpc = "done" /\ offset = n) \/ overtaken)
=============================================================================
