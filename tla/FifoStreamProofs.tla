-------------------------- MODULE FifoStreamProofs --------------------------
(***************************************************************************)
(* FifoStream for every size of chunk, header, FIFO and message: as long   *)
(* as the writer is not faster than the reader and the FIFO never full,    *)
(* both ends of the FIFO stand on borders between chunks, or at the end of *)
(* the message, and that is why the size of a piece tells the reader when  *)
(* to stop.                                                                *)
(***************************************************************************)
EXTENDS FifoStream, TLAPS

-----------------------------------------------------------------------------
(* Multiples of the chunk.                                                 *)

Border(x) == \E j \in Nat : x = j * Chunk

(* Borders lie a chunk apart.                                              *)
LEMMA Borders ==
  /\ Border(0)
  /\ \A x \in Int : Border(x) => x \in Nat /\ Border(x + Chunk)
  /\ \A x, y \in Int : Border(x) /\ Border(y) /\ x < y => x + Chunk <= y
<1> USE StreamAssumption
<1>1. Border(0)
  <2>1. 0 = 0 * Chunk
    OBVIOUS
  <2> QED
    BY <2>1 DEF Border
<1>2. ASSUME NEW x \in Int, Border(x) PROVE x \in Nat /\ Border(x + Chunk)
  <2>1. PICK j \in Nat : x = j * Chunk
    BY <1>2 DEF Border
  <2>2. x + Chunk = (j + 1) * Chunk /\ j + 1 \in Nat /\ x \in Nat
    BY <2>1
  <2> QED
    BY <2>2 DEF Border
<1>3. ASSUME NEW x \in Int, NEW y \in Int, Border(x), Border(y), x < y
      PROVE  x + Chunk <= y
  <2>1. PICK j \in Nat : x = j * Chunk
    BY <1>3 DEF Border
  <2>2. PICK k \in Nat : y = k * Chunk
    BY <1>3 DEF Border
  <2>3. j < k
    <3>1. k <= j => k * Chunk <= j * Chunk
      OBVIOUS
    <3> QED
      BY <1>3, <2>1, <2>2, <3>1
  <2>4. (j + 1) * Chunk <= k * Chunk
    BY <2>3
  <2> QED
    BY <2>1, <2>2, <2>4
<1> QED
  BY <1>1, <1>2, <1>3

-----------------------------------------------------------------------------
(* The inductive invariant.                                                *)

Types ==
  /\ n \in Nat \ {0}
  /\ wpc \in {"open", "write", "done", "killed"}
  /\ rpc \in {"header", "first", "more", "done"}
  /\ wrote \in Int /\ piece \in Int /\ pipe \in Int /\ offset \in Int
  /\ overtaken \in BOOLEAN

\* The writer stands on a border, before a piece of the right size, or at the
\* end.
WriterOnBorder ==
  /\ wpc # "killed"
  /\ wpc \in {"open", "write"} => wrote < Total /\ Border(wrote)
  /\ wpc = "write" => piece = Least(Total - wrote, Chunk)
  /\ wpc = "done" => wrote = Total

\* What was written and not read is in the FIFO.
Accounted ==
  /\ pipe >= 0
  /\ rpc = "header" => offset = 0 /\ pipe = wrote
  /\ rpc = "first" => offset = 0
  /\ rpc # "header" => pipe = wrote - Header - offset

\* The reader stands on a border once it has read a piece, or at the end.
ReaderOnBorder ==
  /\ rpc = "more" => offset = n \/ Border(Header + offset)
  /\ rpc = "done" => offset = n

FifoInv == Types /\ (~overtaken => WriterOnBorder /\ Accounted /\ ReaderOnBorder)

(* The writer has written nothing, a border, or everything.                *)
LEMMA WroteBorders ==
  ASSUME Types, WriterOnBorder
  PROVE  /\ wrote \in Nat /\ wrote <= Total
         /\ wrote = Total \/ (wpc # "done" /\ wrote < Total /\ Border(wrote))
         /\ wrote > 0 => wrote >= Least(Total, Chunk)
<1>1. Total \in Nat /\ Header \in Nat /\ Chunk \in Nat
  BY StreamAssumption DEF Types, Total
<1>2. wrote = Total \/ (wpc # "done" /\ wrote < Total /\ Border(wrote))
  BY DEF Types, WriterOnBorder
<1>3. Border(wrote) /\ wrote > 0 => wrote >= Chunk
  BY <1>1, Borders DEF Types
<1> QED
  BY <1>1, <1>2, <1>3, Borders DEF Types, Least

(* Types, on their own.                                                    *)
LEMMA TypesStep ==
  ASSUME Types, [Next]_vars
  PROVE  Types' /\ n' = n /\ (overtaken => overtaken')
<1> USE StreamAssumption DEF Types, Total, Least
<1>1. CASE Open
  BY <1>1 DEF Open
<1>2. CASE Write
  BY <1>2 DEF Write
<1>3. CASE BrokenPipe
  BY <1>3 DEF BrokenPipe
<1>4. CASE ReadHeader
  BY <1>4 DEF ReadHeader
<1>5. CASE ReadBody
  BY <1>5 DEF ReadBody, Received
<1>6. CASE ReadMore
  BY <1>6 DEF ReadMore, Received
<1>7. CASE UNCHANGED vars
  BY <1>7 DEF vars
<1> QED
  BY <1>1, <1>2, <1>3, <1>4, <1>5, <1>6, <1>7 DEF Next, Writer, Reader

(* A step that does not overtake keeps both ends on their borders.         *)
LEMMA BordersStep ==
  ASSUME Types, ~overtaken', WriterOnBorder, Accounted, ReaderOnBorder, [Next]_vars
  PROVE  WriterOnBorder' /\ Accounted' /\ ReaderOnBorder'
<1>1. /\ Header \in Nat /\ Header > 0 /\ Chunk \in Nat /\ Chunk > 2 * Header
      /\ Capacity \in Nat /\ Capacity >= Chunk /\ n \in Nat /\ n > 0
      /\ Total \in Nat /\ Total = n + Header
      /\ wrote \in Nat /\ wrote <= Total /\ piece \in Int /\ pipe \in Int /\ offset \in Int
      /\ n' = n /\ Total' = Total
  BY StreamAssumption, WroteBorders, TypesStep DEF Types, Total
<1>2. CASE Open
  <2>1. /\ piece' = Least(Total - wrote, Chunk) /\ wpc' = "write" /\ wpc = "open"
        /\ UNCHANGED <<n, wrote, pipe, rpc, offset>>
    BY <1>2 DEF Open
  <2> QED
    BY <1>1, <2>1 DEF WriterOnBorder, Accounted, ReaderOnBorder, Border
<1>3. CASE Write
  <2>1. /\ piece = Least(Total - wrote, Chunk) /\ wrote < Total /\ Border(wrote)
        /\ piece > 0 /\ rpc # "done"
    BY <1>1, <1>3 DEF Write, WriterOnBorder, Least
  <2>2. /\ pipe' = pipe + piece /\ wrote' = wrote + piece /\ piece' = 0
        /\ UNCHANGED <<rpc, offset>>
    <3> DEFINE k == Least(piece, Capacity - pipe)
    <3>1. /\ pipe' = pipe + k /\ wrote' = wrote + k /\ piece' = piece - k /\ ~(k < piece)
          /\ UNCHANGED <<rpc, offset>>
      BY <1>3 DEF Write
    <3>2. k = piece
      BY <1>1, <3>1 DEF Least
    <3> QED
      BY <1>1, <3>1, <3>2
  <2>3. wpc' = IF wrote' < Total THEN "open" ELSE "done"
    BY <1>1, <1>3, <2>2 DEF Write
  <2>4. wrote' = Total \/ (wrote' < Total /\ wrote' = wrote + Chunk)
    BY <1>1, <2>1, <2>2 DEF Least
  <2>5. Border(wrote + Chunk)
    BY <1>1, <2>1, Borders
  <2>6. WriterOnBorder'
    BY <1>1, <2>3, <2>4, <2>5 DEF WriterOnBorder, Border
  <2>7. Accounted'
    BY <1>1, <2>1, <2>2 DEF Accounted
  <2>8. ReaderOnBorder'
    BY <1>1, <2>2 DEF ReaderOnBorder, Border
  <2> QED
    BY <2>6, <2>7, <2>8
<1>4. CASE BrokenPipe
  <2>1. wpc = "write" /\ rpc = "done"
    BY <1>4 DEF BrokenPipe
  <2>2. wrote < Total /\ offset = n /\ pipe = wrote - Header - offset /\ pipe >= 0
    BY <2>1 DEF WriterOnBorder, ReaderOnBorder, Accounted
  <2> QED
    BY <1>1, <2>2
<1>5. CASE ReadHeader
  <2>1. /\ rpc = "header" /\ pipe > 0 /\ pipe' = pipe - Header /\ rpc' = "first"
        /\ UNCHANGED <<wpc, wrote, piece, offset>>
    BY <1>5 DEF ReadHeader
  <2>2. wrote >= Header
    BY <1>1, <2>1, WroteBorders DEF Accounted, Least
  <2> QED
    BY <1>1, <2>1, <2>2 DEF WriterOnBorder, Accounted, ReaderOnBorder, Border
<1>6. CASE ReadBody
  <2>1. /\ rpc = "first" /\ pipe > 0 /\ pipe <= Chunk - Header
        /\ pipe' = pipe - Least(n, pipe) /\ offset' = offset + Least(n, pipe)
        /\ rpc' = IF GoesOn(Least(n, pipe)) THEN "more" ELSE "done"
        /\ UNCHANGED <<wpc, wrote, piece>>
    <3>1. overtaken' = (overtaken \/ pipe > Chunk - Header)
      BY <1>6 DEF ReadBody
    <3>2. ~(pipe > Chunk - Header)
      BY <3>1
    <3> QED
      BY <1>1, <1>6, <3>2 DEF ReadBody, Received
  <2>2. offset = 0 /\ pipe = wrote - Header /\ wrote <= Chunk /\ wrote > 0
    BY <1>1, <2>1 DEF Accounted
  <2>3. wrote = Total \/ wrote = Chunk
    BY <1>1, <2>2, WroteBorders DEF Least
  <2>4. Least(n, pipe) = pipe
    BY <1>1, <2>2 DEF Least
  <2>5. CASE wrote = Total
    <3>1. offset' = n
      BY <1>1, <2>1, <2>2, <2>4, <2>5
    <3>2. pipe' = 0 /\ rpc' \in {"more", "done"}
      BY <1>1, <2>1, <2>4
    <3>3. WriterOnBorder'
      BY <1>1, <2>1, <2>5 DEF WriterOnBorder
    <3>4. Accounted' /\ ReaderOnBorder'
      BY <1>1, <2>1, <2>5, <3>1, <3>2 DEF Accounted, ReaderOnBorder
    <3> QED
      BY <3>3, <3>4
  <2>6. CASE wrote = Chunk
    <3>1. offset' = Chunk - Header /\ rpc' = "more" /\ pipe' = 0
      BY <1>1, <2>1, <2>2, <2>4, <2>6 DEF GoesOn
    <3>2. Border(Header + offset')
      <4>1. Header + offset' = 0 + Chunk
        BY <1>1, <3>1
      <4> QED
        BY <4>1, Borders
    <3> QED
      BY <1>1, <2>1, <2>2, <2>6, <3>1, <3>2
         DEF WriterOnBorder, Accounted, ReaderOnBorder, Border
  <2> QED
    BY <2>3, <2>5, <2>6
<1>7. CASE ReadMore
  <2>1. /\ rpc = "more" /\ pipe > 0
        /\ pipe' = pipe - Least(Chunk, pipe) /\ offset' = offset + Least(Chunk, pipe)
        /\ rpc' = IF GoesOn(Least(Chunk, pipe)) THEN "more" ELSE "done"
        /\ UNCHANGED <<wpc, wrote, piece>>
    BY <1>7 DEF ReadMore, Received
  <2>2. pipe = wrote - Header - offset /\ Border(Header + offset)
    BY <1>1, <2>1 DEF Accounted, ReaderOnBorder
  <2>3. CASE pipe >= Chunk
    <3>1. /\ offset' = offset + Chunk /\ pipe' = pipe - Chunk /\ rpc' = "more"
      BY <1>1, <2>1, <2>3 DEF Least, GoesOn
    <3>2. Border(Header + offset')
      <4>1. Header + offset' = (Header + offset) + Chunk /\ Header + offset \in Int
        BY <1>1, <3>1
      <4> QED
        BY <2>2, <4>1, Borders
    <3> QED
      BY <1>1, <2>1, <2>2, <2>3, <3>1, <3>2
         DEF WriterOnBorder, Accounted, ReaderOnBorder, Border
  <2>4. CASE pipe < Chunk
    <3>1. offset' = offset + pipe /\ pipe' = 0
      BY <1>1, <2>1, <2>4 DEF Least
    <3>2. ~Border(wrote)
      <4>1. Header + offset \in Int /\ wrote \in Int /\ Header + offset < wrote
            /\ ~(Header + offset + Chunk <= wrote)
        BY <1>1, <2>1, <2>2, <2>4
      <4> QED
        BY <2>2, <4>1, Borders
    <3>3. wrote = Total
      BY <3>2, WroteBorders
    <3>4. offset' = n
      BY <1>1, <2>2, <3>1, <3>3
    <3> QED
      BY <1>1, <2>1, <2>2, <3>1, <3>4
         DEF WriterOnBorder, Accounted, ReaderOnBorder, Border
  <2> QED
    BY <1>1, <2>3, <2>4
<1>8. CASE UNCHANGED vars
  BY <1>8 DEF vars, WriterOnBorder, Accounted, ReaderOnBorder, Border, Total
<1> QED
  BY <1>2, <1>3, <1>4, <1>5, <1>6, <1>7, <1>8 DEF Next, Writer, Reader

(* The invariant holds in every reachable state.                           *)
THEOREM StandsOnBorders == Spec => []FifoInv
<1>1. Init => FifoInv
  <2> SUFFICES ASSUME Init PROVE FifoInv
    OBVIOUS
  <2>1. n \in Nat \ {0} /\ n + Header > 0
    BY StreamAssumption DEF Init
  <2>2. Types /\ wrote < Total
    <3>1. overtaken \in BOOLEAN /\ wrote = 0 /\ piece = 0 /\ pipe = 0 /\ offset = 0
      BY DEF Init
    <3>2. Types
      <4>1. wrote \in Int /\ piece \in Int /\ pipe \in Int /\ offset \in Int
        BY <3>1
      <4> QED
        BY <2>1, <3>1, <4>1, Zenon DEF Init, Types
    <3>3. wrote < Total
      BY <2>1 DEF Init, Total
    <3> QED
      BY <3>2, <3>3
  <2>3. wrote = 0 /\ wpc = "open" /\ rpc = "header" /\ pipe = 0 /\ offset = 0
    BY DEF Init
  <2>4. Border(wrote)
    BY <2>3, Borders
  <2> QED
    BY <2>2, <2>3, <2>4, <2>3
       DEF Init, FifoInv, WriterOnBorder, Accounted, ReaderOnBorder
<1>2. FifoInv /\ [Next]_vars => FifoInv'
  <2> SUFFICES ASSUME FifoInv, [Next]_vars PROVE FifoInv'
    OBVIOUS
  <2>1. Types' /\ (overtaken => overtaken')
    BY TypesStep DEF FifoInv
  <2>2. ASSUME ~overtaken' PROVE WriterOnBorder' /\ Accounted' /\ ReaderOnBorder'
    BY <2>1, <2>2, BordersStep DEF FifoInv
  <2> QED
    BY <2>1, <2>2 DEF FifoInv
<1> QED
  BY <1>1, <1>2, PTL DEF Spec

(* read() never takes a part of a message for the whole, and never breaks  *)
(* the pipe under the writer, unless the writer was faster or the FIFO     *)
(* full: for every chunk of more than two headers.                         *)
THEOREM WholeMessages == Spec => []WholeUnlessOvertaken
<1>1. FifoInv => WholeUnlessOvertaken
  BY DEF FifoInv, WriterOnBorder, ReaderOnBorder, WholeUnlessOvertaken
<1> QED
  BY <1>1, StandsOnBorders, PTL

=============================================================================
