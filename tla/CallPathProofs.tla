---------------------------- MODULE CallPathProofs ----------------------------
(***************************************************************************)
(* What a call carries arrives (CallPath): for any collections, functions, *)
(* names, arguments and results, and any number of calls.                  *)
(*                                                                         *)
(* Both byte streams consist of whole frames, those of the messages that   *)
(* were sent and not read (Stands).  A reader that takes a header and then *)
(* as many cells as it says takes exactly the first of them, and what it   *)
(* finds in it is what was put in (MessageRoundTrip).                      *)
(***************************************************************************)
EXTENDS CallPath, IpcMessageProofs

-----------------------------------------------------------------------------
(* Streams of frames.                                                      *)

\* The frames from the a-th to the n-th of f stand in s, and nothing else does:
\* r[k] is what is left of s when the frames before the k-th are taken.
Remainders(r, f, a, n) ==
  /\ r \in [a..(n + 1) -> Seq(Cells)]
  /\ r[n + 1] = <<>>
  /\ \A k \in a..n : r[k] = f[k] \o r[k + 1]

Stands(s, f, a, n) == \E r : Remainders(r, f, a, n) /\ s = r[a]

\* Frames that do not change, and one that is new.
Extends(g, f, a, n) == \A k \in a..n : g[k] = f[k]

(* Where one puts the brackets does not matter.                            *)
LEMMA ThreeJoined ==
  ASSUME NEW s \in Seq(Cells), NEW t \in Seq(Cells), NEW u \in Seq(Cells)
  PROVE  (s \o t) \o u = s \o (t \o u)
BY ConcatAssociative

(* Nothing stands in an empty stream.                                      *)
LEMMA NothingStands ==
  ASSUME NEW f, NEW n \in Nat
  PROVE  Stands(<<>>, f, n + 1, n)
<1> DEFINE r == [k \in (n + 1)..(n + 1) |-> <<>>]
<1>1. r[n + 1] = <<>> /\ r \in [(n + 1)..(n + 1) -> Seq(Cells)]
  OBVIOUS
<1>2. ~ \E k \in (n + 1)..n : TRUE
  OBVIOUS
<1> HIDE DEF r
<1>3. Remainders(r, f, n + 1, n)
  BY <1>1, <1>2 DEF Remainders
<1> QED
  BY <1>1, <1>3 DEF Stands

(* A stream is a sequence of cells, and an empty one if no frame stands in *)
(* it.                                                                     *)
LEMMA StreamOfCells ==
  ASSUME NEW s, NEW f, NEW a \in Nat, NEW n \in Nat, a <= n + 1, Stands(s, f, a, n)
  PROVE  s \in Seq(Cells) /\ (a = n + 1 => s = <<>>)
<1>1. PICK r : Remainders(r, f, a, n) /\ s = r[a]
  BY DEF Stands
<1>2. a \in a..(n + 1)
  OBVIOUS
<1> QED
  BY <1>1, <1>2 DEF Remainders

(* A frame that is written stands behind the others.                       *)
LEMMA FrameIsWritten ==
  ASSUME NEW s, NEW f, NEW g, NEW a \in Nat, NEW n \in Nat, a <= n + 1,
         Stands(s, f, a, n), \A k \in a..n : f[k] \in Seq(Cells),
         Extends(g, f, a, n), g[n + 1] \in Seq(Cells)
  PROVE  Stands(s \o g[n + 1], g, a, n + 1)
<1>1. PICK r : Remainders(r, f, a, n) /\ s = r[a]
  BY DEF Stands
<1>2. /\ r \in [a..(n + 1) -> Seq(Cells)] /\ r[n + 1] = <<>>
      /\ \A k \in a..n : r[k] = f[k] \o r[k + 1]
  BY <1>1 DEF Remainders
<1> DEFINE new == g[n + 1]
           q == [k \in a..((n + 1) + 1) |-> IF k <= n + 1 THEN r[k] \o new ELSE <<>>]
<1>3. \A k \in a..(n + 1) : r[k] \in Seq(Cells) /\ r[k] \o new \in Seq(Cells)
  BY <1>2, Joined
<1>4. q \in [a..((n + 1) + 1) -> Seq(Cells)]
  <2>1. \A k \in a..((n + 1) + 1) : k <= n + 1 => k \in a..(n + 1)
    OBVIOUS
  <2>2. <<>> \in Seq(Cells)
    OBVIOUS
  <2> QED
    BY <1>3, <2>1, <2>2
<1>5. q[(n + 1) + 1] = <<>>
  OBVIOUS
<1>6. ASSUME NEW k \in a..(n + 1) PROVE q[k] = g[k] \o q[k + 1]
  <2>1. CASE k = n + 1
    <3>1. /\ k \in a..((n + 1) + 1) /\ k + 1 \in a..((n + 1) + 1)
          /\ k <= n + 1 /\ ~ (k + 1 <= n + 1)
      BY <2>1
    <3>2. q[k] = r[k] \o new /\ q[k + 1] = <<>>
      BY <3>1, Zenon
    <3>3. r[k] = <<>>
      BY <1>2, <2>1
    <3>4. <<>> \o new = new /\ new \o <<>> = new
      BY ConcatEmptySeq
    <3> QED
      BY <2>1, <3>2, <3>4, <3>3
  <2>2. CASE k # n + 1
    <3>1. /\ k \in a..((n + 1) + 1) /\ k + 1 \in a..((n + 1) + 1)
          /\ k <= n + 1 /\ k + 1 <= n + 1
      BY <2>2
    <3>2. k \in a..n /\ k + 1 \in a..(n + 1)
      BY <2>2
    <3>3. q[k] = r[k] \o new /\ q[k + 1] = r[k + 1] \o new
      BY <3>1, Zenon
    <3>4. r[k] = f[k] \o r[k + 1]
      BY <1>2, <3>2, Zenon
    <3>5. f[k] \in Seq(Cells) /\ r[k + 1] \in Seq(Cells) /\ g[k] = f[k]
      BY <1>3, <3>2 DEF Extends
    <3>6. (f[k] \o r[k + 1]) \o new = f[k] \o (r[k + 1] \o new)
      BY <3>5, ThreeJoined, Zenon
    <3> QED
      BY <3>3, <3>5, <3>6, <3>4, Zenon
  <2> QED
    BY <2>1, <2>2
<1>7. q[a] = s \o new
  <2>1. a \in a..((n + 1) + 1) /\ a <= n + 1
    OBVIOUS
  <2> QED
    BY <1>1, <2>1, Zenon
<1>8. Remainders(q, g, a, n + 1)
  <2> HIDE DEF q
  <2> QED
    BY <1>4, <1>5, <1>6 DEF Remainders
<1> HIDE DEF q
<1> QED
  BY <1>7, <1>8 DEF Stands

(* The first frame is in front, and the others stand in what follows it.   *)
LEMMA FrameIsTaken ==
  ASSUME NEW s, NEW f, NEW a \in Nat, NEW n \in Nat, a <= n, Stands(s, f, a, n)
  PROVE  \E rest \in Seq(Cells) : s = f[a] \o rest /\ Stands(rest, f, a + 1, n)
<1>1. PICK r : Remainders(r, f, a, n) /\ s = r[a]
  BY DEF Stands
<1>2. /\ r \in [a..(n + 1) -> Seq(Cells)] /\ r[n + 1] = <<>>
      /\ \A k \in a..n : r[k] = f[k] \o r[k + 1]
  BY <1>1 DEF Remainders
<1>3. a \in a..n /\ a + 1 \in a..(n + 1)
  OBVIOUS
<1>4. r[a + 1] \in Seq(Cells) /\ s = f[a] \o r[a + 1]
  BY <1>1, <1>2, <1>3
<1> DEFINE q == [k \in (a + 1)..(n + 1) |-> r[k]]
<1>5. /\ \A k \in (a + 1)..(n + 1) : k \in a..(n + 1)
      /\ \A k \in (a + 1)..n : k \in a..n /\ k \in (a + 1)..(n + 1) /\ k + 1 \in (a + 1)..(n + 1)
      /\ n + 1 \in (a + 1)..(n + 1) /\ a + 1 \in (a + 1)..(n + 1)
  OBVIOUS
<1>6. q \in [(a + 1)..(n + 1) -> Seq(Cells)]
  BY <1>2, <1>5
<1>7. Remainders(q, f, a + 1, n)
  BY <1>2, <1>5, <1>6 DEF Remainders
<1>8. q[a + 1] = r[a + 1]
  BY <1>5
<1>9. Stands(r[a + 1], f, a + 1, n)
  <2> HIDE DEF q
  <2> QED
    BY <1>7, <1>8 DEF Stands
<1> QED
  BY <1>4, <1>9

(* Only the frames that stand in a stream count.                           *)
LEMMA SameFramesStand ==
  ASSUME NEW s, NEW f, NEW g, NEW a \in Nat, NEW n \in Nat, Stands(s, f, a, n),
         Extends(g, f, a, n)
  PROVE  Stands(s, g, a, n)
<1>1. PICK r : Remainders(r, f, a, n) /\ s = r[a]
  BY DEF Stands
<1>2. Remainders(r, g, a, n)
  BY <1>1 DEF Remainders, Extends
<1> QED
  BY <1>1, <1>2 DEF Stands

(* A reader that takes a header and as many cells as it says takes the     *)
(* frame in front, and leaves the rest.                                    *)
LEMMA FrameIsRead ==
  ASSUME NEW body \in Seq(Cells), Len(body) < Word, NEW rest \in Seq(Cells)
  PROVE  LET s == Frame(body) \o rest
         IN /\ Frame(body) \in Seq(Cells)
            /\ s \in Seq(Cells) /\ s # <<>>
            /\ Len(s) >= 2 /\ Len(s) >= 2 + read_size(s)
            /\ BodyOf(s) = body /\ RestOf(s) = rest
<1> DEFINE header == <<0, Len(body)>>
           s == Frame(body) \o rest
<1>1. Len(body) \in Nat /\ Len(rest) \in Nat /\ Word \in Nat
  BY LenProperties, WordAssumption
<1>2. Frame(body) = header \o body
  <2>1. Len(body) % Word = Len(body)
    BY <1>1, SmallRemainder
  <2> QED
    BY <2>1 DEF Frame
<1>3. /\ header \in Seq(Cells) /\ Len(header) = 2 /\ header[2] = Len(body)
  <2>1. 0 \in Cells /\ Len(body) \in Cells
    BY <1>1 DEF Cells
  <2> QED
    BY <2>1
<1> HIDE DEF header, s
<1>4. Frame(body) \in Seq(Cells) /\ Len(Frame(body)) = 2 + Len(body)
  BY <1>2, <1>3, Joined
<1>5. s \in Seq(Cells) /\ Len(s) = 2 + Len(body) + Len(rest)
  BY <1>4, Joined DEF s
<1>6. Len(s) \in Nat /\ At(s, 1, s)
  BY <1>5, AtItself, LenProperties
<1>7. At(s, 1, Frame(body)) /\ At(s, 1 + (2 + Len(body)), rest)
  <2>1. At(s, 1, Frame(body) \o rest) /\ 1 \in Nat \ {0}
    BY <1>6 DEF s
  <2>2. At(s, 1, Frame(body)) /\ At(s, 1 + Len(Frame(body)), rest)
    BY <1>4, <1>6, <2>1, AtConcat
  <2> QED
    BY <1>4, <2>2
<1>8. At(s, 1, header) /\ At(s, 3, body)
  <2>1. At(s, 1, header \o body) /\ 1 \in Nat \ {0}
    BY <1>2, <1>7
  <2>2. At(s, 1, header) /\ At(s, 1 + Len(header), body)
    BY <1>3, <1>6, <2>1, AtConcat
  <2>3. 1 + Len(header) = 3
    BY <1>3
  <2> QED
    BY <2>2, <2>3
<1>9. read_size(s) = Len(body)
  <2>1. s[1 - 1 + 2] = header[2]
    BY <1>3, <1>8 DEF At
  <2> QED
    BY <1>3, <2>1 DEF read_size
<1>10. BodyOf(s) = body
  <2>1. 3 \in Nat \ {0}
    OBVIOUS
  <2>2. SubSeq(s, 3, 3 + Len(body) - 1) = body
    BY <1>5, <1>8, <2>1, AtSubSeq
  <2>3. BodyOf(s) = SubSeq(s, 3, 3 + read_size(s) - 1)
    BY Zenon DEF BodyOf, Take
  <2> QED
    BY <1>9, <2>2, <2>3, Zenon
<1>11. RestOf(s) = rest
  <2>1. 3 + Len(body) \in Nat \ {0} /\ 1 + (2 + Len(body)) = 3 + Len(body)
    BY <1>1
  <2>2. At(s, 3 + Len(body), rest)
    BY <1>7, <2>1
  <2>3. SubSeq(s, 3 + Len(body), (3 + Len(body)) + Len(rest) - 1) = rest
    BY <1>5, <2>1, <2>2, AtSubSeq
  <2>4. (3 + Len(body)) + Len(rest) - 1 = Len(s)
    BY <1>1, <1>5
  <2> QED
    BY <1>9, <2>3, <2>4 DEF RestOf
<1>12. Len(s) >= 2 /\ Len(s) >= 2 + read_size(s)
  BY <1>1, <1>5, <1>9
<1>13. s # <<>>
  <2>1. Len(<<>>) = 0
    OBVIOUS
  <2> QED
    BY <1>12, <2>1
<1> QED
  BY <1>4, <1>5, <1>10, <1>11, <1>12, <1>13 DEF s
-----------------------------------------------------------------------------
(* Messages in frames.                                                     *)

(* A list that arrives is as long as the one that was sent, and each value *)
(* in it is what arrives of one.                                           *)
LEMMA ListArrives ==
  ASSUME NEW vs \in Seq(Values)
  PROVE  /\ Trans(vs) \in Seq(Values) /\ Len(Trans(vs)) = Len(vs)
         /\ \A i \in 1..Len(vs) : Trans(vs)[i] = Transmitted(vs[i])
<1>1. Len(vs) \in Nat
  BY LenProperties
<1>2. \A i \in 1..Len(vs) : Transmitted(vs[i]) \in Values
  BY ElementOfSeq, TransmittedIsAValue
<1> QED
  BY <1>1, <1>2 DEF Trans, Arrived

(* The values that a head is made of arrive as they are.                   *)
LEMMA HeadValues ==
  ASSUME NEW n \in Cells, NEW s \in Seq(Cells)
  PROVE  /\ UInt64Value(n) \in Values /\ StringValue(s) \in Values
         /\ Transmitted(UInt64Value(n)).union[1] = n
         /\ Transmitted(StringValue(s)).str = s
<1>1. PICK pair : pair = <<n, 0>>
  OBVIOUS
<1>2. PICK zeros : zeros = <<0, 0>>
  OBVIOUS
<1>3. PICK none : none = <<>>
  OBVIOUS
<1>4. PICK null : null = [type |-> "Null", union |-> zeros, str |-> none, bin |-> none]
  OBVIOUS
<1>5. NullValue = null
  BY <1>2, <1>3, <1>4 DEF NullValue
<1>6. UInt64Value(n) = [type |-> "UInt64", union |-> pair, str |-> none, bin |-> none]
  <2>1. UInt64Value(n) = [null EXCEPT !.type = "UInt64", !.union = pair]
    BY <1>1, <1>5, Zenon DEF UInt64Value
  <2> QED
    BY <1>4, <2>1
<1>7. StringValue(s) = [type |-> "String", union |-> zeros, str |-> s, bin |-> none]
  <2>1. StringValue(s) = [null EXCEPT !.type = "String", !.str = s]
    BY <1>5, Zenon DEF StringValue
  <2> QED
    BY <1>4, <2>1
<1>8. pair \in Cells \X Cells /\ zeros \in Cells \X Cells /\ pair[1] = n
  BY <1>1, <1>2, WordAssumption DEF Cells
<1>9. "UInt64" \in Types /\ "String" \in Types
  <2>1. TypeNames[7] = "UInt64" /\ TypeNames[8] = "String" /\ {7, 8} \subseteq DOMAIN TypeNames
    BY DEF TypeNames
  <2> QED
    BY <2>1 DEF Types
<1>10. none \in Seq(Cells)
  BY <1>3
<1>11. UInt64Value(n) \in Values /\ StringValue(s) \in Values
  BY <1>6, <1>7, <1>8, <1>9, <1>10 DEF Values
<1>12. Transmitted(UInt64Value(n)).union = pair
  BY <1>6 DEF Transmitted, Wide
<1>13. Transmitted(StringValue(s)).str = s
  BY <1>7 DEF Transmitted
<1> QED
  BY <1>8, <1>11, <1>12, <1>13

(* The head of a call says which call it is and names the function.        *)
LEMMA CallHeadArrives ==
  ASSUME NEW n \in Cells, NEW cname \in Seq(Cells), NEW fname \in Seq(Cells)
  PROVE  LET head == CallHead(n, cname, fname)
         IN /\ head \in Seq(Values) /\ Len(head) = 3
            /\ Trans(head)[1].union[1] = n
            /\ Trans(head)[2].str = cname /\ Trans(head)[3].str = fname
<1> DEFINE head == CallHead(n, cname, fname)
<1>1. /\ UInt64Value(n) \in Values /\ StringValue(cname) \in Values /\ StringValue(fname) \in Values
      /\ Transmitted(UInt64Value(n)).union[1] = n
      /\ Transmitted(StringValue(cname)).str = cname
      /\ Transmitted(StringValue(fname)).str = fname
  BY HeadValues
<1>2. /\ head \in Seq(Values) /\ Len(head) = 3
      /\ head[1] = UInt64Value(n) /\ head[2] = StringValue(cname) /\ head[3] = StringValue(fname)
  BY <1>1 DEF CallHead
<1> HIDE DEF head
<1>3. /\ Trans(head)[1] = Transmitted(head[1]) /\ Trans(head)[2] = Transmitted(head[2])
      /\ Trans(head)[3] = Transmitted(head[3])
  BY <1>2, ListArrives
<1> QED
  BY <1>1, <1>2, <1>3, Zenon DEF head

(* The head of a reply says to which call, and the text of the error.      *)
LEMMA ReplyHeadArrives ==
  ASSUME NEW n \in Cells, NEW error \in Seq(Cells)
  PROVE  LET head == ReplyHead(n, error)
         IN /\ head \in Seq(Values) /\ Len(head) = 2
            /\ Trans(head)[1].union[1] = n /\ Trans(head)[2].str = error
<1> DEFINE head == ReplyHead(n, error)
<1>1. /\ UInt64Value(n) \in Values /\ StringValue(error) \in Values
      /\ Transmitted(UInt64Value(n)).union[1] = n
      /\ Transmitted(StringValue(error)).str = error
  BY HeadValues
<1>2. /\ head \in Seq(Values) /\ Len(head) = 2
      /\ head[1] = UInt64Value(n) /\ head[2] = StringValue(error)
  BY <1>1 DEF ReplyHead
<1> HIDE DEF head
<1>3. Trans(head)[1] = Transmitted(head[1]) /\ Trans(head)[2] = Transmitted(head[2])
  BY <1>2, ListArrives
<1> QED
  BY <1>1, <1>2, <1>3, Zenon DEF head

(* A message at the front of a stream is read, and what follows it is left.*)
LEMMA MessageIsRead ==
  ASSUME NEW head \in Seq(Values), NEW tail \in Seq(Values), Countable(head, tail),
         NEW rest \in Seq(Cells)
  PROVE  LET s == Frame(SerializeMessage(head, tail)) \o rest
         IN /\ Frame(SerializeMessage(head, tail)) \in Seq(Cells)
            /\ s \in Seq(Cells) /\ s # <<>>
            /\ Len(s) >= 2 /\ Len(s) >= 2 + read_size(s)
            /\ DeserializeMessage(BodyOf(s), Len(head))
                 = [ok |-> TRUE, head |-> Trans(head), tail |-> Trans(tail)]
            /\ RestOf(s) = rest
<1> DEFINE body == SerializeMessage(head, tail)
           s == Frame(body) \o rest
<1>1. body \in Seq(Cells) /\ body[1] = Len(body) /\ Len(body) >= 3
  BY MessageCells
<1>2. DeserializeMessage(body, Len(head))
        = [ok |-> TRUE, head |-> Trans(head), tail |-> Trans(tail)]
  BY MessageRoundTrip
<1> HIDE DEF body
<1>3. Len(body) < Word
  <2>1. Len(body) \in Nat /\ 1 \in 1..Len(body)
    BY <1>1, LenProperties
  <2>2. body[1] \in Cells
    BY <1>1, <2>1, ElementOfSeq
  <2> QED
    BY <1>1, <2>2, WordAssumption DEF Cells
<1>4. /\ Frame(body) \in Seq(Cells)
      /\ s \in Seq(Cells) /\ s # <<>>
      /\ Len(s) >= 2 /\ Len(s) >= 2 + read_size(s)
      /\ BodyOf(s) = body /\ RestOf(s) = rest
  BY <1>1, <1>3, FrameIsRead
<1> HIDE DEF s
<1>5. DeserializeMessage(BodyOf(s), Len(head))
        = [ok |-> TRUE, head |-> Trans(head), tail |-> Trans(tail)]
  BY <1>2, <1>4, Zenon
<1> QED
  BY <1>4, <1>5 DEF s, body
-----------------------------------------------------------------------------
(* The invariant.                                                          *)

\* A map has one entry for a key.
KeysAreUnique ==
  /\ \A c, d \in m_classes : NameOf[c] = NameOf[d] => c = d
  /\ \A c \in Collections : \A f, g \in m_functions[c] : f.name = g.name => f = g

Registry ==
  /\ offered \in [Collections -> SUBSET Signatures]
  /\ m_functions \in [Collections -> SUBSET Signatures]
  /\ m_classes \subseteq Collections
  /\ serving \in BOOLEAN
  /\ KeysAreUnique

\* The head of the k-th call r, and its frame.
HeadOf(k, r) == CallHead(k, r.cname, r.fname)
RequestFrame(k, r) == Frame(SerializeMessage(HeadOf(k, r), r.args))
RequestFrames(rs) == [k \in 1..Len(rs) |-> RequestFrame(k, rs[k])]

\* Calls are made when the server is there, and what they carry can be counted.
Sent ==
  /\ calls \in Seq(Requests) /\ Len(calls) <= MaxCalls
  /\ ~serving => calls = <<>>
  /\ \A k \in 1..Len(calls) : Countable(HeadOf(k, calls[k]), calls[k].args)

\* What the server makes of a call.
Received(r) == [cname |-> r.cname, fname |-> r.fname, args |-> Trans(r.args)]

Runs == [request : [cname : ClassNames, fname : FunctionNames, args : Seq(Values)],
         function : Signatures \union {NoFunction}, result : Seq(Values)]

\* The text of the error of a run, and the frame of its reply.
ErrorIn(run) == ErrorOf(run.function, run.request.cname, run.request.fname)
ReplyFrame(k, run) == Frame(SerializeMessage(ReplyHead(k, ErrorIn(run)), run.result))
ReplyFrames(rs) == [k \in 1..Len(rs) |-> ReplyFrame(k, rs[k])]

\* The k-th run is of the k-th call, and its reply can be counted.
Served ==
  /\ runs \in Seq(Runs) /\ Len(runs) <= Len(calls)
  /\ \A k \in 1..Len(runs) :
       /\ runs[k].request = Received(calls[k])
       /\ Countable(ReplyHead(k, ErrorIn(runs[k])), runs[k].result)

\* The stream to the server holds the calls it has not run.
RequestsStand == Stands(toServer, RequestFrames(calls), Len(runs) + 1, Len(calls))

\* The first a calls are answered: the replies of the others that were run are
\* in the stream to the client, and their callbacks still registered.
Answered(a) ==
  /\ Stands(toClient, ReplyFrames(runs), a + 1, Len(runs))
  /\ m_cb = (a + 1)..Len(calls)
  /\ \A x \in answers :
       /\ x.uid \in 1..a
       /\ x.values = Decoded(ErrorIn(runs[x.uid]), Trans(runs[x.uid].result))

IInv == Registry /\ Sent /\ Served /\ RequestsStand /\ \E a \in 0..Len(runs) : Answered(a)

-----------------------------------------------------------------------------
(* What can be read off the streams.                                       *)

(* The parts of a request.                                                 *)
LEMMA RequestParts ==
  ASSUME NEW r \in Requests
  PROVE  /\ r.cname \in ClassNames /\ r.fname \in FunctionNames
         /\ r.cname \in Seq(Cells) /\ r.fname \in Seq(Cells) /\ r.args \in Seq(Values)
BY CallPathAssumption DEF Requests

(* The number of a call fits in a cell.                                    *)
LEMMA NumberFits ==
  ASSUME NEW k \in 1..MaxCalls
  PROVE  k \in Cells
BY CallPathAssumption, WordAssumption DEF Cells

(* The text of an error is never empty, and there is one if nothing was    *)
(* found.                                                                  *)
LEMMA ErrorTexts ==
  ASSUME NEW cname \in Seq(Cells), NEW fname \in Seq(Cells), NEW f
  PROVE  /\ ErrorOf(f, cname, fname) \in Seq(Cells)
         /\ ErrorOf(f, cname, fname) = <<>> <=> f # NoFunction
<1>1. <<1>> \in Seq(Cells) /\ <<2>> \in Seq(Cells) /\ Len(<<1>>) = 1 /\ Len(<<2>>) = 1
  BY WordAssumption DEF Cells
<1>2. <<1>> \o cname \in Seq(Cells) /\ Len(<<1>> \o cname) = 1 + Len(cname) /\ Len(cname) \in Nat
  BY <1>1, Joined
<1>3. /\ <<2>> \o fname \in Seq(Cells) /\ Len(<<2>> \o fname) = 1 + Len(fname)
      /\ Len(fname) \in Nat
  BY <1>1, Joined
<1>4. /\ (<<2>> \o fname) \o cname \in Seq(Cells)
      /\ Len((<<2>> \o fname) \o cname) = 1 + Len(fname) + Len(cname)
  BY <1>3, Joined
<1>5. Len(<<>>) = 0 /\ <<>> \in Seq(Cells)
  OBVIOUS
<1>6. <<1>> \o cname # <<>> /\ (<<2>> \o fname) \o cname # <<>>
  BY <1>2, <1>3, <1>4, <1>5
<1>7. ErrorText(cname, fname) \in Seq(Cells) /\ ErrorText(cname, fname) # <<>>
  BY <1>2, <1>4, <1>6, Zenon DEF ErrorText
<1> QED
  BY <1>5, <1>7, Zenon DEF ErrorOf
(* What the invariant says of one call, and of one run.                    *)
LEMMA OneCall ==
  ASSUME Sent, NEW k \in 1..Len(calls)
  PROVE  /\ calls[k] \in Requests /\ k \in Nat /\ k \in Cells /\ k \in 1..MaxCalls
         /\ HeadOf(k, calls[k]) \in Seq(Values) /\ Len(HeadOf(k, calls[k])) = 3
         /\ calls[k].args \in Seq(Values)
         /\ Countable(HeadOf(k, calls[k]), calls[k].args)
         /\ RequestFrames(calls)[k] = RequestFrame(k, calls[k])
<1>1. Len(calls) \in Nat /\ Len(calls) <= MaxCalls /\ MaxCalls \in Nat
  BY LenProperties, CallPathAssumption DEF Sent
<1>2. calls[k] \in Requests
  BY <1>1, ElementOfSeq DEF Sent
<1>3. k \in Nat /\ k \in 1..MaxCalls
  BY <1>1
<1>4. k \in Cells
  BY <1>3, NumberFits
<1>5. HeadOf(k, calls[k]) \in Seq(Values) /\ Len(HeadOf(k, calls[k])) = 3
  BY <1>2, <1>4, RequestParts, CallHeadArrives DEF HeadOf
<1>6. Countable(HeadOf(k, calls[k]), calls[k].args) /\ calls[k].args \in Seq(Values)
  BY <1>2, RequestParts DEF Sent
<1>7. RequestFrames(calls)[k] = RequestFrame(k, calls[k])
  BY DEF RequestFrames
<1> QED
  BY <1>2, <1>3, <1>4, <1>5, <1>6, <1>7

LEMMA OneRun ==
  ASSUME Sent, Served, NEW k \in 1..Len(runs)
  PROVE  /\ runs[k] \in Runs /\ k \in 1..Len(calls) /\ k \in Cells
         /\ ErrorIn(runs[k]) \in Seq(Cells)
         /\ ErrorIn(runs[k]) = <<>> <=> runs[k].function # NoFunction
         /\ ReplyHead(k, ErrorIn(runs[k])) \in Seq(Values)
         /\ Len(ReplyHead(k, ErrorIn(runs[k]))) = 2
         /\ runs[k].result \in Seq(Values)
         /\ Countable(ReplyHead(k, ErrorIn(runs[k])), runs[k].result)
         /\ ReplyFrames(runs)[k] = ReplyFrame(k, runs[k])
<1>1. Len(runs) \in Nat /\ Len(calls) \in Nat /\ Len(runs) <= Len(calls)
  BY LenProperties DEF Sent, Served
<1>2. runs[k] \in Runs
  BY <1>1, ElementOfSeq DEF Served
<1>3. k \in 1..Len(calls)
  BY <1>1
<1>4. k \in Cells
  BY <1>3, OneCall
<1>5. /\ runs[k].request \in [cname : ClassNames, fname : FunctionNames, args : Seq(Values)]
      /\ runs[k].result \in Seq(Values)
  BY <1>2 DEF Runs
<1>6. runs[k].request.cname \in Seq(Cells) /\ runs[k].request.fname \in Seq(Cells)
  BY <1>5, CallPathAssumption
<1>7. /\ ErrorIn(runs[k]) \in Seq(Cells)
      /\ ErrorIn(runs[k]) = <<>> <=> runs[k].function # NoFunction
  BY <1>6, ErrorTexts DEF ErrorIn
<1>8. /\ ReplyHead(k, ErrorIn(runs[k])) \in Seq(Values)
      /\ Len(ReplyHead(k, ErrorIn(runs[k]))) = 2
  BY <1>4, <1>7, ReplyHeadArrives
<1>9. Countable(ReplyHead(k, ErrorIn(runs[k])), runs[k].result)
  BY DEF Served
<1>10. ReplyFrames(runs)[k] = ReplyFrame(k, runs[k])
  BY DEF ReplyFrames
<1> QED
  BY <1>2, <1>3, <1>4, <1>5, <1>7, <1>8, <1>9, <1>10

(* The frames are cells.                                                   *)
LEMMA FramesAreCells ==
  ASSUME Sent, Served
  PROVE  /\ \A k \in 1..Len(calls) : RequestFrames(calls)[k] \in Seq(Cells)
         /\ \A k \in 1..Len(runs) : ReplyFrames(runs)[k] \in Seq(Cells)
<1>1. <<>> \in Seq(Cells)
  OBVIOUS
<1>2. ASSUME NEW k \in 1..Len(calls) PROVE RequestFrames(calls)[k] \in Seq(Cells)
  <2>1. RequestFrame(k, calls[k]) \in Seq(Cells)
    BY <1>1, OneCall, MessageIsRead DEF RequestFrame
  <2> QED
    BY <2>1, OneCall
<1>3. ASSUME NEW k \in 1..Len(runs) PROVE ReplyFrames(runs)[k] \in Seq(Cells)
  <2>1. ReplyFrame(k, runs[k]) \in Seq(Cells)
    BY <1>1, OneRun, MessageIsRead DEF ReplyFrame
  <2> QED
    BY <2>1, OneRun
<1> QED
  BY <1>2, <1>3

(* If something is in the stream to the server, the first call that was    *)
(* not run is in front of it, whole, and the others stand behind it.       *)
LEMMA RequestInFront ==
  ASSUME Sent, Served, RequestsStand, toServer # <<>>
  PROVE  LET k == Len(runs) + 1
         IN /\ k \in 1..Len(calls)
            /\ Len(toServer) >= 2 /\ Len(toServer) >= 2 + read_size(toServer)
            /\ DeserializeMessage(BodyOf(toServer), 3)
                 = [ok |-> TRUE, head |-> Trans(HeadOf(k, calls[k])), tail |-> Trans(calls[k].args)]
            /\ Stands(RestOf(toServer), RequestFrames(calls), k + 1, Len(calls))
<1> DEFINE k == Len(runs) + 1
<1>1. Len(runs) \in Nat /\ Len(calls) \in Nat /\ Len(runs) <= Len(calls)
  BY LenProperties DEF Sent, Served
<1>2. Stands(toServer, RequestFrames(calls), k, Len(calls))
  BY DEF RequestsStand
<1>3. k # Len(calls) + 1
  BY <1>1, <1>2, StreamOfCells
<1>4. k \in 1..Len(calls) /\ k \in Nat /\ k <= Len(calls)
  BY <1>1, <1>3
<1>5. PICK rest \in Seq(Cells) : /\ toServer = RequestFrames(calls)[k] \o rest
                                 /\ Stands(rest, RequestFrames(calls), k + 1, Len(calls))
  BY <1>1, <1>2, <1>4, FrameIsTaken
<1> HIDE DEF k
<1>6. /\ HeadOf(k, calls[k]) \in Seq(Values) /\ Len(HeadOf(k, calls[k])) = 3
      /\ calls[k].args \in Seq(Values) /\ Countable(HeadOf(k, calls[k]), calls[k].args)
      /\ RequestFrames(calls)[k] = RequestFrame(k, calls[k])
  BY <1>4, OneCall
<1>7. toServer = Frame(SerializeMessage(HeadOf(k, calls[k]), calls[k].args)) \o rest
  BY <1>5, <1>6, Zenon DEF RequestFrame
<1>8. /\ Len(toServer) >= 2 /\ Len(toServer) >= 2 + read_size(toServer)
      /\ DeserializeMessage(BodyOf(toServer), 3)
           = [ok |-> TRUE, head |-> Trans(HeadOf(k, calls[k])), tail |-> Trans(calls[k].args)]
      /\ RestOf(toServer) = rest
  BY <1>6, <1>7, MessageIsRead
<1> QED
  BY <1>4, <1>5, <1>8 DEF k

(* If something is in the stream to the client, the first reply that was   *)
(* not read is in front of it, whole, and the others stand behind it.      *)
LEMMA ReplyInFront ==
  ASSUME Sent, Served, NEW a \in 0..Len(runs), Answered(a), toClient # <<>>
  PROVE  LET k == a + 1
             head == ReplyHead(k, ErrorIn(runs[k]))
         IN /\ k \in 1..Len(runs)
            /\ Len(toClient) >= 2 /\ Len(toClient) >= 2 + read_size(toClient)
            /\ DeserializeMessage(BodyOf(toClient), 2)
                 = [ok |-> TRUE, head |-> Trans(head), tail |-> Trans(runs[k].result)]
            /\ Stands(RestOf(toClient), ReplyFrames(runs), k + 1, Len(runs))
<1> DEFINE k == a + 1
<1>1. Len(runs) \in Nat
  BY LenProperties DEF Served
<1>2. Stands(toClient, ReplyFrames(runs), k, Len(runs))
  BY DEF Answered
<1>3. k # Len(runs) + 1
  BY <1>1, <1>2, StreamOfCells
<1>4. k \in 1..Len(runs) /\ k \in Nat /\ k <= Len(runs)
  BY <1>1, <1>3
<1>5. PICK rest \in Seq(Cells) : /\ toClient = ReplyFrames(runs)[k] \o rest
                                 /\ Stands(rest, ReplyFrames(runs), k + 1, Len(runs))
  BY <1>1, <1>2, <1>4, FrameIsTaken
<1> HIDE DEF k
<1> DEFINE head == ReplyHead(k, ErrorIn(runs[k]))
<1>6. /\ head \in Seq(Values) /\ Len(head) = 2 /\ runs[k].result \in Seq(Values)
      /\ Countable(head, runs[k].result)
      /\ ReplyFrames(runs)[k] = ReplyFrame(k, runs[k])
  BY <1>4, OneRun
<1>7. toClient = Frame(SerializeMessage(head, runs[k].result)) \o rest
  BY <1>5, <1>6, Zenon DEF ReplyFrame
<1> HIDE DEF head
<1>8. /\ Len(toClient) >= 2 /\ Len(toClient) >= 2 + read_size(toClient)
      /\ DeserializeMessage(BodyOf(toClient), 2)
           = [ok |-> TRUE, head |-> Trans(head), tail |-> Trans(runs[k].result)]
      /\ RestOf(toClient) = rest
  BY <1>6, <1>7, MessageIsRead
<1> QED
  BY <1>4, <1>5, <1>8 DEF k, head
-----------------------------------------------------------------------------
(* The steps.                                                              *)

(* Before the server is initialized nothing was called, run or answered.   *)
LEMMA NothingBefore ==
  ASSUME Sent, Served, ~serving
  PROVE  calls = <<>> /\ runs = <<>> /\ Len(calls) = 0 /\ Len(runs) = 0
<1>1. calls = <<>> /\ Len(calls) = 0
  BY DEF Sent
<1>2. Len(runs) \in Nat /\ runs \in Seq(Runs) /\ Len(runs) <= 0
  BY <1>1, LenProperties DEF Served
<1>3. Len(runs) = 0
  BY <1>2
<1> QED
  BY <1>1, <1>2, <1>3, EmptySeq

(* Initially.                                                              *)
LEMMA InitInvariant == Init => IInv
<1> SUFFICES ASSUME Init PROVE IInv
  OBVIOUS
<1>1. /\ <<>> \in Seq(Requests) /\ <<>> \in Seq(Runs) /\ Len(<<>>) = 0
      /\ 0 \in Nat /\ ~ \E k \in 1..0 : TRUE
  OBVIOUS
<1>2. Registry
  <2>1. \A c \in Collections : m_functions[c] = {}
    BY DEF Init
  <2> QED
    BY <2>1 DEF Init, Registry, KeysAreUnique
<1>3. Sent
  BY <1>1, CallPathAssumption DEF Init, Sent
<1>4. Served
  BY <1>1 DEF Init, Served
<1>5. RequestsStand
  <2>1. Stands(<<>>, RequestFrames(calls), 0 + 1, 0)
    BY <1>1, NothingStands
  <2> QED
    BY <1>1, <2>1 DEF Init, RequestsStand
<1>6. Answered(0)
  <2>1. Stands(<<>>, ReplyFrames(runs), 0 + 1, 0)
    BY <1>1, NothingStands
  <2>2. (0 + 1)..0 = {}
    OBVIOUS
  <2> QED
    BY <1>1, <2>1, <2>2 DEF Init, Answered
<1>7. 0 \in 0..Len(runs)
  BY <1>1 DEF Init
<1> QED
  BY <1>2, <1>3, <1>4, <1>5, <1>6, <1>7 DEF IInv

(* The registry: only before the server is initialized, and a key that is  *)
(* taken is not given again.                                               *)
LEMMA RegistryStep ==
  ASSUME Registry,
         \/ Initialize
         \/ \E c \in Collections : RegisterCollection(c)
         \/ \E c \in Collections : \E f \in Signatures : RegisterFunction(c, f)
  PROVE  Registry'
<1>1. CASE Initialize
  BY <1>1 DEF Initialize, Registry, KeysAreUnique
<1>2. ASSUME NEW c \in Collections, RegisterCollection(c) PROVE Registry'
  <2>1. /\ m_classes' = register_collection(m_classes, c)
        /\ UNCHANGED <<offered, m_functions, serving>>
    BY <1>2 DEF RegisterCollection
  <2>2. m_classes' \subseteq Collections
    BY <2>1 DEF register_collection, Registry
  <2>3. \A d, e \in m_classes' : NameOf[d] = NameOf[e] => d = e
    BY <2>1 DEF register_collection, Registry, KeysAreUnique
  <2> QED
    BY <2>1, <2>2, <2>3 DEF Registry, KeysAreUnique
<1>3. ASSUME NEW c \in Collections, NEW f \in Signatures, RegisterFunction(c, f)
      PROVE  Registry'
  <2>1. /\ offered' = [offered EXCEPT ![c] = @ \union {f}]
        /\ m_functions' = [m_functions EXCEPT ![c] = register_function(@, f)]
        /\ UNCHANGED <<m_classes, serving>>
    BY <1>3 DEF RegisterFunction
  <2>2. offered' \in [Collections -> SUBSET Signatures]
    BY <2>1 DEF Registry
  <2>3. /\ register_function(m_functions[c], f) \subseteq Signatures
        /\ \A g, h \in register_function(m_functions[c], f) : g.name = h.name => g = h
    BY DEF register_function, Registry, KeysAreUnique
  <2>4. m_functions' \in [Collections -> SUBSET Signatures]
    BY <2>1, <2>3 DEF Registry
  <2>5. \A d \in Collections : m_functions'[d] = IF d = c THEN register_function(m_functions[c], f)
                                                          ELSE m_functions[d]
    BY <2>1 DEF Registry
  <2>6. ASSUME NEW d \in Collections
        PROVE  \A g, h \in m_functions'[d] : g.name = h.name => g = h
    <3>1. CASE d = c
      BY <2>3, <2>5, <3>1
    <3>2. CASE d # c
      BY <2>5, <3>2 DEF Registry, KeysAreUnique
    <3> QED
      BY <3>1, <3>2
  <2> QED
    BY <2>1, <2>2, <2>4, <2>6 DEF Registry, KeysAreUnique
<1> QED
  BY <1>1, <1>2, <1>3

(* What the registry does leaves the rest as it is: nothing was called.    *)
LEMMA NothingElse ==
  ASSUME Sent, Served, RequestsStand, NEW a \in 0..Len(runs), Answered(a), ~serving,
         UNCHANGED <<calls, toServer, runs, toClient, m_cb, answers>>
  PROVE  Sent' /\ Served' /\ RequestsStand' /\ a \in 0..Len(runs)' /\ Answered(a)'
<1>1. calls = <<>> /\ runs = <<>> /\ Len(calls) = 0 /\ Len(runs) = 0
  BY NothingBefore
<1>2. a = 0
  BY <1>1
<1>3. ~ \E k \in 1..0 : TRUE
  OBVIOUS
<1>4. Sent'
  BY <1>1, <1>3 DEF Sent
<1>5. Served'
  BY <1>1, <1>3 DEF Served
<1>6. RequestsStand'
  BY <1>1 DEF RequestsStand, RequestFrames, RequestFrame, HeadOf
<1>7. Answered(a)'
  <2>1. Stands(toClient, ReplyFrames(runs), 0 + 1, 0)
    BY <1>1, <1>2 DEF Answered
  <2>2. Extends(ReplyFrames(runs)', ReplyFrames(runs), 0 + 1, 0)
    BY DEF Extends
  <2>3. Stands(toClient, ReplyFrames(runs)', 0 + 1, 0)
    BY <2>1, <2>2, SameFramesStand
  <2>4. answers = {}
    BY <1>2, <1>3 DEF Answered
  <2> QED
    BY <1>1, <1>2, <2>3, <2>4 DEF Answered
<1> QED
  BY <1>1, <1>4, <1>5, <1>6, <1>7
(* A call: it stands behind the others in the stream to the server, and    *)
(* its callback is registered.                                             *)
LEMMA CallStep ==
  ASSUME Sent, Served, RequestsStand, NEW a \in 0..Len(runs), Answered(a),
         NEW r \in Requests, CallFunction(r)
  PROVE  Sent' /\ Served' /\ RequestsStand' /\ a \in 0..Len(runs)' /\ Answered(a)'
<1> DEFINE n == Len(calls)
<1>1. /\ serving /\ n < MaxCalls /\ Countable(HeadOf(n + 1, r), r.args)
      /\ calls' = Append(calls, r) /\ m_cb' = m_cb \union {n + 1}
      /\ toServer' = toServer \o RequestFrame(n + 1, r)
      /\ UNCHANGED <<registryVars, runs, toClient, answers>>
  BY DEF CallFunction, NextUid, HeadOf, RequestFrame
<1>2. /\ n \in Nat /\ MaxCalls \in Nat /\ Len(runs) \in Nat /\ Len(runs) <= n
      /\ calls \in Seq(Requests)
  BY LenProperties, CallPathAssumption DEF Sent, Served
<1>3. /\ calls' \in Seq(Requests) /\ Len(calls') = n + 1 /\ calls'[n + 1] = r
      /\ \A k \in 1..n : calls'[k] = calls[k]
  BY <1>1, <1>2, AppendProperties
<1>4. Sent'
  <2>1. \A k \in 1..(n + 1) : Countable(HeadOf(k, calls'[k]), calls'[k].args)
    <3> SUFFICES ASSUME NEW k \in 1..(n + 1)
                 PROVE  Countable(HeadOf(k, calls'[k]), calls'[k].args)
      OBVIOUS
    <3>1. CASE k = n + 1
      BY <1>1, <1>3, <3>1, Zenon
    <3>2. CASE k # n + 1
      <4>1. k \in 1..n
        BY <1>2, <3>2
      <4> QED
        BY <1>3, <4>1, OneCall
    <3> QED
      BY <3>1, <3>2
  <2> HIDE DEF n
  <2>2. n + 1 <= MaxCalls /\ n + 1 = Len(calls')
    BY <1>1, <1>2, <1>3
  <2> QED
    BY <1>1, <1>3, <2>1, <2>2 DEF Sent, registryVars, HeadOf
<1>5. Served'
  <2>1. runs' = runs /\ m_classes' = m_classes /\ Len(runs') <= Len(calls')
    BY <1>1, <1>2, <1>3 DEF registryVars
  <2>2. \A k \in 1..Len(runs) : calls'[k] = calls[k]
    BY <1>2, <1>3
  <2>3. \A k \in 1..Len(runs) :
          /\ runs[k].request = Received(calls'[k])
          /\ Countable(ReplyHead(k, ErrorIn(runs[k])), runs[k].result)
    BY <2>2 DEF Served
  <2>4. \A k \in 1..Len(runs) : ErrorIn(runs[k])' = ErrorIn(runs[k])
    BY <2>1 DEF ErrorIn, ErrorOf, ErrorText
  <2>5. runs \in Seq(Runs)
    BY DEF Served
  <2> QED
    BY <2>1, <2>3, <2>4, <2>5 DEF Served, Received
<1>6. RequestsStand'
  <2> DEFINE f == RequestFrames(calls)
             g == RequestFrames(calls')
  <2>1. \A k \in 1..n : f[k] \in Seq(Cells) /\ f[k] = RequestFrame(k, calls[k])
    BY FramesAreCells, OneCall
  <2>2. \A k \in 1..(n + 1) : g[k] = RequestFrame(k, calls'[k])
    BY <1>3 DEF RequestFrames
  <2>3. n + 1 \in 1..(n + 1) /\ \A k \in 1..n : k \in 1..(n + 1)
    BY <1>2
  <2>4. g[n + 1] = RequestFrame(n + 1, r)
    BY <1>3, <2>2, <2>3, Zenon
  <2>5. \A k \in 1..n : g[k] = f[k]
    BY <1>3, <2>1, <2>2, <2>3, Zenon
  <2>6. g[n + 1] \in Seq(Cells)
    <3>1. Sent' /\ Served' /\ n + 1 \in 1..Len(calls')
      BY <1>3, <1>4, <1>5, <2>3
    <3>2. (\A k \in 1..Len(calls) : RequestFrames(calls)[k] \in Seq(Cells))'
      BY <3>1, FramesAreCells, PTL
    <3> QED
      BY <3>1, <3>2
  <2> DEFINE b == Len(runs) + 1
  <2>7. b \in Nat /\ b <= n + 1 /\ \A k \in b..n : k \in 1..n
    BY <1>2
  <2>8. Extends(g, f, b, n) /\ \A k \in b..n : f[k] \in Seq(Cells)
    BY <2>1, <2>5, <2>7 DEF Extends
  <2>9. Stands(toServer, f, b, n)
    BY DEF RequestsStand
  <2> HIDE DEF f, g, b, n
  <2>10. Stands(toServer \o g[n + 1], g, b, n + 1)
    BY <1>2, <2>6, <2>7, <2>8, <2>9, FrameIsWritten
  <2>11. toServer' = toServer \o g[n + 1] /\ n + 1 = Len(calls')
    BY <1>1, <1>3, <2>4
  <2> QED
    BY <1>1, <2>10, <2>11 DEF RequestsStand, g, b, RequestFrames, RequestFrame, HeadOf
<1>7. Answered(a)'
  <2>1. m_cb' = (a + 1)..(n + 1)
    BY <1>1, <1>2 DEF Answered
  <2>2. m_classes' = m_classes /\ runs' = runs /\ UNCHANGED <<toClient, answers>>
    BY <1>1 DEF registryVars
  <2>3. ReplyFrames(runs)' = ReplyFrames(runs)
    BY <2>2 DEF ReplyFrames, ReplyFrame, ErrorIn, ErrorOf, ErrorText
  <2>4. \A x \in answers : ErrorIn(runs[x.uid])' = ErrorIn(runs[x.uid])
    BY <2>2 DEF ErrorIn, ErrorOf, ErrorText
  <2> QED
    BY <1>3, <2>1, <2>2, <2>3, <2>4 DEF Answered
<1> QED
  BY <1>1, <1>4, <1>5, <1>6, <1>7
(* What is looked up is a function of the registry, or none.               *)
LEMMA LookupFinds ==
  ASSUME Registry, NEW cname, NEW fname
  PROVE  Lookup(cname, fname) \in Signatures \union {NoFunction}
<1>1. ASSUME NEW c \in m_classes
      PROVE  get_function(c, fname) \in Signatures \union {NoFunction}
  <2>1. m_functions[c] \subseteq Signatures
    BY DEF Registry
  <2>2. CASE \E f \in m_functions[c] : f.name = fname
    BY <2>1, <2>2 DEF get_function
  <2>3. CASE ~ \E f \in m_functions[c] : f.name = fname
    BY <2>3 DEF get_function
  <2> QED
    BY <2>2, <2>3
<1>2. CASE \E c \in m_classes : NameOf[c] = cname
  <2> DEFINE c == CHOOSE c \in m_classes : NameOf[c] = cname
  <2>1. c \in m_classes
    BY <1>2
  <2>2. Lookup(cname, fname) = get_function(c, fname)
    BY <1>2, Zenon DEF Lookup
  <2> HIDE DEF c
  <2> QED
    BY <1>1, <2>1, <2>2
<1>3. CASE ~ \E c \in m_classes : NameOf[c] = cname
  BY <1>3 DEF Lookup
<1> QED
  BY <1>2, <1>3

\* The run of the call r, when its function returns result.
RunOf(r, result) ==
  LET f == Lookup(r.cname, r.fname)
  IN [request |-> Received(r), function |-> f,
      result |-> IF f = NoFunction THEN <<>> ELSE result]

(* A run takes the first request of the stream, the k-th that was made,    *)
(* and appends its reply to the other stream.                              *)
LEMMA ExecuteTakes ==
  ASSUME Registry, Sent, Served, RequestsStand, NEW result \in Results, Execute(result)
  PROVE  LET k == Len(runs) + 1
             run == RunOf(calls[k], result)
         IN /\ k \in 1..Len(calls) /\ run \in Runs /\ run.request = Received(calls[k])
            /\ runs' = Append(runs, run)
            /\ Countable(ReplyHead(k, ErrorIn(run)), run.result)
            /\ toClient' = toClient \o ReplyFrame(k, run)
            /\ Stands(toServer', RequestFrames(calls), k + 1, Len(calls))
            /\ UNCHANGED <<registryVars, calls, m_cb, answers>>
<1> DEFINE k == Len(runs) + 1
           m == DeserializeMessage(BodyOf(toServer), 3)
<1>1. toServer # <<>>
  <2>1. Len(<<>>) = 0
    OBVIOUS
  <2>2. Len(toServer) >= 2
    BY DEF Execute
  <2> QED
    BY <2>1, <2>2
<1>2. /\ k \in 1..Len(calls)
      /\ m = [ok |-> TRUE, head |-> Trans(HeadOf(k, calls[k])), tail |-> Trans(calls[k].args)]
      /\ Stands(RestOf(toServer), RequestFrames(calls), k + 1, Len(calls))
  BY <1>1, RequestInFront
<1>3. toServer' = RestOf(toServer) /\ UNCHANGED <<registryVars, calls, m_cb, answers>>
  BY DEF Execute
<1> HIDE DEF k
<1> DEFINE r == calls[k]
<1>4. /\ r \in Requests /\ k \in Cells /\ r.cname \in ClassNames /\ r.fname \in FunctionNames
      /\ r.cname \in Seq(Cells) /\ r.fname \in Seq(Cells) /\ r.args \in Seq(Values)
  BY <1>2, OneCall, RequestParts
<1> HIDE DEF r
<1> DEFINE head == HeadOf(k, r)
<1>5. Trans(head)[1].union[1] = k /\ Trans(head)[2].str = r.cname /\ Trans(head)[3].str = r.fname
  BY <1>4, CallHeadArrives DEF HeadOf
<1>6. m = [ok |-> TRUE, head |-> Trans(head), tail |-> Trans(r.args)]
  BY <1>2 DEF r
<1> HIDE DEF head, m
<1>7. m.head = Trans(head) /\ m.tail = Trans(r.args)
  BY <1>6
<1>8. m.head[1].union[1] = k /\ m.head[2].str = r.cname /\ m.head[3].str = r.fname
  BY <1>5, <1>7, Zenon
<1> DEFINE f == Lookup(r.cname, r.fname)
           tail == IF f = NoFunction THEN <<>> ELSE result
<1>9. /\ Countable(ReplyHead(k, ErrorOf(f, r.cname, r.fname)), tail)
      /\ runs' = Append(runs, [request |-> [cname |-> r.cname, fname |-> r.fname,
                                            args |-> m.tail],
                               function |-> f, result |-> tail])
      /\ toClient' = toClient \o
           Frame(SerializeMessage(ReplyHead(k, ErrorOf(f, r.cname, r.fname)), tail))
  BY <1>8, Zenon DEF Execute, ReplyUid, m
<1> DEFINE run == RunOf(r, result)
<1>10. /\ run = [request |-> [cname |-> r.cname, fname |-> r.fname, args |-> m.tail],
                 function |-> f, result |-> tail]
       /\ run.request = Received(r)
  BY <1>7, Zenon DEF RunOf, Received
<1>11. f \in Signatures \union {NoFunction}
  BY LookupFinds
<1>12. tail \in Seq(Values)
  <2>1. result \in Seq(Values) /\ <<>> \in Seq(Values)
    BY CallPathAssumption
  <2> QED
    BY <2>1
<1>13. m.tail \in Seq(Values)
  BY <1>4, <1>7, ListArrives
<1> HIDE DEF f, tail
<1>14. run \in Runs /\ run.function = f /\ run.result = tail
       /\ run.request.cname = r.cname /\ run.request.fname = r.fname
  <2> HIDE DEF run
  <2> QED
    BY <1>4, <1>10, <1>11, <1>12, <1>13 DEF Runs
<1> HIDE DEF run
<1>15. ErrorIn(run) = ErrorOf(f, r.cname, r.fname)
  BY <1>14, Zenon DEF ErrorIn
<1>16. /\ Countable(ReplyHead(k, ErrorIn(run)), run.result)
       /\ runs' = Append(runs, run)
       /\ toClient' = toClient \o ReplyFrame(k, run)
  BY <1>9, <1>10, <1>14, <1>15, Zenon DEF ReplyFrame
<1> QED
  BY <1>2, <1>3, <1>10, <1>14, <1>16 DEF k, r, run

(* A run.                                                                  *)
LEMMA ExecuteStep ==
  ASSUME Registry, Sent, Served, RequestsStand, NEW a \in 0..Len(runs), Answered(a),
         NEW result \in Results, Execute(result)
  PROVE  Sent' /\ Served' /\ RequestsStand' /\ a \in 0..Len(runs)' /\ Answered(a)'
<1> DEFINE n == Len(runs)
<1>1. PICK run \in Runs :
        /\ n + 1 \in 1..Len(calls) /\ run.request = Received(calls[n + 1])
        /\ runs' = Append(runs, run)
        /\ Countable(ReplyHead(n + 1, ErrorIn(run)), run.result)
        /\ toClient' = toClient \o ReplyFrame(n + 1, run)
        /\ Stands(toServer', RequestFrames(calls), (n + 1) + 1, Len(calls))
        /\ UNCHANGED <<registryVars, calls, m_cb, answers>>
  BY ExecuteTakes
<1>2. n \in Nat /\ Len(calls) \in Nat /\ runs \in Seq(Runs)
  BY LenProperties DEF Sent, Served
<1>3. /\ runs' \in Seq(Runs) /\ Len(runs') = n + 1 /\ runs'[n + 1] = run
      /\ \A k \in 1..n : runs'[k] = runs[k]
  BY <1>1, <1>2, AppendProperties
<1>4. /\ calls' = calls /\ m_cb' = m_cb /\ answers' = answers
      /\ m_classes' = m_classes /\ serving' = serving
  BY <1>1 DEF registryVars
<1>5. Sent'
  BY <1>4 DEF Sent, HeadOf
<1>6. /\ \A k \in 1..(n + 1) : ErrorIn(runs[k])' = ErrorIn(runs'[k])
      /\ \A x \in answers : ErrorIn(runs[x.uid])' = ErrorIn(runs'[x.uid])
      /\ ReplyFrames(runs)' = ReplyFrames(runs')
  BY <1>4 DEF ErrorIn, ErrorOf, ErrorText, ReplyFrames, ReplyFrame
<1>7. ASSUME NEW k \in 1..(n + 1)
      PROVE  /\ k = n + 1 => runs'[k] = run
             /\ k # n + 1 => k \in 1..n /\ runs'[k] = runs[k]
  BY <1>2, <1>3
<1>8. n + 1 \in 1..(n + 1) /\ n + 1 <= Len(calls) /\ \A k \in 1..n : k \in 1..(n + 1)
  BY <1>1, <1>2
<1>9. \A k \in 1..(n + 1) :
        /\ runs'[k].request = Received(calls[k])
        /\ Countable(ReplyHead(k, ErrorIn(runs'[k])), runs'[k].result)
  <2> SUFFICES ASSUME NEW k \in 1..(n + 1)
               PROVE  /\ runs'[k].request = Received(calls[k])
                      /\ Countable(ReplyHead(k, ErrorIn(runs'[k])), runs'[k].result)
    OBVIOUS
  <2>1. CASE k = n + 1
    BY <1>1, <1>7, <2>1, Zenon
  <2>2. CASE k # n + 1
    BY <1>7, <2>2, Zenon DEF Served
  <2> QED
    BY <2>1, <2>2
<1> HIDE DEF n
<1>10. Served'
  BY <1>3, <1>4, <1>6, <1>8, <1>9 DEF Served, Received
<1>11. RequestsStand'
  BY <1>1, <1>3, <1>4 DEF RequestsStand, RequestFrames, RequestFrame, HeadOf
<1>12. a \in 0..n /\ a \in 0..(n + 1) /\ a \in Nat
  BY <1>2 DEF n
<1>13. Answered(a)'
  <2> DEFINE f == ReplyFrames(runs)
             g == ReplyFrames(runs')
             b == a + 1
  <2>1. \A k \in 1..n : f[k] \in Seq(Cells) /\ f[k] = ReplyFrame(k, runs[k])
    BY FramesAreCells, OneRun DEF n
  <2>2. \A k \in 1..(n + 1) : g[k] = ReplyFrame(k, runs'[k])
    BY <1>3 DEF ReplyFrames
  <2>3. g[n + 1] = ReplyFrame(n + 1, run)
    BY <1>3, <1>8, <2>2, Zenon
  <2>4. \A k \in 1..n : g[k] = f[k]
    BY <1>3, <1>8, <2>1, <2>2, Zenon
  <2>5. g[n + 1] \in Seq(Cells)
    <3>1. Sent' /\ Served' /\ n + 1 \in 1..Len(runs')
      BY <1>3, <1>5, <1>8, <1>10
    <3>2. (\A k \in 1..Len(runs) : ReplyFrames(runs)[k] \in Seq(Cells))'
      BY <3>1, FramesAreCells, PTL
    <3>3. ReplyFrames(runs)'[n + 1] \in Seq(Cells)
      BY <3>1, <3>2
    <3> QED
      BY <1>6, <3>3, Zenon
  <2>6. b \in Nat /\ b <= n + 1 /\ \A k \in b..n : k \in 1..n
    BY <1>2, <1>12
  <2>7. Extends(g, f, b, n) /\ \A k \in b..n : f[k] \in Seq(Cells)
    BY <2>1, <2>4, <2>6 DEF Extends
  <2>8. Stands(toClient, f, b, n)
    BY DEF Answered, n
  <2> HIDE DEF f, g, b
  <2>9. Stands(toClient \o g[n + 1], g, b, n + 1)
    BY <1>2, <2>5, <2>6, <2>7, <2>8, FrameIsWritten
  <2>10. Stands(toClient', ReplyFrames(runs)', a + 1, Len(runs'))
    BY <1>1, <1>3, <1>6, <2>3, <2>9, Zenon DEF b, g
  <2>11. m_cb' = (a + 1)..Len(calls')
    BY <1>4 DEF Answered
  <2>12. ASSUME NEW x \in answers
         PROVE  /\ x.uid \in 1..a
                /\ x.values = Decoded(ErrorIn(runs'[x.uid]), Trans(runs'[x.uid].result))
    <3>1. x.uid \in 1..a /\ x.values = Decoded(ErrorIn(runs[x.uid]), Trans(runs[x.uid].result))
      BY DEF Answered
    <3>2. x.uid \in 1..n
      BY <1>2, <1>12, <3>1
    <3>3. runs'[x.uid] = runs[x.uid]
      BY <1>3, <3>2
    <3> QED
      BY <3>1, <3>3, Zenon
  <2> QED
    BY <1>4, <1>6, <2>10, <2>11, <2>12 DEF Answered
<1> QED
  BY <1>3, <1>5, <1>10, <1>11, <1>12, <1>13

(* An answer: it is for the first call that has none.                      *)
LEMMA AnswerStep ==
  ASSUME Sent, Served, RequestsStand, NEW a \in 0..Len(runs), Answered(a), Answer
  PROVE  Sent' /\ Served' /\ RequestsStand' /\ a + 1 \in 0..Len(runs)' /\ Answered(a + 1)'
<1> DEFINE k == a + 1
           m == DeserializeMessage(BodyOf(toClient), 2)
           error == ErrorIn(runs[k])
<1>1. toClient # <<>>
  <2>1. Len(<<>>) = 0
    OBVIOUS
  <2>2. Len(toClient) >= 2
    BY DEF Answer
  <2> QED
    BY <2>1, <2>2
<1>2. /\ k \in 1..Len(runs)
      /\ m = [ok |-> TRUE, head |-> Trans(ReplyHead(k, error)), tail |-> Trans(runs[k].result)]
      /\ Stands(RestOf(toClient), ReplyFrames(runs), k + 1, Len(runs))
  BY <1>1, ReplyInFront
<1>3. k \in Cells /\ error \in Seq(Cells) /\ k \in 1..Len(calls)
  BY <1>2, OneRun
<1> HIDE DEF k, error
<1>4. Trans(ReplyHead(k, error))[1].union[1] = k /\ Trans(ReplyHead(k, error))[2].str = error
  BY <1>3, ReplyHeadArrives
<1> HIDE DEF m
<1>5. m.head = Trans(ReplyHead(k, error)) /\ m.tail = Trans(runs[k].result)
  BY <1>2
<1>6. m.head[1].union[1] = k /\ m.head[2].str = error
  BY <1>4, <1>5, Zenon
<1>7. Len(runs) \in Nat /\ Len(calls) \in Nat /\ a \in Nat /\ k = a + 1
  BY LenProperties DEF Sent, Served, k
<1>8. k \in m_cb
  BY <1>3, <1>7 DEF Answered
<1>9. /\ answers' = answers \union {[uid |-> k, values |-> Decoded(error, Trans(runs[k].result))]}
      /\ m_cb' = m_cb \ {k} /\ toClient' = RestOf(toClient)
      /\ UNCHANGED <<registryVars, calls, toServer, runs>>
  BY <1>5, <1>6, <1>8, Zenon DEF Answer, m
<1>10. UNCHANGED <<m_classes, serving, calls, toServer, runs>>
  BY <1>9 DEF registryVars
<1>11. Sent' /\ RequestsStand'
  BY <1>10 DEF Sent, RequestsStand, RequestFrames, RequestFrame, HeadOf
<1>12. /\ \A j : ErrorIn(runs[j])' = ErrorIn(runs[j])
       /\ ReplyFrames(runs)' = ReplyFrames(runs)
  BY <1>10 DEF ErrorIn, ErrorOf, ErrorText, ReplyFrames, ReplyFrame
<1>13. Served'
  BY <1>10, <1>12 DEF Served, Received
<1>14. Answered(a + 1)'
  <2>1. Stands(toClient', ReplyFrames(runs)', k + 1, Len(runs'))
    BY <1>2, <1>9, <1>10, <1>12, Zenon
  <2>2. m_cb' = (k + 1)..Len(calls')
    BY <1>7, <1>9, <1>10 DEF Answered
  <2>3. ASSUME NEW x \in answers'
        PROVE  /\ x.uid \in 1..k
               /\ x.values = Decoded(ErrorIn(runs[x.uid]), Trans(runs[x.uid].result))
    <3>1. CASE x \in answers
      <4>1. x.uid \in 1..a /\ x.values = Decoded(ErrorIn(runs[x.uid]), Trans(runs[x.uid].result))
        BY <3>1 DEF Answered
      <4>2. x.uid \in 1..k
        BY <1>7, <4>1
      <4> QED
        BY <4>1, <4>2
    <3>2. CASE x \notin answers
      <4>1. x = [uid |-> k, values |-> Decoded(error, Trans(runs[k].result))]
        BY <1>9, <3>2
      <4>2. x.uid = k /\ x.values = Decoded(error, Trans(runs[k].result))
        BY <4>1
      <4>3. k \in 1..k
        BY <1>7
      <4> QED
        BY <4>2, <4>3, Zenon DEF error
    <3> QED
      BY <3>1, <3>2
  <2>4. k + 1 = (a + 1) + 1
    BY <1>7
  <2> QED
    BY <1>7, <1>10, <1>12, <2>1, <2>2, <2>3, <2>4 DEF Answered
<1> QED
  BY <1>2, <1>7, <1>10, <1>11, <1>13, <1>14

(* Every step preserves the invariant.                                     *)
LEMMA NextInvariant == IInv /\ [Next]_vars => IInv'
<1> SUFFICES ASSUME Registry, Sent, Served, RequestsStand,
                    NEW a \in 0..Len(runs), Answered(a), [Next]_vars
             PROVE  IInv'
  BY DEF IInv
<1>1. ASSUME ~serving, Registry', UNCHANGED <<calls, toServer, runs, toClient, m_cb, answers>>
      PROVE  IInv'
  BY <1>1, NothingElse DEF IInv
<1>2. CASE Initialize
  <2>1. ~serving /\ UNCHANGED <<calls, toServer, runs, toClient, m_cb, answers>>
    BY <1>2 DEF Initialize
  <2> QED
    BY <1>1, <1>2, <2>1, RegistryStep
<1>3. ASSUME NEW c \in Collections, RegisterCollection(c) PROVE IInv'
  <2>1. ~serving /\ UNCHANGED <<calls, toServer, runs, toClient, m_cb, answers>>
    BY <1>3 DEF RegisterCollection
  <2> QED
    BY <1>1, <1>3, <2>1, RegistryStep
<1>4. ASSUME NEW c \in Collections, NEW f \in Signatures, RegisterFunction(c, f)
      PROVE  IInv'
  <2>1. ~serving /\ UNCHANGED <<calls, toServer, runs, toClient, m_cb, answers>>
    BY <1>4 DEF RegisterFunction
  <2> QED
    BY <1>1, <1>4, <2>1, RegistryStep
<1>5. ASSUME registryVars' = registryVars PROVE Registry'
  BY <1>5 DEF registryVars, Registry, KeysAreUnique
<1>6. ASSUME NEW r \in Requests, CallFunction(r) PROVE IInv'
  <2>1. registryVars' = registryVars
    BY <1>6 DEF CallFunction
  <2> QED
    BY <1>5, <1>6, <2>1, CallStep DEF IInv
<1>7. ASSUME NEW result \in Results, Execute(result) PROVE IInv'
  <2>1. registryVars' = registryVars
    BY <1>7 DEF Execute
  <2> QED
    BY <1>5, <1>7, <2>1, ExecuteStep DEF IInv
<1>8. CASE Answer
  <2>1. registryVars' = registryVars
    BY <1>8 DEF Answer
  <2>2. a + 1 \in 0..Len(runs)' /\ Sent' /\ Served' /\ RequestsStand' /\ Answered(a + 1)'
    BY <1>8, AnswerStep
  <2>3. PICK b : b = a + 1
    OBVIOUS
  <2> QED
    BY <1>5, <2>1, <2>2, <2>3 DEF IInv
<1>9. CASE UNCHANGED vars
  <2>1. /\ registryVars' = registryVars
        /\ UNCHANGED <<m_classes, serving, calls, toServer, runs, toClient, m_cb, answers>>
    BY <1>9 DEF vars, registryVars
  <2>2. Sent' /\ RequestsStand'
    BY <2>1 DEF Sent, HeadOf, RequestsStand, RequestFrames, RequestFrame
  <2>3. /\ \A k : ErrorIn(runs[k])' = ErrorIn(runs[k])
        /\ ReplyFrames(runs)' = ReplyFrames(runs)
    BY <2>1 DEF ErrorIn, ErrorOf, ErrorText, ReplyFrames, ReplyFrame
  <2>4. Served' /\ Answered(a)' /\ a \in 0..Len(runs)'
    BY <2>1, <2>3 DEF Served, Received, Answered
  <2> QED
    BY <1>5, <2>1, <2>2, <2>4 DEF IInv
<1> QED
  BY <1>2, <1>3, <1>4, <1>6, <1>7, <1>8, <1>9 DEF Next

(* The invariant holds in every behaviour.                                 *)
THEOREM Invariance == Spec => []IInv
<1> QED
  BY InitInvariant, NextInvariant, PTL DEF Spec

-----------------------------------------------------------------------------
(* What it implies.                                                        *)

(* What the callback is told is a list of values.                          *)
LEMMA OneAnswer ==
  ASSUME Sent, Served, NEW a \in 0..Len(runs), Answered(a), NEW x \in answers
  PROVE  /\ x.uid \in 1..Len(runs)
         /\ x.values \in Seq(Values)
         /\ runs[x.uid].function = NoFunction =>
              /\ Len(x.values) = 1
              /\ x.values[1].type = "Null" /\ x.values[1].str # <<>>
              /\ x.values[1].str = ErrorIn(runs[x.uid])
         /\ runs[x.uid].function # NoFunction => x.values = Trans(runs[x.uid].result)
<1> DEFINE k == x.uid
           error == ErrorIn(runs[k])
<1>1. k \in 1..a /\ x.values = Decoded(error, Trans(runs[k].result))
  BY DEF Answered
<1>2. k \in 1..Len(runs)
  BY <1>1, LenProperties DEF Served
<1> HIDE DEF k
<1>3. /\ runs[k].result \in Seq(Values) /\ error \in Seq(Cells)
      /\ error = <<>> <=> runs[k].function # NoFunction
  BY <1>2, OneRun
<1> HIDE DEF error
<1>4. CASE error # <<>>
  <2>1. PICK zeros : zeros = <<0, 0>>
    OBVIOUS
  <2>2. PICK none : none = <<>>
    OBVIOUS
  <2>3. PICK null : null = [type |-> "Null", union |-> zeros, str |-> none, bin |-> none]
    OBVIOUS
  <2>4. NullValue = null
    BY <2>1, <2>2, <2>3 DEF NullValue
  <2>5. PICK v : v = [null EXCEPT !.str = error]
    OBVIOUS
  <2>6. v = [type |-> "Null", union |-> zeros, str |-> error, bin |-> none]
    BY <2>3, <2>5
  <2>7. zeros \in Cells \X Cells /\ none \in Seq(Cells) /\ "Null" \in Types
    <3>1. TypeNames[1] = "Null" /\ 1 \in DOMAIN TypeNames
      BY DEF TypeNames
    <3> QED
      BY <2>1, <2>2, <3>1, WordAssumption DEF Cells, Types
  <2>8. v \in Values /\ v.type = "Null" /\ v.str = error
    BY <1>3, <2>6, <2>7 DEF Values
  <2>9. x.values = <<v>>
    BY <1>1, <1>4, <2>4, <2>5, Zenon DEF Decoded
  <2>10. /\ x.values \in Seq(Values) /\ Len(x.values) = 1
         /\ x.values[1] = v
    BY <2>8, <2>9
  <2>11. error = ErrorIn(runs[k])
    BY DEF error
  <2> QED
    BY <1>2, <1>3, <1>4, <2>8, <2>10, <2>11 DEF k
<1>5. CASE error = <<>>
  <2>1. x.values = Trans(runs[k].result)
    BY <1>1, <1>5, Zenon DEF Decoded
  <2>2. Trans(runs[k].result) \in Seq(Values)
    BY <1>3, ListArrives
  <2> QED
    BY <1>2, <1>3, <1>5, <2>1, <2>2 DEF k
<1> QED
  BY <1>4, <1>5

(* The types: that both streams are cells needs that frames stand in them, *)
(* and that what a callback is told are values needs what the server sent. *)
THEOREM TypeCorrect == Spec => []TypeOK
<1>1. IInv => TypeOK
  <2> SUFFICES ASSUME Registry, Sent, Served, RequestsStand,
                      NEW a \in 0..Len(runs), Answered(a)
               PROVE  TypeOK
    BY DEF IInv
  <2>1. Len(runs) \in Nat /\ Len(calls) \in Nat /\ MaxCalls \in Nat /\ Len(calls) <= MaxCalls
    BY LenProperties, CallPathAssumption DEF Sent, Served
  <2>2. Len(runs) <= Len(calls) /\ a <= Len(runs) /\ a \in Nat
    BY <2>1 DEF Served
  <2>3. DOMAIN calls = 1..Len(calls) /\ \A i \in 1..Len(calls) : calls[i] \in Requests
    BY LenProperties, ElementOfSeq DEF Sent
  <2>4. toServer \in Seq(Cells)
    <3>1. Len(runs) + 1 <= Len(calls) + 1 /\ Len(runs) + 1 \in Nat
      BY <2>1, <2>2
    <3> QED
      BY <2>1, <3>1, StreamOfCells DEF RequestsStand
  <2>5. toClient \in Seq(Cells)
    <3>1. a + 1 <= Len(runs) + 1 /\ a + 1 \in Nat
      BY <2>1, <2>2
    <3> QED
      BY <2>1, <3>1, StreamOfCells DEF Answered
  <2>6. m_cb \subseteq 1..MaxCalls
    BY <2>1, <2>2 DEF Answered
  <2>7. ASSUME NEW x \in answers
        PROVE  x.uid \in 1..MaxCalls /\ \A i \in DOMAIN x.values : x.values[i] \in Values
    <3>1. x.uid \in 1..Len(runs) /\ x.values \in Seq(Values)
      BY OneAnswer
    <3>2. x.uid \in 1..MaxCalls
      BY <2>1, <2>2, <3>1
    <3>3. \A i \in DOMAIN x.values : x.values[i] \in Values
      BY <3>1, LenProperties, ElementOfSeq
    <3> QED
      BY <3>2, <3>3
  <2> QED
    BY <2>1, <2>2, <2>3, <2>4, <2>5, <2>6, <2>7 DEF Registry, TypeOK
<1> QED
  BY <1>1, Invariance, PTL

(* Every request that the server runs is the one that was made, names and  *)
(* arguments: read_callback_msg reads what call() wrote.                   *)
THEOREM RequestsIntact == Spec => []RequestsArriveIntact
<1>1. IInv => RequestsArriveIntact
  <2> SUFFICES ASSUME Sent, Served, NEW k \in DOMAIN runs
               PROVE  /\ runs[k].request.cname = calls[k].cname
                      /\ runs[k].request.fname = calls[k].fname
                      /\ Len(runs[k].request.args) = Len(calls[k].args)
                      /\ \A i \in DOMAIN calls[k].args :
                           runs[k].request.args[i] = Transmitted(calls[k].args[i])
    BY Zenon DEF IInv, RequestsArriveIntact
  <2>1. k \in 1..Len(runs)
    BY LenProperties DEF Served
  <2>2. k \in 1..Len(calls) /\ runs[k].request = Received(calls[k])
    BY <2>1, OneRun DEF Served
  <2>3. calls[k].args \in Seq(Values)
    BY <2>2, OneCall
  <2>4. /\ runs[k].request.cname = calls[k].cname /\ runs[k].request.fname = calls[k].fname
        /\ runs[k].request.args = Trans(calls[k].args)
    BY <2>2 DEF Received
  <2>5. /\ Len(Trans(calls[k].args)) = Len(calls[k].args)
        /\ \A i \in 1..Len(calls[k].args) :
             Trans(calls[k].args)[i] = Transmitted(calls[k].args[i])
    BY <2>3, ListArrives
  <2>6. DOMAIN calls[k].args = 1..Len(calls[k].args)
    BY <2>3, LenProperties
  <2> QED
    BY <2>4, <2>5, <2>6, Zenon
<1> QED
  BY <1>1, Invariance, PTL

(* Every callback gets what the function returned, or the text of an       *)
(* error.                                                                  *)
THEOREM AnswersIntact == Spec => []AnswersAreIntact
<1>1. IInv => AnswersAreIntact
  <2> SUFFICES ASSUME Sent, Served, NEW a \in 0..Len(runs), Answered(a), NEW x \in answers
               PROVE  /\ x.uid \in DOMAIN runs
                      /\ IF runs[x.uid].function = NoFunction
                        THEN /\ Len(x.values) = 1 /\ x.values[1].type = "Null"
                             /\ x.values[1].str =
                                  ErrorText(calls[x.uid].cname, calls[x.uid].fname)
                        ELSE /\ Len(x.values) = Len(runs[x.uid].result)
                             /\ \A i \in DOMAIN runs[x.uid].result :
                                  x.values[i] = Transmitted(runs[x.uid].result[i])
    BY Zenon DEF IInv, AnswersAreIntact
  <2>0. x.uid \in 1..Len(runs) /\ x.uid \in DOMAIN runs
    BY OneAnswer, LenProperties DEF Served
  <2>1. CASE runs[x.uid].function = NoFunction
    <3>1. /\ Len(x.values) = 1 /\ x.values[1].type = "Null"
          /\ x.values[1].str = ErrorIn(runs[x.uid])
      BY <2>1, OneAnswer
    <3>2. /\ runs[x.uid].request.cname = calls[x.uid].cname
          /\ runs[x.uid].request.fname = calls[x.uid].fname
      <4>1. runs[x.uid].request = Received(calls[x.uid])
        BY <2>0, Zenon DEF Served
      <4> QED
        BY <4>1 DEF Received
    <3>3. ErrorIn(runs[x.uid]) = ErrorText(calls[x.uid].cname, calls[x.uid].fname)
      BY <2>1, <3>2, Zenon DEF ErrorIn, ErrorOf
    <3> QED
      BY <2>0, <2>1, <3>1, <3>3
  <2>2. CASE runs[x.uid].function # NoFunction
    <3>1. x.uid \in 1..Len(runs) /\ x.values = Trans(runs[x.uid].result)
      BY <2>2, OneAnswer
    <3>2. runs[x.uid].result \in Seq(Values)
      BY <3>1, OneRun
    <3>3. DOMAIN runs[x.uid].result = 1..Len(runs[x.uid].result)
      BY <3>2, LenProperties
    <3> QED
      BY <2>0, <2>2, <3>1, <3>2, <3>3, ListArrives
  <2> QED
    BY <2>1, <2>2
<1> QED
  BY <1>1, Invariance, PTL

(* Whatever calls are in the streams, requests and answers are those of    *)
(* each call.                                                              *)
THEOREM CallsIntact == Spec => []CallsArriveIntact
<1>1. RequestsArriveIntact /\ AnswersAreIntact => CallsArriveIntact
  BY DEF CallsArriveIntact
<1> QED
  BY <1>1, RequestsIntact, AnswersIntact, PTL

(* A callback can tell an error from a result, whatever functions return.  *)
THEOREM ErrorsRecognised == Spec => []ErrorsAreRecognisable
<1>1. ASSUME NEW v PROVE ~ (Transmitted(v).type = "Null" /\ Transmitted(v).str # <<>>)
  BY DEF Transmitted
<1>2. IInv => ErrorsAreRecognisable
  <2> SUFFICES ASSUME Sent, Served, NEW a \in 0..Len(runs), Answered(a), NEW x \in answers
               PROVE  (\E i \in DOMAIN x.values :
                         x.values[i].type = "Null" /\ x.values[i].str # <<>>)
                        <=> runs[x.uid].function = NoFunction
    BY Zenon DEF IInv, ErrorsAreRecognisable
  <2>1. x.uid \in 1..Len(runs) /\ x.values \in Seq(Values) /\ DOMAIN x.values = 1..Len(x.values)
    BY OneAnswer, LenProperties
  <2>2. CASE runs[x.uid].function = NoFunction
    <3>1. 1 \in DOMAIN x.values /\ x.values[1].type = "Null" /\ x.values[1].str # <<>>
      BY <2>1, <2>2, OneAnswer
    <3> QED
      BY <2>2, <3>1
  <2>3. CASE runs[x.uid].function # NoFunction
    <3>1. x.values = Trans(runs[x.uid].result) /\ runs[x.uid].result \in Seq(Values)
      BY <2>1, <2>3, OneAnswer, OneRun
    <3>2. \A i \in DOMAIN x.values : x.values[i] = Transmitted(runs[x.uid].result[i])
      BY <2>1, <3>1, ListArrives
    <3> QED
      BY <1>1, <2>3, <3>2, Zenon
  <2> QED
    BY <2>2, <2>3
<1> QED
  BY <1>2, Invariance, PTL

(* No reader is ever stuck: what is in a stream begins with a whole        *)
(* message.                                                                *)
THEOREM StreamsStayAligned == Spec => []StreamsAligned
<1>1. IInv => StreamsAligned
  <2> SUFFICES ASSUME Sent, Served, RequestsStand, NEW a \in 0..Len(runs), Answered(a)
               PROVE  StreamsAligned
    BY DEF IInv
  <2>1. ASSUME toServer # <<>>
        PROVE  /\ Len(toServer) >= 2 /\ Len(toServer) >= 2 + read_size(toServer)
               /\ DeserializeMessage(BodyOf(toServer), 3).ok
    BY <2>1, RequestInFront
  <2>2. ASSUME toClient # <<>>
        PROVE  /\ Len(toClient) >= 2 /\ Len(toClient) >= 2 + read_size(toClient)
               /\ DeserializeMessage(BodyOf(toClient), 2).ok
    BY <2>2, ReplyInFront
  <2> QED
    BY <2>1, <2>2 DEF StreamsAligned
<1> QED
  BY <1>1, Invariance, PTL
(* What is registered under a pair of names is what they resolve to.       *)
LEMMA LookupIs ==
  ASSUME Registry, NEW c \in m_classes, NEW f \in m_functions[c]
  PROVE  Lookup(NameOf[c], f.name) = f
<1>1. c \in Collections /\ KeysAreUnique
  BY DEF Registry
<1>2. (CHOOSE d \in m_classes : NameOf[d] = NameOf[c]) = c
  BY <1>1 DEF KeysAreUnique
<1>3. (CHOOSE g \in m_functions[c] : g.name = f.name) = f
  BY <1>1 DEF KeysAreUnique
<1>4. get_function(c, f.name) = f
  BY <1>3, Zenon DEF get_function
<1> QED
  BY <1>2, <1>4, Zenon DEF Lookup

(* Names that resolve to something are those of something registered.      *)
LEMMA LookupOf ==
  ASSUME Registry, NEW cname, NEW fname, Lookup(cname, fname) # NoFunction
  PROVE  \E c \in m_classes : \E f \in m_functions[c] : NameOf[c] = cname /\ f.name = fname
<1>1. \E c \in m_classes : NameOf[c] = cname
  BY Zenon DEF Lookup
<1> DEFINE c == CHOOSE c \in m_classes : NameOf[c] = cname
<1>2. c \in m_classes /\ NameOf[c] = cname
  BY <1>1
<1>3. Lookup(cname, fname) = get_function(c, fname)
  BY <1>1, Zenon DEF Lookup
<1> HIDE DEF c
<1>4. \E f \in m_functions[c] : f.name = fname
  BY <1>3, Zenon DEF get_function
<1> QED
  BY <1>2, <1>4

(* Nothing is ever taken out of the registry.                              *)
LEMMA RegistryGrows ==
  ASSUME Registry, [Next]_vars
  PROVE  /\ m_classes \subseteq m_classes'
         /\ \A c \in Collections : m_functions[c] \subseteq m_functions'[c]
<1>1. CASE UNCHANGED <<m_classes, m_functions>>
  BY <1>1
<1>2. ASSUME NEW c \in Collections, RegisterCollection(c)
      PROVE  m_classes \subseteq m_classes' /\ m_functions' = m_functions
  BY <1>2 DEF RegisterCollection, register_collection
<1>3. ASSUME NEW c \in Collections, NEW f \in Signatures, RegisterFunction(c, f)
      PROVE  /\ m_classes' = m_classes
             /\ \A d \in Collections : m_functions[d] \subseteq m_functions'[d]
  <2>1. /\ m_functions' = [m_functions EXCEPT ![c] = register_function(@, f)]
        /\ m_classes' = m_classes
    BY <1>3 DEF RegisterFunction
  <2>2. m_functions[c] \subseteq register_function(m_functions[c], f)
    BY DEF register_function
  <2> QED
    BY <2>1, <2>2 DEF Registry
<1>4. \/ UNCHANGED <<m_classes, m_functions>>
      \/ \E c \in Collections :
           RegisterCollection(c) \/ \E f \in Signatures : RegisterFunction(c, f)
  BY DEF Next, Initialize, CallFunction, Execute, Answer, registryVars, vars
<1> QED
  BY <1>1, <1>2, <1>3, <1>4

(* A pair of names that resolves keeps resolving to the same function:     *)
(* register_function and register_collection do not overwrite.             *)
THEOREM LookupsAreStable == Spec => LookupIsStable
<1> DEFINE Stable == \A c \in ClassNames : \A n \in FunctionNames :
                       Lookup(c, n) # NoFunction => Lookup(c, n)' = Lookup(c, n)
<1> DEFINE Resolves == \A c \in m_classes : \A f \in m_functions[c] :
                         Lookup(NameOf[c], f.name) = f
<1>1. Registry => Resolves
  BY LookupIs
<1>2. Registry' => Resolves'
  BY <1>1, PTL
<1>3. ASSUME Registry, Registry', [Next]_vars PROVE Stable
  <2> SUFFICES ASSUME NEW cname \in ClassNames, NEW fname \in FunctionNames,
                      Lookup(cname, fname) # NoFunction
               PROVE  Lookup(cname, fname)' = Lookup(cname, fname)
    BY Zenon
  <2>1. PICK c \in m_classes : \E f \in m_functions[c] : NameOf[c] = cname /\ f.name = fname
    BY <1>3, LookupOf
  <2>2. PICK f \in m_functions[c] : NameOf[c] = cname /\ f.name = fname
    BY <2>1
  <2>3. c \in Collections
    BY <1>3 DEF Registry
  <2>4. c \in m_classes' /\ f \in m_functions'[c]
    BY <1>3, <2>2, <2>3, RegistryGrows
  <2>5. Lookup(NameOf[c], f.name) = f
    BY <1>3, <1>1, <2>2
  <2>6. Lookup(NameOf[c], f.name)' = f
    BY <1>3, <1>2, <2>4
  <2> QED
    BY <2>2, <2>5, <2>6, Zenon
<1>4. IInv /\ IInv' /\ [Next]_vars => Stable
  BY <1>3, Zenon DEF IInv
<1>5. IInv /\ IInv' /\ [Next]_vars => [Stable]_vars
  BY <1>4
<1> QED
  BY <1>5, Invariance, PTL DEF Spec, LookupIsStable

=============================================================================
