-------------------------- MODULE IpcMessageProofs --------------------------
(***************************************************************************)
(* What is written to the wire is read back (IpcMessage): for every list   *)
(* of values, of any number and length, as long as the size of the message *)
(* fits in the 32 bits of its frame.                                       *)
(*                                                                         *)
(* Lists are serialized and deserialized by recursive functions.  What     *)
(* they compute is proved by induction on the number of values, and the    *)
(* induction is carried by sets of numbers (SetInduction).                 *)
(***************************************************************************)
EXTENDS IpcMessage, SequenceTheorems, WellFoundedInduction, TLAPS

-----------------------------------------------------------------------------
(* Induction and recursion.                                                *)

(* A set with 0 and every successor is the set of natural numbers.         *)
LEMMA SetInduction ==
  ASSUME NEW T \in SUBSET Nat, 0 \in T, \A i \in Nat : i \in T => i + 1 \in T
  PROVE  T = Nat
<1> DEFINE Bad == Nat \ T
<1>1. ASSUME Bad # {} PROVE FALSE
  <2>1. \E x \in Bad : \A y \in Bad : ~ (<<y, x>> \in OpToRel(<, Nat))
    <3>1. Bad \subseteq Nat
      OBVIOUS
    <3> QED
      BY <1>1, <3>1, NatLessThanWellFounded, WFMin
  <2>2. PICK x \in Bad : \A y \in Bad : ~ (<<y, x>> \in OpToRel(<, Nat))
    BY <2>1
  <2>3. x # 0 /\ x - 1 \in Nat /\ x - 1 \in Bad
    OBVIOUS
  <2>4. <<x - 1, x>> \in OpToRel(<, Nat)
    BY <2>3 DEF OpToRel
  <2> QED
    BY <2>2, <2>3, <2>4
<1> QED
  BY <1>1

\* A step takes what was reached and its own number to what it reaches.
Steps(step, n, S) == step \in [S \X (1..n) -> S]

Iterates(g, step, b, n, S) ==
  g \in [0..n -> S] /\ g[0] = b /\ \A i \in 1..n : g[i] = step[<<g[i - 1], i>>]

(* A step can be iterated any number of times.                             *)
LEMMA Iteration ==
  ASSUME NEW S, NEW b, NEW n, NEW step, Steps(step, n, S), b \in S, n \in Nat
  PROVE  \E g : Iterates(g, step, b, n, S)
<1> DEFINE T == {m \in Nat : m <= n => \E g : Iterates(g, step, b, m, S)}
<1>1. 0 \in T
  <2>1. Iterates([i \in 0..0 |-> b], step, b, 0, S)
    BY DEF Iterates
  <2> QED
    BY <2>1
<1>2. ASSUME NEW m \in Nat, m \in T PROVE m + 1 \in T
  <2> SUFFICES ASSUME m + 1 <= n PROVE \E g : Iterates(g, step, b, m + 1, S)
    OBVIOUS
  <2>1. PICK f : Iterates(f, step, b, m, S)
    BY <1>2
  <2> DEFINE g == [i \in 0..(m + 1) |-> IF i <= m THEN f[i] ELSE step[<<f[m], m + 1>>]]
  <2>2. step[<<f[m], m + 1>>] \in S
    BY <2>1 DEF Iterates, Steps
  <2>3. g \in [0..(m + 1) -> S]
    BY <2>1, <2>2 DEF Iterates
  <2>4. ASSUME NEW i \in 1..(m + 1) PROVE g[i] = step[<<g[i - 1], i>>]
    <3>1. CASE i \in 1..m
      BY <2>1, <3>1 DEF Iterates
    <3>2. CASE i = m + 1
      BY <3>2
    <3> QED
      BY <3>1, <3>2
  <2>5. g[0] = b
    BY <2>1 DEF Iterates
  <2>6. Iterates(g, step, b, m + 1, S)
    BY <2>3, <2>4, <2>5 DEF Iterates
  <2> QED
    BY <2>6
<1>3. T \subseteq Nat
  OBVIOUS
<1>4. T = Nat
  <2> HIDE DEF T
  <2> QED
    BY <1>1, <1>2, <1>3, SetInduction
<1> QED
  BY <1>4

\* f goes on like g wherever it was like it.
Follows(f, g, n) == f[0] = g[0] /\ \A i \in 1..n : f[i - 1] = g[i - 1] => f[i] = g[i]

Same(f, g, n) == \A i \in 0..n : f[i] = g[i]

(* Two functions that start alike and go on alike are alike.               *)
LEMMA GoOnAlike ==
  ASSUME NEW n, NEW f, NEW g, Follows(f, g, n), n \in Nat
  PROVE  Same(f, g, n)
<1> DEFINE T == {i \in Nat : i <= n => f[i] = g[i]}
<1>1. 0 \in T
  BY DEF Follows
<1>2. ASSUME NEW i \in Nat, i \in T PROVE i + 1 \in T
  <2>1. CASE i + 1 <= n
    <3>1. i + 1 \in 1..n /\ (i + 1) - 1 = i /\ f[i] = g[i]
      BY <1>2, <2>1
    <3> QED
      BY <3>1 DEF Follows
  <2>2. CASE ~ (i + 1 <= n)
    BY <2>2
  <2> QED
    BY <2>1, <2>2
<1>3. T = Nat
  <2>1. T \subseteq Nat
    OBVIOUS
  <2> HIDE DEF T
  <2> QED
    BY <1>1, <1>2, <2>1, SetInduction
<1> QED
  BY <1>3 DEF Same

-----------------------------------------------------------------------------
(* Sequences in sequences.                                                 *)

\* The sequence s stands in buf from cell "at" on.
At(buf, at, s) ==
  at - 1 + Len(s) <= Len(buf) /\ \A i \in 1..Len(s) : buf[at - 1 + i] = s[i]

(* A concatenation stands where its parts stand one after the other.       *)
LEMMA AtConcat ==
  ASSUME NEW buf, NEW s \in Seq(Cells), NEW t \in Seq(Cells), NEW at \in Nat \ {0},
         Len(buf) \in Nat
  PROVE  At(buf, at, s \o t) <=> At(buf, at, s) /\ At(buf, at + Len(s), t)
<1>1. /\ Len(s) \in Nat /\ Len(t) \in Nat /\ Len(s \o t) = Len(s) + Len(t)
      /\ \A i \in 1..Len(s) : (s \o t)[i] = s[i]
      /\ \A i \in 1..Len(t) : (s \o t)[Len(s) + i] = t[i]
  BY ConcatProperties, LenProperties
<1>2. ASSUME At(buf, at, s \o t) PROVE At(buf, at, s) /\ At(buf, at + Len(s), t)
  <2>1. At(buf, at, s)
    <3>1. Len(s) <= Len(s \o t) /\ \A i \in 1..Len(s) : i \in 1..Len(s \o t)
      BY <1>1
    <3> QED
      BY <1>1, <1>2, <3>1 DEF At
  <2>2. ASSUME NEW i \in 1..Len(t) PROVE buf[at + Len(s) - 1 + i] = t[i]
    <3>1. Len(s) + i \in 1..Len(s \o t) /\ at - 1 + (Len(s) + i) = at + Len(s) - 1 + i
      BY <1>1
    <3> QED
      BY <1>1, <1>2, <3>1 DEF At
  <2> QED
    BY <1>1, <1>2, <2>1, <2>2 DEF At
<1>3. ASSUME At(buf, at, s), At(buf, at + Len(s), t) PROVE At(buf, at, s \o t)
  <2>1. ASSUME NEW i \in 1..Len(s \o t) PROVE buf[at - 1 + i] = (s \o t)[i]
    <3>1. CASE i \in 1..Len(s)
      BY <1>1, <1>3, <3>1 DEF At
    <3>2. CASE i \notin 1..Len(s)
      <4>1. PICK j \in 1..Len(t) : i = Len(s) + j
        <5>1. i - Len(s) \in 1..Len(t) /\ i = Len(s) + (i - Len(s))
          BY <1>1, <3>2
        <5> QED
          BY <5>1
      <4>2. at + Len(s) - 1 + j = at - 1 + i
        BY <1>1, <4>1
      <4> QED
        BY <1>1, <1>3, <4>1, <4>2 DEF At
    <3> QED
      BY <3>1, <3>2
  <2> QED
    BY <1>1, <1>3, <2>1 DEF At
<1> QED
  BY <1>2, <1>3

(* The type and the length of two buffers, one after the other.            *)
LEMMA Joined ==
  ASSUME NEW s \in Seq(Cells), NEW t \in Seq(Cells)
  PROVE  /\ s \o t \in Seq(Cells) /\ Len(s) \in Nat /\ Len(t) \in Nat
         /\ Len(s \o t) = Len(s) + Len(t)
BY ConcatProperties, LenProperties

(* What is cut out of a buffer is what stands there.                       *)
LEMMA AtSubSeq ==
  ASSUME NEW S, NEW buf \in Seq(S), NEW s \in Seq(S), NEW at \in Nat \ {0}, At(buf, at, s)
  PROVE  SubSeq(buf, at, at + Len(s) - 1) = s
<1>1. Len(buf) \in Nat /\ Len(s) \in Nat /\ \A i \in 1..Len(buf) : buf[i] \in S
  BY LenProperties, ElementOfSeq
<1>2. \A i \in at..(at + Len(s) - 1) : buf[i] \in S
  BY <1>1 DEF At
<1>3. /\ SubSeq(buf, at, at + Len(s) - 1) \in Seq(S)
      /\ Len(SubSeq(buf, at, at + Len(s) - 1)) = Len(s)
      /\ \A i \in 1..Len(s) : SubSeq(buf, at, at + Len(s) - 1)[i] = buf[at + i - 1]
  BY <1>1, <1>2, SubSeqProperties
<1>4. \A i \in 1..Len(s) : at - 1 + i = at + i - 1 /\ buf[at - 1 + i] = s[i]
  BY <1>1 DEF At
<1> QED
  BY <1>3, <1>4, SeqEqual

(* A sequence stands at its own beginning.                                 *)
LEMMA AtItself ==
  ASSUME NEW S, NEW s \in Seq(S)
  PROVE  At(s, 1, s)
  BY LenProperties DEF At

-----------------------------------------------------------------------------
(* One value.                                                              *)

(* Each type has its code.                                                 *)
LEMMA TypeCodes ==
  ASSUME NEW t \in Types
  PROVE  TypeCode(t) \in 0..8 /\ TypeNames[TypeCode(t) + 1] = t
<1>1. DOMAIN TypeNames = 1..9
  BY DEF TypeNames
<1>2. \E i \in 1..9 : TypeNames[i] = t
  BY <1>1 DEF Types
<1> DEFINE c == CHOOSE i \in 1..9 : TypeNames[i] = t
<1>3. c \in 1..9 /\ TypeNames[c] = t
  BY <1>2
<1>4. TypeCode(t) = c - 1
  BY <1>1 DEF TypeCode
<1> HIDE DEF c
<1>5. c - 1 + 1 = c /\ c - 1 \in 0..8
  BY <1>3
<1> QED
  BY <1>3, <1>4, <1>5

\* What follows the type.
Payload(v) ==
  CASE v.type \in Narrow -> <<v.union[1]>>
    [] v.type \in Wide -> <<v.union[1], v.union[2]>>
    [] v.type = "String" -> <<Len(v.str) % Word>> \o v.str
    [] v.type = "Binary" -> <<Len(v.bin) % Word>> \o v.bin
    [] OTHER -> <<>>

(* The types, by what is sent of them.                                     *)
LEMMA KindsOfTypes ==
  ASSUME NEW v \in Values
  PROVE  /\ v.type \in Narrow \union Wide \union {"Null", "String", "Binary"}
         /\ v.type \in Narrow =>
              /\ v.type \notin Wide \union {"Null", "String", "Binary"}
              /\ Payload(v) = <<v.union[1]>> /\ SizeOf(v) = 2
         /\ v.type \in Wide =>
              /\ v.type \notin Narrow \union {"Null", "String", "Binary"}
              /\ Payload(v) = <<v.union[1], v.union[2]>> /\ SizeOf(v) = 3
         /\ v.type = "String" =>
              /\ v.type \notin Narrow \union Wide
              /\ Payload(v) = <<Len(v.str) % Word>> \o v.str /\ SizeOf(v) = 2 + Len(v.str)
         /\ v.type = "Binary" =>
              /\ v.type \notin Narrow \union Wide
              /\ Payload(v) = <<Len(v.bin) % Word>> \o v.bin /\ SizeOf(v) = 2 + Len(v.bin)
         /\ v.type = "Null" =>
              v.type \notin Narrow \union Wide /\ Payload(v) = <<>> /\ SizeOf(v) = 1
<1>1. v.type \in Types
  BY DEF Values
<1>2. Types = Narrow \union Wide \union {"Null", "String", "Binary"}
  <2>1. DOMAIN TypeNames = 1..9
    BY DEF TypeNames
  <2>2. /\ TypeNames[1] = "Null" /\ TypeNames[2] = "Float" /\ TypeNames[3] = "Double"
        /\ TypeNames[4] = "Int32" /\ TypeNames[5] = "Int64" /\ TypeNames[6] = "UInt32"
        /\ TypeNames[7] = "UInt64" /\ TypeNames[8] = "String" /\ TypeNames[9] = "Binary"
    BY DEF TypeNames
  <2>3. ASSUME NEW i \in 1..9
        PROVE  i = 1 \/ i = 2 \/ i = 3 \/ i = 4 \/ i = 5 \/ i = 6 \/ i = 7 \/ i = 8 \/ i = 9
    OBVIOUS
  <2>4. Types = {TypeNames[i] : i \in 1..9}
    BY <2>1 DEF Types
  <2> QED
    BY <2>2, <2>3, <2>4 DEF Narrow, Wide
<1>3. ASSUME v.type \in Narrow
      PROVE  /\ v.type \notin Wide \union {"Null", "String", "Binary"}
             /\ Payload(v) = <<v.union[1]>> /\ SizeOf(v) = 2
  BY <1>3 DEF Narrow, Wide, Payload, SizeOf
<1>4. ASSUME v.type \in Wide
      PROVE  /\ v.type \notin Narrow \union {"Null", "String", "Binary"}
             /\ Payload(v) = <<v.union[1], v.union[2]>> /\ SizeOf(v) = 3
  BY <1>4 DEF Narrow, Wide, Payload, SizeOf
<1>5. ASSUME v.type = "String"
      PROVE  /\ v.type \notin Narrow \union Wide
             /\ Payload(v) = <<Len(v.str) % Word>> \o v.str /\ SizeOf(v) = 2 + Len(v.str)
  BY <1>5 DEF Narrow, Wide, Payload, SizeOf
<1>6. ASSUME v.type = "Binary"
      PROVE  /\ v.type \notin Narrow \union Wide
             /\ Payload(v) = <<Len(v.bin) % Word>> \o v.bin /\ SizeOf(v) = 2 + Len(v.bin)
  BY <1>6 DEF Narrow, Wide, Payload, SizeOf
<1>7. ASSUME v.type = "Null"
      PROVE  v.type \notin Narrow \union Wide /\ Payload(v) = <<>> /\ SizeOf(v) = 1
  BY <1>7 DEF Narrow, Wide, Payload, SizeOf
<1> QED
  BY <1>1, <1>2, <1>3, <1>4, <1>5, <1>6, <1>7

(* The parts of a value.                                                   *)
LEMMA ValueParts ==
  ASSUME NEW v \in Values
  PROVE  /\ v.type \in Types /\ v.union \in Cells \X Cells
         /\ v.str \in Seq(Cells) /\ v.bin \in Seq(Cells)
         /\ Len(v.str) \in Nat /\ Len(v.bin) \in Nat
         /\ v.union[1] \in Cells /\ v.union[2] \in Cells
         /\ v.union = <<v.union[1], v.union[2]>>
         /\ v = [type |-> v.type, union |-> v.union, str |-> v.str, bin |-> v.bin]
         /\ TypeCode(v.type) \in 0..8 /\ TypeCode(v.type) \in Cells
         /\ TypeNames[TypeCode(v.type) + 1] = v.type
<1>1. /\ v.type \in Types /\ v.union \in Cells \X Cells
      /\ v.str \in Seq(Cells) /\ v.bin \in Seq(Cells)
      /\ v = [type |-> v.type, union |-> v.union, str |-> v.str, bin |-> v.bin]
  BY DEF Values
<1>2. Len(v.str) \in Nat /\ Len(v.bin) \in Nat
  BY <1>1, LenProperties
<1>3. v.union[1] \in Cells /\ v.union[2] \in Cells /\ v.union = <<v.union[1], v.union[2]>>
  BY <1>1
<1>4. TypeCode(v.type) \in 0..8 /\ TypeNames[TypeCode(v.type) + 1] = v.type
  BY <1>1, TypeCodes
<1>5. 0..8 \subseteq Cells
  BY WordAssumption DEF Cells
<1> QED
  BY <1>1, <1>2, <1>3, <1>4, <1>5

(* A value is written as its type and its payload, in as many cells as     *)
(* SizeOf says.                                                            *)
LEMMA ValueCells ==
  ASSUME NEW v \in Values
  PROVE  /\ Serialize(v) = <<TypeCode(v.type)>> \o Payload(v)
         /\ <<TypeCode(v.type)>> \in Seq(Cells) /\ Payload(v) \in Seq(Cells)
         /\ Serialize(v) \in Seq(Cells)
         /\ Len(Serialize(v)) = SizeOf(v)
         /\ SizeOf(v) \in Nat /\ SizeOf(v) >= 1
<1>1. Serialize(v) = <<TypeCode(v.type)>> \o Payload(v)
  BY DEF Serialize, Payload
<1>2. ASSUME NEW s \in Seq(Cells)
      PROVE  /\ <<Len(s) % Word>> \o s \in Seq(Cells)
             /\ Len(<<Len(s) % Word>> \o s) = 1 + Len(s)
  <2>1. Len(s) \in Nat
    BY LenProperties
  <2>2. Len(s) % Word \in Cells
    BY <2>1, WordAssumption DEF Cells
  <2>3. <<Len(s) % Word>> \in Seq(Cells) /\ Len(<<Len(s) % Word>>) = 1
    BY <2>2
  <2> QED
    BY <2>3, ConcatProperties
<1>3. Payload(v) \in Seq(Cells) /\ 1 + Len(Payload(v)) = SizeOf(v)
  <2>1. CASE v.type \in Narrow
    <3>1. <<v.union[1]>> \in Seq(Cells) /\ Len(<<v.union[1]>>) = 1
      BY ValueParts
    <3>2. Payload(v) = <<v.union[1]>> /\ SizeOf(v) = 2
      BY <2>1, KindsOfTypes
    <3> QED
      BY <3>1, <3>2
  <2>2. CASE v.type \in Wide
    <3>1. <<v.union[1], v.union[2]>> \in Seq(Cells) /\ Len(<<v.union[1], v.union[2]>>) = 2
      BY ValueParts
    <3>2. Payload(v) = <<v.union[1], v.union[2]>> /\ SizeOf(v) = 3
      BY <2>2, KindsOfTypes
    <3> QED
      BY <3>1, <3>2
  <2>3. CASE v.type = "String"
    <3>1. Payload(v) = <<Len(v.str) % Word>> \o v.str /\ SizeOf(v) = 2 + Len(v.str)
      BY <2>3, KindsOfTypes
    <3>2. v.str \in Seq(Cells) /\ Len(v.str) \in Nat
      BY ValueParts
    <3>3. Payload(v) \in Seq(Cells) /\ Len(Payload(v)) = 1 + Len(v.str)
      BY <1>2, <3>1, <3>2
    <3> QED
      BY <3>1, <3>2, <3>3
  <2>4. CASE v.type = "Binary"
    <3>1. Payload(v) = <<Len(v.bin) % Word>> \o v.bin /\ SizeOf(v) = 2 + Len(v.bin)
      BY <2>4, KindsOfTypes
    <3>2. v.bin \in Seq(Cells) /\ Len(v.bin) \in Nat
      BY ValueParts
    <3>3. Payload(v) \in Seq(Cells) /\ Len(Payload(v)) = 1 + Len(v.bin)
      BY <1>2, <3>1, <3>2
    <3> QED
      BY <3>1, <3>2, <3>3
  <2>5. CASE v.type = "Null"
    <3>1. Payload(v) = <<>> /\ SizeOf(v) = 1
      BY <2>5, KindsOfTypes
    <3> QED
      BY <3>1
  <2> QED
    BY <2>1, <2>2, <2>3, <2>4, <2>5, KindsOfTypes
<1>4. <<TypeCode(v.type)>> \in Seq(Cells) /\ Len(<<TypeCode(v.type)>>) = 1
  BY ValueParts
<1>5. Serialize(v) \in Seq(Cells) /\ Len(Serialize(v)) = 1 + Len(Payload(v))
  BY <1>1, <1>3, <1>4, ConcatProperties
<1>6. Len(Payload(v)) \in Nat
  BY <1>3, LenProperties
<1> QED
  BY <1>1, <1>3, <1>4, <1>5, <1>6

(* A number that fits in a word is sent as it is.                          *)
LEMMA SmallRemainder ==
  ASSUME NEW n \in Nat, NEW w \in Nat, n < w
  PROVE  n % w = n
OBVIOUS

(* What stands in a buffer as a value is read as that value, without what  *)
(* its type does not send.                                                 *)
LEMMA ValueRoundTrip ==
  ASSUME NEW buf \in Seq(Cells), NEW at \in Nat \ {0}, NEW v \in Values,
         At(buf, at, Serialize(v)), SizeOf(v) < Word
  PROVE  Deserialize(buf, at) = [ok |-> TRUE, value |-> Transmitted(v), next |-> at + SizeOf(v)]
<1> DEFINE t == v.type
           left(from) == Len(buf) + 1 - from
           base == [NullValue EXCEPT !.type = t]
           Done(w, next) == [ok |-> TRUE, value |-> w, next |-> next]
<1>1. Word \in Nat /\ Word > 8 /\ Len(buf) \in Nat
  BY LenProperties, WordAssumption
<1>2. At(buf, at, <<TypeCode(t)>>) /\ At(buf, at + 1, Payload(v))
  <2>1. Len(<<TypeCode(t)>>) = 1
    OBVIOUS
  <2>2. /\ Serialize(v) = <<TypeCode(t)>> \o Payload(v)
        /\ <<TypeCode(t)>> \in Seq(Cells) /\ Payload(v) \in Seq(Cells)
    BY ValueCells
  <2>3. At(buf, at, <<TypeCode(t)>> \o Payload(v))
    BY <2>2
  <2>4. At(buf, at, <<TypeCode(t)>>) /\ At(buf, at + Len(<<TypeCode(t)>>), Payload(v))
    BY ONLY <1>1, <2>2, <2>3, AtConcat
  <2> QED
    BY <2>1, <2>4
<1>3. /\ buf[at] = TypeCode(t) /\ TypeCode(t) \in 0..8
      /\ TypeNames[TypeCode(t) + 1] = t /\ at <= Len(buf)
  <2>1. TypeCode(t) \in 0..8 /\ TypeNames[TypeCode(t) + 1] = t
    BY ValueParts
  <2>2. at - 1 + 1 <= Len(buf) /\ buf[at - 1 + 1] = TypeCode(t)
    BY <1>2 DEF At
  <2>3. at - 1 + 1 = at
    OBVIOUS
  <2> QED
    BY <2>1, <2>2, <2>3
<1>4. Deserialize(buf, at) =
        CASE t = "Null" -> Done(base, at + 1)
          [] t \in Narrow /\ left(at + 1) >= 1 ->
               Done([base EXCEPT !.union = <<buf[at + 1], 0>>], at + 2)
          [] t \in Wide /\ left(at + 1) >= 2 ->
               Done([base EXCEPT !.union = Take(buf, at + 1, 2)], at + 3)
          [] t = "String" /\ left(at + 1) >= 1 /\ left(at + 2) >= buf[at + 1] ->
               Done([base EXCEPT !.str = Take(buf, at + 2, buf[at + 1])], at + 2 + buf[at + 1])
          [] t = "Binary" /\ left(at + 1) >= 1 /\ left(at + 2) >= buf[at + 1] ->
               Done([base EXCEPT !.bin = Take(buf, at + 2, buf[at + 1])], at + 2 + buf[at + 1])
          [] OTHER -> Aborted
  <2>1. ~ (left(at) < 1) /\ ~ (buf[at] > 8)
    BY <1>1, <1>3
  <2>2. TypeNames[buf[at] + 1] = t
    BY <1>3
  <2> QED
    BY <2>1, <2>2, Zenon DEF Deserialize
<1>5. base = [type |-> t, union |-> <<0, 0>>, str |-> <<>>, bin |-> <<>>]
  BY DEF NullValue
<1> DEFINE Value(u, s, b) == [type |-> t, union |-> u, str |-> s, bin |-> b]
<1>6. /\ \A u : [base EXCEPT !.union = u] = Value(u, <<>>, <<>>)
      /\ \A s : [base EXCEPT !.str = s] = Value(<<0, 0>>, s, <<>>)
      /\ \A b : [base EXCEPT !.bin = b] = Value(<<0, 0>>, <<>>, b)
  <2> HIDE DEF base
  <2>1. PICK z, e : z = <<0, 0>> /\ e = <<>>
    OBVIOUS
  <2>2. base = Value(z, e, e)
    BY <1>5, <2>1
  <2>3. /\ \A u : [base EXCEPT !.union = u] = Value(u, e, e)
        /\ \A s : [base EXCEPT !.str = s] = Value(z, s, e)
        /\ \A b : [base EXCEPT !.bin = b] = Value(z, e, b)
    BY <2>2
  <2> QED
    BY <2>1, <2>3
<1>7. /\ t \in Narrow => Transmitted(v) = Value(<<v.union[1], 0>>, <<>>, <<>>)
      /\ t \in Wide => Transmitted(v) = Value(v.union, <<>>, <<>>)
      /\ t = "String" => Transmitted(v) = Value(<<0, 0>>, v.str, <<>>)
      /\ t = "Binary" => Transmitted(v) = Value(<<0, 0>>, <<>>, v.bin)
      /\ t = "Null" => Transmitted(v) = Value(<<0, 0>>, <<>>, <<>>)
  BY KindsOfTypes DEF Transmitted
<1>8. CASE t \in Narrow
  <2>1. Payload(v) = <<v.union[1]>> /\ SizeOf(v) = 2 /\ t # "Null"
    BY <1>8, KindsOfTypes
  <2>2. buf[at + 1] = v.union[1] /\ left(at + 1) >= 1
    <3>1. Len(<<v.union[1]>>) = 1 /\ <<v.union[1]>>[1] = v.union[1]
      OBVIOUS
    <3>2. (at + 1) - 1 + 1 <= Len(buf) /\ buf[(at + 1) - 1 + 1] = v.union[1]
      BY <1>2, <2>1, <3>1 DEF At
    <3>3. (at + 1) - 1 + 1 = at + 1
      OBVIOUS
    <3> QED
      BY <1>1, <3>2, <3>3
  <2>3. Deserialize(buf, at) = Done([base EXCEPT !.union = <<buf[at + 1], 0>>], at + 2)
    BY <1>4, <1>8, <2>1, <2>2, KindsOfTypes
  <2> QED
    BY <1>8, <1>6, <1>7, <2>1, <2>2, <2>3
<1>9. CASE t \in Wide
  <2>1. Payload(v) = v.union /\ SizeOf(v) = 3 /\ t # "Null" /\ t \notin Narrow
    BY <1>9, KindsOfTypes, ValueParts
  <2>2. Take(buf, at + 1, 2) = v.union /\ left(at + 1) >= 2
    <3>1. v.union \in Seq(Cells) /\ Len(v.union) = 2
      <4>1. /\ v.union = <<v.union[1], v.union[2]>>
            /\ v.union[1] \in Cells /\ v.union[2] \in Cells
        BY ValueParts
      <4>2. /\ <<v.union[1], v.union[2]>> \in Seq(Cells)
            /\ Len(<<v.union[1], v.union[2]>>) = 2
        BY <4>1
      <4> QED
        BY <4>1, <4>2
    <3>2. At(buf, at + 1, v.union) /\ at + 1 \in Nat \ {0}
      BY <1>2, <2>1
    <3>3. SubSeq(buf, at + 1, (at + 1) + Len(v.union) - 1) = v.union
      BY ONLY <1>1, <3>1, <3>2, AtSubSeq
    <3>4. (at + 1) - 1 + 2 <= Len(buf)
      BY <3>1, <3>2 DEF At
    <3> QED
      BY <1>1, <3>1, <3>3, <3>4 DEF Take
  <2>3. Deserialize(buf, at) = Done([base EXCEPT !.union = Take(buf, at + 1, 2)], at + 3)
    BY <1>4, <1>9, <2>1, <2>2, KindsOfTypes
  <2> QED
    BY <1>9, <1>6, <1>7, <2>1, <2>2, <2>3
<1>10. ASSUME NEW s \in Seq(Cells), Payload(v) = <<Len(s) % Word>> \o s, Len(s) < Word
       PROVE  /\ buf[at + 1] = Len(s) /\ left(at + 1) >= 1 /\ left(at + 2) >= buf[at + 1]
              /\ Take(buf, at + 2, buf[at + 1]) = s
  <2>1. Len(s) \in Nat
    BY LenProperties
  <2>2. Len(s) % Word = Len(s) /\ Len(s) \in Cells
    <3>1. Len(s) < Word
      BY <1>10
    <3> QED
      BY ONLY <1>1, <2>1, <3>1, SmallRemainder DEF Cells
  <2>3. <<Len(s)>> \in Seq(Cells) /\ Len(<<Len(s)>>) = 1 /\ <<Len(s)>>[1] = Len(s)
    BY <2>2
  <2>4. At(buf, at + 1, <<Len(s)>> \o s)
    BY <1>2, <1>10, <2>2
  <2>5. at + 1 \in Nat \ {0} /\ (at + 1) + 1 = at + 2
    OBVIOUS
  <2>6. At(buf, at + 1, <<Len(s)>>) /\ At(buf, at + 2, s)
    BY <1>1, <2>3, <2>4, <2>5, AtConcat
  <2>7. /\ (at + 1) - 1 + 1 <= Len(buf) /\ buf[(at + 1) - 1 + 1] = Len(s)
        /\ (at + 2) - 1 + Len(s) <= Len(buf)
    BY <2>3, <2>6 DEF At
  <2>8. (at + 1) - 1 + 1 = at + 1
    OBVIOUS
  <2>9. buf[at + 1] = Len(s) /\ left(at + 1) >= 1 /\ left(at + 2) >= Len(s)
    BY <1>1, <2>1, <2>7, <2>8
  <2>10. SubSeq(buf, at + 2, at + 2 + Len(s) - 1) = s
    BY <2>6, AtSubSeq
  <2> QED
    BY <2>9, <2>10 DEF Take
<1>11. CASE t = "String"
  <2>1. /\ Payload(v) = <<Len(v.str) % Word>> \o v.str /\ SizeOf(v) = 2 + Len(v.str)
        /\ t \notin Narrow /\ t \notin Wide
    BY <1>11, KindsOfTypes
  <2>2. v.str \in Seq(Cells) /\ Len(v.str) \in Nat /\ Len(v.str) < Word
    BY <1>1, <2>1, ValueParts
  <2>3. /\ buf[at + 1] = Len(v.str) /\ left(at + 1) >= 1 /\ left(at + 2) >= buf[at + 1]
        /\ Take(buf, at + 2, buf[at + 1]) = v.str
    BY <1>10, <2>1, <2>2
  <2>4. Deserialize(buf, at)
          = Done([base EXCEPT !.str = Take(buf, at + 2, buf[at + 1])], at + 2 + buf[at + 1])
    BY <1>4, <1>11, <2>1, <2>3
  <2>5. at + 2 + Len(v.str) = at + SizeOf(v)
    <3>1. SizeOf(v) = 2 + Len(v.str) /\ Len(v.str) \in Nat
      BY <2>1, <2>2
    <3>2. \A n \in Nat : at + 2 + n = at + (2 + n)
      OBVIOUS
    <3> QED
      BY <3>1, <3>2, Zenon
  <2> QED
    BY <1>11, <1>6, <1>7, <2>3, <2>4, <2>5
<1>12. CASE t = "Binary"
  <2>1. /\ Payload(v) = <<Len(v.bin) % Word>> \o v.bin /\ SizeOf(v) = 2 + Len(v.bin)
        /\ t \notin Narrow /\ t \notin Wide
    BY <1>12, KindsOfTypes
  <2>2. v.bin \in Seq(Cells) /\ Len(v.bin) \in Nat /\ Len(v.bin) < Word
    BY <1>1, <2>1, ValueParts
  <2>3. /\ buf[at + 1] = Len(v.bin) /\ left(at + 1) >= 1 /\ left(at + 2) >= buf[at + 1]
        /\ Take(buf, at + 2, buf[at + 1]) = v.bin
    BY <1>10, <2>1, <2>2
  <2>4. Deserialize(buf, at)
          = Done([base EXCEPT !.bin = Take(buf, at + 2, buf[at + 1])], at + 2 + buf[at + 1])
    BY <1>4, <1>12, <2>1, <2>3
  <2>5. at + 2 + Len(v.bin) = at + SizeOf(v)
    <3>1. SizeOf(v) = 2 + Len(v.bin) /\ Len(v.bin) \in Nat
      BY <2>1, <2>2
    <3>2. \A n \in Nat : at + 2 + n = at + (2 + n)
      OBVIOUS
    <3> QED
      BY <3>1, <3>2, Zenon
  <2> QED
    BY <1>12, <1>6, <1>7, <2>3, <2>4, <2>5
<1>13. CASE t = "Null"
  <2>1. SizeOf(v) = 1 /\ t \notin Narrow /\ t \notin Wide
    BY <1>13, KindsOfTypes
  <2>2. Deserialize(buf, at) = Done(base, at + 1)
    BY <1>4, <1>13, <2>1
  <2> QED
    BY <1>13, <1>5, <1>7, <2>1, <2>2
<1> QED
  BY <1>8, <1>9, <1>11, <1>12, <1>13, KindsOfTypes
-----------------------------------------------------------------------------
(* Lists of values.                                                        *)

(* The size of a list is added up from left to right.                      *)
LEMMA SizesAddUp ==
  ASSUME NEW vs \in Seq(Values)
  PROVE  \E s \in [0..Len(vs) -> Nat] :
           /\ s[0] = 0 /\ s[Len(vs)] = SizeOfAll(vs)
           /\ \A i \in 1..Len(vs) : s[i] = s[i - 1] + SizeOf(vs[i])
<1> DEFINE n == Len(vs)
           Sum(f) == [i \in 0..n |-> IF i = 0 THEN 0 ELSE f[i - 1] + SizeOf(vs[i])]
           h == CHOOSE f : f = Sum(f)
<1>1. n \in Nat /\ \A i \in 1..n : vs[i] \in Values /\ SizeOf(vs[i]) \in Nat
  BY LenProperties, ElementOfSeq, ValueCells
<1>2. SizeOfAll(vs) = h[n]
  BY DEF SizeOfAll
<1> HIDE DEF h, n
<1> DEFINE step == [p \in Nat \X (1..n) |-> p[1] + SizeOf(vs[p[2]])]
<1>3. Steps(step, n, Nat)
  BY <1>1 DEF Steps
<1> HIDE DEF step
<1>4. PICK g : Iterates(g, step, 0, n, Nat)
  <2>1. 0 \in Nat /\ n \in Nat
    BY <1>1
  <2> QED
    BY <1>3, <2>1, Iteration
<1> USE DEF step
<1>5. /\ g \in [0..n -> Nat] /\ g[0] = 0
      /\ \A i \in 1..n : g[i] = step[<<g[i - 1], i>>]
  BY <1>4 DEF Iterates
<1>6. \A i \in 1..n : i - 1 \in 0..n /\ g[i - 1] \in Nat /\ g[i] = g[i - 1] + SizeOf(vs[i])
  <2>1. ASSUME NEW i \in 1..n PROVE i - 1 \in 0..n
    BY <1>1
  <2> QED
    BY <1>5, <2>1
<1>7. g = Sum(g)
  BY <1>1, <1>5, <1>6
<1>8. h = Sum(h)
  BY <1>7 DEF h
<1>9. Follows(h, g, n)
  BY <1>1, <1>5, <1>6, <1>8 DEF Follows
<1>10. h[n] = g[n]
  <2>1. n \in Nat
    BY <1>1
  <2>2. Same(h, g, n)
    BY <1>9, <2>1, GoOnAlike
  <2> QED
    BY <1>1, <2>2 DEF Same
<1> QED
  BY <1>2, <1>5, <1>6, <1>10 DEF n

(* A list is written value by value, in as many cells as its size.         *)
LEMMA CellsLineUp ==
  ASSUME NEW vs \in Seq(Values), NEW s \in [0..Len(vs) -> Nat], s[0] = 0,
         \A i \in 1..Len(vs) : s[i] = s[i - 1] + SizeOf(vs[i])
  PROVE  \E c \in [0..Len(vs) -> Seq(Cells)] :
           /\ c[0] = <<>> /\ c[Len(vs)] = SerializeAll(vs)
           /\ \A i \in 1..Len(vs) : c[i] = c[i - 1] \o Serialize(vs[i])
           /\ \A i \in 0..Len(vs) : Len(c[i]) = s[i]
<1> DEFINE n == Len(vs)
           Line(f) == [i \in 0..n |-> IF i = 0 THEN <<>> ELSE f[i - 1] \o Serialize(vs[i])]
           h == CHOOSE f : f = Line(f)
<1>1. n \in Nat /\ \A i \in 1..n :
        /\ vs[i] \in Values /\ Serialize(vs[i]) \in Seq(Cells)
        /\ SizeOf(vs[i]) \in Nat /\ Len(Serialize(vs[i])) = SizeOf(vs[i])
  BY LenProperties, ElementOfSeq, ValueCells
<1>2. SerializeAll(vs) = h[n]
  BY DEF SerializeAll
<1>3. s \in [0..n -> Nat] /\ s[0] = 0 /\ \A i \in 1..n : s[i] = s[i - 1] + SizeOf(vs[i])
  OBVIOUS
<1> HIDE DEF h, n
<1> DEFINE step == [p \in Seq(Cells) \X (1..n) |-> p[1] \o Serialize(vs[p[2]])]
<1>4. Steps(step, n, Seq(Cells))
  BY <1>1, ConcatProperties DEF Steps
<1> HIDE DEF step
<1>5. PICK g : Iterates(g, step, <<>>, n, Seq(Cells))
  <2>1. <<>> \in Seq(Cells) /\ n \in Nat
    BY <1>1
  <2> QED
    BY <1>4, <2>1, Iteration
<1> USE DEF step
<1>6. /\ g \in [0..n -> Seq(Cells)] /\ g[0] = <<>>
      /\ \A i \in 1..n : g[i] = step[<<g[i - 1], i>>]
  BY <1>5 DEF Iterates
<1>7. \A i \in 1..n : /\ i - 1 \in 0..n /\ g[i - 1] \in Seq(Cells)
                      /\ g[i] = g[i - 1] \o Serialize(vs[i])
  <2>1. ASSUME NEW i \in 1..n PROVE i - 1 \in 0..n
    BY <1>1
  <2> QED
    BY <1>6, <2>1
<1>8. g = Line(g)
  <2>1. DOMAIN g = 0..n
    BY <1>6
  <2>2. ASSUME NEW i \in 0..n
        PROVE  g[i] = IF i = 0 THEN <<>> ELSE g[i - 1] \o Serialize(vs[i])
    <3>1. CASE i = 0
      BY <1>6, <3>1
    <3>2. CASE i # 0
      <4>1. i \in 1..n
        BY <1>1, <3>2
      <4> QED
        BY <1>7, <3>2, <4>1
    <3> QED
      BY <3>1, <3>2
  <2> QED
    BY <1>6, <2>1, <2>2
<1>9. h = Line(h)
  BY <1>8 DEF h
<1>10. Follows(h, g, n)
  <2>1. 0 \in 0..n /\ \A i \in 1..n : i \in 0..n /\ i # 0
    BY <1>1
  <2>2. h[0] = <<>> /\ \A i \in 1..n : h[i] = h[i - 1] \o Serialize(vs[i])
    BY <1>9, <2>1
  <2> QED
    BY <1>6, <1>7, <2>2 DEF Follows
<1>11. h[n] = g[n]
  <2>1. n \in Nat
    BY <1>1
  <2>2. Same(h, g, n)
    BY <1>10, <2>1, GoOnAlike
  <2> QED
    BY <1>1, <2>2 DEF Same
<1>12. \A i \in 0..n : Len(g[i]) = s[i]
  <2> DEFINE l == [i \in 0..n |-> Len(g[i])]
  <2>1. l[0] = s[0]
    <3>1. 0 \in 0..n /\ Len(<<>>) = 0
      BY <1>1
    <3> QED
      BY <1>6, <1>3, <3>1
  <2>2. ASSUME NEW i \in 1..n, l[i - 1] = s[i - 1] PROVE l[i] = s[i]
    <3>1. Len(g[i]) = Len(g[i - 1]) + SizeOf(vs[i])
      <4>1. /\ g[i - 1] \in Seq(Cells) /\ Serialize(vs[i]) \in Seq(Cells)
            /\ g[i] = g[i - 1] \o Serialize(vs[i])
            /\ Len(Serialize(vs[i])) = SizeOf(vs[i])
        BY <1>1, <1>7
      <4>2. Len(g[i - 1] \o Serialize(vs[i])) = Len(g[i - 1]) + Len(Serialize(vs[i]))
        BY <4>1, Joined
      <4> QED
        BY <4>1, <4>2
    <3>2. i \in 0..n /\ i - 1 \in 0..n
      BY <1>1
    <3> QED
      BY <1>3, <2>2, <3>1, <3>2
  <2>3. Follows(l, s, n) /\ n \in Nat
    BY <1>1, <2>1, <2>2 DEF Follows
  <2>4. Same(l, s, n)
    <3> HIDE DEF l
    <3> QED
      BY <2>3, GoOnAlike
  <2> QED
    BY <2>4 DEF Same
<1> QED
  BY <1>2, <1>6, <1>7, <1>11, <1>12 DEF n
(* Where a list stands, each of its values stands at its own offset.       *)
LEMMA ValuesStand ==
  ASSUME NEW vs \in Seq(Values), NEW buf \in Seq(Cells), NEW at \in Nat \ {0},
         At(buf, at, SerializeAll(vs))
  PROVE  \E s \in [0..Len(vs) -> Nat] :
           /\ s[0] = 0 /\ s[Len(vs)] = SizeOfAll(vs)
           /\ \A i \in 1..Len(vs) :
                /\ s[i] = s[i - 1] + SizeOf(vs[i]) /\ s[i] <= SizeOfAll(vs)
                /\ At(buf, at + s[i - 1], Serialize(vs[i]))
<1> DEFINE n == Len(vs)
<1>1. n \in Nat /\ Len(buf) \in Nat
  BY LenProperties
<1>2. PICK s \in [0..n -> Nat] :
        /\ s[0] = 0 /\ s[n] = SizeOfAll(vs)
        /\ \A i \in 1..n : s[i] = s[i - 1] + SizeOf(vs[i])
  BY SizesAddUp
<1>3. PICK c \in [0..n -> Seq(Cells)] :
        /\ c[0] = <<>> /\ c[n] = SerializeAll(vs)
        /\ \A i \in 1..n : c[i] = c[i - 1] \o Serialize(vs[i])
        /\ \A i \in 0..n : Len(c[i]) = s[i]
  BY <1>2, CellsLineUp
<1>4. \A i \in 1..n : /\ vs[i] \in Values /\ Serialize(vs[i]) \in Seq(Cells)
                      /\ SizeOf(vs[i]) \in Nat
  BY ElementOfSeq, ValueCells
<1> HIDE DEF n
<1>5. ASSUME NEW i \in 1..n, At(buf, at, c[i])
      PROVE  At(buf, at, c[i - 1]) /\ At(buf, at + s[i - 1], Serialize(vs[i]))
  <2>1. i - 1 \in 0..n /\ i \in 0..n
    BY <1>1
  <2>2. /\ c[i - 1] \in Seq(Cells) /\ Serialize(vs[i]) \in Seq(Cells)
        /\ Len(c[i - 1]) = s[i - 1] /\ At(buf, at, c[i - 1] \o Serialize(vs[i]))
    BY <1>3, <1>5, <1>4, <2>1
  <2>3. At(buf, at, c[i - 1]) /\ At(buf, at + Len(c[i - 1]), Serialize(vs[i]))
    BY <1>1, <2>2, AtConcat
  <2> QED
    BY <2>2, <2>3
<1> DEFINE T == {k \in Nat : k <= n => At(buf, at, c[n - k]) /\ s[n - k] <= s[n]}
<1>6. 0 \in T
  <2>1. n - 0 = n /\ s[n] <= s[n]
    BY <1>1, <1>2
  <2> QED
    BY <1>3, <2>1
<1>7. ASSUME NEW k \in Nat, k \in T PROVE k + 1 \in T
  <2> SUFFICES ASSUME k + 1 <= n
               PROVE  At(buf, at, c[n - (k + 1)]) /\ s[n - (k + 1)] <= s[n]
    OBVIOUS
  <2>1. n - k \in 1..n /\ (n - k) - 1 = n - (k + 1) /\ n - (k + 1) \in 0..n /\ k <= n
    BY <1>1
  <2>2. At(buf, at, c[n - k]) /\ s[n - k] <= s[n]
    BY <1>7, <2>1
  <2>3. At(buf, at, c[n - (k + 1)])
    BY <1>5, <2>1, <2>2
  <2>4. s[n - k] = s[n - (k + 1)] + SizeOf(vs[n - k]) /\ SizeOf(vs[n - k]) \in Nat
    BY <1>2, <1>4, <2>1
  <2>5. s[n - k] \in Nat /\ s[n - (k + 1)] \in Nat /\ s[n] \in Nat
    BY <1>1, <1>2, <2>1
  <2> QED
    BY <2>2, <2>3, <2>4, <2>5
<1>8. T = Nat
  <2>1. T \subseteq Nat
    OBVIOUS
  <2> HIDE DEF T
  <2> QED
    BY <1>6, <1>7, <2>1, SetInduction
<1>9. ASSUME NEW i \in 1..n PROVE At(buf, at, c[i]) /\ s[i] <= SizeOfAll(vs)
  <2>1. n - i \in Nat /\ n - i <= n /\ n - (n - i) = i
    BY <1>1
  <2>2. n - i \in T
    BY <1>8, <2>1
  <2> QED
    BY <1>2, <2>1, <2>2
<1> QED
  BY <1>2, <1>5, <1>9 DEF n

\* The first i values of a list, as they arrive.
Arrived(vs, i) == [j \in 1..i |-> Transmitted(vs[j])]

Trans(vs) == Arrived(vs, Len(vs))

(* What arrives of a value is a value.                                     *)
LEMMA TransmittedIsAValue ==
  ASSUME NEW v \in Values
  PROVE  Transmitted(v) \in Values
<1>1. v.type \in Types /\ v.union \in Cells \X Cells /\ v.str \in Seq(Cells) /\ v.bin \in Seq(Cells)
  BY ValueParts
<1>2. 0 \in Cells /\ v.union[1] \in Cells /\ <<>> \in Seq(Cells)
  BY ValueParts, WordAssumption DEF Cells
<1>3. <<0, 0>> \in Cells \X Cells /\ <<v.union[1], 0>> \in Cells \X Cells
  BY <1>2
<1> QED
  BY <1>1, <1>2, <1>3 DEF Transmitted, Values

(* The first values of a list are a list of their own; one more is         *)
(* appended to it.                                                         *)
LEMMA ArrivedGrows ==
  ASSUME NEW vs \in Seq(Values), NEW i \in 1..Len(vs)
  PROVE  Append(Arrived(vs, i - 1), Transmitted(vs[i])) = Arrived(vs, i)
<1>1. Len(vs) \in Nat /\ i - 1 \in Nat /\ i \in Nat
  BY LenProperties
<1>2. \A j \in 1..i : Transmitted(vs[j]) \in Values
  BY <1>1, ElementOfSeq, TransmittedIsAValue
<1>3. Arrived(vs, i) \in Seq(Values) /\ Len(Arrived(vs, i)) = i
  BY <1>1, <1>2 DEF Arrived
<1>4. Arrived(vs, i - 1) \in Seq(Values) /\ Len(Arrived(vs, i - 1)) = i - 1
  BY <1>1, <1>2 DEF Arrived
<1> DEFINE longer == Append(Arrived(vs, i - 1), Transmitted(vs[i]))
<1>5. /\ longer \in Seq(Values) /\ Len(longer) = i
      /\ \A j \in 1..(i - 1) : longer[j] = Arrived(vs, i - 1)[j]
      /\ longer[i] = Transmitted(vs[i])
  <2>1. Transmitted(vs[i]) \in Values
    BY <1>1, <1>2
  <2>2. (i - 1) + 1 = i
    BY <1>1
  <2> QED
    BY <1>1, <1>4, <2>1, <2>2, AppendProperties
<1>6. ASSUME NEW j \in 1..i PROVE longer[j] = Arrived(vs, i)[j]
  <2>1. CASE j = i
    BY <1>1, <1>5, <2>1 DEF Arrived
  <2>2. CASE j # i
    <3>1. j \in 1..(i - 1)
      BY <1>1, <2>2
    <3> QED
      BY <1>1, <1>5, <3>1 DEF Arrived
  <2> QED
    BY <2>1, <2>2
<1> QED
  <2> HIDE DEF longer
  <2>1. longer = Arrived(vs, i)
    BY <1>3, <1>5, <1>6, SeqEqual
  <2> QED
    BY <2>1 DEF longer

(* A list that stands in a buffer is read as that list.                    *)
LEMMA ListRoundTrip ==
  ASSUME NEW vs \in Seq(Values), NEW buf \in Seq(Cells), NEW at \in Nat \ {0},
         At(buf, at, SerializeAll(vs)), SizeOfAll(vs) < Word
  PROVE  DeserializeAll(buf, at, Len(vs))
           = [ok |-> TRUE, values |-> Trans(vs), next |-> at + SizeOfAll(vs)]
<1> DEFINE n == Len(vs)
           After(r) == IF r.ok /\ Deserialize(buf, r.next).ok
                         THEN [ok     |-> TRUE,
                               values |-> Append(r.values, Deserialize(buf, r.next).value),
                               next   |-> Deserialize(buf, r.next).next]
                         ELSE [ok |-> FALSE, values |-> <<>>, next |-> 0]
           First == [ok |-> TRUE, values |-> <<>>, next |-> at]
           Read(f) == [i \in 0..n |-> IF i = 0 THEN First ELSE After(f[i - 1])]
           h == CHOOSE f : f = Read(f)
<1>1. n \in Nat /\ Word \in Nat
  BY LenProperties, WordAssumption
<1>2. PICK s \in [0..n -> Nat] :
        /\ s[0] = 0 /\ s[n] = SizeOfAll(vs)
        /\ \A i \in 1..n : /\ s[i] = s[i - 1] + SizeOf(vs[i]) /\ s[i] <= SizeOfAll(vs)
                           /\ At(buf, at + s[i - 1], Serialize(vs[i]))
  BY ValuesStand
<1> DEFINE Reached(i) == [ok |-> TRUE, values |-> Arrived(vs, i), next |-> at + s[i]]
           g == [i \in 0..n |-> Reached(i)]
<1>3. DeserializeAll(buf, at, n) = h[n]
  BY DEF DeserializeAll
<1>4. ASSUME NEW i \in 1..n
      PROVE  Deserialize(buf, at + s[i - 1])
               = [ok |-> TRUE, value |-> Transmitted(vs[i]), next |-> at + s[i]]
  <2>1. vs[i] \in Values /\ SizeOf(vs[i]) \in Nat
    BY ElementOfSeq, ValueCells
  <2>2. i \in 0..n /\ i - 1 \in 0..n
    BY <1>1
  <2>3. s[i] \in Nat /\ s[i - 1] \in Nat /\ s[n] \in Nat
    BY <1>1, <2>2
  <2>4. SizeOf(vs[i]) < Word /\ at + s[i - 1] \in Nat \ {0}
    BY <1>1, <1>2, <2>1, <2>3
  <2>5. (at + s[i - 1]) + SizeOf(vs[i]) = at + s[i]
    BY <1>2, <2>1, <2>3
  <2>6. At(buf, at + s[i - 1], Serialize(vs[i]))
    BY <1>2
  <2> QED
    BY <2>1, <2>4, <2>5, <2>6, ValueRoundTrip
<1>5. ASSUME NEW i \in 1..n PROVE After(Reached(i - 1)) = Reached(i)
  <2>1. Append(Arrived(vs, i - 1), Transmitted(vs[i])) = Arrived(vs, i)
    BY ArrivedGrows
  <2>2. PICK r : r = Reached(i - 1)
    OBVIOUS
  <2>3. r.ok = TRUE /\ r.values = Arrived(vs, i - 1) /\ r.next = at + s[i - 1]
    BY <2>2
  <2>4. PICK d : d = Deserialize(buf, r.next)
    OBVIOUS
  <2>5. d = [ok |-> TRUE, value |-> Transmitted(vs[i]), next |-> at + s[i]]
    BY <1>4, <2>3, <2>4
  <2>6. d.ok = TRUE /\ d.value = Transmitted(vs[i]) /\ d.next = at + s[i]
    BY <2>5
  <2>7. After(r) = Reached(i)
    BY <2>1, <2>3, <2>6, <2>4
  <2> QED
    BY <2>2, <2>7
<1>6. Reached(0) = First
  <2>1. Arrived(vs, 0) = <<>>
    BY DEF Arrived
  <2>2. at + s[0] = at
    BY <1>2
  <2> QED
    BY <2>1, <2>2
<1> HIDE DEF h, n, After, Reached, First
<1>7. 0 \in 0..n /\ n \in 0..n /\ \A i \in 1..n : i # 0 /\ i \in 0..n /\ i - 1 \in 0..n
  BY <1>1
<1>8. g = Read(g)
  <2>1. ASSUME NEW i \in 0..n PROVE g[i] = IF i = 0 THEN First ELSE After(g[i - 1])
    <3>1. CASE i = 0
      BY <1>6, <3>1
    <3>2. CASE i # 0
      <4>1. i \in 1..n
        BY <1>1, <3>2
      <4>2. g[i] = Reached(i) /\ g[i - 1] = Reached(i - 1)
        BY <1>7, <4>1
      <4> QED
        BY <1>5, <3>2, <4>1, <4>2
    <3> QED
      BY <3>1, <3>2
  <2> QED
    BY <2>1
<1>9. h = Read(h)
  BY <1>8 DEF h
<1>10. Follows(h, g, n)
  <2>1. h[0] = First /\ g[0] = First
    BY <1>7, <1>8, <1>9
  <2>2. \A i \in 1..n : h[i] = After(h[i - 1]) /\ g[i] = After(g[i - 1])
    BY <1>7, <1>8, <1>9
  <2> QED
    BY <2>1, <2>2 DEF Follows
<1>11. h[n] = g[n]
  <2>1. Same(h, g, n)
    BY <1>1, <1>10, GoOnAlike
  <2> QED
    BY <1>7, <2>1 DEF Same
<1>12. g[n] = Reached(n)
  BY <1>7
<1> QED
  BY <1>2, <1>3, <1>11, <1>12 DEF n, Reached, Trans
(* A list is as long as its size says, and every value takes a cell.       *)
LEMMA ListCells ==
  ASSUME NEW vs \in Seq(Values)
  PROVE  /\ SerializeAll(vs) \in Seq(Cells) /\ SizeOfAll(vs) \in Nat
         /\ Len(SerializeAll(vs)) = SizeOfAll(vs)
         /\ Len(vs) \in Nat /\ Len(vs) <= SizeOfAll(vs)
<1> DEFINE n == Len(vs)
<1>1. n \in Nat
  BY LenProperties
<1>2. PICK s \in [0..n -> Nat] :
        /\ s[0] = 0 /\ s[n] = SizeOfAll(vs)
        /\ \A i \in 1..n : s[i] = s[i - 1] + SizeOf(vs[i])
  BY SizesAddUp
<1>3. PICK c \in [0..n -> Seq(Cells)] :
        c[n] = SerializeAll(vs) /\ \A i \in 0..n : Len(c[i]) = s[i]
  BY <1>2, CellsLineUp
<1>4. \A i \in 1..n : SizeOf(vs[i]) \in Nat /\ SizeOf(vs[i]) >= 1
  BY ElementOfSeq, ValueCells
<1> HIDE DEF n
<1> DEFINE T == {i \in Nat : i <= n => i <= s[i]}
<1>5. 0 \in T
  BY <1>2
<1>6. ASSUME NEW i \in Nat, i \in T PROVE i + 1 \in T
  <2>1. CASE i + 1 <= n
    <3>1. i + 1 \in 1..n /\ (i + 1) - 1 = i /\ i \in 0..n /\ i + 1 \in 0..n
      BY <1>1, <2>1
    <3>2. s[i + 1] = s[i] + SizeOf(vs[i + 1]) /\ s[i] \in Nat /\ i <= s[i]
      BY <1>1, <1>2, <1>6, <3>1
    <3>3. SizeOf(vs[i + 1]) \in Nat /\ SizeOf(vs[i + 1]) >= 1
      BY <1>4, <3>1
    <3> QED
      BY <3>2, <3>3
  <2>2. CASE ~ (i + 1 <= n)
    BY <2>2
  <2> QED
    BY <2>1, <2>2
<1>7. T = Nat
  <2>1. T \subseteq Nat
    OBVIOUS
  <2> HIDE DEF T
  <2> QED
    BY <1>5, <1>6, <2>1, SetInduction
<1>8. n <= s[n]
  <2>1. n \in T
    BY <1>1, <1>7
  <2> QED
    BY <1>1, <2>1
<1>9. n \in 0..n
  BY <1>1
<1> QED
  BY <1>1, <1>2, <1>3, <1>8, <1>9 DEF n

-----------------------------------------------------------------------------
(* Messages and frames.                                                    *)

(* A message that its frame can count fits in its buffer, and its head and *)
(* tail stand where the reader looks for them.                             *)
LEMMA MessageCells ==
  ASSUME NEW head \in Seq(Values), NEW tail \in Seq(Values), Countable(head, tail)
  PROVE  LET m == SerializeMessage(head, tail)
             after == 3 + SizeOfAll(head)
         IN /\ m \in Seq(Cells) /\ Len(m) = MessageSize(head, tail)
            /\ m[1] = Len(m) /\ m[2] = 0 /\ Len(m) >= 3
            /\ At(m, 3, SerializeAll(head))
            /\ after \in Nat \ {0} /\ after <= Len(m) /\ m[after] = Len(tail)
            /\ At(m, after + 1, SerializeAll(tail))
            /\ SizeOfAll(head) < Word /\ SizeOfAll(tail) < Word
            /\ Len(tail) < Word
<1> DEFINE h == SerializeAll(head)
           t == SerializeAll(tail)
           size == MessageSize(head, tail)
           m == SerializeMessage(head, tail)
<1>1. /\ h \in Seq(Cells) /\ Len(h) = SizeOfAll(head) /\ Len(h) \in Nat
      /\ t \in Seq(Cells) /\ Len(t) = SizeOfAll(tail) /\ Len(t) \in Nat
      /\ Len(tail) \in Nat /\ Len(tail) <= SizeOfAll(tail)
  BY ListCells
<1>2. size = 2 + Len(h) + 1 + Len(t)
  BY <1>1 DEF MessageSize
<1> HIDE DEF h, t, size
<1>3. Word \in Nat /\ Word > 8 /\ size < Word
  BY WordAssumption DEF Countable, size
<1>4. /\ size \in Nat /\ size % Word = size /\ size \div Word = 0
      /\ Len(tail) % Word = Len(tail) /\ Len(tail) < Word
  <2>1. size \in Nat
    BY <1>1, <1>2
  <2>2. Len(tail) < Word
    BY <1>1, <1>2, <1>3
  <2>3. size \div Word = 0
    BY <1>3, <2>1
  <2> QED
    BY <1>1, <1>3, <2>1, <2>2, <2>3, SmallRemainder
<1> DEFINE sizes == <<size, 0>>
           count == <<Len(tail)>>
<1>5. m = ((sizes \o h) \o count) \o t
  BY <1>4 DEF SerializeMessage, h, t, size
<1>6. /\ sizes \in Seq(Cells) /\ Len(sizes) = 2 /\ sizes[1] = size /\ sizes[2] = 0
      /\ count \in Seq(Cells) /\ Len(count) = 1 /\ count[1] = Len(tail)
  <2>1. size \in Cells /\ 0 \in Cells /\ Len(tail) \in Cells
    <3>1. /\ size \in Nat /\ size < Word /\ Len(tail) \in Nat /\ Len(tail) < Word
          /\ Word \in Nat /\ Word > 8
      BY <1>1, <1>3, <1>4, Zenon
    <3> QED
      BY <3>1 DEF Cells
  <2> QED
    BY <2>1
<1> HIDE DEF sizes, count, m
<1>7. sizes \o h \in Seq(Cells) /\ Len(sizes \o h) = 2 + Len(h)
  BY <1>1, <1>6, Joined
<1>8. /\ (sizes \o h) \o count \in Seq(Cells)
      /\ Len((sizes \o h) \o count) = 2 + Len(h) + 1
  BY <1>6, <1>7, Joined
<1>9. m \in Seq(Cells) /\ Len(m) = size
  BY <1>1, <1>2, <1>5, <1>8, Joined
<1>10. Len(m) \in Nat /\ At(m, 1, m)
  BY <1>9, AtItself, LenProperties
<1>11. At(m, 1, (sizes \o h) \o count) /\ At(m, 1 + (2 + Len(h) + 1), t)
  <2> DEFINE first == (sizes \o h) \o count
  <2>1. At(m, 1, first \o t)
    BY <1>5, <1>10
  <2>2. 1 \in Nat \ {0} /\ 1 + (2 + Len(h) + 1) = 1 + Len(first) /\ first \in Seq(Cells)
    BY <1>8
  <2> HIDE DEF first
  <2>3. At(m, 1, first) /\ At(m, 1 + Len(first), t)
    BY <1>1, <1>10, <2>1, <2>2, AtConcat
  <2> QED
    BY <2>2, <2>3 DEF first
<1>12. At(m, 1, sizes \o h) /\ At(m, 1 + (2 + Len(h)), count)
  <2> DEFINE first == sizes \o h
  <2>1. At(m, 1, first \o count)
    BY <1>11
  <2>2. 1 \in Nat \ {0} /\ 1 + (2 + Len(h)) = 1 + Len(first) /\ first \in Seq(Cells)
    BY <1>7
  <2> HIDE DEF first
  <2>3. At(m, 1, first) /\ At(m, 1 + Len(first), count)
    BY <1>6, <1>10, <2>1, <2>2, AtConcat
  <2> QED
    BY <2>2, <2>3 DEF first
<1>13. At(m, 1, sizes) /\ At(m, 1 + 2, h)
  <2>1. 1 \in Nat \ {0} /\ 1 + 2 = 1 + Len(sizes)
    BY <1>6
  <2>2. At(m, 1, sizes) /\ At(m, 1 + Len(sizes), h)
    BY <1>1, <1>6, <1>10, <1>12, <2>1, AtConcat
  <2> QED
    BY <2>1, <2>2
<1>14. m[1] = size /\ m[2] = 0
  <2>1. m[1 - 1 + 1] = size /\ m[1 - 1 + 2] = 0
    BY <1>6, <1>13 DEF At
  <2> QED
    BY <2>1
<1>15. m[3 + Len(h)] = Len(tail) /\ 3 + Len(h) <= Len(m)
  <2>1. /\ m[1 + (2 + Len(h)) - 1 + 1] = Len(tail)
        /\ 1 + (2 + Len(h)) - 1 + 1 <= Len(m)
    BY <1>6, <1>12 DEF At
  <2>2. 1 + (2 + Len(h)) - 1 + 1 = 3 + Len(h)
    BY <1>1
  <2> QED
    BY <2>1, <2>2
<1>16. 1 + 2 = 3 /\ 1 + (2 + Len(h) + 1) = (3 + Len(h)) + 1 /\ 3 + Len(h) \in Nat \ {0}
  BY <1>1
<1>17. Len(h) < Word /\ Len(t) < Word /\ Len(tail) < Word /\ size >= 3
  BY <1>1, <1>2, <1>3
<1> USE DEF h, t, size, m
<1> QED
  BY <1>1, <1>9, <1>11, <1>13, <1>14, <1>15, <1>16, <1>17

(* For every message that its frame can count: what is sent is read, with  *)
(* each value as its type sends it, and the buffer is large enough.  This  *)
(* covers call() and the reply of the server, whatever they carry.         *)
THEOREM MessageRoundTrip ==
  ASSUME NEW head \in Seq(Values), NEW tail \in Seq(Values), Countable(head, tail)
  PROVE  /\ FitsBuffer(head, tail)
         /\ DeserializeMessage(SerializeMessage(head, tail), Len(head))
              = [ok |-> TRUE, head |-> Trans(head), tail |-> Trans(tail)]
<1> DEFINE m == SerializeMessage(head, tail)
           after == 3 + SizeOfAll(head)
           h == DeserializeAll(m, 3, Len(head))
           t == DeserializeAll(m, h.next + 1, m[h.next])
<1>1. /\ m \in Seq(Cells)
      /\ m[1] = Len(m) /\ m[2] = 0 /\ Len(m) >= 3
      /\ At(m, 3, SerializeAll(head))
      /\ after \in Nat \ {0} /\ after <= Len(m) /\ m[after] = Len(tail)
      /\ At(m, after + 1, SerializeAll(tail))
      /\ SizeOfAll(head) < Word /\ SizeOfAll(tail) < Word
  BY MessageCells
<1>2. Len(m) \in Nat /\ Word \in Nat
  BY <1>1, LenProperties, WordAssumption
<1>3. FitsBuffer(head, tail)
  <2>1. /\ Len(SerializeAll(head)) = SizeOfAll(head)
        /\ Len(SerializeAll(tail)) = SizeOfAll(tail)
        /\ SizeOfAll(head) \in Nat /\ SizeOfAll(tail) \in Nat
    BY ListCells
  <2> QED
    BY <2>1 DEF FitsBuffer, MessageSize
<1> HIDE DEF m
<1>4. h = [ok |-> TRUE, values |-> Trans(head), next |-> after]
  <2>1. 3 \in Nat \ {0}
    OBVIOUS
  <2> QED
    BY <1>1, <2>1, ListRoundTrip
<1>5. h.ok = TRUE /\ h.values = Trans(head) /\ h.next = after
  BY <1>4
<1>6. t = [ok |-> TRUE, values |-> Trans(tail), next |-> (after + 1) + SizeOfAll(tail)]
  <2>1. after + 1 \in Nat \ {0}
    BY <1>1
  <2>2. t = DeserializeAll(m, after + 1, Len(tail))
    BY <1>1, <1>5
  <2> HIDE DEF after, t
  <2> QED
    BY <1>1, <2>1, <2>2, ListRoundTrip
<1>7. t.ok = TRUE /\ t.values = Trans(tail)
  BY <1>6
<1>8. ~ (\/ Len(m) < 2 \/ Len(m) < m[1] + Word * m[2] \/ ~h.ok \/ h.next > Len(m) \/ ~t.ok)
  BY <1>1, <1>2, <1>5, <1>7
<1>9. DeserializeMessage(m, Len(head)) = [ok |-> TRUE, head |-> h.values, tail |-> t.values]
  BY <1>8 DEF DeserializeMessage
<1> QED
  BY <1>3, <1>5, <1>7, <1>9 DEF m

=============================================================================
