----------------------------- MODULE IpcMessage -----------------------------
(***************************************************************************)
(* The wire format: ipc::value (source/ipc-value.cpp), the two messages    *)
(* (source/ipc.cpp) and the frame around them (include/ipc.hpp).           *)
(*                                                                         *)
(* A buffer is a sequence of cells.  A cell is a 32-bit word, of which the *)
(* model keeps the arithmetic: a number that is cast to uint32_t is taken  *)
(* modulo Word.  64-bit fields are two cells, low half first, and payloads *)
(* of strings and binaries are counted in cells.                           *)
(***************************************************************************)
EXTENDS Integers, Sequences

CONSTANT Word       \* number of values of a cell, 2^32 in the code

ASSUME WordAssumption == Word \in Nat /\ Word > 8

Cells == 0..(Word - 1)

\* ipc::type, in the order of the enum: a type is sent as its position.
TypeNames == <<"Null", "Float", "Double", "Int32", "Int64", "UInt32", "UInt64",
               "String", "Binary">>
Types == {TypeNames[i] : i \in DOMAIN TypeNames}

TypeCode(t) == (CHOOSE i \in DOMAIN TypeNames : TypeNames[i] = t) - 1

Narrow == {"Float", "Int32", "UInt32"}
Wide == {"Double", "Int64", "UInt64"}

\* A value: its type, the union, and both containers, whatever the type.
Values == [type : Types, union : Cells \X Cells, str : Seq(Cells), bin : Seq(Cells)]

NullValue == [type |-> "Null", union |-> <<0, 0>>, str |-> <<>>, bin |-> <<>>]
UInt64Value(n) == [NullValue EXCEPT !.type = "UInt64", !.union = <<n, 0>>]
StringValue(s) == [NullValue EXCEPT !.type = "String", !.str = s]

-----------------------------------------------------------------------------
(* ipc::value                                                              *)

SizeOf(v) ==
  CASE v.type \in Narrow -> 2
    [] v.type \in Wide -> 3
    [] v.type = "String" -> 2 + Len(v.str)
    [] v.type = "Binary" -> 2 + Len(v.bin)
    [] OTHER -> 1

\* Mutant of Serialize: 64-bit values are written as two copies of 32 bits.
SerializeNarrow(v) ==
  <<TypeCode(v.type)>> \o
    CASE v.type \in Narrow -> <<v.union[1]>>
      [] v.type \in Wide -> <<v.union[1], v.union[1]>>
      [] v.type = "String" -> <<Len(v.str) % Word>> \o v.str
      [] v.type = "Binary" -> <<Len(v.bin) % Word>> \o v.bin
      [] OTHER -> <<>>

\* The payload of a Null is not sent, its value_str included.
Serialize(v) ==
  <<TypeCode(v.type)>> \o
    CASE v.type \in Narrow -> <<v.union[1]>>
      [] v.type \in Wide -> <<v.union[1], v.union[2]>>
      [] v.type = "String" -> <<Len(v.str) % Word>> \o v.str
      [] v.type = "Binary" -> <<Len(v.bin) % Word>> \o v.bin
      [] OTHER -> <<>>

\* Deserializing a value stops the process with abort() if the buffer is too
\* short for it.
Aborted == [ok |-> FALSE, value |-> NullValue, next |-> 0]

Take(buf, first, n) == SubSeq(buf, first, first + n - 1)

\* A value that starts at cell "at" of buf, and the cell after it.
Deserialize(buf, at) ==
  LET left(from) == Len(buf) + 1 - from
      done(v, next) == [ok |-> TRUE, value |-> v, next |-> next]
  IN IF left(at) < 1 THEN Aborted
     ELSE IF buf[at] > 8 THEN done(NullValue, at + 1)  \* no case of the switch
     ELSE LET t == TypeNames[buf[at] + 1]
              base == [NullValue EXCEPT !.type = t]
          IN CASE t = "Null" -> done(base, at + 1)
               [] t \in Narrow /\ left(at + 1) >= 1 ->
                    done([base EXCEPT !.union = <<buf[at + 1], 0>>], at + 2)
               [] t \in Wide /\ left(at + 1) >= 2 ->
                    done([base EXCEPT !.union = Take(buf, at + 1, 2)], at + 3)
               [] t = "String" /\ left(at + 1) >= 1 /\ left(at + 2) >= buf[at + 1] ->
                    done([base EXCEPT !.str = Take(buf, at + 2, buf[at + 1])],
                         at + 2 + buf[at + 1])
               [] t = "Binary" /\ left(at + 1) >= 1 /\ left(at + 2) >= buf[at + 1] ->
                    done([base EXCEPT !.bin = Take(buf, at + 2, buf[at + 1])],
                         at + 2 + buf[at + 1])
               [] OTHER -> Aborted

\* What arrives of a value: its type and what the type says is sent.
Transmitted(v) ==
  [type  |-> v.type,
   union |-> IF v.type \in Wide THEN v.union
             ELSE IF v.type \in Narrow THEN <<v.union[1], 0>> ELSE <<0, 0>>,
   str   |-> IF v.type = "String" THEN v.str ELSE <<>>,
   bin   |-> IF v.type = "Binary" THEN v.bin ELSE <<>>]

-----------------------------------------------------------------------------
(* Sequences of values: a count and the values.                            *)

SizeOfAll(vs) ==
  LET sum[i \in 0..Len(vs)] == IF i = 0 THEN 0 ELSE sum[i - 1] + SizeOf(vs[i])
  IN sum[Len(vs)]

SerializeAll(vs) ==
  LET cells[i \in 0..Len(vs)] ==
        IF i = 0 THEN <<>> ELSE cells[i - 1] \o Serialize(vs[i])
  IN cells[Len(vs)]

\* n values from cell "at" on; each must succeed.
DeserializeAll(buf, at, n) ==
  LET read[i \in 0..n] ==
        IF i = 0 THEN [ok |-> TRUE, values |-> <<>>, next |-> at]
        ELSE LET r == read[i - 1]
                 d == Deserialize(buf, r.next)
             IN IF r.ok /\ d.ok
                  THEN [ok |-> TRUE, values |-> Append(r.values, d.value),
                        next |-> d.next]
                  ELSE [ok |-> FALSE, values |-> <<>>, next |-> 0]
  IN read[n]

-----------------------------------------------------------------------------
(* Messages.  Both are a 64-bit size, a fixed list of values (the head),   *)
(* and a counted list of values (the tail).                                *)

MessageSize(head, tail) == 2 + SizeOfAll(head) + 1 + SizeOfAll(tail)

\* The buffer has size() cells; what does not fit in it is not written, an
\* exception that ends the process.
FitsBuffer(head, tail) ==
  2 + Len(SerializeAll(head)) + 1 + Len(SerializeAll(tail)) <= MessageSize(head, tail)

SerializeMessage(head, tail) ==
  <<MessageSize(head, tail) % Word, MessageSize(head, tail) \div Word>>
    \o SerializeAll(head) \o <<Len(tail) % Word>> \o SerializeAll(tail)

\* The body of a frame, whose head has n values.  The count is read behind the
\* head without a look at the end of the buffer: what it is there is undefined,
\* and no message of a peer that used SerializeMessage leads there.
DeserializeMessage(buf, n) ==
  LET bad == [ok |-> FALSE, head |-> <<>>, tail |-> <<>>]
      h == DeserializeAll(buf, 3, n)
      t == DeserializeAll(buf, h.next + 1, buf[h.next])
  IN IF Len(buf) < 2 \/ Len(buf) < buf[1] + Word * buf[2] \/ ~h.ok
        \/ h.next > Len(buf) \/ ~t.ok
       THEN bad
       ELSE [ok |-> TRUE, head |-> h.values, tail |-> t.values]

\* Mutant of CallHead: the names change places.
CallHeadSwapped(uid, cname, fname) ==
  <<UInt64Value(uid), StringValue(fname), StringValue(cname)>>

CallHead(uid, cname, fname) == <<UInt64Value(uid), StringValue(cname), StringValue(fname)>>
ReplyHead(uid, error) == <<UInt64Value(uid), StringValue(error)>>

-----------------------------------------------------------------------------
(* The frame: 64 bits, of which make_sendable writes the upper half.       *)

Frame(body) == <<0, Len(body) % Word>> \o body

read_size(header) == header[2]

\* Frames whose body is counted right by 32 bits.
Countable(head, tail) == MessageSize(head, tail) < Word
=============================================================================
