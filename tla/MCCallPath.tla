----------------------------- MODULE MCCallPath -----------------------------
\* Small instances of CallPath for TLC.
EXTENDS CallPath

\* Collection objects that all have one name.
OneName == [c \in Collections |-> <<1>>]

\* Two functions that differ in their parameters only.
Overloads == {[name |-> <<1>>, params |-> <<>>],
              [name |-> <<1>>, params |-> <<"Int32">>]}
OneFunction == {[name |-> <<1, 2>>, params |-> <<>>]}

\* A name that is registered, and one that is not.
Names == {<<1>>, <<3>>}
AName == {<<1>>}
ItsName == {<<1, 2>>}

Of(t, u) == [NullValue EXCEPT !.type = t, !.union = u]
Bin(b) == [NullValue EXCEPT !.type = "Binary", !.bin = b]
Ones(n) == [i \in 1..n |-> 1]

\* Values of each width, containers that are empty and not, and a Null with a
\* text.  In AllValues, the longest string that the frame of a call can take.
SomeValues == {NullValue, [NullValue EXCEPT !.str = <<7>>], Of("Int32", <<5, 0>>),
               Of("Double", <<4, 9>>), StringValue(<<>>), StringValue(<<7, 8>>), Bin(<<2, 3>>)}
AllValues == SomeValues \union {Of("Float", <<6, 0>>), Of("UInt64", <<0, 9>>), Bin(<<>>),
                                StringValue(Ones(16))}

ListsOf(vs, n) == UNION {[1..k -> vs] : k \in 0..n}

AllLists == ListsOf(AllValues, 2)
FewLists == {<<>>, <<Bin(<<2>>), Of("Double", <<4, 9>>)>>}
NoLists == {<<>>}
=============================================================================
