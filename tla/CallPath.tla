------------------------------ MODULE CallPath ------------------------------
(***************************************************************************)
(* What a call carries, from call() through the server's registry of       *)
(* collections and functions to the callback: the application registers    *)
(* functions, the client sends requests, the server reads them off the     *)
(* stream one frame at a time, looks the function up, runs it and sends    *)
(* its values or an error text back, and the client hands them to the      *)
(* callback.  Threads and failures are the matter of IpcClientWin and of   *)
(* ServerInstanceWin: here every step is one handler and nothing is lost.  *)
(***************************************************************************)
EXTENDS IpcMessage, FiniteSets

CONSTANTS
  Collections,    \* collection objects of the application
  NameOf,         \* [Collections -> name]
  Signatures,     \* functions: records [name, params]
  ClassNames, FunctionNames,   \* the names calls are made with
  Arguments, Results,          \* what calls are made with, and may return
  MaxCalls,       \* bound on the number of calls
  NoFunction      \* nullptr

ASSUME CallPathAssumption ==
  /\ NameOf \in [Collections -> Seq(Cells)]
  /\ ClassNames \subseteq Seq(Cells) /\ FunctionNames \subseteq Seq(Cells)
  /\ Arguments \subseteq Seq(Values) /\ Results \subseteq Seq(Values)
  /\ MaxCalls \in Nat \ {0} /\ MaxCalls < Word
  /\ NoFunction \notin Signatures

VARIABLES
  offered,       \* [Collections -> functions passed to register_function]
  m_functions,   \* [Collections -> set of registered functions]
  m_classes,     \* set of registered collections
  serving,       \* the server was initialized: registration is over
  calls,         \* the calls made, in order: [cname, fname, args]
  toServer,      \* the byte stream to the server
  runs,          \* what the server did, in order: [request, function, result]
  toClient,      \* the byte stream to the client
  m_cb,          \* uids with a callback registered
  answers        \* set of [uid, values]: what callbacks were called with

registryVars == <<offered, m_functions, m_classes, serving>>
vars == <<registryVars, calls, toServer, runs, toClient, m_cb, answers>>

Requests == [cname : ClassNames, fname : FunctionNames, args : Arguments]

TypeOK ==
  /\ offered \in [Collections -> SUBSET Signatures]
  /\ m_functions \in [Collections -> SUBSET Signatures]
  /\ m_classes \subseteq Collections
  /\ serving \in BOOLEAN
  /\ Len(calls) <= MaxCalls /\ \A i \in DOMAIN calls : calls[i] \in Requests
  /\ toServer \in Seq(Cells) /\ toClient \in Seq(Cells)
  /\ Len(runs) <= Len(calls)
  /\ m_cb \subseteq 1..MaxCalls
  /\ \A a \in answers : a.uid \in 1..MaxCalls /\ \A i \in DOMAIN a.values : a.values[i] \in Values

Init ==
  /\ offered = [c \in Collections |-> {}]
  /\ m_functions = [c \in Collections |-> {}] /\ m_classes = {} /\ serving = FALSE
  /\ calls = <<>> /\ toServer = <<>> /\ runs = <<>> /\ toClient = <<>>
  /\ m_cb = {} /\ answers = {}

-----------------------------------------------------------------------------
(* The registry.                                                           *)

\* Mutant of register_function: a later function replaces the one of its name.
register_replaces(fs, f) == {g \in fs : g.name # f.name} \union {f}

\* register_function on the functions fs of a collection: the key is the name.
register_function(fs, f) ==
  IF \E g \in fs : g.name = f.name THEN fs ELSE fs \union {f}

register_collection(cs, c) ==
  IF \E d \in cs : NameOf[d] = NameOf[c] THEN cs ELSE cs \union {c}

RegisterFunction(c, f) ==
  /\ ~serving
  /\ offered' = [offered EXCEPT ![c] = @ \union {f}]
  /\ m_functions' = [m_functions EXCEPT ![c] = register_function(@, f)]
  /\ UNCHANGED <<m_classes, serving, calls, toServer, runs, toClient, m_cb, answers>>

RegisterCollection(c) ==
  /\ ~serving
  /\ m_classes' = register_collection(m_classes, c)
  /\ UNCHANGED <<offered, m_functions, serving, calls, toServer, runs, toClient, m_cb, answers>>

\* The application registers before it initializes the server: m_classes is
\* read by the instances without a lock.
Initialize ==
  /\ ~serving
  /\ serving' = TRUE
  /\ UNCHANGED <<offered, m_functions, m_classes, calls, toServer, runs, toClient, m_cb, answers>>

\* The code compares name.c_str(): names hold no zero byte.
get_function(c, fname) ==
  IF \E f \in m_functions[c] : f.name = fname
    THEN CHOOSE f \in m_functions[c] : f.name = fname
    ELSE NoFunction

\* The collection and the function of a request, if both are there.
Lookup(cname, fname) ==
  IF \E c \in m_classes : NameOf[c] = cname
    THEN get_function(CHOOSE c \in m_classes : NameOf[c] = cname, fname)
    ELSE NoFunction

\* The text of the error: some text, and the name that was not found.
ErrorText(cname, fname) ==
  IF \E c \in m_classes : NameOf[c] = cname
    THEN <<2>> \o fname \o cname ELSE <<1>> \o cname

-----------------------------------------------------------------------------
(* The client's call() and read_callback_msg, the server's                 *)
(* read_callback_msg with client_call_function.                            *)

\* Mutant of NextUid: the counter before its increment.
LastUid == Len(calls)

NextUid == Len(calls) + 1

CallFunction(r) ==
  LET uid == NextUid
      head == CallHead(uid, r.cname, r.fname)
  IN /\ serving /\ Len(calls) < MaxCalls
     /\ Countable(head, r.args) /\ FitsBuffer(head, r.args)
     /\ calls' = Append(calls, r)
     /\ m_cb' = m_cb \union {uid}
     /\ toServer' = toServer \o Frame(SerializeMessage(head, r.args))
     /\ UNCHANGED <<registryVars, runs, toClient, answers>>

\* Mutant of RestOf: the header was read as one word.
RestTooLong(stream) == SubSeq(stream, 2 + read_size(stream), Len(stream))

\* Header and body are read one after the other.
BodyOf(stream) == Take(stream, 3, read_size(stream))
RestOf(stream) == SubSeq(stream, 3 + read_size(stream), Len(stream))

\* Mutant of ErrorOf: the client is told "" when nothing was found.
ErrorDropped(f, cname, fname) == <<>>

ErrorOf(f, cname, fname) == IF f = NoFunction THEN ErrorText(cname, fname) ELSE <<>>

ReplyUid(m) == m.head[1].union[1]

\* read_callback_msg with client_call_function; the pre and post callbacks of
\* the application around the function see the call and change nothing.
Execute(result) ==
  /\ Len(toServer) >= 2 /\ Len(toServer) >= 2 + read_size(toServer)
  /\ LET m == DeserializeMessage(BodyOf(toServer), 3)
         cname == m.head[2].str
         fname == m.head[3].str
         f == Lookup(cname, fname)
         head == ReplyHead(ReplyUid(m), ErrorOf(f, cname, fname))
         tail == IF f = NoFunction THEN <<>> ELSE result
     IN /\ m.ok
        /\ Countable(head, tail) /\ FitsBuffer(head, tail)
        /\ runs' = Append(runs, [request |-> [cname |-> cname, fname |-> fname, args |-> m.tail],
                                 function |-> f, result |-> tail])
        /\ toClient' = toClient \o Frame(SerializeMessage(head, tail))
  /\ toServer' = RestOf(toServer)
  /\ UNCHANGED <<registryVars, calls, m_cb, answers>>

\* An error is handed over as one value, a Null that carries the text.
Decoded(error, values) ==
  IF error # <<>> THEN <<[NullValue EXCEPT !.str = error]>> ELSE values

Answer ==
  /\ Len(toClient) >= 2 /\ Len(toClient) >= 2 + read_size(toClient)
  /\ LET m == DeserializeMessage(BodyOf(toClient), 2)
         uid == m.head[1].union[1]
     IN /\ m.ok
        /\ answers' = IF uid \in m_cb
                        THEN answers \union
                               {[uid |-> uid, values |-> Decoded(m.head[2].str, m.tail)]}
                        ELSE answers
        /\ m_cb' = m_cb \ {uid}
  /\ toClient' = RestOf(toClient)
  /\ UNCHANGED <<registryVars, calls, toServer, runs>>

Next ==
  \/ \E c \in Collections : RegisterCollection(c) \/ \E f \in Signatures : RegisterFunction(c, f)
  \/ Initialize
  \/ \E r \in Requests : CallFunction(r)
  \/ \E result \in Results : Execute(result)
  \/ Answer

Spec == Init /\ [][Next]_vars

-----------------------------------------------------------------------------
(* Properties.                                                             *)

(* The k-th request the server decodes is the k-th that was made, with the *)
(* same names and arguments: the frames stay aligned although they are     *)
(* read as a header and a body from one stream of bytes.                   *)
RequestsArriveIntact ==
  \A k \in DOMAIN runs :
    /\ runs[k].request.cname = calls[k].cname
    /\ runs[k].request.fname = calls[k].fname
    /\ Len(runs[k].request.args) = Len(calls[k].args)
    /\ \A i \in DOMAIN calls[k].args :
         runs[k].request.args[i] = Transmitted(calls[k].args[i])

(* The callback of the k-th call is called after the k-th request was run, *)
(* with what the function returned in it, or with one Null that carries    *)
(* the text of the error for the names of that call: each type arrives     *)
(* with its content, except that the text of a Null does not travel.       *)
AnswersAreIntact ==
  \A a \in answers :
    a.uid \in DOMAIN runs /\
    LET run == runs[a.uid]
    IN IF run.function = NoFunction
         THEN /\ Len(a.values) = 1 /\ a.values[1].type = "Null"
              /\ a.values[1].str = ErrorText(calls[a.uid].cname, calls[a.uid].fname)
         ELSE /\ Len(a.values) = Len(run.result)
              /\ \A i \in DOMAIN run.result : a.values[i] = Transmitted(run.result[i])

(* Both ways: whatever calls are in the streams at once, each request runs *)
(* in its place as it was made, and each callback gets what belongs to its *)
(* own call, with values of every width.                                   *)
CallsArriveIntact == RequestsArriveIntact /\ AnswersAreIntact

(* A callback can tell an error from a result by a Null with a text: no    *)
(* result looks like that, also when the function returned such a value,   *)
(* and every call of something that is not registered does.                *)
ErrorsAreRecognisable ==
  \A a \in answers :
    (\E i \in DOMAIN a.values : a.values[i].type = "Null" /\ a.values[i].str # <<>>)
      <=> runs[a.uid].function = NoFunction

(* A name that resolves to a function keeps resolving to it, whatever is   *)
(* registered afterwards.                                                  *)
LookupIsStable ==
  [][\A c \in ClassNames : \A n \in FunctionNames :
       Lookup(c, n) # NoFunction => Lookup(c, n)' = Lookup(c, n)]_vars

(* The streams stay aligned: what is left of a stream after any number of  *)
(* reads starts with a whole frame that decodes, so no reader is stuck.    *)
StreamsAligned ==
  \A s \in {<<toServer, 3>>, <<toClient, 2>>} :
    s[1] # <<>> =>
      /\ Len(s[1]) >= 2 /\ Len(s[1]) >= 2 + read_size(s[1])
      /\ DeserializeMessage(BodyOf(s[1]), s[2]).ok

\* The name and the parameter types; no table is keyed by it.
make_unique_id(f) == <<f.name, f.params>>

(* include/ipc-function.hpp:39-45: the unique name is "used to identify"   *)
(* a function and allows "overloading of the same name but with different  *)
(* functions".  A collection that was offered a function has one with that *)
(* unique name.                                                            *)
OverloadsCoexist ==
  \A c \in Collections : \A f \in offered[c] :
    \E g \in m_functions[c] : make_unique_id(g) = make_unique_id(f)
=============================================================================
