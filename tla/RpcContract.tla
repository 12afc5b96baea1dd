---------------------------- MODULE RpcContract ----------------------------
(***************************************************************************)
(* What the library promises for one remote call, whatever the transport:  *)
(* the function runs on the server at most once; the caller is told        *)
(* "reply" only after it ran, "refused" (the call returned false) only if  *)
(* it never ran and never will, and "lost" when the connection ended and   *)
(* nothing is known.  Each call is answered at most once.                  *)
(*                                                                         *)
(* The components' specifications are shown to implement this one.         *)
(***************************************************************************)
EXTENDS Naturals

CONSTANT Calls       \* the identities of the calls

VARIABLES
  phase,    \* [Calls -> {"new", "issued", "done"}], as the caller sees it
  runs,     \* [Calls -> {0, 1}], how often the function ran on the server
  result    \* [Calls -> {"none", "reply", "lost", "refused"}]

cvars == <<phase, runs, result>>

Init ==
  /\ phase = [c \in Calls |-> "new"]
  /\ runs = [c \in Calls |-> 0]
  /\ result = [c \in Calls |-> "none"]

Issue(c) ==
  /\ phase[c] = "new"
  /\ phase' = [phase EXCEPT ![c] = "issued"]
  /\ UNCHANGED <<runs, result>>

\* The request may still reach the function after the caller was told "lost".
Execute(c) ==
  /\ phase[c] # "new"
  /\ result[c] # "refused"
  /\ runs[c] = 0
  /\ runs' = [runs EXCEPT ![c] = 1]
  /\ UNCHANGED <<phase, result>>

Return(c, r) ==
  /\ phase[c] = "issued"
  /\ r = "reply" => runs[c] = 1
  /\ r = "refused" => runs[c] = 0
  /\ phase' = [phase EXCEPT ![c] = "done"]
  /\ result' = [result EXCEPT ![c] = r]
  /\ UNCHANGED runs

Next ==
  \E c \in Calls :
    \/ Issue(c)
    \/ Execute(c)
    \/ \E r \in {"reply", "lost", "refused"} : Return(c, r)

Spec == Init /\ [][Next]_cvars
=============================================================================
