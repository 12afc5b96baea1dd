--------------------------- MODULE SerialService ---------------------------
(***************************************************************************)
(* What one connection promises to the client at its other end: requests   *)
(* are taken in the order they were sent, one at a time, and the next one  *)
(* is taken only after the reply to the one before was sent.  So replies   *)
(* come in the order of the requests and no request is answered twice.     *)
(* Once the client has left, a reply may be dropped.                       *)
(***************************************************************************)
EXTENDS Naturals, Sequences

CONSTANT Requests

VARIABLES
  link,      \* "up", or "gone" when the client has left
  inbox,     \* requests sent and not taken
  outbox,    \* replies sent and not read
  serving    \* the request being served, 0 = none

svars == <<link, inbox, outbox, serving>>

Init == link = "up" /\ inbox = <<>> /\ outbox = <<>> /\ serving = 0

Request(r) ==
  /\ link = "up"
  /\ inbox' = Append(inbox, r)
  /\ UNCHANGED <<link, outbox, serving>>

Take ==
  /\ serving = 0 /\ inbox # <<>>
  /\ serving' = Head(inbox)
  /\ inbox' = Tail(inbox)
  /\ UNCHANGED <<link, outbox>>

Reply ==
  /\ link = "up" /\ serving # 0
  /\ outbox' = Append(outbox, serving)
  /\ serving' = 0
  /\ UNCHANGED <<link, inbox>>

Read ==
  /\ link = "up" /\ outbox # <<>>
  /\ outbox' = Tail(outbox)
  /\ UNCHANGED <<link, inbox, serving>>

Leave ==
  /\ link = "up"
  /\ link' = "gone"
  /\ outbox' = <<>>
  /\ UNCHANGED <<inbox, serving>>

Next == (\E r \in Requests : Request(r)) \/ Take \/ Reply \/ Read \/ Leave

Spec == Init /\ [][Next]_svars
=============================================================================
