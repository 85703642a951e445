--------------------------- MODULE MessageChannel ---------------------------
(***************************************************************************)
(* What the ends of a connection rely on: whole messages, in order, each   *)
(* as it was sent.  Transfer and Experiment use a connection like that;    *)
(* Stream shows that the loops of lib/cmpsc311_network.c make one out of   *)
(* a stream of bytes.                                                      *)
(***************************************************************************)
EXTENDS Naturals, Sequences

CONSTANTS Ends, Messages

VARIABLES
  outbox,   \* per end: the messages it has sent on the present connection
  inbox     \* per end: the messages it has received on it

Init ==
  /\ outbox = [p \in Ends |-> <<>>]
  /\ inbox = [p \in Ends |-> <<>>]

Send(p) ==
  /\ \E m \in Messages : outbox' = [outbox EXCEPT ![p] = Append(@, m)]
  /\ UNCHANGED inbox

\* p gets the next message of the other end q.
Receive(p, q) ==
  /\ Len(inbox[p]) < Len(outbox[q])
  /\ inbox' = [inbox EXCEPT ![p] = Append(@, outbox[q][Len(@) + 1])]
  /\ UNCHANGED outbox

\* A new connection begins with nothing sent.
Reconnect ==
  /\ outbox' = [p \in Ends |-> <<>>]
  /\ inbox' = [p \in Ends |-> <<>>]

Next ==
  \/ \E p \in Ends : Send(p)
  \/ \E p, q \in Ends : p # q /\ Receive(p, q)
  \/ Reconnect

Spec == Init /\ [][Next]_<<outbox, inbox>>
=============================================================================
