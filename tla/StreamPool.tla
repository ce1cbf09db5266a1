----------------------------- MODULE StreamPool -----------------------------
(***************************************************************************)
(* What the queue of infer requests promises to its clients: a pool of     *)
(* stream ids in which a client owns at most one id and an id has at most  *)
(* one owner.  Which free id a client is given is not promised.            *)
(***************************************************************************)
EXTENDS Integers

CONSTANTS Clients,    \* the threads that run inferences
          Ids         \* the ids of the infer requests

NoStream == -1

VARIABLE owned        \* owned[c]: the id that c owns, or NoStream

Init == owned = [c \in Clients |-> NoStream]

Acquire(c) ==
  /\ owned[c] = NoStream
  /\ \E id \in Ids :
       /\ \A d \in Clients : owned[d] # id
       /\ owned' = [owned EXCEPT ![c] = id]

Release(c) ==
  /\ owned[c] # NoStream
  /\ owned' = [owned EXCEPT ![c] = NoStream]

Next == \E c \in Clients : Acquire(c) \/ Release(c)

Spec == Init /\ [][Next]_owned
=============================================================================
