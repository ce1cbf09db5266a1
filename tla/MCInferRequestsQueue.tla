------------------------ MODULE MCInferRequestsQueue ------------------------
(* Model of the infer request queue for TLC.                               *)
EXTENDS InferRequestsQueue, TLC

CONSTANTS c1, c2, c3, c4, c5

MCClients == {c1, c2, c3, c4, c5}
MCFewClients == {c1, c2, c3}
Symm == Permutations(Clients)

=============================================================================
