------------------------- MODULE MCStatefulSequences -------------------------
(* Model of the sequences of a stateful model version for TLC.             *)
EXTENDS StatefulSequences, TLC

CONSTANTS r1, r2, r3, r4

Start(i) == [id |-> i, control |-> "SEQUENCE_START"]
Continue(i) == [id |-> i, control |-> "NO_CONTROL_INPUT"]
End(i) == [id |-> i, control |-> "SEQUENCE_END"]

\* Three requests: a sequence gets its id from the server, which is 1 unless r3
\* has taken that id before, and is continued and ended; or id 1 is used again
\* for another sequence.
MCThreeRequests == {r1, r2, r3}
MCThreeAsks ==
  {(r1 :> Start(0)) @@ (r2 :> End(1)) @@ (r3 :> ask) : ask \in {Start(1), Continue(1)}}

\* Four requests on two sequences.
MCFourRequests == {r1, r2, r3, r4}
MCFourAsks ==
  {(r1 :> Start(1)) @@ (r2 :> Start(2)) @@ (r3 :> End(2)) @@ (r4 :> Continue(1)),
   (r1 :> Start(1)) @@ (r2 :> Continue(1)) @@ (r3 :> End(1)) @@ (r4 :> End(1))}

=============================================================================
