------------------------- MODULE MCCardTreeRequests -------------------------
(* Instances of CardTreeRequests: which request may carry which operation. *)
EXTENDS CardTreeRequests, TLC

CONSTANTS r1, r2

Tree == {"create", "subcard", "link", "unlink", "delete"}

LinksByR1 == r1 :> Tree @@ r2 :> {"subcard", "delete"}

\* What the variants of the README put in its place.
TwoLinkers == [r \in {r1, r2} |-> {"create", "link"}]
LinkAndCreate == r1 :> {"create", "subcard", "link"} @@ r2 :> {"subcard"}
CreateAndDelete == [r \in {r1, r2} |-> {"create", "subcard", "delete"}]

\* Bounds: four cards for requests that overlap, and no unlink among them:
\* with inserts in between it shifts the stored depths without end.
FewerWhenOverlapped ==
    \/ alone /\ req[r2].at = "idle"
    \/ Cardinality(known) <= 4 /\ \A r \in Requests : alone \/ req[r].delta >= 0

Symmetry == Permutations(Cards)
=============================================================================
