------------------------- MODULE MCScheduledComments -------------------------
(* Instances of ScheduledComments: which worker may carry which operation. *)
EXTENDS ScheduledComments, TLC

CONSTANTS n1, n2, u1

\* A send-now or an update that overlaps with the write of a tick sends the
\* comment a second time, and an update that overlaps with a cancellation and
\* a create exceeds the limit: here these requests only come between ticks.
NodeAndUser == [w \in {n1, u1} |->
                  IF w = n1 THEN {"tick", "create", "sendnow", "update"}
                            ELSE {"cancel", "delete"}]
TwoNodes == [w \in {n1, n2} |-> IF w = n1 THEN {"tick", "create"} ELSE {"tick"}]
=============================================================================
