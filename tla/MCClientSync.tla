---------------------------- MODULE MCClientSync ----------------------------
(* TLC instance: a board with a card that has comments and an attachment,  *)
(* and a board that has no blocks.                                         *)
EXTENDS ClientSync

BlockType == "a1" :> "card" @@ "m1" :> "comment" @@ "m2" :> "comment" @@ "t1" :> "attachment"
BlockHome == [b \in {"a1", "m1", "m2", "t1"} |-> "A"]
BlockParent == [b \in {"m1", "m2", "t1"} |-> "a1"]

=============================================================================
