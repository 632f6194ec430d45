-------------------------- MODULE MCPluginAdapter --------------------------
(* Instances of PluginAdapter for TLC.                                       *)
EXTENDS PluginAdapter

\* One user with two connections, the others with one each.
TwoUsers == CHOOSE f \in [Conns -> Users] : Range(f) = Users
OneUser == [c \in Conns |-> CHOOSE u \in Users : TRUE]
=============================================================================
