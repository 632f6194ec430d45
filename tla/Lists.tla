-------------------------------- MODULE Lists --------------------------------
(***************************************************************************)
(* What the client does with arrays that the community modules do not have *)
(* in a form that can be reasoned about.                                   *)
(***************************************************************************)
EXTENDS Integers, SequencesExt

\* s.filter(): the elements of s that are in S.
Filtered(s, S) == FoldLeft(LAMBDA t, x : IF x \in S THEN Append(t, x) ELSE t, <<>>, s)

=============================================================================
