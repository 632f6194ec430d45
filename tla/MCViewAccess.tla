---------------------------- MODULE MCViewAccess ----------------------------
(* ViewAccess on small boards.  The users differ in what they may do, and  *)
(* the budgets put the requests where they meet.                           *)
EXTENDS ViewAccess, TLC

MostlyMembers == [calls |-> 4, views |-> 0, loads |-> 0]
MostlyViews == [calls |-> 0, views |-> 2, loads |-> 1]
Both == [calls |-> 1, views |-> 1, loads |-> 0]

SmallBudgets == {MostlyMembers, MostlyViews, Both}

Symmetry == Permutations(Requests) \cup Permutations(Calls) \cup Permutations(FirstViews)
=============================================================================
