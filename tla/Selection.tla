------------------------------ MODULE Selection ------------------------------
(***************************************************************************)
(* What filter keeps of a sequence: the elements at the places of a set,   *)
(* in their order.  It is SelectSeq by place instead of by element, which  *)
(* is how some filters of the code work (by index, so that equal lines are *)
(* told apart), and of which facts can be proved.                          *)
(***************************************************************************)
EXTENDS Naturals, FiniteSets

\* How many places of the set there are up to one of them.
Rank(I, i) == Cardinality({j \in I : j <= i})

\* The place with a rank.
Nth(I, k) == CHOOSE i \in I : Rank(I, i) = k

Selected(s, I) == [k \in 1..Cardinality(I) |-> s[Nth(I, k)]]
=============================================================================
