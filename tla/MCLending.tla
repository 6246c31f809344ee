----------------------------- MODULE MCLending -----------------------------
(* Lending with one book of one copy and two orders for it. *)
EXTENDS Lending, TLC

CONSTANT b1

MCBookLists == {<<b1>>}

\* One copy, and the least int32: nothing validates the quantity of a new book.
MCTotals    == {1, -4}
Symmetry    == Permutations(Requests) \cup Permutations(OrderIds)
=============================================================================
