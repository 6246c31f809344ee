--------------------------- MODULE MCOrderService ---------------------------
(* OrderService on small sets: a list of two books, and one that names a book twice. *)
EXTENDS OrderService, TLC

CONSTANTS b1, b2

MCBookLists == {<<b1, b2>>, <<b1, b1>>}
Symmetry    == Permutations(Handlers) \cup Permutations(Users)
=============================================================================
