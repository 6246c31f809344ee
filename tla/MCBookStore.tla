---------------------------- MODULE MCBookStore ----------------------------
(* BookStore on small sets: int32 is -4..3, so that additions wrap. *)
EXTENDS BookStore, TLC

MCTotals  == {-1, 2, 3}
MCChanges == {-1, 1, 2}
Symmetry  == Permutations(Requests) \cup Permutations(BookIds)
=============================================================================
