--------------------------- MODULE MCFrameLayout ---------------------------
(* FrameLayout for TLC: the names of a program are interchangeable. *)
EXTENDS FrameLayout, TLC

TwoNames == BoundedSeq(Names, 2)

NameSymmetry == Permutations(Names)
=============================================================================
