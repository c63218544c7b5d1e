------------------------------ MODULE MCAries -------------------------------
(* Instances of Aries for TLC; the pages are interchangeable. *)
EXTENDS Aries, TLC

Symmetry == Permutations(Page)
=============================================================================
