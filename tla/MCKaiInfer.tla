----------------------------- MODULE MCKaiInfer -----------------------------
(* KaiInfer for TLC: updaters run the same code and are interchangeable.        *)
EXTENDS KaiInfer, TLC

Symmetry == Permutations(Updaters)
=============================================================================
