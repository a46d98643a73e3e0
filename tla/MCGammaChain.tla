---------------------------- MODULE MCGammaChain ----------------------------
(***************************************************************************)
(* TLC instances of GammaChain.  Writers are interchangeable.              *)
(***************************************************************************)
EXTENDS GammaChain, TLC

WriterSymmetry == Permutations(Writers)
=============================================================================
