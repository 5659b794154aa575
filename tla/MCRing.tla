------------------------------- MODULE MCRing -------------------------------
(* Instances of the ring small enough for TLC.                             *)
EXTENDS MPSCRingBufferRefinement, TLC

ProducerSymmetry == Permutations(Producers) \cup Permutations(Items)
=============================================================================
