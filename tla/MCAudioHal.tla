----------------------------- MODULE MCAudioHal -----------------------------
(* Instances of AudioHal for TLC. *)
EXTENDS AudioHal, TLC

\* AudioFlinger's threads are interchangeable, and so is allocated memory
Symmetry == Permutations(Threads) \union Permutations(Refs)

\* ... and the streams of one direction
StreamSymmetry == Symmetry \union Permutations(Outs) \union Permutations(Ins)
=============================================================================
