-------------------------------- MODULE MCCow --------------------------------
(* Small instances of Cow for TLC. *)
EXTENDS Cow, TLC

Bytes == {0, 1}

\* Pages are interchangeable: the model's kalloc returns any available one.
FrameSymmetry == Permutations(Frames)
=============================================================================
