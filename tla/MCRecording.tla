---------------------------- MODULE MCRecording ----------------------------
(* Instances of Recording for TLC.                                         *)
EXTENDS Recording, TLC

Frame(part, p, v) == [phase |-> part, pressure |-> p, valve |-> v]

\* A frame before the onset and one of the leak.
MCFrames == {Frame("pre", 2, 1), Frame("during", 1, 2)}
=============================================================================
