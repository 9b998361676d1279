----------------------------- MODULE MCPipeline -----------------------------
(* Instances of Pipeline for TLC.                                          *)
EXTENDS Pipeline, TLC

\* Workers and keys are interchangeable.
Symmetry == Permutations(Workers) \cup Permutations(Keys)
=============================================================================
