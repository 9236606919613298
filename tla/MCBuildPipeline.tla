-------------------------- MODULE MCBuildPipeline --------------------------
(* Small instances of BuildPipeline for TLC. *)
EXTENDS BuildPipeline, TLC

\* Interchangeable pollers, rows and workspaces.
PipelineSymmetry ==
  Permutations(Pollers) \cup Permutations(Jobs) \cup Permutations(Targets)
=============================================================================
