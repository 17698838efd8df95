--------------------------- MODULE PipelineClaims ---------------------------
(***************************************************************************)
(* A sentence of the documentation about the output directory, stated as a *)
(* property of Pipeline.                                                   *)
(***************************************************************************)
EXTENDS MCPipeline

\* docs/DATA_HANDLING_BOUNDARY.md:40, "All output is generated afresh on each
\* run": between runs, the files in the directory are all of one run.
OutputIsAfresh ==
  pc = "idle" => \A f, g \in File : Exists(f) /\ Exists(g) => files[f].gen = files[g].gen
=============================================================================
