---------------------------- MODULE MCPipeline -----------------------------
(* Instance of Pipeline for TLC; the bounds are in the configuration. *)
EXTENDS Pipeline
=============================================================================
