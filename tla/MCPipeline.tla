------------------------------- MODULE MCPipeline ------------------------------
(* The user interface and a task thread on the pipeline *)
EXTENDS Pipeline

CONSTANTS ui, task
MCSubmits == (ui :> {"sync"}) @@ (task :> {"video"})
================================================================================
