-------------------------------- MODULE MCCli --------------------------------
(* Both executors; a child writes more than either limit lets through.       *)
EXTENDS NodeCliExecutor
=============================================================================
