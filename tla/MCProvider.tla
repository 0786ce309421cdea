------------------------------ MODULE MCProvider ------------------------------
(* The gateway has one tick less than the browser; there are ticks for two   *)
(* calls of Ollama that both run into their own timeout, and reading the     *)
(* refFAM may take longer than the browser waits.                            *)
EXTENDS ProviderCall
=============================================================================
