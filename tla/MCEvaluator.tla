----------------------------- MODULE MCEvaluator -----------------------------
\* Evaluator with the mutants of its definitions, for TLC.
EXTENDS Evaluator
=============================================================================
