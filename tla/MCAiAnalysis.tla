----------------------------- MODULE MCAiAnalysis -----------------------------
EXTENDS AiAnalysis, TLC

\* The messages that do not say UPDATED are alike.
Symmetry == Permutations(Messages \ Updates)
=============================================================================
