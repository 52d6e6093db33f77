------------------------------ MODULE MCReplayDlq ------------------------------
EXTENDS ReplayDlq, TLC

\* Requests are alike, and so are the runs of the script.
Symmetry == Permutations(Calls) \cup Permutations(Runs)
=============================================================================
