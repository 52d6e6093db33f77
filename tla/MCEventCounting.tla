---------------------------- MODULE MCEventCounting ----------------------------
EXTENDS EventCounting, TLC

\* Attempts are alike, and so are events.
Symmetry == Permutations(Calls) \cup Permutations(Events)

\* In no order, with a threshold for every count, and with none.
MCRulesItems ==
  {Missing, Found(<<>>), Found(<<Rule(4, 3), Rule(1, 1), Rule(3, 2)>>)}
=============================================================================
