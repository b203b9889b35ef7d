--------------------------- MODULE MCSimulatorState ---------------------------
EXTENDS SimulatorState, TLC

\* Threads are told apart by nothing but their stacks.
Symmetry == Permutations(ThreadIds)
==============================================================================
