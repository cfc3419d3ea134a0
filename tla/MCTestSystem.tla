---------------------------- MODULE MCTestSystem ----------------------------
EXTENDS TestSystem, TLC

Symmetry ==
  Permutations(Handlers) \cup Permutations(Timers) \cup Permutations(Samplers)
    \cup Permutations(Runs) \cup Permutations(StopIds)
=============================================================================
