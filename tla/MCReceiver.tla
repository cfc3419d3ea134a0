------------------------------ MODULE MCReceiver ------------------------------
EXTENDS ControlReceiver, TLC

Symmetry == Permutations(Handlers) \cup Permutations(Timers) \cup Permutations(RequestIds)
=============================================================================
