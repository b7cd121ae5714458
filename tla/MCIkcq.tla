-------------------------------- MODULE MCIkcq --------------------------------
EXTENDS Ikcq, TLC

Symmetry ==
  Permutations(Threads) \cup Permutations(Requests) \cup Permutations(Nodes)
===============================================================================
