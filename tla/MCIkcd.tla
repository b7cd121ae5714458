------------------------------- MODULE MCIkcd -------------------------------
EXTENDS Ikcd, TLC

Symmetry == Permutations(Calls) \cup Permutations(OutWorkers)
              \cup Permutations(InWorkers)
===============================================================================
