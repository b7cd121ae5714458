---------------------------- MODULE MCRequestNumber ----------------------------
(* Two workers through the whole range of their counters; the second starts  *)
(* over before the first has gone once around.                               *)
EXTENDS RequestNumber

MCAddress == [hi |-> 44048, lo |-> 770]   \* 172.16.3.2
===============================================================================
