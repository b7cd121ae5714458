--------------------------------- MODULE MCKii ---------------------------------
(* Small instances of Kii: a shell and the child it forks, on one processor  *)
(* or on two, with an ikcd that stops, crashes or does neither.              *)
EXTENDS Kii
CONSTANTS d1, d2, m, o1

Machine(smp, crash, stop) == [smp |-> smp, crash |-> crash, stop |-> stop]
Steady == {Machine(FALSE, FALSE, FALSE)}
Crashing == {Machine(FALSE, TRUE, FALSE)}
TwoProcessors == {Machine(TRUE, FALSE, FALSE)}
Both == {Machine(FALSE, TRUE, TRUE), Machine(TRUE, FALSE, TRUE)}
===============================================================================
