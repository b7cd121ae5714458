--------------------------------- MODULE MCCsd ---------------------------------
(***************************************************************************)
(* Two nodes, an application with two libraries, and one load average or   *)
(* two.                                                                    *)
(***************************************************************************)
EXTENDS Csd

MCOneAvg == <<"avg1">>
MCTwoAvgs == <<"avg1", "avg5">>
MCWeight == <<7, 2>>
MCLibs == <<"libc", "libm">>
MCLists == {<<"a">>, <<"a", "s">>}
===============================================================================
