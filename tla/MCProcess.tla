------------------------------- MODULE MCProcess -------------------------------
(***************************************************************************)
(* Init and two more tasks; signal handlers and memory, or all four kinds; *)
(* fork, vfork and clones that share some of them.                         *)
(***************************************************************************)
EXTENDS Process

MCCopyOrder == <<"sig", "mm">>
MCAllKinds == <<"files", "fs", "sig", "mm">>
MCCloneFlags == {{}, {"mm", "vfork"}, {"sig", "mm"}, {"sig"}}
MCThreads == {{}, {"mm", "vfork"}, {"files", "fs", "sig", "mm"}}
===============================================================================
