--------------------------------- MODULE Ikcd ---------------------------------
(***************************************************************************)
(* Remote process creation from end to end: the outgoing half of the ikcd  *)
(* on the home node, the network, and the incoming half on the node the    *)
(* processes are created on.                                               *)
(***************************************************************************)
EXTENDS IkcOut, IkcIn

ikcdVars == <<netVars, outVars, inVars>>

Init == NetInit /\ OutInit /\ InInit

Next ==
  \/ OutNext /\ UNCHANGED inVars
  \/ InNext /\ UNCHANGED outVars

Spec == Init /\ [][Next]_ikcdVars

\* A process id the kernel is given belongs to a process that was created: the
\* remote node executed the request it stands for, and that request was sent
\* by the worker that answers the kernel.  (Once the backlog list refers to
\* memory it has freed, a request may be answered with any process id.)
AnswerWasExecuted ==
  list = "ok" =>
    \A c \in Calls : answer[c] \in Calls =>
      \E p \in executed : /\ p.call = answer[c]
                          /\ CarriedBy(p.thread, answer[c], c)

\* While a worker has not used up its sequence numbers, the request number
\* tells its calls apart, so that a response carries the process id of the
\* request it names even when it comes from the backlog list, unless that list
\* refers to memory it has freed.
NumbersDistinguish ==
  \A w \in OutWorkers :
    list = "ok" /\ Len(carried[w]) <= SeqMod =>
      \A m \in respNet : m.thread = w =>
        \A p \in reqNet \cup executed :
          Number(p) = <<m.host, m.thread, m.seq>> => p.call = m.r_pid

\* The kernel is answered with the process created for its own call, or, when
\* no response came, with nothing useful.
AnswerIsForCall ==
  \A c \in Calls : answer[c] \in {c, NoCall, Garbage}
===============================================================================
