------------------------------- MODULE MCIkcIn -------------------------------
(***************************************************************************)
(* The incoming half alone, against clients that send, and send again,     *)
(* any of a few requests.                                                  *)
(***************************************************************************)
EXTENDS IkcIn

CONSTANTS h1, h2, w1, c1, c2, c3,
          MaxSends   \* how often c1's request is sent; the others are sent once

VARIABLE sends       \* how often each request was sent

allVars == <<netVars, inVars, sends>>

Request(h, w, s, c) ==
  [host |-> h, thread |-> w, seq |-> s, call |-> c,
   o_filename |-> "r_node", o_argv |-> ""]

\* Two requests of one client thread and, if it is there, one of another host.
ClientRequests ==
  {r \in {Request(h1, w1, 0, c1), Request(h1, w1, 1, c2), Request(h2, w1, 0, c3)} :
     r.host \in Hosts}

ClientSend(m) ==
  /\ sends[m] < (IF m.call = c1 THEN MaxSends ELSE 1)
  /\ sends' = [sends EXCEPT ![m] = @ + 1]
  /\ reqNet' = Send(reqNet, m)
  /\ UNCHANGED <<respNet, inVars>>

Init ==
  /\ NetInit
  /\ InInit
  /\ sends = [m \in ClientRequests |-> 0]

Next ==
  \/ InNext /\ UNCHANGED sends
  \/ \E m \in ClientRequests \ reqNet : ClientSend(m)

Spec == Init /\ [][Next]_allVars
FairSpec ==
  Spec /\ \A i \in InWorkers : WF_allVars(InWorkerNext(i) /\ UNCHANGED sends)

\* A request a worker has dequeued is answered, unless the backlog list was
\* broken: lookups, execution and adding never wait for one another.
DequeuedIsAnswered ==
  \A i \in InWorkers :
    (ipc[i] = "lookup") ~> (ipc[i] = "dequeue" \/ list = "dangling")

\* The list never refers to memory it has freed (ikcbl.c: "remove a request
\* from the backlog list").
ListIntact == list = "ok"

\* A request that arrives twice is executed once.
ExecutedOnce == repeated = {}
===============================================================================
