------------------------------ MODULE MCIkcOut ------------------------------
(***************************************************************************)
(* The outgoing half alone, against a server that answers whatever request *)
(* datagram it likes, as often as it likes.                                *)
(***************************************************************************)
EXTENDS IkcOut

allVars == <<netVars, outVars>>

\* A remote ikcd executes the request of a packet and answers it.
Serve(m) ==
  /\ respNet' = Send(respNet, [host |-> m.host, thread |-> m.thread,
                               seq |-> m.seq, r_pid |-> m.call])
  /\ reqNet' = Delivered(reqNet, m)
  /\ UNCHANGED outVars

Init == NetInit /\ OutInit
Next == OutNext \/ \E m \in reqNet : Serve(m)

\* The daemon's threads run; kernel, network, server and those who send the
\* threads signals promise nothing.
Fairness ==
  /\ WF_allVars(CollectorNext)
  /\ \A w \in OutWorkers : WF_allVars(WorkerRuns(w))

Spec == Init /\ [][Next]_allVars
FairSpec == Spec /\ Fairness

\* A worker whose select was interrupted waits in recvfrom (ikcr.c 185-192).
Blocked(w) == opc[w] = "recv"

\* A request a worker has dequeued is answered, whatever the network does,
\* unless a signal has the worker wait for a datagram without a time limit.
TakenIsAnswered ==
  \A c \in Calls :
    (c \in Taken) ~> (kernel[c] = "done"
                         \/ \E w \in OutWorkers : current[w] = c /\ Blocked(w))

\* A worker that was woken does not go back to sleep before the queue is
\* empty, so requests queued without a wakeup wait for the next one at most
\* (or behind a worker that an interrupted select has left in recvfrom).
WokenDrains ==
  (pendingOut # <<>> /\ \E w \in OutWorkers : opc[w] \notin {"idle", "waiting"})
    ~> (pendingOut = <<>> \/ \E w \in OutWorkers : Blocked(w))

\* A request queued on pending_out is taken by a worker (ikcd.c: "wait until a
\* new request is queued on the pending_out queue").
QueuedIsTaken ==
  \A c \in Calls : (c \in Queued) ~> (c \notin Queued)
===============================================================================
