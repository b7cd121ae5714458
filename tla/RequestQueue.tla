----------------------------- MODULE RequestQueue -----------------------------
(***************************************************************************)
(* What the request queues of the ikcd promise to the threads that share   *)
(* them (pending_out between the kernel request collector and the outgoing *)
(* workers, pending_in between the packet collector and the incoming       *)
(* workers): a first-in first-out queue whose operations take effect at    *)
(* one instant.  Ikcq shows that the linked list of ikcq.c implements it.  *)
(***************************************************************************)
EXTENDS Sequences, Naturals

CONSTANTS Threads,   \* threads that call the queue operations
          Requests   \* pointers to struct ikc_request

VARIABLES items,     \* the queued requests, oldest first
          result     \* what the last operation of a thread returned

queueVars == <<items, result>>

\* Return values of ikcq_queue_request and ikcq_dequeue_request other than
\* a request: 0, -E_IKC_NOMEM and -E_IKC_NOQUEUE.
Codes == {"ok", "nomem", "noqueue"}

QInit ==
  /\ items = <<>>
  /\ result = [t \in Threads |-> "ok"]

Returns(t, v) == result' = [result EXCEPT ![t] = v]

Enqueue(t, r) ==
  /\ items' = Append(items, r)
  /\ Returns(t, "ok")

\* The operation may refuse a request when it finds no memory for it.
Refuse(t) ==
  /\ Returns(t, "nomem")
  /\ UNCHANGED items

Dequeue(t) ==
  /\ items # <<>>
  /\ items' = Tail(items)
  /\ Returns(t, Head(items))

ReportEmpty(t) ==
  /\ items = <<>>
  /\ Returns(t, "noqueue")
  /\ UNCHANGED items

\* Taking a request out of the middle of the queue keeps the order of the
\* others.
Remove(t, i) ==
  /\ items' = [j \in 1..(Len(items) - 1) |->
                 IF j < i THEN items[j] ELSE items[j + 1]]
  /\ Returns(t, "ok")

QNext ==
  \E t \in Threads :
    \/ \E r \in Requests : Enqueue(t, r)
    \/ Refuse(t)
    \/ Dequeue(t)
    \/ ReportEmpty(t)
    \/ \E i \in 1..Len(items) : Remove(t, i)

QSpec == QInit /\ [][QNext]_queueVars
===============================================================================
