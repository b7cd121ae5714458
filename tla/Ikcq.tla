--------------------------------- MODULE Ikcq ---------------------------------
(***************************************************************************)
(* The request queue of the ikcd (src/src/ikcd/ikcq.c) at the level of its *)
(* pointers: a doubly linked list whose first element's prev points to the *)
(* last one, guarded by the mutex of struct ikc_queue_head.  A call is     *)
(* split where another thread could get in between if the mutex did not    *)
(* keep it out: before the lock, between reading a pointer and writing     *)
(* through it, and before the unlock.                                      *)
(*                                                                         *)
(* chain is a history variable: the nodes of the queue in queue order.     *)
(***************************************************************************)
EXTENDS Sequences, Naturals

CONSTANTS Threads, Requests,
          Nodes,      \* memory cells malloc may hand out
          NULL,       \* the null pointer
          NoRequest,  \* content of a request pointer nobody has set
          NoThread    \* owner of the mutex while it is free

ASSUME QueueAssumption ==
  /\ NULL \notin Nodes
  /\ NoRequest \notin Requests
  /\ NoThread \notin Threads
  /\ Requests \cap {"ok", "nomem", "noqueue"} = {}

VARIABLES
  queue,              \* head->queue
  next, prev, req_struct,   \* fields of struct ikc_request_queue, by node
  alloc,              \* nodes malloc has handed out and free has not taken
  mutex,              \* head->mutex
  pc,                 \* where a thread is in its call
  arg,                \* the request passed to the call
  cell,               \* new_q, q_deq or req_in_queue of the call
  tail,               \* the local variable tail of ikcq_queue_request
  result,             \* what the last call returned
  chain

heap == <<queue, next, prev, req_struct, alloc>>
vars == <<heap, mutex, pc, arg, cell, tail, result, chain>>

Pointers == Nodes \cup {NULL}
Places == {"idle", "q_lock", "q_read", "q_link", "d_read", "d_unlink",
           "r_read", "r_find", "unlock", "fault"}
Critical == Places \ {"idle", "q_lock"}

Init ==
  /\ queue = NULL
  /\ next = [n \in Nodes |-> NULL]
  /\ prev = [n \in Nodes |-> NULL]
  /\ req_struct = [n \in Nodes |-> NoRequest]
  /\ alloc = {}
  /\ mutex = NoThread
  /\ pc = [t \in Threads |-> "idle"]
  /\ arg = [t \in Threads |-> NoRequest]
  /\ cell = [t \in Threads |-> NULL]
  /\ tail = [t \in Threads |-> NULL]
  /\ result = [t \in Threads |-> "ok"]
  /\ chain = <<>>

\* A read through a null pointer ends the process: no thread moves again.
Alive == \A t \in Threads : pc[t] # "fault"

Goto(t, from, to) ==
  /\ Alive
  /\ pc[t] = from
  /\ pc' = [pc EXCEPT ![t] = to]

Return(t, v) == result' = [result EXCEPT ![t] = v]

Lock(t) ==
  /\ mutex = NoThread
  /\ mutex' = t

\* The locals of a call end with it.
Unlock(t) ==
  /\ Goto(t, "unlock", "idle")
  /\ mutex' = NoThread
  /\ arg' = [arg EXCEPT ![t] = NoRequest]
  /\ cell' = [cell EXCEPT ![t] = NULL]
  /\ tail' = [tail EXCEPT ![t] = NULL]
  /\ UNCHANGED <<heap, result, chain>>

-------------------------------------------------------------------------------
(* ikcq_queue_request *)

\* malloc succeeds: a node nobody uses.  Its fields are read by nobody before
\* QueueLink has written all three of them.
QueueMalloc(t, r) ==
  /\ Goto(t, "idle", "q_lock")
  /\ \E n \in Nodes \ alloc :
       /\ alloc' = alloc \cup {n}
       /\ cell' = [cell EXCEPT ![t] = n]
  /\ arg' = [arg EXCEPT ![t] = r]
  /\ UNCHANGED <<queue, next, prev, req_struct, mutex, tail, result, chain>>

\* malloc fails: the request is not queued, and no caller looks at the code.
QueueNoMem(t) ==
  /\ Goto(t, "idle", "idle")
  /\ Return(t, "nomem")
  /\ UNCHANGED <<heap, mutex, arg, cell, tail, chain>>

QueueLock_Unguarded(t) ==
  /\ Goto(t, "q_lock", "q_read")
  /\ mutex' = t
  /\ UNCHANGED <<heap, arg, cell, tail, result, chain>>

QueueLock(t) ==
  /\ Goto(t, "q_lock", "q_read")
  /\ Lock(t)
  /\ UNCHANGED <<heap, arg, cell, tail, result, chain>>

QueueReadTail(t) ==
  /\ Goto(t, "q_read", "q_link")
  /\ tail' = [tail EXCEPT ![t] = IF queue = NULL THEN NULL ELSE prev[queue]]
  /\ UNCHANGED <<heap, mutex, arg, cell, result, chain>>

LinkFirst(n) ==
  /\ queue' = n
  /\ prev' = [prev EXCEPT ![n] = n]
  /\ next' = [next EXCEPT ![n] = NULL]

LinkLast_TailKept(n, last) ==
  /\ prev' = [prev EXCEPT ![n] = last]
  /\ next' = [next EXCEPT ![n] = next[last], ![last] = n]
  /\ UNCHANGED queue

LinkLast(n, last) ==
  /\ prev' = [prev EXCEPT ![n] = last, ![queue] = n]
  /\ next' = [next EXCEPT ![n] = next[last], ![last] = n]
  /\ UNCHANGED queue

QueueLink(t) ==
  LET n == cell[t] IN
  /\ Goto(t, "q_link", "unlock")
  /\ IF tail[t] = NULL THEN LinkFirst(n) ELSE LinkLast(n, tail[t])
  /\ req_struct' = [req_struct EXCEPT ![n] = arg[t]]
  /\ chain' = Append(chain, n)
  /\ Return(t, "ok")
  /\ UNCHANGED <<alloc, mutex, arg, cell, tail>>

-------------------------------------------------------------------------------
(* The four pointer updates that take node n out of the list: the same     *)
(* lines in ikcq_dequeue_request and ikcq_remove_request, in their order.  *)
(* The fields of n itself are cleared with it: it is freed at once.        *)

Unlink(n) ==
  LET prev1 == IF next[n] # NULL THEN [prev EXCEPT ![next[n]] = prev[n]]
                                 ELSE prev
      next1 == IF n # queue THEN [next EXCEPT ![prev1[n]] = next[n]] ELSE next
      prev2 == IF n = prev1[queue] THEN [prev1 EXCEPT ![queue] = prev1[n]]
                                   ELSE prev1
  IN /\ next' = [next1 EXCEPT ![n] = NULL]
     /\ prev' = [prev2 EXCEPT ![n] = NULL]
     /\ queue' = IF n = queue THEN next[n] ELSE queue

CutAt(seq, i) ==
  [j \in 1..(Len(seq) - 1) |-> IF j < i THEN seq[j] ELSE seq[j + 1]]

Free_Forgotten(n) ==
  /\ alloc' = alloc
  /\ req_struct' = [req_struct EXCEPT ![n] = NoRequest]

Free(n) ==
  /\ alloc' = alloc \ {n}
  /\ req_struct' = [req_struct EXCEPT ![n] = NoRequest]

(* ikcq_dequeue_request *)

DequeueLock(t) ==
  /\ Goto(t, "idle", "d_read")
  /\ Lock(t)
  /\ UNCHANGED <<heap, arg, cell, tail, result, chain>>

DequeueEmpty(t) ==
  /\ queue = NULL
  /\ Goto(t, "d_read", "unlock")
  /\ Return(t, "noqueue")
  /\ UNCHANGED <<heap, mutex, arg, cell, tail, chain>>

DequeueRead(t) ==
  /\ queue # NULL
  /\ Goto(t, "d_read", "d_unlink")
  /\ cell' = [cell EXCEPT ![t] = queue]
  /\ UNCHANGED <<heap, mutex, arg, tail, result, chain>>

DequeueUnlink_ReadAfterFree(t) ==
  LET n == cell[t] IN
  /\ Goto(t, "d_unlink", "unlock")
  /\ Unlink(n)
  /\ Free(n)
  /\ Return(t, req_struct'[n])
  /\ chain' = Tail(chain)
  /\ UNCHANGED <<mutex, arg, cell, tail>>

DequeueUnlink(t) ==
  LET n == cell[t] IN
  /\ Goto(t, "d_unlink", "unlock")
  /\ Unlink(n)
  /\ Return(t, req_struct[n])
  /\ Free(n)
  /\ chain' = Tail(chain)
  /\ UNCHANGED <<mutex, arg, cell, tail>>

-------------------------------------------------------------------------------
(* ikcq_remove_request: no thread of the ikcd calls it; it is part of the  *)
(* queue's interface (ikcq.h).                                             *)

RemoveLock(t, r) ==
  /\ Goto(t, "idle", "r_read")
  /\ Lock(t)
  /\ arg' = [arg EXCEPT ![t] = r]
  /\ UNCHANGED <<heap, cell, tail, result, chain>>

RemoveEmpty(t) ==
  /\ queue = NULL
  /\ Goto(t, "r_read", "unlock")
  /\ Return(t, "noqueue")
  /\ UNCHANGED <<heap, mutex, arg, cell, tail, chain>>

RemoveRead(t) ==
  /\ queue # NULL
  /\ Goto(t, "r_read", "r_find")
  /\ cell' = [cell EXCEPT ![t] = queue]
  /\ UNCHANGED <<heap, mutex, arg, tail, result, chain>>

\* The loop reads req_struct before it compares the pointer with NULL.
RemoveFault(t) ==
  /\ cell[t] = NULL
  /\ Goto(t, "r_find", "fault")
  /\ UNCHANGED <<heap, mutex, arg, cell, tail, result, chain>>

RemoveStep(t) ==
  /\ cell[t] # NULL
  /\ req_struct[cell[t]] # arg[t]
  /\ Goto(t, "r_find", "r_find")
  /\ cell' = [cell EXCEPT ![t] = next[@]]
  /\ UNCHANGED <<heap, mutex, arg, tail, result, chain>>

RemoveUnlink(t) ==
  LET n == cell[t] IN
  /\ n # NULL
  /\ req_struct[n] = arg[t]
  /\ Goto(t, "r_find", "unlock")
  /\ Unlink(n)
  /\ Free(n)
  /\ \E i \in 1..Len(chain) : chain[i] = n /\ chain' = CutAt(chain, i)
  /\ Return(t, "ok")
  /\ UNCHANGED <<mutex, arg, cell, tail>>

-------------------------------------------------------------------------------
QueueStep(t) ==
  \/ \E r \in Requests : QueueMalloc(t, r)
  \/ QueueNoMem(t) \/ QueueLock(t) \/ QueueReadTail(t) \/ QueueLink(t)

DequeueStep(t) ==
  DequeueLock(t) \/ DequeueEmpty(t) \/ DequeueRead(t) \/ DequeueUnlink(t)

RemoveRequest(t) ==
  \/ \E r \in Requests : RemoveLock(t, r)
  \/ RemoveEmpty(t) \/ RemoveRead(t) \/ RemoveFault(t)
  \/ RemoveStep(t) \/ RemoveUnlink(t)

Next == \E t \in Threads :
          QueueStep(t) \/ DequeueStep(t) \/ RemoveRequest(t) \/ Unlock(t)

Spec == Init /\ [][Next]_vars

-------------------------------------------------------------------------------
\* The type of the queue's memory and of the locals of its callers; what a call
\* returns is a request somebody queued, never the content of a freed node.
TypeOK ==
  /\ queue \in Pointers
  /\ next \in [Nodes -> Pointers]
  /\ prev \in [Nodes -> Pointers]
  /\ req_struct \in [Nodes -> Requests \cup {NoRequest}]
  /\ alloc \in SUBSET Nodes
  /\ mutex \in Threads \cup {NoThread}
  /\ pc \in [Threads -> Places]
  /\ arg \in [Threads -> Requests \cup {NoRequest}]
  /\ cell \in [Threads -> Pointers]
  /\ tail \in [Threads -> Pointers]
  /\ result \in [Threads -> Requests \cup {"ok", "nomem", "noqueue"}]
  /\ chain \in Seq(Nodes)

\* The list is always a queue: next leads from the first node to the last,
\* prev back again, prev of the first node is the last one, no node occurs
\* twice and none has been freed (ikcq.c: "the queues tail is q->prev").
RingInv ==
  LET len == Len(chain) IN
  /\ \A i, j \in 1..len : chain[i] = chain[j] => i = j
  /\ \A i \in 1..len : chain[i] \in alloc
  /\ queue = IF len = 0 THEN NULL ELSE chain[1]
  /\ \A i \in 1..len :
       /\ next[chain[i]] = IF i = len THEN NULL ELSE chain[i + 1]
       /\ prev[chain[i]] = IF i = 1 THEN chain[len] ELSE chain[i - 1]

\* The nodes of the list, and those allocated and not linked yet.
Linked == {chain[i] : i \in 1..Len(chain)}
Linking == {t \in Threads : pc[t] \in {"q_lock", "q_read", "q_link"}}
InHand == {cell[t] : t \in Linking}

\* Every node malloc has handed out is either in the list or in the hands of
\* the one thread about to link it, never both: the queue neither leaks nodes
\* nor frees one that is still linked.
NoNodeLost ==
  /\ alloc = Linked \cup InHand
  /\ InHand \cap Linked = {}
  /\ \A t, u \in Linking : cell[t] = cell[u] => t = u

\* The queue of requests the list stands for.
Items == [i \in 1..Len(chain) |-> req_struct[chain[i]]]

Fifo == INSTANCE RequestQueue WITH items <- Items

\* The pointer operations, interleaved as the mutex allows, implement a
\* first-in first-out queue with instantaneous operations.
ImplementsFifo == Fifo!QSpec
===============================================================================
