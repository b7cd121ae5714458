------------------------------ MODULE IkcqProofs ------------------------------
(***************************************************************************)
(* The list of ikcq.c keeps its shape whatever the number of threads,      *)
(* requests and memory cells.                                              *)
(***************************************************************************)
EXTENDS Ikcq, TLAPS, SequenceTheorems

\* A thread inside a call owns the mutex.
MutexInv == \A t \in Threads : pc[t] \in Critical => mutex = t

\* What a thread has read from the list is still true when it acts on it.
LocalInv ==
  \A t \in Threads :
    /\ t \in Linking => arg[t] \in Requests
    /\ pc[t] = "q_link" => tail[t] = IF chain = <<>> THEN NULL ELSE chain[Len(chain)]
    /\ pc[t] = "d_unlink" => chain # <<>> /\ cell[t] = chain[1]
    /\ pc[t] = "r_find" => cell[t] \in Linked \cup {NULL}

LinkedInv == \A i \in 1..Len(chain) : req_struct[chain[i]] \in Requests

QInv == TypeOK /\ RingInv /\ NoNodeLost /\ MutexInv /\ LocalInv /\ LinkedInv

-------------------------------------------------------------------------------
\* The parts of the invariant that speak of the list alone survive a step that
\* leaves the list alone.
LEMMA ListUntouched ==
  ASSUME RingInv, LinkedInv, UNCHANGED <<heap, chain>>
  PROVE  RingInv' /\ LinkedInv' /\ Linked' = Linked
BY DEF RingInv, LinkedInv, Linked, heap

\* The nodes in the hands of the threads survive a step of t that is not one
\* of linking.
LEMMA HandsUntouched ==
  ASSUME TypeOK, NoNodeLost, NEW t \in Threads, t \notin Linking,
         UNCHANGED <<alloc, chain>>,
         NEW p \in Places \ {"q_lock", "q_read", "q_link"},
         pc' = [pc EXCEPT ![t] = p],
         \A u \in Threads : u # t => cell'[u] = cell[u]
  PROVE  Linking' = Linking /\ NoNodeLost'
<1>1. Linking' = Linking
  BY DEF TypeOK, Linking
<1>2. \A u \in Linking : cell'[u] = cell[u]
  BY DEF Linking
<1>3. InHand' = InHand
  BY <1>1, <1>2 DEF InHand
<1>4. Linked' = Linked
  BY DEF Linked
<1>5. QED
  BY <1>1, <1>2, <1>3, <1>4 DEF NoNodeLost

\* The initial state, in which the list is empty and no thread is in a call,
\* satisfies the invariant.
LEMMA InitInv == Init => QInv
<1> SUFFICES ASSUME Init PROVE QInv
  OBVIOUS
<1>1. TypeOK
  BY DEF Init, TypeOK, Places, Pointers
<1>2. RingInv /\ LinkedInv
  BY DEF Init, RingInv, LinkedInv
<1>3. Linking = {} /\ Linked = {}
  BY DEF Init, Linking, Linked
<1>4. NoNodeLost
  BY <1>3 DEF Init, NoNodeLost, InHand
<1>5. MutexInv /\ LocalInv
  BY <1>3 DEF Init, MutexInv, LocalInv, Critical
<1>6. QED
  BY <1>1, <1>2, <1>4, <1>5 DEF QInv

\* Taking the mutex, giving it back, and a call that does nothing else.
LEMMA EmptySteps ==
  ASSUME QInv, NEW t \in Threads,
         \/ DequeueLock(t)
         \/ \E r \in Requests : RemoveLock(t, r)
         \/ Unlock(t)
         \/ QueueNoMem(t)
  PROVE  QInv'
<1> USE DEF Goto, Lock, Return
<1>1. CASE DequeueLock(t)
  <2>1. TypeOK'
    BY <1>1 DEF QInv, TypeOK, RingInv, DequeueLock, Places, Pointers, heap
  <2>2. RingInv' /\ LinkedInv' /\ Linked' = Linked
    BY <1>1, ListUntouched DEF QInv, DequeueLock
  <2>3. Linking' = Linking /\ NoNodeLost'
    BY <1>1, HandsUntouched DEF QInv, DequeueLock, TypeOK, Places, heap, Linking
  <2>4. MutexInv'
    BY <1>1, QueueAssumption DEF QInv, TypeOK, MutexInv, DequeueLock, Critical, Places
  <2>5. LocalInv'
    BY <1>1, <2>2, <2>3 DEF QInv, TypeOK, LocalInv, DequeueLock
  <2>6. QED
    BY <2>1, <2>2, <2>3, <2>4, <2>5 DEF QInv
<1>2. ASSUME NEW r \in Requests, RemoveLock(t, r) PROVE QInv'
  <2>1. TypeOK'
    BY <1>2 DEF QInv, TypeOK, RingInv, RemoveLock, Places, Pointers, heap
  <2>2. RingInv' /\ LinkedInv' /\ Linked' = Linked
    BY <1>2, ListUntouched DEF QInv, RemoveLock
  <2>3. Linking' = Linking /\ NoNodeLost'
    BY <1>2, HandsUntouched DEF QInv, RemoveLock, TypeOK, Places, heap, Linking
  <2>4. MutexInv'
    BY <1>2, QueueAssumption DEF QInv, TypeOK, MutexInv, RemoveLock, Critical, Places
  <2>5. LocalInv'
    BY <1>2, <2>2, <2>3 DEF QInv, TypeOK, LocalInv, RemoveLock
  <2>6. QED
    BY <2>1, <2>2, <2>3, <2>4, <2>5 DEF QInv
<1>3. CASE Unlock(t)
  <2>1. TypeOK'
    BY <1>3 DEF QInv, TypeOK, RingInv, Unlock, Places, Pointers, heap
  <2>2. RingInv' /\ LinkedInv' /\ Linked' = Linked
    BY <1>3, ListUntouched DEF QInv, Unlock
  <2>3. Linking' = Linking /\ NoNodeLost'
    BY <1>3, HandsUntouched DEF QInv, Unlock, TypeOK, Places, heap, Linking
  <2>4. MutexInv'
    BY <1>3, QueueAssumption DEF QInv, TypeOK, MutexInv, Unlock, Critical, Places
  <2>5. LocalInv'
    BY <1>3, <2>2, <2>3 DEF QInv, TypeOK, LocalInv, Unlock, Linking
  <2>6. QED
    BY <2>1, <2>2, <2>3, <2>4, <2>5 DEF QInv
<1>4. CASE QueueNoMem(t)
  <2>1. TypeOK'
    BY <1>4 DEF QInv, TypeOK, RingInv, QueueNoMem, Places, Pointers, heap
  <2>2. RingInv' /\ LinkedInv' /\ Linked' = Linked
    BY <1>4, ListUntouched DEF QInv, QueueNoMem
  <2>3. Linking' = Linking /\ NoNodeLost'
    BY <1>4, HandsUntouched DEF QInv, QueueNoMem, TypeOK, Places, heap, Linking
  <2>4. MutexInv'
    BY <1>4, QueueAssumption DEF QInv, TypeOK, MutexInv, QueueNoMem, Critical, Places
  <2>5. LocalInv'
    BY <1>4, <2>2, <2>3 DEF QInv, TypeOK, LocalInv, QueueNoMem
  <2>6. QED
    BY <2>1, <2>2, <2>3, <2>4, <2>5 DEF QInv
<1>5. QED
  BY <1>1, <1>2, <1>3, <1>4

\* Reading the list under the mutex.
LEMMA ReadSteps ==
  ASSUME QInv, NEW t \in Threads,
         \/ DequeueEmpty(t)
         \/ DequeueRead(t)
         \/ RemoveEmpty(t)
         \/ RemoveRead(t)
         \/ RemoveFault(t)
         \/ RemoveStep(t)
  PROVE  QInv'
<1> USE DEF Goto, Lock, Return
<1>1. CASE DequeueEmpty(t)
  <2>1. TypeOK'
    BY <1>1 DEF QInv, TypeOK, RingInv, DequeueEmpty, Places, Pointers, heap
  <2>2. RingInv' /\ LinkedInv' /\ Linked' = Linked
    BY <1>1, ListUntouched DEF QInv, DequeueEmpty
  <2>3. Linking' = Linking /\ NoNodeLost'
    BY <1>1, HandsUntouched DEF QInv, DequeueEmpty, TypeOK, Places, heap, Linking
  <2>4. MutexInv'
    BY <1>1 DEF QInv, TypeOK, MutexInv, DequeueEmpty, Critical, Places
  <2>5. LocalInv'
    BY <1>1, <2>2, <2>3 DEF QInv, TypeOK, LocalInv, DequeueEmpty
  <2>6. QED
    BY <2>1, <2>2, <2>3, <2>4, <2>5 DEF QInv
<1>2. CASE DequeueRead(t)
  <2>1. TypeOK'
    BY <1>2 DEF QInv, TypeOK, RingInv, DequeueRead, Places, Pointers, heap
  <2>2. RingInv' /\ LinkedInv' /\ Linked' = Linked
    BY <1>2, ListUntouched DEF QInv, DequeueRead
  <2>3. Linking' = Linking /\ NoNodeLost'
    BY <1>2, HandsUntouched DEF QInv, DequeueRead, TypeOK, Places, heap, Linking
  <2>4. MutexInv'
    BY <1>2 DEF QInv, TypeOK, MutexInv, DequeueRead, Critical, Places
  <2>5. LocalInv'
    BY <1>2, <2>2, <2>3 DEF QInv, TypeOK, LocalInv, DequeueRead, RingInv
  <2>6. QED
    BY <2>1, <2>2, <2>3, <2>4, <2>5 DEF QInv
<1>3. CASE RemoveEmpty(t)
  <2>1. TypeOK'
    BY <1>3 DEF QInv, TypeOK, RingInv, RemoveEmpty, Places, Pointers, heap
  <2>2. RingInv' /\ LinkedInv' /\ Linked' = Linked
    BY <1>3, ListUntouched DEF QInv, RemoveEmpty
  <2>3. Linking' = Linking /\ NoNodeLost'
    BY <1>3, HandsUntouched DEF QInv, RemoveEmpty, TypeOK, Places, heap, Linking
  <2>4. MutexInv'
    BY <1>3 DEF QInv, TypeOK, MutexInv, RemoveEmpty, Critical, Places
  <2>5. LocalInv'
    BY <1>3, <2>2, <2>3 DEF QInv, TypeOK, LocalInv, RemoveEmpty
  <2>6. QED
    BY <2>1, <2>2, <2>3, <2>4, <2>5 DEF QInv
<1>4. CASE RemoveRead(t)
  <2>1. TypeOK'
    BY <1>4 DEF QInv, TypeOK, RingInv, RemoveRead, Places, Pointers, heap
  <2>2. RingInv' /\ LinkedInv' /\ Linked' = Linked
    BY <1>4, ListUntouched DEF QInv, RemoveRead
  <2>3. Linking' = Linking /\ NoNodeLost'
    BY <1>4, HandsUntouched DEF QInv, RemoveRead, TypeOK, Places, heap, Linking
  <2>4. MutexInv'
    BY <1>4 DEF QInv, TypeOK, MutexInv, RemoveRead, Critical, Places
  <2>5. LocalInv'
    BY <1>4, <2>2, <2>3 DEF QInv, TypeOK, LocalInv, RemoveRead, RingInv, Linked
  <2>6. QED
    BY <2>1, <2>2, <2>3, <2>4, <2>5 DEF QInv
<1>5. CASE RemoveFault(t)
  <2>1. TypeOK'
    BY <1>5 DEF QInv, TypeOK, RingInv, RemoveFault, Places, Pointers, heap
  <2>2. RingInv' /\ LinkedInv' /\ Linked' = Linked
    BY <1>5, ListUntouched DEF QInv, RemoveFault
  <2>3. Linking' = Linking /\ NoNodeLost'
    BY <1>5, HandsUntouched DEF QInv, RemoveFault, TypeOK, Places, heap, Linking
  <2>4. MutexInv'
    BY <1>5 DEF QInv, TypeOK, MutexInv, RemoveFault, Critical, Places
  <2>5. LocalInv'
    BY <1>5, <2>2, <2>3 DEF QInv, TypeOK, LocalInv, RemoveFault
  <2>6. QED
    BY <2>1, <2>2, <2>3, <2>4, <2>5 DEF QInv
<1>6. CASE RemoveStep(t)
  <2>1. TypeOK'
    BY <1>6 DEF QInv, TypeOK, RingInv, RemoveStep, Places, Pointers, heap
  <2>2. RingInv' /\ LinkedInv' /\ Linked' = Linked
    BY <1>6, ListUntouched DEF QInv, RemoveStep
  <2>3. Linking' = Linking /\ NoNodeLost'
    BY <1>6, HandsUntouched DEF QInv, RemoveStep, TypeOK, Places, heap, Linking
  <2>4. MutexInv'
    BY <1>6 DEF QInv, TypeOK, MutexInv, RemoveStep, Critical, Places
  <2>5. LocalInv'
    BY <1>6, <2>2, <2>3 DEF QInv, TypeOK, LocalInv, RemoveStep, RingInv, Linked
  <2>6. QED
    BY <2>1, <2>2, <2>3, <2>4, <2>5 DEF QInv
<1>7. QED
  BY <1>1, <1>2, <1>3, <1>4, <1>5, <1>6

-------------------------------------------------------------------------------
\* Malloc: the new node was in nobody's hands.
LEMMA MallocStep ==
  ASSUME QInv, NEW t \in Threads, NEW r \in Requests, QueueMalloc(t, r)
  PROVE  QInv'
<1>1. PICK n \in Nodes \ alloc :
        alloc' = alloc \cup {n} /\ cell' = [cell EXCEPT ![t] = n]
  BY DEF QueueMalloc
<1>2. /\ pc[t] = "idle" /\ pc' = [pc EXCEPT ![t] = "q_lock"]
      /\ arg' = [arg EXCEPT ![t] = r]
      /\ UNCHANGED <<queue, next, prev, req_struct, mutex, tail, result, chain>>
  BY DEF QueueMalloc, Goto
<1>3. TypeOK'
  BY <1>1, <1>2 DEF QInv, TypeOK, Places, Pointers
<1>4. RingInv' /\ LinkedInv' /\ Linked' = Linked
  BY <1>1, <1>2 DEF QInv, RingInv, LinkedInv, Linked
<1>5. t \notin Linking /\ Linking' = Linking \cup {t}
  BY <1>2 DEF QInv, TypeOK, Linking
<1>6. cell'[t] = n /\ \A u \in Linking : cell'[u] = cell[u]
  BY <1>1, <1>5 DEF QInv, TypeOK, Linking
<1>7. InHand' = InHand \cup {n}
  BY <1>5, <1>6 DEF InHand
<1>8. \A u \in Linking : cell[u] \in alloc
  BY DEF QInv, NoNodeLost, InHand
<1>9. NoNodeLost'
  <2>1. alloc' = Linked' \cup InHand'
    BY <1>1, <1>4, <1>7 DEF QInv, NoNodeLost
  <2>2. InHand' \cap Linked' = {}
    BY <1>1, <1>4, <1>7 DEF QInv, NoNodeLost
  <2>3. \A u, v \in Linking' : cell'[u] = cell'[v] => u = v
    BY <1>1, <1>5, <1>6, <1>8 DEF QInv, NoNodeLost
  <2>4. QED
    BY <2>1, <2>2, <2>3 DEF NoNodeLost
<1>10. MutexInv'
  BY <1>2 DEF QInv, TypeOK, MutexInv, Critical, Places
<1>11. LocalInv'
  BY <1>1, <1>2, <1>4, <1>5 DEF QInv, TypeOK, LocalInv
<1>12. QED
  BY <1>3, <1>4, <1>9, <1>10, <1>11 DEF QInv

\* ikcq_queue_request takes the mutex and reads the tail.
LEMMA TailSteps ==
  ASSUME QInv, NEW t \in Threads, QueueLock(t) \/ QueueReadTail(t)
  PROVE  QInv'
<1> USE DEF Goto, Lock
<1>1. Linking' = Linking /\ UNCHANGED <<heap, chain, cell, arg>>
  BY DEF QInv, TypeOK, QueueLock, QueueReadTail, Linking
<1>2. RingInv' /\ LinkedInv' /\ Linked' = Linked
  BY <1>1, ListUntouched DEF QInv
<1>3. InHand' = InHand
  BY <1>1 DEF InHand
<1>4. NoNodeLost'
  BY <1>1, <1>2, <1>3 DEF QInv, NoNodeLost, heap
<1>5. CASE QueueLock(t)
  <2>1. TypeOK'
    BY <1>5 DEF QInv, TypeOK, QueueLock, Places, heap
  <2>2. MutexInv'
    BY <1>5, QueueAssumption DEF QInv, TypeOK, MutexInv, QueueLock, Critical, Places
  <2>3. LocalInv'
    BY <1>1, <1>2, <1>5 DEF QInv, TypeOK, LocalInv, QueueLock
  <2>4. QED
    BY <1>2, <1>4, <2>1, <2>2, <2>3 DEF QInv
<1>6. CASE QueueReadTail(t)
  <2>1. TypeOK'
    BY <1>6 DEF QInv, TypeOK, QueueReadTail, Places, Pointers, heap
  <2>2. MutexInv'
    BY <1>6 DEF QInv, TypeOK, MutexInv, QueueReadTail, Critical, Places
  <2>3. tail'[t] = IF chain = <<>> THEN NULL ELSE chain[Len(chain)]
    <3>1. tail'[t] = IF queue = NULL THEN NULL ELSE prev[queue]
      BY <1>6 DEF QInv, TypeOK, QueueReadTail
    <3>2. CASE Len(chain) = 0
      BY <3>1, <3>2 DEF QInv, TypeOK, RingInv
    <3>3. CASE Len(chain) # 0
      <4>1. queue = chain[1] /\ chain[1] \in Nodes /\ prev[chain[1]] = chain[Len(chain)]
        BY <3>3 DEF QInv, TypeOK, RingInv
      <4>2. QED
        BY <3>1, <3>3, <4>1, QueueAssumption
    <3>4. QED
      BY <3>2, <3>3
  <2>4. LocalInv'
    BY <1>1, <1>2, <1>6, <2>3 DEF QInv, TypeOK, LocalInv, QueueReadTail
  <2>5. QED
    BY <1>2, <1>4, <2>1, <2>2, <2>4 DEF QInv
<1>7. QED
  BY <1>5, <1>6

\* While one thread is inside, no other has read anything it still relies on.
LEMMA OthersOutside ==
  ASSUME MutexInv, NEW t \in Threads, pc[t] \in Critical
  PROVE  \A u \in Threads : u # t => pc[u] \notin Critical
BY DEF MutexInv

-------------------------------------------------------------------------------
\* Linking a node at the end of the list.
LEMMA LinkStep ==
  ASSUME QInv, NEW t \in Threads, QueueLink(t)
  PROVE  QInv'
<1> DEFINE n == cell[t]
           len == Len(chain)
<1>1. /\ pc[t] = "q_link" /\ pc' = [pc EXCEPT ![t] = "unlock"]
      /\ IF tail[t] = NULL THEN LinkFirst(n) ELSE LinkLast(n, tail[t])
      /\ req_struct' = [req_struct EXCEPT ![n] = arg[t]]
      /\ chain' = Append(chain, n)
      /\ result' = [result EXCEPT ![t] = "ok"]
      /\ UNCHANGED <<alloc, mutex, arg, cell, tail>>
  BY DEF QueueLink, Goto, Return
<1>2. t \in Linking /\ n \in InHand
  BY <1>1 DEF Linking, InHand
<1>3. n \in Nodes /\ n \in alloc /\ n \notin Linked
  BY <1>2 DEF QInv, TypeOK, NoNodeLost
<1>4. chain \in Seq(Nodes) /\ len \in Nat /\ \A i \in 1..len : chain[i] \in Nodes
  BY DEF QInv, TypeOK
<1>5. /\ chain' \in Seq(Nodes)
      /\ Len(chain') = len + 1
      /\ chain'[len + 1] = n
      /\ \A i \in 1..len : chain'[i] = chain[i]
  BY <1>1, <1>3, <1>4
<1>6. tail[t] = IF len = 0 THEN NULL ELSE chain[len]
  BY <1>1, <1>4 DEF QInv, LocalInv
<1>7. \A i \in 1..len : chain[i] # n
  BY <1>3 DEF Linked
<1>8. /\ \A i, j \in 1..len : chain[i] = chain[j] => i = j
      /\ \A i \in 1..len : chain[i] \in alloc
      /\ queue = IF len = 0 THEN NULL ELSE chain[1]
      /\ \A i \in 1..len :
           /\ next[chain[i]] = IF i = len THEN NULL ELSE chain[i + 1]
           /\ prev[chain[i]] = IF i = 1 THEN chain[len] ELSE chain[i - 1]
  BY DEF QInv, RingInv
<1>9. next \in [Nodes -> Pointers] /\ prev \in [Nodes -> Pointers]
  BY DEF QInv, TypeOK
<1>10. /\ \A i, j \in 1..(len + 1) : chain'[i] = chain'[j] => i = j
       /\ \A i \in 1..(len + 1) : chain'[i] \in alloc'
  BY <1>1, <1>3, <1>4, <1>5, <1>7, <1>8
<1>11. ASSUME len = 0
       PROVE  RingInv' /\ queue' \in Pointers /\ next' \in [Nodes -> Pointers]
              /\ prev' \in [Nodes -> Pointers]
  <2>1. queue' = n /\ prev' = [prev EXCEPT ![n] = n] /\ next' = [next EXCEPT ![n] = NULL]
    BY <1>1, <1>6, <1>11 DEF LinkFirst
  <2>2. queue' \in Pointers /\ next' \in [Nodes -> Pointers] /\ prev' \in [Nodes -> Pointers]
    BY <1>3, <1>9, <2>1 DEF Pointers
  <2>3. /\ queue' = chain'[1]
        /\ next'[chain'[1]] = NULL /\ prev'[chain'[1]] = chain'[1]
    BY <1>3, <1>5, <1>9, <1>11, <2>1
  <2>4. RingInv'
    BY <1>5, <1>10, <1>11, <2>3 DEF RingInv
  <2>5. QED
    BY <2>2, <2>4
<1>12. ASSUME len # 0
       PROVE  RingInv' /\ queue' \in Pointers /\ next' \in [Nodes -> Pointers]
              /\ prev' \in [Nodes -> Pointers]
  <2>1. len \in 1..len /\ 1 \in 1..len
    BY <1>4, <1>12
  <2>2. tail[t] = chain[len] /\ tail[t] # NULL /\ queue = chain[1]
    BY <1>4, <1>6, <1>8, <1>12, <2>1, QueueAssumption
  <2>3. /\ prev' = [prev EXCEPT ![n] = chain[len], ![chain[1]] = n]
        /\ next' = [next EXCEPT ![n] = NULL, ![chain[len]] = n]
        /\ queue' = chain[1]
    BY <1>1, <1>8, <2>1, <2>2 DEF LinkLast
  <2>4. queue' \in Pointers /\ next' \in [Nodes -> Pointers] /\ prev' \in [Nodes -> Pointers]
    BY <1>3, <1>4, <1>9, <2>1, <2>3 DEF Pointers
  <2>5. queue' = chain'[1]
    BY <1>5, <2>1, <2>3
  <2>6. /\ next'[n] = NULL /\ next'[chain[len]] = n
        /\ \A i \in 1..len : i # len => next'[chain[i]] = next[chain[i]]
        /\ prev'[n] = chain[len] /\ prev'[chain[1]] = n
        /\ \A i \in 1..len : i # 1 => prev'[chain[i]] = prev[chain[i]]
    BY <1>3, <1>4, <1>7, <1>8, <1>9, <2>1, <2>3
  <2>7. ASSUME NEW i \in 1..(len + 1)
        PROVE  /\ next'[chain'[i]] = IF i = len + 1 THEN NULL ELSE chain'[i + 1]
               /\ prev'[chain'[i]] = IF i = 1 THEN chain'[len + 1] ELSE chain'[i - 1]
    <3>1. CASE i = len + 1
      BY <1>4, <1>5, <1>12, <2>1, <2>6, <3>1
    <3>2. CASE i # len + 1
      <4>1. i \in 1..len /\ chain'[i] = chain[i]
        BY <1>4, <1>5, <3>2
      <4>2. next'[chain[i]] = chain'[i + 1]
        <5>1. CASE i = len
          BY <1>5, <2>6, <5>1
        <5>2. CASE i # len
          <6>1. i + 1 \in 1..len
            BY <1>4, <4>1, <5>2
          <6>2. QED
            BY <1>5, <1>8, <2>6, <4>1, <5>2, <6>1
        <5>3. QED
          BY <5>1, <5>2
      <4>3. prev'[chain[i]] = IF i = 1 THEN chain'[len + 1] ELSE chain'[i - 1]
        <5>1. CASE i = 1
          BY <1>5, <2>6, <5>1
        <5>2. CASE i # 1
          <6>1. i - 1 \in 1..len
            BY <1>4, <4>1, <5>2
          <6>2. QED
            BY <1>5, <1>8, <2>6, <4>1, <5>2, <6>1
        <5>3. QED
          BY <5>1, <5>2
      <4>4. QED
        BY <3>2, <4>1, <4>2, <4>3
    <3>3. QED
      BY <3>1, <3>2
  <2>8. RingInv'
    BY <1>4, <1>5, <1>10, <2>5, <2>7 DEF RingInv
  <2>9. QED
    BY <2>4, <2>8
<1>13. RingInv' /\ queue' \in Pointers /\ next' \in [Nodes -> Pointers]
       /\ prev' \in [Nodes -> Pointers]
  BY <1>11, <1>12
<1>14. TypeOK'
  BY <1>1, <1>2, <1>3, <1>5, <1>13 DEF QInv, TypeOK, LocalInv, Places
<1>15. Linked' = Linked \cup {n}
  BY <1>4, <1>5 DEF Linked
<1>16. Linking' = Linking \ {t}
  BY <1>1 DEF QInv, TypeOK, Linking
<1>17. InHand' = InHand \ {n}
  BY <1>1, <1>2, <1>16 DEF QInv, NoNodeLost, InHand
<1>18. NoNodeLost'
  BY <1>1, <1>2, <1>15, <1>16, <1>17 DEF QInv, NoNodeLost
<1>19. MutexInv'
  BY <1>1 DEF QInv, TypeOK, MutexInv, Critical, Places
<1>20. LinkedInv'
  BY <1>1, <1>2, <1>3, <1>4, <1>5, <1>7 DEF QInv, TypeOK, LinkedInv, LocalInv
<1>21. LocalInv'
  <2>1. \A u \in Threads : u # t => pc'[u] = pc[u] /\ pc[u] \notin Critical
    BY <1>1, OthersOutside DEF QInv, TypeOK, Critical, Places
  <2>2. pc'[t] = "unlock"
    BY <1>1 DEF QInv, TypeOK
  <2>3. QED
    BY <1>1, <1>16, <2>1, <2>2 DEF QInv, LocalInv, Critical, Places
<1>22. QED
  BY <1>13, <1>14, <1>18, <1>19, <1>20, <1>21 DEF QInv

-------------------------------------------------------------------------------
\* CutAt closes the gap.
LEMMA CutAtIsSeq ==
  ASSUME NEW s \in Seq(Nodes), NEW k \in 1..Len(s)
  PROVE  /\ CutAt(s, k) \in Seq(Nodes)
         /\ Len(CutAt(s, k)) = Len(s) - 1
         /\ \A j \in 1..(Len(s) - 1) :
              CutAt(s, k)[j] = IF j < k THEN s[j] ELSE s[j + 1]
<1>1. Len(s) \in Nat /\ Len(s) - 1 \in Nat
  OBVIOUS
<1>2. \A j \in 1..(Len(s) - 1) : (IF j < k THEN s[j] ELSE s[j + 1]) \in Nodes
  BY <1>1
<1>3. CutAt(s, k) \in [1..(Len(s) - 1) -> Nodes]
  BY <1>2 DEF CutAt
<1>4. CutAt(s, k) \in Seq(Nodes)
  BY <1>1, <1>3
<1>5. Len(CutAt(s, k)) = Len(s) - 1
  BY <1>1, <1>3, <1>4
<1>6. QED
  BY <1>4, <1>5 DEF CutAt

\* The head of the list is cut off by Tail.
LEMMA TailIsCut ==
  ASSUME NEW s \in Seq(Nodes), s # <<>>
  PROVE  1 \in 1..Len(s) /\ Tail(s) = CutAt(s, 1)
<1>1. 1 \in 1..Len(s)
  OBVIOUS
<1>2. Tail(s) \in Seq(Nodes) /\ Len(Tail(s)) = Len(s) - 1
      /\ \A j \in 1..(Len(s) - 1) : Tail(s)[j] = s[j + 1]
  OBVIOUS
<1>3. /\ CutAt(s, 1) \in Seq(Nodes)
      /\ Len(CutAt(s, 1)) = Len(s) - 1
      /\ \A j \in 1..(Len(s) - 1) :
           CutAt(s, 1)[j] = IF j < 1 THEN s[j] ELSE s[j + 1]
  BY <1>1, CutAtIsSeq
<1>4. \A j \in 1..(Len(s) - 1) : Tail(s)[j] = CutAt(s, 1)[j]
  BY <1>2, <1>3
<1>5. QED
  BY <1>1, <1>2, <1>3, <1>4, SeqEqual

\* The four pointer updates take the k-th node out of the ring, wherever it is.
LEMMA UnlinkKeepsRing ==
  ASSUME QInv, NEW k \in 1..Len(chain),
         Unlink(chain[k]), chain' = CutAt(chain, k), alloc' = alloc \ {chain[k]}
  PROVE  /\ RingInv'
         /\ queue' \in Pointers
         /\ next' \in [Nodes -> Pointers]
         /\ prev' \in [Nodes -> Pointers]
         /\ chain' \in Seq(Nodes)
         /\ Linked' = Linked \ {chain[k]}
<1> DEFINE n == chain[k]
           len == Len(chain)
<1>1. chain \in Seq(Nodes) /\ len \in Nat /\ \A i \in 1..len : chain[i] \in Nodes
  BY DEF QInv, TypeOK
<1>2. /\ \A i, j \in 1..len : chain[i] = chain[j] => i = j
      /\ \A i \in 1..len : chain[i] \in alloc
      /\ queue = chain[1]
      /\ \A i \in 1..len :
           /\ next[chain[i]] = IF i = len THEN NULL ELSE chain[i + 1]
           /\ prev[chain[i]] = IF i = 1 THEN chain[len] ELSE chain[i - 1]
  BY <1>1 DEF QInv, RingInv
<1>3. next \in [Nodes -> Pointers] /\ prev \in [Nodes -> Pointers]
  BY DEF QInv, TypeOK
<1>4. /\ chain' \in Seq(Nodes)
      /\ Len(chain') = len - 1
      /\ \A j \in 1..(len - 1) : chain'[j] = IF j < k THEN chain[j] ELSE chain[j + 1]
  BY <1>1, CutAtIsSeq
<1>5. Linked' = Linked \ {n}
  <2>1. ASSUME NEW m \in Linked' PROVE m \in Linked /\ m # n
    BY <1>1, <1>2, <1>4, <2>1 DEF Linked
  <2>2. ASSUME NEW m \in Linked, m # n PROVE m \in Linked'
    <3>1. PICK i \in 1..len : m = chain[i]
      BY DEF Linked
    <3>2. i # k
      BY <2>2, <3>1
    <3>3. CASE i < k
      <4>1. i \in 1..(len - 1) /\ chain'[i] = chain[i]
        BY <1>1, <1>4, <3>3
      <4>2. QED
        BY <1>4, <3>1, <4>1 DEF Linked
    <3>4. CASE i > k
      <4>1. i - 1 \in 1..(len - 1) /\ chain'[i - 1] = chain[i]
        BY <1>1, <1>4, <3>4
      <4>2. QED
        BY <1>4, <3>1, <4>1 DEF Linked
    <3>5. QED
      BY <1>1, <3>2, <3>3, <3>4
  <2>3. QED
    BY <2>1, <2>2
<1>6. /\ \A i, j \in 1..(len - 1) : chain'[i] = chain'[j] => i = j
      /\ \A i \in 1..(len - 1) : chain'[i] \in alloc'
  <2>1. ASSUME NEW i \in 1..(len - 1)
        PROVE  \E a \in 1..len : /\ a # k /\ chain'[i] = chain[a]
                                 /\ a = IF i < k THEN i ELSE i + 1
    <3>1. CASE i < k
      BY <1>1, <1>4, <3>1
    <3>2. CASE ~(i < k)
      <4>1. i + 1 \in 1..len /\ i + 1 # k /\ chain'[i] = chain[i + 1]
        BY <1>1, <1>4, <3>2
      <4>2. QED
        BY <3>2, <4>1
    <3>3. QED
      BY <3>1, <3>2
  <2>2. ASSUME NEW i \in 1..(len - 1), NEW j \in 1..(len - 1), chain'[i] = chain'[j]
        PROVE  i = j
    <3>1. PICK a \in 1..len : chain'[i] = chain[a] /\ a = IF i < k THEN i ELSE i + 1
      BY <2>1
    <3>2. PICK b \in 1..len : chain'[j] = chain[b] /\ b = IF j < k THEN j ELSE j + 1
      BY <2>1
    <3>3. a = b
      <4>1. chain[a] = chain[b]
        BY <2>2, <3>1, <3>2
      <4>2. QED
        BY <1>2, <4>1
    <3>4. QED
      BY <1>1, <3>1, <3>2, <3>3
  <2>3. ASSUME NEW i \in 1..(len - 1) PROVE chain'[i] \in alloc'
    <3>1. PICK a \in 1..len : a # k /\ chain'[i] = chain[a]
      BY <2>1
    <3>2. chain[a] # n
      BY <1>2, <3>1
    <3>3. QED
      BY <1>2, <3>1, <3>2
  <2>4. QED
    BY <2>2, <2>3
<1>7. n \in Nodes
  BY <1>1
\* What the updates amount to.
<1>8. /\ queue' = IF k = 1 THEN next[n] ELSE queue
      /\ next' = [(IF k = 1 THEN next ELSE [next EXCEPT ![chain[k - 1]] = next[n]])
                    EXCEPT ![n] = NULL]
      /\ prev' = [(IF k # len THEN [prev EXCEPT ![chain[k + 1]] = prev[n]]
                              ELSE [prev EXCEPT ![chain[1]] = prev[n]])
                    EXCEPT ![n] = NULL]
  <2>1. n = queue <=> k = 1
    BY <1>1, <1>2
  <2>2. next[n] # NULL <=> k # len
    BY <1>1, <1>2, QueueAssumption
  <2>3. CASE k # len
    <3>1. k + 1 \in 1..len /\ next[n] = chain[k + 1] /\ k + 1 # 1 /\ k + 1 # k
      BY <1>1, <1>2, <2>3
    <3>2. chain[k + 1] # n /\ chain[k + 1] # queue
      BY <1>1, <1>2, <3>1
    <3> DEFINE p1 == [prev EXCEPT ![chain[k + 1]] = prev[n]]
    <3>3. p1[n] = prev[n] /\ p1[queue] = prev[queue]
      BY <1>1, <1>2, <1>3, <3>2
    <3>4. prev[queue] # n
      BY <1>1, <1>2, <2>3
    <3>5. k # 1 => prev[n] = chain[k - 1]
      BY <1>2
    <3>6. QED
      BY <2>1, <2>2, <2>3, <3>1, <3>3, <3>4, <3>5 DEF Unlink
  <2>4. CASE k = len
    <3>1. prev[queue] = n
      BY <1>1, <1>2, <2>4
    <3>2. k # 1 => prev[n] = chain[k - 1]
      BY <1>2
    <3>3. QED
      BY <1>2, <2>1, <2>2, <2>4, <3>1, <3>2 DEF Unlink
  <2>5. QED
    BY <2>3, <2>4
<1>9. k # 1 => k - 1 \in 1..len /\ prev[n] = chain[k - 1] /\ chain[k - 1] # n
  BY <1>1, <1>2
<1>10. k # len => k + 1 \in 1..len /\ next[n] = chain[k + 1] /\ chain[k + 1] # n
  BY <1>1, <1>2
<1>11. k = len => next[n] = NULL
  BY <1>2
<1>12. k = 1 => prev[n] = chain[len]
  BY <1>2
<1>13. /\ queue' \in Pointers
       /\ next' \in [Nodes -> Pointers]
       /\ prev' \in [Nodes -> Pointers]
  <2>1. next[n] \in Pointers /\ prev[n] \in Pointers /\ queue \in Pointers
    BY <1>3, <1>7 DEF QInv, TypeOK
  <2>2. NULL \in Pointers
    BY DEF Pointers
  <2>3. QED
    BY <1>3, <1>8, <2>1, <2>2
<1>14. queue' = IF len - 1 = 0 THEN NULL ELSE chain'[1]
  <2>1. CASE k = 1 /\ len = 1
    BY <1>8, <1>11, <2>1
  <2>2. CASE k = 1 /\ len # 1
    <3>1. 1 \in 1..(len - 1) /\ len - 1 # 0
      <4>1. 1 + 1 \in 1..len
        BY <1>10, <2>2
      <4>2. QED
        BY <1>1, <4>1
    <3>2. chain'[1] = chain[2]
      BY <1>4, <2>2, <3>1
    <3>3. next[n] = chain[2]
      BY <1>10, <2>2
    <3>4. QED
      BY <1>8, <2>2, <3>1, <3>2, <3>3
  <2>3. CASE k # 1
    <3>1. 1 \in 1..(len - 1) /\ 1 < k /\ len - 1 # 0
      BY <1>1, <2>3
    <3>2. chain'[1] = chain[1]
      BY <1>4, <3>1
    <3>3. QED
      BY <1>2, <1>8, <2>3, <3>1, <3>2
  <2>4. QED
    BY <2>1, <2>2, <2>3
<1>15. \A i \in 1..len : i # k =>
         /\ next'[chain[i]] = IF i = k - 1 THEN next[n] ELSE next[chain[i]]
         /\ prev'[chain[i]] = IF (k # len /\ i = k + 1) \/ (k = len /\ i = 1)
                              THEN prev[n] ELSE prev[chain[i]]
  <2> SUFFICES ASSUME NEW i \in 1..len, i # k
               PROVE  /\ next'[chain[i]] = IF i = k - 1 THEN next[n] ELSE next[chain[i]]
                      /\ prev'[chain[i]] =
                           IF (k # len /\ i = k + 1) \/ (k = len /\ i = 1)
                           THEN prev[n] ELSE prev[chain[i]]
    OBVIOUS
  <2>1. chain[i] \in Nodes /\ chain[i] # n
    BY <1>1, <1>2
  <2>2. next'[chain[i]] = IF i = k - 1 THEN next[n] ELSE next[chain[i]]
    <3>1. CASE k = 1
      <4>1. i # k - 1
        BY <1>1, <3>1
      <4>2. QED
        BY <1>3, <1>7, <1>8, <2>1, <3>1, <4>1
    <3>2. CASE k # 1
      <4>1. k - 1 \in 1..len
        BY <1>9, <3>2
      <4>2. chain[i] = chain[k - 1] <=> i = k - 1
        BY <1>2, <4>1
      <4>3. next' = [[next EXCEPT ![chain[k - 1]] = next[n]] EXCEPT ![n] = NULL]
        BY <1>8, <3>2
      <4>4. QED
        BY <1>3, <1>7, <2>1, <4>2, <4>3
    <3>3. QED
      BY <3>1, <3>2
  <2>3. prev'[chain[i]] = IF (k # len /\ i = k + 1) \/ (k = len /\ i = 1)
                          THEN prev[n] ELSE prev[chain[i]]
    <3>1. CASE k # len
      <4>1. chain[i] = chain[k + 1] <=> i = k + 1
        BY <1>2, <1>10, <3>1
      <4>2. prev' = [[prev EXCEPT ![chain[k + 1]] = prev[n]] EXCEPT ![n] = NULL]
        BY <1>8, <3>1
      <4>3. QED
        BY <1>3, <1>7, <2>1, <3>1, <4>1, <4>2
    <3>2. CASE k = len
      <4>1. chain[i] = chain[1] <=> i = 1
        BY <1>1, <1>2
      <4>2. prev' = [[prev EXCEPT ![chain[1]] = prev[n]] EXCEPT ![n] = NULL]
        BY <1>8, <3>2
      <4>3. QED
        BY <1>3, <1>7, <2>1, <3>2, <4>1, <4>2
    <3>3. QED
      BY <3>1, <3>2
  <2>4. QED
    BY <2>2, <2>3
<1>16. ASSUME NEW j \in 1..(len - 1)
       PROVE  /\ next'[chain'[j]] = IF j = len - 1 THEN NULL ELSE chain'[j + 1]
              /\ prev'[chain'[j]] = IF j = 1 THEN chain'[len - 1] ELSE chain'[j - 1]
  <2>1. CASE j < k
    <3>1. j \in 1..len /\ j # k /\ chain'[j] = chain[j]
      BY <1>1, <1>4, <2>1
    <3>2. next'[chain[j]] = IF j = len - 1 THEN NULL ELSE chain'[j + 1]
      <4>1. CASE j = k - 1
        <5>1. next'[chain[j]] = next[n]
          BY <1>15, <3>1, <4>1
        <5>2. CASE k = len
          BY <1>1, <1>11, <4>1, <5>1, <5>2
        <5>3. CASE k # len
          <6>1. j + 1 = k /\ j # len - 1 /\ k \in 1..(len - 1)
            BY <1>1, <4>1, <5>3
          <6>2. chain'[k] = chain[k + 1]
            BY <1>1, <1>4, <6>1
          <6>3. QED
            BY <1>10, <5>1, <5>3, <6>1, <6>2
        <5>4. QED
          BY <5>2, <5>3
      <4>2. CASE j # k - 1
        <5>1. next'[chain[j]] = chain[j + 1]
          BY <1>1, <1>2, <1>15, <2>1, <3>1, <4>2
        <5>2. j + 1 \in 1..(len - 1) /\ j + 1 < k
          BY <1>1, <2>1, <4>2
        <5>3. chain'[j + 1] = chain[j + 1]
          BY <1>4, <5>2
        <5>4. QED
          BY <1>1, <5>1, <5>2, <5>3
      <4>3. QED
        BY <4>1, <4>2
    <3>3. prev'[chain[j]] = IF j = 1 THEN chain'[len - 1] ELSE chain'[j - 1]
      <4>1. CASE j = 1
        BY <1>1, <1>2, <1>4, <1>9, <1>15, <2>1, <3>1, <4>1
      <4>2. CASE j # 1
        BY <1>1, <1>2, <1>4, <1>15, <2>1, <3>1, <4>2
      <4>3. QED
        BY <4>1, <4>2
    <3>4. QED
      BY <3>1, <3>2, <3>3
  <2>2. CASE j >= k
    <3>1. j + 1 \in 1..len /\ j + 1 # k /\ chain'[j] = chain[j + 1]
      BY <1>1, <1>4, <2>2
    <3> DEFINE i == j + 1
    <3>5. next'[chain[i]] = next[chain[i]]
      <4>1. i # k - 1
        BY <1>1, <2>2
      <4>2. QED
        BY <1>15, <3>1, <4>1
    <3>2. next'[chain[i]] = IF j = len - 1 THEN NULL ELSE chain'[i]
      <4>1. next[chain[i]] = IF i = len THEN NULL ELSE chain[i + 1]
        BY <1>2, <3>1
      <4>2. CASE j = len - 1
        BY <1>1, <3>5, <4>1, <4>2
      <4>3. CASE j # len - 1
        <5>1. i # len /\ i \in 1..(len - 1) /\ ~(i < k)
          BY <1>1, <2>2, <4>3
        <5>2. chain'[i] = chain[i + 1]
          BY <1>4, <5>1
        <5>3. QED
          BY <3>5, <4>1, <4>3, <5>1, <5>2
      <4>4. QED
        BY <4>2, <4>3
    <3>3. prev'[chain[j + 1]] = IF j = 1 THEN chain'[len - 1] ELSE chain'[j - 1]
      <4>1. CASE j = k
        <5>1. k # len /\ prev'[chain[j + 1]] = prev[n]
          <6>1. k # len /\ i = k + 1
            BY <1>1, <4>1
          <6>2. QED
            BY <1>15, <3>1, <6>1
        <5>2. CASE k = 1
          BY <1>1, <1>4, <1>12, <4>1, <5>1, <5>2
        <5>3. CASE k # 1
          BY <1>1, <1>4, <1>9, <4>1, <5>1, <5>3
        <5>4. QED
          BY <5>2, <5>3
      <4>2. CASE j # k
        <5>1. prev'[chain[j + 1]] = prev[chain[j + 1]]
          BY <1>1, <1>15, <2>2, <3>1, <4>2
        <5>2. prev[chain[j + 1]] = chain[j]
          <6>1. prev[chain[i]] = IF i = 1 THEN chain[len] ELSE chain[i - 1]
            BY <1>2, <3>1
          <6>2. i # 1 /\ i - 1 = j
            BY <1>1
          <6>3. QED
            BY <6>1, <6>2
        <5>3. j # 1 /\ chain'[j - 1] = chain[j]
          BY <1>1, <1>4, <2>2, <4>2
        <5>4. QED
          BY <5>1, <5>2, <5>3
      <4>3. QED
        BY <4>1, <4>2
    <3>4. QED
      BY <3>1, <3>2, <3>3
  <2>3. QED
    BY <1>1, <2>1, <2>2
<1>17. RingInv'
  BY <1>4, <1>6, <1>14, <1>16 DEF RingInv
<1>18. QED
  BY <1>4, <1>5, <1>13, <1>17

\* Unlinking and freeing the node a thread has found.
LEMMA UnlinkSteps ==
  ASSUME QInv, NEW t \in Threads, DequeueUnlink(t) \/ RemoveUnlink(t)
  PROVE  QInv'
<1> DEFINE n == cell[t]
<1>1. /\ pc[t] \in {"d_unlink", "r_find"} /\ pc' = [pc EXCEPT ![t] = "unlock"]
      /\ Unlink(n)
      /\ alloc' = alloc \ {n}
      /\ req_struct' = [req_struct EXCEPT ![n] = NoRequest]
      /\ UNCHANGED <<mutex, arg, cell, tail>>
  BY DEF DequeueUnlink, RemoveUnlink, Goto, Free
<1>2. chain \in Seq(Nodes) /\ Len(chain) \in Nat
      /\ \A i \in 1..Len(chain) : chain[i] \in Nodes
  BY DEF QInv, TypeOK
<1>3. PICK k \in 1..Len(chain) : n = chain[k] /\ chain' = CutAt(chain, k)
  <2>1. CASE DequeueUnlink(t)
    <3>1. chain # <<>> /\ n = chain[1] /\ chain' = Tail(chain)
      BY <2>1 DEF QInv, LocalInv, DequeueUnlink, Goto
    <3>2. QED
      BY <1>2, <3>1, TailIsCut
  <2>2. CASE RemoveUnlink(t)
    BY <2>2 DEF RemoveUnlink
  <2>3. QED
    BY <2>1, <2>2
<1>4. n \in Nodes /\ n \in Linked
  BY <1>2, <1>3 DEF Linked
<1>5. result' \in [Threads -> Requests \cup {"ok", "nomem", "noqueue"}]
  <2>1. req_struct[n] \in Requests
    BY <1>3 DEF QInv, LinkedInv
  <2>2. result' = [result EXCEPT ![t] = req_struct[n]]
        \/ result' = [result EXCEPT ![t] = "ok"]
    BY DEF DequeueUnlink, RemoveUnlink, Return
  <2>3. QED
    BY <2>1, <2>2 DEF QInv, TypeOK
<1>6. /\ RingInv'
      /\ queue' \in Pointers
      /\ next' \in [Nodes -> Pointers]
      /\ prev' \in [Nodes -> Pointers]
      /\ chain' \in Seq(Nodes)
      /\ Linked' = Linked \ {n}
  BY <1>1, <1>3, UnlinkKeepsRing
<1>7. TypeOK'
  BY <1>1, <1>5, <1>6 DEF QInv, TypeOK, Places
<1>8. Linking' = Linking
  BY <1>1 DEF QInv, TypeOK, Linking
<1>9. InHand' = InHand
  BY <1>1, <1>8 DEF InHand
<1>10. NoNodeLost'
  BY <1>1, <1>4, <1>6, <1>8, <1>9 DEF QInv, NoNodeLost
<1>11. MutexInv'
  BY <1>1 DEF QInv, TypeOK, MutexInv, Critical, Places
<1>12. LinkedInv'
  <2> SUFFICES ASSUME NEW j \in 1..Len(chain') PROVE req_struct'[chain'[j]] \in Requests
    BY DEF LinkedInv
  <2>1. chain'[j] \in Linked'
    BY DEF Linked
  <2>2. chain'[j] \in Linked /\ chain'[j] # n
    BY <1>6, <2>1
  <2>3. PICK i \in 1..Len(chain) : chain'[j] = chain[i]
    BY <2>2 DEF Linked
  <2>4. req_struct'[chain[i]] = req_struct[chain[i]]
    BY <1>1, <1>2, <2>2, <2>3 DEF QInv, TypeOK
  <2>5. QED
    BY <2>3, <2>4 DEF QInv, LinkedInv
<1>13. LocalInv'
  <2>1. \A u \in Threads : u # t => pc'[u] = pc[u] /\ pc[u] \notin Critical
    BY <1>1, OthersOutside DEF QInv, TypeOK, Critical, Places
  <2>2. pc'[t] = "unlock"
    BY <1>1 DEF QInv, TypeOK
  <2>3. QED
    BY <1>1, <1>8, <2>1, <2>2 DEF QInv, LocalInv, Critical, Places
<1>14. QED
  BY <1>6, <1>7, <1>10, <1>11, <1>12, <1>13 DEF QInv

-------------------------------------------------------------------------------
\* QInv is inductive.
LEMMA QInvariance == Spec => []QInv
<1>1. QInv /\ [Next]_vars => QInv'
  <2> SUFFICES ASSUME QInv, [Next]_vars PROVE QInv'
    OBVIOUS
  <2>1. CASE UNCHANGED vars
    <3>1. RingInv' /\ LinkedInv' /\ Linked' = Linked
      BY <2>1, ListUntouched DEF QInv, vars
    <3>2. Linking' = Linking /\ InHand' = InHand
      BY <2>1 DEF vars, Linking, InHand
    <3>3. TypeOK' /\ MutexInv'
      BY <2>1 DEF QInv, TypeOK, MutexInv, vars, heap
    <3>4. NoNodeLost'
      BY <2>1, <3>1, <3>2 DEF QInv, NoNodeLost, vars, heap
    <3>5. LocalInv'
      BY <2>1, <3>1, <3>2 DEF QInv, LocalInv, vars
    <3>6. QED
      BY <3>1, <3>3, <3>4, <3>5 DEF QInv
  <2>2. ASSUME NEW t \in Threads,
               QueueStep(t) \/ DequeueStep(t) \/ RemoveRequest(t) \/ Unlock(t)
        PROVE  QInv'
    <3>1. CASE QueueStep(t)
      BY <3>1, MallocStep, EmptySteps, TailSteps, LinkStep DEF QueueStep
    <3>2. CASE DequeueStep(t)
      BY <3>2, EmptySteps, ReadSteps, UnlinkSteps DEF DequeueStep
    <3>3. CASE RemoveRequest(t)
      BY <3>3, EmptySteps, ReadSteps, UnlinkSteps DEF RemoveRequest
    <3>4. CASE Unlock(t)
      BY <3>4, EmptySteps
    <3>5. QED
      BY <2>2, <3>1, <3>2, <3>3, <3>4
  <2>3. QED
    BY <2>1, <2>2 DEF Next
<1>2. QED
  BY <1>1, InitInv, PTL DEF Spec

\* Every pointer, request and return code of the queue has its type: no call
\* hands out the content of a node that was never filled or already freed.
THEOREM TypeCorrect == Spec => []TypeOK
<1>1. QInv => TypeOK
  BY DEF QInv
<1>2. QED
  BY <1>1, QInvariance, PTL

\* The list of ikcq.c is a well-formed queue in every reachable state.
THEOREM ListIsRing == Spec => []RingInv
<1>1. QInv => RingInv
  BY DEF QInv
<1>2. QED
  BY <1>1, QInvariance, PTL

\* No node is leaked, freed while linked or linked twice.
THEOREM NodesAccountedFor == Spec => []NoNodeLost
<1>1. QInv => NoNodeLost
  BY DEF QInv
<1>2. QED
  BY <1>1, QInvariance, PTL
-------------------------------------------------------------------------------
(* The linked list implements the queue its users rely on: every step of a  *)
(* call is a step of RequestQueue or changes nothing there.  The step at    *)
(* which a call takes effect is the one that links or unlinks its node.     *)

\* The mapped queue has one request per linked node.
LEMMA ItemsIsSeq ==
  ASSUME QInv
  PROVE  /\ Items \in Seq(Requests)
         /\ Len(Items) = Len(chain)
         /\ \A i \in 1..Len(chain) : Items[i] = req_struct[chain[i]]
<1>1. Len(chain) \in Nat
  BY DEF QInv, TypeOK
<1>2. Items \in [1..Len(chain) -> Requests]
  BY DEF QInv, LinkedInv, Items
<1>3. Items \in Seq(Requests)
  BY <1>1, <1>2
<1>4. Len(Items) = Len(chain)
  BY <1>1, <1>2, <1>3
<1>5. QED
  BY <1>3, <1>4 DEF Items

\* The same after a step.
LEMMA NextItemsIsSeq ==
  ASSUME QInv'
  PROVE  /\ Items' \in Seq(Requests)
         /\ Len(Items') = Len(chain')
         /\ \A i \in 1..Len(chain') : Items'[i] = req_struct'[chain'[i]]
<1>1. Len(chain') \in Nat
  BY DEF QInv, TypeOK
<1>2. Items' \in [1..Len(chain') -> Requests]
  BY DEF QInv, LinkedInv, Items
<1>3. Items' \in Seq(Requests)
  BY <1>1, <1>2
<1>4. Len(Items') = Len(chain')
  BY <1>1, <1>2, <1>3
<1>5. QED
  BY <1>3, <1>4 DEF Items

\* The mapped queue is empty exactly when head->queue is.
LEMMA EmptyItems ==
  ASSUME QInv
  PROVE  Items = <<>> <=> queue = NULL
<1>1. Len(Items) = Len(chain) /\ Items \in Seq(Requests)
  BY ItemsIsSeq
<1>2. Len(chain) \in Nat /\ (Len(chain) # 0 => chain[1] \in Nodes)
  BY DEF QInv, TypeOK
<1>3. queue = IF Len(chain) = 0 THEN NULL ELSE chain[1]
  BY DEF QInv, RingInv
<1>4. QED
  BY <1>1, <1>2, <1>3, QueueAssumption

\* Linking appends the request of the call.
LEMMA LinkAppends ==
  ASSUME QInv, QInv', NEW t \in Threads, QueueLink(t)
  PROVE  Fifo!Enqueue(t, arg[t]) /\ arg[t] \in Requests
<1> DEFINE n == cell[t]
           len == Len(chain)
<1>1. /\ pc[t] = "q_link"
      /\ req_struct' = [req_struct EXCEPT ![n] = arg[t]]
      /\ chain' = Append(chain, n)
      /\ result' = [result EXCEPT ![t] = "ok"]
  BY DEF QueueLink, Goto, Return
<1>2. t \in Linking /\ arg[t] \in Requests
  BY <1>1 DEF QInv, LocalInv, Linking
<1>3. n \in Nodes /\ n \notin Linked
  BY <1>2 DEF QInv, TypeOK, NoNodeLost, InHand
<1>4. chain \in Seq(Nodes) /\ len \in Nat /\ \A i \in 1..len : chain[i] \in Nodes
  BY DEF QInv, TypeOK
<1>5. /\ Len(chain') = len + 1
      /\ chain'[len + 1] = n
      /\ \A i \in 1..len : chain'[i] = chain[i]
  BY <1>1, <1>3, <1>4
<1>6. \A i \in 1..len : chain[i] # n
  BY <1>3 DEF Linked
<1>7. /\ Items \in Seq(Requests) /\ Len(Items) = len
      /\ \A i \in 1..len : Items[i] = req_struct[chain[i]]
  BY ItemsIsSeq
<1>8. /\ Items' \in Seq(Requests) /\ Len(Items') = len + 1
      /\ \A i \in 1..(len + 1) : Items'[i] = req_struct'[chain'[i]]
  BY <1>5, NextItemsIsSeq
<1>9. Append(Items, arg[t]) \in Seq(Requests) /\ Len(Append(Items, arg[t])) = len + 1
      /\ Append(Items, arg[t])[len + 1] = arg[t]
      /\ \A i \in 1..len : Append(Items, arg[t])[i] = Items[i]
  BY <1>2, <1>4, <1>7
<1>10. ASSUME NEW i \in 1..(len + 1) PROVE Items'[i] = Append(Items, arg[t])[i]
  <2>1. req_struct \in [Nodes -> Requests \cup {NoRequest}]
    BY DEF QInv, TypeOK
  <2>2. CASE i = len + 1
    BY <1>1, <1>3, <1>5, <1>8, <1>9, <2>1, <2>2
  <2>3. CASE i # len + 1
    <3>1. i \in 1..len
      BY <1>4, <2>3
    <3>2. req_struct'[chain[i]] = req_struct[chain[i]]
      BY <1>1, <1>4, <1>6, <2>1, <3>1
    <3>3. QED
      BY <1>5, <1>7, <1>8, <1>9, <3>1, <3>2
  <2>4. QED
    BY <2>2, <2>3
<1>11. Items' = Append(Items, arg[t])
  BY <1>4, <1>8, <1>9, <1>10, SeqEqual
<1>12. QED
  BY <1>1, <1>2, <1>11 DEF Fifo!Enqueue, Fifo!Returns

\* Unlinking the k-th node takes out the k-th request.
LEMMA UnlinkCuts ==
  ASSUME QInv, QInv', NEW k \in 1..Len(chain), chain' = CutAt(chain, k),
         req_struct' = [req_struct EXCEPT ![chain[k]] = NoRequest]
  PROVE  /\ Len(Items') = Len(Items) - 1
         /\ Items' = [j \in 1..(Len(Items) - 1) |->
                        IF j < k THEN Items[j] ELSE Items[j + 1]]
<1> DEFINE len == Len(chain)
           Cut == [j \in 1..(len - 1) |-> IF j < k THEN Items[j] ELSE Items[j + 1]]
<1>1. chain \in Seq(Nodes) /\ len \in Nat /\ \A i \in 1..len : chain[i] \in Nodes
  BY DEF QInv, TypeOK
<1>2. /\ Len(chain') = len - 1
      /\ \A j \in 1..(len - 1) : chain'[j] = IF j < k THEN chain[j] ELSE chain[j + 1]
  BY <1>1, CutAtIsSeq
<1>3. /\ Items \in Seq(Requests) /\ Len(Items) = len
      /\ \A i \in 1..len : Items[i] = req_struct[chain[i]]
  BY ItemsIsSeq
<1>4. /\ Items' \in Seq(Requests) /\ Len(Items') = len - 1
      /\ \A i \in 1..(len - 1) : Items'[i] = req_struct'[chain'[i]]
  BY <1>2, NextItemsIsSeq
<1>5. \A i \in 1..len : i # k => req_struct'[chain[i]] = req_struct[chain[i]]
  <2> SUFFICES ASSUME NEW i \in 1..len, i # k
               PROVE  req_struct'[chain[i]] = req_struct[chain[i]]
    OBVIOUS
  <2>1. chain[i] # chain[k]
    BY DEF QInv, RingInv
  <2>2. QED
    BY <1>1, <2>1 DEF QInv, TypeOK
<1>6. ASSUME NEW j \in 1..(len - 1)
      PROVE  Items'[j] = IF j < k THEN Items[j] ELSE Items[j + 1]
  <2>1. CASE j < k
    <3>1. j \in 1..len /\ j # k
      BY <1>1, <2>1
    <3>2. chain'[j] = chain[j]
      BY <1>2, <2>1
    <3>3. QED
      BY <1>3, <1>4, <1>5, <2>1, <3>1, <3>2
  <2>2. CASE ~(j < k)
    <3>1. j + 1 \in 1..len /\ j + 1 # k
      BY <1>1, <2>2
    <3>2. chain'[j] = chain[j + 1]
      BY <1>2, <2>2
    <3>3. QED
      BY <1>3, <1>4, <1>5, <2>2, <3>1, <3>2
  <2>3. QED
    BY <2>1, <2>2
<1>7. DOMAIN Items' = 1..(len - 1)
  BY <1>4
<1>8. Items' = Cut
  <2>1. Items' = [j \in 1..(len - 1) |-> Items'[j]]
    BY <1>2 DEF Items
  <2>2. QED
    BY <1>6, <2>1
<1>9. QED
  BY <1>3, <1>4, <1>8

\* ikcq_dequeue_request takes effect when it unlinks the first node.
LEMMA DequeueTakesFirst ==
  ASSUME QInv, QInv', NEW t \in Threads, DequeueUnlink(t)
  PROVE  Fifo!Dequeue(t)
<1>1. /\ chain # <<>> /\ cell[t] = chain[1] /\ chain' = Tail(chain)
      /\ req_struct' = [req_struct EXCEPT ![cell[t]] = NoRequest]
      /\ result' = [result EXCEPT ![t] = req_struct[cell[t]]]
  BY DEF QInv, LocalInv, DequeueUnlink, Goto, Return, Free
<1>2. chain \in Seq(Nodes)
  BY DEF QInv, TypeOK
<1>3. 1 \in 1..Len(chain) /\ chain' = CutAt(chain, 1)
  BY <1>1, <1>2, TailIsCut
<1>4. /\ Items \in Seq(Requests) /\ Len(Items) = Len(chain)
      /\ Items[1] = req_struct[chain[1]]
  BY <1>3, ItemsIsSeq
<1>5. Items # <<>> /\ Head(Items) = Items[1]
  BY <1>2, <1>3, <1>4
<1>6. /\ Len(Items') = Len(Items) - 1
      /\ Items' = [j \in 1..(Len(Items) - 1) |-> IF j < 1 THEN Items[j] ELSE Items[j + 1]]
  BY <1>1, <1>3, UnlinkCuts
<1>7. Items' = Tail(Items)
  <2>1. Items' \in Seq(Requests)
    BY NextItemsIsSeq
  <2>2. /\ Tail(Items) \in Seq(Requests) /\ Len(Tail(Items)) = Len(Items) - 1
        /\ \A j \in 1..(Len(Items) - 1) : Tail(Items)[j] = Items[j + 1]
    BY <1>4, <1>5
  <2>3. \A j \in 1..(Len(Items) - 1) : Items'[j] = Items[j + 1]
    BY <1>6
  <2>4. QED
    BY <1>6, <2>1, <2>2, <2>3, SeqEqual
<1>8. QED
  BY <1>1, <1>4, <1>5, <1>7 DEF Fifo!Dequeue, Fifo!Returns

\* ikcq_remove_request takes effect when it unlinks the node it has found.
LEMMA RemoveTakesOne ==
  ASSUME QInv, QInv', NEW t \in Threads, RemoveUnlink(t)
  PROVE  \E i \in 1..Len(Items) : Fifo!Remove(t, i)
<1>1. PICK k \in 1..Len(chain) : cell[t] = chain[k] /\ chain' = CutAt(chain, k)
  BY DEF RemoveUnlink
<1>2. /\ req_struct' = [req_struct EXCEPT ![chain[k]] = NoRequest]
      /\ result' = [result EXCEPT ![t] = "ok"]
  BY <1>1 DEF RemoveUnlink, Return, Free
<1>3. k \in 1..Len(Items)
  BY ItemsIsSeq
<1>4. Items' = [j \in 1..(Len(Items) - 1) |-> IF j < k THEN Items[j] ELSE Items[j + 1]]
  BY <1>1, <1>2, UnlinkCuts
<1>5. QED
  BY <1>2, <1>3, <1>4 DEF Fifo!Remove, Fifo!Returns

\* The list of ikcq.c, shared by any number of threads, is a first-in first-out
\* queue with operations that take effect at one instant.
THEOREM QueueImplementsFifo == Spec => ImplementsFifo
<1>1. Init => Fifo!QInit
  BY DEF Init, Fifo!QInit, Items
<1>2. QInv /\ QInv' /\ [Next]_vars => [Fifo!QNext]_(Fifo!queueVars)
  <2> SUFFICES ASSUME QInv, QInv', [Next]_vars
               PROVE  Fifo!QNext \/ UNCHANGED <<Items, result>>
    BY DEF Fifo!queueVars
  <2>1. CASE UNCHANGED vars
    BY <2>1 DEF vars, heap, Items
  <2>2. ASSUME NEW t \in Threads,
               QueueStep(t) \/ DequeueStep(t) \/ RemoveRequest(t) \/ Unlock(t)
        PROVE  Fifo!QNext \/ UNCHANGED <<Items, result>>
    <3>1. CASE QueueLink(t)
      BY <3>1, LinkAppends DEF Fifo!QNext
    <3>2. CASE DequeueUnlink(t)
      BY <3>2, DequeueTakesFirst DEF Fifo!QNext
    <3>3. CASE RemoveUnlink(t)
      BY <3>3, RemoveTakesOne DEF Fifo!QNext
    <3>4. CASE QueueNoMem(t)
      <4>1. Fifo!Refuse(t)
        BY <3>4 DEF QueueNoMem, Return, Fifo!Refuse, Fifo!Returns, heap, Items
      <4>2. QED
        BY <4>1 DEF Fifo!QNext
    <3>5. CASE DequeueEmpty(t) \/ RemoveEmpty(t)
      <4>1. Items = <<>>
        BY <3>5, EmptyItems DEF DequeueEmpty, RemoveEmpty
      <4>2. UNCHANGED Items /\ Fifo!Returns(t, "noqueue")
        BY <3>5 DEF DequeueEmpty, RemoveEmpty, Return, Fifo!Returns, heap, Items
      <4>3. QED
        BY <4>1, <4>2 DEF Fifo!QNext, Fifo!ReportEmpty
    <3>6. CASE \/ \E r \in Requests : QueueMalloc(t, r) \/ RemoveLock(t, r)
               \/ QueueLock(t) \/ QueueReadTail(t) \/ DequeueLock(t)
               \/ DequeueRead(t) \/ RemoveRead(t) \/ RemoveFault(t)
               \/ RemoveStep(t) \/ Unlock(t)
      BY <3>6 DEF QueueMalloc, RemoveLock, QueueLock, QueueReadTail, DequeueLock,
                  DequeueRead, RemoveRead, RemoveFault, RemoveStep, Unlock, heap, Items
    <3>7. QED
      BY <2>2, <3>1, <3>2, <3>3, <3>4, <3>5, <3>6
      DEF QueueStep, DequeueStep, RemoveRequest
  <2>3. QED
    BY <2>1, <2>2 DEF Next
<1>3. QED
  BY <1>1, <1>2, QInvariance, PTL DEF Spec, ImplementsFifo, Fifo!QSpec
===============================================================================
