------------------------------ MODULE IkcdProofs ------------------------------
(***************************************************************************)
(* Remote process creation for any number of hosts, calls, workers and     *)
(* attempts.  Each half of the daemon is taken in any surroundings first   *)
(* (OutSpec, InSpec); two daemons together are such surroundings for each  *)
(* other, so that what holds of the halves holds of the whole (Spec).      *)
(***************************************************************************)
EXTENDS Ikcd, TLAPS, SequenceTheorems, WellFoundedInduction

-------------------------------------------------------------------------------
(* The outgoing half: its invariant *)

Busy == {"send", "select", "recv", "respond"}

\* Who has a request is where it deals with one.
PlaceInv ==
  /\ held # NoCall <=> collector = "queue"
  /\ \A w \in OutWorkers :
       /\ current[w] # NoCall <=> opc[w] \in Busy
       /\ opc[w] \in {"send", "select", "recv"} => attempts[w] < MaxAttempts

\* A call is dequeued once, by one worker, and the last one dequeued is the
\* worker's current one.
CarriedInv ==
  /\ \A w \in OutWorkers : opc[w] \in Busy =>
       Len(carried[w]) > 0 /\ carried[w][Len(carried[w])] = current[w]
  /\ \A w \in OutWorkers : \A i \in 1..Len(carried[w]) :
       carried[w][i] \in Taken \/ kernel[carried[w][i]] = "done"

HasCarried(w, c) == \E i \in 1..Len(carried[w]) : carried[w][i] = c

\* The datagram of a worker's current call.
Datagram(w) == Packet(w, [arg0 |-> "r_node", arg1 |-> ""])

\* Datagrams are of carried calls; those of a current call are all alike.
SentInv ==
  /\ \A p \in sent : p.host = Home /\ HasCarried(p.thread, p.call)
  /\ \A w \in OutWorkers : opc[w] \in Busy =>
       /\ rq_argv[w].arg0 = "r_node"
       /\ \A p \in sent : p.call = current[w] => p = Datagram(w)

\* A worker has a process id from a response to a datagram of its own.
ResponseInv ==
  /\ reqNet \subseteq sent
  /\ \A m \in respNet : \E p \in sent : m.thread = p.thread /\ m.seq = p.seq
                                          /\ m.host = p.host /\ m.r_pid = p.call
  /\ \A w \in OutWorkers : r_pid[w] \in Calls => HasCarried(w, r_pid[w])

\* Up to the first wrap a worker's counter counts its calls.
NumberInv ==
  \A w \in OutWorkers : Len(carried[w]) <= SeqMod =>
    /\ seq_nbr[w] = IF carried[w] = <<>> THEN MinusOne ELSE Len(carried[w]) - 1
    /\ \A p \in sent : p.thread = w =>
         p.seq + 1 \in 1..Len(carried[w]) /\ carried[w][p.seq + 1] = p.call

\* What holds whatever comes back from the network, and what needs servers
\* that answer a request with the process created for it.
OutBase ==
  /\ OutTypeOK /\ PlaceInv /\ OneOwner /\ CarriedInv
  /\ SentInv /\ RetriesAlike /\ NumberInv

OutInv == OutBase /\ ResponseInv /\ AnswerProvenance

-------------------------------------------------------------------------------
(* The incoming half: its invariant *)

\* A worker with a request has one; what is answered or listed was executed.
ExecutedInv ==
  /\ \A i \in InWorkers :
       ipc[i] \in {"lookup", "forget", "proceed", "respond", "add"} =>
         request[i] \in RequestPackets
  /\ list = "ok" =>
       /\ \A i \in InWorkers : ipc[i] \in {"respond", "add"} => request[i] \in executed
       /\ \A k \in 1..Len(backlog) : backlog[k] \in executed

InInv == InTypeOK /\ ExecutedInv /\ ResponseIsAnExecution /\ NothingForgotten

-------------------------------------------------------------------------------
(* Both together *)

\* Whatever the server handles was sent.
HandledInv ==
  /\ \A k \in 1..Len(pendingIn) : pendingIn[k] \in sent
  /\ \A i \in InWorkers : request[i] \in sent \cup {NoPacket}
  /\ executed \subseteq sent

\* A process id a worker has was created for a request of this worker.
CreatedInv ==
  \A w \in OutWorkers : r_pid[w] \in Calls =>
    \E p \in executed : p.thread = w /\ p.call = r_pid[w]

\* Once the list dangles, what responses say is no longer to be relied on.
Inv ==
  /\ InInv /\ OutBase
  /\ list = "ok" => OutInv /\ HandledInv /\ CreatedInv /\ AnswerWasExecuted

-------------------------------------------------------------------------------
(* The outgoing half: its steps *)

LEMMA ModSmall ==
  ASSUME NEW n \in Nat, NEW k \in Nat, n < k
  PROVE  n % k = n
OBVIOUS

\* The counter steps by one but where it starts again.
LEMMA NextSeqCounts ==
  ASSUME NEW s \in UShort
  PROVE  NextSeq(s) = IF s = SeqMod \/ s = MinusOne THEN 0 ELSE s + 1
<1>1. CASE s = SeqMod
  BY <1>1 DEF NextSeq
<1>2. CASE s # SeqMod /\ s = MinusOne
  BY <1>2 DEF NextSeq, MinusOne
<1>3. CASE s # SeqMod /\ s # MinusOne
  <2>1. s \in Nat /\ s <= 65535
    BY DEF UShort
  <2>2. PICK n \in Nat : n = s + 1 /\ n < 65536
    BY <1>3, <2>1 DEF MinusOne
  <2>3. n % 65536 = n
    BY <2>2
  <2>4. (s + 1) % 65536 = s + 1
    BY <2>2, <2>3
  <2>5. QED
    BY <1>3, <2>4 DEF NextSeq
<1>4. QED
  BY <1>1, <1>2, <1>3

LEMMA BelowWrap ==
  ASSUME NEW n \in Nat, n < SeqMod
  PROVE  n - 1 # SeqMod /\ n - 1 # MinusOne
<1>1. SeqMod \in Nat /\ SeqMod <= 65536
  BY UdpAssumption
<1>2. n - 1 < SeqMod
  BY <1>1
<1>3. n - 1 < MinusOne
  BY <1>1 DEF MinusOne
<1>4. MinusOne \in Nat
  BY DEF MinusOne
<1>5. QED
  BY <1>1, <1>2, <1>3, <1>4

\* Numbers stay numbers.
LEMMA NextSeqType ==
  ASSUME NEW s \in UShort
  PROVE  NextSeq(s) \in UShort /\ s % SeqMod \in 0..(SeqMod - 1)
<1>1. s \in Nat /\ s <= 65535
  BY DEF UShort
<1>2. NextSeq(s) \in Nat /\ 0 <= NextSeq(s) /\ NextSeq(s) <= 65535
  BY <1>1, NextSeqCounts DEF MinusOne
<1>3. NextSeq(s) \in UShort
  BY <1>2 DEF UShort
<1>4. SeqMod \in Nat /\ SeqMod > 0
  BY UdpAssumption
<1>5. s % SeqMod \in 0..(SeqMod - 1)
  BY <1>1, <1>4
<1>6. QED
  BY <1>3, <1>5

LEMMA PacketType ==
  ASSUME OutTypeOK, NEW w \in OutWorkers, current[w] \in Calls,
         NEW a0 \in Strings, NEW a1 \in Strings
  PROVE  Packet(w, [arg0 |-> a0, arg1 |-> a1]) \in RequestPackets
<1>1. seq_nbr[w] % SeqMod \in 0..(SeqMod - 1)
  BY NextSeqType DEF OutTypeOK
<1>2. QED
  BY <1>1, OutAssumption DEF Packet, RequestPackets

\* pthread_cond_signal moves one waiting worker or none.
LEMMA SignalWakesOne ==
  ASSUME OutTypeOK, opc' \in Signal(opc)
  PROVE  \/ opc' = opc
         \/ \E w \in OutWorkers : opc[w] = "waiting" /\ opc' = [opc EXCEPT ![w] = "dequeue"]
<1>1. DOMAIN opc = OutWorkers
  BY DEF OutTypeOK
<1>2. QED
  BY <1>1 DEF Signal

\* The collector and the kernel.
LEMMA CollectorTyped ==
  ASSUME OutTypeOK, PlaceInv,
         \/ \E c \in Calls : DoReq(c)
         \/ CollectorNext
  PROVE  OutTypeOK' /\ PlaceInv'
<1> USE OutAssumption DEF netVars, argVars
<1>1. ASSUME NEW c \in Calls, DoReq(c) PROVE OutTypeOK' /\ PlaceInv'
  BY <1>1 DEF DoReq, OutTypeOK, PlaceInv, KernelStates
<1>2. ASSUME NEW c \in Calls, CollectorGet(c) PROVE OutTypeOK' /\ PlaceInv'
  BY <1>2 DEF CollectorGet, OutTypeOK, PlaceInv, KernelStates
<1>3. CASE CollectorQueue
  <2>1. held \in Calls /\ Append(pendingOut, held) \in Seq(Calls)
    BY <1>3 DEF CollectorQueue, OutTypeOK, PlaceInv
  <2>2. QED
    BY <1>3, <2>1 DEF CollectorQueue, OutTypeOK, PlaceInv
<1>4. CASE CollectorNoMem
  BY <1>4 DEF CollectorNoMem, OutTypeOK, PlaceInv
<1>5. CASE CollectorSignal
  <2>1. \/ opc' = opc
        \/ \E w \in OutWorkers : opc[w] = "waiting" /\ opc' = [opc EXCEPT ![w] = "dequeue"]
    BY <1>5, SignalWakesOne DEF CollectorSignal
  <2>2. QED
    BY <1>5, <2>1 DEF CollectorSignal, OutTypeOK, PlaceInv, OutPlaces, Busy
<1>6. QED
  BY <1>1, <1>2, <1>3, <1>4, <1>5 DEF CollectorNext

LEMMA WorkerTyped ==
  ASSUME OutTypeOK, PlaceInv, SentInv, NEW w \in OutWorkers, WorkerNext(w)
  PROVE  OutTypeOK' /\ PlaceInv'
<1> USE OutAssumption DEF netVars, argVars, Busy
<1>1. CASE OutWait(w) \/ OutQueueEmpty(w)
  BY <1>1 DEF OutWait, OutQueueEmpty, OutTypeOK, PlaceInv, OutPlaces
<1>2. CASE OutDequeue(w)
  <2>1. /\ Head(pendingOut) \in Calls
        /\ Tail(pendingOut) \in Seq(Calls)
        /\ Append(carried[w], Head(pendingOut)) \in Seq(Calls)
    BY <1>2 DEF OutDequeue, OutTypeOK
  <2>2. NextSeq(seq_nbr[w]) \in UShort
    BY NextSeqType DEF OutTypeOK
  <2>3. GotArgs \in [arg0: Strings \cup {"r_pid"}, arg1: Strings]
    BY DEF GotArgs, Strings
  <2>4. OutTypeOK'
    BY <1>2, <2>1, <2>2, <2>3 DEF OutDequeue, OutTypeOK, OutPlaces
  <2>5. PlaceInv'
    BY <1>2, <2>1 DEF OutDequeue, OutTypeOK, PlaceInv
  <2>6. QED
    BY <2>4, <2>5
<1>3. CASE OutTimeout(w) \/ OutInterrupted(w)
  <2>1. CASE OutTimeout(w)
    BY <2>1 DEF OutTimeout, OutTypeOK, PlaceInv, OutPlaces
  <2>2. CASE OutInterrupted(w) /\ opc[w] = "select"
    BY <2>2 DEF OutInterrupted, OutTypeOK, PlaceInv, OutPlaces
  <2>3. CASE OutInterrupted(w) /\ opc[w] = "recv"
    <3>1. /\ attempts' = [attempts EXCEPT ![w] = @ + 1]
          /\ opc' = [opc EXCEPT ![w] = IF attempts'[w] < MaxAttempts THEN "send" ELSE "respond"]
          /\ UNCHANGED <<reqNet, respNet, kernel, answer, collector, held, pendingOut, current,
                         seq_nbr, r_pid, dropped, carried, rq_argv, sent>>
      BY <2>3 DEF OutInterrupted
    <3>2. attempts[w] < MaxAttempts /\ current[w] # NoCall
      BY <2>3 DEF PlaceInv
    <3>3. QED
      BY <2>3, <3>1, <3>2 DEF OutTypeOK, PlaceInv, OutPlaces
  <2>4. QED
    BY <1>3, <2>1, <2>2, <2>3 DEF OutInterrupted
<1>4. CASE OutSend(w)
  <2>1. current[w] \in Calls /\ rq_argv[w].arg0 \in Strings
    BY <1>4 DEF OutSend, OutTypeOK, PlaceInv, SentInv
  <2>2. rq_argv' \in [OutWorkers -> [arg0: Strings \cup {"r_pid"}, arg1: Strings]]
    BY <1>4 DEF OutSend, OutTypeOK, Strings
  <2>3. rq_argv'[w] = [arg0 |-> rq_argv[w].arg0, arg1 |-> ""]
    BY <1>4 DEF OutSend, OutTypeOK
  <2>4. Packet(w, rq_argv'[w]) \in RequestPackets
    BY <2>1, <2>3, PacketType DEF Strings
  <2>5. OutTypeOK'
    BY <1>4, <2>2, <2>4 DEF OutSend, OutTypeOK, OutPlaces, Send
  <2>6. PlaceInv'
    BY <1>4 DEF OutSend, OutTypeOK, PlaceInv
  <2>7. QED
    BY <2>5, <2>6
<1>5. CASE OutRespond(w)
  BY <1>5 DEF OutRespond, OutTypeOK, PlaceInv, OutPlaces, KernelStates
<1>6. ASSUME NEW m \in respNet, OutReceive(w, m) PROVE OutTypeOK' /\ PlaceInv'
  BY <1>6 DEF OutReceive, Delivered, ResponsePackets, OutTypeOK, PlaceInv, OutPlaces
<1>7. ASSUME NEW m \in respNet, OutReceiveNothing(w, m) PROVE OutTypeOK' /\ PlaceInv'
  BY <1>7 DEF OutReceiveNothing, Delivered, OutTypeOK, PlaceInv, OutPlaces
<1>8. QED
  BY <1>1, <1>2, <1>3, <1>4, <1>5, <1>6, <1>7 DEF WorkerNext, WorkerRuns

-------------------------------------------------------------------------------
(* One owner *)

\* Queueing at the end adds one call to pending_out.
LEMMA QueuedAppend ==
  ASSUME OutTypeOK, NEW c \in Calls, pendingOut' = Append(pendingOut, c)
  PROVE  /\ Queued' = Queued \cup {c}
         /\ c \notin Queued =>
              ((\A i, j \in 1..Len(pendingOut) : pendingOut[i] = pendingOut[j] => i = j)
                 => (\A i, j \in 1..Len(pendingOut') :
                       pendingOut'[i] = pendingOut'[j] => i = j))
<1>1. /\ Len(pendingOut) \in Nat
      /\ Len(pendingOut') = Len(pendingOut) + 1
      /\ \A i \in 1..Len(pendingOut) : pendingOut'[i] = pendingOut[i]
      /\ pendingOut'[Len(pendingOut) + 1] = c
  BY DEF OutTypeOK
<1>2. \A i \in 1..Len(pendingOut') : i \in 1..Len(pendingOut) \/ i = Len(pendingOut) + 1
  BY <1>1
<1>3. 1..Len(pendingOut') = 1..Len(pendingOut) \cup {Len(pendingOut) + 1}
  BY <1>1
<1>4. QED
  BY <1>1, <1>3 DEF Queued

\* Dequeueing takes the first call, which is nowhere else in the queue.
LEMMA QueuedTail ==
  ASSUME OutTypeOK, pendingOut # <<>>, pendingOut' = Tail(pendingOut)
  PROVE  /\ Head(pendingOut) \in Calls /\ Head(pendingOut) \in Queued
         /\ Queued = Queued' \cup {Head(pendingOut)}
         /\ (\A i, j \in 1..Len(pendingOut) : pendingOut[i] = pendingOut[j] => i = j) =>
              /\ Head(pendingOut) \notin Queued'
              /\ \A i, j \in 1..Len(pendingOut') :
                   pendingOut'[i] = pendingOut'[j] => i = j
<1>1. /\ Len(pendingOut) \in Nat /\ Len(pendingOut) > 0
      /\ Len(pendingOut') = Len(pendingOut) - 1
      /\ \A i \in 1..Len(pendingOut') : pendingOut'[i] = pendingOut[i + 1]
      /\ Head(pendingOut) = pendingOut[1]
      /\ pendingOut[1] \in Calls
  BY DEF OutTypeOK
<1>2. /\ 1 \in 1..Len(pendingOut)
      /\ \A i \in 1..Len(pendingOut') : i + 1 \in 1..Len(pendingOut) /\ i + 1 # 1
      /\ \A i \in 1..Len(pendingOut) : i # 1 => i - 1 \in 1..Len(pendingOut') /\ (i - 1) + 1 = i
  BY <1>1
<1>3. Queued = Queued' \cup {Head(pendingOut)}
  <2>1. ASSUME NEW x \in Queued PROVE x \in Queued' \cup {Head(pendingOut)}
    <3>1. PICK i \in 1..Len(pendingOut) : x = pendingOut[i]
      BY <2>1 DEF Queued
    <3>2. CASE i = 1
      BY <3>1, <3>2, <1>1
    <3>3. CASE i # 1
      <4>1. i - 1 \in 1..Len(pendingOut') /\ pendingOut'[i - 1] = x
        BY <3>1, <3>3, <1>1, <1>2
      <4>2. QED
        BY <4>1 DEF Queued
    <3>4. QED
      BY <3>2, <3>3
  <2>2. ASSUME NEW x \in Queued' PROVE x \in Queued
    BY <1>1, <1>2, <2>2 DEF Queued
  <2>3. Head(pendingOut) \in Queued
    BY <1>1, <1>2 DEF Queued
  <2>4. QED
    BY <2>1, <2>2, <2>3
<1>4. ASSUME \A i, j \in 1..Len(pendingOut) : pendingOut[i] = pendingOut[j] => i = j
      PROVE  /\ Head(pendingOut) \notin Queued'
             /\ \A i, j \in 1..Len(pendingOut') :
                  pendingOut'[i] = pendingOut'[j] => i = j
  <2>1. Head(pendingOut) \notin Queued'
    BY <1>1, <1>2, <1>4 DEF Queued
  <2>2. ASSUME NEW i \in 1..Len(pendingOut'), NEW j \in 1..Len(pendingOut'),
               pendingOut'[i] = pendingOut'[j]
        PROVE  i = j
    <3>1. i + 1 = j + 1
      BY <1>1, <1>2, <1>4, <2>2
    <3>2. QED
      BY <3>1
  <2>3. QED
    BY <2>1, <2>2
<1>5. QED
  BY <1>1, <1>3, <1>4

\* What OneOwner speaks of.
ownerVars == <<kernel, held, pendingOut, current, dropped>>

\* A call leaves the kernel's list for the collector, the collector for the
\* queue, and the queue for a worker that has none; ikc_respond_to_kernel ends
\* its way.
LEMMA OwnerKept ==
  ASSUME OutTypeOK, PlaceInv, OneOwner,
         OutNext \/ UNCHANGED ownerVars
  PROVE  OneOwner'
<1> USE OutAssumption DEF netVars, argVars
<1>1. ASSUME UNCHANGED ownerVars PROVE OneOwner'
  BY <1>1 DEF ownerVars, OneOwner, Queued, Taken, Collected
<1>2. ASSUME NEW c \in Calls, DoReq(c) PROVE OneOwner'
  <2>1. \A d \in Calls : kernel'[d] = "get_req" <=> kernel[d] = "get_req"
    BY <1>2 DEF DoReq, OutTypeOK
  <2>2. UNCHANGED <<Queued, Taken, Collected, pendingOut, current, dropped>>
    BY <1>2 DEF DoReq, Queued, Taken, Collected
  <2>3. QED
    BY <2>1, <2>2 DEF OneOwner
<1>3. ASSUME NEW c \in Calls, CollectorGet(c) PROVE OneOwner'
  <2>1. \A d \in Calls : kernel'[d] = "get_req" <=> kernel[d] = "get_req" \/ d = c
    BY <1>3 DEF CollectorGet, OutTypeOK
  <2>2. kernel[c] # "get_req"
    BY <1>3 DEF CollectorGet
  <2>3. Collected = {} /\ Collected' = {c}
    BY <1>3 DEF CollectorGet, Collected, PlaceInv
  <2>4. UNCHANGED <<Queued, Taken, pendingOut, current, dropped>>
    BY <1>3 DEF CollectorGet, Queued, Taken
  <2>5. QED
    BY <2>1, <2>2, <2>3, <2>4 DEF OneOwner
<1>4. CASE CollectorQueue
  <2>1. held \in Calls /\ Collected = {held} /\ Collected' = {}
    BY <1>4 DEF CollectorQueue, Collected, PlaceInv, OutTypeOK
  <2>2. held \notin Queued
    BY <2>1 DEF OneOwner
  <2>3. /\ Queued' = Queued \cup {held}
        /\ \A i, j \in 1..Len(pendingOut') : pendingOut'[i] = pendingOut'[j] => i = j
    BY <1>4, <2>1, <2>2, QueuedAppend DEF CollectorQueue, OneOwner
  <2>4. UNCHANGED <<Taken, kernel, current, dropped>>
    BY <1>4 DEF CollectorQueue, Taken
  <2>5. QED
    BY <2>1, <2>3, <2>4 DEF OneOwner
<1>5. CASE CollectorNoMem
  <2>1. held \in Calls /\ Collected = {held} /\ Collected' = {}
    BY <1>5 DEF CollectorNoMem, Collected, PlaceInv, OutTypeOK
  <2>2. dropped' = dropped \cup {held}
    BY <1>5 DEF CollectorNoMem
  <2>3. UNCHANGED <<Queued, Taken, kernel, current, pendingOut>>
    BY <1>5 DEF CollectorNoMem, Taken, Queued
  <2>4. QED
    BY <2>1, <2>2, <2>3 DEF OneOwner
<1>6. ASSUME NEW w \in OutWorkers, OutDequeue(w) PROVE OneOwner'
  <2> DEFINE h == Head(pendingOut)
  <2>1. /\ h \in Calls /\ h \in Queued /\ Queued = Queued' \cup {h} /\ h \notin Queued'
        /\ \A i, j \in 1..Len(pendingOut') : pendingOut'[i] = pendingOut'[j] => i = j
    BY <1>6, QueuedTail DEF OutDequeue, OneOwner
  <2>2. current[w] = NoCall
    BY <1>6 DEF OutDequeue, PlaceInv, Busy
  <2>3. /\ current'[w] = h
        /\ \A v \in OutWorkers : v # w => current'[v] = current[v]
    BY <1>6 DEF OutDequeue, OutTypeOK
  <2>4. Taken' = Taken \cup {h}
    BY <2>1, <2>2, <2>3 DEF Taken
  <2>5. h \notin Taken /\ h \notin dropped /\ h \notin Collected
    BY <2>1 DEF OneOwner
  <2>6. \A v \in OutWorkers : v # w => current[v] # h
    BY <2>1, <2>5 DEF Taken
  <2>7. \A u, v \in OutWorkers : current'[u] = current'[v] /\ current'[u] # NoCall => u = v
    BY <2>3, <2>6 DEF OneOwner
  <2>8. UNCHANGED <<Collected, kernel, dropped>>
    BY <1>6 DEF OutDequeue, Collected
  <2>9. QED
    BY <2>1, <2>4, <2>5, <2>7, <2>8 DEF OneOwner
<1>7. ASSUME NEW w \in OutWorkers, OutRespond(w) PROVE OneOwner'
  <2> DEFINE c == current[w]
  <2>1. c \in Calls
    BY <1>7 DEF OutRespond, PlaceInv, Busy, OutTypeOK
  <2>2. /\ current'[w] = NoCall
        /\ \A v \in OutWorkers : v # w => current'[v] = current[v]
    BY <1>7 DEF OutRespond, OutTypeOK
  <2>3. \A v \in OutWorkers : v # w => current[v] # c
    BY <2>1 DEF OneOwner
  <2>4. Taken' = Taken \ {c} /\ c \in Taken
    BY <2>1, <2>2, <2>3 DEF Taken
  <2>5. \A d \in Calls : kernel'[d] = "get_req" <=> kernel[d] = "get_req" /\ d # c
    BY <1>7, <2>1 DEF OutRespond, OutTypeOK
  <2>6. c \notin Queued /\ c \notin dropped /\ c \notin Collected
    BY <2>4 DEF OneOwner
  <2>7. \A u, v \in OutWorkers : current'[u] = current'[v] /\ current'[u] # NoCall => u = v
    BY <2>2 DEF OneOwner
  <2>8. UNCHANGED <<Collected, Queued, pendingOut, dropped>>
    BY <1>7 DEF OutRespond, Collected, Queued
  <2>9. QED
    BY <2>4, <2>5, <2>6, <2>7, <2>8 DEF OneOwner
<1>8. ASSUME NEW w \in OutWorkers,
             \/ OutWait(w) \/ OutQueueEmpty(w) \/ OutSend(w) \/ OutTimeout(w) \/ OutInterrupted(w)
             \/ \E m \in respNet : OutReceive(w, m) \/ OutReceiveNothing(w, m)
      PROVE  UNCHANGED ownerVars
  BY <1>8 DEF ownerVars, OutWait, OutQueueEmpty, OutSend, OutTimeout, OutInterrupted, OutReceive, OutReceiveNothing
<1>9. CollectorSignal => UNCHANGED ownerVars
  BY DEF ownerVars, CollectorSignal
<1>10. QED
  BY <1>1, <1>2, <1>3, <1>4, <1>5, <1>6, <1>7, <1>8, <1>9
  DEF OutNext, CollectorNext, WorkerNext, WorkerRuns

-------------------------------------------------------------------------------
(* What was carried and what was sent *)

\* Steps that touch neither a worker's request nor what was carried, sent,
\* received or answered.
Quiet ==
  /\ UNCHANGED <<reqNet, respNet, answer, current, seq_nbr, rq_argv, r_pid, carried, sent>>
  /\ \A w \in OutWorkers : opc'[w] \in Busy => opc[w] \in Busy
  /\ \A c \in Calls : kernel[c] = "done" => kernel'[c] = "done"

LEMMA OutSteps ==
  ASSUME OutTypeOK, OutNext
  PROVE  \/ Quiet
         \/ \E w \in OutWorkers : \/ OutDequeue(w) \/ OutSend(w) \/ OutTimeout(w) \/ OutInterrupted(w)
                                  \/ OutRespond(w) \/ \E m \in respNet : OutReceive(w, m) \/ OutReceiveNothing(w, m)
<1> USE DEF netVars, argVars, Busy
<1>1. ASSUME NEW c \in Calls, DoReq(c) \/ CollectorGet(c) PROVE Quiet
  <2>1. \A d \in Calls : kernel[d] = "done" => kernel'[d] = "done"
    BY <1>1 DEF DoReq, CollectorGet, OutTypeOK
  <2>2. QED
    BY <1>1, <2>1 DEF DoReq, CollectorGet, Quiet
<1>2. CASE CollectorQueue \/ CollectorNoMem
  BY <1>2 DEF CollectorQueue, CollectorNoMem, Quiet
<1>3. CASE CollectorSignal
  <2>1. \/ opc' = opc
        \/ \E w \in OutWorkers : opc[w] = "waiting" /\ opc' = [opc EXCEPT ![w] = "dequeue"]
    BY <1>3, SignalWakesOne DEF CollectorSignal
  <2>2. QED
    BY <1>3, <2>1 DEF CollectorSignal, Quiet, OutTypeOK
<1>4. ASSUME NEW w \in OutWorkers, OutWait(w) \/ OutQueueEmpty(w) PROVE Quiet
  BY <1>4 DEF OutWait, OutQueueEmpty, Quiet, OutTypeOK
<1>5. QED
  BY <1>1, <1>2, <1>3, <1>4 DEF OutNext, CollectorNext, WorkerNext, WorkerRuns

\* ikcq_dequeue_request: the history of the worker that dequeues grows by one.
LEMMA DequeueCarries ==
  ASSUME OutTypeOK, NEW w \in OutWorkers, OutDequeue(w)
  PROVE  /\ Head(pendingOut) \in Calls
         /\ Len(carried[w]) \in Nat
         /\ Len(carried'[w]) = Len(carried[w]) + 1
         /\ carried'[w][Len(carried[w]) + 1] = Head(pendingOut)
         /\ \A i \in 1..Len(carried[w]) : carried'[w][i] = carried[w][i]
         /\ \A v \in OutWorkers : v # w => carried'[v] = carried[v]
<1>1. carried[w] \in Seq(Calls) /\ Head(pendingOut) \in Calls
  BY DEF OutTypeOK, OutDequeue
<1>2. carried'[w] = Append(carried[w], Head(pendingOut))
  BY DEF OutTypeOK, OutDequeue
<1>3. \A v \in OutWorkers : v # w => carried'[v] = carried[v]
  BY DEF OutTypeOK, OutDequeue
<1>4. QED
  BY <1>1, <1>2, <1>3

\* Nothing leaves the history of a worker.
LEMMA CarriedGrows ==
  ASSUME OutTypeOK, OutNext \/ UNCHANGED carried, NEW v \in OutWorkers
  PROVE  /\ Len(carried[v]) \in Nat /\ Len(carried'[v]) \in Nat
         /\ Len(carried[v]) <= Len(carried'[v])
         /\ \A i \in 1..Len(carried[v]) : carried'[v][i] = carried[v][i]
<1>1. CASE UNCHANGED carried
  BY <1>1 DEF OutTypeOK
<1>2. ASSUME NEW w \in OutWorkers, OutDequeue(w)
      PROVE  /\ Len(carried[v]) \in Nat /\ Len(carried'[v]) \in Nat
             /\ Len(carried[v]) <= Len(carried'[v])
             /\ \A i \in 1..Len(carried[v]) : carried'[v][i] = carried[v][i]
  <2>1. CASE v = w
    BY <1>2, <2>1, DequeueCarries
  <2>2. CASE v # w
    <3>1. Len(carried[v]) \in Nat
      BY DEF OutTypeOK
    <3>2. QED
      BY <1>2, <2>2, <3>1, DequeueCarries
  <2>3. QED
    BY <2>1, <2>2
<1>3. CASE Quiet
  BY <1>1, <1>3 DEF Quiet
<1>4. ASSUME NEW w \in OutWorkers,
             \/ OutSend(w) \/ OutTimeout(w) \/ OutInterrupted(w) \/ OutRespond(w)
             \/ \E m \in respNet : OutReceive(w, m) \/ OutReceiveNothing(w, m)
      PROVE  UNCHANGED carried
  BY <1>4 DEF OutSend, OutTimeout, OutInterrupted, OutRespond, OutReceive, OutReceiveNothing
<1>5. QED
  BY <1>1, <1>2, <1>3, <1>4, OutSteps

LEMMA HasCarriedGrows ==
  ASSUME OutTypeOK, OutNext \/ UNCHANGED carried, NEW v \in OutWorkers, NEW c,
         HasCarried(v, c)
  PROVE  HasCarried(v, c)'
<1>1. PICK i \in 1..Len(carried[v]) : carried[v][i] = c
  BY DEF HasCarried
<1>2. i \in 1..Len(carried'[v]) /\ carried'[v][i] = c
  BY <1>1, CarriedGrows
<1>3. QED
  BY <1>2 DEF HasCarried

\* The first call in pending_out was never dequeued and never sent before.
LEMMA HeadIsNew ==
  ASSUME OutTypeOK, OneOwner, CarriedInv, SentInv, pendingOut # <<>>
  PROVE  /\ \A v \in OutWorkers : ~HasCarried(v, Head(pendingOut))
         /\ \A p \in sent : p.call # Head(pendingOut)
<1>1. Head(pendingOut) = pendingOut[1] /\ 1 \in 1..Len(pendingOut) /\ pendingOut[1] \in Calls
  BY DEF OutTypeOK
<1>2. Head(pendingOut) \in Queued
  BY <1>1 DEF Queued
<1>3. kernel[Head(pendingOut)] = "get_req" /\ Head(pendingOut) \notin Taken
  BY <1>1, <1>2 DEF OneOwner
<1>4. ASSUME NEW v \in OutWorkers PROVE ~HasCarried(v, Head(pendingOut))
  BY <1>3 DEF CarriedInv, HasCarried
<1>5. \A p \in sent : p.thread \in OutWorkers /\ HasCarried(p.thread, p.call)
  BY DEF SentInv, OutTypeOK, RequestPackets
<1>6. QED
  BY <1>4, <1>5

\* CarriedInv, step by step: a carried call is with its worker until the
\* kernel has its answer.
LEMMA CarriedKept ==
  ASSUME OutTypeOK, PlaceInv, OneOwner, CarriedInv,
         OutNext \/ UNCHANGED <<kernel, opc, current, carried>>
  PROVE  CarriedInv'
<1> USE DEF netVars, argVars, Busy
<1>1. ASSUME UNCHANGED <<carried, current>>,
             \A v \in OutWorkers : opc'[v] \in Busy => opc[v] \in Busy,
             \A c \in Calls : kernel[c] = "done" => kernel'[c] = "done"
      PROVE  CarriedInv'
  <2>1. \A v \in OutWorkers : \A i \in 1..Len(carried[v]) : carried[v][i] \in Calls
    BY DEF OutTypeOK
  <2>2. Taken' = Taken
    BY <1>1 DEF Taken
  <2>3. QED
    BY <1>1, <2>1, <2>2 DEF CarriedInv
<1>2. ASSUME NEW w \in OutWorkers, OutDequeue(w) PROVE CarriedInv'
  <2> DEFINE h == Head(pendingOut)
  <2>1. /\ h \in Calls
        /\ Len(carried[w]) \in Nat
        /\ Len(carried'[w]) = Len(carried[w]) + 1
        /\ carried'[w][Len(carried[w]) + 1] = h
        /\ \A i \in 1..Len(carried[w]) : carried'[w][i] = carried[w][i]
        /\ \A v \in OutWorkers : v # w => carried'[v] = carried[v]
    BY <1>2, DequeueCarries
  <2>2. /\ opc'[w] = "send" /\ current'[w] = h /\ current[w] = NoCall
        /\ \A v \in OutWorkers : v # w => opc'[v] = opc[v] /\ current'[v] = current[v]
        /\ kernel' = kernel
    BY <1>2 DEF OutDequeue, OutTypeOK, PlaceInv
  <2>3. Taken' = Taken \cup {h}
    BY <2>1, <2>2, OutAssumption DEF Taken
  <2>4. ASSUME NEW v \in OutWorkers, opc'[v] \in Busy
        PROVE  Len(carried'[v]) > 0 /\ carried'[v][Len(carried'[v])] = current'[v]
    <3>1. CASE v = w
      BY <3>1, <2>1, <2>2
    <3>2. CASE v # w
      BY <3>2, <2>1, <2>2, <2>4 DEF CarriedInv
    <3>3. QED
      BY <3>1, <3>2
  <2>5. ASSUME NEW v \in OutWorkers, NEW i \in 1..Len(carried'[v])
        PROVE  carried'[v][i] \in Taken' \/ kernel'[carried'[v][i]] = "done"
    <3>1. CASE v = w /\ i = Len(carried[w]) + 1
      BY <3>1, <2>1, <2>3
    <3>2. CASE v # w \/ i # Len(carried[w]) + 1
      <4>1. i \in 1..Len(carried[v]) /\ carried'[v][i] = carried[v][i]
        BY <3>2, <2>1
      <4>2. QED
        BY <4>1, <2>2, <2>3 DEF CarriedInv
    <3>3. QED
      BY <3>1, <3>2
  <2>6. QED
    BY <2>4, <2>5 DEF CarriedInv
<1>3. ASSUME NEW w \in OutWorkers, OutRespond(w) PROVE CarriedInv'
  <2>1. current[w] \in Calls
    BY <1>3 DEF OutRespond, PlaceInv, OutTypeOK
  <2>2. /\ opc'[w] = "dequeue" /\ current'[w] = NoCall
        /\ \A v \in OutWorkers : v # w => opc'[v] = opc[v] /\ current'[v] = current[v]
        /\ carried' = carried
    BY <1>3 DEF OutRespond, OutTypeOK
  <2>3. /\ kernel'[current[w]] = "done"
        /\ \A c \in Calls : kernel[c] = "done" => kernel'[c] = "done"
    BY <1>3, <2>1 DEF OutRespond, OutTypeOK
  <2>4. \A c \in Taken : c \in Taken' \/ c = current[w]
    BY <2>2 DEF Taken
  <2>5. \A v \in OutWorkers : \A i \in 1..Len(carried[v]) : carried[v][i] \in Calls
    BY DEF OutTypeOK
  <2>6. ASSUME NEW v \in OutWorkers, opc'[v] \in Busy
        PROVE  Len(carried'[v]) > 0 /\ carried'[v][Len(carried'[v])] = current'[v]
    BY <2>2, <2>6 DEF CarriedInv
  <2>7. \A v \in OutWorkers : \A i \in 1..Len(carried'[v]) :
          carried'[v][i] \in Taken' \/ kernel'[carried'[v][i]] = "done"
    BY <2>2, <2>3, <2>4, <2>5 DEF CarriedInv
  <2>8. QED
    BY <2>6, <2>7 DEF CarriedInv
<1>4. ASSUME NEW w \in OutWorkers,
             \/ OutSend(w) \/ OutTimeout(w) \/ OutInterrupted(w)
             \/ \E m \in respNet : OutReceive(w, m) \/ OutReceiveNothing(w, m)
      PROVE  /\ UNCHANGED <<carried, current, kernel>>
             /\ \A v \in OutWorkers : opc'[v] \in Busy => opc[v] \in Busy
  BY <1>4 DEF OutSend, OutTimeout, OutInterrupted, OutReceive, OutReceiveNothing, OutTypeOK
<1>5. CASE Quiet
  BY <1>1, <1>5 DEF Quiet
<1>6. QED
  BY <1>1, <1>2, <1>3, <1>4, <1>5, OutSteps

\* SentInv, step by step: a new request has a datagram nobody has sent yet, and
\* a retry packs what the first attempt packed.
LEMMA SentKept ==
  ASSUME OutTypeOK, PlaceInv, OneOwner, CarriedInv, SentInv,
         OutNext \/ UNCHANGED <<opc, current, seq_nbr, rq_argv, carried, sent>>
  PROVE  SentInv'
<1> USE DEF netVars, argVars, Busy
<1>1. \A p \in sent : p.thread \in OutWorkers
  BY DEF OutTypeOK, RequestPackets
<1>2. ASSUME UNCHANGED sent, OutNext \/ UNCHANGED carried
      PROVE  \A p \in sent' : p.host = Home /\ HasCarried(p.thread, p.call)'
  BY <1>1, <1>2, HasCarriedGrows DEF SentInv
<1>3. ASSUME UNCHANGED <<sent, current, seq_nbr>>,
             \A v \in OutWorkers : opc'[v] \in Busy =>
                opc[v] \in Busy /\ rq_argv'[v].arg0 = rq_argv[v].arg0,
             OutNext \/ UNCHANGED carried
      PROVE  SentInv'
  <2>1. \A v \in OutWorkers : Datagram(v)' = Datagram(v)
    BY <1>3 DEF Datagram, Packet
  <2>2. QED
    BY <1>2, <1>3, <2>1 DEF SentInv
<1>4. ASSUME NEW w \in OutWorkers, OutDequeue(w) PROVE SentInv'
  <2>1. \A p \in sent : p.call # Head(pendingOut)
    BY <1>4, HeadIsNew DEF OutDequeue
  <2>2. /\ current'[w] = Head(pendingOut)
        /\ rq_argv'[w].arg0 = "r_node"
        /\ \A v \in OutWorkers : v # w =>
             /\ opc'[v] = opc[v] /\ current'[v] = current[v]
             /\ seq_nbr'[v] = seq_nbr[v] /\ rq_argv'[v] = rq_argv[v]
        /\ UNCHANGED sent
    BY <1>4 DEF OutDequeue, OutTypeOK, GotArgs
  <2>3. \A v \in OutWorkers : v # w => Datagram(v)' = Datagram(v)
    BY <2>2 DEF Datagram, Packet
  <2>4. OutNext
    BY <1>4 DEF OutNext, WorkerNext, WorkerRuns
  <2>5. \A p \in sent' : p.host = Home /\ HasCarried(p.thread, p.call)'
    BY <1>2, <2>2, <2>4
  <2>6. ASSUME NEW v \in OutWorkers, opc'[v] \in Busy
        PROVE  rq_argv'[v].arg0 = "r_node" /\ \A p \in sent' : p.call = current'[v] => p = Datagram(v)'
    BY <2>1, <2>2, <2>3, <2>6 DEF SentInv
  <2>7. QED
    BY <2>5, <2>6 DEF SentInv
<1>5. ASSUME NEW w \in OutWorkers, OutSend(w) PROVE SentInv'
  <2>1. /\ opc[w] \in Busy /\ current[w] \in Calls /\ current' = current
        /\ seq_nbr' = seq_nbr /\ carried' = carried
        /\ rq_argv'[w] = [arg0 |-> rq_argv[w].arg0, arg1 |-> ""]
        /\ \A v \in OutWorkers : v # w => rq_argv'[v] = rq_argv[v]
        /\ \A v \in OutWorkers : opc'[v] \in Busy => opc[v] \in Busy
        /\ sent' = sent \cup {Packet(w, rq_argv'[w])}
    BY <1>5 DEF OutSend, OutTypeOK, PlaceInv
  <2>2. rq_argv[w].arg0 = "r_node"
    BY <2>1 DEF SentInv
  <2>3. Packet(w, rq_argv'[w]) = Datagram(w)
    BY <2>1, <2>2 DEF Datagram
  <2>4. \A v \in OutWorkers : Datagram(v)' = Datagram(v)
    BY <2>1 DEF Datagram, Packet
  <2>5. /\ Datagram(w).host = Home /\ Datagram(w).thread = w
        /\ Datagram(w).call = current[w]
    BY DEF Datagram, Packet
  <2>6. HasCarried(w, current[w])
    <3>1. Len(carried[w]) > 0 /\ carried[w][Len(carried[w])] = current[w]
      BY <2>1 DEF CarriedInv
    <3>2. Len(carried[w]) \in Nat
      BY DEF OutTypeOK
    <3>3. Len(carried[w]) \in 1..Len(carried[w])
      BY <3>1, <3>2
    <3>4. QED
      BY <3>1, <3>3 DEF HasCarried
  <2>7. \A v \in OutWorkers, c \in Calls : HasCarried(v, c)' <=> HasCarried(v, c)
    BY <2>1 DEF HasCarried
  <2>8. \A p \in sent' : p.host = Home /\ HasCarried(p.thread, p.call)'
    <3>1. \A p \in sent : p.call \in Calls
      BY DEF OutTypeOK, RequestPackets
    <3>2. QED
      BY <1>1, <2>1, <2>3, <2>5, <2>6, <2>7, <3>1 DEF SentInv
  <2>9. ASSUME NEW v \in OutWorkers, opc'[v] \in Busy
        PROVE  /\ rq_argv'[v].arg0 = "r_node"
               /\ \A p \in sent' : p.call = current'[v] => p = Datagram(v)'
    <3>1. rq_argv'[v].arg0 = "r_node"
      <4>1. CASE v = w
        <5>1. rq_argv'[v] = [arg0 |-> "r_node", arg1 |-> ""]
          BY <2>1, <2>2, <4>1
        <5>2. [arg0 |-> "r_node", arg1 |-> ""].arg0 = "r_node"
          OBVIOUS
        <5>3. QED
          BY <5>1, <5>2, Zenon
      <4>2. CASE v # w
        <5>1. rq_argv'[v] = rq_argv[v] /\ opc[v] \in Busy
          BY <2>1, <2>9, <4>2
        <5>2. QED
          BY <5>1 DEF SentInv
      <4>3. QED
        BY <4>1, <4>2
    <3>2. current[v] # NoCall
      BY <2>1, <2>9 DEF PlaceInv
    <3>3. Datagram(w).call = current[v] => v = w
      BY <2>5, <3>2 DEF OneOwner
    <3>4. QED
      BY <2>1, <2>3, <2>4, <2>9, <3>1, <3>3 DEF SentInv
  <2>10. QED
    BY <2>8, <2>9 DEF SentInv
<1>6. ASSUME NEW w \in OutWorkers, OutRespond(w) PROVE SentInv'
  <2>1. /\ opc'[w] \notin Busy
        /\ \A v \in OutWorkers : v # w =>
             opc'[v] = opc[v] /\ current'[v] = current[v] /\ rq_argv'[v] = rq_argv[v]
        /\ UNCHANGED <<seq_nbr, carried, sent>>
    BY <1>6 DEF OutRespond, OutTypeOK
  <2>2. \A v \in OutWorkers : v # w => Datagram(v)' = Datagram(v)
    BY <2>1 DEF Datagram, Packet
  <2>3. QED
    BY <1>2, <2>1, <2>2 DEF SentInv
<1>7. ASSUME NEW w \in OutWorkers,
             OutTimeout(w) \/ OutInterrupted(w) \/ \E m \in respNet : OutReceive(w, m) \/ OutReceiveNothing(w, m)
      PROVE  /\ UNCHANGED <<sent, current, seq_nbr, carried, rq_argv>>
             /\ \A v \in OutWorkers : opc'[v] \in Busy => opc[v] \in Busy
  BY <1>7 DEF OutTimeout, OutInterrupted, OutReceive, OutReceiveNothing, OutTypeOK
<1>8. CASE Quiet
  BY <1>3, <1>8 DEF Quiet
<1>9. QED
  BY <1>3, <1>4, <1>5, <1>6, <1>7, <1>8, OutSteps

\* However often a call is sent, its datagrams are one and the same.
LEMMA RetriesKept ==
  ASSUME OutTypeOK, SentInv, RetriesAlike, OutNext \/ UNCHANGED sent
  PROVE  RetriesAlike'
<1> USE DEF netVars, argVars, Busy
<1>1. CASE UNCHANGED sent
  BY <1>1 DEF RetriesAlike
<1>2. ASSUME NEW w \in OutWorkers, OutSend(w) PROVE RetriesAlike'
  <2>1. /\ rq_argv[w].arg0 = "r_node"
        /\ \A p \in sent : p.call = current[w] => p = Datagram(w)
    BY <1>2 DEF OutSend, SentInv
  <2>2. rq_argv'[w] = [arg0 |-> "r_node", arg1 |-> ""]
    BY <1>2, <2>1 DEF OutSend, OutTypeOK
  <2>3. sent' = sent \cup {Datagram(w)}
    BY <1>2, <2>2 DEF OutSend, Datagram
  <2>4. Datagram(w).call = current[w]
    BY DEF Datagram, Packet
  <2>5. QED
    BY <2>1, <2>3, <2>4 DEF RetriesAlike
<1>3. ASSUME NEW w \in OutWorkers,
             \/ OutDequeue(w) \/ OutTimeout(w) \/ OutInterrupted(w) \/ OutRespond(w)
             \/ \E m \in respNet : OutReceive(w, m) \/ OutReceiveNothing(w, m)
      PROVE  UNCHANGED sent
  BY <1>3 DEF OutDequeue, OutTimeout, OutInterrupted, OutRespond, OutReceive, OutReceiveNothing
<1>4. CASE Quiet
  BY <1>1, <1>4 DEF Quiet
<1>5. QED
  BY <1>1, <1>2, <1>3, <1>4, OutSteps

\* ResponseInv, step by step: what a worker reads from its socket answers one
\* of its own requests.
LEMMA ResponseKept ==
  ASSUME OutTypeOK, SentInv, ResponseInv,
         OutNext \/ OutEnvironment \/ UNCHANGED <<netVars, outVars>>
  PROVE  ResponseInv'
<1> USE OutAssumption DEF netVars, argVars
<1> DEFINE Answers(m) == \E p \in sent : m.thread = p.thread /\ m.seq = p.seq
                                          /\ m.host = p.host /\ m.r_pid = p.call
<1>1. ASSUME sent \subseteq sent', reqNet' \subseteq sent',
             \A m \in respNet' : m \in respNet \/ Answers(m),
             OutNext \/ UNCHANGED carried,
             \A v \in OutWorkers : r_pid'[v] \in Calls =>
                r_pid'[v] = r_pid[v] \/ HasCarried(v, r_pid'[v])
      PROVE  ResponseInv'
  <2>1. \A m \in respNet' : \E p \in sent' : m.thread = p.thread /\ m.seq = p.seq
                                          /\ m.host = p.host /\ m.r_pid = p.call
    BY <1>1 DEF ResponseInv
  <2>2. ASSUME NEW v \in OutWorkers, r_pid'[v] \in Calls
        PROVE  HasCarried(v, r_pid[v])'
    <3>1. HasCarried(v, r_pid'[v])
      BY <1>1, <2>2 DEF ResponseInv
    <3>2. PICK c : c = r_pid'[v]
      OBVIOUS
    <3>3. HasCarried(v, c)'
      BY <1>1, <3>1, <3>2, HasCarriedGrows
    <3>4. QED
      BY <3>2, <3>3 DEF HasCarried
  <2>3. QED
    BY <1>1, <2>1, <2>2 DEF ResponseInv
<1>2. CASE Quiet /\ OutNext
  BY <1>1, <1>2 DEF Quiet, ResponseInv
<1>3. CASE UNCHANGED <<netVars, outVars>>
  BY <1>1, <1>3 DEF outVars, ResponseInv
<1>4. CASE OutEnvironment
  <2>1. UNCHANGED <<sent, carried, r_pid>>
    BY <1>4 DEF OutEnvironment, outVars
  <2>2. reqNet' \subseteq sent
    BY <1>4 DEF OutEnvironment, ResponseInv
  <2>3. ASSUME NEW m \in respNet', m \notin respNet PROVE Answers(m)
    <3>1. PICK p \in sent : m = [host |-> p.host, thread |-> p.thread,
                                 seq |-> p.seq, r_pid |-> p.call]
      BY <1>4, <2>3 DEF OutEnvironment
    <3>2. QED
      BY <3>1
  <2>4. QED
    BY <1>1, <2>1, <2>2, <2>3
<1>5. ASSUME NEW w \in OutWorkers, OutDequeue(w) PROVE ResponseInv'
  <2>1. OutNext
    BY <1>5 DEF OutNext, WorkerNext, WorkerRuns
  <2>2. \A v \in OutWorkers : r_pid'[v] = r_pid[v] \/ r_pid'[v] = Garbage
    BY <1>5 DEF OutDequeue, OutTypeOK
  <2>3. UNCHANGED <<reqNet, respNet, sent>>
    BY <1>5 DEF OutDequeue
  <2>4. QED
    BY <1>1, <2>1, <2>2, <2>3 DEF ResponseInv
<1>6. ASSUME NEW w \in OutWorkers, OutSend(w) PROVE ResponseInv'
  <2>1. OutNext
    BY <1>6 DEF OutNext, WorkerNext, WorkerRuns
  <2>2. /\ UNCHANGED <<respNet, r_pid>>
        /\ sent \subseteq sent'
        /\ reqNet' \subseteq sent'
    BY <1>6 DEF OutSend, Send, ResponseInv
  <2>3. QED
    BY <1>1, <2>1, <2>2
<1>7. ASSUME NEW w \in OutWorkers, NEW m \in respNet, OutReceive(w, m)
      PROVE  ResponseInv'
  <2>1. OutNext
    BY <1>7 DEF OutNext, WorkerNext, WorkerRuns
  <2>2. PICK p \in sent : m.thread = p.thread /\ m.r_pid = p.call
    BY DEF ResponseInv
  <2>3. HasCarried(w, m.r_pid)
    BY <1>7, <2>2 DEF OutReceive, SentInv
  <2>4. r_pid'[w] = m.r_pid /\ \A v \in OutWorkers : v # w => r_pid'[v] = r_pid[v]
    BY <1>7 DEF OutReceive, OutTypeOK
  <2>5. respNet' \subseteq respNet /\ UNCHANGED <<reqNet, sent>>
    BY <1>7 DEF OutReceive, Delivered
  <2>6. QED
    BY <1>1, <2>1, <2>3, <2>4, <2>5 DEF ResponseInv
<1>8. ASSUME NEW w \in OutWorkers, OutTimeout(w) \/ OutInterrupted(w) \/ OutRespond(w)
      PROVE  ResponseInv'
  <2>1. UNCHANGED <<reqNet, respNet, sent, r_pid, carried>>
    BY <1>8 DEF OutTimeout, OutInterrupted, OutRespond
  <2>2. QED
    BY <1>1, <2>1 DEF ResponseInv
<1>9. ASSUME NEW w \in OutWorkers, NEW m \in respNet, OutReceiveNothing(w, m)
      PROVE  ResponseInv'
  <2>1. \A v \in OutWorkers : r_pid'[v] = r_pid[v] \/ r_pid'[v] = Garbage
    BY <1>9 DEF OutReceiveNothing, OutTypeOK
  <2>2. respNet' \subseteq respNet /\ UNCHANGED <<reqNet, sent, carried>>
    BY <1>9 DEF OutReceiveNothing, Delivered
  <2>3. QED
    BY <1>1, <2>1, <2>2 DEF ResponseInv
<1>10. QED
  BY <1>2, <1>3, <1>4, <1>5, <1>6, <1>7, <1>8, <1>9, OutSteps

LEMMA CarriedByGrows ==
  ASSUME OutTypeOK, OutNext \/ UNCHANGED carried,
         NEW v \in OutWorkers, NEW d, NEW c, CarriedBy(v, d, c)
  PROVE  CarriedBy(v, d, c)'
<1>1. PICK i \in 1..Len(carried[v]), j \in 1..Len(carried[v]) :
             i <= j /\ carried[v][i] = d /\ carried[v][j] = c
  BY DEF CarriedBy
<1>2. /\ i \in 1..Len(carried'[v]) /\ carried'[v][i] = d
      /\ j \in 1..Len(carried'[v]) /\ carried'[v][j] = c
  BY <1>1, CarriedGrows
<1>3. QED
  BY <1>1, <1>2 DEF CarriedBy

\* What a worker puts to the kernel is of a call it has carried.
LEMMA RespondsCarried ==
  ASSUME OutTypeOK, CarriedInv, ResponseInv,
         NEW w \in OutWorkers, OutRespond(w), r_pid[w] \in Calls
  PROVE  CarriedBy(w, r_pid[w], current[w])
<1>1. PICK i \in 1..Len(carried[w]) : carried[w][i] = r_pid[w]
  BY DEF ResponseInv, HasCarried
<1>2. Len(carried[w]) > 0 /\ carried[w][Len(carried[w])] = current[w]
  BY DEF OutRespond, CarriedInv, Busy
<1>3. Len(carried[w]) \in Nat
  BY DEF OutTypeOK
<1>4. Len(carried[w]) \in 1..Len(carried[w]) /\ i <= Len(carried[w])
  BY <1>2, <1>3
<1>5. QED
  BY <1>1, <1>2, <1>4 DEF CarriedBy

\* ikc_respond_to_kernel gives the kernel a process id that a worker got for
\* this call or for one it carried before.
LEMMA ProvenanceKept ==
  ASSUME OutTypeOK, CarriedInv, ResponseInv, AnswerProvenance,
         OutNext \/ UNCHANGED <<answer, carried>>
  PROVE  AnswerProvenance'
<1> USE DEF netVars, argVars
<1>1. CASE UNCHANGED answer
  BY <1>1, CarriedByGrows DEF AnswerProvenance
<1>2. ASSUME NEW w \in OutWorkers, OutRespond(w) PROVE AnswerProvenance'
  <2>1. ASSUME NEW c \in Calls, answer'[c] \in Calls
        PROVE  \E v \in OutWorkers : CarriedBy(v, answer'[c], c)
    <3>1. CASE c = current[w]
      <4>1. answer'[c] = r_pid[w]
        BY <1>2, <3>1 DEF OutRespond, OutTypeOK
      <4>2. QED
        BY <1>2, <2>1, <3>1, <4>1, RespondsCarried
    <3>2. CASE c # current[w]
      <4>1. answer'[c] = answer[c]
        BY <1>2, <3>2 DEF OutRespond, OutTypeOK
      <4>2. QED
        BY <2>1, <4>1 DEF AnswerProvenance
    <3>3. QED
      BY <3>1, <3>2
  <2>2. carried' = carried
    BY <1>2 DEF OutRespond
  <2>3. QED
    BY <2>1, <2>2 DEF AnswerProvenance, CarriedBy
<1>3. ASSUME NEW w \in OutWorkers,
             \/ OutDequeue(w) \/ OutSend(w) \/ OutTimeout(w) \/ OutInterrupted(w)
             \/ \E m \in respNet : OutReceive(w, m) \/ OutReceiveNothing(w, m)
      PROVE  UNCHANGED answer
  BY <1>3 DEF OutDequeue, OutSend, OutTimeout, OutInterrupted, OutReceive, OutReceiveNothing
<1>4. CASE Quiet
  BY <1>1, <1>4 DEF Quiet
<1>5. QED
  BY <1>1, <1>2, <1>3, <1>4, OutSteps

\* NumberInv, step by step: until a worker has used up its numbers, the counter
\* is the position of its request in its history.
LEMMA NumberKept ==
  ASSUME OutTypeOK, PlaceInv, CarriedInv, NumberInv,
         OutNext \/ UNCHANGED <<seq_nbr, carried, sent>>
  PROVE  NumberInv'
<1> USE DEF netVars, argVars, Busy
<1> DEFINE InStep(v) ==
             /\ seq_nbr[v] = IF carried[v] = <<>> THEN MinusOne ELSE Len(carried[v]) - 1
             /\ \A p \in sent : p.thread = v =>
                  p.seq + 1 \in 1..Len(carried[v]) /\ carried[v][p.seq + 1] = p.call
<1>1. CASE UNCHANGED <<seq_nbr, carried, sent>>
  BY <1>1 DEF NumberInv
<1>2. ASSUME NEW w \in OutWorkers, OutDequeue(w) PROVE NumberInv'
  <2> SUFFICES ASSUME NEW v \in OutWorkers, Len(carried'[v]) <= SeqMod
               PROVE  InStep(v)'
    BY DEF NumberInv
  <2>1. /\ Len(carried[w]) \in Nat
        /\ Len(carried'[w]) = Len(carried[w]) + 1
        /\ carried'[w][Len(carried[w]) + 1] = Head(pendingOut)
        /\ \A i \in 1..Len(carried[w]) : carried'[w][i] = carried[w][i]
        /\ \A u \in OutWorkers : u # w => carried'[u] = carried[u]
    BY <1>2, DequeueCarries
  <2>2. /\ seq_nbr'[w] = NextSeq(seq_nbr[w])
        /\ \A u \in OutWorkers : u # w => seq_nbr'[u] = seq_nbr[u]
        /\ sent' = sent
    BY <1>2 DEF OutDequeue, OutTypeOK
  <2>3. CASE v # w
    BY <2>1, <2>2, <2>3 DEF NumberInv
  <2>4. CASE v = w
    <3>1. SeqMod \in Nat /\ SeqMod <= 65536
      BY UdpAssumption
    <3>2. Len(carried[w]) <= SeqMod /\ Len(carried[w]) < SeqMod
      BY <2>1, <2>4, <3>1
    <3>3. InStep(w)
      BY <3>2 DEF NumberInv
    <3>4. seq_nbr[w] \in UShort
      BY DEF OutTypeOK
    <3>5. NextSeq(seq_nbr[w]) = Len(carried[w])
      <4>1. CASE carried[w] = <<>>
        BY <3>3, <3>4, <4>1, NextSeqCounts
      <4>2. CASE carried[w] # <<>>
        <5>1. seq_nbr[w] = Len(carried[w]) - 1
          BY <3>3, <4>2
        <5>2. seq_nbr[w] # SeqMod /\ seq_nbr[w] # MinusOne
          BY <2>1, <3>2, <5>1, BelowWrap
        <5>3. NextSeq(seq_nbr[w]) = seq_nbr[w] + 1
          BY <3>4, <5>2, NextSeqCounts
        <5>4. QED
          BY <2>1, <5>1, <5>3
      <4>3. QED
        BY <4>1, <4>2
    <3>6. carried'[w] # <<>>
      BY <2>1
    <3>7. ASSUME NEW p \in sent, p.thread = w
          PROVE  p.seq + 1 \in 1..Len(carried'[w]) /\ carried'[w][p.seq + 1] = p.call
      <4>1. p.seq + 1 \in 1..Len(carried[w]) /\ carried[w][p.seq + 1] = p.call
        BY <3>3, <3>7
      <4>2. QED
        BY <2>1, <4>1
    <3>8. seq_nbr'[w] = Len(carried'[w]) - 1
      BY <2>1, <2>2, <3>5
    <3>9. QED
      BY <2>2, <2>4, <3>6, <3>7, <3>8
  <2>5. QED
    BY <2>3, <2>4
<1>3. ASSUME NEW w \in OutWorkers, OutSend(w) PROVE NumberInv'
  <2> SUFFICES ASSUME NEW v \in OutWorkers, Len(carried'[v]) <= SeqMod
               PROVE  InStep(v)'
    BY DEF NumberInv
  <2>1. /\ UNCHANGED <<seq_nbr, carried>>
        /\ sent' = sent \cup {Packet(w, rq_argv'[w])}
    BY <1>3 DEF OutSend
  <2>2. InStep(v)
    BY <2>1 DEF NumberInv
  <2>3. /\ Packet(w, rq_argv'[w]).thread = w
        /\ Packet(w, rq_argv'[w]).call = current[w]
        /\ Packet(w, rq_argv'[w]).seq = seq_nbr[w] % SeqMod
    BY DEF Packet
  <2>4. CASE v # w
    BY <2>1, <2>2, <2>3, <2>4
  <2>5. CASE v = w
    <3>1. SeqMod \in Nat
      BY UdpAssumption
    <3>2. Len(carried[w]) > 0 /\ carried[w][Len(carried[w])] = current[w]
      BY <1>3 DEF OutSend, CarriedInv
    <3>3. Len(carried[w]) \in Nat /\ carried[w] # <<>>
      BY <3>2 DEF OutTypeOK
    <3>4. Len(carried[w]) <= SeqMod
      BY <2>1, <2>5
    <3>5. PICK n \in Nat : n = Len(carried[w]) - 1 /\ n < SeqMod
      <4>1. Len(carried[w]) - 1 \in Nat /\ Len(carried[w]) - 1 < SeqMod
        BY <3>1, <3>2, <3>3, <3>4
      <4>2. QED
        BY <4>1, Zenon
    <3>6. n % SeqMod = n
      BY <3>1, <3>5, ModSmall
    <3>7. seq_nbr[w] % SeqMod = n
      BY <2>2, <2>5, <3>3, <3>5, <3>6
    <3>8. n + 1 = Len(carried[w]) /\ n + 1 \in 1..Len(carried[w])
      BY <3>2, <3>3, <3>5
    <3>9. QED
      BY <2>1, <2>2, <2>3, <2>5, <3>2, <3>7, <3>8
  <2>6. QED
    BY <2>4, <2>5
<1>4. ASSUME NEW w \in OutWorkers,
             \/ OutTimeout(w) \/ OutInterrupted(w) \/ OutRespond(w)
             \/ \E m \in respNet : OutReceive(w, m) \/ OutReceiveNothing(w, m)
      PROVE  UNCHANGED <<seq_nbr, carried, sent>>
  BY <1>4 DEF OutTimeout, OutInterrupted, OutRespond, OutReceive, OutReceiveNothing
<1>5. CASE Quiet
  BY <1>1, <1>5 DEF Quiet
<1>6. QED
  BY <1>1, <1>2, <1>3, <1>4, <1>5, OutSteps

-------------------------------------------------------------------------------
(* The outgoing half: theorems *)

LEMMA OutInvInit ==
  ASSUME NetInit, OutInit
  PROVE  OutInv
<1> USE OutAssumption
<1>1. /\ reqNet = {} /\ respNet = {} /\ kernel = [c \in Calls |-> "none"]
      /\ answer = [c \in Calls |-> NoCall] /\ collector = "get" /\ held = NoCall
      /\ pendingOut = <<>> /\ dropped = {} /\ sent = {}
      /\ opc = [w \in OutWorkers |-> "idle"] /\ current = [w \in OutWorkers |-> NoCall]
      /\ attempts = [w \in OutWorkers |-> 0] /\ r_pid = [w \in OutWorkers |-> Garbage]
  BY Zenon DEF NetInit, OutInit
<1>2. rq_argv \in [OutWorkers -> [arg0: Strings \cup {"r_pid"}, arg1: Strings]]
  <2>1. [arg0 |-> "", arg1 |-> ""] \in [arg0: Strings \cup {"r_pid"}, arg1: Strings]
    BY DEF Strings
  <2>2. rq_argv = [w \in OutWorkers |-> [arg0 |-> "", arg1 |-> ""]]
    BY Zenon DEF OutInit
  <2>3. QED
    BY <2>1, <2>2, Zenon
<1>3. /\ seq_nbr \in [OutWorkers -> UShort]
      /\ \A w \in OutWorkers : seq_nbr[w] = MinusOne
  <2>1. MinusOne \in UShort
    BY DEF UShort, MinusOne
  <2>2. seq_nbr = [w \in OutWorkers |-> MinusOne]
    BY Zenon DEF OutInit
  <2>3. QED
    BY <2>1, <2>2
<1>4. /\ carried \in [OutWorkers -> Seq(Calls)]
      /\ \A w \in OutWorkers : carried[w] = <<>>
  <2>1. carried = [w \in OutWorkers |-> <<>>]
    BY Zenon DEF OutInit
  <2>2. <<>> \in Seq(Calls)
    OBVIOUS
  <2>3. QED
    BY <2>1, <2>2, Zenon
<1>5. OutTypeOK
  BY <1>1, <1>2, <1>3, <1>4 DEF OutTypeOK, KernelStates, OutPlaces
<1>6. PlaceInv
  BY <1>1 DEF PlaceInv, Busy
<1>7. OneOwner
  <2>1. Queued = {} /\ Taken = {} /\ Collected = {}
    BY <1>1 DEF Queued, Taken, Collected
  <2>2. QED
    BY <1>1, <2>1 DEF OneOwner
<1>8. CarriedInv /\ SentInv /\ RetriesAlike
  BY <1>1, <1>4 DEF CarriedInv, SentInv, RetriesAlike, Busy
<1>9. ResponseInv /\ AnswerProvenance
  BY <1>1 DEF ResponseInv, AnswerProvenance
<1>10. NumberInv
  BY <1>1, <1>3, <1>4 DEF NumberInv
<1>11. QED
  BY <1>5, <1>6, <1>7, <1>8, <1>9, <1>10 DEF OutInv, OutBase

\* OutBase holds with servers that answer any number with any process id.
LEMMA OutBaseStep ==
  ASSUME OutBase,
         \/ OutNext
         \/ /\ UNCHANGED outVars
            /\ reqNet' \subseteq RequestPackets /\ respNet' \subseteq ResponsePackets
  PROVE  OutBase'
<1>1. /\ OutTypeOK /\ PlaceInv /\ OneOwner /\ CarriedInv
      /\ SentInv /\ RetriesAlike /\ NumberInv
  BY DEF OutBase
<1>2. OutNext \/ UNCHANGED outVars
  OBVIOUS
<1>3. OutTypeOK' /\ PlaceInv'
  <2>1. CASE OutNext
    BY <1>1, <2>1, CollectorTyped, WorkerTyped DEF OutNext
  <2>2. CASE /\ UNCHANGED outVars
             /\ reqNet' \subseteq RequestPackets /\ respNet' \subseteq ResponsePackets
    BY <1>1, <2>2 DEF outVars, OutTypeOK, PlaceInv
  <2>3. QED
    BY <2>1, <2>2
<1>4. OneOwner'
  BY <1>1, <1>2, OwnerKept DEF ownerVars, outVars
<1>5. CarriedInv'
  BY <1>1, <1>2, CarriedKept DEF outVars
<1>6. SentInv'
  BY <1>1, <1>2, SentKept DEF outVars
<1>7. RetriesAlike'
  BY <1>1, <1>2, RetriesKept DEF outVars
<1>8. NumberInv'
  BY <1>1, <1>2, NumberKept DEF outVars
<1>9. QED
  BY <1>3, <1>4, <1>5, <1>6, <1>7, <1>8 DEF OutBase

LEMMA OutInvStep ==
  ASSUME OutInv, OutNext \/ OutEnvironment \/ UNCHANGED <<netVars, outVars>>
  PROVE  OutInv'
<1>1. /\ OutBase /\ OutTypeOK /\ CarriedInv /\ SentInv
      /\ ResponseInv /\ AnswerProvenance
  BY DEF OutInv, OutBase
<1>2. OutNext \/ UNCHANGED outVars
  BY DEF OutEnvironment
<1>3. OutBase'
  <2>1. CASE OutEnvironment
    <3>1. reqNet' \subseteq RequestPackets
      BY <1>1, <2>1 DEF OutEnvironment, OutTypeOK
    <3>2. ASSUME NEW m \in respNet' PROVE m \in ResponsePackets
      <4>1. CASE m \in respNet
        BY <1>1, <4>1 DEF OutTypeOK
      <4>2. ASSUME NEW p \in sent, m = [host |-> p.host, thread |-> p.thread,
                                        seq |-> p.seq, r_pid |-> p.call]
            PROVE  m \in ResponsePackets
        BY <1>1, <4>2 DEF OutTypeOK, RequestPackets, ResponsePackets
      <4>3. QED
        BY <2>1, <4>1, <4>2 DEF OutEnvironment
    <3>3. QED
      BY <1>1, <2>1, <3>1, <3>2, OutBaseStep DEF OutEnvironment
  <2>2. CASE UNCHANGED <<netVars, outVars>>
    BY <1>1, <2>2, OutBaseStep DEF netVars, OutTypeOK
  <2>3. QED
    BY <1>1, <2>1, <2>2, OutBaseStep
<1>4. ResponseInv'
  BY <1>1, ResponseKept
<1>5. AnswerProvenance'
  BY <1>1, <1>2, ProvenanceKept DEF outVars
<1>6. QED
  BY <1>3, <1>4, <1>5 DEF OutInv

\* OutInv holds of the outgoing half of a daemon, whatever the network and
\* the servers it asks do.
THEOREM OutInvariance == OutSpec => []OutInv
<1>1. NetInit /\ OutInit => OutInv
  BY OutInvInit
<1>2. OutInv /\ [OutNext \/ OutEnvironment]_<<netVars, outVars>> => OutInv'
  BY OutInvStep
<1>3. QED
  BY <1>1, <1>2, PTL DEF OutSpec

\* Every request the collector took from the kernel is in one place until it
\* is answered, for any number of calls and workers, though the collector and
\* the workers meet only in the queue.
THEOREM OneOwnerHolds == OutSpec => []OneOwner
<1>1. OutInv => OneOwner
  BY DEF OutInv, OutBase
<1>2. QED
  BY <1>1, OutInvariance, PTL

\* A process id given to the kernel was returned for this call or for an
\* earlier one of the same worker, whatever is lost, delayed or duplicated.
THEOREM AnswerProvenanceHolds == OutSpec => []AnswerProvenance
<1>1. OutInv => AnswerProvenance
  BY DEF OutInv
<1>2. QED
  BY <1>1, OutInvariance, PTL

\* All attempts of a call send the same datagram, for any IKC_MAX_ATTEMPTS.
THEOREM RetriesAlikeHolds == OutSpec => []RetriesAlike
<1>1. OutInv => RetriesAlike
  BY DEF OutInv, OutBase
<1>2. QED
  BY <1>1, OutInvariance, PTL

-------------------------------------------------------------------------------
(* The incoming half: its steps *)

\* A search of the backlog list finds an entry when there is one.
LEMMA FirstIsMember ==
  ASSUME NEW ks \in SUBSET Nat, ks # {}
  PROVE  First(ks) \in ks
<1> DEFINE LessThan == {ss \in Nat \X Nat : ss[1] < ss[2]}
<1>1. IsWellFoundedOn(LessThan, Nat)
  BY NatLessThanWellFounded, Zenon DEF OpToRel
<1>2. PICK R : R = LessThan
  OBVIOUS
<1>3. PICK k \in ks : \A j \in ks : ~(<<j, k>> \in R)
  BY <1>1, <1>2, WFMin, Zenon
<1>4. \A j \in ks : k <= j
  <2>1. ASSUME NEW j \in ks PROVE k <= j
    <3>1. ~(j < k)
      BY <1>2, <1>3
    <3>2. QED
      BY <3>1
  <2>2. QED
    BY <2>1
<1>5. QED
  BY <1>4 DEF First

\* ikcbl_remove_from_list takes one entry out and leaves the others.
LEMMA CutLeavesOthers ==
  ASSUME NEW S, NEW seq \in Seq(S), NEW k \in 1..Len(seq)
  PROVE  /\ CutAt(seq, k) \in Seq(S)
         /\ \A j \in 1..Len(CutAt(seq, k)) : \E i \in 1..Len(seq) : CutAt(seq, k)[j] = seq[i]
         /\ \A i \in 1..Len(seq) : i # k => \E j \in 1..Len(CutAt(seq, k)) : CutAt(seq, k)[j] = seq[i]
<1>1. Len(seq) \in Nat /\ Len(seq) - 1 \in Nat
  OBVIOUS
<1>2. PICK n \in Nat : n = Len(seq) - 1
  BY <1>1
<1>3. CutAt(seq, k) = [j \in 1..n |-> IF j < k THEN seq[j] ELSE seq[j + 1]]
  BY <1>2 DEF CutAt
<1>4. \A j \in 1..n : /\ j \in 1..Len(seq) /\ j + 1 \in 1..Len(seq)
                       /\ CutAt(seq, k)[j] = IF j < k THEN seq[j] ELSE seq[j + 1]
  BY <1>1, <1>2, <1>3
<1>5. CutAt(seq, k) \in [1..n -> S]
  BY <1>3, <1>4
<1>6. CutAt(seq, k) \in Seq(S) /\ Len(CutAt(seq, k)) = n
  BY <1>5
<1>7. ASSUME NEW i \in 1..Len(seq), i # k
      PROVE  \E j \in 1..n : CutAt(seq, k)[j] = seq[i]
  <2>1. CASE i < k
    <3>1. i \in 1..n
      BY <1>1, <1>2, <2>1
    <3>2. QED
      BY <1>4, <2>1, <3>1
  <2>2. CASE ~(i < k)
    <3>1. i - 1 \in 1..n /\ ~(i - 1 < k) /\ (i - 1) + 1 = i
      BY <1>1, <1>2, <1>7, <2>2
    <3>2. CutAt(seq, k)[i - 1] = seq[(i - 1) + 1]
      BY <1>4, <3>1
    <3>3. QED
      BY <3>1, <3>2
  <2>3. QED
    BY <2>1, <2>2
<1>8. QED
  BY <1>4, <1>6, <1>7

\* The entry a search of the backlog list stops at.
LEMMA MatchFound ==
  ASSUME InTypeOK, NEW p, Matches(p) # {}
  PROVE  /\ First(Matches(p)) \in 1..Len(backlog)
         /\ Number(backlog[First(Matches(p))]) = Number(p)
         /\ backlog[First(Matches(p))] \in RequestPackets
<1>1. Len(backlog) \in Nat /\ \A k \in 1..Len(backlog) : backlog[k] \in RequestPackets
  BY DEF InTypeOK
<1>2. Matches(p) \in SUBSET Nat
  BY <1>1 DEF Matches
<1>3. First(Matches(p)) \in Matches(p)
  BY <1>2, FirstIsMember
<1>4. QED
  BY <1>1, <1>3 DEF Matches

LEMMA ResponseType ==
  ASSUME NEW p \in RequestPackets
  PROVE  Response(p, p.call) \in ResponsePackets
BY DEF Response, RequestPackets, ResponsePackets

\* What Forget does to the list: nothing, or it cuts an entry with the number
\* of the worker's own request, or the list dangles.
LEMMA ForgetCuts ==
  ASSUME InTypeOK, NEW i \in InWorkers, Forget(i)
  PROVE  \/ backlog' = backlog /\ list' = list
         \/ backlog' = backlog /\ list' = "dangling"
         \/ /\ list' = list
            /\ \E k \in 1..Len(backlog) : /\ Number(backlog[k]) = Number(request[i])
                                           /\ backlog' = CutAt(backlog, k)
<1>1. CASE Matches(request[i]) # {} /\ First(Matches(request[i])) = 1
  BY <1>1 DEF Forget
<1>2. CASE Matches(request[i]) # {} /\ First(Matches(request[i])) # 1
  BY <1>2, MatchFound DEF Forget
<1>3. CASE Matches(request[i]) = {}
  BY <1>3 DEF Forget
<1>4. QED
  BY <1>1, <1>2, <1>3

\* A list that refers to freed memory stays one.
LEMMA DanglesForEver ==
  ASSUME InTypeOK, InNext \/ InEnvironment \/ UNCHANGED <<netVars, inVars>>,
         list' = "ok"
  PROVE  list = "ok"
<1> USE DEF netVars, history
<1>1. ASSUME NEW m \in reqNet, CollectorReceive(m) \/ CollectorDrop(m)
      PROVE  UNCHANGED list
  BY <1>1 DEF CollectorReceive, CollectorDrop
<1>2. ASSUME NEW i \in InWorkers, Forget(i) PROVE list' = list \/ list' = "dangling"
  BY <1>2 DEF Forget
<1>3. ASSUME NEW i \in InWorkers, InWorkerNext(i) PROVE list' = list \/ list' = "dangling"
  BY <1>2, <1>3 DEF InWorkerNext, InWait, InQueueEmpty, InDequeue, LookupFound,
     LookupMissed, Proceed, Respond, Add, WildRead, LookupReused, RequestReused
<1>4. QED
  BY <1>1, <1>3 DEF InNext, InSignal, InEnvironment, inVars

\* The types of the incoming half, step by step.
LEMMA InTyped ==
  ASSUME InTypeOK, ExecutedInv,
         InNext \/ InEnvironment \/ UNCHANGED <<netVars, inVars>>
  PROVE  InTypeOK'
<1> USE InAssumption DEF netVars, history, InPlaces
<1>1. ASSUME NEW m \in reqNet, CollectorReceive(m) PROVE InTypeOK'
  <2>1. m \in RequestPackets /\ pendingIn \in Seq(RequestPackets)
    BY <1>1 DEF InTypeOK
  <2>2. /\ Append(pendingIn, m) \in Seq(RequestPackets)
        /\ Len(Append(pendingIn, m)) = Len(pendingIn) + 1
    BY <2>1
  <2>3. Len(pendingIn') <= MaxPendingIn
    BY <1>1, <2>1, <2>2 DEF CollectorReceive
  <2>4. reqNet' \subseteq RequestPackets
    BY <1>1 DEF CollectorReceive, Delivered, InTypeOK
  <2>5. QED
    BY <1>1, <2>2, <2>3, <2>4 DEF CollectorReceive, InTypeOK
<1>2. ASSUME NEW m \in reqNet, CollectorDrop(m) PROVE InTypeOK'
  BY <1>2 DEF CollectorDrop, Delivered, InTypeOK
<1>3. CASE InSignal
  BY <1>3 DEF InSignal, InTypeOK
<1>4. ASSUME NEW i \in InWorkers, InWait(i) \/ InQueueEmpty(i) \/ LookupMissed(i)
      PROVE  InTypeOK'
  BY <1>4 DEF InWait, InQueueEmpty, LookupMissed, InGoto, InTypeOK
<1>5. ASSUME NEW i \in InWorkers, InDequeue(i) PROVE InTypeOK'
  <2>1. pendingIn \in Seq(RequestPackets) /\ pendingIn # <<>>
    BY <1>5 DEF InDequeue, InTypeOK
  <2>2. /\ Head(pendingIn) \in RequestPackets
        /\ Tail(pendingIn) \in Seq(RequestPackets)
        /\ Len(Tail(pendingIn)) = Len(pendingIn) - 1 /\ Len(pendingIn) \in Nat
    BY <2>1
  <2>3. Len(pendingIn') <= MaxPendingIn
    BY <1>5, <2>2 DEF InDequeue, InTypeOK
  <2>4. QED
    BY <1>5, <2>2, <2>3 DEF InDequeue, InGoto, InTypeOK
<1>6. ASSUME NEW i \in InWorkers, LookupFound(i) PROVE InTypeOK'
  <2>1. backlog[First(Matches(request[i]))] \in RequestPackets
    BY <1>6, MatchFound DEF LookupFound
  <2>2. respNet' \subseteq ResponsePackets
    BY <1>6, <2>1, ResponseType DEF LookupFound, Send, InTypeOK
  <2>3. QED
    BY <1>6, <2>2 DEF LookupFound, InGoto, InTypeOK
<1>7. ASSUME NEW i \in InWorkers, Forget(i) PROVE InTypeOK'
  <2>1. backlog' \in Seq(RequestPackets) /\ list' \in {"ok", "dangling"}
    BY <1>7, ForgetCuts, CutLeavesOthers DEF InTypeOK
  <2>2. QED
    BY <1>7, <2>1 DEF Forget, InGoto, InTypeOK
<1>8. ASSUME NEW i \in InWorkers, Proceed(i) PROVE InTypeOK'
  <2>1. request[i] \in RequestPackets
    BY <1>8 DEF Proceed, InGoto, ExecutedInv
  <2>2. QED
    BY <1>8, <2>1 DEF Proceed, InGoto, InTypeOK
<1>9. ASSUME NEW i \in InWorkers, Respond(i) PROVE InTypeOK'
  <2>1. request[i] \in RequestPackets
    BY <1>9 DEF Respond, InGoto, ExecutedInv
  <2>2. respNet' \subseteq ResponsePackets
    BY <1>9, <2>1, ResponseType DEF Respond, Send, InTypeOK
  <2>3. QED
    BY <1>9, <2>2 DEF Respond, InGoto, InTypeOK
<1>10. ASSUME NEW i \in InWorkers, Add(i) PROVE InTypeOK'
  <2>1. request[i] \in RequestPackets
    BY <1>10 DEF Add, InGoto, ExecutedInv
  <2>2. <<request[i]>> \o backlog \in Seq(RequestPackets)
    BY <2>1 DEF InTypeOK
  <2>3. QED
    BY <1>10, <2>2 DEF Add, InGoto, InTypeOK
<1>11. ASSUME NEW i \in InWorkers, WildRead(i) PROVE InTypeOK'
  BY <1>11 DEF WildRead, InGoto, InTypeOK
<1>12. CASE InEnvironment
  BY <1>12 DEF InEnvironment, inVars, InTypeOK
<1>13. CASE UNCHANGED <<netVars, inVars>>
  BY <1>13 DEF inVars, InTypeOK
<1>14. ASSUME NEW i \in InWorkers, NEW p \in executed, request[i] \in RequestPackets
       PROVE  Response(request[i], p.call) \in ResponsePackets
  BY <1>14 DEF Response, RequestPackets, ResponsePackets, InTypeOK
<1>15. ASSUME NEW i \in InWorkers, LookupReused(i) PROVE InTypeOK'
  <2>1. request[i] \in RequestPackets
    BY <1>15 DEF LookupReused, InGoto, ExecutedInv
  <2>2. respNet' \subseteq ResponsePackets
    BY <1>14, <1>15, <2>1 DEF LookupReused, Send, InTypeOK
  <2>3. QED
    BY <1>15, <2>2 DEF LookupReused, InGoto, InTypeOK
<1>16. ASSUME NEW i \in InWorkers, RequestReused(i) PROVE InTypeOK'
  <2>1. \A k \in 1..Len(pendingIn) : pendingIn[k] \in RequestPackets
    BY DEF InTypeOK
  <2>2. request' \in [InWorkers -> RequestPackets \cup {NoPacket}]
    BY <1>16, <2>1 DEF RequestReused, InTypeOK
  <2>3. respNet' \subseteq ResponsePackets
    <3>1. CASE UNCHANGED respNet
      BY <3>1 DEF InTypeOK
    <3>2. CASE InGoto(i, "respond", "add")
               /\ \E p \in executed : respNet' = Send(respNet, Response(request[i], p.call))
      <4>1. request[i] \in RequestPackets
        BY <3>2 DEF InGoto, ExecutedInv
      <4>2. QED
        BY <1>14, <3>2, <4>1 DEF Send, InTypeOK
    <3>3. QED
      BY <1>16, <3>1, <3>2 DEF RequestReused
  <2>4. ipc' \in [InWorkers -> InPlaces]
    BY <1>16 DEF RequestReused, InGoto, InTypeOK
  <2>5. QED
    BY <1>16, <2>2, <2>3, <2>4 DEF RequestReused, InTypeOK
<1>17. QED
  BY <1>1, <1>2, <1>3, <1>4, <1>5, <1>6, <1>7, <1>8, <1>9, <1>10, <1>11, <1>12, <1>13,
     <1>15, <1>16
  DEF InNext, InWorkerNext

\* A worker that moves moves alone.
LEMMA GotoMoves ==
  ASSUME InTypeOK, NEW i \in InWorkers, NEW from, NEW to, InGoto(i, from, to)
  PROVE  /\ ipc[i] = from /\ ipc'[i] = to
         /\ \A j \in InWorkers : j # i => ipc'[j] = ipc[j]
BY DEF InGoto, InTypeOK

\* Respond and Add come after Proceed: ExecutedInv, step by step.
LEMMA ExecutedKept ==
  ASSUME InTypeOK, ExecutedInv,
         InNext \/ InEnvironment \/ UNCHANGED <<netVars, inVars>>
  PROVE  ExecutedInv'
<1> USE DEF netVars, history
<1> DEFINE InHand == {"lookup", "forget", "proceed", "respond", "add"}
<1>0. list' = "ok" => list = "ok"
  BY DanglesForEver
<1>1. ASSUME \A j \in InWorkers :
               \/ ipc'[j] = ipc[j] /\ request'[j] = request[j]
               \/ ipc'[j] \notin InHand
               \/ ipc'[j] \in {"lookup", "forget", "proceed"} /\ request'[j] \in RequestPackets
               \/ /\ ipc'[j] \in {"respond", "add"} /\ request'[j] \in RequestPackets
                  /\ list = "ok" => request'[j] \in executed',
             executed \subseteq executed',
             list = "ok" => \A k \in 1..Len(backlog') : backlog'[k] \in executed'
      PROVE  ExecutedInv'
  BY <1>0, <1>1 DEF ExecutedInv
<1>2. ASSUME UNCHANGED <<ipc, request, backlog, executed>> PROVE ExecutedInv'
  BY <1>0, <1>2 DEF ExecutedInv
<1>3. ASSUME NEW m \in reqNet, CollectorReceive(m) \/ CollectorDrop(m)
      PROVE  ExecutedInv'
  BY <1>2, <1>3 DEF CollectorReceive, CollectorDrop
<1>4. CASE InEnvironment \/ UNCHANGED <<netVars, inVars>>
  BY <1>2, <1>4 DEF InEnvironment, inVars
<1>5. CASE InSignal
  <2>1. \A j \in InWorkers : ipc'[j] = ipc[j] \/ ipc'[j] = "dequeue"
    BY <1>5 DEF InSignal, InTypeOK
  <2>2. UNCHANGED <<request, backlog, executed>>
    BY <1>5 DEF InSignal
  <2>3. QED
    BY <1>1, <2>1, <2>2 DEF ExecutedInv
<1>6. ASSUME NEW i \in InWorkers, InWait(i) \/ InQueueEmpty(i) \/ WildRead(i)
      PROVE  ExecutedInv'
  <2>1. UNCHANGED <<request, backlog, executed>>
    BY <1>6 DEF InWait, InQueueEmpty, WildRead
  <2>2. \A j \in InWorkers : ipc'[j] = ipc[j] \/ ipc'[j] \in {"waiting", "idle", "hung"}
    BY <1>6, GotoMoves DEF InWait, InQueueEmpty, WildRead
  <2>3. QED
    BY <1>1, <2>1, <2>2 DEF ExecutedInv
<1>7. ASSUME NEW i \in InWorkers, InDequeue(i) PROVE ExecutedInv'
  <2>1. /\ Head(pendingIn) \in RequestPackets
        /\ request'[i] = Head(pendingIn)
        /\ \A j \in InWorkers : j # i => request'[j] = request[j]
    BY <1>7 DEF InDequeue, InTypeOK
  <2>2. UNCHANGED <<backlog, executed>>
    BY <1>7 DEF InDequeue
  <2>3. ipc'[i] = "lookup" /\ \A j \in InWorkers : j # i => ipc'[j] = ipc[j]
    BY <1>7, GotoMoves DEF InDequeue
  <2>4. QED
    BY <1>1, <2>1, <2>2, <2>3 DEF ExecutedInv
<1>8. ASSUME NEW i \in InWorkers, LookupFound(i) \/ LookupReused(i) PROVE ExecutedInv'
  <2>1. /\ \A j \in InWorkers : j # i => request'[j] = request[j]
        /\ UNCHANGED <<backlog, executed>>
    BY <1>8 DEF LookupFound, LookupReused, InTypeOK
  <2>2. ipc'[i] = "dequeue" /\ \A j \in InWorkers : j # i => ipc'[j] = ipc[j]
    BY <1>8, GotoMoves DEF LookupFound, LookupReused
  <2>3. QED
    BY <1>1, <2>1, <2>2 DEF ExecutedInv
<1>9. ASSUME NEW i \in InWorkers, LookupMissed(i) \/ Forget(i) PROVE ExecutedInv'
  <2>1. /\ ipc[i] \in {"lookup", "forget"} /\ ipc'[i] \in {"forget", "proceed"}
        /\ \A j \in InWorkers : j # i => ipc'[j] = ipc[j]
    BY <1>9, GotoMoves DEF LookupMissed, Forget
  <2>2. UNCHANGED <<request, executed>>
    BY <1>9 DEF LookupMissed, Forget
  <2>3. \A k \in 1..Len(backlog') : \E l \in 1..Len(backlog) : backlog'[k] = backlog[l]
    <3>1. CASE LookupMissed(i)
      BY <3>1 DEF LookupMissed
    <3>2. CASE Forget(i)
      <4>1. backlog \in Seq(RequestPackets)
        BY DEF InTypeOK
      <4>2. QED
        BY <3>2, <4>1, ForgetCuts, CutLeavesOthers
    <3>3. QED
      BY <1>9, <3>1, <3>2
  <2>4. request[i] \in RequestPackets
    BY <2>1 DEF ExecutedInv
  <2>5. QED
    BY <1>1, <2>1, <2>2, <2>3, <2>4 DEF ExecutedInv
<1>10. ASSUME NEW i \in InWorkers, Proceed(i) PROVE ExecutedInv'
  <2>1. /\ ipc[i] = "proceed" /\ ipc'[i] = "respond"
        /\ \A j \in InWorkers : j # i => ipc'[j] = ipc[j]
    BY <1>10, GotoMoves DEF Proceed
  <2>2. executed' = executed \cup {request[i]} /\ UNCHANGED <<request, backlog>>
    BY <1>10 DEF Proceed
  <2>3. request[i] \in RequestPackets
    BY <2>1 DEF ExecutedInv
  <2>4. QED
    BY <1>1, <2>1, <2>2, <2>3 DEF ExecutedInv
<1>11. ASSUME NEW i \in InWorkers, Respond(i) PROVE ExecutedInv'
  <2>1. /\ ipc[i] = "respond" /\ ipc'[i] = "add"
        /\ \A j \in InWorkers : j # i => ipc'[j] = ipc[j]
    BY <1>11, GotoMoves DEF Respond
  <2>2. UNCHANGED <<request, backlog, executed>>
    BY <1>11 DEF Respond
  <2>3. QED
    BY <1>1, <2>1, <2>2 DEF ExecutedInv
<1>12. ASSUME NEW i \in InWorkers, Add(i) PROVE ExecutedInv'
  <2>1. /\ ipc[i] = "add" /\ ipc'[i] = "dequeue"
        /\ \A j \in InWorkers : j # i => ipc'[j] = ipc[j]
    BY <1>12, GotoMoves DEF Add
  <2>2. /\ \A j \in InWorkers : j # i => request'[j] = request[j]
        /\ backlog' = <<request[i]>> \o backlog
        /\ UNCHANGED executed
    BY <1>12 DEF Add, InTypeOK
  <2>3. request[i] \in RequestPackets /\ (list = "ok" => request[i] \in executed)
    BY <2>1 DEF ExecutedInv
  <2>4. backlog \in Seq(RequestPackets)
    BY DEF InTypeOK
  <2>5. \A k \in 1..Len(backlog') : \/ backlog'[k] = request[i]
                                     \/ \E l \in 1..Len(backlog) : backlog'[k] = backlog[l]
    BY <2>2, <2>3, <2>4
  <2>6. QED
    BY <1>1, <2>1, <2>2, <2>3, <2>5 DEF ExecutedInv
<1>13. ASSUME NEW i \in InWorkers, RequestReused(i) PROVE ExecutedInv'
  <2>1. list' = "dangling"
    BY <1>13 DEF RequestReused
  <2>2. \A k \in 1..Len(pendingIn) : pendingIn[k] \in RequestPackets
    BY DEF InTypeOK
  <2>3. \A j \in InWorkers : request'[j] = request[j] \/ request'[j] \in RequestPackets
    BY <1>13, <2>2 DEF RequestReused, InTypeOK
  <2>4. \A j \in InWorkers : ipc'[j] \in InHand => ipc[j] \in InHand
    BY <1>13, GotoMoves DEF RequestReused
  <2>5. QED
    BY <2>1, <2>3, <2>4 DEF ExecutedInv
<1>14. QED
  BY <1>3, <1>4, <1>5, <1>6, <1>7, <1>8, <1>9, <1>10, <1>11, <1>12, <1>13
  DEF InNext, InWorkerNext

\* What goes out is an executed request's result, from a worker that has just
\* executed it or from the backlog list.
LEMMA ResponsesKept ==
  ASSUME InTypeOK, ExecutedInv, ResponseIsAnExecution,
         InNext \/ InEnvironment \/ UNCHANGED <<netVars, inVars>>
  PROVE  ResponseIsAnExecution'
<1> USE DEF netVars, history
<1>0. list' = "ok" => list = "ok"
  BY DanglesForEver
<1>1. ASSUME executed \subseteq executed',
             list = "ok" => \A m \in respNet' :
               m \in respNet \/ \E p \in executed : m = Response(p, p.call)
      PROVE  ResponseIsAnExecution'
  BY <1>0, <1>1 DEF ResponseIsAnExecution
<1>2. ASSUME NEW i \in InWorkers, LookupFound(i) PROVE ResponseIsAnExecution'
  <2> DEFINE entry == backlog[First(Matches(request[i]))]
  <2>1. First(Matches(request[i])) \in 1..Len(backlog)
    BY <1>2, MatchFound DEF LookupFound
  <2>2. list = "ok" => entry \in executed
    BY <2>1 DEF ExecutedInv
  <2>3. respNet' = respNet \cup {Response(entry, entry.call)} /\ UNCHANGED executed
    BY <1>2 DEF LookupFound, Send
  <2>4. QED
    BY <1>1, <2>2, <2>3
<1>3. ASSUME NEW i \in InWorkers, Respond(i) PROVE ResponseIsAnExecution'
  <2>1. list = "ok" => request[i] \in executed
    BY <1>3 DEF Respond, InGoto, ExecutedInv
  <2>2. respNet' = respNet \cup {Response(request[i], request[i].call)} /\ UNCHANGED executed
    BY <1>3 DEF Respond, Send
  <2>3. QED
    BY <1>1, <2>1, <2>2
<1>4. ASSUME NEW i \in InWorkers, Proceed(i) PROVE ResponseIsAnExecution'
  BY <1>1, <1>4 DEF Proceed
<1>5. ASSUME NEW i \in InWorkers,
             \/ InWait(i) \/ InQueueEmpty(i) \/ InDequeue(i) \/ LookupMissed(i)
             \/ Forget(i) \/ Add(i) \/ WildRead(i)
      PROVE  UNCHANGED <<respNet, executed>>
  BY <1>5 DEF InWait, InQueueEmpty, InDequeue, LookupMissed, Forget, Add, WildRead
<1>6. ASSUME NEW m \in reqNet, CollectorReceive(m) \/ CollectorDrop(m)
      PROVE  UNCHANGED <<respNet, executed>>
  BY <1>6 DEF CollectorReceive, CollectorDrop
<1>7. CASE InSignal
  BY <1>1, <1>7 DEF InSignal
<1>8. CASE InEnvironment \/ UNCHANGED <<netVars, inVars>>
  BY <1>1, <1>8 DEF InEnvironment, inVars
<1>9. ASSUME NEW i \in InWorkers, LookupReused(i) \/ RequestReused(i)
      PROVE  ResponseIsAnExecution'
  BY <1>9 DEF LookupReused, RequestReused, ResponseIsAnExecution
<1>10. QED
  BY <1>1, <1>2, <1>3, <1>4, <1>5, <1>6, <1>7, <1>8, <1>9 DEF InNext, InWorkerNext

\* Whether the backlog list or a worker knows the number of a request.
KnownAs(n) ==
  \/ \E k \in 1..Len(backlog) : Number(backlog[k]) = n
  \/ \E i \in InWorkers : ipc[i] \in {"proceed", "respond", "add"} /\ Number(request[i]) = n

\* A number is known from before its request is executed on: the entry that
\* Forget removes is of the number its worker goes on to execute.
LEMMA KnownKept ==
  ASSUME InTypeOK, ExecutedInv, NothingForgotten,
         InNext \/ InEnvironment \/ UNCHANGED <<netVars, inVars>>
  PROVE  NothingForgotten'
<1> USE DEF netVars, history
<1> DEFINE Later == {"proceed", "respond", "add"}
<1>1. ASSUME list' = "ok" => list = "ok",
             \A p \in executed : KnownAs(Number(p)) => KnownAs(Number(p))',
             \A p \in executed' : p \in executed \/ KnownAs(Number(p))'
      PROVE  NothingForgotten'
  BY <1>1 DEF NothingForgotten, KnownAs
<1>2. ASSUME list' = list \/ list' = "dangling", executed' = executed,
             \A k \in 1..Len(backlog) : \E l \in 1..Len(backlog') : backlog'[l] = backlog[k],
             \A j \in InWorkers : ipc[j] \in Later => ipc'[j] \in Later /\ request'[j] = request[j]
      PROVE  NothingForgotten'
  <2>1. ASSUME NEW p \in executed, KnownAs(Number(p)) PROVE KnownAs(Number(p))'
    <3>1. CASE \E k \in 1..Len(backlog) : Number(backlog[k]) = Number(p)
      BY <1>2, <3>1 DEF KnownAs
    <3>2. CASE \E i \in InWorkers : ipc[i] \in Later /\ Number(request[i]) = Number(p)
      BY <1>2, <3>2 DEF KnownAs
    <3>3. QED
      BY <2>1, <3>1, <3>2 DEF KnownAs
  <2>2. QED
    BY <1>1, <1>2, <2>1
<1>3. ASSUME NEW m \in reqNet, CollectorReceive(m) \/ CollectorDrop(m)
      PROVE  NothingForgotten'
  BY <1>2, <1>3 DEF CollectorReceive, CollectorDrop
<1>4. CASE InEnvironment \/ UNCHANGED <<netVars, inVars>>
  BY <1>2, <1>4 DEF InEnvironment, inVars
<1>5. CASE InSignal
  <2>1. \A j \in InWorkers : ipc[j] \in Later => ipc'[j] = ipc[j]
    BY <1>5 DEF InSignal, InTypeOK
  <2>2. UNCHANGED <<request, backlog, executed, list>>
    BY <1>5 DEF InSignal
  <2>3. QED
    BY <1>2, <2>1, <2>2
<1>6. ASSUME NEW i \in InWorkers,
             \/ InWait(i) \/ InQueueEmpty(i) \/ InDequeue(i)
             \/ LookupFound(i) \/ LookupMissed(i) \/ WildRead(i)
      PROVE  NothingForgotten'
  <2>1. \A j \in InWorkers : ipc[j] \in Later => ipc'[j] = ipc[j]
    BY <1>6, GotoMoves
    DEF InWait, InQueueEmpty, InDequeue, LookupFound, LookupMissed, WildRead
  <2>2. \A j \in InWorkers : ipc[j] \in Later => request'[j] = request[j]
    <3>1. CASE InDequeue(i) \/ LookupFound(i)
      BY <3>1, GotoMoves DEF InDequeue, LookupFound, InTypeOK
    <3>2. CASE InWait(i) \/ InQueueEmpty(i) \/ LookupMissed(i) \/ WildRead(i)
      BY <3>2 DEF InWait, InQueueEmpty, LookupMissed, WildRead
    <3>3. QED
      BY <1>6, <3>1, <3>2
  <2>3. UNCHANGED <<backlog, executed, list>>
    BY <1>6 DEF InWait, InQueueEmpty, InDequeue, LookupFound, LookupMissed, WildRead
  <2>4. QED
    BY <1>2, <2>1, <2>2, <2>3
<1>7. ASSUME NEW i \in InWorkers, Forget(i) PROVE NothingForgotten'
  <2>1. /\ ipc[i] = "forget" /\ ipc'[i] = "proceed"
        /\ \A j \in InWorkers : j # i => ipc'[j] = ipc[j]
    BY <1>7, GotoMoves DEF Forget
  <2>2. UNCHANGED <<request, executed>>
    BY <1>7 DEF Forget
  <2>3. CASE backlog' = backlog /\ (list' = list \/ list' = "dangling")
    BY <1>2, <2>1, <2>2, <2>3
  <2>4. ASSUME list' = list, NEW k \in 1..Len(backlog),
               Number(backlog[k]) = Number(request[i]), backlog' = CutAt(backlog, k)
        PROVE  NothingForgotten'
    <3>1. backlog \in Seq(RequestPackets)
      BY DEF InTypeOK
    <3>2. \A l \in 1..Len(backlog) : l # k => \E j \in 1..Len(backlog') : backlog'[j] = backlog[l]
      BY <2>4, <3>1, CutLeavesOthers
    <3>3. ASSUME NEW p \in executed, KnownAs(Number(p)) PROVE KnownAs(Number(p))'
      <4>1. CASE Number(p) = Number(request[i])
        BY <2>1, <2>2, <4>1 DEF KnownAs
      <4>2. CASE Number(p) # Number(request[i])
        <5>1. CASE \E l \in 1..Len(backlog) : Number(backlog[l]) = Number(p)
          BY <2>4, <3>2, <4>2, <5>1 DEF KnownAs
        <5>2. CASE \E j \in InWorkers : ipc[j] \in Later /\ Number(request[j]) = Number(p)
          BY <2>1, <2>2, <5>2 DEF KnownAs
        <5>3. QED
          BY <3>3, <5>1, <5>2 DEF KnownAs
      <4>3. QED
        BY <4>1, <4>2
    <3>4. QED
      BY <1>1, <2>2, <2>4, <3>3
  <2>5. QED
    BY <1>7, <2>3, <2>4, ForgetCuts
<1>8. ASSUME NEW i \in InWorkers, Proceed(i) PROVE NothingForgotten'
  <2>1. /\ ipc[i] = "proceed" /\ ipc'[i] = "respond"
        /\ \A j \in InWorkers : j # i => ipc'[j] = ipc[j]
    BY <1>8, GotoMoves DEF Proceed
  <2>2. executed' = executed \cup {request[i]} /\ UNCHANGED <<request, backlog, list>>
    BY <1>8 DEF Proceed
  <2>3. KnownAs(Number(request[i]))'
    BY <2>1, <2>2 DEF KnownAs
  <2>4. \A p \in executed : KnownAs(Number(p)) => KnownAs(Number(p))'
    BY <2>1, <2>2 DEF KnownAs
  <2>5. \A p \in executed' : p \in executed \/ KnownAs(Number(p))'
    BY <2>2, <2>3
  <2>6. QED
    BY <1>1, <2>2, <2>4, <2>5
<1>9. ASSUME NEW i \in InWorkers, Respond(i) PROVE NothingForgotten'
  <2>1. /\ ipc[i] = "respond" /\ ipc'[i] = "add"
        /\ \A j \in InWorkers : j # i => ipc'[j] = ipc[j]
    BY <1>9, GotoMoves DEF Respond
  <2>2. UNCHANGED <<request, backlog, executed, list>>
    BY <1>9 DEF Respond
  <2>3. QED
    BY <1>2, <2>1, <2>2
<1>10. ASSUME NEW i \in InWorkers, Add(i) PROVE NothingForgotten'
  <2>1. /\ ipc[i] = "add" /\ ipc'[i] = "dequeue"
        /\ \A j \in InWorkers : j # i => ipc'[j] = ipc[j]
    BY <1>10, GotoMoves DEF Add
  <2>2. /\ \A j \in InWorkers : j # i => request'[j] = request[j]
        /\ backlog' = <<request[i]>> \o backlog
        /\ UNCHANGED <<executed, list>>
    BY <1>10 DEF Add, InTypeOK
  <2>3. request[i] \in RequestPackets /\ backlog \in Seq(RequestPackets)
    BY <2>1 DEF ExecutedInv, InTypeOK
  <2>4. 1 \in 1..Len(backlog') /\ backlog'[1] = request[i]
    BY <2>2, <2>3
  <2>5. ASSUME NEW k \in 1..Len(backlog)
        PROVE  \E l \in 1..Len(backlog') : backlog'[l] = backlog[k]
    <3>1. k + 1 \in 1..Len(backlog') /\ backlog'[k + 1] = backlog[k]
      BY <2>2, <2>3
    <3>2. QED
      BY <3>1
  <2>6. ASSUME NEW p \in executed, KnownAs(Number(p)) PROVE KnownAs(Number(p))'
    <3>1. CASE \E k \in 1..Len(backlog) : Number(backlog[k]) = Number(p)
      BY <2>5, <3>1 DEF KnownAs
    <3>2. ASSUME NEW j \in InWorkers, ipc[j] \in Later, Number(request[j]) = Number(p)
          PROVE  KnownAs(Number(p))'
      <4>1. CASE j = i
        BY <2>4, <3>2, <4>1 DEF KnownAs
      <4>2. CASE j # i
        BY <2>1, <2>2, <3>2, <4>2 DEF KnownAs
      <4>3. QED
        BY <4>1, <4>2
    <3>3. QED
      BY <2>6, <3>1, <3>2 DEF KnownAs
  <2>7. QED
    BY <1>1, <2>2, <2>6
<1>11. ASSUME NEW i \in InWorkers, LookupReused(i) \/ RequestReused(i)
       PROVE  NothingForgotten'
  BY <1>11 DEF LookupReused, RequestReused, NothingForgotten
<1>12. QED
  BY <1>3, <1>4, <1>5, <1>6, <1>7, <1>8, <1>9, <1>10, <1>11 DEF InNext, InWorkerNext

-------------------------------------------------------------------------------
(* The incoming half: theorems *)

LEMMA InInvInit ==
  ASSUME NetInit, InInit
  PROVE  InInv
<1>1. InTypeOK
  BY InAssumption DEF NetInit, InInit, InTypeOK, InPlaces
<1>2. ExecutedInv
  BY DEF InInit, ExecutedInv
<1>3. ResponseIsAnExecution /\ NothingForgotten
  BY DEF NetInit, InInit, ResponseIsAnExecution, NothingForgotten
<1>4. QED
  BY <1>1, <1>2, <1>3 DEF InInv

LEMMA InInvStep ==
  ASSUME InInv, InNext \/ InEnvironment \/ UNCHANGED <<netVars, inVars>>
  PROVE  InInv'
BY InTyped, ExecutedKept, ResponsesKept, KnownKept DEF InInv

\* InInv holds of the incoming half of a daemon, whatever the network and the
\* clients do.
THEOREM InInvariance == InSpec => []InInv
<1>1. NetInit /\ InInit => InInv
  BY InInvInit
<1>2. InInv /\ [InNext \/ InEnvironment]_<<netVars, inVars>> => InInv'
  BY InInvStep
<1>3. QED
  BY <1>1, <1>2, PTL DEF InSpec

\* No response goes out before its request was executed, none under a number
\* that is not the request's, however many workers share the backlog list, as
\* long as that list refers to no memory it has freed.
THEOREM ResponseIsAnExecutionHolds == InSpec => []ResponseIsAnExecution
<1>1. InInv => ResponseIsAnExecution
  BY DEF InInv
<1>2. QED
  BY <1>1, InInvariance, PTL

\* An executed number stays known while the list is sound, although ikcbl
\* removes the entry of the number it is about to execute.
THEOREM NothingForgottenHolds == InSpec => []NothingForgotten
<1>1. InInv => NothingForgotten
  BY DEF InInv
<1>2. QED
  BY <1>1, InInvariance, PTL

-------------------------------------------------------------------------------
(* Two daemons *)

\* To the outgoing half, the incoming half of another daemon is a server, as
\* long as its backlog list is sound.
LEMMA InIsOutEnvironment ==
  ASSUME list = "ok", InInv, HandledInv, InNext, UNCHANGED outVars
  PROVE  OutEnvironment
<1> USE DEF netVars
<1> DEFINE Answer(p) == [host |-> p.host, thread |-> p.thread, seq |-> p.seq, r_pid |-> p.call]
<1>1. ASSUME reqNet' \subseteq reqNet,
             \A m \in respNet' : m \in respNet \/ \E p \in sent : m = Answer(p)
      PROVE  OutEnvironment
  BY <1>1 DEF OutEnvironment
<1>2. ASSUME NEW p \in executed PROVE p \in sent /\ Response(p, p.call) = Answer(p)
  BY <1>2 DEF HandledInv, Response
<1>3. ASSUME NEW m \in reqNet, CollectorReceive(m) \/ CollectorDrop(m)
      PROVE  OutEnvironment
  BY <1>1, <1>3 DEF CollectorReceive, CollectorDrop, Delivered
<1>4. CASE InSignal
  BY <1>1, <1>4 DEF InSignal
<1>5. ASSUME NEW i \in InWorkers, LookupFound(i) PROVE OutEnvironment
  <2> DEFINE entry == backlog[First(Matches(request[i]))]
  <2>1. First(Matches(request[i])) \in 1..Len(backlog)
    BY <1>5, MatchFound DEF LookupFound, InInv
  <2>2. entry \in executed
    BY <2>1 DEF InInv, ExecutedInv
  <2>3. respNet' = respNet \cup {Response(entry, entry.call)} /\ UNCHANGED reqNet
    BY <1>5 DEF LookupFound, Send
  <2>4. QED
    BY <1>1, <1>2, <2>2, <2>3
<1>6. ASSUME NEW i \in InWorkers, Respond(i) PROVE OutEnvironment
  <2>1. request[i] \in executed
    BY <1>6 DEF Respond, InGoto, InInv, ExecutedInv
  <2>2. respNet' = respNet \cup {Response(request[i], request[i].call)} /\ UNCHANGED reqNet
    BY <1>6 DEF Respond, Send
  <2>3. QED
    BY <1>1, <1>2, <2>1, <2>2
<1>7. ASSUME NEW i \in InWorkers,
             \/ InWait(i) \/ InQueueEmpty(i) \/ InDequeue(i) \/ LookupMissed(i)
             \/ Forget(i) \/ Proceed(i) \/ Add(i) \/ WildRead(i)
      PROVE  UNCHANGED netVars
  BY <1>7 DEF InWait, InQueueEmpty, InDequeue, LookupMissed, Forget, Proceed, Add, WildRead
<1>8. ASSUME NEW i \in InWorkers PROVE ~LookupReused(i) /\ ~RequestReused(i)
  BY DEF LookupReused, RequestReused
<1>9. QED
  BY <1>1, <1>3, <1>4, <1>5, <1>6, <1>7, <1>8 DEF InNext, InWorkerNext

\* To the incoming half, the outgoing half of another daemon is a client.
LEMMA OutIsInEnvironment ==
  ASSUME OutBase, OutNext, UNCHANGED inVars
  PROVE  InEnvironment
<1> USE DEF netVars, argVars
<1>1. OutTypeOK /\ OutTypeOK'
  BY OutBaseStep DEF OutBase
<1>2. reqNet' \subseteq RequestPackets
  BY <1>1 DEF OutTypeOK
<1>3. respNet' \subseteq respNet
  <2>1. ASSUME NEW w \in OutWorkers, NEW m \in respNet,
               OutReceive(w, m) \/ OutReceiveNothing(w, m)
        PROVE  respNet' \subseteq respNet
    BY <2>1 DEF OutReceive, OutReceiveNothing, Delivered
  <2>2. ASSUME NEW w \in OutWorkers,
               \/ OutDequeue(w) \/ OutSend(w) \/ OutTimeout(w)
               \/ OutInterrupted(w) \/ OutRespond(w)
        PROVE  UNCHANGED respNet
    BY <2>2 DEF OutDequeue, OutSend, OutTimeout, OutInterrupted, OutRespond
  <2>3. QED
    BY <1>1, <2>1, <2>2, OutSteps DEF Quiet
<1>4. QED
  BY <1>2, <1>3 DEF InEnvironment

\* What the incoming half takes from the network it executes, and nothing else.
LEMMA HandledKept ==
  ASSUME list = "ok", OutInv, InInv, HandledInv, Next \/ UNCHANGED ikcdVars
  PROVE  HandledInv'
<1> USE DEF netVars, history
<1>1. ASSUME UNCHANGED inVars, sent \subseteq sent' PROVE HandledInv'
  BY <1>1 DEF inVars, HandledInv
<1>2. CASE OutNext /\ UNCHANGED inVars
  <2>1. ASSUME NEW w \in OutWorkers, OutSend(w) PROVE sent \subseteq sent'
    BY <2>1 DEF OutSend
  <2>2. ASSUME NEW w \in OutWorkers,
               \/ OutDequeue(w) \/ OutTimeout(w) \/ OutInterrupted(w) \/ OutRespond(w)
               \/ \E m \in respNet : OutReceive(w, m) \/ OutReceiveNothing(w, m)
        PROVE  UNCHANGED sent
    BY <2>2 DEF OutDequeue, OutTimeout, OutInterrupted, OutRespond, OutReceive, OutReceiveNothing, argVars
  <2>3. QED
    BY <1>1, <1>2, <2>1, <2>2, OutSteps DEF OutInv, OutBase, Quiet
<1>3. CASE UNCHANGED ikcdVars
  BY <1>1, <1>3 DEF ikcdVars, outVars
<1>4. CASE InNext /\ UNCHANGED outVars
  <2>1. sent' = sent /\ reqNet \subseteq sent
    BY <1>4 DEF outVars, OutInv, ResponseInv
  <2>2. ASSUME UNCHANGED pendingIn, executed' \subseteq sent,
               \A j \in InWorkers : request'[j] \in {request[j], NoPacket}
        PROVE  HandledInv'
    BY <2>1, <2>2 DEF HandledInv
  <2>3. ASSUME NEW m \in reqNet, CollectorReceive(m) PROVE HandledInv'
    <3>1. pendingIn \in Seq(RequestPackets) /\ m \in RequestPackets
      BY <2>3 DEF InInv, InTypeOK
    <3>2. pendingIn' = Append(pendingIn, m) /\ UNCHANGED <<request, executed>>
      BY <2>3 DEF CollectorReceive
    <3>3. \A k \in 1..Len(pendingIn') :
            pendingIn'[k] = m \/ (k \in 1..Len(pendingIn) /\ pendingIn'[k] = pendingIn[k])
      BY <3>1, <3>2
    <3>4. QED
      BY <2>1, <3>2, <3>3 DEF HandledInv
  <2>4. ASSUME NEW m \in reqNet, CollectorDrop(m) PROVE HandledInv'
    BY <2>2, <2>4 DEF CollectorDrop, HandledInv
  <2>5. CASE InSignal
    BY <2>2, <2>5 DEF InSignal, HandledInv
  <2>6. ASSUME NEW i \in InWorkers, InDequeue(i) PROVE HandledInv'
    <3>1. pendingIn \in Seq(RequestPackets) /\ pendingIn # <<>>
      BY <2>6 DEF InDequeue, InInv, InTypeOK
    <3>2. /\ Head(pendingIn) = pendingIn[1] /\ 1 \in 1..Len(pendingIn)
          /\ \A k \in 1..Len(Tail(pendingIn)) :
               k + 1 \in 1..Len(pendingIn) /\ Tail(pendingIn)[k] = pendingIn[k + 1]
      BY <3>1
    <3>3. /\ pendingIn' = Tail(pendingIn) /\ UNCHANGED executed
          /\ \A j \in InWorkers : request'[j] \in {request[j], Head(pendingIn)}
      BY <2>6 DEF InDequeue, InInv, InTypeOK
    <3>4. Head(pendingIn) \in sent
      BY <3>2 DEF HandledInv
    <3>5. ASSUME NEW k \in 1..Len(pendingIn') PROVE pendingIn'[k] \in sent
      BY <3>2, <3>3 DEF HandledInv
    <3>6. QED
      BY <2>1, <3>3, <3>4, <3>5 DEF HandledInv
  <2>7. ASSUME NEW i \in InWorkers, LookupFound(i) \/ Add(i) PROVE HandledInv'
    <3>1. \A j \in InWorkers : request'[j] \in {request[j], NoPacket}
      BY <2>7 DEF LookupFound, Add, InInv, InTypeOK
    <3>2. UNCHANGED <<pendingIn, executed>>
      BY <2>7 DEF LookupFound, Add
    <3>3. QED
      BY <2>2, <3>1, <3>2 DEF HandledInv
  <2>8. ASSUME NEW i \in InWorkers, Proceed(i) PROVE HandledInv'
    <3>1. request[i] \in RequestPackets
      BY <2>8 DEF Proceed, InGoto, InInv, ExecutedInv
    <3>2. request[i] \in sent
      BY <3>1, InAssumption DEF HandledInv
    <3>3. executed' = executed \cup {request[i]} /\ UNCHANGED <<pendingIn, request>>
      BY <2>8 DEF Proceed
    <3>4. QED
      BY <2>2, <3>2, <3>3 DEF HandledInv
  <2>9. ASSUME NEW i \in InWorkers,
               \/ InWait(i) \/ InQueueEmpty(i) \/ LookupMissed(i)
               \/ Forget(i) \/ Respond(i) \/ WildRead(i)
        PROVE  HandledInv'
    <3>1. UNCHANGED <<pendingIn, request, executed>>
      BY <2>9 DEF InWait, InQueueEmpty, LookupMissed, Forget, Respond, WildRead
    <3>2. QED
      BY <2>2, <3>1 DEF HandledInv
  <2>10. ASSUME NEW i \in InWorkers PROVE ~LookupReused(i) /\ ~RequestReused(i)
    BY DEF LookupReused, RequestReused
  <2>11. QED
    BY <1>4, <2>3, <2>4, <2>5, <2>6, <2>7, <2>8, <2>9, <2>10 DEF InNext, InWorkerNext
<1>5. QED
  BY <1>2, <1>3, <1>4 DEF Next

\* OutReceive stores a process id that was created for a request of this
\* worker, and OutRespond gives it to the kernel.
LEMMA CreatedKept ==
  ASSUME list = "ok", OutInv, InInv, CreatedInv, AnswerWasExecuted,
         Next \/ UNCHANGED ikcdVars
  PROVE  CreatedInv' /\ AnswerWasExecuted'
<1> USE OutAssumption DEF netVars, argVars, history
<1>1. /\ OutTypeOK /\ CarriedInv /\ ResponseInv /\ ResponseIsAnExecution
      /\ \A p \in executed : p.thread \in OutWorkers
  BY DEF OutInv, OutBase, InInv, InTypeOK, RequestPackets
<1>2. /\ executed \subseteq executed'
      /\ OutNext \/ UNCHANGED <<r_pid, answer, carried>>
  <2>1. CASE OutNext /\ UNCHANGED inVars
    BY <2>1 DEF inVars
  <2>2. CASE UNCHANGED ikcdVars
    BY <2>2 DEF ikcdVars, inVars, outVars
  <2>3. CASE InNext /\ UNCHANGED outVars
    <3>1. ASSUME NEW m \in reqNet, CollectorReceive(m) \/ CollectorDrop(m)
          PROVE  UNCHANGED executed
      BY <3>1 DEF CollectorReceive, CollectorDrop
    <3>2. ASSUME NEW i \in InWorkers, InWorkerNext(i) PROVE executed \subseteq executed'
      BY <3>2 DEF InWorkerNext, InWait, InQueueEmpty, InDequeue, LookupFound,
                  LookupMissed, Forget, Proceed, Respond, Add, WildRead,
                  LookupReused, RequestReused
    <3>3. QED
      BY <2>3, <3>1, <3>2 DEF InNext, InSignal, outVars
  <2>4. QED
    BY <2>1, <2>2, <2>3 DEF Next
<1>3. ASSUME UNCHANGED r_pid PROVE CreatedInv'
  BY <1>2, <1>3 DEF CreatedInv
<1>4. ASSUME UNCHANGED answer PROVE AnswerWasExecuted'
  <2>1. ASSUME NEW c \in Calls, answer[c] \in Calls
        PROVE  \E p \in executed' : p.call = answer[c] /\ CarriedBy(p.thread, answer[c], c)'
    <3>1. PICK p \in executed : p.call = answer[c] /\ CarriedBy(p.thread, answer[c], c)
      BY <2>1 DEF AnswerWasExecuted
    <3>2. PICK d : d = answer[c]
      OBVIOUS
    <3>3. CarriedBy(p.thread, d, c)'
      BY <1>1, <1>2, <3>1, <3>2, CarriedByGrows
    <3>4. CarriedBy(p.thread, answer[c], c)'
      BY <1>4, <3>2, <3>3 DEF CarriedBy
    <3>5. QED
      BY <1>2, <3>1, <3>4
  <2>2. QED
    BY <1>4, <2>1 DEF AnswerWasExecuted
<1>5. ASSUME NEW w \in OutWorkers, NEW m \in respNet, OutReceive(w, m)
      PROVE  CreatedInv' /\ AnswerWasExecuted'
  <2>1. PICK p \in executed : m = Response(p, p.call)
    BY <1>1 DEF ResponseIsAnExecution
  <2>2. p.thread = w /\ p.call = m.r_pid
    BY <1>5, <2>1 DEF OutReceive, Response
  <2>3. r_pid'[w] = m.r_pid /\ \A v \in OutWorkers : v # w => r_pid'[v] = r_pid[v]
    BY <1>1, <1>5 DEF OutReceive, OutTypeOK
  <2>4. CreatedInv'
    BY <1>2, <2>2, <2>3 DEF CreatedInv
  <2>5. QED
    BY <1>4, <1>5, <2>4 DEF OutReceive
<1>6. ASSUME NEW w \in OutWorkers, OutDequeue(w)
      PROVE  CreatedInv' /\ AnswerWasExecuted'
  <2>1. \A v \in OutWorkers : r_pid'[v] = r_pid[v] \/ r_pid'[v] = Garbage
    BY <1>1, <1>6 DEF OutDequeue, OutTypeOK
  <2>2. CreatedInv'
    BY <1>2, <2>1 DEF CreatedInv
  <2>3. QED
    BY <1>4, <1>6, <2>2 DEF OutDequeue
<1>7. ASSUME NEW w \in OutWorkers, OutRespond(w)
      PROVE  CreatedInv' /\ AnswerWasExecuted'
  <2>1. UNCHANGED <<r_pid, carried>>
    BY <1>7 DEF OutRespond
  <2>2. ASSUME NEW c \in Calls, answer'[c] \in Calls
        PROVE  \E p \in executed : p.call = answer'[c] /\ CarriedBy(p.thread, answer'[c], c)
    <3>1. CASE c = current[w]
      <4>1. answer'[c] = r_pid[w]
        BY <1>1, <1>7, <3>1 DEF OutRespond, OutTypeOK
      <4>2. PICK p \in executed : p.thread = w /\ p.call = r_pid[w]
        BY <2>2, <4>1 DEF CreatedInv
      <4>3. CarriedBy(w, r_pid[w], c)
        BY <1>1, <1>7, <2>2, <3>1, <4>1, RespondsCarried
      <4>4. QED
        BY <4>1, <4>2, <4>3
    <3>2. CASE c # current[w]
      <4>1. answer'[c] = answer[c]
        BY <1>1, <1>7, <3>2 DEF OutRespond, OutTypeOK
      <4>2. QED
        BY <2>2, <4>1 DEF AnswerWasExecuted
    <3>3. QED
      BY <3>1, <3>2
  <2>3. AnswerWasExecuted'
    BY <1>2, <2>1, <2>2 DEF AnswerWasExecuted, CarriedBy
  <2>4. QED
    BY <1>3, <2>1, <2>3
<1>8. ASSUME NEW w \in OutWorkers, OutSend(w) \/ OutTimeout(w) \/ OutInterrupted(w)
      PROVE  CreatedInv' /\ AnswerWasExecuted'
  BY <1>3, <1>4, <1>8 DEF OutSend, OutTimeout, OutInterrupted
<1>9. CASE Quiet
  BY <1>3, <1>4, <1>9 DEF Quiet
<1>10. CASE UNCHANGED <<r_pid, answer, carried>>
  BY <1>3, <1>4, <1>10
<1>11. ASSUME NEW w \in OutWorkers, NEW m \in respNet, OutReceiveNothing(w, m)
       PROVE  CreatedInv' /\ AnswerWasExecuted'
  <2>1. \A v \in OutWorkers : r_pid'[v] = r_pid[v] \/ r_pid'[v] = Garbage
    BY <1>1, <1>11 DEF OutReceiveNothing, OutTypeOK
  <2>2. CreatedInv'
    BY <1>2, <2>1 DEF CreatedInv
  <2>3. QED
    BY <1>4, <1>11, <2>2 DEF OutReceiveNothing
<1>12. QED
  BY <1>1, <1>2, <1>5, <1>6, <1>7, <1>8, <1>9, <1>10, <1>11, OutSteps

LEMMA InvStep ==
  ASSUME Inv, Next \/ UNCHANGED ikcdVars
  PROVE  /\ Inv'
         /\ list = "ok" => [OutNext \/ OutEnvironment]_<<netVars, outVars>>
         /\ [InNext \/ InEnvironment]_<<netVars, inVars>>
<1>1. InInv /\ OutBase /\ InTypeOK
  BY DEF Inv, InInv
<1>2. [InNext \/ InEnvironment]_<<netVars, inVars>>
  BY <1>1, OutIsInEnvironment DEF Next, ikcdVars
<1>3. InInv'
  BY <1>1, <1>2, InInvStep
<1>4. OutBase'
  <2>1. reqNet' \subseteq RequestPackets /\ respNet' \subseteq ResponsePackets
    BY <1>3 DEF InInv, InTypeOK
  <2>2. QED
    BY <1>1, <2>1, OutBaseStep DEF Next, ikcdVars
<1>5. ASSUME list = "ok"
      PROVE  /\ [OutNext \/ OutEnvironment]_<<netVars, outVars>>
             /\ OutInv' /\ HandledInv' /\ CreatedInv' /\ AnswerWasExecuted'
  <2>1. OutInv /\ HandledInv /\ CreatedInv /\ AnswerWasExecuted
    BY <1>5 DEF Inv
  <2>2. [OutNext \/ OutEnvironment]_<<netVars, outVars>>
    BY <1>1, <1>5, <2>1, InIsOutEnvironment DEF Next, ikcdVars
  <2>3. OutInv'
    BY <2>1, <2>2, OutInvStep
  <2>4. HandledInv'
    BY <1>1, <1>5, <2>1, HandledKept
  <2>5. CreatedInv' /\ AnswerWasExecuted'
    BY <1>1, <1>5, <2>1, CreatedKept
  <2>6. QED
    BY <2>2, <2>3, <2>4, <2>5
<1>6. list' = "ok" => list = "ok"
  BY <1>1, <1>2, DanglesForEver
<1>7. QED
  BY <1>2, <1>3, <1>4, <1>5, <1>6 DEF Inv

\* Before the wrap a number is a position in its worker's history, so that two
\* datagrams of the same number are of the same call.
LEMMA NumbersDistinguishFromInv ==
  ASSUME Inv
  PROVE  NumbersDistinguish
<1> SUFFICES ASSUME NEW w \in OutWorkers, list = "ok", Len(carried[w]) <= SeqMod,
                    NEW m \in respNet, m.thread = w,
                    NEW p \in reqNet \cup executed,
                    Number(p) = <<m.host, m.thread, m.seq>>
             PROVE  p.call = m.r_pid
  BY DEF NumbersDistinguish
<1>1. PICK q \in executed : m = Response(q, q.call)
  BY DEF Inv, InInv, ResponseIsAnExecution
<1>2. p \in sent /\ q \in sent
  BY <1>1 DEF Inv, OutInv, ResponseInv, HandledInv
<1>3. q.thread = w /\ m.seq = q.seq /\ m.r_pid = q.call
  BY <1>1 DEF Response
<1>4. p.thread = w /\ p.seq = m.seq
  BY DEF Number
<1>5. carried[w][p.seq + 1] = p.call /\ carried[w][q.seq + 1] = q.call
  BY <1>2, <1>3, <1>4 DEF Inv, OutBase, NumberInv
<1>6. QED
  BY <1>3, <1>4, <1>5

-------------------------------------------------------------------------------
(* Two daemons: theorems *)

\* Inv holds of two daemons.
THEOREM Invariance == Spec => []Inv
<1>1. Init => Inv
  <2> SUFFICES ASSUME Init PROVE Inv
    OBVIOUS
  <2>1. OutInv /\ InInv
    BY OutInvInit, InInvInit DEF Init
  <2>2. HandledInv
    BY DEF Init, InInit, HandledInv
  <2>3. r_pid = [w \in OutWorkers |-> Garbage] /\ answer = [c \in Calls |-> NoCall]
    BY Zenon DEF Init, OutInit
  <2>4. CreatedInv /\ AnswerWasExecuted
    BY <2>3, OutAssumption DEF CreatedInv, AnswerWasExecuted
  <2>5. QED
    BY <2>1, <2>2, <2>4 DEF Inv, OutInv
<1>2. Inv /\ [Next]_ikcdVars => Inv'
  BY InvStep
<1>3. QED
  BY <1>1, <1>2, PTL DEF Spec

\* Two daemons implement both halves in any surroundings: what is proved of
\* InSpec holds of the composed system, and what is proved of OutSpec while the
\* server's backlog list refers to no memory it has freed.  (A server that
\* answers from freed memory is none that OutSpec allows.)
THEOREM Composition == Spec => InSpec /\ ([](list = "ok") => OutSpec)
<1>1. Init => NetInit /\ OutInit /\ InInit
  BY DEF Init
<1>2. Inv /\ list = "ok" /\ [Next]_ikcdVars => [OutNext \/ OutEnvironment]_<<netVars, outVars>>
  BY InvStep
<1>3. Inv /\ [Next]_ikcdVars => [InNext \/ InEnvironment]_<<netVars, inVars>>
  BY InvStep
<1>4. QED
  BY <1>1, <1>2, <1>3, Invariance, PTL DEF Spec, OutSpec, InSpec

\* A process id the kernel is given was created by the remote node, for a
\* request of the worker that answers, whatever the network loses, delays,
\* reorders or duplicates, as long as the server's backlog list is sound.
THEOREM AnswerWasExecutedHolds == Spec => []AnswerWasExecuted
<1>1. Inv => AnswerWasExecuted
  BY DEF Inv, AnswerWasExecuted
<1>2. QED
  BY <1>1, Invariance, PTL

\* Until a worker's numbers wrap, a response carries the process id of the
\* request it names, as long as the server's backlog list is sound.
THEOREM NumbersDistinguishHolds == Spec => []NumbersDistinguish
<1>1. Inv => NumbersDistinguish
  BY NumbersDistinguishFromInv
<1>2. QED
  BY <1>1, Invariance, PTL
===============================================================================
