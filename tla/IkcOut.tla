--------------------------------- MODULE IkcOut ---------------------------------
(***************************************************************************)
(* The outgoing half of the ikcd on host Home (ikcd.c, ikcr.c): the kernel *)
(* request collector takes a request from the kernel and queues it on      *)
(* pending_out; the outgoing workers take requests from there, send each   *)
(* one at most MaxAttempts times and put what they got, or what happened   *)
(* to be in the request's r_pid, to the kernel.                            *)
(*                                                                         *)
(* The queue is the one RequestQueue specifies (Ikcq implements it); the   *)
(* kernel's side of the calls is Kii.                                      *)
(***************************************************************************)
EXTENDS Udp, Sequences

CONSTANTS
  Home,          \* the host this daemon runs on
  MaxAttempts,   \* IKC_MAX_ATTEMPTS
  NoCall,        \* a worker without a request
  Garbage        \* content of a r_pid nobody has written

ASSUME OutAssumption ==
  /\ Home \in Hosts
  /\ MaxAttempts \in Nat \ {0}
  /\ NoCall \notin Calls
  /\ Garbage \notin Calls

VARIABLES
  kernel,       \* state of the kernel's request for a call
  answer,       \* the r_pid the kernel was given for a call
  collector,    \* where the kernel request collector is
  held,         \* the request it is about to queue
  pendingOut,   \* ikc_qh_pending_out
  opc,          \* where an outgoing worker is
  current,      \* its request
  seq_nbr,      \* its counter, an unsigned short
  attempts,     \* sends of its request so far
  rq_argv,      \* request->rq_argv: what arg0 and arg1 point to
  r_pid,        \* request->r_pid
  dropped,      \* requests ikcq_queue_request found no memory for
  carried,      \* history: the calls a worker has dequeued, in order
  sent          \* history: the request datagrams sent

outVars == <<kernel, answer, collector, held, pendingOut, opc, current,
             seq_nbr, attempts, rq_argv, r_pid, dropped, carried, sent>>
argVars == <<rq_argv, sent>>

UShort == {n \in Nat : n < 65536}
MinusOne == 65535   \* as an unsigned short
KernelStates == {"none", "do_req", "get_req", "done"}
OutPlaces == {"idle", "waiting", "dequeue", "send", "select", "recv", "respond"}

OutInit ==
  /\ kernel = [c \in Calls |-> "none"]
  /\ answer = [c \in Calls |-> NoCall]
  /\ collector = "get"
  /\ held = NoCall
  /\ pendingOut = <<>>
  /\ opc = [w \in OutWorkers |-> "idle"]
  /\ current = [w \in OutWorkers |-> NoCall]
  /\ seq_nbr = [w \in OutWorkers |-> MinusOne]
  /\ attempts = [w \in OutWorkers |-> 0]
  /\ r_pid = [w \in OutWorkers |-> Garbage]
  /\ dropped = {}
  /\ carried = [w \in OutWorkers |-> <<>>]
  /\ rq_argv = [w \in OutWorkers |-> [arg0 |-> "", arg1 |-> ""]]
  /\ sent = {}

-------------------------------------------------------------------------------
(* Kernel and collector *)

\* A task enters DKM_DO_REQ with PROC_CREAT_REQ and sleeps.
DoReq(c) ==
  /\ kernel[c] = "none"
  /\ kernel' = [kernel EXCEPT ![c] = "do_req"]
  /\ UNCHANGED <<netVars, answer, collector, held, pendingOut, opc, current,
                 seq_nbr, attempts, r_pid, dropped, carried, argVars>>

\* DKM_GET_REQ and DKM_GET_ARGS; a second pass of the loop takes the next one.
CollectorGet(c) ==
  /\ collector = "get"
  /\ kernel[c] = "do_req"
  /\ kernel' = [kernel EXCEPT ![c] = "get_req"]
  /\ held' = c
  /\ collector' = "queue"
  /\ UNCHANGED <<netVars, answer, pendingOut, opc, current, seq_nbr, attempts,
                 r_pid, dropped, carried, argVars>>

CollectorQueue ==
  /\ collector = "queue"
  /\ pendingOut' = Append(pendingOut, held)
  /\ held' = NoCall
  /\ collector' = "signal"
  /\ UNCHANGED <<netVars, kernel, answer, opc, current, seq_nbr, attempts,
                 r_pid, dropped, carried, argVars>>

\* -E_IKC_NOMEM: the return value is ignored, and the worker signalled all
\* the same.
CollectorNoMem ==
  /\ collector = "queue"
  /\ dropped' = dropped \cup {held}
  /\ held' = NoCall
  /\ collector' = "signal"
  /\ UNCHANGED <<netVars, kernel, answer, pendingOut, opc, current, seq_nbr,
                 attempts, r_pid, carried, argVars>>

\* pthread_cond_signal: wakes one thread that waits, and does nothing when
\* none does.
Signal(place) ==
  LET waiters == {w \in DOMAIN place : place[w] = "waiting"} IN
  IF waiters = {} THEN {place}
                  ELSE {[place EXCEPT ![w] = "dequeue"] : w \in waiters}

CollectorSignal ==
  /\ collector = "signal"
  /\ opc' \in Signal(opc)
  /\ collector' = "get"
  /\ UNCHANGED <<netVars, kernel, answer, held, pendingOut, current, seq_nbr,
                 attempts, r_pid, dropped, carried, argVars>>

-------------------------------------------------------------------------------
(* Outgoing worker *)

\* Lock and pthread_cond_wait: the mutex is held for nothing else, and what
\* is in the queue is not looked at.
OutWait(w) ==
  /\ opc[w] = "idle"
  /\ opc' = [opc EXCEPT ![w] = "waiting"]
  /\ UNCHANGED <<netVars, kernel, answer, collector, held, pendingOut, current,
                 seq_nbr, attempts, r_pid, dropped, carried, argVars>>

OutQueueEmpty(w) ==
  /\ opc[w] = "dequeue"
  /\ pendingOut = <<>>
  /\ opc' = [opc EXCEPT ![w] = "idle"]
  /\ UNCHANGED <<netVars, kernel, answer, collector, held, pendingOut, current,
                 seq_nbr, attempts, r_pid, dropped, carried, argVars>>

NextSeq_Stuck(s) == IF s >= SeqMod - 1 THEN 0 ELSE s

\* The counter runs through 0..SeqMod, one value more than the wire has.
NextSeq(s) == IF s = SeqMod THEN 0 ELSE (s + 1) % 65536

\* DKM_GET_ARGS stores the remote node at arg0 and the file name at arg1.
GotArgs == [arg0 |-> "r_node", arg1 |-> "file_name"]

OutDequeue_LeftInQueue(w) ==
  /\ opc[w] = "dequeue"
  /\ pendingOut # <<>>
  /\ opc' = [opc EXCEPT ![w] = "send"]
  /\ current' = [current EXCEPT ![w] = Head(pendingOut)]
  /\ seq_nbr' = [seq_nbr EXCEPT ![w] = NextSeq(@)]
  /\ attempts' = [attempts EXCEPT ![w] = 0]
  /\ r_pid' = [r_pid EXCEPT ![w] = Garbage]
  /\ carried' = [carried EXCEPT ![w] = Append(@, Head(pendingOut))]
  /\ rq_argv' = [rq_argv EXCEPT ![w] = GotArgs]
  /\ UNCHANGED <<netVars, kernel, answer, collector, held, pendingOut, dropped, sent>>

\* The request is a fresh malloc: nobody has written its r_pid yet.
OutDequeue(w) ==
  /\ opc[w] = "dequeue"
  /\ pendingOut # <<>>
  /\ opc' = [opc EXCEPT ![w] = "send"]
  /\ current' = [current EXCEPT ![w] = Head(pendingOut)]
  /\ pendingOut' = Tail(pendingOut)
  /\ seq_nbr' = [seq_nbr EXCEPT ![w] = NextSeq(@)]
  /\ attempts' = [attempts EXCEPT ![w] = 0]
  /\ r_pid' = [r_pid EXCEPT ![w] = Garbage]
  /\ carried' = [carried EXCEPT ![w] = Append(@, Head(pendingOut))]
  /\ rq_argv' = [rq_argv EXCEPT ![w] = GotArgs]
  /\ UNCHANGED <<netVars, kernel, answer, collector, held, dropped, sent>>

\* ikcp_pack_proc_creat_req packs arg0 as o_filename and arg1 as o_argv.
Packet(w, args) ==
  [host |-> Home, thread |-> w, seq |-> seq_nbr[w] % SeqMod,
   call |-> current[w], o_filename |-> args.arg0, o_argv |-> args.arg1]

OutSend_EmptiedLate(w) ==
  /\ opc[w] = "send"
  /\ rq_argv' = [rq_argv EXCEPT ![w] = [arg0 |-> @.arg0, arg1 |-> ""]]
  /\ reqNet' = Send(reqNet, Packet(w, rq_argv[w]))
  /\ sent' = sent \cup {Packet(w, rq_argv[w])}
  /\ opc' = [opc EXCEPT ![w] = "select"]
  /\ UNCHANGED <<respNet, kernel, answer, collector, held, pendingOut, current,
                 seq_nbr, attempts, r_pid, dropped, carried>>

\* ikcr_proceed_outgoing_request empties arg1, then packs and sends.
OutSend(w) ==
  /\ opc[w] = "send"
  /\ rq_argv' = [rq_argv EXCEPT ![w] = [arg0 |-> @.arg0, arg1 |-> ""]]
  /\ reqNet' = Send(reqNet, Packet(w, rq_argv'[w]))
  /\ sent' = sent \cup {Packet(w, rq_argv'[w])}
  /\ opc' = [opc EXCEPT ![w] = "select"]
  /\ UNCHANGED <<respNet, kernel, answer, collector, held, pendingOut, current,
                 seq_nbr, attempts, r_pid, dropped, carried>>

OutReceive_AnyThread(w, m) ==
  /\ opc[w] = "select"
  /\ m.host = Home
  /\ respNet' = Delivered(respNet, m)
  /\ r_pid' = [r_pid EXCEPT ![w] = m.r_pid]
  /\ attempts' = [attempts EXCEPT ![w] = @ + 1]
  /\ opc' = [opc EXCEPT ![w] = "respond"]
  /\ UNCHANGED <<reqNet, kernel, answer, collector, held, pendingOut, current,
                 seq_nbr, dropped, carried, argVars>>

\* Any datagram on the worker's socket is taken for the response: neither the
\* sender nor the sequence number is compared with the request's.
OutReceive(w, m) ==
  /\ opc[w] = "select"
  /\ m.host = Home /\ m.thread = w
  /\ respNet' = Delivered(respNet, m)
  /\ r_pid' = [r_pid EXCEPT ![w] = m.r_pid]
  /\ attempts' = [attempts EXCEPT ![w] = @ + 1]
  /\ opc' = [opc EXCEPT ![w] = "respond"]
  /\ UNCHANGED <<reqNet, kernel, answer, collector, held, pendingOut, current,
                 seq_nbr, dropped, carried, argVars>>

OutTimeout_RetryForever(w) ==
  /\ opc[w] = "select"
  /\ opc' = [opc EXCEPT ![w] = "send"]
  /\ UNCHANGED <<netVars, kernel, answer, collector, held, pendingOut, current,
                 seq_nbr, attempts, r_pid, dropped, carried, argVars>>

\* select returns 0 after five seconds, or recvfrom fails.
OutTimeout(w) ==
  /\ opc[w] = "select"
  /\ attempts' = [attempts EXCEPT ![w] = @ + 1]
  /\ opc' = [opc EXCEPT ![w] =
               IF attempts'[w] < MaxAttempts THEN "send" ELSE "respond"]
  /\ UNCHANGED <<netVars, kernel, answer, collector, held, pendingOut, current,
                 seq_nbr, r_pid, dropped, carried, argVars>>

\* A signal ends select with -1, which is not taken for a timeout: with nothing
\* there to be read (FIONREAD says 0) the worker goes on to a recvfrom without
\* a time limit.  A signal that interrupts recvfrom makes the attempt fail.
OutInterrupted(w) ==
  \/ /\ opc[w] = "select"
     /\ opc' = [opc EXCEPT ![w] = "recv"]
     /\ UNCHANGED <<netVars, kernel, answer, collector, held, pendingOut,
                    current, seq_nbr, attempts, r_pid, dropped, carried, argVars>>
  \/ /\ opc[w] = "recv"
     /\ attempts' = [attempts EXCEPT ![w] = @ + 1]
     /\ opc' = [opc EXCEPT ![w] =
                  IF attempts'[w] < MaxAttempts THEN "send" ELSE "respond"]
     /\ UNCHANGED <<netVars, kernel, answer, collector, held, pendingOut,
                    current, seq_nbr, r_pid, dropped, carried, argVars>>

\* There recvfrom was given a buffer of no bytes: a datagram ends it, and
\* what is unpacked is whatever the heap holds.
OutReceiveNothing(w, m) ==
  /\ opc[w] = "recv"
  /\ m.host = Home /\ m.thread = w
  /\ respNet' = Delivered(respNet, m)
  /\ r_pid' = [r_pid EXCEPT ![w] = Garbage]
  /\ attempts' = [attempts EXCEPT ![w] = @ + 1]
  /\ opc' = [opc EXCEPT ![w] = "respond"]
  /\ UNCHANGED <<reqNet, kernel, answer, collector, held, pendingOut, current,
                 seq_nbr, dropped, carried, argVars>>

OutRespond_OncePerSignal(w) ==
  /\ opc[w] = "respond"
  /\ kernel' = [kernel EXCEPT ![current[w]] = "done"]
  /\ answer' = [answer EXCEPT ![current[w]] = r_pid[w]]
  /\ current' = [current EXCEPT ![w] = NoCall]
  /\ opc' = [opc EXCEPT ![w] = "idle"]
  /\ rq_argv' = [rq_argv EXCEPT ![w] = [arg0 |-> "r_pid", arg1 |-> @.arg1]]
  /\ UNCHANGED <<netVars, collector, held, pendingOut, seq_nbr, attempts, r_pid,
                 dropped, carried, sent>>

\* ikc_respond_to_kernel: DKM_PUT_RESP, whether a response came or not.
OutRespond(w) ==
  /\ opc[w] = "respond"
  /\ kernel' = [kernel EXCEPT ![current[w]] = "done"]
  /\ answer' = [answer EXCEPT ![current[w]] = r_pid[w]]
  /\ current' = [current EXCEPT ![w] = NoCall]
  /\ opc' = [opc EXCEPT ![w] = "dequeue"]
  /\ rq_argv' = [rq_argv EXCEPT ![w] = [arg0 |-> "r_pid", arg1 |-> @.arg1]]
  /\ UNCHANGED <<netVars, collector, held, pendingOut, seq_nbr, attempts, r_pid,
                 dropped, carried, sent>>

CollectorNext ==
  \/ \E c \in Calls : CollectorGet(c)
  \/ CollectorQueue \/ CollectorNoMem \/ CollectorSignal

\* A worker by itself, and with the signals that may reach it.
WorkerRuns(w) ==
  \/ OutWait(w) \/ OutQueueEmpty(w) \/ OutDequeue(w) \/ OutSend(w)
  \/ \E m \in respNet : OutReceive(w, m) \/ OutReceiveNothing(w, m)
  \/ OutTimeout(w) \/ OutRespond(w)

WorkerNext(w) == WorkerRuns(w) \/ OutInterrupted(w)

OutNext ==
  \/ \E c \in Calls : DoReq(c)
  \/ CollectorNext
  \/ \E w \in OutWorkers : WorkerNext(w)

\* What network and servers may do: take datagrams, deliver none, and answer
\* any request that was ever sent, as often as they like.  (A server whose
\* backlog list refers to freed memory may do worse: see Composition.)
OutEnvironment ==
  /\ reqNet' \subseteq reqNet
  /\ \A m \in respNet' :
       m \in respNet \/ \E p \in sent : m = [host |-> p.host, thread |-> p.thread,
                                            seq |-> p.seq, r_pid |-> p.call]
  /\ UNCHANGED outVars

\* The outgoing half of a daemon in any surroundings.
OutSpec ==
  /\ NetInit /\ OutInit
  /\ [][OutNext \/ OutEnvironment]_<<netVars, outVars>>
-------------------------------------------------------------------------------
\* The type of the daemon's outgoing state; attempts never exceeds
\* IKC_MAX_ATTEMPTS and the counter stays an unsigned short.
OutTypeOK ==
  /\ reqNet \subseteq RequestPackets
  /\ respNet \subseteq ResponsePackets
  /\ kernel \in [Calls -> KernelStates]
  /\ answer \in [Calls -> Calls \cup {NoCall, Garbage}]
  /\ collector \in {"get", "queue", "signal"}
  /\ held \in Calls \cup {NoCall}
  /\ pendingOut \in Seq(Calls)
  /\ opc \in [OutWorkers -> OutPlaces]
  /\ current \in [OutWorkers -> Calls \cup {NoCall}]
  /\ seq_nbr \in [OutWorkers -> UShort]
  /\ attempts \in [OutWorkers -> 0..MaxAttempts]
  /\ rq_argv \in [OutWorkers -> [arg0: Strings \cup {"r_pid"}, arg1: Strings]]
  /\ r_pid \in [OutWorkers -> Calls \cup {Garbage}]
  /\ dropped \subseteq Calls
  /\ carried \in [OutWorkers -> Seq(Calls)]
  /\ sent \subseteq RequestPackets

Queued == {pendingOut[i] : i \in 1..Len(pendingOut)}
Taken == {current[w] : w \in OutWorkers} \ {NoCall}
Collected == {held} \ {NoCall}

\* A request the collector has taken from the kernel is at every moment in
\* exactly one place until the kernel has its answer: with the collector, once
\* in pending_out, with one worker, or dropped for want of memory.  None is
\* lost otherwise, none is handled twice (ikc_get_request_from_kernel, ikcq and
\* ikc_out_request_worker together).
OneOwner ==
  /\ {c \in Calls : kernel[c] = "get_req"}
       = Collected \cup Queued \cup Taken \cup dropped
  /\ Collected \cap (Queued \cup Taken \cup dropped) = {}
  /\ Queued \cap (Taken \cup dropped) = {}
  /\ Taken \cap dropped = {}
  /\ \A i, j \in 1..Len(pendingOut) : pendingOut[i] = pendingOut[j] => i = j
  /\ \A v, w \in OutWorkers :
       current[v] = current[w] /\ current[v] # NoCall => v = w

\* Worker w dequeued call d before call c, or d is c.
CarriedBy(w, d, c) ==
  \E i, j \in 1..Len(carried[w]) :
    i <= j /\ carried[w][i] = d /\ carried[w][j] = c

\* A process id the kernel is given was returned for that call or for a call
\* the same worker had sent earlier: sockets are not shared between workers,
\* and nothing is made up.  (That it is the call itself does not hold: see
\* AnswerIsForCall in Ikcd.)
AnswerProvenance ==
  \A c \in Calls : answer[c] \in Calls =>
    \E w \in OutWorkers : CarriedBy(w, answer[c], c)

\* However often a call is sent, it is the same datagram: request number, node,
\* process, file name and arguments.  The request is packed anew for every
\* attempt, from a struct whose fields are used for other things in between
\* (ikcr.c 176-182, ikcd.c 249), and the server knows a repeated request by its
\* number alone.
RetriesAlike == \A p, q \in sent : p.call = q.call => p = q
===============================================================================
