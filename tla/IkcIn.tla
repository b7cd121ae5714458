--------------------------------- MODULE IkcIn ---------------------------------
(***************************************************************************)
(* The incoming half of the ikcd (ikcd.c, ikcr.c, ikcbl.c): the packet     *)
(* collector queues request packets on pending_in; the incoming workers    *)
(* take them from there and answer each one from the backlog list, or      *)
(* execute it, answer it and put it on the backlog list.  Every function   *)
(* on the list holds the list's mutex, so each is one step; a worker's     *)
(* calls of them are separate steps.                                       *)
(***************************************************************************)
EXTENDS Udp, Sequences

CONSTANTS
  InWorkers,      \* incoming worker threads
  MaxPendingIn,   \* bound on the length of pending_in
  NoPacket        \* a worker without a request

ASSUME InAssumption ==
  /\ MaxPendingIn \in Nat \ {0}
  /\ NoPacket \notin RequestPackets

VARIABLES
  packets,     \* where the packet collector is
  pendingIn,   \* ikc_qh_pending_in
  ipc,         \* where an incoming worker is
  request,     \* its request
  backlog,     \* ikc_backlog_lst, most recent first
  list,        \* "ok", or "dangling": list_head->list points to freed memory
  daemon,      \* "up", or "crashed" after a wild read
  executed,    \* history: packets whose request was executed
  repeated     \* history: packets whose request was executed more than once

inVars == <<packets, pendingIn, ipc, request, backlog, list, daemon,
            executed, repeated>>

history == <<executed, repeated>>

InPlaces == {"idle", "waiting", "dequeue", "lookup", "forget", "proceed",
             "respond", "add", "hung"}

InInit ==
  /\ packets = "recv"
  /\ pendingIn = <<>>
  /\ ipc = [i \in InWorkers |-> "idle"]
  /\ request = [i \in InWorkers |-> NoPacket]
  /\ backlog = <<>>
  /\ list = "ok"
  /\ daemon = "up"
  /\ executed = {}
  /\ repeated = {}

\* request_nbr, host_id and thread_id of a request: RequestNumber shows that
\* the packed number is the same exactly when these three are.
Number(p) == <<p.host, p.thread, p.seq>>

-------------------------------------------------------------------------------
(* Packet collector *)

\* recvfrom, ikcr_queue_process_creation_request up to its queueing.
CollectorReceive(m) ==
  /\ daemon = "up"
  /\ packets = "recv"
  /\ Len(pendingIn) < MaxPendingIn
  /\ reqNet' = Delivered(reqNet, m)
  /\ pendingIn' = Append(pendingIn, m)
  /\ packets' = "signal"
  /\ UNCHANGED <<respNet, ipc, request, backlog, list, daemon, history>>

\* The queue has no memory for the request: it is lost like a datagram.
CollectorDrop(m) ==
  /\ daemon = "up"
  /\ packets = "recv"
  /\ reqNet' = Delivered(reqNet, m)
  /\ packets' = "signal"
  /\ UNCHANGED <<respNet, pendingIn, ipc, request, backlog, list, daemon,
                 history>>

\* pthread_cond_signal: wakes one thread that waits, if any does.
InSignal ==
  LET waiters == {i \in InWorkers : ipc[i] = "waiting"} IN
  /\ daemon = "up"
  /\ packets = "signal"
  /\ packets' = "recv"
  /\ \/ waiters = {} /\ UNCHANGED ipc
     \/ \E i \in waiters : ipc' = [ipc EXCEPT ![i] = "dequeue"]
  /\ UNCHANGED <<netVars, pendingIn, request, backlog, list, daemon, history>>

-------------------------------------------------------------------------------
(* Incoming worker *)

InGoto(i, from, to) ==
  /\ daemon = "up"
  /\ ipc[i] = from
  /\ ipc' = [ipc EXCEPT ![i] = to]

InWait(i) ==
  /\ InGoto(i, "idle", "waiting")
  /\ UNCHANGED <<netVars, packets, pendingIn, request, backlog, list, daemon,
                 history>>

InQueueEmpty(i) ==
  /\ pendingIn = <<>>
  /\ InGoto(i, "dequeue", "idle")
  /\ UNCHANGED <<netVars, packets, pendingIn, request, backlog, list, daemon,
                 history>>

InDequeue(i) ==
  /\ pendingIn # <<>>
  /\ InGoto(i, "dequeue", "lookup")
  /\ request' = [request EXCEPT ![i] = Head(pendingIn)]
  /\ pendingIn' = Tail(pendingIn)
  /\ UNCHANGED <<netVars, packets, backlog, list, daemon, history>>

\* A worker that runs in circles through the list keeps the list's mutex.
ListFree == \A i \in InWorkers : ipc[i] # "hung"

Matches(p) == {k \in 1..Len(backlog) : Number(backlog[k]) = Number(p)}
First(ks) == CHOOSE k \in ks : \A j \in ks : k <= j

Response(p, pid) ==
  [host |-> p.host, thread |-> p.thread, seq |-> p.seq, r_pid |-> pid]

\* ikcbl_try_respond_from_backlog, number found: answered from the list.
LookupFound(i) ==
  /\ ListFree
  /\ InGoto(i, "lookup", "dequeue")
  /\ Matches(request[i]) # {}
  /\ LET entry == backlog[First(Matches(request[i]))]
     IN respNet' = Send(respNet, Response(entry, entry.call))
  /\ request' = [request EXCEPT ![i] = NoPacket]
  /\ UNCHANGED <<reqNet, packets, pendingIn, backlog, list, daemon, history>>

LookupMissed_NotExecuted(i) ==
  /\ ListFree
  /\ InGoto(i, "lookup", "respond")
  /\ Matches(request[i]) = {} \/ list = "dangling"
  /\ UNCHANGED <<netVars, packets, pendingIn, request, backlog, list, daemon,
                 history>>

LookupMissed_KeepsMutex(i) ==
  /\ ListFree
  /\ InGoto(i, "lookup", "hung")
  /\ Matches(request[i]) = {} \/ list = "dangling"
  /\ UNCHANGED <<netVars, packets, pendingIn, request, backlog, list, daemon,
                 history>>

\* The number is not in the list, or freed memory no longer shows it.
LookupMissed(i) ==
  /\ ListFree
  /\ InGoto(i, "lookup", "forget")
  /\ Matches(request[i]) = {} \/ list = "dangling"
  /\ UNCHANGED <<netVars, packets, pendingIn, request, backlog, list, daemon,
                 history>>

\* The search of ikcbl_remove_threads_last_request stops at the first entry
\* with the request's host id or its thread id.
SomeEntryOf(p) ==
  \E k \in 1..Len(backlog) :
    backlog[k].host = p.host \/ backlog[k].thread = p.thread

CutAt(seq, k) == [j \in 1..(Len(seq) - 1) |-> IF j < k THEN seq[j] ELSE seq[j + 1]]

\* It then removes not that entry but the one with the number of the new
\* request, which only another worker can have added meanwhile.  Removing the
\* first entry leaves list_head->list pointing to it, freed as it is.
Forget(i) ==
  LET p == request[i]
      found == SomeEntryOf(p) /\ Matches(p) # {}
  IN
  /\ ListFree
  /\ InGoto(i, "forget", "proceed")
  /\ \/ /\ ~found \/ list = "dangling"
        /\ UNCHANGED <<backlog, list>>
     \/ /\ found /\ First(Matches(p)) = 1
        /\ list' = "dangling"
        /\ UNCHANGED backlog
     \/ /\ found /\ First(Matches(p)) # 1
        /\ backlog' = CutAt(backlog, First(Matches(p)))
        /\ UNCHANGED list
  /\ UNCHANGED <<netVars, packets, pendingIn, request, daemon, history>>

\* ikcr_proceed_incoming_request.  The demonstration stores the same process
\* id every time; here a process id tells which call it was created for.
Proceed(i) ==
  /\ InGoto(i, "proceed", "respond")
  /\ executed' = executed \cup {request[i]}
  /\ repeated' = repeated \cup ({request[i]} \cap executed)
  /\ UNCHANGED <<netVars, packets, pendingIn, request, backlog, list, daemon>>

\* ikcr_respond_to_client
Respond(i) ==
  /\ InGoto(i, "respond", "add")
  /\ respNet' = Send(respNet, Response(request[i], request[i].call))
  /\ UNCHANGED <<reqNet, packets, pendingIn, request, backlog, list, daemon,
                 history>>

Add_Forgotten(i) ==
  /\ ListFree
  /\ InGoto(i, "add", "dequeue")
  /\ request' = [request EXCEPT ![i] = NoPacket]
  /\ UNCHANGED <<netVars, packets, pendingIn, backlog, list, daemon, history>>

\* ikcbl_add_request
Add(i) ==
  /\ ListFree
  /\ InGoto(i, "add", "dequeue")
  /\ backlog' = <<request[i]>> \o backlog
  /\ request' = [request EXCEPT ![i] = NoPacket]
  /\ UNCHANGED <<netVars, packets, pendingIn, list, daemon, history>>

\* Freed memory may read as it was (the actions above), end the daemon, or
\* lead a search in circles.
WildRead(i) ==
  /\ list = "dangling" /\ ListFree
  /\ \/ /\ daemon = "up"
        /\ ipc[i] \in {"lookup", "forget", "add"}
        /\ daemon' = "crashed"
        /\ UNCHANGED ipc
     \/ /\ \E from \in {"lookup", "forget"} : InGoto(i, from, "hung")
        /\ UNCHANGED daemon
  /\ UNCHANGED <<netVars, packets, pendingIn, request, backlog, list, history>>

\* Or malloc has given it to a newer request, which the list then refers to: a
\* lookup finds its number in the very struct it looks for, executes nothing
\* and answers with the process id left in that memory.
LookupReused(i) ==
  /\ list = "dangling" /\ ListFree
  /\ InGoto(i, "lookup", "dequeue")
  /\ \E p \in executed : respNet' = Send(respNet, Response(request[i], p.call))
  /\ request' = [request EXCEPT ![i] = NoPacket]
  /\ UNCHANGED <<reqNet, packets, pendingIn, backlog, list, daemon, history>>

\* And a removal finds and frees the struct a worker goes on to use, which is
\* given to a datagram that comes in meanwhile: the worker answers the number
\* of one request with the process id of another.
RequestReused(i) ==
  /\ list = "dangling"
  /\ \/ /\ daemon = "up"
        /\ ipc[i] \in {"proceed", "respond", "add"}
        /\ \E k \in 1..Len(pendingIn) : request' = [request EXCEPT ![i] = pendingIn[k]]
        /\ UNCHANGED <<respNet, ipc>>
     \/ /\ InGoto(i, "respond", "add")
        /\ \E p \in executed : respNet' = Send(respNet, Response(request[i], p.call))
        /\ UNCHANGED request
  /\ UNCHANGED <<reqNet, packets, pendingIn, backlog, list, daemon, history>>

InWorkerNext(i) ==
  \/ InWait(i) \/ InQueueEmpty(i) \/ InDequeue(i)
  \/ LookupFound(i) \/ LookupMissed(i) \/ Forget(i)
  \/ Proceed(i) \/ Respond(i) \/ Add(i)
  \/ WildRead(i) \/ LookupReused(i) \/ RequestReused(i)

InNext ==
  \/ \E m \in reqNet : CollectorReceive(m) \/ CollectorDrop(m)
  \/ InSignal
  \/ \E i \in InWorkers : InWorkerNext(i)

\* What network and clients may do: send any requests, as often as they like,
\* and take or lose responses.
InEnvironment ==
  /\ reqNet' \subseteq RequestPackets
  /\ respNet' \subseteq respNet
  /\ UNCHANGED inVars

\* The incoming half of a daemon in any surroundings.
InSpec ==
  /\ NetInit /\ InInit
  /\ [][InNext \/ InEnvironment]_<<netVars, inVars>>
-------------------------------------------------------------------------------
\* The type of the daemon's incoming state; in particular every response on
\* the network carries a process id that was stored in its request.
InTypeOK ==
  /\ reqNet \subseteq RequestPackets
  /\ respNet \subseteq ResponsePackets
  /\ packets \in {"recv", "signal"}
  /\ pendingIn \in Seq(RequestPackets)
  /\ Len(pendingIn) <= MaxPendingIn
  /\ ipc \in [InWorkers -> InPlaces]
  /\ request \in [InWorkers -> RequestPackets \cup {NoPacket}]
  /\ backlog \in Seq(RequestPackets)
  /\ list \in {"ok", "dangling"}
  /\ daemon \in {"up", "crashed"}
  /\ executed \subseteq RequestPackets
  /\ repeated \subseteq executed

\* Whatever a client is sent, now or from the backlog list, is the result of
\* executing a request with the number the client used: no response goes out
\* before its request was executed, and none under a foreign number, as long
\* as the list refers to no memory it has freed (ikcbl.c 98-100).
ResponseIsAnExecution ==
  list = "ok" => \A m \in respNet : \E p \in executed : m = Response(p, p.call)

\* Once a number was executed it stays known: it is in the backlog list or a
\* worker that will add it is under way.  A repeated request is therefore
\* executed again only while some worker has it in hand.
NothingForgotten ==
  list = "ok" =>
    \A p \in executed :
      \/ \E k \in 1..Len(backlog) : Number(backlog[k]) = Number(p)
      \/ \E i \in InWorkers : /\ ipc[i] \in {"proceed", "respond", "add"}
                              /\ Number(request[i]) = Number(p)
===============================================================================
