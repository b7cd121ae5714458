-------------------------------- MODULE BestNode --------------------------------
(***************************************************************************)
(* The exchange in which the main thread of the ikcd asks the csd for the  *)
(* best node of an application, over two System V message queues: the      *)
(* client in ikcr_best_node_for_app (ikcr.c), the server in                *)
(* csda_best_node_server_thread (csda.c).  The server's queue has key 7768 *)
(* and stays when the csd dies; the client's has key 6877 and lives for    *)
(* one call.  A call gives up after an alarm.  How the server finds the    *)
(* node is Csd.                                                            *)
(*                                                                         *)
(* Identifiers of message queues carry a sequence number, so that one that *)
(* is still remembered somewhere is not given to a new queue.              *)
(***************************************************************************)
EXTENDS Naturals, Sequences

CONSTANTS
  Ids,         \* identifiers of message queues
  NoId,        \* no queue: -1, or a key that has none
  QueueMax     \* messages that fit in a queue

ASSUME BestNodeAssumption ==
  /\ Ids \subseteq Nat /\ NoId \notin Ids
  /\ QueueMax \in Nat \ {0}

VARIABLES
  queues,       \* the queues that exist, with the messages in them
  idOf,         \* the identifier of the queue with key 7768 or 6877
  ikcd,         \* main thread of the ikcd, in the call
  alarm,        \* an alarm of the ikcd is pending
  csda,         \* the server thread
  should_exit,  \* cs_threads_should_exit
  calls,        \* calls begun so far; a call is known by its number
  deaths,       \* crashes so far, of the ikcd and of the csd
  missed,       \* history: the alarm went off before msgrcv had begun to wait
  leftOver,     \* history: a crash of the ikcd has left a queue for the next call
  stray         \* history: a queue was removed by an identifier never assigned

ikcdVars == <<ikcd, alarm, calls, missed, leftOver, stray>>
csdaVars == <<csda, should_exit>>
bnVars == <<queues, idOf, ikcdVars, csdaVars, deaths>>

NoAnswer == 0   \* in place of the number of a call
NotCalling == [pc |-> "idle", server_id |-> NoId, client_id |-> NoId, resp |-> NoAnswer]

BnInit ==
  /\ queues = [q \in {} |-> <<>>]
  /\ idOf = [k \in {7768, 6877} |-> NoId]
  /\ ikcd = NotCalling
  /\ alarm = FALSE
  /\ csda = [pc |-> "start", server_id |-> NoId, client_id |-> NoId, call |-> NoAnswer]
  /\ should_exit = FALSE
  /\ calls = 0 /\ deaths = 0
  /\ missed = FALSE /\ leftOver = FALSE /\ stray = FALSE

-------------------------------------------------------------------------------
(* Message queues *)

Exists(q) == q \in DOMAIN queues

Remembered ==
  DOMAIN queues \cup {ikcd.server_id, ikcd.client_id, csda.server_id, csda.client_id}
    \cup UNION {{queues[q][i].client : i \in 1 .. Len(queues[q])} : q \in DOMAIN queues}

FreshIds == {q \in Ids \ Remembered : \A r \in Ids \ Remembered : q <= r}

\* msgget(k, IPC_CREAT), which returns id
MsgGetCreate(k, id) ==
  \/ /\ idOf[k] # NoId
     /\ id = idOf[k]
     /\ UNCHANGED <<queues, idOf>>
  \/ /\ idOf[k] = NoId
     /\ id \in FreshIds
     /\ queues' = [q \in DOMAIN queues \cup {id} |-> IF q = id THEN <<>> ELSE queues[q]]
     /\ idOf' = [idOf EXCEPT ![k] = id]

MsgSnd(id, m) == queues' = [queues EXCEPT ![id] = Append(@, m)]
MsgRcv(id) == queues' = [queues EXCEPT ![id] = Tail(@)]

\* msgctl(id, IPC_RMID, NULL)
Rmid(id) ==
  /\ queues' = [q \in DOMAIN queues \ {id} |-> queues[q]]
  /\ idOf' = [k \in DOMAIN idOf |-> IF idOf[k] = id THEN NoId ELSE idOf[k]]

-------------------------------------------------------------------------------
(* ikcr_best_node_for_app *)

Ikcd(from, to) ==
  /\ ikcd.pc = from
  /\ ikcd' = to

GetServer ==
  /\ calls' = calls + 1
  /\ missed' = FALSE
  /\ \/ /\ idOf[7768] # NoId
        /\ Ikcd("idle", [ikcd EXCEPT !.pc = "get_client", !.server_id = idOf[7768]])
     \/ /\ idOf[7768] = NoId
        /\ Ikcd("idle", [ikcd EXCEPT !.pc = "unassigned"])
  /\ UNCHANGED <<queues, idOf, alarm, leftOver, stray, csdaVars, deaths>>

\* The error return removes the queue client_id happens to name: mostly none.
RmidUnassigned ==
  /\ Ikcd("unassigned", NotCalling)
  /\ \E q \in DOMAIN queues \cup {NoId} : Rmid(q) /\ stray' = (stray \/ q # NoId)
  /\ UNCHANGED <<alarm, calls, missed, leftOver, csdaVars, deaths>>

GotClient(q) ==
  /\ MsgGetCreate(6877, q)
  /\ Ikcd("get_client", [ikcd EXCEPT !.pc = "send", !.client_id = q])

\* Without a free queue in the system the call fails.
GetClient ==
  /\ \/ \E q \in Ids : GotClient(q)
     \/ /\ Ikcd("get_client", [ikcd EXCEPT !.pc = "out", !.client_id = NoId])
        /\ UNCHANGED <<queues, idOf>>
  /\ UNCHANGED <<alarm, calls, missed, leftOver, stray, csdaVars, deaths>>

\* msgsnd waits while the queue is full and fails when it is gone.
Send ==
  /\ ikcd.pc \in {"send", "sending"}
  /\ \/ /\ ~Exists(ikcd.server_id)
        /\ Ikcd(ikcd.pc, [ikcd EXCEPT !.pc = "out"])
        /\ UNCHANGED queues
     \/ /\ Exists(ikcd.server_id) /\ Len(queues[ikcd.server_id]) < QueueMax
        /\ Ikcd(ikcd.pc, [ikcd EXCEPT !.pc = "alarm"])
        /\ MsgSnd(ikcd.server_id, [client |-> ikcd.client_id, call |-> calls])
     \/ /\ Exists(ikcd.server_id) /\ Len(queues[ikcd.server_id]) >= QueueMax
        /\ Ikcd("send", [ikcd EXCEPT !.pc = "sending"])
        /\ UNCHANGED queues
  /\ UNCHANGED <<idOf, alarm, calls, missed, leftOver, stray, csdaVars, deaths>>

SetAlarm_Forgotten ==
  /\ Ikcd("alarm", [ikcd EXCEPT !.pc = "receive"])
  /\ UNCHANGED <<queues, idOf, alarm, calls, missed, leftOver, stray, csdaVars, deaths>>

SetAlarm ==
  /\ Ikcd("alarm", [ikcd EXCEPT !.pc = "receive"])
  /\ alarm' = TRUE
  /\ UNCHANGED <<queues, idOf, calls, missed, leftOver, stray, csdaVars, deaths>>

\* msgrcv; alarm(0) follows when it has a message.
Receive ==
  /\ ikcd.pc \in {"receive", "receiving"}
  /\ \/ /\ Exists(ikcd.client_id) /\ queues[ikcd.client_id] # <<>>
        /\ Ikcd(ikcd.pc, [ikcd EXCEPT !.pc = "out", !.resp = Head(queues[ikcd.client_id]).call])
        /\ MsgRcv(ikcd.client_id)
        /\ alarm' = FALSE
     \/ /\ ~Exists(ikcd.client_id)
        /\ Ikcd(ikcd.pc, [ikcd EXCEPT !.pc = "out"])
        /\ UNCHANGED <<queues, alarm>>
     \/ /\ Exists(ikcd.client_id) /\ queues[ikcd.client_id] = <<>>
        /\ Ikcd("receive", [ikcd EXCEPT !.pc = "receiving"])
        /\ UNCHANGED <<queues, alarm>>
  /\ UNCHANGED <<idOf, calls, missed, leftOver, stray, csdaVars, deaths>>

\* A signal ends msgsnd or msgrcv if the thread waits in it, and only then.
Interrupt ==
  \/ /\ ikcd.pc \in {"sending", "receiving"}
     /\ Ikcd(ikcd.pc, [ikcd EXCEPT !.pc = "out"])
  \/ /\ ikcd.pc \notin {"sending", "receiving"}
     /\ UNCHANGED ikcd

\* SIGALRM: ikc_msq_alarm has nothing to do.
OnSigalrm ==
  /\ alarm
  /\ alarm' = FALSE
  /\ Interrupt
  /\ missed' = (missed \/ ikcd.pc = "receive")
  /\ UNCHANGED <<queues, idOf, calls, leftOver, stray, csdaVars, deaths>>

\* SIGTERM: what its handler does is in Kii; the alarm stays pending.
OnSigterm ==
  /\ ikcd.pc \in {"sending", "receiving"}
  /\ Interrupt
  /\ UNCHANGED <<queues, idOf, alarm, calls, missed, leftOver, stray, csdaVars, deaths>>

\* The local node is the answer of a call that failed.
Out_QueueKept ==
  /\ Ikcd("out", NotCalling)
  /\ IF ikcd.resp # NoAnswer THEN Rmid(ikcd.client_id) ELSE UNCHANGED <<queues, idOf>>
  /\ leftOver' = FALSE
  /\ UNCHANGED <<alarm, calls, missed, stray, csdaVars, deaths>>

Out_ServerQueue ==
  /\ Ikcd("out", NotCalling)
  /\ Rmid(ikcd.server_id)
  /\ leftOver' = FALSE
  /\ UNCHANGED <<alarm, calls, missed, stray, csdaVars, deaths>>

Out ==
  /\ Ikcd("out", NotCalling)
  /\ Rmid(ikcd.client_id)
  /\ leftOver' = (leftOver /\ ikcd.client_id = NoId)
  /\ UNCHANGED <<alarm, calls, missed, stray, csdaVars, deaths>>

\* The ikcd ends and is started again; its queue stays.
IkcdDies ==
  /\ deaths' = deaths + 1
  /\ ikcd' = NotCalling
  /\ alarm' = FALSE
  /\ leftOver' = (leftOver \/ idOf[6877] # NoId)
  /\ UNCHANGED <<queues, idOf, calls, missed, stray, csdaVars>>

-------------------------------------------------------------------------------
(* csda_best_node_server_thread *)

Csda(from, to) ==
  /\ csda.pc = from
  /\ csda' = to

GotServer(q) ==
  /\ MsgGetCreate(7768, q)
  /\ Csda("start", [csda EXCEPT !.pc = "rcv", !.server_id = q])

ServerStart ==
  /\ \E q \in Ids : GotServer(q)
  /\ UNCHANGED <<ikcdVars, should_exit, deaths>>

\* When the queue is gone msgrcv fails at once and the loop begins again.
ServerReceive ==
  /\ Exists(csda.server_id) /\ queues[csda.server_id] # <<>>
  /\ LET m == Head(queues[csda.server_id])
     IN  Csda("rcv", [csda EXCEPT !.pc = "find", !.client_id = m.client, !.call = m.call])
  /\ MsgRcv(csda.server_id)
  /\ UNCHANGED <<idOf, ikcdVars, should_exit, deaths>>

\* csda_best_node_for_app has a node, or the local one is taken.
ServerFound ==
  /\ Csda("find", [csda EXCEPT !.pc = "reply"])
  /\ UNCHANGED <<queues, idOf, ikcdVars, should_exit, deaths>>

\* msgsnd fails when the client has given up.
ServerReply ==
  /\ Csda("reply", [csda EXCEPT !.pc = "check", !.client_id = NoId, !.call = NoAnswer])
  /\ IF Exists(csda.client_id) /\ Len(queues[csda.client_id]) < QueueMax
     THEN MsgSnd(csda.client_id, [client |-> NoId, call |-> csda.call])
     ELSE ~Exists(csda.client_id) /\ UNCHANGED queues
  /\ UNCHANGED <<idOf, ikcdVars, should_exit, deaths>>

ServerCheck ==
  /\ \/ /\ ~should_exit
        /\ Csda("check", [csda EXCEPT !.pc = "rcv"])
        /\ UNCHANGED <<queues, idOf>>
     \/ /\ should_exit
        /\ Csda("check", [csda EXCEPT !.pc = "down", !.server_id = NoId])
        /\ Rmid(csda.server_id)
  /\ UNCHANGED <<ikcdVars, should_exit, deaths>>

\* SIGTERM for the csd.
ServerStop ==
  /\ csda.pc # "down"
  /\ should_exit' = TRUE
  /\ UNCHANGED <<queues, idOf, ikcdVars, csda, deaths>>

\* The csd ends at once; its queue stays.
ServerDies ==
  /\ deaths' = deaths + 1
  /\ csda' = [pc |-> "down", server_id |-> NoId, client_id |-> NoId, call |-> NoAnswer]
  /\ UNCHANGED <<queues, idOf, ikcdVars, should_exit>>

ServerRestart ==
  /\ Csda("down", [csda EXCEPT !.pc = "start"])
  /\ should_exit' = FALSE
  /\ UNCHANGED <<queues, idOf, ikcdVars, deaths>>

-------------------------------------------------------------------------------
(* Properties *)

\* The node a call returns is the answer to its own request, never to one that
\* had timed out before (ikcr_best_node_for_app uses a queue of its own for each
\* call), unless the ikcd died inside a call and this is the first since.
AnswerOfThisCall ==
  ikcd.pc = "out" /\ ikcd.resp # NoAnswer => ikcd.resp = calls \/ leftOver

\* The same whatever happened before.
AnswerOfThisCallAlways ==
  ikcd.pc = "out" /\ ikcd.resp # NoAnswer => ikcd.resp = calls

\* A server that waits for requests waits at the queue that clients find under
\* key 7768, through crashes, restarts and the removals at the end of each call,
\* unless an error return removed a queue by an identifier it never got.
ServerListens ==
  csda.pc = "rcv" => stray \/ (Exists(csda.server_id) /\ idOf[7768] = csda.server_id)

\* A call of the main thread ends whatever the csd does, answer, die, stop or
\* hang (IKC_MSQ_ALARM), except that it may wait for room in the server's queue,
\* and that an alarm before msgrcv waits is lost.
CallReturns ==
  (ikcd.pc # "idle") ~> (ikcd.pc \in {"idle", "sending"} \/ missed)
===============================================================================
