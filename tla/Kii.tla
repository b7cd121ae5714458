---------------------------------- MODULE Kii ----------------------------------
(***************************************************************************)
(* The kernel interface for the ikcd (dkmctl.c), with the two places that  *)
(* use it: the tasks that call dkm_execve out of do_execve and get their   *)
(* struct dkm_struct from do_fork, and the main thread of the ikcd, which  *)
(* waits for SIGUSR2 and fetches requests (ikcd.c).  What the ikcd's       *)
(* outgoing workers do with a PROC_CREAT_REQ is IkcOut; here it stays in   *)
(* inHand until DKM_PUT_RESP.                                              *)
(*                                                                         *)
(* execve, fork and exit hold the big kernel lock of a 2.2 kernel until    *)
(* they sleep, so no two tasks are inside at once; the system call dkmctl  *)
(* takes no lock.  On SMP the ikcd runs on another processor between any   *)
(* two steps of a task, and a task between the two stores of a             *)
(* DKM_PUT_RESP; without, whoever is in the kernel is left alone until it  *)
(* sleeps or returns.                                                      *)
(***************************************************************************)
EXTENDS Naturals

CONSTANTS
  MaxTasks,    \* bound on the processes that are ever created
  Structs,     \* memory for struct dkm_struct
  FirstStruct, \* the one the first task has
  Threads,     \* threads of the ikcd that call dkmctl: the main thread and the
  MainThread,  \* outgoing workers
  Machines     \* what is there to run on: with more than one processor (smp)?
               \* may the ikcd end without unregistering (crash: SIGINT,
               \* log_exit), may it get SIGTERM (stop)?

ASSUME KiiAssumption ==
  /\ MaxTasks \in Nat \ {0}
  /\ FirstStruct \in Structs
  /\ MainThread \in Threads
  /\ Machines \subseteq [smp : BOOLEAN, crash : BOOLEAN, stop : BOOLEAN]

\* Processes in the order of the kernel's task list, which is that of their
\* creation.
Tasks == 1 .. MaxTasks
NoTask == 0

VARIABLES
  machine,     \* the one of Machines this is about
  crashed,     \* history: the ikcd has ended without unregistering
  ikcd_pid,    \* dkm_ikcd_pid: "none" (-1), of a "live" or of a "gone" process
  dkm,         \* task->dkm, of the tasks that exist
  st,          \* contents of the structs in use
  kpc,         \* where a task is
  served,      \* history: its last request was answered by DKM_PUT_RESP
  main,        \* where the main thread of the ikcd is
  flag,        \* sig_usr2_flag
  usr2,        \* SIGUSR2 pending for the ikcd
  blocked,     \* SIGUSR2 in the ikcd's signal mask
  mapping,     \* the task whose MAP_REQ the main thread is answering
  inHand,      \* tasks whose PROC_CREAT_REQ the ikcd has fetched
  putting      \* what a thread inside DKM_PUT_RESP has stored pending_req in

kernelVars == <<ikcd_pid, dkm, st, kpc, served>>
ikcdVars == <<main, flag, usr2, blocked, mapping, inHand, putting>>
about == <<machine, crashed>>
vars == <<about, kernelVars, ikcdVars>>

\* o_node and r_node are the same string exactly when r_node is "local";
\* kmalloc leaves "junk" there.
FreshStruct ==
  [pending_req |-> 0, req_state |-> "not_in_progress", req |-> "nop",
   r_node |-> "null", distributed |-> 0]

StructType ==
  [pending_req : {0, 1}, req_state : {"not_in_progress", "in_do_req", "in_get_req"},
   req : {"nop", "map", "proc_creat"}, r_node : {"null", "junk", "local", "remote"},
   distributed : {0, 1}]

TaskPlaces == {"user", "exec", "do_req", "signal", "check", "checked", "asleep",
               "woken", "returned", "refused"}
MainPlaces == {"start", "registered", "suspended", "awake", "block", "get_req",
               "map", "put", "dead"}

\* task, and the struct it had when pending_req was stored
NoPut == [task |-> NoTask, struct |-> FirstStruct]

Init ==
  /\ machine \in Machines
  /\ crashed = FALSE
  /\ ikcd_pid = "none"
  /\ dkm = [t \in {1} |-> FirstStruct]
  /\ st = [d \in {FirstStruct} |-> FreshStruct]
  /\ kpc = [t \in Tasks |-> "user"]
  /\ served = [t \in Tasks |-> FALSE]
  /\ main = "start"
  /\ flag = 0
  /\ usr2 = FALSE
  /\ blocked = FALSE
  /\ mapping = NoTask
  /\ inHand = {}
  /\ putting = [w \in Threads |-> NoPut]

Exists(t) == t \in DOMAIN dkm
Struct(t) == st[dkm[t]]

\* Assignments to fields of current->dkm, given as a function of the fields.
Assign(t, fields) ==
  st' = [st EXCEPT ![dkm[t]] =
           [f \in DOMAIN @ |-> IF f \in DOMAIN fields THEN fields[f] ELSE @[f]]]

\* A task that holds the kernel lock; at "exec" it may sleep in kmalloc or on
\* uts_sem.
InKernel(t) == kpc[t] \in {"do_req", "signal", "check", "checked", "returned",
                           "refused"}
NobodyPuts == \A w \in Threads : putting[w] = NoPut
Runs(t) ==
  /\ Exists(t)
  /\ \A u \in Tasks \ {t} : ~InKernel(u)
  /\ machine.smp \/ NobodyPuts
IkcdRuns ==
  /\ main # "dead"
  /\ machine.smp \/ (NobodyPuts /\ \A u \in Tasks : ~InKernel(u))

KGoto(t, from, to) ==
  /\ Runs(t)
  /\ kpc[t] = from
  /\ kpc' = [kpc EXCEPT ![t] = to]

-------------------------------------------------------------------------------
(* do_fork *)

\* The new struct goes to current, the parent, and the child keeps the copy
\* of the parent's pointer.
Fork_StructShared(t, u) ==
  /\ Runs(t) /\ kpc[t] = "user"
  /\ ~Exists(u) /\ \A v \in 1 .. u - 1 : Exists(v)
  /\ \E d \in Structs \ DOMAIN st :
       st' = [e \in DOMAIN st \cup {d} |-> IF e = d THEN FreshStruct ELSE st[e]]
  /\ dkm' = [v \in DOMAIN dkm \cup {u} |-> IF v = u THEN dkm[t] ELSE dkm[v]]
  /\ UNCHANGED <<about, ikcd_pid, kpc, served, ikcdVars>>

Fork(t, u) ==
  /\ Runs(t) /\ kpc[t] = "user"
  /\ ~Exists(u) /\ \A v \in 1 .. u - 1 : Exists(v)
  /\ \E d \in Structs \ DOMAIN st :
       /\ st' = [e \in DOMAIN st \cup {d} |-> IF e = d THEN FreshStruct ELSE st[e]]
       /\ dkm' = [v \in DOMAIN dkm \cup {u} |->
                    CASE v = u -> dkm[t] [] v = t -> d [] OTHER -> dkm[v]]
  /\ UNCHANGED <<about, ikcd_pid, kpc, served, ikcdVars>>

-------------------------------------------------------------------------------
(* dkm_execve and DKM_DO_REQ, run by the task *)

\* Without a registered ikcd the function returns before it changes anything.
ExecStart(t) ==
  /\ ikcd_pid # "none"
  /\ KGoto(t, "user", "exec")
  /\ Assign(t, [r_node |-> "junk"])
  /\ UNCHANGED <<about, ikcd_pid, dkm, served, ikcdVars>>

\* The ikcd unregistered while the buffers were allocated.
ExecLocal(t) ==
  /\ ikcd_pid = "none"
  /\ KGoto(t, "exec", "user")
  /\ Assign(t, [r_node |-> "local", distributed |-> 0])
  /\ UNCHANGED <<about, ikcd_pid, dkm, served, ikcdVars>>

ExecMap(t) ==
  /\ ikcd_pid # "none"
  /\ KGoto(t, "exec", "do_req")
  /\ Assign(t, [req |-> "map"])
  /\ UNCHANGED <<about, ikcd_pid, dkm, served, ikcdVars>>

DoReqRefused_ReturnsZero(t) ==
  /\ ikcd_pid = "none"
  /\ KGoto(t, "do_req", "returned")
  /\ UNCHANGED <<about, ikcd_pid, dkm, st, served, ikcdVars>>

DoReqRefused(t) ==
  /\ ikcd_pid = "none"
  /\ KGoto(t, "do_req", "refused")
  /\ UNCHANGED <<about, ikcd_pid, dkm, st, served, ikcdVars>>

Posted == [pending_req |-> 1, req_state |-> "in_do_req"]

DoReqPost(t) ==
  /\ ikcd_pid = "live"
  /\ KGoto(t, "do_req", "signal")
  /\ Assign(t, Posted)
  /\ served' = [served EXCEPT ![t] = FALSE]
  /\ UNCHANGED <<about, ikcd_pid, dkm, ikcdVars>>

\* dkm_ikcd_pid names a process that is gone: posted all the same, and the
\* return value is that of an answered request.
DoReqNoTask(t) ==
  /\ ikcd_pid = "gone"
  /\ KGoto(t, "do_req", "returned")
  /\ Assign(t, Posted)
  /\ served' = [served EXCEPT ![t] = FALSE]
  /\ UNCHANGED <<about, ikcd_pid, dkm, ikcdVars>>

\* send_sig reaches the process found, if it has not ended meanwhile.
SendSig(t) ==
  /\ KGoto(t, "signal", "check")
  /\ usr2' = (usr2 \/ ikcd_pid # "gone")
  /\ UNCHANGED <<about, ikcd_pid, dkm, st, served, main, flag, blocked, mapping, inHand, putting>>

\* while(current->dkm->pending_req != 0) interruptible_sleep_on(...)
AtLoop(t) == kpc[t] \in {"check", "woken"}

CheckDone(t) ==
  /\ Exists(t) /\ Struct(t).pending_req = 0
  /\ AtLoop(t) /\ KGoto(t, kpc[t], "returned")
  /\ UNCHANGED <<about, ikcd_pid, dkm, st, served, ikcdVars>>

CheckPending_ReturnsAwake(t) ==
  /\ Exists(t) /\ Struct(t).pending_req # 0
  /\ AtLoop(t) /\ KGoto(t, kpc[t], IF usr2 THEN "checked" ELSE "returned")
  /\ UNCHANGED <<about, ikcd_pid, dkm, st, served, ikcdVars>>

CheckPending(t) ==
  /\ Exists(t) /\ Struct(t).pending_req # 0
  /\ AtLoop(t) /\ KGoto(t, kpc[t], "checked")
  /\ UNCHANGED <<about, ikcd_pid, dkm, st, served, ikcdVars>>

SleepOn(t) ==
  /\ KGoto(t, "checked", "asleep")
  /\ UNCHANGED <<about, ikcd_pid, dkm, st, served, ikcdVars>>

\* A signal for the task ends the sleep, not the loop around it.
Interrupted(t) ==
  /\ KGoto(t, "asleep", "woken")
  /\ UNCHANGED <<about, ikcd_pid, dkm, st, served, ikcdVars>>

\* dkm_execve after DKM_DO_REQ returned 0.
Mapped(t) ==
  /\ Exists(t) /\ Struct(t).req = "map"
  /\ IF Struct(t).r_node # "local"
     THEN /\ KGoto(t, "returned", "do_req")
          /\ Assign(t, [distributed |-> 1, req |-> "proc_creat"])
     ELSE /\ KGoto(t, "returned", "user")
          /\ Assign(t, [distributed |-> 1, req |-> "nop"])
  /\ UNCHANGED <<about, ikcd_pid, dkm, served, ikcdVars>>

Created(t) ==
  /\ Exists(t) /\ Struct(t).req = "proc_creat"
  /\ KGoto(t, "returned", "user")
  /\ Assign(t, [req |-> "nop"])
  /\ UNCHANGED <<about, ikcd_pid, dkm, served, ikcdVars>>

\* dkm_execve after DKM_DO_REQ returned -1; of a refused PROC_CREAT_REQ it
\* takes no notice.
NotMapped(t) ==
  /\ KGoto(t, "refused", "user")
  /\ IF Struct(t).req = "map"
     THEN Assign(t, [r_node |-> "local", distributed |-> 0, pending_req |-> 0,
                     req |-> "nop"])
     ELSE Assign(t, [req |-> "nop"])
  /\ UNCHANGED <<about, ikcd_pid, dkm, served, ikcdVars>>

-------------------------------------------------------------------------------
(* Main thread of the ikcd *)

Main(from, to) ==
  /\ IkcdRuns
  /\ main = from
  /\ main' = to

Register ==
  /\ Main("start", "registered")
  /\ ikcd_pid' = "live"
  /\ UNCHANGED <<about, dkm, st, kpc, served, flag, usr2, blocked, mapping, inHand, putting>>

\* SIGUSR2 reaches the handler whenever it is not blocked; inside sigsuspend
\* nothing is.
OnSigusr2 ==
  /\ usr2
  /\ ~blocked \/ main = "suspended"
  /\ IkcdRuns /\ main # "put"
  /\ usr2' = FALSE
  /\ flag' = 1
  /\ main' = IF main = "suspended" THEN "awake" ELSE main
  /\ UNCHANGED <<about, kernelVars, blocked, mapping, inHand, putting>>

Sigsuspend ==
  /\ Main("registered", "suspended")
  /\ UNCHANGED <<about, kernelVars, flag, usr2, blocked, mapping, inHand, putting>>

TestFlag ==
  /\ IF flag = 1 THEN Main("awake", "block") ELSE Main("awake", "suspended")
  /\ flag' = 0
  /\ UNCHANGED <<about, kernelVars, usr2, blocked, mapping, inHand, putting>>

\* SIGUSR2 stays blocked from here on, except inside sigsuspend.
BlockUsr2 ==
  /\ Main("block", "get_req")
  /\ blocked' = TRUE
  /\ UNCHANGED <<about, kernelVars, flag, usr2, mapping, inHand, putting>>

Waiting(t) ==
  /\ Exists(t)
  /\ Struct(t).pending_req = 1
  /\ Struct(t).req_state = "in_do_req"
  /\ Struct(t).req \in {"map", "proc_creat"}

\* The task for_each_task comes to first.
Found(t) == Waiting(t) /\ \A u \in 1 .. t - 1 : ~Waiting(u)

\* DKM_GET_REQ found nobody: back to sigsuspend.
GetReqNone ==
  /\ \A t \in Tasks : ~Waiting(t)
  /\ Main("get_req", "suspended")
  /\ UNCHANGED <<about, kernelVars, flag, usr2, blocked, mapping, inHand, putting>>

\* DKM_GET_REQ and DKM_GET_ARGS; a MAP_REQ is answered by the main thread
\* itself, a PROC_CREAT_REQ goes to the outgoing workers.
GetReqMap_StateKept(t) ==
  /\ Found(t) /\ Struct(t).req = "map"
  /\ Main("get_req", "map")
  /\ mapping' = t
  /\ UNCHANGED <<about, kernelVars, flag, usr2, blocked, inHand, putting>>

GetReqMap(t) ==
  /\ Found(t) /\ Struct(t).req = "map"
  /\ Main("get_req", "map")
  /\ Assign(t, [req_state |-> "in_get_req"])
  /\ mapping' = t
  /\ UNCHANGED <<about, ikcd_pid, dkm, kpc, served, flag, usr2, blocked, inHand, putting>>

GetReqCreate(t) ==
  /\ Found(t) /\ Struct(t).req = "proc_creat"
  /\ Main("get_req", "get_req")
  /\ Assign(t, [req_state |-> "in_get_req"])
  /\ inHand' = inHand \cup {t}
  /\ UNCHANGED <<about, ikcd_pid, dkm, kpc, served, flag, usr2, blocked, mapping, putting>>

\* DKM_PUT_RESP is refused when the task no longer has this request; otherwise
\* it stores the answer, and only then req_state.  (As long as no ikcd crashes,
\* nothing but this call changes what it has just tested.)
PutResp(w, t, req, answer) ==
  IF Struct(t).req # req
  THEN UNCHANGED <<kernelVars, putting>>
  ELSE /\ Assign(t, answer)
       /\ served' = [served EXCEPT ![t] = TRUE]
       /\ putting' = [putting EXCEPT ![w] = [task |-> t, struct |-> dkm[t]]]
       /\ UNCHANGED <<ikcd_pid, dkm, kpc>>

\* The answer of the csd, or the local node when there is none.
AnswerMap ==
  /\ Main("map", IF Struct(mapping).req = "map" THEN "put" ELSE "get_req")
  /\ \E node \in {"local", "remote"} :
       PutResp(MainThread, mapping, "map", [pending_req |-> 0, r_node |-> node])
  /\ mapping' = NoTask
  /\ UNCHANGED <<about, flag, usr2, blocked, inHand>>

\* An outgoing worker answers.
AnswerCreate(w, t) ==
  /\ IkcdRuns
  /\ w # MainThread /\ putting[w] = NoPut
  /\ t \in inHand
  /\ PutResp(w, t, "proc_creat", [pending_req |-> 0])
  /\ inHand' = inHand \ {t}
  /\ UNCHANGED <<about, main, flag, usr2, blocked, mapping>>

\* The rest of DKM_PUT_RESP: req_state, then whoever sleeps on the queue is woken
\* up.  A task that forked since the first store has another struct: task->dkm
\* may be read again or still be in a register.  A thread inside the call
\* finishes it, even if the process is being killed.
PutRespEnd_NoWakeup(w) ==
  /\ putting[w] # NoPut
  /\ \E d \in {dkm[putting[w].task], putting[w].struct} :
       st' = [st EXCEPT ![d].req_state = "not_in_progress"]
  /\ kpc' = [kpc EXCEPT ![putting[w].task] =
                IF @ = "asleep" /\ w # MainThread THEN "woken" ELSE @]
  /\ putting' = [putting EXCEPT ![w] = NoPut]
  /\ main' = IF w = MainThread THEN "get_req" ELSE main
  /\ UNCHANGED <<about, ikcd_pid, dkm, served, flag, usr2, blocked, mapping, inHand>>

PutRespEnd(w) ==
  /\ putting[w] # NoPut
  /\ \E d \in {dkm[putting[w].task], putting[w].struct} :
       st' = [st EXCEPT ![d].req_state = "not_in_progress"]
  /\ kpc' = [u \in Tasks |-> IF kpc[u] = "asleep" THEN "woken" ELSE kpc[u]]
  /\ putting' = [putting EXCEPT ![w] = NoPut]
  /\ main' = IF w = MainThread THEN "get_req" ELSE main
  /\ UNCHANGED <<about, ikcd_pid, dkm, served, flag, usr2, blocked, mapping, inHand>>

\* SIGTERM: the handler unregisters; the daemon goes on.
OnSigterm ==
  /\ machine.stop
  /\ IkcdRuns /\ main \notin {"start", "put"}
  /\ ikcd_pid' = "none"
  /\ main' = IF main = "suspended" THEN "awake" ELSE main
  /\ UNCHANGED <<about, dkm, st, kpc, served, flag, usr2, blocked, mapping, inHand, putting>>

\* The process ends and leaves dkm_ikcd_pid as it is.
Crash ==
  /\ machine.crash
  /\ IkcdRuns /\ main # "put"
  /\ main' = "dead"
  /\ crashed' = TRUE
  /\ ikcd_pid' = IF ikcd_pid = "live" THEN "gone" ELSE ikcd_pid
  /\ flag' = 0 /\ usr2' = FALSE /\ blocked' = FALSE
  /\ mapping' = NoTask /\ inHand' = {}
  /\ UNCHANGED <<machine, dkm, st, kpc, served, putting>>

Restart ==
  /\ main = "dead"
  /\ main' = "start"
  /\ UNCHANGED <<about, kernelVars, flag, usr2, blocked, mapping, inHand, putting>>

TaskStep(t) ==
  \/ ExecLocal(t) \/ ExecMap(t)
  \/ DoReqRefused(t) \/ DoReqPost(t) \/ DoReqNoTask(t) \/ SendSig(t)
  \/ CheckDone(t) \/ CheckPending(t) \/ SleepOn(t)
  \/ Mapped(t) \/ Created(t) \/ NotMapped(t)

MainStep ==
  \/ Register \/ Sigsuspend \/ TestFlag \/ BlockUsr2 \/ GetReqNone
  \/ \E t \in Tasks : GetReqMap(t) \/ GetReqCreate(t)

Next ==
  \/ \E t \in Tasks : TaskStep(t) \/ ExecStart(t) \/ Interrupted(t)
  \/ \E t, u \in Tasks : Fork(t, u)
  \/ MainStep \/ OnSigusr2
  \/ AnswerMap \/ \E w \in Threads, t \in Tasks : AnswerCreate(w, t)
  \/ \E w \in Threads : PutRespEnd(w)
  \/ OnSigterm \/ Crash \/ Restart

Spec == Init /\ [][Next]_vars

\* Tasks inside the kernel run on, and so do the threads of the ikcd: the
\* scheduler passes none of them over for ever, even when the others keep
\* taking and releasing the kernel lock, and a pending signal is delivered in
\* the end.  Nobody has to start programs, fork or send signals.  Nor does the
\* ikcd have to answer what it has fetched: the main thread may block on the
\* csd's message queues, an outgoing worker may have missed its wake-up.
Fairness ==
  /\ \A t \in Tasks : SF_vars(TaskStep(t))
  /\ SF_vars(MainStep) /\ SF_vars(OnSigusr2)
  /\ \A w \in Threads : WF_vars(PutRespEnd(w))

FairSpec == Spec /\ Fairness

-------------------------------------------------------------------------------
(* Properties *)

\* The type of the kernel's and the main thread's state; every task that exists
\* has a struct that was initialised.
KTypeOK ==
  /\ machine \in Machines /\ crashed \in BOOLEAN
  /\ ikcd_pid \in {"none", "live", "gone"}
  /\ DOMAIN dkm \subseteq Tasks
  /\ DOMAIN st \subseteq Structs
  /\ \A t \in DOMAIN dkm : dkm[t] \in DOMAIN st
  /\ \A d \in DOMAIN st : st[d] \in StructType
  /\ kpc \in [Tasks -> TaskPlaces]
  /\ served \in [Tasks -> BOOLEAN]
  /\ main \in MainPlaces
  /\ flag \in {0, 1}
  /\ usr2 \in BOOLEAN
  /\ blocked \in BOOLEAN
  /\ mapping \in Tasks \cup {NoTask}
  /\ inHand \subseteq Tasks
  /\ putting \in [Threads -> [task : Tasks \cup {NoTask}, struct : Structs]]

\* Although do_fork hands the new struct to the parent, no two tasks share
\* one: an answer for one task cannot end the wait of another.
OneStructPerTask ==
  \A t, u \in DOMAIN dkm : dkm[t] = dkm[u] => t = u

\* A request the ikcd has fetched is still the one its task is waiting for and
\* is not handed out again: DKM_GET_REQ has marked it, and all the late store of
\* an earlier DKM_PUT_RESP can do, on more than one processor, is to take away
\* the mark for one that is not fetched either (dkmctl.c).
NotHandedOut(t) ==
  \/ Struct(t).req_state = "in_get_req"
  \/ machine.smp /\ Struct(t).req_state = "not_in_progress"

FetchedOnce ==
  /\ \A t \in inHand :
       /\ Struct(t).req = "proc_creat"
       /\ Struct(t).pending_req = 1
       /\ NotHandedOut(t)
  /\ mapping # NoTask =>
       /\ mapping \notin inHand
       /\ Struct(mapping).req = "map"
       /\ Struct(mapping).pending_req = 1
       /\ NotHandedOut(mapping)

\* A request somebody waits for is one DKM_GET_REQ finds or has handed out.  On
\* more than one processor the late store of DKM_PUT_RESP hides the next
\* request of the task for ever.
PendingIsMarked ==
  \A t \in DOMAIN dkm :
    Struct(t).pending_req = 1 => Struct(t).req_state # "not_in_progress"

\* DKM_DO_REQ does not return success before DKM_PUT_RESP has answered this
\* very request, whatever else wakes the task up, unless an ikcd has crashed and
\* left its process id (DoReqNoTask).
ReturnsAnswered ==
  \A t \in Tasks : kpc[t] = "returned" => served[t] \/ crashed

\* As long as no ikcd crashes, a task that is marked as distributed has a node it
\* was mapped to (dkmctl.c: "handle error in do_dkmctl for MAP_REQ, don't
\* distribute it").
DistributedIsMapped ==
  \A t \in DOMAIN dkm :
    kpc[t] = "user" /\ Struct(t).distributed = 1 /\ ~crashed =>
      Struct(t).r_node \in {"local", "remote"}

\* The same whatever the ikcd does.
DistributedIsMappedAlways ==
  \A t \in DOMAIN dkm :
    kpc[t] = "user" /\ Struct(t).distributed = 1 =>
      Struct(t).r_node \in {"local", "remote"}

\* The ikcd keeps what it has fetched: t's PROC_CREAT_REQ is never answered, or
\* the main thread never gets the csd's answer to a MAP_REQ.
NeverAnswered(t) == <>[](t \in inHand) \/ <>[](main = "map")

\* On one processor a request posted once the main thread has reached its loop is
\* fetched, and once the ikcd has answered it the task returns to user mode,
\* unless the ikcd ends meanwhile or tasks ahead of it in the task list never
\* stop executing programs (for_each_task in DKM_GET_REQ).
PostedReturns ==
  \A t \in Tasks :
    \/ machine.smp
    \/ (kpc[t] = "do_req" /\ main \notin {"start", "registered"})
         ~> (kpc[t] = "user" \/ main = "dead")
    \/ NeverAnswered(t)
    \/ []<>(\E u \in 1 .. t - 1 : kpc[u] = "exec")

\* A request posted to a registered ikcd reaches it.
RegisteredAnswers ==
  \A t \in Tasks :
    \/ kpc[t] = "do_req" /\ ikcd_pid = "live" ~> kpc[t] = "user"
    \/ NeverAnswered(t)

\* A task whose request is finished does not go on sleeping.
FinishedWakes ==
  \A t \in Tasks :
    kpc[t] = "asleep" /\ served[t] ~> kpc[t] # "asleep"
===============================================================================
