------------------------------- MODULE KiiProofs -------------------------------
(***************************************************************************)
(* The kernel interface for any number of tasks and structs, on one        *)
(* processor or more, with an ikcd that may stop, crash and restart.       *)
(***************************************************************************)
EXTENDS Kii, TLAPS

-------------------------------------------------------------------------------
(* The invariant *)

\* A task that is waiting for its request inside DKM_DO_REQ.
InLoop(t) == kpc[t] \in {"signal", "check", "checked", "asleep", "woken"}

\* Nobody runs who does not exist, and what the ikcd has fetched is of somebody
\* who does.
ExistInv ==
  /\ \A t \in Tasks : ~Exists(t) => kpc[t] = "user"
  /\ inHand \subseteq DOMAIN dkm
  /\ mapping \in DOMAIN dkm \cup {NoTask}
  /\ main = "map" => mapping # NoTask
  /\ ikcd_pid = "gone" => crashed

\* A task has a request while it is in dkm_execve and no longer.
Idle(t) == kpc[t] \in {"user", "exec"} <=> Struct(t).req = "nop"

\* An unanswered request is pending for as long as its task waits, and without
\* a crash for no longer.
Pending(t) ==
  /\ InLoop(t) /\ ~served[t] => Struct(t).pending_req = 1
  /\ ~crashed /\ ~InLoop(t) => Struct(t).pending_req = 0

\* A task whose request was fetched is waiting for it.
Fetched(t) ==
  ~(machine.smp /\ crashed) =>
    /\ t \in inHand \/ t = mapping =>
         InLoop(t) /\ Struct(t).pending_req = 1 /\ NotHandedOut(t)
    /\ t \in inHand => Struct(t).req = "proc_creat"
    /\ t = mapping => Struct(t).req = "map"

Returned(t) == kpc[t] = "returned" => served[t] \/ crashed

\* The node of a task is known once its MAP_REQ has been answered.
Node(t) ==
  ~crashed =>
    /\ kpc[t] = "user" /\ Struct(t).distributed = 1 => Struct(t).r_node \in {"local", "remote"}
    /\ Struct(t).req = "proc_creat" => Struct(t).r_node \in {"local", "remote"}
    /\ (InLoop(t) \/ kpc[t] = "returned") /\ served[t] => Struct(t).r_node \in {"local", "remote"}

TaskInv(t) == Idle(t) /\ Pending(t) /\ Fetched(t) /\ Returned(t) /\ Node(t)

\* A task and a struct that are there wait for the late store; with one processor
\* the struct is the task's and the ikcd is done with its request.
PutInv ==
  \A w \in Threads : putting[w] # NoPut =>
    /\ putting[w].task \in DOMAIN dkm /\ putting[w].struct \in DOMAIN st
    /\ ~machine.smp =>
         /\ putting[w].struct = dkm[putting[w].task]
         /\ putting[w].task \notin inHand /\ putting[w].task # mapping

KBase ==
  /\ KTypeOK /\ ExistInv /\ OneStructPerTask
  /\ \A t \in DOMAIN dkm : TaskInv(t)

KInv == KBase /\ PutInv

-------------------------------------------------------------------------------
(* Structs and places *)

FieldNames == {"pending_req", "req_state", "req", "r_node", "distributed"}

\* Values that may be assigned to fields.
Assignable(fields) ==
  /\ "pending_req" \in DOMAIN fields => fields["pending_req"] \in {0, 1}
  /\ "req_state" \in DOMAIN fields =>
       fields["req_state"] \in {"not_in_progress", "in_do_req", "in_get_req"}
  /\ "req" \in DOMAIN fields => fields["req"] \in {"nop", "map", "proc_creat"}
  /\ "r_node" \in DOMAIN fields => fields["r_node"] \in {"null", "junk", "local", "remote"}
  /\ "distributed" \in DOMAIN fields => fields["distributed"] \in {0, 1}

\* Assignments to fields of current->dkm leave the other fields and the other
\* structs alone.
LEMMA AssignFields ==
  ASSUME KTypeOK, OneStructPerTask, NEW t \in DOMAIN dkm, NEW fields,
         Assignable(fields), Assign(t, fields), dkm' = dkm
  PROVE  /\ DOMAIN st' = DOMAIN st
         /\ \A d \in DOMAIN st : st'[d] \in StructType
         /\ \A u \in DOMAIN dkm : u # t => Struct(u)' = Struct(u)
         /\ Struct(t)'.pending_req = IF "pending_req" \in DOMAIN fields
                                     THEN fields["pending_req"] ELSE Struct(t).pending_req
         /\ Struct(t)'.req_state = IF "req_state" \in DOMAIN fields
                                   THEN fields["req_state"] ELSE Struct(t).req_state
         /\ Struct(t)'.req = IF "req" \in DOMAIN fields
                             THEN fields["req"] ELSE Struct(t).req
         /\ Struct(t)'.r_node = IF "r_node" \in DOMAIN fields
                                THEN fields["r_node"] ELSE Struct(t).r_node
         /\ Struct(t)'.distributed = IF "distributed" \in DOMAIN fields
                                     THEN fields["distributed"] ELSE Struct(t).distributed
<1> DEFINE d == dkm[t]
<1>1. d \in DOMAIN st /\ st[d] \in StructType
  BY DEF KTypeOK
<1>2. DOMAIN st[d] = FieldNames
  BY <1>1 DEF StructType, FieldNames
<1>3. st' = [st EXCEPT ![d] =
               [f \in DOMAIN st[d] |-> IF f \in DOMAIN fields THEN fields[f] ELSE st[d][f]]]
  BY DEF Assign
<1>4. DOMAIN st' = DOMAIN st /\ \A e \in DOMAIN st : e # d => st'[e] = st[e]
  BY <1>3
<1>5. st'[d] = [f \in DOMAIN st[d] |-> IF f \in DOMAIN fields THEN fields[f] ELSE st[d][f]]
  BY <1>1, <1>3
<1>6. Struct(t)' = st'[d] /\ Struct(t) = st[d]
  BY DEF Struct
<1>7. ASSUME NEW u \in DOMAIN dkm, u # t PROVE Struct(u)' = Struct(u)
  <2>1. dkm[u] # d /\ dkm[u] \in DOMAIN st
    BY <1>7 DEF OneStructPerTask, KTypeOK
  <2>2. QED
    BY <1>4, <2>1 DEF Struct
<1>8. PICK s : s = [f \in FieldNames |-> IF f \in DOMAIN fields THEN fields[f] ELSE st[d][f]]
  OBVIOUS
<1>9. s \in StructType
  <2>1. \A f \in FieldNames : s[f] = IF f \in DOMAIN fields THEN fields[f] ELSE st[d][f]
    BY <1>8
  <2>2. /\ s["pending_req"] \in {0, 1}
        /\ s["req_state"] \in {"not_in_progress", "in_do_req", "in_get_req"}
        /\ s["req"] \in {"nop", "map", "proc_creat"}
        /\ s["r_node"] \in {"null", "junk", "local", "remote"}
        /\ s["distributed"] \in {0, 1}
    BY <1>1, <2>1 DEF Assignable, StructType, FieldNames
  <2>3. QED
    BY <1>8, <2>2 DEF StructType, FieldNames
<1>10. \A e \in DOMAIN st : st'[e] \in StructType
  BY <1>2, <1>4, <1>5, <1>8, <1>9 DEF KTypeOK
<1>11. \A f \in FieldNames : st'[d][f] = IF f \in DOMAIN fields THEN fields[f] ELSE st[d][f]
  BY <1>2, <1>5
<1>12. QED
  BY <1>1, <1>4, <1>6, <1>7, <1>10, <1>11 DEF FieldNames

\* At most woken up or done with, as far as TaskInv(u) can tell.
Untouched(u) ==
  /\ kpc'[u] = kpc[u] \/ (kpc[u] = "asleep" /\ kpc'[u] = "woken")
  /\ served'[u] = served[u] /\ Struct(u)' = Struct(u)
  /\ u \in inHand' => u \in inHand
  /\ u = mapping' => u = mapping

LEMMA UntouchedKeeps ==
  ASSUME NEW u, TaskInv(u), Untouched(u), UNCHANGED about
  PROVE  TaskInv(u)'
BY DEF about, Untouched, TaskInv, Idle, Pending, Fetched, NotHandedOut, Returned, Node, InLoop

\* With one processor nothing else happens between the two stores of a
\* DKM_PUT_RESP.
LEMMA PutInvKeeps ==
  ASSUME KInv, UNCHANGED <<machine, putting>>,
         DOMAIN dkm \subseteq DOMAIN dkm', DOMAIN st \subseteq DOMAIN st',
         machine.smp \/ NobodyPuts \/ UNCHANGED <<dkm, mapping, inHand>>
  PROVE  PutInv'
BY DEF KInv, PutInv, NobodyPuts

\* A step of a task inside the kernel touches the task and its struct.
LEMMA TaskFrame ==
  ASSUME KInv, NEW t \in DOMAIN dkm, NEW from, NEW to \in TaskPlaces, KGoto(t, from, to),
         UNCHANGED <<about, ikcd_pid, dkm, main, flag, blocked, mapping, inHand, putting>>,
         usr2' \in BOOLEAN,
         DOMAIN st' = DOMAIN st, \A d \in DOMAIN st : st'[d] \in StructType,
         \A u \in DOMAIN dkm : u # t => Struct(u)' = Struct(u),
         served' = served \/ served' = [served EXCEPT ![t] = FALSE],
         TaskInv(t)'
  PROVE  KBase'
<1>1. KTypeOK /\ ExistInv /\ OneStructPerTask /\ t \in Tasks
  BY DEF KInv, KBase, KTypeOK
<1>2. kpc'[t] = to /\ \A u \in Tasks : u # t => kpc'[u] = kpc[u]
  BY <1>1 DEF KGoto, KTypeOK
<1>3. KTypeOK'
  BY <1>1 DEF KTypeOK, KGoto, about
<1>4. ExistInv'
  BY <1>1, <1>2 DEF ExistInv, about, Exists
<1>5. OneStructPerTask'
  BY <1>1 DEF OneStructPerTask
<1>6. ASSUME NEW u \in DOMAIN dkm, u # t PROVE TaskInv(u)'
  <2>1. u \in Tasks /\ TaskInv(u)
    BY <1>6 DEF KInv, KBase, KTypeOK
  <2>2. served'[u] = served[u]
    BY <1>1, <1>6, <2>1 DEF KTypeOK
  <2>3. Untouched(u)
    BY <1>2, <1>6, <2>1, <2>2 DEF Untouched
  <2>4. QED
    BY <2>1, <2>3, UntouchedKeeps
<1>7. QED
  BY <1>3, <1>4, <1>5, <1>6 DEF KInv, KBase

-------------------------------------------------------------------------------
(* Tasks *)

\* Where a task that moves comes from and goes to.
LEMMA MoverIs ==
  ASSUME KInv, NEW t \in Tasks, NEW from, NEW to, KGoto(t, from, to)
  PROVE  /\ t \in DOMAIN dkm /\ kpc[t] = from /\ kpc'[t] = to
         /\ TaskInv(t) /\ KTypeOK /\ OneStructPerTask /\ ExistInv
BY DEF KGoto, Runs, Exists, KInv, KBase, KTypeOK

\* Steps that move a task and change no struct.
LEMMA PlaceSteps ==
  ASSUME KInv, NEW t \in Tasks,
         \/ DoReqRefused(t) \/ SendSig(t) \/ CheckDone(t) \/ CheckPending(t)
         \/ SleepOn(t) \/ Interrupted(t)
  PROVE  KBase'
<1> USE DEF ikcdVars, about, InLoop
<1>1. ASSUME NEW from, NEW to \in TaskPlaces, KGoto(t, from, to),
             UNCHANGED <<about, ikcd_pid, dkm, st, served, main, flag, blocked, mapping, inHand, putting>>,
             usr2' \in BOOLEAN, TaskInv(t)'
      PROVE  KBase'
  <2>1. KTypeOK /\ t \in DOMAIN dkm
    BY <1>1, MoverIs
  <2>2. \A d \in DOMAIN st : st'[d] \in StructType
    BY <1>1, <2>1 DEF KTypeOK
  <2>3. \A u \in DOMAIN dkm : Struct(u)' = Struct(u)
    BY <1>1 DEF Struct
  <2>4. QED
    BY <1>1, <2>1, <2>2, <2>3, TaskFrame
<1>2. UNCHANGED <<st, dkm, served, crashed, machine, mapping, inHand, putting>> /\ Struct(t)' = Struct(t)
  BY DEF DoReqRefused, SendSig, CheckDone, CheckPending, SleepOn, Interrupted, Struct
<1>3. CASE DoReqRefused(t)
  <2>1. KGoto(t, "do_req", "refused")
    BY <1>3 DEF DoReqRefused
  <2>2. kpc[t] = "do_req" /\ kpc'[t] = "refused" /\ TaskInv(t) /\ KTypeOK
    BY <2>1, MoverIs
  <2>3. TaskInv(t)'
    BY <1>2, <2>2 DEF TaskInv, Idle, Pending, Fetched, NotHandedOut, Returned, Node
  <2>4. QED
    BY <1>1, <1>3, <2>1, <2>2, <2>3 DEF DoReqRefused, TaskPlaces, KTypeOK
<1>4. CASE SendSig(t)
  <2>1. KGoto(t, "signal", "check")
    BY <1>4 DEF SendSig
  <2>2. kpc[t] = "signal" /\ kpc'[t] = "check" /\ TaskInv(t) /\ KTypeOK
    BY <2>1, MoverIs
  <2>3. TaskInv(t)'
    BY <1>2, <2>2 DEF TaskInv, Idle, Pending, Fetched, NotHandedOut, Returned, Node
  <2>4. usr2' \in BOOLEAN
    BY <1>4 DEF SendSig
  <2>5. QED
    BY <1>1, <1>4, <2>1, <2>3, <2>4 DEF SendSig, TaskPlaces
<1>5. CASE CheckDone(t)
  <2>1. KGoto(t, kpc[t], "returned") /\ AtLoop(t) /\ Struct(t).pending_req = 0
    BY <1>5 DEF CheckDone
  <2>2. kpc[t] \in {"check", "woken"} /\ kpc'[t] = "returned" /\ TaskInv(t) /\ KTypeOK
    BY <2>1, MoverIs DEF AtLoop
  <2>3. TaskInv(t)'
    BY <1>2, <2>1, <2>2 DEF TaskInv, Idle, Pending, Fetched, NotHandedOut, Returned, Node
  <2>4. QED
    BY <1>1, <1>5, <2>1, <2>2, <2>3 DEF CheckDone, TaskPlaces, KTypeOK
<1>6. CASE CheckPending(t)
  <2>1. KGoto(t, kpc[t], "checked") /\ AtLoop(t)
    BY <1>6 DEF CheckPending
  <2>2. kpc[t] \in {"check", "woken"} /\ kpc'[t] = "checked" /\ TaskInv(t) /\ KTypeOK
    BY <2>1, MoverIs DEF AtLoop
  <2>3. TaskInv(t)'
    BY <1>2, <2>2 DEF TaskInv, Idle, Pending, Fetched, NotHandedOut, Returned, Node
  <2>4. QED
    BY <1>1, <1>6, <2>1, <2>2, <2>3 DEF CheckPending, TaskPlaces, KTypeOK
<1>7. CASE SleepOn(t)
  <2>1. KGoto(t, "checked", "asleep")
    BY <1>7 DEF SleepOn
  <2>2. kpc[t] = "checked" /\ kpc'[t] = "asleep" /\ TaskInv(t) /\ KTypeOK
    BY <2>1, MoverIs
  <2>3. TaskInv(t)'
    BY <1>2, <2>2 DEF TaskInv, Idle, Pending, Fetched, NotHandedOut, Returned, Node
  <2>4. QED
    BY <1>1, <1>7, <2>1, <2>2, <2>3 DEF SleepOn, TaskPlaces, KTypeOK
<1>8. CASE Interrupted(t)
  <2>1. KGoto(t, "asleep", "woken")
    BY <1>8 DEF Interrupted
  <2>2. kpc[t] = "asleep" /\ kpc'[t] = "woken" /\ TaskInv(t) /\ KTypeOK
    BY <2>1, MoverIs
  <2>3. TaskInv(t)'
    BY <1>2, <2>2 DEF TaskInv, Idle, Pending, Fetched, NotHandedOut, Returned, Node
  <2>4. QED
    BY <1>1, <1>8, <2>1, <2>2, <2>3 DEF Interrupted, TaskPlaces, KTypeOK
<1>9. QED
  BY <1>3, <1>4, <1>5, <1>6, <1>7, <1>8

\* Steps that move a task and assign to its struct.
LEMMA AssignFrame ==
  ASSUME KInv, NEW t \in Tasks, NEW from, NEW to \in TaskPlaces, KGoto(t, from, to),
         NEW fields, Assignable(fields), Assign(t, fields),
         UNCHANGED <<about, ikcd_pid, dkm, ikcdVars>>,
         served' = served \/ served' = [served EXCEPT ![t] = FALSE],
         TaskInv(t)'
  PROVE  KBase'
<1>1. KTypeOK /\ OneStructPerTask /\ t \in DOMAIN dkm
  BY MoverIs
<1>2. /\ DOMAIN st' = DOMAIN st
      /\ \A d \in DOMAIN st : st'[d] \in StructType
      /\ \A u \in DOMAIN dkm : u # t => Struct(u)' = Struct(u)
  BY <1>1, AssignFields
<1>3. usr2' \in BOOLEAN
  BY <1>1 DEF ikcdVars, KTypeOK
<1>4. QED
  BY <1>1, <1>2, <1>3, TaskFrame DEF ikcdVars

LEMMA StructSteps ==
  ASSUME KInv, NEW t \in Tasks,
         \/ ExecStart(t) \/ ExecLocal(t) \/ ExecMap(t) \/ DoReqPost(t) \/ DoReqNoTask(t)
         \/ Mapped(t) \/ Created(t) \/ NotMapped(t)
  PROVE  KBase'
<1> USE DEF ikcdVars, about, InLoop
<1>1. CASE ExecStart(t)
  <2>1. KGoto(t, "user", "exec") /\ Assign(t, [r_node |-> "junk"]) /\ UNCHANGED <<about, ikcd_pid, dkm, ikcdVars>>
    BY <1>1 DEF ExecStart
  <2>2. /\ t \in DOMAIN dkm /\ kpc[t] = "user" /\ kpc'[t] = "exec"
        /\ TaskInv(t) /\ KTypeOK /\ OneStructPerTask /\ ExistInv
    BY <2>1, MoverIs
  <2>3. Assignable([r_node |-> "junk"])
    BY DEF Assignable
  <2>4. /\ Struct(t)'.pending_req = Struct(t).pending_req
        /\ Struct(t)'.req_state = Struct(t).req_state
        /\ Struct(t)'.req = Struct(t).req
        /\ Struct(t)'.r_node = "junk"
        /\ Struct(t)'.distributed = Struct(t).distributed
    BY <2>1, <2>2, <2>3, AssignFields
  <2>5. served' = served
    BY <1>1 DEF ExecStart
  <2>6. TaskInv(t)'
    BY <2>1, <2>2, <2>4, <2>5 DEF TaskInv, Idle, Pending, Fetched, NotHandedOut, Returned, Node
  <2>7. QED
    BY <2>1, <2>3, <2>5, <2>6, AssignFrame DEF TaskPlaces
<1>2. CASE ExecLocal(t)
  <2>1. KGoto(t, "exec", "user") /\ Assign(t, [r_node |-> "local", distributed |-> 0]) /\ UNCHANGED <<about, ikcd_pid, dkm, ikcdVars>>
    BY <1>2 DEF ExecLocal
  <2>2. /\ t \in DOMAIN dkm /\ kpc[t] = "exec" /\ kpc'[t] = "user"
        /\ TaskInv(t) /\ KTypeOK /\ OneStructPerTask /\ ExistInv
    BY <2>1, MoverIs
  <2>3. Assignable([r_node |-> "local", distributed |-> 0])
    BY DEF Assignable
  <2>4. /\ Struct(t)'.pending_req = Struct(t).pending_req
        /\ Struct(t)'.req_state = Struct(t).req_state
        /\ Struct(t)'.req = Struct(t).req
        /\ Struct(t)'.r_node = "local"
        /\ Struct(t)'.distributed = 0
    BY <2>1, <2>2, <2>3, AssignFields
  <2>5. served' = served
    BY <1>2 DEF ExecLocal
  <2>6. TaskInv(t)'
    BY <2>1, <2>2, <2>4, <2>5 DEF TaskInv, Idle, Pending, Fetched, NotHandedOut, Returned, Node
  <2>7. QED
    BY <2>1, <2>3, <2>5, <2>6, AssignFrame DEF TaskPlaces
<1>3. CASE ExecMap(t)
  <2>1. KGoto(t, "exec", "do_req") /\ Assign(t, [req |-> "map"]) /\ UNCHANGED <<about, ikcd_pid, dkm, ikcdVars>>
    BY <1>3 DEF ExecMap
  <2>2. /\ t \in DOMAIN dkm /\ kpc[t] = "exec" /\ kpc'[t] = "do_req"
        /\ TaskInv(t) /\ KTypeOK /\ OneStructPerTask /\ ExistInv
    BY <2>1, MoverIs
  <2>3. Assignable([req |-> "map"])
    BY DEF Assignable
  <2>4. /\ Struct(t)'.pending_req = Struct(t).pending_req
        /\ Struct(t)'.req_state = Struct(t).req_state
        /\ Struct(t)'.req = "map"
        /\ Struct(t)'.r_node = Struct(t).r_node
        /\ Struct(t)'.distributed = Struct(t).distributed
    BY <2>1, <2>2, <2>3, AssignFields
  <2>5. served' = served
    BY <1>3 DEF ExecMap
  <2>6. TaskInv(t)'
    BY <2>1, <2>2, <2>4, <2>5 DEF TaskInv, Idle, Pending, Fetched, NotHandedOut, Returned, Node
  <2>7. QED
    BY <2>1, <2>3, <2>5, <2>6, AssignFrame DEF TaskPlaces
<1>4. CASE DoReqPost(t)
  <2>1. KGoto(t, "do_req", "signal") /\ Assign(t, Posted) /\ UNCHANGED <<about, ikcd_pid, dkm, ikcdVars>>
    BY <1>4 DEF DoReqPost
  <2>2. /\ t \in DOMAIN dkm /\ kpc[t] = "do_req" /\ kpc'[t] = "signal"
        /\ TaskInv(t) /\ KTypeOK /\ OneStructPerTask /\ ExistInv
    BY <2>1, MoverIs
  <2>3. Assignable(Posted)
    BY DEF Assignable, Posted
  <2>4. /\ Struct(t)'.pending_req = 1
        /\ Struct(t)'.req_state = "in_do_req"
        /\ Struct(t)'.req = Struct(t).req
        /\ Struct(t)'.r_node = Struct(t).r_node
        /\ Struct(t)'.distributed = Struct(t).distributed
    BY <2>1, <2>2, <2>3, AssignFields DEF Posted
  <2>5. served' = [served EXCEPT ![t] = FALSE] /\ served'[t] = FALSE
    BY <1>4, <2>2 DEF DoReqPost, KTypeOK
  <2>6. TaskInv(t)'
    BY <2>1, <2>2, <2>4, <2>5 DEF TaskInv, Idle, Pending, Fetched, NotHandedOut, Returned, Node
  <2>7. QED
    BY <2>1, <2>3, <2>5, <2>6, AssignFrame DEF TaskPlaces
<1>5. CASE DoReqNoTask(t)
  <2>1. KGoto(t, "do_req", "returned") /\ Assign(t, Posted) /\ UNCHANGED <<about, ikcd_pid, dkm, ikcdVars>>
    BY <1>5 DEF DoReqNoTask
  <2>2. /\ t \in DOMAIN dkm /\ kpc[t] = "do_req" /\ kpc'[t] = "returned"
        /\ TaskInv(t) /\ KTypeOK /\ OneStructPerTask /\ ExistInv
    BY <2>1, MoverIs
  <2>3. Assignable(Posted)
    BY DEF Assignable, Posted
  <2>4. /\ Struct(t)'.pending_req = 1
        /\ Struct(t)'.req_state = "in_do_req"
        /\ Struct(t)'.req = Struct(t).req
        /\ Struct(t)'.r_node = Struct(t).r_node
        /\ Struct(t)'.distributed = Struct(t).distributed
    BY <2>1, <2>2, <2>3, AssignFields DEF Posted
  <2>5. served' = [served EXCEPT ![t] = FALSE] /\ served'[t] = FALSE
    BY <1>5, <2>2 DEF DoReqNoTask, KTypeOK
  <2>6. crashed
    BY <1>5, <2>2 DEF DoReqNoTask, ExistInv
  <2>7. TaskInv(t)'
    BY <2>1, <2>2, <2>4, <2>5, <2>6 DEF TaskInv, Idle, Pending, Fetched, NotHandedOut, Returned, Node
  <2>8. QED
    BY <2>1, <2>3, <2>5, <2>7, AssignFrame DEF TaskPlaces
<1>6. CASE Created(t)
  <2>1. KGoto(t, "returned", "user") /\ Assign(t, [req |-> "nop"]) /\ UNCHANGED <<about, ikcd_pid, dkm, ikcdVars>>
    BY <1>6 DEF Created
  <2>2. /\ t \in DOMAIN dkm /\ kpc[t] = "returned" /\ kpc'[t] = "user"
        /\ TaskInv(t) /\ KTypeOK /\ OneStructPerTask /\ ExistInv
    BY <2>1, MoverIs
  <2>3. Assignable([req |-> "nop"])
    BY DEF Assignable
  <2>4. /\ Struct(t)'.pending_req = Struct(t).pending_req
        /\ Struct(t)'.req_state = Struct(t).req_state
        /\ Struct(t)'.req = "nop"
        /\ Struct(t)'.r_node = Struct(t).r_node
        /\ Struct(t)'.distributed = Struct(t).distributed
    BY <2>1, <2>2, <2>3, AssignFields
  <2>5. served' = served
    BY <1>6 DEF Created
  <2>6. TaskInv(t)'
    BY <2>1, <2>2, <2>4, <2>5 DEF TaskInv, Idle, Pending, Fetched, NotHandedOut, Returned, Node
  <2>7. QED
    BY <2>1, <2>3, <2>5, <2>6, AssignFrame DEF TaskPlaces
<1>7. CASE Mapped(t)
  <2>1. Struct(t).req = "map"
    BY <1>7 DEF Mapped
  <2>2. CASE Struct(t).r_node # "local"
    <3>1. KGoto(t, "returned", "do_req") /\ Assign(t, [distributed |-> 1, req |-> "proc_creat"]) /\ UNCHANGED <<about, ikcd_pid, dkm, ikcdVars>>
      BY <1>7, <2>2 DEF Mapped
    <3>2. /\ t \in DOMAIN dkm /\ kpc[t] = "returned" /\ kpc'[t] = "do_req"
          /\ TaskInv(t) /\ KTypeOK /\ OneStructPerTask /\ ExistInv
      BY <3>1, MoverIs
    <3>3. Assignable([distributed |-> 1, req |-> "proc_creat"])
      BY DEF Assignable
    <3>4. /\ Struct(t)'.pending_req = Struct(t).pending_req
          /\ Struct(t)'.req_state = Struct(t).req_state
          /\ Struct(t)'.req = "proc_creat"
          /\ Struct(t)'.r_node = Struct(t).r_node
          /\ Struct(t)'.distributed = 1
      BY <3>1, <3>2, <3>3, AssignFields
    <3>5. served' = served
      BY <1>7, <2>2 DEF Mapped
    <3>6. Struct(t).r_node \in {"local", "remote"} \/ crashed
      BY <3>2 DEF TaskInv, Returned, Node
    <3>7. TaskInv(t)'
      BY <3>1, <3>2, <3>4, <3>5, <2>1, <3>6 DEF TaskInv, Idle, Pending, Fetched, NotHandedOut, Returned, Node
    <3>8. QED
      BY <3>1, <3>3, <3>5, <3>7, AssignFrame DEF TaskPlaces
  <2>3. CASE Struct(t).r_node = "local"
    <3>1. KGoto(t, "returned", "user") /\ Assign(t, [distributed |-> 1, req |-> "nop"]) /\ UNCHANGED <<about, ikcd_pid, dkm, ikcdVars>>
      BY <1>7, <2>3 DEF Mapped
    <3>2. /\ t \in DOMAIN dkm /\ kpc[t] = "returned" /\ kpc'[t] = "user"
          /\ TaskInv(t) /\ KTypeOK /\ OneStructPerTask /\ ExistInv
      BY <3>1, MoverIs
    <3>3. Assignable([distributed |-> 1, req |-> "nop"])
      BY DEF Assignable
    <3>4. /\ Struct(t)'.pending_req = Struct(t).pending_req
          /\ Struct(t)'.req_state = Struct(t).req_state
          /\ Struct(t)'.req = "nop"
          /\ Struct(t)'.r_node = Struct(t).r_node
          /\ Struct(t)'.distributed = 1
      BY <3>1, <3>2, <3>3, AssignFields
    <3>5. served' = served
      BY <1>7, <2>3 DEF Mapped
    <3>6. TaskInv(t)'
      BY <3>1, <3>2, <3>4, <3>5, <2>1, <2>3 DEF TaskInv, Idle, Pending, Fetched, NotHandedOut, Returned, Node
    <3>7. QED
      BY <3>1, <3>3, <3>5, <3>6, AssignFrame DEF TaskPlaces
  <2>4. QED
    BY <2>2, <2>3
<1>8. CASE NotMapped(t)
  <2>1. CASE Struct(t).req = "map"
    <3>1. KGoto(t, "refused", "user") /\ Assign(t, [r_node |-> "local", distributed |-> 0, pending_req |-> 0,
                                                      req |-> "nop"]) /\ UNCHANGED <<about, ikcd_pid, dkm, ikcdVars>>
      BY <1>8, <2>1 DEF NotMapped
    <3>2. /\ t \in DOMAIN dkm /\ kpc[t] = "refused" /\ kpc'[t] = "user"
          /\ TaskInv(t) /\ KTypeOK /\ OneStructPerTask /\ ExistInv
      BY <3>1, MoverIs
    <3>3. Assignable([r_node |-> "local", distributed |-> 0, pending_req |-> 0,
                                                      req |-> "nop"])
      BY DEF Assignable
    <3>4. /\ Struct(t)'.pending_req = 0
          /\ Struct(t)'.req_state = Struct(t).req_state
          /\ Struct(t)'.req = "nop"
          /\ Struct(t)'.r_node = "local"
          /\ Struct(t)'.distributed = 0
      BY <3>1, <3>2, <3>3, AssignFields
    <3>5. served' = served
      BY <1>8, <2>1 DEF NotMapped
    <3>6. TaskInv(t)'
      BY <3>1, <3>2, <3>4, <3>5, <2>1 DEF TaskInv, Idle, Pending, Fetched, NotHandedOut, Returned, Node
    <3>7. QED
      BY <3>1, <3>3, <3>5, <3>6, AssignFrame DEF TaskPlaces
  <2>2. CASE Struct(t).req # "map"
    <3>1. KGoto(t, "refused", "user") /\ Assign(t, [req |-> "nop"]) /\ UNCHANGED <<about, ikcd_pid, dkm, ikcdVars>>
      BY <1>8, <2>2 DEF NotMapped
    <3>2. /\ t \in DOMAIN dkm /\ kpc[t] = "refused" /\ kpc'[t] = "user"
          /\ TaskInv(t) /\ KTypeOK /\ OneStructPerTask /\ ExistInv
      BY <3>1, MoverIs
    <3>3. Assignable([req |-> "nop"])
      BY DEF Assignable
    <3>4. /\ Struct(t)'.pending_req = Struct(t).pending_req
          /\ Struct(t)'.req_state = Struct(t).req_state
          /\ Struct(t)'.req = "nop"
          /\ Struct(t)'.r_node = Struct(t).r_node
          /\ Struct(t)'.distributed = Struct(t).distributed
      BY <3>1, <3>2, <3>3, AssignFields
    <3>5. served' = served
      BY <1>8, <2>2 DEF NotMapped
    <3>6. Struct(t).req = "proc_creat"
      BY <2>2, <3>2 DEF KTypeOK, Struct, StructType, TaskInv, Idle
    <3>7. TaskInv(t)'
      BY <3>1, <3>2, <3>4, <3>5, <3>6 DEF TaskInv, Idle, Pending, Fetched, NotHandedOut, Returned, Node
    <3>8. QED
      BY <3>1, <3>3, <3>5, <3>7, AssignFrame DEF TaskPlaces
  <2>3. QED
    BY <2>1, <2>2
<1>9. QED
  BY <1>1, <1>2, <1>3, <1>4, <1>5, <1>6, <1>7, <1>8

\* do_fork: the child takes over the struct of the parent, which gets a new one;
\* neither of them has a request.
LEMMA ForkStep ==
  ASSUME KInv, NEW t \in Tasks, NEW u \in Tasks, Fork(t, u)
  PROVE  KBase'
<1> USE DEF ikcdVars, about, InLoop
<1>1. KTypeOK /\ ExistInv /\ OneStructPerTask
  BY DEF KInv, KBase
<1>2. /\ t \in DOMAIN dkm /\ kpc[t] = "user" /\ u \notin DOMAIN dkm
      /\ UNCHANGED <<machine, crashed, ikcd_pid, kpc, served, main, flag, usr2, blocked,
                     mapping, inHand, putting>>
  BY DEF Fork, Runs, Exists
<1>3. PICK d \in Structs \ DOMAIN st :
        /\ st' = [e \in DOMAIN st \cup {d} |-> IF e = d THEN FreshStruct ELSE st[e]]
        /\ dkm' = [v \in DOMAIN dkm \cup {u} |->
                     CASE v = u -> dkm[t] [] v = t -> d [] OTHER -> dkm[v]]
  BY DEF Fork
<1>4. /\ DOMAIN dkm' = DOMAIN dkm \cup {u} /\ DOMAIN st' = DOMAIN st \cup {d}
      /\ dkm'[u] = dkm[t] /\ dkm'[t] = d
      /\ \A v \in DOMAIN dkm : v # t => dkm'[v] = dkm[v]
      /\ st'[d] = FreshStruct /\ \A e \in DOMAIN st : st'[e] = st[e]
  BY <1>2, <1>3
<1>5. FreshStruct \in StructType
  BY DEF FreshStruct, StructType
<1>6. kpc[u] = "user" /\ u \notin inHand /\ u # mapping
  BY <1>1, <1>2 DEF ExistInv, Exists, Tasks, NoTask
<1>7. KTypeOK'
  <2>1. \A v \in DOMAIN dkm' : dkm'[v] \in DOMAIN st'
    BY <1>1, <1>2, <1>4 DEF KTypeOK
  <2>2. \A e \in DOMAIN st' : st'[e] \in StructType
    BY <1>1, <1>4, <1>5 DEF KTypeOK
  <2>3. DOMAIN dkm' \subseteq Tasks /\ DOMAIN st' \subseteq Structs
    BY <1>1, <1>4 DEF KTypeOK
  <2>4. QED
    BY <1>1, <1>2, <2>1, <2>2, <2>3 DEF KTypeOK
<1>8. ExistInv'
  BY <1>1, <1>2, <1>4 DEF ExistInv, Exists
<1>9. OneStructPerTask'
  BY <1>1, <1>2, <1>4 DEF OneStructPerTask, KTypeOK
<1>10. Struct(u)' = Struct(t) /\ Struct(t)' = FreshStruct
  BY <1>1, <1>2, <1>4 DEF Struct, KTypeOK
<1>11. TaskInv(t)
  BY <1>2 DEF KInv, KBase
<1>12. TaskInv(u)'
  BY <1>2, <1>6, <1>10, <1>11 DEF TaskInv, Idle, Pending, Fetched, NotHandedOut, Returned, Node
<1>13. FreshStruct.req = "nop" /\ FreshStruct.pending_req = 0 /\ FreshStruct.distributed = 0
  BY DEF FreshStruct
<1>14. TaskInv(t)'
  <2>1. Struct(t)'.req = "nop" /\ Struct(t)'.pending_req = 0 /\ Struct(t)'.distributed = 0
    BY <1>10, <1>13
  <2>2. QED
    BY <1>2, <1>11, <2>1 DEF TaskInv, Idle, Pending, Fetched, NotHandedOut, Returned, Node
<1>15. ASSUME NEW v \in DOMAIN dkm, v # t PROVE TaskInv(v)'
  <2>1. Struct(v)' = Struct(v) /\ TaskInv(v)
    BY <1>1, <1>4, <1>15 DEF Struct, KTypeOK, KInv, KBase
  <2>2. Untouched(v)
    BY <1>2, <2>1 DEF Untouched
  <2>3. QED
    BY <1>2, <2>1, <2>2, UntouchedKeeps
<1>16. QED
  BY <1>4, <1>7, <1>8, <1>9, <1>12, <1>14, <1>15 DEF KInv, KBase

-------------------------------------------------------------------------------
(* The ikcd *)

\* What the main thread does on its own account concerns no task.
LEMMA MainSteps ==
  ASSUME KInv,
         \/ Register \/ Sigsuspend \/ TestFlag \/ BlockUsr2 \/ GetReqNone
         \/ OnSigusr2 \/ OnSigterm \/ Restart
  PROVE  KBase'
<1> USE DEF ikcdVars, kernelVars, about
<1>1. KTypeOK /\ ExistInv /\ OneStructPerTask
  BY DEF KInv, KBase
<1>2. UNCHANGED <<machine, crashed, dkm, st, kpc, served, mapping, inHand, putting>>
  BY DEF Register, Sigsuspend, TestFlag, BlockUsr2, GetReqNone, OnSigusr2, OnSigterm, Restart
<1>3. /\ ikcd_pid' \in {ikcd_pid, "live", "none"}
      /\ main' \in MainPlaces /\ flag' \in {0, 1} /\ usr2' \in BOOLEAN /\ blocked' \in BOOLEAN
      /\ main' = "map" => main = "map"
  BY <1>1 DEF Register, Sigsuspend, TestFlag, BlockUsr2, GetReqNone, OnSigusr2, OnSigterm,
              Restart, Main, KTypeOK, MainPlaces
<1>4. KTypeOK'
  BY <1>1, <1>2, <1>3 DEF KTypeOK
<1>5. ExistInv'
  BY <1>1, <1>2, <1>3 DEF ExistInv, Exists
<1>6. OneStructPerTask'
  BY <1>1, <1>2 DEF OneStructPerTask
<1>7. ASSUME NEW u \in DOMAIN dkm PROVE TaskInv(u)'
  <2>1. TaskInv(u) /\ Untouched(u)
    BY <1>2, <1>7 DEF KInv, KBase, Untouched, Struct
  <2>2. QED
    BY <1>2, <2>1, UntouchedKeeps
<1>8. QED
  BY <1>2, <1>4, <1>5, <1>6, <1>7 DEF KInv, KBase

\* The ikcd ends: nothing is fetched any more, and what follows knows of the crash.
LEMMA CrashStep ==
  ASSUME KInv, Crash
  PROVE  KBase'
<1>1. KTypeOK /\ ExistInv /\ OneStructPerTask
  BY DEF KInv, KBase
<1>2. /\ UNCHANGED <<machine, dkm, st, kpc, served, putting>> /\ crashed' = TRUE
      /\ ikcd_pid' \in {ikcd_pid, "gone"} /\ main' = "dead"
      /\ flag' = 0 /\ usr2' = FALSE /\ blocked' = FALSE /\ mapping' = NoTask /\ inHand' = {}
  BY DEF Crash
<1>3. KTypeOK'
  BY <1>1, <1>2 DEF KTypeOK, MainPlaces
<1>4. ExistInv'
  BY <1>1, <1>2 DEF ExistInv, Exists
<1>5. OneStructPerTask'
  BY <1>1, <1>2 DEF OneStructPerTask
<1>6. ASSUME NEW u \in DOMAIN dkm PROVE TaskInv(u)'
  <2>1. TaskInv(u) /\ Struct(u)' = Struct(u)
    BY <1>2, <1>6 DEF KInv, KBase, Struct
  <2>2. u # mapping' /\ u \notin inHand'
    BY <1>1, <1>2, <1>6 DEF KTypeOK, Tasks, NoTask
  <2>3. QED
    BY <1>2, <2>1, <2>2 DEF TaskInv, Idle, Pending, Fetched, NotHandedOut, Returned, Node, InLoop
<1>7. QED
  BY <1>2, <1>3, <1>4, <1>5, <1>6 DEF KInv, KBase

\* A task whose request DKM_GET_REQ finds is waiting for the answer: without a
\* crash because only such a task has a request pending, on one processor
\* because any other place with a request is one where the task holds the
\* processor.
LEMMA FoundIsInLoop ==
  ASSUME KInv, NEW t \in Tasks, Waiting(t), IkcdRuns, ~(machine.smp /\ crashed)
  PROVE  InLoop(t)
<1>1. t \in DOMAIN dkm /\ Struct(t).pending_req = 1 /\ Struct(t).req # "nop"
  BY DEF Waiting, Exists
<1>2. TaskInv(t) /\ KTypeOK
  BY <1>1 DEF KInv, KBase
<1>3. CASE ~crashed
  BY <1>1, <1>2, <1>3 DEF TaskInv, Pending
<1>4. CASE ~machine.smp
  <2>1. ~InKernel(t)
    BY <1>4 DEF IkcdRuns
  <2>2. kpc[t] \notin {"user", "exec"} /\ kpc[t] \in TaskPlaces
    BY <1>1, <1>2 DEF TaskInv, Idle, KTypeOK
  <2>3. QED
    BY <2>1, <2>2 DEF InKernel, TaskPlaces, InLoop
<1>5. QED
  BY <1>3, <1>4

\* A step of the ikcd that assigns to the struct of one task, and perhaps wakes up
\* sleepers.
LEMMA IkcdFrame ==
  ASSUME KInv, NEW t \in DOMAIN dkm, NEW fields, Assignable(fields), Assign(t, fields),
         UNCHANGED <<about, ikcd_pid, dkm, flag, usr2, blocked>>,
         kpc' \in [Tasks -> TaskPlaces],
         \A u \in Tasks : kpc'[u] = kpc[u] \/ (kpc[u] = "asleep" /\ kpc'[u] = "woken"),
         served' \in [Tasks -> BOOLEAN],
         \A u \in Tasks : u # t => served'[u] = served[u],
         main' \in MainPlaces,
         mapping' \in {mapping, t, NoTask}, main' = "map" => mapping' # NoTask,
         inHand' \subseteq inHand \cup {t},
         putting' \in [Threads -> [task : Tasks \cup {NoTask}, struct : Structs]],
         TaskInv(t)'
  PROVE  KBase'
<1> USE DEF about
<1>1. KTypeOK /\ ExistInv /\ OneStructPerTask /\ t \in Tasks
  BY DEF KInv, KBase, KTypeOK
<1>2. /\ DOMAIN st' = DOMAIN st
      /\ \A d \in DOMAIN st : st'[d] \in StructType
      /\ \A u \in DOMAIN dkm : u # t => Struct(u)' = Struct(u)
  BY <1>1, AssignFields
<1>3. KTypeOK'
  <2>1. mapping' \in Tasks \cup {NoTask} /\ inHand' \subseteq Tasks
    BY <1>1 DEF KTypeOK
  <2>2. QED
    BY <1>1, <1>2, <2>1 DEF KTypeOK
<1>4. ExistInv'
  BY <1>1 DEF ExistInv, Exists
<1>5. OneStructPerTask'
  BY <1>1 DEF OneStructPerTask
<1>6. ASSUME NEW u \in DOMAIN dkm, u # t PROVE TaskInv(u)'
  <2>1. TaskInv(u) /\ u \in Tasks
    BY <1>1, <1>6 DEF KInv, KBase, KTypeOK
  <2>2. u # NoTask
    BY <2>1 DEF Tasks, NoTask
  <2>3. Untouched(u)
    BY <1>2, <1>6, <2>1, <2>2 DEF Untouched
  <2>4. QED
    BY <2>1, <2>3, UntouchedKeeps
<1>7. QED
  BY <1>3, <1>4, <1>5, <1>6 DEF KInv, KBase

\* DKM_GET_REQ marks the request of a task that is waiting for it.
LEMMA GetReqStep ==
  ASSUME KInv, NEW t \in Tasks, GetReqMap(t) \/ GetReqCreate(t)
  PROVE  KBase'
<1> USE DEF about, InLoop
<1> DEFINE fields == [req_state |-> "in_get_req"]
<1>1. /\ Waiting(t) /\ IkcdRuns /\ Assign(t, fields)
      /\ UNCHANGED <<about, ikcd_pid, dkm, kpc, served, flag, usr2, blocked, putting>>
  BY DEF GetReqMap, GetReqCreate, Found, Main
<1>2. /\ t \in DOMAIN dkm /\ TaskInv(t) /\ KTypeOK /\ OneStructPerTask /\ ExistInv
      /\ Struct(t).pending_req = 1
  BY <1>1 DEF Waiting, Exists, KInv, KBase
<1>3. Assignable(fields)
  BY DEF Assignable
<1>4. /\ Struct(t)'.pending_req = Struct(t).pending_req
      /\ Struct(t)'.req_state = "in_get_req"
      /\ Struct(t)'.req = Struct(t).req
      /\ Struct(t)'.r_node = Struct(t).r_node
      /\ Struct(t)'.distributed = Struct(t).distributed
  BY <1>1, <1>2, <1>3, AssignFields
<1>5. (machine.smp /\ crashed) \/ InLoop(t)
  BY <1>1, FoundIsInLoop
<1>6. /\ kpc' \in [Tasks -> TaskPlaces] /\ served' \in [Tasks -> BOOLEAN]
      /\ putting' \in [Threads -> [task : Tasks \cup {NoTask}, struct : Structs]]
  BY <1>1, <1>2 DEF KTypeOK
<1>7. CASE GetReqMap(t)
  <2>1. Struct(t).req = "map" /\ mapping' = t /\ inHand' = inHand /\ main' = "map"
    BY <1>7 DEF GetReqMap, Main
  <2>2. TaskInv(t)'
    BY <1>1, <1>2, <1>4, <1>5, <2>1 DEF TaskInv, Idle, Pending, Fetched, NotHandedOut, Returned, Node
  <2>3. mapping' # NoTask /\ main' \in MainPlaces
    BY <2>1 DEF Tasks, NoTask, MainPlaces
  <2>4. QED
    BY <1>1, <1>2, <1>3, <1>6, <2>1, <2>2, <2>3, IkcdFrame
<1>8. CASE GetReqCreate(t)
  <2>1. /\ Struct(t).req = "proc_creat" /\ mapping' = mapping /\ inHand' = inHand \cup {t}
        /\ main' = "get_req"
    BY <1>8 DEF GetReqCreate, Main
  <2>2. TaskInv(t)'
    BY <1>1, <1>2, <1>4, <1>5, <2>1 DEF TaskInv, Idle, Pending, Fetched, NotHandedOut, Returned, Node
  <2>3. main' \in MainPlaces
    BY <2>1 DEF MainPlaces
  <2>4. QED
    BY <1>1, <1>2, <1>3, <1>6, <2>1, <2>2, <2>3, IkcdFrame
<1>9. QED
  BY <1>7, <1>8

\* DKM_PUT_RESP stores the answer for the task, if it still has this request.
LEMMA PutRespFrame ==
  ASSUME KInv, NEW w \in Threads, NEW t \in DOMAIN dkm, NEW req, NEW fields,
         Assignable(fields), PutResp(w, t, req, fields),
         UNCHANGED <<about, flag, usr2, blocked>>, machine.smp \/ NobodyPuts,
         main' \in MainPlaces, main' = "map" => main = "map" /\ mapping' = mapping,
         mapping' \in {mapping, NoTask}, inHand' \subseteq inHand,
         ~machine.smp => t \notin inHand' /\ t # mapping',
         Struct(t).req = req /\ served'[t] = TRUE /\ Assign(t, fields)
           /\ kpc'[t] = kpc[t] /\ dkm' = dkm
             => TaskInv(t)'
  PROVE  KInv'
<1> USE DEF about, kernelVars
<1>1. KTypeOK /\ ExistInv /\ OneStructPerTask /\ t \in Tasks
  BY DEF KInv, KBase, KTypeOK
<1>2. main' = "map" => mapping' # NoTask
  BY <1>1 DEF ExistInv
<1>3. CASE Struct(t).req # req
  <2>1. UNCHANGED <<ikcd_pid, dkm, st, kpc, served, putting>>
    BY <1>3 DEF PutResp
  <2>2. KTypeOK'
    BY <1>1, <2>1 DEF KTypeOK
  <2>3. ExistInv'
    BY <1>1, <1>2, <2>1 DEF ExistInv, Exists
  <2>4. OneStructPerTask'
    BY <1>1, <2>1 DEF OneStructPerTask
  <2>5. ASSUME NEW u \in DOMAIN dkm PROVE TaskInv(u)'
    <3>1. TaskInv(u) /\ u # NoTask
      BY <1>1, <2>5 DEF KInv, KBase, KTypeOK, Tasks, NoTask
    <3>2. Untouched(u)
      BY <2>1, <3>1 DEF Untouched, Struct
    <3>3. QED
      BY <3>1, <3>2, UntouchedKeeps
  <2>6. PutInv'
    BY <2>1, PutInvKeeps
  <2>7. QED
    BY <2>1, <2>2, <2>3, <2>4, <2>5, <2>6 DEF KInv, KBase
<1>4. CASE Struct(t).req = req
  <2>1. /\ Assign(t, fields) /\ UNCHANGED <<ikcd_pid, dkm, kpc>>
        /\ served' = [served EXCEPT ![t] = TRUE]
        /\ putting' = [putting EXCEPT ![w] = [task |-> t, struct |-> dkm[t]]]
    BY <1>4 DEF PutResp
  <2>2. kpc' \in [Tasks -> TaskPlaces]
    BY <1>1, <2>1 DEF KTypeOK
  <2>3. /\ served' \in [Tasks -> BOOLEAN] /\ served'[t] = TRUE
        /\ \A u \in Tasks : u # t => served'[u] = served[u]
    BY <1>1, <2>1 DEF KTypeOK
  <2>4. dkm[t] \in Structs /\ dkm[t] \in DOMAIN st
    BY <1>1 DEF KTypeOK
  <2>5. PICK p : p = [task |-> t, struct |-> dkm[t]]
    OBVIOUS
  <2>6. /\ p \in [task : Tasks \cup {NoTask}, struct : Structs]
        /\ p.task = t /\ p.struct = dkm[t]
    BY <1>1, <2>4, <2>5
  <2>7. /\ putting' \in [Threads -> [task : Tasks \cup {NoTask}, struct : Structs]]
        /\ putting'[w] = p /\ \A v \in Threads : v # w => putting'[v] = putting[v]
    BY <1>1, <2>1, <2>5, <2>6 DEF KTypeOK
  <2>8. TaskInv(t)'
    BY <1>4, <2>1, <2>3
  <2>9. KBase'
    BY <1>2, <2>1, <2>2, <2>3, <2>7, <2>8, IkcdFrame
  <2>10. DOMAIN st' = DOMAIN st
    BY <1>1, <2>1, AssignFields
  <2>11. ASSUME NEW v \in Threads, putting'[v] # NoPut
         PROVE  /\ putting'[v].task \in DOMAIN dkm' /\ putting'[v].struct \in DOMAIN st'
                /\ ~machine'.smp =>
                     /\ putting'[v].struct = dkm'[putting'[v].task]
                     /\ putting'[v].task \notin inHand' /\ putting'[v].task # mapping'
    <3>1. CASE v = w
      BY <2>1, <2>4, <2>6, <2>7, <2>10, <3>1
    <3>2. CASE v # w
      <4>1. putting[v] = putting'[v] /\ machine.smp
        BY <2>7, <2>11, <3>2 DEF NobodyPuts
      <4>2. QED
        BY <2>1, <2>10, <2>11, <4>1 DEF KInv, PutInv
    <3>3. QED
      BY <3>1, <3>2
  <2>12. QED
    BY <2>9, <2>11 DEF KInv, PutInv
<1>5. QED
  BY <1>3, <1>4

LEMMA AnswerMapStep ==
  ASSUME KInv, AnswerMap
  PROVE  KInv'
<1> USE DEF about, InLoop
<1>1. PICK t : t = mapping
  OBVIOUS
<1>2. PICK node \in {"local", "remote"} :
        PutResp(MainThread, t, "map", [pending_req |-> 0, r_node |-> node])
  BY <1>1 DEF AnswerMap
<1> DEFINE fields == [pending_req |-> 0, r_node |-> node]
<1>3. /\ main = "map" /\ main' \in {"put", "get_req"} /\ mapping' = NoTask
      /\ UNCHANGED <<about, flag, usr2, blocked, inHand>> /\ (machine.smp \/ NobodyPuts)
  BY DEF AnswerMap, Main, IkcdRuns
<1>4. KTypeOK /\ ExistInv /\ OneStructPerTask
  BY DEF KInv, KBase
<1>5. t \in DOMAIN dkm /\ TaskInv(t) /\ t # NoTask
  BY <1>1, <1>3, <1>4 DEF ExistInv, KInv, KBase
<1>6. Assignable(fields) /\ MainThread \in Threads
  BY KiiAssumption DEF Assignable
<1>7. ASSUME Struct(t).req = "map", served'[t] = TRUE, Assign(t, fields),
             kpc'[t] = kpc[t], dkm' = dkm
      PROVE  TaskInv(t)'
  <2>1. /\ Struct(t)'.pending_req = 0
        /\ Struct(t)'.req_state = Struct(t).req_state
        /\ Struct(t)'.req = Struct(t).req
        /\ Struct(t)'.r_node = node
        /\ Struct(t)'.distributed = Struct(t).distributed
    BY <1>4, <1>5, <1>6, <1>7, AssignFields
  <2>2. QED
    BY <1>3, <1>5, <1>7, <2>1 DEF TaskInv, Idle, Pending, Fetched, NotHandedOut, Returned, Node
<1>8. main' \in MainPlaces
  BY <1>3 DEF MainPlaces
<1>9. PutResp(MainThread, t, "map", fields)
  BY <1>2
<1>10. QED
  <2> HIDE DEF fields
  <2>1. ~machine.smp => t \notin inHand
    BY <1>1, <1>5 DEF TaskInv, Fetched
  <2>2. main' # "map" /\ t # mapping'
    BY <1>3, <1>5
  <2>3. QED
    BY <1>3, <1>5, <1>6, <1>7, <1>8, <1>9, <2>1, <2>2, PutRespFrame

LEMMA AnswerCreateStep ==
  ASSUME KInv, NEW w \in Threads, NEW t \in Tasks, AnswerCreate(w, t)
  PROVE  KInv'
<1> USE DEF about, InLoop
<1> DEFINE fields == [pending_req |-> 0]
<1>1. /\ PutResp(w, t, "proc_creat", fields) /\ t \in inHand /\ inHand' = inHand \ {t}
      /\ UNCHANGED <<about, main, flag, usr2, blocked, mapping>>
      /\ machine.smp \/ NobodyPuts
  BY DEF AnswerCreate, IkcdRuns
<1>2. KTypeOK /\ ExistInv /\ OneStructPerTask
  BY DEF KInv, KBase
<1>3. t \in DOMAIN dkm /\ TaskInv(t)
  BY <1>1, <1>2 DEF ExistInv, KInv, KBase
<1>4. Assignable(fields)
  BY DEF Assignable
<1>5. ASSUME Struct(t).req = "proc_creat", served'[t] = TRUE, Assign(t, fields),
             kpc'[t] = kpc[t], dkm' = dkm
      PROVE  TaskInv(t)'
  <2>1. /\ Struct(t)'.pending_req = 0
        /\ Struct(t)'.req_state = Struct(t).req_state
        /\ Struct(t)'.req = Struct(t).req
        /\ Struct(t)'.r_node = Struct(t).r_node
        /\ Struct(t)'.distributed = Struct(t).distributed
    BY <1>2, <1>3, <1>4, <1>5, AssignFields
  <2>2. QED
    BY <1>1, <1>3, <1>5, <2>1 DEF TaskInv, Idle, Pending, Fetched, NotHandedOut, Returned, Node
<1>6. main' \in MainPlaces
  BY <1>1, <1>2 DEF KTypeOK
<1>7. QED
  <2> HIDE DEF fields
  <2>1. ~machine.smp => t # mapping
    BY <1>1, <1>3 DEF TaskInv, Fetched
  <2>2. QED
    BY <1>1, <1>3, <1>4, <1>5, <1>6, <2>1, PutRespFrame

\* The late store: with one processor it completes the answer of a task the ikcd
\* is done with; with more it hits whatever request the struct's task has by now,
\* fetched or not.
LEMMA PutRespEndStep ==
  ASSUME KInv, NEW w \in Threads, PutRespEnd(w)
  PROVE  KInv'
<1> USE DEF about
<1>1. KTypeOK /\ ExistInv /\ OneStructPerTask /\ putting[w] # NoPut
  BY DEF KInv, KBase, PutRespEnd
<1>2. PICK p : p = putting[w]
  OBVIOUS
<1>3. PICK d \in {dkm[p.task], p.struct} :
        st' = [st EXCEPT ![d].req_state = "not_in_progress"]
  BY <1>2 DEF PutRespEnd
<1>4. /\ kpc' = [u \in Tasks |-> IF kpc[u] = "asleep" THEN "woken" ELSE kpc[u]]
      /\ putting' = [putting EXCEPT ![w] = NoPut]
      /\ main' = IF w = MainThread THEN "get_req" ELSE main
      /\ UNCHANGED <<machine, crashed, ikcd_pid, dkm, served, flag, usr2, blocked, mapping,
                     inHand>>
  BY DEF PutRespEnd
<1>5. /\ p.task \in DOMAIN dkm /\ p.struct \in DOMAIN st
      /\ ~machine.smp => p.struct = dkm[p.task] /\ p.task \notin inHand /\ p.task # mapping
  BY <1>1, <1>2 DEF KInv, PutInv
<1>6. d \in DOMAIN st /\ st[d] \in StructType
  BY <1>1, <1>5 DEF KTypeOK
<1>7. DOMAIN st' = DOMAIN st /\ \A e \in DOMAIN st : e # d => st'[e] = st[e]
  BY <1>3
<1>8. PICK s : s = [st[d] EXCEPT !.req_state = "not_in_progress"]
  OBVIOUS
<1>9. /\ s \in StructType /\ s.req_state = "not_in_progress"
      /\ s.pending_req = st[d].pending_req /\ s.req = st[d].req
      /\ s.r_node = st[d].r_node /\ s.distributed = st[d].distributed
  BY <1>6, <1>8 DEF StructType
<1>10. st'[d] = s
  BY <1>3, <1>6, <1>8
<1>11. NoPut \in [task : Tasks \cup {NoTask}, struct : Structs]
  BY KiiAssumption DEF NoPut
<1>12. KTypeOK'
  <2>1. \A e \in DOMAIN st : st'[e] \in StructType
    BY <1>1, <1>7, <1>9, <1>10 DEF KTypeOK
  <2>2. kpc' \in [Tasks -> TaskPlaces]
    BY <1>1, <1>4 DEF KTypeOK, TaskPlaces
  <2>3. main' \in MainPlaces
    BY <1>1, <1>4 DEF KTypeOK, MainPlaces
  <2>4. putting' \in [Threads -> [task : Tasks \cup {NoTask}, struct : Structs]]
    BY <1>1, <1>4, <1>11 DEF KTypeOK
  <2>5. QED
    BY <1>1, <1>4, <1>7, <2>1, <2>2, <2>3, <2>4 DEF KTypeOK
<1>13. ExistInv'
  <2>1. \A u \in Tasks : kpc[u] = "user" => kpc'[u] = "user"
    BY <1>4
  <2>2. main' = "map" => main = "map"
    BY <1>4
  <2>3. QED
    BY <1>1, <1>4, <2>1, <2>2 DEF ExistInv, Exists
<1>14. OneStructPerTask'
  BY <1>1, <1>4 DEF OneStructPerTask
<1>15. ASSUME NEW u \in DOMAIN dkm PROVE TaskInv(u)'
  <2>1. TaskInv(u) /\ u \in Tasks /\ dkm[u] \in DOMAIN st
    BY <1>1, <1>15 DEF KInv, KBase, KTypeOK
  <2>2. kpc'[u] = kpc[u] \/ (kpc[u] = "asleep" /\ kpc'[u] = "woken")
    BY <1>4, <2>1
  <2>3. CASE dkm[u] # d
    <3>1. Struct(u)' = Struct(u)
      BY <1>4, <1>7, <2>1, <2>3 DEF Struct
    <3>2. Untouched(u)
      BY <1>4, <2>2, <3>1 DEF Untouched
    <3>3. QED
      BY <1>4, <2>1, <3>2, UntouchedKeeps
  <2>4. CASE dkm[u] = d
    <3>1. Struct(u)' = s /\ Struct(u) = st[d]
      BY <1>4, <1>10, <2>4 DEF Struct
    <3>2. ~machine.smp => u \notin inHand /\ u # mapping
      BY <1>1, <1>5, <2>1, <2>4 DEF OneStructPerTask
    <3>3. QED
      BY <1>4, <1>9, <2>1, <2>2, <3>1, <3>2
         DEF TaskInv, Idle, Pending, Fetched, NotHandedOut, Returned, Node, InLoop
  <2>5. QED
    BY <2>3, <2>4
<1>16. PutInv'
  <2>1. putting'[w] = NoPut /\ \A v \in Threads : v # w => putting'[v] = putting[v]
    BY <1>1, <1>4 DEF KTypeOK
  <2>2. ASSUME NEW v \in Threads, putting'[v] # NoPut
        PROVE  /\ putting'[v].task \in DOMAIN dkm' /\ putting'[v].struct \in DOMAIN st'
               /\ ~machine'.smp =>
                    /\ putting'[v].struct = dkm'[putting'[v].task]
                    /\ putting'[v].task \notin inHand' /\ putting'[v].task # mapping'
    <3>1. putting'[v] = putting[v]
      BY <2>1, <2>2
    <3>2. QED
      BY <1>4, <1>7, <2>2, <3>1 DEF KInv, PutInv
  <2>3. QED
    BY <2>2 DEF PutInv
<1>17. QED
  BY <1>4, <1>12, <1>13, <1>14, <1>15, <1>16 DEF KInv, KBase

\* The steps that answer nothing leave the late stores as they are.
LEMMA OtherStepsPut ==
  ASSUME KInv, NEW t \in Tasks, NEW u \in Tasks,
         \/ TaskStep(t) \/ ExecStart(t) \/ Interrupted(t) \/ Fork(t, u)
         \/ MainStep \/ OnSigusr2 \/ OnSigterm \/ Restart \/ Crash
  PROVE  PutInv'
<1> USE DEF about, kernelVars, ikcdVars
<1>1. CASE TaskStep(t) \/ ExecStart(t) \/ Interrupted(t)
  <2>1. UNCHANGED <<machine, dkm, mapping, inHand, putting>>
    BY <1>1 DEF TaskStep, ExecStart, Interrupted, ExecLocal, ExecMap, DoReqRefused, DoReqPost,
                DoReqNoTask, SendSig, CheckDone, CheckPending, SleepOn, Mapped, Created, NotMapped
  <2>2. st' = st \/ \E fields : Assign(t, fields)
    BY <1>1 DEF TaskStep, ExecStart, Interrupted, ExecLocal, ExecMap, DoReqRefused, DoReqPost,
                DoReqNoTask, SendSig, CheckDone, CheckPending, SleepOn, Mapped, Created, NotMapped
  <2>3. DOMAIN st' = DOMAIN st
    BY <2>2 DEF Assign
  <2>4. QED
    BY <2>1, <2>3, PutInvKeeps
<1>2. CASE Fork(t, u)
  <2>1. UNCHANGED <<machine, putting>> /\ (machine.smp \/ NobodyPuts)
    BY <1>2 DEF Fork, Runs
  <2>2. DOMAIN dkm \subseteq DOMAIN dkm' /\ DOMAIN st \subseteq DOMAIN st'
    BY <1>2 DEF Fork
  <2>3. QED
    BY <2>1, <2>2, PutInvKeeps
<1>3. CASE MainStep
  <2>1. UNCHANGED <<machine, putting, dkm>> /\ (machine.smp \/ NobodyPuts)
    BY <1>3 DEF MainStep, Register, Sigsuspend, TestFlag, BlockUsr2, GetReqNone, GetReqMap,
                GetReqCreate, Main, IkcdRuns
  <2>2. st' = st \/ \E v, fields : Assign(v, fields)
    BY <1>3 DEF MainStep, Register, Sigsuspend, TestFlag, BlockUsr2, GetReqNone, GetReqMap,
                GetReqCreate
  <2>3. DOMAIN st' = DOMAIN st
    BY <2>2 DEF Assign
  <2>4. QED
    BY <2>1, <2>3, PutInvKeeps
<1>4. CASE OnSigusr2 \/ OnSigterm \/ Restart
  BY <1>4, PutInvKeeps DEF OnSigusr2, OnSigterm, Restart
<1>5. CASE Crash
  BY <1>5, PutInvKeeps DEF Crash, IkcdRuns
<1>6. QED
  BY <1>1, <1>2, <1>3, <1>4, <1>5

-------------------------------------------------------------------------------
(* Theorems *)

LEMMA InitKInv ==
  ASSUME Init
  PROVE  KInv
<1> USE DEF Init
<1>1. FirstStruct \in Structs /\ 1 \in Tasks
  BY KiiAssumption DEF Tasks
<1>2. DOMAIN dkm = {1} /\ dkm[1] = FirstStruct /\ DOMAIN st = {FirstStruct}
  OBVIOUS
<1>3. st[FirstStruct] = FreshStruct
  OBVIOUS
<1>4. FreshStruct \in StructType /\ FreshStruct.req = "nop" /\ FreshStruct.pending_req = 0
      /\ FreshStruct.distributed = 0
  BY DEF FreshStruct, StructType
<1>5. KTypeOK
  <2>1. NoPut \in [task : Tasks \cup {NoTask}, struct : Structs]
    BY <1>1 DEF NoPut
  <2>2. putting \in [Threads -> [task : Tasks \cup {NoTask}, struct : Structs]]
    BY <2>1
  <2>3. QED
    BY <1>1, <1>2, <1>3, <1>4, <2>2 DEF KTypeOK, TaskPlaces, MainPlaces, NoTask
<1>6. ExistInv
  BY DEF ExistInv
<1>7. OneStructPerTask
  BY <1>2 DEF OneStructPerTask
<1>8. TaskInv(1)
  <2>1. Struct(1) = FreshStruct /\ kpc[1] = "user" /\ served[1] = FALSE
    BY <1>1, <1>2, <1>3 DEF Struct
  <2>2. 1 # mapping /\ 1 \notin inHand
    BY DEF NoTask
  <2>3. QED
    BY <1>4, <2>1, <2>2 DEF TaskInv, Idle, Pending, Fetched, NotHandedOut, Returned, Node, InLoop
<1>9. PutInv
  BY DEF PutInv
<1>10. QED
  BY <1>2, <1>5, <1>6, <1>7, <1>8, <1>9 DEF KInv, KBase

LEMMA StutterKInv ==
  ASSUME KInv, UNCHANGED vars
  PROVE  KInv'
<1>1. UNCHANGED <<machine, crashed, ikcd_pid, dkm, st, kpc, served, main, flag, usr2, blocked,
                  mapping, inHand, putting>>
  BY DEF vars, about, kernelVars, ikcdVars
<1>2. ASSUME NEW u \in DOMAIN dkm PROVE TaskInv(u)'
  <2>1. TaskInv(u) /\ Untouched(u)
    BY <1>1, <1>2 DEF KInv, KBase, Untouched, Struct
  <2>2. QED
    BY <1>1, <2>1, UntouchedKeeps DEF about
<1>3. KTypeOK' /\ ExistInv' /\ OneStructPerTask'
  BY <1>1 DEF KInv, KBase, KTypeOK, ExistInv, OneStructPerTask, Exists
<1>4. PutInv'
  BY <1>1, PutInvKeeps
<1>5. QED
  BY <1>1, <1>2, <1>3, <1>4 DEF KInv, KBase

\* Whatever tasks, main thread and workers do, and in whichever order, every
\* task that exists keeps what TaskInv says of it.
THEOREM KInvariance == Spec => []KInv
<1>1. Init => KInv
  BY InitKInv
<1>2. ASSUME KInv, [Next]_vars PROVE KInv'
  <2>1. ASSUME NEW t \in Tasks, TaskStep(t) \/ ExecStart(t) \/ Interrupted(t) PROVE KInv'
    <3>1. KBase'
      BY <1>2, <2>1, PlaceSteps, StructSteps DEF TaskStep
    <3>2. QED
      BY <1>2, <2>1, <3>1, OtherStepsPut DEF KInv
  <2>2. ASSUME NEW t \in Tasks, NEW u \in Tasks, Fork(t, u) PROVE KInv'
    BY <1>2, <2>2, ForkStep, OtherStepsPut DEF KInv
  <2>3. 1 \in Tasks
    BY KiiAssumption DEF Tasks
  <2>4. CASE MainStep
    <3>1. KBase'
      BY <1>2, <2>4, MainSteps, GetReqStep DEF MainStep
    <3>2. QED
      BY <1>2, <2>3, <2>4, <3>1, OtherStepsPut DEF KInv
  <2>5. CASE OnSigusr2 \/ OnSigterm \/ Restart
    BY <1>2, <2>3, <2>5, MainSteps, OtherStepsPut DEF KInv
  <2>6. CASE AnswerMap
    BY <1>2, <2>6, AnswerMapStep
  <2>7. ASSUME NEW w \in Threads, NEW t \in Tasks, AnswerCreate(w, t) PROVE KInv'
    BY <1>2, <2>7, AnswerCreateStep
  <2>8. ASSUME NEW w \in Threads, PutRespEnd(w) PROVE KInv'
    BY <1>2, <2>8, PutRespEndStep
  <2>9. CASE Crash
    BY <1>2, <2>3, <2>9, CrashStep, OtherStepsPut DEF KInv
  <2>10. CASE UNCHANGED vars
    BY <1>2, <2>10, StutterKInv
  <2>11. QED
    BY <1>2, <2>1, <2>2, <2>4, <2>5, <2>6, <2>7, <2>8, <2>9, <2>10 DEF Next
<1>3. QED
  BY <1>1, <1>2, PTL DEF Spec

\* do_fork gives the new struct to the parent and lets the child keep the old one,
\* and still no two tasks ever share a struct dkm_struct.
THEOREM OneStructPerTaskHolds == Spec => []OneStructPerTask
<1>1. KInv => OneStructPerTask
  BY DEF KInv, KBase
<1>2. QED
  BY <1>1, KInvariance, PTL

\* On one processor, or with an ikcd that never crashes, a request that was
\* fetched stays pending until its DKM_PUT_RESP and is handed out once, and the
\* answer finds the request it is for, whenever the late stores of earlier
\* answers come.  With several processors and a crash it does not hold: a task
\* that posted to an ikcd that was gone goes on while its request is still
\* marked pending, and an ikcd that starts then fetches it.
THEOREM FetchedOnceHolds == Spec => []((machine.smp /\ crashed) \/ FetchedOnce)
<1>1. ASSUME KInv, ~(machine.smp /\ crashed) PROVE FetchedOnce
  <2>1. ExistInv /\ \A t \in DOMAIN dkm : Fetched(t)
    BY <1>1 DEF KInv, KBase, TaskInv
  <2>2. QED
    BY <1>1, <2>1 DEF ExistInv, Fetched, FetchedOnce
<1>2. KInv => ((machine.smp /\ crashed) \/ FetchedOnce)
  BY <1>1
<1>3. QED
  BY <1>2, KInvariance, PTL

\* DKM_DO_REQ returns 0 only after DKM_PUT_RESP for this request, unless an ikcd
\* has crashed.
THEOREM ReturnsAnsweredHolds == Spec => []ReturnsAnswered
<1>1. ASSUME KInv PROVE ReturnsAnswered
  <2>1. /\ \A t \in DOMAIN dkm : Returned(t)
        /\ \A t \in Tasks : t \notin DOMAIN dkm => kpc[t] = "user"
    BY <1>1 DEF KInv, KBase, TaskInv, ExistInv, Exists
  <2>2. QED
    BY <2>1 DEF Returned, ReturnsAnswered
<1>2. QED
  BY <1>1, KInvariance, PTL

\* Without a crash dkm_execve marks a task as distributed only when a node is
\* stored in its struct.
THEOREM DistributedIsMappedHolds == Spec => []DistributedIsMapped
<1>1. ASSUME KInv PROVE DistributedIsMapped
  BY <1>1 DEF KInv, KBase, TaskInv, Node, DistributedIsMapped
<1>2. QED
  BY <1>1, KInvariance, PTL
===============================================================================
