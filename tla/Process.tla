-------------------------------- MODULE Process --------------------------------
(***************************************************************************)
(* Tasks of the kernel dkm is built into: do_fork with the copy_ functions *)
(* and its error exits (fork.c), and the part of execve that replaces the  *)
(* memory and the signal handlers of a task (flush_old_exec in exec.c).    *)
(* The struct dkm_struct of a task and the requests of dkm_execve are in   *)
(* Kii; process numbers are left out.                                      *)
(*                                                                         *)
(* A task points to one object of each kind that clone can share: files,   *)
(* fs, signal handlers, memory.  Each has a use count.  Tasks run under    *)
(* the big kernel lock except where an allocation or a semaphore makes     *)
(* them sleep, so an action below is what happens between two such places. *)
(***************************************************************************)
EXTENDS Naturals, FiniteSets, Sequences

CONSTANTS
  Slots,      \* entries of the task array, by number; 1 is init
  CopyOrder,  \* kinds of objects in the order do_fork copies them, "mm" last
  Objects,    \* memory for the objects of one kind, by number
  CloneFlags, \* what callers pass to do_fork: kinds to share, and "vfork"
  UserLimit,  \* RLIMIT_NPROC
  Forking,    \* tasks whose programs call fork or clone
  Executing   \* tasks whose programs call execve

Kinds == {CopyOrder[i] : i \in 1 .. Len(CopyOrder)}
Nobody == 0

ASSUME ProcessAssumption ==
  /\ Slots \subseteq Nat \ {Nobody} /\ 1 \in Slots /\ IsFiniteSet(Slots)
  /\ CopyOrder \in Seq(STRING)
  /\ \A i, j \in 1 .. Len(CopyOrder) : CopyOrder[i] = CopyOrder[j] => i = j
  /\ {"mm", "sig"} \subseteq Kinds /\ CopyOrder[Len(CopyOrder)] = "mm"
  /\ Objects \subseteq Nat \ {Nobody} /\ 1 \in Objects
  /\ \A fl \in CloneFlags : fl \subseteq Kinds \cup {"vfork"}
  /\ UserLimit \in Nat
  /\ Forking \subseteq Slots /\ Executing \subseteq Slots

VARIABLES
  state,      \* of a slot: "free", "building" (do_fork has taken it) or "linked"
  at,         \* where the task is
  child,      \* the task do_fork creates and, with vfork, waits for
  flags,      \* its clone_flags
  copied,     \* how many kinds the child holds objects of
  obj,        \* the object of each kind a task points to
  count,      \* use counts; an object with count 0 is free
  saved,      \* oldsig and old_mm of an execve
  mmap_sem,   \* the memory objects whose semaphore is down
  vfork_sem,  \* counter of the semaphore a task waits at in vfork
  PF_VFORK,   \* tasks that have the flag
  opptr,      \* p_opptr, the parent
  user_count  \* count of the user_struct

forkVars == <<child, flags, copied>>
objVars == <<obj, count>>
vforkVars == <<vfork_sem, PF_VFORK>>
taskVars == <<state, opptr, user_count>>
vars == <<at, forkVars, objVars, saved, mmap_sem, vforkVars, taskVars>>

None == [k \in {"sig", "mm"} |-> Nobody]

Init ==
  /\ state = [s \in Slots |-> IF s = 1 THEN "linked" ELSE "free"]
  /\ at = [s \in Slots |-> "user"]
  /\ child = [s \in Slots |-> Nobody]
  /\ flags = [s \in Slots |-> {}]
  /\ copied = [s \in Slots |-> 0]
  /\ obj = [k \in Kinds |-> [s \in Slots |-> IF s = 1 THEN 1 ELSE Nobody]]
  /\ count = [k \in Kinds |-> [o \in Objects |-> IF o = 1 THEN 1 ELSE 0]]
  /\ saved = [s \in Slots |-> None]
  /\ mmap_sem = {}
  /\ vfork_sem = [s \in Slots |-> 0]
  /\ PF_VFORK = {}
  /\ opptr = [s \in Slots |-> Nobody]
  /\ user_count = 1

-------------------------------------------------------------------------------
Linked == {s \in Slots : state[s] = "linked"}

Goto(t, from, to) ==
  /\ t \in Linked
  /\ at[t] = from
  /\ at' = [at EXCEPT ![t] = to]

\* Allocators hand out the first free object, if there is one.
New(k) == {o \in Objects :
             count[k][o] = 0 /\ \A p \in Objects : count[k][p] = 0 => o <= p}

Point(k, t, o) == obj' = [obj EXCEPT ![k][t] = o]
Held(k, t) == count[k][obj[k][t]]
Mm(t) == obj["mm"][t]

-------------------------------------------------------------------------------
(* do_fork *)

\* A task struct is allocated; the semaphore vfork_sem points to is new.
ForkStart(t, fl) ==
  /\ Goto(t, "user", "fork")
  /\ flags' = [flags EXCEPT ![t] = fl]
  /\ vfork_sem' = [vfork_sem EXCEPT ![t] = 0]
  /\ UNCHANGED <<child, copied, objVars, saved, mmap_sem, PF_VFORK, taskVars>>

FreeSlots == {s \in Slots : state[s] = "free"}

\* retval is 0 or less: nothing to wait for.
ForkReturnsError(t) ==
  /\ flags' = [flags EXCEPT ![t] = {}]
  /\ child' = [child EXCEPT ![t] = Nobody]
  /\ copied' = [copied EXCEPT ![t] = 0]

\* Too many processes of the user, or no slot: the semaphore is taken, and
\* everything given back.
ForkRefused(t) ==
  /\ Goto(t, "fork", "user")
  /\ Mm(t) \notin mmap_sem
  /\ user_count >= UserLimit \/ FreeSlots = {}
  /\ ForkReturnsError(t)
  /\ UNCHANGED <<objVars, saved, mmap_sem, vforkVars, taskVars>>

\* down(mmap_sem), a slot, and copy_flags.  *p = *current has made the child
\* point to everything its parent points to.
ForkBegin(t) ==
  /\ Goto(t, "fork", "copy")
  /\ Mm(t) \notin mmap_sem
  /\ user_count < UserLimit
  /\ \E u \in FreeSlots :
       /\ \A s \in FreeSlots : u <= s
       /\ state' = [state EXCEPT ![u] = "building"]
       /\ child' = [child EXCEPT ![t] = u]
       /\ obj' = [k \in Kinds |-> [obj[k] EXCEPT ![u] = obj[k][t]]]
       /\ PF_VFORK' = IF "vfork" \in flags[t] THEN PF_VFORK \cup {u} ELSE PF_VFORK
       /\ opptr' = [opptr EXCEPT ![u] = t]
  /\ user_count' = user_count + 1
  /\ mmap_sem' = mmap_sem \cup {Mm(t)}
  /\ UNCHANGED <<flags, copied, count, saved, vfork_sem>>

NextKind(t) == CopyOrder[copied[t] + 1]
ToCopy(t) == copied[t] < Len(CopyOrder)

\* copy_files, copy_fs, copy_sighand, copy_mm with the CLONE_ flag.
CopyShared(t) ==
  /\ Goto(t, "copy", "copy")
  /\ ToCopy(t) /\ NextKind(t) \in flags[t]
  /\ count' = [count EXCEPT ![NextKind(t)][obj[NextKind(t)][t]] = @ + 1]
  /\ copied' = [copied EXCEPT ![t] = @ + 1]
  /\ UNCHANGED <<child, flags, obj, saved, mmap_sem, vforkVars, taskVars>>

\* Without it the child gets an object of its own, count 1.  A new memory
\* object is locked until dup_mmap has filled it.
CopyOwn(t) ==
  LET k == NextKind(t) IN
  /\ ToCopy(t) /\ k \notin flags[t]
  /\ Goto(t, "copy", IF k = "mm" THEN "pages" ELSE "copy")
  /\ \E o \in New(k) :
       /\ count' = [count EXCEPT ![k][o] = 1]
       /\ Point(k, child[t], o)
       /\ mmap_sem' = IF k = "mm" THEN mmap_sem \cup {o} ELSE mmap_sem
  /\ copied' = [copied EXCEPT ![t] = @ + 1]
  /\ UNCHANGED <<child, flags, saved, vforkVars, taskVars>>

CopyPages(t) ==
  /\ Goto(t, "pages", "copy")
  /\ mmap_sem' = mmap_sem \ {Mm(child[t])}
  /\ UNCHANGED <<forkVars, objVars, saved, vforkVars, taskVars>>

\* No memory for an object.
CopyFails(t) ==
  /\ Goto(t, "copy", "undo")
  /\ ToCopy(t) /\ NextKind(t) \notin flags[t]
  /\ UNCHANGED <<forkVars, objVars, saved, mmap_sem, vforkVars, taskVars>>

\* new_page_tables or dup_mmap fails: copy_mm gives the new object back.
PagesFail(t) ==
  /\ Goto(t, "pages", "undo")
  /\ mmap_sem' = mmap_sem \ {Mm(child[t])}
  /\ count' = [count EXCEPT !["mm"][Mm(child[t])] = @ - 1]
  /\ Point("mm", child[t], Nobody)
  /\ copied' = [copied EXCEPT ![t] = @ - 1]
  /\ UNCHANGED <<child, flags, saved, vforkVars, taskVars>>

\* copy_thread fails, after everything has been copied.
ThreadFails(t) ==
  /\ Goto(t, "copy", "undo")
  /\ ~ToCopy(t)
  /\ UNCHANGED <<forkVars, objVars, saved, mmap_sem, vforkVars, taskVars>>

UndoKind_LastKept(t) ==
  LET k == CopyOrder[copied[t]] IN
  /\ Goto(t, "undo", "undo")
  /\ copied[t] > 0
  /\ count' = IF k = "mm" THEN count ELSE [count EXCEPT ![k][obj[k][child[t]]] = @ - 1]
  /\ Point(k, child[t], Nobody)
  /\ copied' = [copied EXCEPT ![t] = @ - 1]
  /\ UNCHANGED <<child, flags, saved, mmap_sem, vforkVars, taskVars>>

\* The labels bad_fork_cleanup_mm, _sighand, _fs, _files: what was copied is
\* released in the opposite order.
UndoKind(t) ==
  LET k == CopyOrder[copied[t]] IN
  /\ Goto(t, "undo", "undo")
  /\ copied[t] > 0
  /\ count' = [count EXCEPT ![k][obj[k][child[t]]] = @ - 1]
  /\ Point(k, child[t], Nobody)
  /\ copied' = [copied EXCEPT ![t] = @ - 1]
  /\ UNCHANGED <<child, flags, saved, mmap_sem, vforkVars, taskVars>>

\* bad_fork_cleanup and on: the slot, the user's count, the task struct.
ForkUndone(t) ==
  /\ Goto(t, "undo", "user")
  /\ copied[t] = 0
  /\ state' = [state EXCEPT ![child[t]] = "free"]
  /\ obj' = [k \in Kinds |-> [obj[k] EXCEPT ![child[t]] = Nobody]]
  /\ PF_VFORK' = PF_VFORK \ {child[t]}
  /\ opptr' = [opptr EXCEPT ![child[t]] = Nobody]
  /\ user_count' = user_count - 1
  /\ mmap_sem' = mmap_sem \ {Mm(t)}
  /\ ForkReturnsError(t)
  /\ UNCHANGED <<count, saved, vfork_sem>>

ForkDone_SemKeptDown(t) ==
  /\ Goto(t, "copy", IF "vfork" \in flags[t] THEN "vfork" ELSE "user")
  /\ ~ToCopy(t)
  /\ state' = [state EXCEPT ![child[t]] = "linked"]
  /\ copied' = [copied EXCEPT ![t] = 0]
  /\ flags' = [flags EXCEPT ![t] = {}]
  /\ child' = [child EXCEPT ![t] = IF "vfork" \in flags[t] THEN @ ELSE Nobody]
  /\ mmap_sem' = IF "vfork" \in flags[t] THEN mmap_sem ELSE mmap_sem \ {Mm(t)}
  /\ UNCHANGED <<objVars, saved, vforkVars, opptr, user_count>>

\* SET_LINKS and wake_up_process: the child runs; up(mmap_sem).
ForkDone(t) ==
  /\ Goto(t, "copy", IF "vfork" \in flags[t] THEN "vfork" ELSE "user")
  /\ ~ToCopy(t)
  /\ state' = [state EXCEPT ![child[t]] = "linked"]
  /\ copied' = [copied EXCEPT ![t] = 0]
  /\ flags' = [flags EXCEPT ![t] = {}]
  /\ child' = [child EXCEPT ![t] = IF "vfork" \in flags[t] THEN @ ELSE Nobody]
  /\ mmap_sem' = mmap_sem \ {Mm(t)}
  /\ UNCHANGED <<objVars, saved, vforkVars, opptr, user_count>>

\* down(&sem)
VforkReturns(t) ==
  /\ Goto(t, "vfork", "user")
  /\ vfork_sem[t] > 0
  /\ vfork_sem' = [vfork_sem EXCEPT ![t] = 0]
  /\ child' = [child EXCEPT ![t] = Nobody]
  /\ UNCHANGED <<flags, copied, objVars, saved, mmap_sem, PF_VFORK, taskVars>>

-------------------------------------------------------------------------------
(* execve: flush_old_exec *)

mm_release_FlagKept(t) ==
  /\ PF_VFORK' = PF_VFORK
  /\ vfork_sem' = IF t \in PF_VFORK THEN [vfork_sem EXCEPT ![opptr[t]] = @ + 1]
                                    ELSE vfork_sem

\* Wakes the parent that waits in vfork, once.
mm_release(t) ==
  /\ PF_VFORK' = PF_VFORK \ {t}
  /\ vfork_sem' = IF t \in PF_VFORK THEN [vfork_sem EXCEPT ![opptr[t]] = @ + 1]
                                    ELSE vfork_sem

\* oldsig and old_mm
ExecStart(t) ==
  /\ Goto(t, "user", "sig")
  /\ saved' = [saved EXCEPT ![t] = [k \in {"sig", "mm"} |-> obj[k][t]]]
  /\ UNCHANGED <<forkVars, objVars, mmap_sem, vforkVars, taskVars>>

\* make_private_signals: a table nobody shares is kept.
SigTested(t) ==
  /\ Goto(t, "sig", IF Held("sig", t) <= 1 THEN "mm" ELSE "new_sig")
  /\ UNCHANGED <<forkVars, objVars, saved, mmap_sem, vforkVars, taskVars>>

NewSig(t) ==
  /\ Goto(t, "new_sig", "mm")
  /\ \E o \in New("sig") :
       /\ count' = [count EXCEPT !["sig"][o] = 1]
       /\ Point("sig", t, o)
  /\ UNCHANGED <<forkVars, saved, mmap_sem, vforkVars, taskVars>>

NewSigFails(t) ==
  /\ Goto(t, "new_sig", "user")
  /\ saved' = [saved EXCEPT ![t] = None]
  /\ UNCHANGED <<forkVars, objVars, mmap_sem, vforkVars, taskVars>>

\* release_old_signals, in the count c
OldSigReleased(t, c) ==
  IF obj["sig"][t] = saved[t].sig THEN c ELSE [c EXCEPT !["sig"][saved[t].sig] = @ - 1]

\* exec_mmap: memory nobody shares is emptied and used again.
MmOwned(t) ==
  /\ Goto(t, "mm", "user")
  /\ Held("mm", t) = 1
  /\ mm_release(t)
  /\ count' = OldSigReleased(t, count)
  /\ saved' = [saved EXCEPT ![t] = None]
  /\ UNCHANGED <<forkVars, obj, mmap_sem, taskVars>>

MmShared(t) ==
  /\ Goto(t, "mm", "new_mm")
  /\ Held("mm", t) # 1
  /\ UNCHANGED <<forkVars, objVars, saved, mmap_sem, vforkVars, taskVars>>

\* mm_alloc: locked until it is complete.
NewMm(t) ==
  /\ Goto(t, "new_mm", "tables")
  /\ \E o \in New("mm") :
       /\ count' = [count EXCEPT !["mm"][o] = 1]
       /\ Point("mm", t, o)
       /\ mmap_sem' = mmap_sem \cup {o}
  /\ UNCHANGED <<forkVars, saved, vforkVars, taskVars>>

\* mmap_failed, in the count c: a new signal table is freed, the old one used
\* on.
SigRestored(t, c) ==
  IF obj["sig"][t] = saved[t].sig THEN c ELSE [c EXCEPT !["sig"][obj["sig"][t]] = 0]

NewMmFails(t) ==
  /\ Goto(t, "new_mm", "user")
  /\ count' = SigRestored(t, count)
  /\ Point("sig", t, saved[t].sig)
  /\ saved' = [saved EXCEPT ![t] = None]
  /\ UNCHANGED <<forkVars, mmap_sem, vforkVars, taskVars>>

\* The point of no return: the old memory and the old signals are let go.
TablesDone(t) ==
  /\ Goto(t, "tables", "user")
  /\ mmap_sem' = mmap_sem \ {Mm(t)}
  /\ mm_release(t)
  /\ count' = OldSigReleased(t, [count EXCEPT !["mm"][saved[t].mm] = @ - 1])
  /\ saved' = [saved EXCEPT ![t] = None]
  /\ UNCHANGED <<forkVars, obj, taskVars>>

TablesFail_SigKept(t) ==
  /\ Goto(t, "tables", "user")
  /\ count' = [count EXCEPT !["mm"][Mm(t)] = @ - 1, !["sig"][saved[t].sig] =
                 IF saved[t].sig = obj["sig"][t] THEN @ ELSE @ - 1]
  /\ mmap_sem' = mmap_sem \ {Mm(t)}
  /\ Point("mm", t, saved[t].mm)
  /\ saved' = [saved EXCEPT ![t] = None]
  /\ UNCHANGED <<forkVars, vforkVars, taskVars>>

\* fail_restore and mmap_failed: the task has its old memory and signals again.
TablesFail(t) ==
  /\ Goto(t, "tables", "user")
  /\ count' = SigRestored(t, [count EXCEPT !["mm"][Mm(t)] = @ - 1])
  /\ mmap_sem' = mmap_sem \ {Mm(t)}
  /\ obj' = [obj EXCEPT !["mm"][t] = saved[t].mm, !["sig"][t] = saved[t].sig]
  /\ saved' = [saved EXCEPT ![t] = None]
  /\ UNCHANGED <<forkVars, vforkVars, taskVars>>

-------------------------------------------------------------------------------
\* do_exit (exit.c, not in the repository): memory is let go with mm_release,
\* every object is released, children go to init.
Exit(t) ==
  /\ t # 1
  /\ Goto(t, "user", "user")
  /\ mm_release(t)
  /\ count' = [k \in Kinds |-> [count[k] EXCEPT ![obj[k][t]] = @ - 1]]
  /\ obj' = [k \in Kinds |-> [obj[k] EXCEPT ![t] = Nobody]]
  /\ state' = [state EXCEPT ![t] = "free"]
  /\ opptr' = [s \in Slots |-> IF s = t THEN Nobody ELSE IF opptr[s] = t THEN 1 ELSE opptr[s]]
  /\ user_count' = user_count - 1
  /\ UNCHANGED <<forkVars, saved, mmap_sem>>

Fork(t) ==
  \/ CopyShared(t) \/ CopyOwn(t) \/ CopyPages(t)
  \/ CopyFails(t) \/ PagesFail(t) \/ ThreadFails(t)
  \/ UndoKind(t) \/ ForkUndone(t) \/ ForkDone(t)

ForkDown(t) == ForkRefused(t) \/ ForkBegin(t)

Exec(t) ==
  \/ SigTested(t) \/ NewSig(t) \/ NewSigFails(t)
  \/ MmOwned(t) \/ MmShared(t) \/ NewMm(t) \/ NewMmFails(t)
  \/ TablesDone(t) \/ TablesFail(t)

Next ==
  \/ \E t \in Forking, fl \in CloneFlags : ForkStart(t, fl)
  \/ \E t \in Executing : ExecStart(t)
  \/ \E t \in Slots : ForkDown(t) \/ Fork(t) \/ VforkReturns(t) \/ Exec(t) \/ Exit(t)

\* Tasks in the kernel go on, and who waits for a semaphore that is free again
\* and again gets it.  Programs need not fork, execute or exit.
Fairness ==
  /\ \A t \in Slots : WF_vars(Fork(t) \/ Exec(t) \/ VforkReturns(t))
  /\ \A t \in Forking : SF_vars(ForkDown(t))

Spec == Init /\ [][Next]_vars /\ Fairness

-------------------------------------------------------------------------------
Holds(k, i, o) ==
  {s \in Linked : obj[k][s] = o}
    \cup {s \in Slots : state[s] = "building" /\ obj[k][s] = o
                          /\ \E t \in Linked : child[t] = s /\ copied[t] >= i}

Saves(k, o) ==
  IF k \in {"sig", "mm"} THEN {s \in Linked : saved[s][k] = o /\ obj[k][s] # o} ELSE {}

\* A use count is the number of those that will release the object: the tasks
\* that point to it, the half-built children that got it copied, and the tasks
\* that put it aside in execve; and the user's count is the number of tasks.
\* So nothing is freed in use and nothing leaks, whichever step of do_fork or
\* flush_old_exec fails.
CountsAreHolders ==
  /\ \A i \in 1 .. Len(CopyOrder) : \A o \in Objects :
       LET k == CopyOrder[i] IN
       count[k][o] = Cardinality(Holds(k, i, o)) + Cardinality(Saves(k, o))
  /\ user_count = Cardinality(Slots \ FreeSlots)

\* A task in the "vfork" wait whose semaphore is 0 has a child that will raise
\* it, and a child that will raise a semaphore has a parent that is still
\* inside the call that owns it: sem is a local variable of do_fork, reached
\* through p_opptr->vfork_sem (fork.c 336-345, 590, 748).
VforkSemaphore ==
  /\ \A t \in Linked : at[t] = "vfork" =>
       \/ vfork_sem[t] = 1
       \/ vfork_sem[t] = 0 /\ child[t] \in PF_VFORK \cap Linked /\ opptr[child[t]] = t
  /\ \A c \in PF_VFORK \cap Linked :
       at[opptr[c]] = "vfork" /\ child[opptr[c]] = c /\ vfork_sem[opptr[c]] = 0

\* An execve that is through, well or not: it has memory and signals nobody
\* else uses, so that emptying the memory and resetting the handlers disturbs
\* nobody, or it has what it had before (comments in exec.c 434-439, 457-462).
ExecAllOrNothing ==
  [][\A t \in Linked :
       at[t] \in {"new_sig", "mm", "new_mm", "tables"} /\ at'[t] = "user" =>
         \/ \A k \in {"sig", "mm"} : obj'[k][t] = saved[t][k]
         \/ \A k \in {"sig", "mm"} :
              count'[k][obj'[k][t]] = 1 /\ \A s \in Linked \ {t} : obj'[k][s] # obj'[k][t]]_vars

\* Every call of do_fork and execve returns, except that of a parent whose
\* vfork child keeps its memory: no path leaves mmap_sem down, and a waiting
\* parent does not keep its child from forking.
CallsReturn ==
  \A t \in Slots :
    at[t] # "user" ~>
      \/ at[t] = "user"
      \/ at[t] = "vfork" /\ child[t] \in PF_VFORK
===============================================================================
