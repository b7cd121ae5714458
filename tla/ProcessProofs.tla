----------------------------- MODULE ProcessProofs -----------------------------
(***************************************************************************)
(* do_fork and flush_old_exec for any number of slots, objects and kinds   *)
(* of objects: use counts, the semaphore of vfork, and what execve leaves  *)
(* behind.                                                                 *)
(***************************************************************************)
EXTENDS Process, TLAPS, FiniteSetTheorems

-------------------------------------------------------------------------------
(* The invariant *)

Places == {"user", "fork", "copy", "pages", "undo", "vfork",
           "sig", "new_sig", "mm", "new_mm", "tables"}
Orders == 1 .. Len(CopyOrder)
ExecKinds == {"sig", "mm"}

\* Inside do_fork with a child that is not linked yet.
Building(t) == at[t] \in {"copy", "pages", "undo"}
Executes(t) == at[t] \in {"sig", "new_sig", "mm", "new_mm", "tables"}

TypeOK ==
  /\ state \in [Slots -> {"free", "building", "linked"}]
  /\ at \in [Slots -> Places]
  /\ child \in [Slots -> Slots \cup {Nobody}]
  /\ flags \in [Slots -> SUBSET (Kinds \cup {"vfork"})]
  /\ copied \in [Slots -> 0 .. Len(CopyOrder)]
  /\ obj \in [Kinds -> [Slots -> Objects \cup {Nobody}]]
  /\ count \in [Kinds -> [Objects -> Nat]]
  /\ saved \in [Slots -> [ExecKinds -> Objects \cup {Nobody}]]
  /\ mmap_sem \subseteq Objects
  /\ vfork_sem \in [Slots -> Nat]
  /\ PF_VFORK \subseteq Slots
  /\ opptr \in [Slots -> Slots \cup {Nobody}]
  /\ user_count \in Nat

\* What a task keeps from call to call.
Tidy(t) ==
  /\ state[t] # "linked" => at[t] = "user"
  /\ at[t] = "user" \/ Executes(t) => child[t] = Nobody
  /\ ~Building(t) => copied[t] = 0
  /\ ~Executes(t) => saved[t] = None
  /\ state[t] = "linked" => \A k \in Kinds : obj[k][t] \in Objects

\* The half-built child of a task: what has been copied is its own, the rest is
\* still what *p = *current put there.
Child(t) ==
  /\ Building(t) =>
       /\ child[t] \in Slots /\ state[child[t]] = "building" /\ opptr[child[t]] = t
       /\ vfork_sem[t] = 0 /\ (child[t] \in PF_VFORK <=> "vfork" \in flags[t])
       /\ \A i \in 1 .. copied[t] : obj[CopyOrder[i]][child[t]] \in Objects
  /\ at[t] = "copy" =>
       \A i \in copied[t] + 1 .. Len(CopyOrder) :
         obj[CopyOrder[i]][child[t]] = obj[CopyOrder[i]][t]
  /\ at[t] = "pages" => copied[t] = Len(CopyOrder)
  /\ at[t] = "fork" => vfork_sem[t] = 0

\* s will release object o of the i-th kind.
Uses(s, i, o) ==
  \/ /\ state[s] = "linked"
     /\ obj[CopyOrder[i]][s] = o \/ (CopyOrder[i] \in ExecKinds /\ saved[s][CopyOrder[i]] = o)
  \/ /\ state[s] = "building" /\ obj[CopyOrder[i]][s] = o
     /\ \E t \in Linked : child[t] = s /\ copied[t] >= i

Users(i, o) == {s \in Slots : Uses(s, i, o)}

Counted(i, o) == count[CopyOrder[i]][o] = Cardinality(Users(i, o))

\* Nobody but t uses the object of the i-th kind t points to.
Alone(t, i) == Users(i, obj[CopyOrder[i]][t]) = {t}

\* What execve has put aside.
Flushing(t) ==
  /\ Executes(t) => \A k \in ExecKinds : saved[t][k] \in Objects
  /\ at[t] \in {"sig", "new_sig"} => saved[t]["sig"] = obj["sig"][t]
  /\ Executes(t) /\ at[t] # "tables" => saved[t]["mm"] = obj["mm"][t]
  /\ at[t] = "tables" => saved[t]["mm"] # obj["mm"][t]

\* What it has made private.
Private(t, k) ==
  \/ at[t] \in {"mm", "new_mm", "tables"} /\ k = "sig"
  \/ at[t] = "tables" /\ k = "mm"

Owned(t) == \A i \in Orders : Private(t, CopyOrder[i]) => Alone(t, i)

Local(t) == Tidy(t) /\ Child(t) /\ Flushing(t)

\* A child that will wake up its parent has one.
VforkParents ==
  /\ PF_VFORK \subseteq Slots \ FreeSlots
  /\ \A c \in PF_VFORK \cap Linked : opptr[c] \in Linked

Vfork == VforkParents /\ VforkSemaphore

Inv ==
  /\ TypeOK /\ state[1] = "linked"
  /\ \A t \in Slots : Local(t)
  /\ \A i \in Orders : \A o \in Objects : Counted(i, o)
  /\ \A t \in Slots : Owned(t)
  /\ user_count = Cardinality(Slots \ FreeSlots)
  /\ Vfork

-------------------------------------------------------------------------------
(* Users of an object *)

LEMMA Constants ==
  /\ Nobody \notin Slots /\ Nobody \notin Objects /\ 1 \in Slots /\ 1 \in Objects
  /\ IsFiniteSet(Slots) /\ Len(CopyOrder) \in Nat
  /\ \A i \in Orders : i \in Nat /\ i >= 1 /\ CopyOrder[i] \in Kinds
  /\ \A k \in Kinds : \E i \in Orders : CopyOrder[i] = k
  /\ \A i, j \in Orders : CopyOrder[i] = CopyOrder[j] => i = j
  /\ "sig" \in Kinds /\ "mm" \in Kinds
  /\ \A i \in Orders : CopyOrder[i] = "mm" <=> i = Len(CopyOrder)
<1>1. Len(CopyOrder) \in Nat
  BY ProcessAssumption
<1>2. Len(CopyOrder) \in Orders
  BY <1>1, ProcessAssumption DEF Orders, Kinds
<1>3. \A i \in Orders : CopyOrder[i] = "mm" <=> i = Len(CopyOrder)
  BY <1>1, <1>2, ProcessAssumption DEF Orders
<1>4. \A i \in Orders : i \in Nat /\ i >= 1 /\ CopyOrder[i] \in Kinds
  BY <1>1 DEF Orders, Kinds
<1>5. \A k \in Kinds : \E i \in Orders : CopyOrder[i] = k
  BY DEF Orders, Kinds
<1>6. QED
  BY <1>1, <1>3, <1>4, <1>5, ProcessAssumption DEF Orders, Nobody

LEMMA UsersFinite ==
  ASSUME NEW i, NEW o
  PROVE  /\ IsFiniteSet(Users(i, o)) /\ Cardinality(Users(i, o)) \in Nat
         /\ (Cardinality(Users(i, o)) = 0 <=> Users(i, o) = {})
         /\ \A t \in Users(i, o) : Cardinality(Users(i, o)) = 1 <=> Users(i, o) = {t}
<1>1. Users(i, o) \in SUBSET Slots
  BY DEF Users
<1>2. IsFiniteSet(Users(i, o))
  BY <1>1, Constants, FS_Subset
<1>3. Cardinality(Users(i, o)) \in Nat
  BY <1>2, FS_CardinalityType
<1>4. Cardinality(Users(i, o)) = 0 <=> Users(i, o) = {}
  BY <1>2, FS_EmptySet, Zenon
<1>5. Cardinality(Users(i, o)) = 1 <=> \E x : Users(i, o) = {x}
  BY <1>2, FS_Singleton, Zenon
<1>6. QED
  BY <1>2, <1>3, <1>4, <1>5, Zenon

\* What one step of task t may do to the users of an object: nothing, or one more,
\* which takes it over from t or gets it new, or one less, t or a child that is
\* being built.
Change(t, i, o) ==
  \/ /\ Users(i, o)' = Users(i, o)
     /\ count'[CopyOrder[i]][o] = count[CopyOrder[i]][o]
  \/ \E x \in Slots \ Users(i, o) :
       /\ Users(i, o)' = Users(i, o) \cup {x}
       /\ count'[CopyOrder[i]][o] = count[CopyOrder[i]][o] + 1
       /\ Users(i, o) = {} \/ t \in Users(i, o)
  \/ \E x \in Users(i, o) :
       /\ Users(i, o)' = Users(i, o) \ {x}
       /\ count'[CopyOrder[i]][o] = count[CopyOrder[i]][o] - 1
       /\ x = t \/ state[x] = "building"

LEMMA ChangeCounted ==
  ASSUME NEW t, NEW i, NEW o, Counted(i, o), Change(t, i, o)
  PROVE  Counted(i, o)'
<1> DEFINE U == Users(i, o)
<1>1. IsFiniteSet(U)
  BY UsersFinite
<1>2. CASE U' = U /\ count'[CopyOrder[i]][o] = count[CopyOrder[i]][o]
  BY <1>2 DEF Counted
<1>3. ASSUME NEW x \in Slots \ U, U' = U \cup {x},
             count'[CopyOrder[i]][o] = count[CopyOrder[i]][o] + 1
      PROVE  Counted(i, o)'
  <2>1. Cardinality(U \cup {x}) = Cardinality(U) + 1
    BY <1>1, <1>3, FS_AddElement
  <2>2. QED
    BY <1>3, <2>1 DEF Counted
<1>4. ASSUME NEW x \in U, U' = U \ {x},
             count'[CopyOrder[i]][o] = count[CopyOrder[i]][o] - 1
      PROVE  Counted(i, o)'
  <2>1. Cardinality(U \ {x}) = Cardinality(U) - 1
    BY <1>1, <1>4, FS_RemoveElement
  <2>2. QED
    BY <1>4, <2>1 DEF Counted
<1>5. QED
  BY <1>2, <1>3, <1>4 DEF Change

\* An object that only u uses stays so in a step of somebody else.
LEMMA ChangeAlone ==
  ASSUME NEW t, NEW u, u # t, state[u] = "linked", NEW i, NEW o, Users(i, o) = {u},
         Change(t, i, o)
  PROVE  Users(i, o)' = {u}
BY DEF Change

\* Slots a step leaves alone keep their part of the invariant.
LEMMA LocalFrame ==
  ASSUME TypeOK, NEW s \in Slots, Local(s),
         at'[s] = at[s], child'[s] = child[s], flags'[s] = flags[s], copied'[s] = copied[s],
         saved'[s] = saved[s], state'[s] = state[s],
         state[s] = "linked" => \A k \in Kinds : obj'[k][s] = obj[k][s],
         Building(s) \/ at[s] = "fork" => vfork_sem'[s] = vfork_sem[s],
         Building(s) =>
           /\ state'[child[s]] = state[child[s]] /\ opptr'[child[s]] = opptr[child[s]]
           /\ child[s] \in PF_VFORK' <=> child[s] \in PF_VFORK
           /\ \A k \in Kinds : obj'[k][child[s]] = obj[k][child[s]]
  PROVE  Local(s)'
<1> USE Constants DEF Building, Executes, ExecKinds
<1>1. Tidy(s)'
  BY DEF Local, Tidy
<1>2. \A i \in 1 .. Len(CopyOrder) : CopyOrder[i] \in Kinds
  BY DEF Orders
<1>3. Child(s)'
  <2>1. state[s] = "linked" \/ at[s] = "user"
    BY DEF Local, Tidy
  <2>2. CASE Building(s)
    <3>1. copied[s] \in 0 .. Len(CopyOrder)
      BY DEF TypeOK
    <3>2. \A i \in 1 .. copied[s] : CopyOrder[i] \in Kinds
      BY <1>2, <3>1
    <3>3. \A i \in copied[s] + 1 .. Len(CopyOrder) : CopyOrder[i] \in Kinds
      BY <1>2, <3>1
    <3>4. state[s] = "linked" /\ Child(s)
      BY <2>1, <2>2 DEF Local
    <3>5. \A i \in 1 .. copied'[s] : obj'[CopyOrder[i]][child'[s]] \in Objects
      BY <2>2, <3>2, <3>4 DEF Child
    <3>6. at'[s] = "copy" =>
            \A i \in copied'[s] + 1 .. Len(CopyOrder) :
              obj'[CopyOrder[i]][child'[s]] = obj'[CopyOrder[i]][s]
      BY <2>2, <3>3, <3>4 DEF Child
    <3>7. QED
      BY <2>2, <3>4, <3>5, <3>6 DEF Child
  <2>3. CASE ~Building(s)
    BY <2>3 DEF Local, Child
  <2>4. QED
    BY <2>2, <2>3
<1>4. Flushing(s)'
  BY DEF Local, Flushing, Tidy
<1>5. QED
  BY <1>1, <1>3, <1>4 DEF Local

LEMMA InvParts ==
  ASSUME Inv, NEW t \in Slots
  PROVE  /\ TypeOK /\ Tidy(t) /\ Child(t) /\ Flushing(t) /\ Owned(t)
         /\ at[t] # "user" => state[t] = "linked"
         /\ state[t] = "linked" => \A k \in Kinds : obj[k][t] \in Objects
         /\ \A c \in Slots : c # t /\ Building(c) /\ Building(t) => child[c] # child[t]
         /\ Building(t) => child[t] # t /\ at[child[t]] = "user"
BY DEF Inv, Local, Tidy, Child, Building

\* The parent of a child that is being built is the one p_opptr names.
LEMMA ParentIs ==
  ASSUME Inv, NEW t \in Slots, NEW i \in Orders, copied[t] >= i
  PROVE  Building(t) /\ child[t] \in Slots /\ state[child[t]] = "building" /\ opptr[child[t]] = t
<1>1. Building(t)
  BY Constants DEF Inv, Local, Tidy
<1>2. QED
  BY <1>1 DEF Inv, Local, Child

LEMMA UsesOfChild ==
  ASSUME Inv, NEW t \in Slots, Building(t), NEW i \in Orders, NEW o
  PROVE  Uses(child[t], i, o) <=> obj[CopyOrder[i]][child[t]] = o /\ copied[t] >= i
<1>1. t \in Linked /\ child[t] \in Slots /\ state[child[t]] = "building"
  BY InvParts DEF Building, Linked, Child
<1>2. ASSUME NEW u \in Linked, child[u] = child[t], copied[u] >= i PROVE u = t
  BY <1>1, <1>2, ParentIs, InvParts DEF Linked
<1>3. QED
  BY <1>1, <1>2 DEF Uses

LEMMA UsesOfLinked ==
  ASSUME NEW s, state[s] = "linked", NEW i, NEW o
  PROVE  Uses(s, i, o) <=> \/ obj[CopyOrder[i]][s] = o
                           \/ CopyOrder[i] \in ExecKinds /\ saved[s][CopyOrder[i]] = o
BY DEF Uses

LEMMA SameChange ==
  ASSUME NEW t, NEW i, NEW o, \A s \in Slots : Uses(s, i, o)' <=> Uses(s, i, o),
         count'[CopyOrder[i]][o] = count[CopyOrder[i]][o]
  PROVE  Change(t, i, o) /\ Users(i, o)' = Users(i, o)
<1>1. Users(i, o)' = Users(i, o)
  BY DEF Users
<1>2. QED
  BY <1>1 DEF Change

LEMMA AddChange ==
  ASSUME NEW t, NEW i, NEW o, NEW x \in Slots, ~Uses(x, i, o), Uses(x, i, o)',
         \A s \in Slots : s # x => (Uses(s, i, o)' <=> Uses(s, i, o)),
         count'[CopyOrder[i]][o] = count[CopyOrder[i]][o] + 1,
         Users(i, o) = {} \/ t \in Users(i, o)
  PROVE  Change(t, i, o) /\ Users(i, o)' = Users(i, o) \cup {x}
<1>1. Users(i, o)' = Users(i, o) \cup {x} /\ x \notin Users(i, o)
  BY DEF Users
<1>2. QED
  BY <1>1 DEF Change

LEMMA RemoveChange ==
  ASSUME NEW t, NEW i, NEW o, NEW x \in Slots, Uses(x, i, o), ~Uses(x, i, o)',
         \A s \in Slots : s # x => (Uses(s, i, o)' <=> Uses(s, i, o)),
         count'[CopyOrder[i]][o] = count[CopyOrder[i]][o] - 1,
         x = t \/ state[x] = "building"
  PROVE  Change(t, i, o) /\ Users(i, o)' = Users(i, o) \ {x}
<1>1. Users(i, o)' = Users(i, o) \ {x} /\ x \in Users(i, o)
  BY DEF Users
<1>2. QED
  BY <1>1 DEF Change

\* A step of task t.
LEMMA StepKeeps ==
  ASSUME Inv, NEW t \in Slots, TypeOK', state'[1] = "linked", \A s \in Slots : Local(s)',
         \A i \in Orders : \A o \in Objects : Change(t, i, o),
         \A u \in Slots : u # t =>
           at'[u] = at[u] /\ (state[u] = "linked" => \A k \in Kinds : obj'[k][u] = obj[k][u]),
         Owned(t)', (user_count = Cardinality(Slots \ FreeSlots))', Vfork'
  PROVE  Inv'
<1>1. ASSUME NEW i \in Orders, NEW o \in Objects PROVE Counted(i, o)'
  BY <1>1, ChangeCounted DEF Inv
<1>2. ASSUME NEW u \in Slots, u # t PROVE Owned(u)'
  <2>1. SUFFICES ASSUME NEW i \in Orders, Private(u, CopyOrder[i])
                 PROVE  Alone(u, i)'
    BY <1>2 DEF Owned, Private
  <2>2. state[u] = "linked" /\ CopyOrder[i] \in Kinds /\ obj[CopyOrder[i]][u] \in Objects
    BY <2>1, InvParts, Constants DEF Private
  <2>3. Users(i, obj[CopyOrder[i]][u]) = {u}
    BY <2>1 DEF Inv, Owned, Alone
  <2>4. PICK o \in Objects : o = obj[CopyOrder[i]][u] /\ o = obj'[CopyOrder[i]][u]
    BY <1>2, <2>2
  <2>5. Users(i, o)' = {u}
    <3>1. Users(i, o) = {u} /\ Change(t, i, o)
      BY <2>3, <2>4
    <3>2. QED
      BY <1>2, <2>2, <3>1, ChangeAlone
  <2>6. QED
    BY <2>4, <2>5 DEF Alone
<1>3. QED
  BY <1>1, <1>2 DEF Inv

\* Nobody enters or leaves the wait in vfork.
LEMMA VforkFrame ==
  ASSUME Inv, NEW t \in Slots, UNCHANGED <<PF_VFORK, opptr, state>>,
         \A s \in Slots : s # t =>
           at'[s] = at[s] /\ child'[s] = child[s] /\ vfork_sem'[s] = vfork_sem[s],
         at[t] # "vfork", at'[t] # "vfork"
  PROVE  Vfork' /\ (user_count' = user_count => (user_count = Cardinality(Slots \ FreeSlots))')
<1>1. Linked' = Linked /\ FreeSlots' = FreeSlots
  BY DEF Linked, FreeSlots
<1>2. VforkParents'
  BY <1>1 DEF Inv, Vfork, VforkParents
<1>3. VforkSemaphore'
  <2>1. VforkSemaphore /\ VforkParents
    BY DEF Inv, Vfork
  <2>2. \A c \in PF_VFORK \cap Linked : opptr[c] \in Slots /\ opptr[c] # t
    BY <2>1 DEF VforkParents, VforkSemaphore, Linked
  <2>3. QED
    BY <1>1, <2>1, <2>2 DEF VforkSemaphore, Linked
<1>4. QED
  BY <1>1, <1>2, <1>3 DEF Vfork, Inv

-------------------------------------------------------------------------------
(* Steps that leave objects and slots as they are *)

LEMMA QuietFrame ==
  ASSUME Inv, NEW t \in Slots, NEW to \in Places, at' = [at EXCEPT ![t] = to],
         UNCHANGED <<state, obj, count, saved, copied, PF_VFORK, opptr, user_count>>,
         child' \in [Slots -> Slots \cup {Nobody}],
         flags' \in [Slots -> SUBSET (Kinds \cup {"vfork"})],
         vfork_sem' \in [Slots -> Nat], mmap_sem' \subseteq Objects,
         \A s \in Slots : s # t =>
           child'[s] = child[s] /\ flags'[s] = flags[s] /\ vfork_sem'[s] = vfork_sem[s],
         child'[t] = child[t] \/ copied[t] = 0,
         Local(t)', \A i \in Orders : Private(t, CopyOrder[i])' => Alone(t, i),
         Vfork'
  PROVE  Inv'
<1>1. TypeOK
  BY DEF Inv
<1>2. TypeOK'
  BY <1>1 DEF TypeOK
<1>3. \A s \in Slots : s # t => at'[s] = at[s]
  BY <1>1 DEF TypeOK
<1>4. ASSUME NEW s \in Slots, s # t PROVE Local(s)'
  <2>1. Local(s)
    BY DEF Inv
  <2>2. QED
    BY <1>1, <1>3, <1>4, <2>1, LocalFrame
<1>5. ASSUME NEW i \in Orders, NEW o
      PROVE  Change(t, i, o) /\ Users(i, o)' = Users(i, o)
  <2>1. i \in Nat /\ i >= 1 /\ \A u \in Slots : copied[u] \in Nat
    BY <1>1, Constants DEF TypeOK
  <2>2. \A u \in Slots : copied[u] >= i => child'[u] = child[u]
    BY <2>1
  <2>3. \A u \in Slots : \A s : copied'[u] >= i => (child'[u] = s <=> child[u] = s)
    BY <2>2
  <2>4. ASSUME NEW s \in Slots PROVE Uses(s, i, o)' <=> Uses(s, i, o)
    BY <2>3 DEF Uses, Linked
  <2>5. QED
    BY <2>4, SameChange
<1>6. Owned(t)'
  <2>1. SUFFICES ASSUME NEW i \in Orders, Private(t, CopyOrder[i])' PROVE Alone(t, i)'
    BY DEF Owned
  <2>2. PICK o : o = obj[CopyOrder[i]][t]
    OBVIOUS
  <2>3. Users(i, o) = {t} /\ Users(i, o)' = Users(i, o)
    BY <1>5, <2>1, <2>2 DEF Alone
  <2>4. QED
    BY <2>2, <2>3 DEF Alone
<1>7. FreeSlots' = FreeSlots
  BY DEF FreeSlots
<1>8. (user_count = Cardinality(Slots \ FreeSlots))'
  BY <1>7 DEF Inv
<1>9. state'[1] = "linked"
  BY DEF Inv
<1>10. QED
  BY <1>2, <1>3, <1>4, <1>5, <1>6, <1>8, <1>9, StepKeeps

LEMMA MoverIs ==
  ASSUME Inv, NEW t \in Slots, NEW from, NEW to, Goto(t, from, to)
  PROVE  /\ state[t] = "linked" /\ t \in Linked /\ at[t] = from /\ at'[t] = to
         /\ at' = [at EXCEPT ![t] = to]
         /\ \A s \in Slots : s # t => at'[s] = at[s]
         /\ TypeOK /\ Tidy(t) /\ Child(t) /\ Flushing(t) /\ Owned(t)
         /\ \A k \in Kinds : obj[k][t] \in Objects
         /\ Mm(t) \in Objects
<1>1. TypeOK /\ Tidy(t) /\ Child(t) /\ Flushing(t) /\ Owned(t)
  BY InvParts
<1>2. state[t] = "linked" /\ t \in Linked
  BY DEF Goto, Linked
<1>3. \A k \in Kinds : obj[k][t] \in Objects
  BY <1>2, InvParts
<1>4. Mm(t) \in Objects
  BY <1>3, Constants DEF Mm
<1>5. QED
  BY <1>1, <1>2, <1>3, <1>4 DEF Goto, TypeOK

LEMMA ForkStartStep ==
  ASSUME Inv, NEW t \in Slots, NEW fl \in CloneFlags, ForkStart(t, fl)
  PROVE  Inv'
<1> USE DEF objVars, taskVars, vforkVars, forkVars
<1>1. Goto(t, "user", "fork")
  BY DEF ForkStart
<1>2. /\ state[t] = "linked" /\ at[t] = "user" /\ at'[t] = "fork" /\ at' = [at EXCEPT ![t] = "fork"]
      /\ \A s \in Slots : s # t => at'[s] = at[s]
      /\ TypeOK /\ Tidy(t) /\ Child(t) /\ Flushing(t)
  BY <1>1, MoverIs
<1>3. fl \in SUBSET (Kinds \cup {"vfork"})
  BY ProcessAssumption
<1>4. /\ flags' \in [Slots -> SUBSET (Kinds \cup {"vfork"})]
      /\ vfork_sem' \in [Slots -> Nat] /\ vfork_sem'[t] = 0
      /\ \A s \in Slots : s # t => flags'[s] = flags[s] /\ vfork_sem'[s] = vfork_sem[s]
  BY <1>2, <1>3 DEF ForkStart, TypeOK
<1>5. UNCHANGED <<state, obj, count, saved, copied, child, mmap_sem, PF_VFORK, opptr, user_count>>
  BY DEF ForkStart
<1>6. Local(t)'
  <2>1. Tidy(t)'
    BY <1>2, <1>5 DEF Tidy, Building, Executes
  <2>2. Child(t)'
    BY <1>2, <1>4 DEF Child, Building
  <2>3. Flushing(t)'
    BY <1>2 DEF Flushing, Executes
  <2>4. QED
    BY <2>1, <2>2, <2>3 DEF Local
<1>7. Vfork'
  BY <1>2, <1>4, <1>5, VforkFrame
<1>8. \A i \in Orders : ~Private(t, CopyOrder[i])'
  BY <1>2 DEF Private
<1>9. QED
  BY <1>2, <1>4, <1>5, <1>6, <1>7, <1>8, QuietFrame DEF TypeOK, Places

LEMMA ForkRefusedStep ==
  ASSUME Inv, NEW t \in Slots, ForkRefused(t)
  PROVE  Inv'
<1> USE DEF objVars, taskVars, vforkVars, forkVars
<1>1. Goto(t, "fork", "user")
  BY DEF ForkRefused
<1>2. /\ at[t] = "fork" /\ at'[t] = "user" /\ at' = [at EXCEPT ![t] = "user"]
      /\ \A s \in Slots : s # t => at'[s] = at[s]
      /\ TypeOK /\ Tidy(t) /\ Child(t) /\ Flushing(t)
  BY <1>1, MoverIs
<1>3. copied[t] = 0
  BY <1>2 DEF Tidy, Building
<1>4. /\ flags' \in [Slots -> SUBSET (Kinds \cup {"vfork"})]
      /\ child' \in [Slots -> Slots \cup {Nobody}] /\ child'[t] = Nobody
      /\ copied' = copied
      /\ \A s \in Slots : s # t => flags'[s] = flags[s] /\ child'[s] = child[s]
  BY <1>2, <1>3 DEF ForkRefused, ForkReturnsError, TypeOK
<1>5. UNCHANGED <<state, obj, count, saved, vfork_sem, mmap_sem, PF_VFORK, opptr, user_count>>
  BY DEF ForkRefused
<1>6. Local(t)'
  BY <1>2, <1>4, <1>5 DEF Local, Tidy, Child, Flushing, Building, Executes
<1>7. Vfork'
  BY <1>2, <1>4, <1>5, VforkFrame
<1>8. \A i \in Orders : ~Private(t, CopyOrder[i])'
  BY <1>2 DEF Private
<1>9. QED
  BY <1>2, <1>3, <1>4, <1>5, <1>6, <1>7, <1>8, QuietFrame DEF TypeOK, Places

LEMMA CopyPagesStep ==
  ASSUME Inv, NEW t \in Slots, CopyPages(t)
  PROVE  Inv'
<1> USE DEF objVars, taskVars, vforkVars, forkVars
<1>1. Goto(t, "pages", "copy")
  BY DEF CopyPages
<1>2. /\ state[t] = "linked" /\ at[t] = "pages" /\ at'[t] = "copy" /\ at' = [at EXCEPT ![t] = "copy"]
      /\ \A s \in Slots : s # t => at'[s] = at[s]
      /\ TypeOK /\ Tidy(t) /\ Child(t) /\ Flushing(t)
  BY <1>1, MoverIs
<1>3. /\ UNCHANGED <<state, obj, count, saved, copied, child, flags, vfork_sem, PF_VFORK, opptr,
                     user_count>>
      /\ mmap_sem' \subseteq mmap_sem
  BY DEF CopyPages
<1>4. Local(t)'
  <2>1. Tidy(t)'
    BY <1>2, <1>3 DEF Tidy, Building, Executes
  <2>2. copied[t] = Len(CopyOrder)
    BY <1>2 DEF Child
  <2>3. Child(t)'
    BY <1>2, <1>3, <2>2, Constants DEF Child, Building
  <2>4. Flushing(t)'
    BY <1>2 DEF Flushing, Executes
  <2>5. QED
    BY <2>1, <2>3, <2>4 DEF Local
<1>5. Vfork'
  BY <1>2, <1>3, VforkFrame
<1>6. \A i \in Orders : ~Private(t, CopyOrder[i])'
  BY <1>2 DEF Private
<1>7. mmap_sem' \subseteq Objects
  BY <1>2, <1>3 DEF TypeOK
<1>8. QED
  BY <1>2, <1>3, <1>4, <1>5, <1>6, <1>7, QuietFrame DEF TypeOK, Places

LEMMA FailSteps ==
  ASSUME Inv, NEW t \in Slots, CopyFails(t) \/ ThreadFails(t)
  PROVE  Inv'
<1> USE DEF objVars, taskVars, vforkVars, forkVars
<1>1. Goto(t, "copy", "undo")
  BY DEF CopyFails, ThreadFails
<1>2. /\ state[t] = "linked" /\ at[t] = "copy" /\ at'[t] = "undo" /\ at' = [at EXCEPT ![t] = "undo"]
      /\ \A s \in Slots : s # t => at'[s] = at[s]
      /\ TypeOK /\ Tidy(t) /\ Child(t) /\ Flushing(t)
  BY <1>1, MoverIs
<1>3. UNCHANGED <<state, obj, count, saved, copied, child, flags, vfork_sem, PF_VFORK, opptr,
                  user_count, mmap_sem>>
  BY DEF CopyFails, ThreadFails
<1>4. Local(t)'
  <2>1. Tidy(t)'
    BY <1>2, <1>3 DEF Tidy, Building, Executes
  <2>2. Child(t)'
    BY <1>2, <1>3 DEF Child, Building
  <2>3. Flushing(t)'
    BY <1>2 DEF Flushing, Executes
  <2>4. QED
    BY <2>1, <2>2, <2>3 DEF Local
<1>5. Vfork'
  BY <1>2, <1>3, VforkFrame
<1>6. \A i \in Orders : ~Private(t, CopyOrder[i])'
  BY <1>2 DEF Private
<1>7. QED
  BY <1>2, <1>3, <1>4, <1>5, <1>6, QuietFrame DEF TypeOK, Places

\* down(&sem): nobody is left who would raise it again.
LEMMA VforkReturnsStep ==
  ASSUME Inv, NEW t \in Slots, VforkReturns(t)
  PROVE  Inv'
<1> USE DEF objVars, taskVars, vforkVars, forkVars
<1>1. Goto(t, "vfork", "user")
  BY DEF VforkReturns
<1>2. /\ t \in Linked /\ state[t] = "linked" /\ at[t] = "vfork" /\ at'[t] = "user"
      /\ at' = [at EXCEPT ![t] = "user"]
      /\ \A s \in Slots : s # t => at'[s] = at[s]
      /\ TypeOK /\ Tidy(t) /\ Child(t) /\ Flushing(t)
  BY <1>1, MoverIs
<1>3. /\ UNCHANGED <<state, obj, count, saved, copied, flags, PF_VFORK, opptr, user_count, mmap_sem>>
      /\ vfork_sem[t] > 0
  BY DEF VforkReturns
<1>4. /\ vfork_sem' \in [Slots -> Nat]
      /\ child' \in [Slots -> Slots \cup {Nobody}] /\ child'[t] = Nobody
      /\ \A s \in Slots : s # t => vfork_sem'[s] = vfork_sem[s] /\ child'[s] = child[s]
  BY <1>2 DEF VforkReturns, TypeOK
<1>5. copied[t] = 0
  BY <1>2 DEF Tidy, Building
<1>6. Local(t)'
  <2>1. Tidy(t)'
    BY <1>2, <1>3, <1>4, <1>5 DEF Tidy, Building, Executes
  <2>2. Child(t)'
    BY <1>2 DEF Child, Building
  <2>3. Flushing(t)'
    BY <1>2 DEF Flushing, Executes
  <2>4. QED
    BY <2>1, <2>2, <2>3 DEF Local
<1>7. Vfork'
  <2>1. VforkSemaphore /\ VforkParents
    BY DEF Inv, Vfork
  <2>2. Linked' = Linked /\ FreeSlots' = FreeSlots
    BY <1>3 DEF Linked, FreeSlots
  <2>3. \A c \in PF_VFORK \cap Linked : opptr[c] \in Slots /\ opptr[c] # t
    BY <1>3, <2>1 DEF VforkSemaphore, VforkParents, Linked
  <2>4. VforkSemaphore'
    BY <1>2, <1>3, <1>4, <2>1, <2>2, <2>3 DEF VforkSemaphore, Linked
  <2>5. VforkParents'
    BY <1>3, <2>1, <2>2 DEF VforkParents
  <2>6. QED
    BY <2>4, <2>5 DEF Vfork
<1>8. \A i \in Orders : ~Private(t, CopyOrder[i])'
  BY <1>2 DEF Private
<1>9. QED
  BY <1>2, <1>3, <1>4, <1>5, <1>6, <1>7, <1>8, QuietFrame DEF TypeOK, Places

\* make_private_signals keeps a table with a count of one: its user is the task.
LEMMA SigTestedStep ==
  ASSUME Inv, NEW t \in Slots, SigTested(t)
  PROVE  Inv'
<1> USE DEF objVars, taskVars, vforkVars, forkVars
<1>1. PICK to \in {"mm", "new_sig"} : Goto(t, "sig", to) /\ (to = "mm" => Held("sig", t) <= 1)
  BY DEF SigTested
<1>2. /\ t \in Linked /\ state[t] = "linked" /\ at[t] = "sig" /\ at'[t] = to
      /\ at' = [at EXCEPT ![t] = to]
      /\ \A s \in Slots : s # t => at'[s] = at[s]
      /\ TypeOK /\ Tidy(t) /\ Child(t) /\ Flushing(t)
      /\ \A k \in Kinds : obj[k][t] \in Objects
  BY <1>1, MoverIs
<1>3. UNCHANGED <<state, obj, count, saved, copied, child, flags, vfork_sem, PF_VFORK, opptr,
                  user_count, mmap_sem>>
  BY DEF SigTested
<1>4. Local(t)'
  <2>1. Tidy(t)'
    BY <1>2, <1>3 DEF Tidy, Building, Executes
  <2>2. Child(t)'
    BY <1>2 DEF Child, Building
  <2>3. Flushing(t)'
    BY <1>2, <1>3 DEF Flushing, Executes
  <2>4. QED
    BY <2>1, <2>2, <2>3 DEF Local
<1>5. Vfork'
  BY <1>2, <1>3, VforkFrame
<1>6. ASSUME NEW i \in Orders, Private(t, CopyOrder[i])' PROVE Alone(t, i)
  <2>1. to = "mm" /\ CopyOrder[i] = "sig"
    BY <1>2, <1>6 DEF Private
  <2>2. PICK o \in Objects : o = obj["sig"][t]
    BY <1>2, Constants
  <2>3. Counted(i, o) /\ count["sig"][o] <= 1
    BY <1>1, <2>1, <2>2 DEF Inv, Held
  <2>4. t \in Users(i, o)
    BY <1>2, <2>1, <2>2 DEF Users, Uses
  <2>5. Cardinality(Users(i, o)) \in Nat /\ Cardinality(Users(i, o)) <= 1
    BY <2>1, <2>3, UsersFinite DEF Counted
  <2>6. Cardinality(Users(i, o)) # 0
    BY <2>4, UsersFinite
  <2>7. Cardinality(Users(i, o)) = 1
    BY <2>5, <2>6
  <2>8. QED
    BY <2>1, <2>2, <2>4, <2>7, UsersFinite DEF Alone
<1>7. QED
  BY <1>2, <1>3, <1>4, <1>5, <1>6, QuietFrame DEF TypeOK, Places

LEMMA MmSharedStep ==
  ASSUME Inv, NEW t \in Slots, MmShared(t)
  PROVE  Inv'
<1> USE DEF objVars, taskVars, vforkVars, forkVars
<1>1. Goto(t, "mm", "new_mm")
  BY DEF MmShared
<1>2. /\ state[t] = "linked" /\ at[t] = "mm" /\ at'[t] = "new_mm" /\ at' = [at EXCEPT ![t] = "new_mm"]
      /\ \A s \in Slots : s # t => at'[s] = at[s]
      /\ TypeOK /\ Tidy(t) /\ Child(t) /\ Flushing(t) /\ Owned(t)
  BY <1>1, MoverIs
<1>3. UNCHANGED <<state, obj, count, saved, copied, child, flags, vfork_sem, PF_VFORK, opptr,
                  user_count, mmap_sem>>
  BY DEF MmShared
<1>4. Local(t)'
  <2>1. Tidy(t)'
    BY <1>2, <1>3 DEF Tidy, Building, Executes
  <2>2. Child(t)'
    BY <1>2 DEF Child, Building
  <2>3. Flushing(t)'
    BY <1>2, <1>3 DEF Flushing, Executes
  <2>4. QED
    BY <2>1, <2>2, <2>3 DEF Local
<1>5. Vfork'
  BY <1>2, <1>3, VforkFrame
<1>6. \A i \in Orders : Private(t, CopyOrder[i])' => Alone(t, i)
  BY <1>2 DEF Private, Owned
<1>7. QED
  BY <1>2, <1>3, <1>4, <1>5, <1>6, QuietFrame DEF TypeOK, Places

-------------------------------------------------------------------------------
(* execve *)

\* A step of execve: the task's own objects, and what it has put aside.
ExecStep(t, to) ==
  /\ at' = [at EXCEPT ![t] = to]
  /\ UNCHANGED <<state, child, flags, copied, opptr, user_count>>
  /\ obj' \in [Kinds -> [Slots -> Objects \cup {Nobody}]]
  /\ count' \in [Kinds -> [Objects -> Nat]]
  /\ saved' \in [Slots -> [ExecKinds -> Objects \cup {Nobody}]]
  /\ mmap_sem' \subseteq Objects
  /\ \A s \in Slots : s # t =>
       saved'[s] = saved[s] /\ \A k \in Kinds : obj'[k][s] = obj[k][s]

LEMMA ExecUses ==
  ASSUME Inv, NEW t \in Slots, state[t] = "linked", NEW to, ExecStep(t, to),
         NEW i \in Orders, NEW o
  PROVE  /\ \A s \in Slots : s # t => (Uses(s, i, o)' <=> Uses(s, i, o))
         /\ Uses(t, i, o)' <=> \/ obj'[CopyOrder[i]][t] = o
                               \/ CopyOrder[i] \in ExecKinds /\ saved'[t][CopyOrder[i]] = o
         /\ Uses(t, i, o) <=> \/ obj[CopyOrder[i]][t] = o
                              \/ CopyOrder[i] \in ExecKinds /\ saved[t][CopyOrder[i]] = o
<1>1. CopyOrder[i] \in Kinds
  BY Constants
<1>2. UNCHANGED <<state, child, copied>>
  BY DEF ExecStep
<1>3. ASSUME NEW s \in Slots, s # t PROVE Uses(s, i, o)' <=> Uses(s, i, o)
  <2>1. saved'[s] = saved[s] /\ obj'[CopyOrder[i]][s] = obj[CopyOrder[i]][s]
    BY <1>1, <1>3 DEF ExecStep
  <2>2. QED
    BY <1>2, <2>1 DEF Uses, Linked
<1>4. QED
  BY <1>2, <1>3 DEF Uses

\* The task takes a new object or lets one go.
ExecChange(t, i, o) ==
  \/ /\ Uses(t, i, o)' <=> Uses(t, i, o)
     /\ count'[CopyOrder[i]][o] = count[CopyOrder[i]][o]
  \/ /\ Uses(t, i, o)' /\ ~Uses(t, i, o)
     /\ count[CopyOrder[i]][o] = 0 /\ count'[CopyOrder[i]][o] = 1
  \/ /\ Uses(t, i, o) /\ ~Uses(t, i, o)'
     /\ count'[CopyOrder[i]][o] = count[CopyOrder[i]][o] - 1

LEMMA ExecFrame ==
  ASSUME Inv, NEW t \in Slots, state[t] = "linked", NEW to \in Places, ExecStep(t, to),
         \A i \in Orders : \A o \in Objects : ExecChange(t, i, o),
         vfork_sem' \in [Slots -> Nat], PF_VFORK' \subseteq Slots,
         \A s \in Slots : s # t =>
           /\ Building(s) \/ at[s] = "fork" => vfork_sem'[s] = vfork_sem[s]
           /\ Building(s) => (child[s] \in PF_VFORK' <=> child[s] \in PF_VFORK),
         Local(t)', Owned(t)', Vfork'
  PROVE  Inv'
<1>1. TypeOK
  BY DEF Inv
<1>2. TypeOK'
  BY <1>1 DEF TypeOK, ExecStep
<1>3. \A s \in Slots : s # t => at'[s] = at[s]
  BY <1>1 DEF TypeOK, ExecStep
<1>4. ASSUME NEW s \in Slots, s # t PROVE Local(s)'
  <2>1. Local(s)
    BY DEF Inv
  <2>2. Building(s) => child[s] \in Slots /\ child[s] # t
    BY InvParts DEF Child
  <2>3. QED
    BY <1>1, <1>3, <1>4, <2>1, <2>2, LocalFrame DEF ExecStep
<1>5. ASSUME NEW i \in Orders, NEW o \in Objects PROVE Change(t, i, o)
  <2>1. \A s \in Slots : s # t => (Uses(s, i, o)' <=> Uses(s, i, o))
    BY ExecUses
  <2>2. CASE /\ Uses(t, i, o)' <=> Uses(t, i, o)
             /\ count'[CopyOrder[i]][o] = count[CopyOrder[i]][o]
    BY <2>1, <2>2, SameChange
  <2>3. CASE /\ Uses(t, i, o)' /\ ~Uses(t, i, o)
             /\ count[CopyOrder[i]][o] = 0 /\ count'[CopyOrder[i]][o] = 1
    <3>1. Users(i, o) = {}
      BY <2>3, UsersFinite DEF Inv, Counted
    <3>2. count'[CopyOrder[i]][o] = count[CopyOrder[i]][o] + 1
      BY <2>3
    <3>3. QED
      BY <2>1, <2>3, <3>1, <3>2, AddChange
  <2>4. CASE /\ Uses(t, i, o) /\ ~Uses(t, i, o)'
             /\ count'[CopyOrder[i]][o] = count[CopyOrder[i]][o] - 1
    BY <2>1, <2>4, RemoveChange
  <2>5. QED
    BY <2>2, <2>3, <2>4 DEF ExecChange
<1>6. FreeSlots' = FreeSlots /\ user_count' = user_count /\ state'[1] = "linked"
  BY DEF FreeSlots, ExecStep, Inv
<1>7. (user_count = Cardinality(Slots \ FreeSlots))'
  BY <1>6 DEF Inv
<1>8. \A s \in Slots : s # t => \A k \in Kinds : obj'[k][s] = obj[k][s]
  BY DEF ExecStep
<1>9. QED
  BY <1>2, <1>3, <1>4, <1>5, <1>6, <1>7, <1>8, StepKeeps

\* mm_release wakes up the parent that waits, and nobody else has to do with the
\* semaphore.
LEMMA MmRelease ==
  ASSUME Inv, NEW t \in Slots, state[t] = "linked", mm_release(t)
  PROVE  /\ vfork_sem' \in [Slots -> Nat] /\ PF_VFORK' \subseteq Slots
         /\ PF_VFORK' = PF_VFORK \ {t}
         /\ \A s \in Slots :
              /\ at[s] # "vfork" => vfork_sem'[s] = vfork_sem[s]
              /\ Building(s) => (child[s] \in PF_VFORK' <=> child[s] \in PF_VFORK)
              /\ at[s] = "vfork" /\ state[s] = "linked" =>
                   \/ vfork_sem'[s] = 1
                   \/ /\ vfork_sem'[s] = 0 /\ child[s] \in PF_VFORK' \cap Linked
                      /\ opptr[child[s]] = s
         /\ \A c \in PF_VFORK' \cap Linked :
              /\ opptr[c] \in Linked /\ at[opptr[c]] = "vfork" /\ child[opptr[c]] = c
              /\ vfork_sem'[opptr[c]] = 0
<1>1. TypeOK /\ VforkSemaphore /\ VforkParents
  BY DEF Inv, Vfork
<1>2. PF_VFORK' = PF_VFORK \ {t}
  BY DEF mm_release
<1>3. \A s \in Slots : Building(s) => child[s] # t
  BY InvParts DEF Child
<1>4. CASE t \notin PF_VFORK
  <2>1. vfork_sem' = vfork_sem /\ PF_VFORK' = PF_VFORK
    BY <1>2, <1>4 DEF mm_release
  <2>2. QED
    BY <1>1, <2>1, <1>4 DEF TypeOK, VforkSemaphore, VforkParents, Linked
<1>5. CASE t \in PF_VFORK
  <2>1. /\ opptr[t] \in Slots /\ at[opptr[t]] = "vfork" /\ child[opptr[t]] = t
        /\ vfork_sem[opptr[t]] = 0
    BY <1>1, <1>5 DEF VforkSemaphore, VforkParents, Linked
  <2>2. /\ vfork_sem' \in [Slots -> Nat] /\ vfork_sem'[opptr[t]] = 1
        /\ \A s \in Slots : s # opptr[t] => vfork_sem'[s] = vfork_sem[s]
    BY <1>1, <1>5, <2>1 DEF mm_release, TypeOK
  <2>3. \A c \in PF_VFORK' \cap Linked :
          /\ opptr[c] \in Linked /\ at[opptr[c]] = "vfork" /\ child[opptr[c]] = c
          /\ vfork_sem'[opptr[c]] = 0
    BY <1>1, <1>2, <2>1, <2>2 DEF VforkSemaphore, VforkParents, Linked
  <2>4. ASSUME NEW s \in Slots, at[s] = "vfork", state[s] = "linked"
        PROVE  \/ vfork_sem'[s] = 1
               \/ /\ vfork_sem'[s] = 0 /\ child[s] \in PF_VFORK' \cap Linked
                  /\ opptr[child[s]] = s
    <3>1. CASE s = opptr[t]
      BY <2>2, <3>1
    <3>2. CASE s # opptr[t]
      BY <1>1, <1>2, <2>2, <2>4, <3>2 DEF VforkSemaphore, Linked
    <3>3. QED
      BY <3>1, <3>2
  <2>5. PF_VFORK' \subseteq Slots
    BY <1>1, <1>2 DEF TypeOK
  <2>6. QED
    BY <1>2, <1>3, <2>1, <2>2, <2>3, <2>4, <2>5
<1>6. QED
  BY <1>4, <1>5

LEMMA ExecRelease ==
  ASSUME Inv, NEW t \in Slots, state[t] = "linked", mm_release(t), at[t] # "vfork",
         UNCHANGED <<state, child, opptr>>, at' = [at EXCEPT ![t] = "user"]
  PROVE  Vfork'
<1>1. Linked' = Linked /\ FreeSlots' = FreeSlots
  BY DEF Linked, FreeSlots
<1>2. /\ PF_VFORK' = PF_VFORK \ {t}
      /\ \A s \in Slots : at[s] = "vfork" /\ state[s] = "linked" =>
           \/ vfork_sem'[s] = 1
           \/ /\ vfork_sem'[s] = 0 /\ child[s] \in PF_VFORK' \cap Linked
              /\ opptr[child[s]] = s
      /\ \A c \in PF_VFORK' \cap Linked :
           /\ opptr[c] \in Linked /\ at[opptr[c]] = "vfork" /\ child[opptr[c]] = c
           /\ vfork_sem'[opptr[c]] = 0
  BY MmRelease
<1>3. \A s \in Slots : (at'[s] = "vfork" <=> at[s] = "vfork")
  BY DEF Inv, TypeOK
<1>4. VforkParents'
  BY <1>1, <1>2 DEF Inv, Vfork, VforkParents
<1>5. VforkSemaphore'
  BY <1>1, <1>2, <1>3 DEF VforkSemaphore, Linked
<1>6. QED
  BY <1>4, <1>5 DEF Vfork

LEMMA OldObjects ==
  ASSUME Inv, NEW t \in Slots, ~Executes(t), NEW k \in ExecKinds
  PROVE  saved[t][k] = Nobody /\ saved[t][k] \notin Objects
<1>1. saved[t] = None
  BY InvParts DEF Tidy
<1>2. None[k] = Nobody
  BY DEF None, ExecKinds
<1>3. QED
  BY <1>1, <1>2, Constants

\* Putting aside what one has, and forgetting it again.
LEMMA SavingSteps ==
  ASSUME Inv, NEW t \in Slots, ExecStart(t) \/ NewSigFails(t)
  PROVE  Inv'
<1> USE DEF objVars, taskVars, vforkVars, forkVars
<1>1. PICK to \in {"sig", "user"} :
        \/ to = "sig" /\ Goto(t, "user", to) /\ ExecStart(t)
        \/ to = "user" /\ Goto(t, "new_sig", to) /\ NewSigFails(t)
  BY DEF ExecStart, NewSigFails
<1>2. /\ state[t] = "linked" /\ at[t] \in {"user", "new_sig"} /\ at'[t] = to
      /\ at' = [at EXCEPT ![t] = to]
      /\ at[t] = "user" <=> to = "sig"
      /\ \A s \in Slots : s # t => at'[s] = at[s]
      /\ TypeOK /\ Tidy(t) /\ Child(t) /\ Flushing(t)
      /\ \A k \in Kinds : obj[k][t] \in Objects
  BY <1>1, MoverIs
<1>3. UNCHANGED <<state, obj, count, copied, child, flags, vfork_sem, PF_VFORK, opptr,
                  user_count, mmap_sem>>
  BY DEF ExecStart, NewSigFails
<1>4. /\ to = "sig" => saved' = [saved EXCEPT ![t] = [k \in {"sig", "mm"} |-> obj[k][t]]]
      /\ to = "user" => saved' = [saved EXCEPT ![t] = None]
  BY <1>1 DEF ExecStart, NewSigFails
<1>5. \A k \in ExecKinds : obj[k][t] \in Objects
  BY <1>2, Constants DEF ExecKinds
<1>6. None \in [ExecKinds -> Objects \cup {Nobody}]
  BY DEF None, ExecKinds
<1>7. /\ saved' \in [Slots -> [ExecKinds -> Objects \cup {Nobody}]]
      /\ \A s \in Slots : s # t => saved'[s] = saved[s]
      /\ to = "sig" => \A k \in ExecKinds : saved'[t][k] = obj[k][t]
      /\ to = "user" => saved'[t] = None
  <2>1. CASE to = "sig"
    <3>1. PICK r : r = [k \in {"sig", "mm"} |-> obj[k][t]]
      OBVIOUS
    <3>2. r \in [ExecKinds -> Objects \cup {Nobody}] /\ \A k \in ExecKinds : r[k] = obj[k][t]
      BY <1>5, <3>1 DEF ExecKinds
    <3>3. saved' = [saved EXCEPT ![t] = r]
      BY <1>4, <2>1, <3>1
    <3>4. QED
      BY <1>2, <2>1, <3>2, <3>3 DEF TypeOK
  <2>2. CASE to = "user"
    BY <1>2, <1>4, <1>6, <2>2 DEF TypeOK
  <2>3. QED
    BY <2>1, <2>2
<1>8. ExecStep(t, to)
  BY <1>2, <1>3, <1>7 DEF ExecStep, TypeOK
<1>9. \A k \in ExecKinds :
        \/ saved[t][k] \notin Objects /\ saved'[t][k] = obj[k][t]
        \/ saved[t][k] = obj[k][t] /\ saved'[t][k] \notin Objects
  <2>1. CASE to = "sig"
    BY <1>2, <1>7, <2>1, OldObjects DEF Executes
  <2>2. CASE to = "user"
    <3>1. \A k \in ExecKinds : None[k] \notin Objects
      BY Constants DEF None, ExecKinds
    <3>2. at[t] = "new_sig"
      BY <1>2, <2>2
    <3>3. \A k \in ExecKinds : saved[t][k] = obj[k][t]
      BY <1>2, <3>2 DEF Flushing, Executes, ExecKinds
    <3>4. QED
      BY <1>7, <2>2, <3>1, <3>3
  <2>3. QED
    BY <2>1, <2>2
<1>10. ASSUME NEW i \in Orders, NEW o \in Objects PROVE ExecChange(t, i, o)
  <2>1. Uses(t, i, o)' <=> Uses(t, i, o)
    BY <1>2, <1>3, <1>8, <1>9, ExecUses
  <2>2. QED
    BY <1>3, <2>1 DEF ExecChange
<1>11. Local(t)'
  <2>1. Tidy(t)'
    BY <1>1, <1>2, <1>3, <1>7 DEF Tidy, Building, Executes
  <2>2. Child(t)'
    BY <1>2 DEF Child, Building
  <2>3. Flushing(t)'
    BY <1>2, <1>3, <1>5, <1>7 DEF Flushing, Executes, ExecKinds
  <2>4. QED
    BY <2>1, <2>2, <2>3 DEF Local
<1>12. Owned(t)'
  BY <1>2 DEF Owned, Private
<1>13. Vfork'
  BY <1>2, <1>3, VforkFrame
<1>14. QED
  BY <1>2, <1>3, <1>8, <1>10, <1>11, <1>12, <1>13, ExecFrame DEF TypeOK, Places

\* A new table of signal handlers: the old one is still held.
LEMMA NewSigStep ==
  ASSUME Inv, NEW t \in Slots, NewSig(t)
  PROVE  Inv'
<1> USE DEF objVars, taskVars, vforkVars, forkVars
<1>1. Goto(t, "new_sig", "mm")
  BY DEF NewSig
<1>2. PICK n \in New("sig") :
        /\ count' = [count EXCEPT !["sig"][n] = 1]
        /\ obj' = [obj EXCEPT !["sig"][t] = n]
  BY DEF NewSig, Point
<1>3. /\ state[t] = "linked" /\ at[t] = "new_sig" /\ at'[t] = "mm" /\ at' = [at EXCEPT ![t] = "mm"]
      /\ TypeOK /\ Tidy(t) /\ Child(t) /\ Flushing(t)
      /\ \A s \in Slots : s # t => at'[s] = at[s]
      /\ \A k \in Kinds : obj[k][t] \in Objects
  BY <1>1, MoverIs
<1>4. UNCHANGED <<state, saved, copied, child, flags, vfork_sem, PF_VFORK, opptr, user_count,
                  mmap_sem>>
  BY DEF NewSig
<1>5. n \in Objects /\ count["sig"][n] = 0 /\ "sig" \in Kinds /\ "mm" \in Kinds
  BY Constants DEF New
<1>6. /\ obj' \in [Kinds -> [Slots -> Objects \cup {Nobody}]]
      /\ count' \in [Kinds -> [Objects -> Nat]]
      /\ obj'["sig"][t] = n /\ count'["sig"][n] = 1
      /\ \A o \in Objects : o # n => count'["sig"][o] = count["sig"][o]
      /\ \A s \in Slots : s # t => obj'["sig"][s] = obj["sig"][s]
      /\ \A k \in Kinds : k # "sig" => obj'[k] = obj[k] /\ count'[k] = count[k]
  BY <1>2, <1>3, <1>5 DEF TypeOK
<1>7. ExecStep(t, "mm")
  BY <1>3, <1>4, <1>6 DEF ExecStep, TypeOK
<1>8. saved[t]["sig"] = obj["sig"][t] /\ saved[t]["mm"] = obj["mm"][t]
  BY <1>3 DEF Flushing, Executes
<1>9. ASSUME NEW i \in Orders, NEW o \in Objects
      PROVE  /\ ExecChange(t, i, o)
             /\ CopyOrder[i] = "sig" /\ o = n => Users(i, o) = {} /\ Uses(t, i, o)'
  <2>1. /\ Uses(t, i, o)' <=> \/ obj'[CopyOrder[i]][t] = o
                              \/ CopyOrder[i] \in ExecKinds /\ saved'[t][CopyOrder[i]] = o
        /\ Uses(t, i, o) <=> \/ obj[CopyOrder[i]][t] = o
                             \/ CopyOrder[i] \in ExecKinds /\ saved[t][CopyOrder[i]] = o
    BY <1>3, <1>7, ExecUses
  <2>2. CopyOrder[i] \in Kinds
    BY Constants
  <2>3. CASE CopyOrder[i] # "sig"
    BY <1>4, <1>6, <2>1, <2>2, <2>3 DEF ExecChange
  <2>4. CASE CopyOrder[i] = "sig" /\ o # n
    BY <1>4, <1>6, <1>8, <2>1, <2>4 DEF ExecChange, ExecKinds
  <2>5. CASE CopyOrder[i] = "sig" /\ o = n
    <3>1. Users(i, o) = {}
      BY <1>5, <2>5, UsersFinite DEF Inv, Counted
    <3>2. ~Uses(t, i, o) /\ Uses(t, i, o)'
      BY <1>6, <2>1, <2>5, <3>1 DEF Users
    <3>3. QED
      BY <1>5, <1>6, <2>5, <3>1, <3>2 DEF ExecChange
  <2>6. QED
    BY <2>3, <2>4, <2>5
<1>10. Local(t)'
  <2>1. Tidy(t)'
    BY <1>3, <1>4, <1>5, <1>6 DEF Tidy, Building, Executes
  <2>2. Child(t)'
    BY <1>3 DEF Child, Building
  <2>3. Flushing(t)'
    BY <1>3, <1>4, <1>5, <1>6, <1>8 DEF Flushing, Executes, ExecKinds
  <2>4. QED
    BY <2>1, <2>2, <2>3 DEF Local
<1>11. Owned(t)'
  <2>1. SUFFICES ASSUME NEW i \in Orders, CopyOrder[i] = "sig" PROVE Alone(t, i)'
    BY <1>3 DEF Owned, Private
  <2>2. Users(i, n) = {} /\ Uses(t, i, n)'
    BY <1>5, <1>9, <2>1
  <2>3. \A s \in Slots : s # t => ~Uses(s, i, n)'
    BY <1>3, <1>7, <2>2, ExecUses DEF Users
  <2>4. Users(i, n)' = {t}
    BY <2>2, <2>3 DEF Users
  <2>5. QED
    BY <1>6, <2>1, <2>4 DEF Alone
<1>12. Vfork'
  BY <1>3, <1>4, VforkFrame
<1>13. QED
  BY <1>3, <1>4, <1>7, <1>9, <1>10, <1>11, <1>12, ExecFrame DEF TypeOK, Places

\* mm_alloc: the new memory is the task's alone, the old one still held.
LEMMA NewMmStep ==
  ASSUME Inv, NEW t \in Slots, NewMm(t)
  PROVE  Inv'
<1> USE DEF objVars, taskVars, vforkVars, forkVars
<1>1. Goto(t, "new_mm", "tables")
  BY DEF NewMm
<1>2. PICK n \in New("mm") :
        /\ count' = [count EXCEPT !["mm"][n] = 1]
        /\ obj' = [obj EXCEPT !["mm"][t] = n]
        /\ mmap_sem' = mmap_sem \cup {n}
  BY DEF NewMm, Point
<1>3. /\ state[t] = "linked" /\ at[t] = "new_mm" /\ at'[t] = "tables"
      /\ at' = [at EXCEPT ![t] = "tables"]
      /\ TypeOK /\ Tidy(t) /\ Child(t) /\ Flushing(t) /\ Owned(t)
      /\ \A s \in Slots : s # t => at'[s] = at[s]
      /\ \A k \in Kinds : obj[k][t] \in Objects
  BY <1>1, MoverIs
<1>4. UNCHANGED <<state, saved, copied, child, flags, vfork_sem, PF_VFORK, opptr, user_count>>
  BY DEF NewMm
<1>5. n \in Objects /\ count["mm"][n] = 0 /\ "sig" \in Kinds /\ "mm" \in Kinds
  BY Constants DEF New
<1>6. /\ obj' \in [Kinds -> [Slots -> Objects \cup {Nobody}]]
      /\ count' \in [Kinds -> [Objects -> Nat]] /\ mmap_sem' \subseteq Objects
      /\ obj'["mm"][t] = n /\ count'["mm"][n] = 1
      /\ \A o \in Objects : o # n => count'["mm"][o] = count["mm"][o]
      /\ \A s \in Slots : s # t => obj'["mm"][s] = obj["mm"][s]
      /\ \A k \in Kinds : k # "mm" => obj'[k] = obj[k] /\ count'[k] = count[k]
  BY <1>2, <1>3, <1>5 DEF TypeOK
<1>7. ExecStep(t, "tables")
  BY <1>3, <1>4, <1>6 DEF ExecStep, TypeOK
<1>8. /\ saved[t]["mm"] = obj["mm"][t] /\ saved[t]["sig"] \in Objects
      /\ saved[t]["mm"] \in Objects
  BY <1>3 DEF Flushing, Executes, ExecKinds
<1>9. ASSUME NEW i \in Orders, NEW o \in Objects
      PROVE  /\ ExecChange(t, i, o)
             /\ CopyOrder[i] = "mm" /\ o = n => Users(i, o) = {} /\ ~Uses(t, i, o) /\ Uses(t, i, o)'
             /\ CopyOrder[i] = "sig" => (Uses(t, i, o)' <=> Uses(t, i, o))
  <2>1. /\ Uses(t, i, o)' <=> \/ obj'[CopyOrder[i]][t] = o
                              \/ CopyOrder[i] \in ExecKinds /\ saved'[t][CopyOrder[i]] = o
        /\ Uses(t, i, o) <=> \/ obj[CopyOrder[i]][t] = o
                             \/ CopyOrder[i] \in ExecKinds /\ saved[t][CopyOrder[i]] = o
    BY <1>3, <1>7, ExecUses
  <2>2. CopyOrder[i] \in Kinds
    BY Constants
  <2>3. CASE CopyOrder[i] # "mm"
    BY <1>4, <1>6, <2>1, <2>2, <2>3 DEF ExecChange
  <2>4. CASE CopyOrder[i] = "mm" /\ o # n
    BY <1>4, <1>6, <1>8, <2>1, <2>4 DEF ExecChange, ExecKinds
  <2>5. CASE CopyOrder[i] = "mm" /\ o = n
    <3>1. Users(i, o) = {}
      BY <1>5, <2>5, UsersFinite DEF Inv, Counted
    <3>2. ~Uses(t, i, o) /\ Uses(t, i, o)'
      BY <1>6, <2>1, <2>5, <3>1 DEF Users
    <3>3. QED
      BY <1>5, <1>6, <2>5, <3>1, <3>2 DEF ExecChange
  <2>6. QED
    BY <2>3, <2>4, <2>5
<1>10. PICK m \in Orders : CopyOrder[m] = "mm"
  BY Constants
<1>11. saved[t]["mm"] # n
  <2>1. ~Uses(t, m, n)
    BY <1>5, <1>9, <1>10
  <2>2. QED
    BY <1>3, <1>8, <1>10, <2>1, UsesOfLinked
<1>12. Local(t)'
  <2>1. Tidy(t)'
    BY <1>3, <1>4, <1>5, <1>6 DEF Tidy, Building, Executes
  <2>2. Child(t)'
    BY <1>3 DEF Child, Building
  <2>3. Flushing(t)'
    BY <1>3, <1>4, <1>6, <1>8, <1>11 DEF Flushing, Executes, ExecKinds
  <2>4. QED
    BY <2>1, <2>2, <2>3 DEF Local
<1>13. Owned(t)'
  <2>1. SUFFICES ASSUME NEW i \in Orders, CopyOrder[i] \in {"sig", "mm"} PROVE Alone(t, i)'
    BY <1>3 DEF Owned, Private
  <2>2. CASE CopyOrder[i] = "mm"
    <3>1. Users(i, n) = {} /\ Uses(t, i, n)'
      BY <1>5, <1>9, <2>2
    <3>2. \A s \in Slots : s # t => ~Uses(s, i, n)'
      BY <1>3, <1>7, <3>1, ExecUses DEF Users
    <3>3. Users(i, n)' = {t}
      BY <3>1, <3>2 DEF Users
    <3>4. QED
      BY <1>6, <2>2, <3>3 DEF Alone
  <2>3. CASE CopyOrder[i] = "sig"
    <3>1. PICK o \in Objects : o = obj["sig"][t] /\ o = obj'["sig"][t]
      BY <1>3, <1>5, <1>6
    <3>2. Users(i, o) = {t}
      BY <1>3, <2>3, <3>1 DEF Owned, Private, Alone
    <3>3. \A s \in Slots : Uses(s, i, o)' <=> Uses(s, i, o)
      BY <1>3, <1>7, <1>9, <2>3, ExecUses
    <3>4. Users(i, o)' = {t}
      BY <3>2, <3>3 DEF Users
    <3>5. QED
      BY <2>3, <3>1, <3>4 DEF Alone
  <2>4. QED
    BY <2>1, <2>2, <2>3
<1>14. Vfork'
  BY <1>3, <1>4, VforkFrame
<1>15. QED
  BY <1>3, <1>4, <1>6, <1>7, <1>9, <1>12, <1>13, <1>14, ExecFrame DEF TypeOK, Places

LEMMA HeldPositive ==
  ASSUME Inv, NEW t \in Slots, state[t] = "linked", NEW k \in Kinds, NEW o \in Objects,
         obj[k][t] = o \/ (k \in ExecKinds /\ saved[t][k] = o)
  PROVE  count[k][o] \in Nat /\ count[k][o] >= 1
<1>1. PICK i \in Orders : CopyOrder[i] = k
  BY Constants
<1>2. t \in Users(i, o)
  BY <1>1 DEF Users, Uses
<1>3. Counted(i, o)
  BY DEF Inv
<1>4. Cardinality(Users(i, o)) \in Nat /\ Cardinality(Users(i, o)) # 0
  BY <1>2, UsersFinite
<1>5. QED
  BY <1>1, <1>3, <1>4 DEF Counted

\* An execve returns and gives up one of its two objects of kind k, if it has two.
Dropped(t, k) ==
  \/ /\ obj'[k][t] = obj[k][t] /\ saved[t][k] = obj[k][t]
     /\ \A o \in Objects : count'[k][o] = count[k][o]
  \/ \E d, e \in Objects :
       /\ d # e
       /\ \/ obj[k][t] = d /\ saved[t][k] = e
          \/ obj[k][t] = e /\ saved[t][k] = d
       /\ obj'[k][t] = e
       /\ count'[k][d] = count[k][d] - 1
       /\ \A o \in Objects : o # d => count'[k][o] = count[k][o]

LEMMA ExecReturns ==
  ASSUME Inv, NEW t \in Slots, state[t] = "linked", Executes(t),
         at' = [at EXCEPT ![t] = "user"], saved' = [saved EXCEPT ![t] = None],
         UNCHANGED <<state, child, flags, copied, opptr, user_count>>,
         obj' \in [Kinds -> [Slots -> Objects \cup {Nobody}]],
         count' \in [Kinds -> [Objects -> Nat]], mmap_sem' \subseteq Objects,
         \A s \in Slots : s # t => \A k \in Kinds : obj'[k][s] = obj[k][s],
         \A k \in Kinds \ ExecKinds : obj'[k] = obj[k] /\ count'[k] = count[k],
         \A k \in ExecKinds : Dropped(t, k),
         UNCHANGED <<vfork_sem, PF_VFORK>> \/ mm_release(t)
  PROVE  Inv'
<1>1. /\ TypeOK /\ Tidy(t) /\ Child(t) /\ Flushing(t)
      /\ \A k \in Kinds : obj[k][t] \in Objects
  BY InvParts
<1>2. None \in [ExecKinds -> Objects \cup {Nobody}] /\ \A k \in ExecKinds : None[k] \notin Objects
  BY Constants DEF None, ExecKinds
<1>3. /\ saved' \in [Slots -> [ExecKinds -> Objects \cup {Nobody}]] /\ saved'[t] = None
      /\ \A s \in Slots : s # t => saved'[s] = saved[s]
      /\ at'[t] = "user" /\ \A s \in Slots : s # t => at'[s] = at[s]
  BY <1>1, <1>2 DEF TypeOK
<1>4. ExecStep(t, "user")
  BY <1>3 DEF ExecStep
<1>5. ASSUME NEW i \in Orders, NEW o \in Objects PROVE ExecChange(t, i, o)
  <2>1. PICK k \in Kinds : k = CopyOrder[i]
    BY Constants
  <2>2. /\ Uses(t, i, o)' <=> obj'[k][t] = o \/ (k \in ExecKinds /\ saved'[t][k] = o)
        /\ Uses(t, i, o) <=> obj[k][t] = o \/ (k \in ExecKinds /\ saved[t][k] = o)
    BY <1>4, <2>1, ExecUses
  <2>3. CASE k \notin ExecKinds
    BY <2>1, <2>2, <2>3 DEF ExecChange
  <2>4. CASE k \in ExecKinds
    <3>1. saved'[t][k] # o /\ Dropped(t, k)
      BY <1>2, <1>3, <2>4
    <3>2. QED
      BY <2>1, <2>2, <2>4, <3>1 DEF ExecChange, Dropped
  <2>5. QED
    BY <2>3, <2>4
<1>6. Local(t)'
  <2>1. \A k \in Kinds : obj'[k][t] \in Objects
    BY <1>1 DEF Dropped
  <2>2. Tidy(t)'
    BY <1>1, <1>3, <2>1 DEF Tidy, Building, Executes
  <2>3. Child(t)'
    BY <1>3 DEF Child, Building
  <2>4. Flushing(t)'
    BY <1>3 DEF Flushing, Executes
  <2>5. QED
    BY <2>2, <2>3, <2>4 DEF Local
<1>7. Owned(t)'
  BY <1>3 DEF Owned, Private
<1>8. /\ Vfork' /\ vfork_sem' \in [Slots -> Nat] /\ PF_VFORK' \subseteq Slots
      /\ \A s \in Slots : s # t =>
           /\ Building(s) \/ at[s] = "fork" => vfork_sem'[s] = vfork_sem[s]
           /\ Building(s) => (child[s] \in PF_VFORK' <=> child[s] \in PF_VFORK)
  <2>1. at[t] # "vfork"
    BY DEF Executes
  <2>2. CASE UNCHANGED <<vfork_sem, PF_VFORK>>
    BY <1>1, <1>3, <2>1, <2>2, VforkFrame DEF TypeOK
  <2>3. CASE mm_release(t)
    <3>1. Vfork'
      BY <2>1, <2>3, ExecRelease
    <3>2. QED
      BY <2>3, <3>1, MmRelease DEF Building
  <2>4. QED
    BY <2>2, <2>3
<1>9. QED
  BY <1>4, <1>5, <1>6, <1>7, <1>8, ExecFrame DEF Places

\* What an execve has when it is about to return.
LEMMA ExecHas ==
  ASSUME Inv, NEW t \in Slots, at[t] \in {"mm", "new_mm", "tables"}
  PROVE  /\ state[t] = "linked" /\ TypeOK /\ Executes(t)
         /\ "sig" \in Kinds /\ "mm" \in Kinds
         /\ obj["sig"][t] \in Objects /\ obj["mm"][t] \in Objects
         /\ saved[t]["sig"] \in Objects /\ saved[t]["mm"] \in Objects
         /\ at[t] = "tables" <=> saved[t]["mm"] # obj["mm"][t]
         /\ count["sig"][obj["sig"][t]] = 1
         /\ at[t] = "tables" => count["mm"][obj["mm"][t]] = 1
         /\ count["sig"][saved[t]["sig"]] >= 1 /\ count["mm"][saved[t]["mm"]] >= 1
         /\ count["sig"][saved[t]["sig"]] \in Nat /\ count["mm"][saved[t]["mm"]] \in Nat
         /\ \A s \in Slots : s # t /\ state[s] = "linked" => obj["sig"][s] # obj["sig"][t]
<1>1. /\ state[t] = "linked" /\ TypeOK /\ Executes(t) /\ Flushing(t) /\ Owned(t)
      /\ \A k \in Kinds : obj[k][t] \in Objects
  BY InvParts DEF Executes
<1>2. "sig" \in Kinds /\ "mm" \in Kinds
  BY Constants
<1>3. /\ saved[t]["sig"] \in Objects /\ saved[t]["mm"] \in Objects
      /\ at[t] = "tables" <=> saved[t]["mm"] # obj["mm"][t]
  BY <1>1 DEF Flushing, ExecKinds
<1>4. /\ count["sig"][saved[t]["sig"]] >= 1 /\ count["mm"][saved[t]["mm"]] >= 1
      /\ count["sig"][saved[t]["sig"]] \in Nat /\ count["mm"][saved[t]["mm"]] \in Nat
  BY <1>1, <1>2, <1>3, HeldPositive DEF ExecKinds
<1>5. ASSUME NEW k \in Kinds, Private(t, k)
      PROVE  /\ count[k][obj[k][t]] = 1
             /\ \A s \in Slots : s # t /\ state[s] = "linked" => obj[k][s] # obj[k][t]
  <2>1. PICK i \in Orders : CopyOrder[i] = k
    BY Constants
  <2>2. PICK o \in Objects : o = obj[k][t]
    BY <1>1
  <2>3. Users(i, o) = {t}
    BY <1>1, <1>5, <2>1, <2>2 DEF Owned, Alone
  <2>4. count[k][o] = 1
    BY <2>1, <2>3, UsersFinite DEF Inv, Counted
  <2>5. \A s \in Slots : s # t /\ state[s] = "linked" => obj[k][s] # o
    BY <2>1, <2>3 DEF Users, Uses
  <2>6. QED
    BY <2>2, <2>4, <2>5
<1>6. QED
  BY <1>1, <1>2, <1>3, <1>4, <1>5 DEF Private

\* mmap_failed: the new table of signal handlers is given back.
LEMMA NewMmFailsStep ==
  ASSUME Inv, NEW t \in Slots, NewMmFails(t)
  PROVE  Inv'
<1> USE DEF objVars, taskVars, vforkVars, forkVars
<1>1. at[t] = "new_mm" /\ at' = [at EXCEPT ![t] = "user"] /\ saved' = [saved EXCEPT ![t] = None]
      /\ UNCHANGED <<state, child, flags, copied, opptr, user_count, mmap_sem, vfork_sem, PF_VFORK>>
      /\ obj' = [obj EXCEPT !["sig"][t] = saved[t]["sig"]]
      /\ count' = IF obj["sig"][t] = saved[t]["sig"] THEN count
                  ELSE [count EXCEPT !["sig"][obj["sig"][t]] = 0]
  BY DEF NewMmFails, Goto, Point, SigRestored
<1>2. /\ state[t] = "linked" /\ TypeOK /\ Executes(t)
      /\ "sig" \in Kinds /\ "mm" \in Kinds
      /\ obj["sig"][t] \in Objects /\ obj["mm"][t] \in Objects
      /\ saved[t]["sig"] \in Objects /\ saved[t]["mm"] = obj["mm"][t]
      /\ count["sig"][obj["sig"][t]] = 1
  BY <1>1, ExecHas
<1>3. /\ obj' \in [Kinds -> [Slots -> Objects \cup {Nobody}]]
      /\ obj'["sig"][t] = saved[t]["sig"]
      /\ \A s \in Slots : s # t => \A k \in Kinds : obj'[k][s] = obj[k][s]
      /\ \A k \in Kinds : k # "sig" => obj'[k] = obj[k]
  BY <1>1, <1>2 DEF TypeOK
<1>4. CASE obj["sig"][t] = saved[t]["sig"]
  <2>1. count' = count
    BY <1>1, <1>4
  <2>2. \A k \in ExecKinds : Dropped(t, k)
    BY <1>2, <1>3, <1>4, <2>1 DEF ExecKinds, Dropped
  <2>3. \A k \in Kinds \ ExecKinds : obj'[k] = obj[k] /\ count'[k] = count[k]
    BY <1>3, <2>1 DEF ExecKinds
  <2>4. count' \in [Kinds -> [Objects -> Nat]] /\ mmap_sem' \subseteq Objects
    BY <1>1, <1>2, <2>1 DEF TypeOK
  <2>5. QED
    BY <1>1, <1>2, <1>3, <2>2, <2>3, <2>4, ExecReturns
<1>5. CASE obj["sig"][t] # saved[t]["sig"]
  <2>1. /\ count' \in [Kinds -> [Objects -> Nat]]
        /\ count'["sig"][obj["sig"][t]] = 0
        /\ \A o \in Objects : o # obj["sig"][t] => count'["sig"][o] = count["sig"][o]
        /\ \A k \in Kinds : k # "sig" => count'[k] = count[k]
    BY <1>1, <1>2, <1>5 DEF TypeOK
  <2>2. Dropped(t, "sig")
    BY <1>2, <1>3, <1>5, <2>1 DEF Dropped
  <2>3. Dropped(t, "mm")
    BY <1>2, <1>3, <2>1 DEF Dropped
  <2>4. \A k \in ExecKinds : Dropped(t, k)
    BY <2>2, <2>3 DEF ExecKinds
  <2>5. \A k \in Kinds \ ExecKinds : obj'[k] = obj[k] /\ count'[k] = count[k]
    BY <1>3, <2>1 DEF ExecKinds
  <2>6. mmap_sem' \subseteq Objects
    BY <1>1, <1>2 DEF TypeOK
  <2>7. QED
    BY <1>1, <1>2, <1>3, <2>1, <2>4, <2>5, <2>6, ExecReturns
<1>6. QED
  BY <1>4, <1>5

\* fail_restore: new memory and new signals are given back.
LEMMA TablesFailStep ==
  ASSUME Inv, NEW t \in Slots, TablesFail(t)
  PROVE  Inv'
<1> USE DEF objVars, taskVars, vforkVars, forkVars
<1>1. PICK c : c = [count EXCEPT !["mm"][obj["mm"][t]] = @ - 1]
  OBVIOUS
<1>2. /\ at[t] = "tables" /\ at' = [at EXCEPT ![t] = "user"] /\ saved' = [saved EXCEPT ![t] = None]
      /\ UNCHANGED <<state, child, flags, copied, opptr, user_count, vfork_sem, PF_VFORK>>
      /\ obj' = [obj EXCEPT !["mm"][t] = saved[t]["mm"], !["sig"][t] = saved[t]["sig"]]
      /\ count' = IF obj["sig"][t] = saved[t]["sig"] THEN c
                  ELSE [c EXCEPT !["sig"][obj["sig"][t]] = 0]
      /\ mmap_sem' \subseteq mmap_sem
  BY <1>1 DEF TablesFail, Goto, SigRestored, Mm
<1>3. /\ state[t] = "linked" /\ TypeOK /\ Executes(t)
      /\ "sig" \in Kinds /\ "mm" \in Kinds
      /\ obj["sig"][t] \in Objects /\ obj["mm"][t] \in Objects
      /\ saved[t]["sig"] \in Objects /\ saved[t]["mm"] \in Objects
      /\ saved[t]["mm"] # obj["mm"][t]
      /\ count["sig"][obj["sig"][t]] = 1 /\ count["mm"][obj["mm"][t]] = 1
  BY <1>2, ExecHas
<1>4. /\ obj' \in [Kinds -> [Slots -> Objects \cup {Nobody}]]
      /\ obj'["sig"][t] = saved[t]["sig"] /\ obj'["mm"][t] = saved[t]["mm"]
      /\ \A s \in Slots : s # t => \A k \in Kinds : obj'[k][s] = obj[k][s]
      /\ \A k \in Kinds \ ExecKinds : obj'[k] = obj[k]
  BY <1>2, <1>3 DEF TypeOK, ExecKinds
<1>5. /\ c \in [Kinds -> [Objects -> Nat]]
      /\ c["mm"][obj["mm"][t]] = count["mm"][obj["mm"][t]] - 1
      /\ \A o \in Objects : o # obj["mm"][t] => c["mm"][o] = count["mm"][o]
      /\ \A k \in Kinds : k # "mm" => c[k] = count[k]
  BY <1>1, <1>3 DEF TypeOK
<1>6. /\ count' \in [Kinds -> [Objects -> Nat]]
      /\ obj["sig"][t] # saved[t]["sig"] => count'["sig"][obj["sig"][t]] = 0
      /\ \A o \in Objects :
           o # obj["sig"][t] \/ obj["sig"][t] = saved[t]["sig"] => count'["sig"][o] = count["sig"][o]
      /\ \A k \in Kinds : k # "sig" => count'[k] = c[k]
  BY <1>2, <1>3, <1>5
<1>7. Dropped(t, "sig")
  BY <1>3, <1>4, <1>6 DEF Dropped
<1>8. Dropped(t, "mm")
  <2>1. PICK d, e \in Objects : d = obj["mm"][t] /\ e = saved[t]["mm"]
    BY <1>3
  <2>2. count'["mm"] = c["mm"]
    BY <1>3, <1>6
  <2>3. /\ count'["mm"][d] = count["mm"][d] - 1 /\ obj'["mm"][t] = e /\ d # e
        /\ \A o \in Objects : o # d => count'["mm"][o] = count["mm"][o]
    BY <1>3, <1>4, <1>5, <2>1, <2>2
  <2>4. QED
    BY <2>1, <2>3 DEF Dropped
<1>9. \A k \in Kinds \ ExecKinds : count'[k] = count[k]
  BY <1>5, <1>6 DEF ExecKinds
<1>10. mmap_sem' \subseteq Objects
  BY <1>2, <1>3 DEF TypeOK
<1>11. \A k \in ExecKinds : Dropped(t, k)
  BY <1>7, <1>8 DEF ExecKinds
<1>12. QED
  BY <1>2, <1>3, <1>4, <1>6, <1>9, <1>10, <1>11, ExecReturns

\* exec_mmap and release_old_signals: the old signals and, when it was shared, the
\* old memory are released.
LEMMA ExecDoneSteps ==
  ASSUME Inv, NEW t \in Slots, MmOwned(t) \/ TablesDone(t)
  PROVE  Inv'
<1> USE DEF objVars, taskVars, vforkVars, forkVars
<1>1. PICK c : c = IF at[t] = "mm" THEN count ELSE [count EXCEPT !["mm"][saved[t]["mm"]] = @ - 1]
  OBVIOUS
<1>2. /\ at[t] \in {"mm", "tables"} /\ at' = [at EXCEPT ![t] = "user"]
      /\ saved' = [saved EXCEPT ![t] = None]
      /\ UNCHANGED <<state, child, flags, copied, opptr, user_count, obj>>
      /\ count' = IF obj["sig"][t] = saved[t]["sig"] THEN c
                  ELSE [c EXCEPT !["sig"][saved[t]["sig"]] = @ - 1]
      /\ mmap_sem' \subseteq mmap_sem /\ mm_release(t)
  <2>1. CASE MmOwned(t)
    BY <1>1, <2>1 DEF MmOwned, Goto, OldSigReleased
  <2>2. CASE TablesDone(t)
    BY <1>1, <2>2 DEF TablesDone, Goto, OldSigReleased
  <2>3. QED
    BY <2>1, <2>2
<1>3. /\ state[t] = "linked" /\ TypeOK /\ Executes(t)
      /\ "sig" \in Kinds /\ "mm" \in Kinds
      /\ obj["sig"][t] \in Objects /\ obj["mm"][t] \in Objects
      /\ saved[t]["sig"] \in Objects /\ saved[t]["mm"] \in Objects
      /\ at[t] = "tables" <=> saved[t]["mm"] # obj["mm"][t]
      /\ count["sig"][saved[t]["sig"]] >= 1 /\ count["mm"][saved[t]["mm"]] >= 1
      /\ count["sig"][saved[t]["sig"]] \in Nat /\ count["mm"][saved[t]["mm"]] \in Nat
  BY <1>2, ExecHas
<1>4. /\ c \in [Kinds -> [Objects -> Nat]]
      /\ at[t] = "tables" => c["mm"][saved[t]["mm"]] = count["mm"][saved[t]["mm"]] - 1
      /\ \A o \in Objects : o # saved[t]["mm"] \/ at[t] = "mm" => c["mm"][o] = count["mm"][o]
      /\ \A k \in Kinds : k # "mm" => c[k] = count[k]
  BY <1>1, <1>2, <1>3 DEF TypeOK
<1>5. /\ count' \in [Kinds -> [Objects -> Nat]]
      /\ obj["sig"][t] # saved[t]["sig"] =>
           count'["sig"][saved[t]["sig"]] = count["sig"][saved[t]["sig"]] - 1
      /\ \A o \in Objects :
           o # saved[t]["sig"] \/ obj["sig"][t] = saved[t]["sig"] => count'["sig"][o] = count["sig"][o]
      /\ \A k \in Kinds : k # "sig" => count'[k] = c[k]
  BY <1>2, <1>3, <1>4
<1>6. Dropped(t, "sig")
  BY <1>2, <1>3, <1>5 DEF Dropped
<1>7. Dropped(t, "mm")
  <2>1. count'["mm"] = c["mm"]
    BY <1>3, <1>5
  <2>2. QED
    BY <1>2, <1>3, <1>4, <2>1 DEF Dropped
<1>8. \A k \in Kinds \ ExecKinds : count'[k] = count[k]
  BY <1>4, <1>5 DEF ExecKinds
<1>9. mmap_sem' \subseteq Objects
  BY <1>2, <1>3 DEF TypeOK
<1>10. \A k \in ExecKinds : Dropped(t, k)
  BY <1>6, <1>7 DEF ExecKinds
<1>11. QED
  BY <1>2, <1>3, <1>5, <1>8, <1>9, <1>10, ExecReturns DEF TypeOK

-------------------------------------------------------------------------------
(* do_fork: copying and giving back *)

\* The child of t gets its object of the j-th kind.
Gets(t, j, n) ==
  /\ copied[t] = j - 1 /\ copied'[t] = j
  /\ obj'[CopyOrder[j]][child[t]] = n
  /\ count'[CopyOrder[j]][n] = count[CopyOrder[j]][n] + 1
  /\ Users(j, n) = {} \/ t \in Users(j, n)

\* It is released again.
Loses(t, j, n) ==
  /\ copied[t] = j /\ copied'[t] = j - 1
  /\ obj[CopyOrder[j]][child[t]] = n
  /\ count'[CopyOrder[j]][n] = count[CopyOrder[j]][n] - 1

CopyStep(t, j, n, to) ==
  /\ at' = [at EXCEPT ![t] = to]
  /\ UNCHANGED <<state, child, flags, saved, vfork_sem, PF_VFORK, opptr, user_count>>
  /\ obj' \in [Kinds -> [Slots -> Objects \cup {Nobody}]]
  /\ count' \in [Kinds -> [Objects -> Nat]]
  /\ copied' \in [Slots -> 0 .. Len(CopyOrder)]
  /\ mmap_sem' \subseteq Objects
  /\ \A s \in Slots : s # child[t] => \A k \in Kinds : obj'[k][s] = obj[k][s]
  /\ \A s \in Slots : s # t => copied'[s] = copied[s]
  /\ \A k \in Kinds : k # CopyOrder[j] => obj'[k] = obj[k] /\ count'[k] = count[k]
  /\ \A o \in Objects : o # n => count'[CopyOrder[j]][o] = count[CopyOrder[j]][o]
  /\ Gets(t, j, n) \/ Loses(t, j, n)

LEMMA CopyChange ==
  ASSUME Inv, NEW t \in Slots, Building(t), NEW j \in Orders, NEW n \in Objects, NEW to,
         CopyStep(t, j, n, to), NEW i \in Orders, NEW o \in Objects
  PROVE  Change(t, i, o)
<1> DEFINE c == child[t]
<1>1. /\ c \in Slots /\ state[c] = "building" /\ state[t] = "linked" /\ opptr[c] = t /\ c # t
      /\ TypeOK
  BY InvParts DEF Child, Building
<1>2. /\ i \in Nat /\ j \in Nat /\ i >= 1 /\ j >= 1 /\ CopyOrder[i] \in Kinds /\ CopyOrder[j] \in Kinds
      /\ CopyOrder[i] = CopyOrder[j] => i = j
  BY Constants
<1>3. \A u \in Slots : copied[u] \in Nat /\ copied'[u] \in Nat
  BY <1>1, Constants DEF TypeOK, CopyStep
<1>4. UNCHANGED <<state, child, saved>> /\ \A u \in Slots : u # t => copied'[u] = copied[u]
  BY DEF CopyStep
<1>5. ASSUME NEW s \in Slots, s # c PROVE Uses(s, i, o)' <=> Uses(s, i, o)
  <2>1. obj'[CopyOrder[i]][s] = obj[CopyOrder[i]][s]
    BY <1>2, <1>5 DEF CopyStep
  <2>2. \A u \in Slots : child[u] = s => copied'[u] = copied[u]
    BY <1>4, <1>5
  <2>3. QED
    BY <1>4, <2>1, <2>2 DEF Uses, Linked
<1>6. Uses(c, i, o) <=> obj[CopyOrder[i]][c] = o /\ copied[t] >= i
  BY UsesOfChild
<1>7. Uses(c, i, o)' <=> obj'[CopyOrder[i]][c] = o /\ copied'[t] >= i
  <2>1. ASSUME NEW u \in Slots, child[u] = c, copied'[u] >= i PROVE u = t
    <3>1. CASE u # t
      <4>1. copied[u] >= i
        BY <1>4, <2>1, <3>1
      <4>2. opptr[c] = u
        BY <2>1, <4>1, ParentIs
      <4>3. QED
        BY <1>1, <3>1, <4>2
    <3>2. QED
      BY <3>1
  <2>2. state'[c] = "building" /\ state'[t] = "linked" /\ child'[t] = c
    BY <1>1, <1>4
  <2>3. (\E u \in Linked' : child'[u] = c /\ copied'[u] >= i) <=> copied'[t] >= i
    BY <1>4, <2>1, <2>2 DEF Linked
  <2>4. PICK d : d = c
    OBVIOUS
  <2>5. Uses(d, i, o)' <=> obj'[CopyOrder[i]][d] = o /\ copied'[t] >= i
    BY <2>2, <2>3, <2>4 DEF Uses
  <2>6. QED
    BY <1>4, <2>4, <2>5
<1>8. PICK d \in Slots : d = c
  BY <1>1
<1>9. Uses(d, i, o)' <=> obj'[CopyOrder[i]][d] = o /\ copied'[t] >= i
  BY <1>4, <1>7, <1>8
<1>10. /\ Uses(d, i, o) <=> obj[CopyOrder[i]][d] = o /\ copied[t] >= i
       /\ \A s \in Slots : s # d => (Uses(s, i, o)' <=> Uses(s, i, o))
  BY <1>5, <1>6, <1>8
<1>11. CASE i # j
  <2>1. copied'[t] >= i <=> copied[t] >= i
    BY <1>2, <1>3, <1>11 DEF CopyStep, Gets, Loses
  <2>2. obj'[CopyOrder[i]] = obj[CopyOrder[i]] /\ count'[CopyOrder[i]] = count[CopyOrder[i]]
    BY <1>2, <1>11 DEF CopyStep
  <2>3. \A s \in Slots : Uses(s, i, o)' <=> Uses(s, i, o)
    BY <1>9, <1>10, <2>1, <2>2
  <2>4. QED
    BY <2>2, <2>3, SameChange
<1>12. CASE i = j /\ Gets(t, j, n)
  <2>1. copied[t] = i - 1 /\ copied'[t] = i /\ obj'[CopyOrder[i]][d] = n
    BY <1>8, <1>12 DEF Gets
  <2>2. ~Uses(d, i, o) /\ (Uses(d, i, o)' <=> o = n)
    BY <1>2, <1>9, <1>10, <2>1
  <2>3. CASE o # n
    <3>1. count'[CopyOrder[i]][o] = count[CopyOrder[i]][o]
      BY <1>12, <2>3 DEF CopyStep
    <3>2. \A s \in Slots : Uses(s, i, o)' <=> Uses(s, i, o)
      BY <1>10, <2>2, <2>3
    <3>3. QED
      BY <3>1, <3>2, SameChange
  <2>4. CASE o = n
    <3>1. /\ count'[CopyOrder[i]][o] = count[CopyOrder[i]][o] + 1
          /\ Users(i, o) = {} \/ t \in Users(i, o)
      BY <1>12, <2>4 DEF Gets
    <3>2. QED
      BY <1>10, <2>2, <2>4, <3>1, AddChange
  <2>5. QED
    BY <2>3, <2>4
<1>13. CASE i = j /\ Loses(t, j, n)
  <2>1. copied[t] = i /\ copied'[t] = i - 1 /\ obj[CopyOrder[i]][d] = n
    BY <1>8, <1>13 DEF Loses
  <2>2. ~Uses(d, i, o)' /\ (Uses(d, i, o) <=> o = n)
    BY <1>2, <1>9, <1>10, <2>1
  <2>3. CASE o # n
    <3>1. count'[CopyOrder[i]][o] = count[CopyOrder[i]][o]
      BY <1>13, <2>3 DEF CopyStep
    <3>2. \A s \in Slots : Uses(s, i, o)' <=> Uses(s, i, o)
      BY <1>10, <2>2, <2>3
    <3>3. QED
      BY <3>1, <3>2, SameChange
  <2>4. CASE o = n
    <3>1. count'[CopyOrder[i]][o] = count[CopyOrder[i]][o] - 1 /\ state[d] = "building"
      BY <1>1, <1>8, <1>13, <2>4 DEF Loses
    <3>2. QED
      BY <1>10, <2>2, <2>4, <3>1, RemoveChange
  <2>5. QED
    BY <2>3, <2>4
<1>14. QED
  BY <1>11, <1>12, <1>13 DEF CopyStep

LEMMA CopyFrame ==
  ASSUME Inv, NEW t \in Slots, Building(t), NEW j \in Orders, NEW n \in Objects,
         NEW to \in {"copy", "pages", "undo"}, CopyStep(t, j, n, to),
         to = "copy" => at[t] = "copy" /\ Gets(t, j, n),
         to = "pages" => j = Len(CopyOrder) /\ Gets(t, j, n)
  PROVE  Inv'
<1> DEFINE c == child[t]
<1>1. /\ c \in Slots /\ state[c] = "building" /\ state[t] = "linked" /\ opptr[c] = t /\ c # t
      /\ TypeOK /\ Tidy(t) /\ Child(t) /\ Flushing(t)
  BY InvParts DEF Child, Building
<1>2. TypeOK'
  BY <1>1 DEF TypeOK, CopyStep, Places
<1>3. at'[t] = to /\ \A s \in Slots : s # t => at'[s] = at[s]
  BY <1>1 DEF TypeOK, CopyStep
<1>4. ASSUME NEW s \in Slots, s # t PROVE Local(s)'
  <2>1. Local(s)
    BY DEF Inv
  <2>2. Building(s) => child[s] \in Slots /\ child[s] # c
    BY <1>4, InvParts DEF Child
  <2>3. state[s] = "linked" => s # c
    BY <1>1
  <2>4. QED
    BY <1>1, <1>3, <1>4, <2>1, <2>2, <2>3, LocalFrame DEF CopyStep
<1>5. Local(t)'
  <2>1. Tidy(t)'
    BY <1>1, <1>3 DEF Tidy, Building, Executes, CopyStep
  <2>2. Flushing(t)'
    BY <1>3 DEF Flushing, Executes
  <2>3. /\ j \in Nat /\ j >= 1 /\ copied[t] \in Nat /\ Len(CopyOrder) \in Nat /\ j <= Len(CopyOrder)
        /\ CopyOrder[j] \in Kinds
    BY <1>1, Constants DEF TypeOK, Orders
  <2>4. \A i \in 1 .. Len(CopyOrder) : i # j => CopyOrder[i] \in Kinds /\ CopyOrder[i] # CopyOrder[j]
    BY <2>3, Constants DEF Orders
  <2>5. \A i \in 1 .. Len(CopyOrder) : i # j => obj'[CopyOrder[i]] = obj[CopyOrder[i]]
    BY <2>4 DEF CopyStep
  <2>6. ASSUME NEW i \in 1 .. copied'[t] PROVE obj'[CopyOrder[i]][c] \in Objects
    <3>1. CASE Gets(t, j, n)
      <4>1. i \in 1 .. j
        BY <2>6, <3>1 DEF Gets
      <4>2. CASE i = j
        BY <3>1, <4>2 DEF Gets
      <4>3. CASE i # j
        <5>1. i \in 1 .. copied[t] /\ i \in 1 .. Len(CopyOrder)
          BY <2>3, <3>1, <4>1, <4>3 DEF Gets
        <5>2. obj[CopyOrder[i]][c] \in Objects
          BY <1>1, <5>1 DEF Child
        <5>3. QED
          BY <2>5, <4>3, <5>1, <5>2
      <4>4. QED
        BY <4>2, <4>3
    <3>2. CASE Loses(t, j, n)
      <4>1. i \in 1 .. copied[t] /\ i \in 1 .. Len(CopyOrder) /\ i # j
        BY <2>3, <2>6, <3>2 DEF Loses
      <4>2. obj[CopyOrder[i]][c] \in Objects
        BY <1>1, <4>1 DEF Child
      <4>3. QED
        BY <2>5, <4>1, <4>2
    <3>3. QED
      BY <3>1, <3>2 DEF CopyStep
  <2>7. ASSUME to = "copy", NEW i \in copied'[t] + 1 .. Len(CopyOrder)
        PROVE  obj'[CopyOrder[i]][c] = obj'[CopyOrder[i]][t]
    <3>1. copied'[t] = j /\ copied[t] = j - 1
      BY <2>7 DEF Gets
    <3>2. i # j /\ i \in 1 .. Len(CopyOrder) /\ i \in copied[t] + 1 .. Len(CopyOrder)
      BY <2>3, <2>7, <3>1
    <3>3. obj[CopyOrder[i]][c] = obj[CopyOrder[i]][t]
      BY <1>1, <2>7, <3>2 DEF Child
    <3>4. QED
      BY <2>5, <3>2, <3>3
  <2>8. to = "pages" => copied'[t] = Len(CopyOrder)
    BY DEF Gets
  <2>9. /\ child'[t] = c /\ state'[c] = "building" /\ opptr'[c] = t /\ vfork_sem'[t] = 0
        /\ c \in PF_VFORK' <=> "vfork" \in flags'[t]
    BY <1>1 DEF Child, CopyStep
  <2>10. Child(t)'
    BY <1>1, <1>3, <2>6, <2>7, <2>8, <2>9 DEF Child, Building
  <2>11. QED
    BY <2>1, <2>2, <2>10 DEF Local
<1>6. Owned(t)'
  BY <1>3 DEF Owned, Private
<1>7. Vfork' /\ (user_count = Cardinality(Slots \ FreeSlots))'
  <2>1. UNCHANGED <<PF_VFORK, opptr, state, child, vfork_sem, user_count>>
    BY DEF CopyStep
  <2>2. at[t] # "vfork" /\ at'[t] # "vfork"
    BY <1>3 DEF Building
  <2>3. QED
    BY <1>3, <2>1, <2>2, VforkFrame
<1>8. \A u \in Slots : state[u] = "linked" => \A k \in Kinds : obj'[k][u] = obj[k][u]
  BY <1>1 DEF CopyStep
<1>9. \A i \in Orders : \A o \in Objects : Change(t, i, o)
  BY CopyChange
<1>10. state'[1] = "linked"
  BY DEF Inv, CopyStep
<1>11. QED
  BY <1>2, <1>3, <1>4, <1>5, <1>6, <1>7, <1>8, <1>9, <1>10, StepKeeps

\* Indices of kinds that are copied and released.
LEMMA CopiedIs ==
  ASSUME Inv, NEW t \in Slots, Building(t)
  PROVE  /\ copied[t] \in 0 .. Len(CopyOrder) /\ Len(CopyOrder) \in Nat
         /\ child[t] \in Slots /\ child[t] # t /\ state[t] = "linked" /\ TypeOK
         /\ \A i \in 1 .. copied[t] : i \in Orders /\ obj[CopyOrder[i]][child[t]] \in Objects
         /\ ToCopy(t) => copied[t] + 1 \in Orders /\ NextKind(t) = CopyOrder[copied[t] + 1]
         /\ copied[t] > 0 => copied[t] \in Orders
<1>1. copied[t] \in 0 .. Len(CopyOrder) /\ Len(CopyOrder) \in Nat
  BY InvParts, Constants DEF TypeOK
<1>2. /\ child[t] \in Slots /\ child[t] # t /\ state[t] = "linked" /\ TypeOK
      /\ \A i \in 1 .. copied[t] : obj[CopyOrder[i]][child[t]] \in Objects
  BY InvParts DEF Child, Building
<1>3. QED
  BY <1>1, <1>2 DEF Orders, ToCopy, NextKind

\* With the CLONE_ flag parent and child share the object.
LEMMA CopySharedStep ==
  ASSUME Inv, NEW t \in Slots, CopyShared(t)
  PROVE  Inv'
<1> USE DEF objVars, taskVars, vforkVars, forkVars
<1>1. at[t] = "copy" /\ at' = [at EXCEPT ![t] = "copy"] /\ ToCopy(t)
      /\ UNCHANGED <<state, child, flags, saved, vfork_sem, PF_VFORK, opptr, user_count, obj, mmap_sem>>
      /\ count' = [count EXCEPT ![NextKind(t)][obj[NextKind(t)][t]] = @ + 1]
      /\ copied' = [copied EXCEPT ![t] = @ + 1]
  BY DEF CopyShared, Goto
<1>2. Building(t)
  BY <1>1 DEF Building
<1>3. /\ copied[t] \in 0 .. Len(CopyOrder) /\ Len(CopyOrder) \in Nat
      /\ child[t] \in Slots /\ child[t] # t /\ state[t] = "linked" /\ TypeOK
      /\ copied[t] + 1 \in Orders /\ NextKind(t) = CopyOrder[copied[t] + 1]
  BY <1>1, <1>2, CopiedIs
<1>4. PICK j \in Orders : j = copied[t] + 1 /\ CopyOrder[j] = NextKind(t)
  BY <1>3
<1>5. PICK k \in Kinds : k = CopyOrder[j]
  BY Constants
<1>6. PICK n \in Objects : n = obj[k][t]
  BY <1>3, InvParts
<1>7. /\ count' = [count EXCEPT ![k][n] = @ + 1]
      /\ count' \in [Kinds -> [Objects -> Nat]] /\ count'[k][n] = count[k][n] + 1
      /\ \A o \in Objects : o # n => count'[k][o] = count[k][o]
      /\ \A l \in Kinds : l # k => count'[l] = count[l]
  BY <1>1, <1>3, <1>4, <1>5, <1>6 DEF TypeOK
<1>8. copied' \in [Slots -> 0 .. Len(CopyOrder)] /\ copied'[t] = j
      /\ \A s \in Slots : s # t => copied'[s] = copied[s]
  BY <1>1, <1>3, <1>4 DEF TypeOK, ToCopy
<1>9. obj[k][child[t]] = obj[k][t]
  <2>1. j \in copied[t] + 1 .. Len(CopyOrder)
    BY <1>3, <1>4 DEF Orders
  <2>2. QED
    BY <1>1, <1>5, <2>1, InvParts DEF Child
<1>10. t \in Users(j, n)
  BY <1>3, <1>5, <1>6 DEF Users, Uses
<1>11. Gets(t, j, n)
  BY <1>1, <1>3, <1>4, <1>5, <1>6, <1>7, <1>8, <1>9, <1>10 DEF Gets
<1>12. CopyStep(t, j, n, "copy")
  BY <1>1, <1>3, <1>5, <1>7, <1>8, <1>11 DEF CopyStep, TypeOK
<1>13. QED
  BY <1>1, <1>2, <1>11, <1>12, CopyFrame

LEMMA CopyOwnStep ==
  ASSUME Inv, NEW t \in Slots, CopyOwn(t)
  PROVE  Inv'
<1> USE DEF objVars, taskVars, vforkVars, forkVars
<1>1. PICK k : k = NextKind(t)
  OBVIOUS
<1>2. PICK to : to = IF k = "mm" THEN "pages" ELSE "copy"
  OBVIOUS
<1>3. /\ at[t] = "copy" /\ at' = [at EXCEPT ![t] = to] /\ ToCopy(t)
      /\ UNCHANGED <<state, child, flags, saved, vfork_sem, PF_VFORK, opptr, user_count>>
      /\ copied' = [copied EXCEPT ![t] = @ + 1]
  BY <1>1, <1>2 DEF CopyOwn, Goto
<1>4. PICK n \in New(k) :
        /\ count' = [count EXCEPT ![k][n] = 1]
        /\ obj' = [obj EXCEPT ![k][child[t]] = n]
        /\ mmap_sem' \in {mmap_sem, mmap_sem \cup {n}}
  BY <1>1 DEF CopyOwn, Point
<1>5. Building(t)
  BY <1>3 DEF Building
<1>6. /\ copied[t] \in 0 .. Len(CopyOrder) /\ Len(CopyOrder) \in Nat
      /\ child[t] \in Slots /\ child[t] # t /\ state[t] = "linked" /\ TypeOK
      /\ copied[t] + 1 \in Orders /\ NextKind(t) = CopyOrder[copied[t] + 1]
  BY <1>3, <1>5, CopiedIs
<1>7. PICK j \in Orders : j = copied[t] + 1 /\ CopyOrder[j] = k /\ k \in Kinds
  BY <1>1, <1>6, Constants
<1>8. n \in Objects /\ count[k][n] = 0
  BY DEF New
<1>9. /\ count' \in [Kinds -> [Objects -> Nat]] /\ count'[k][n] = count[k][n] + 1
      /\ \A o \in Objects : o # n => count'[k][o] = count[k][o]
      /\ \A l \in Kinds : l # k => count'[l] = count[l] /\ obj'[l] = obj[l]
      /\ obj' \in [Kinds -> [Slots -> Objects \cup {Nobody}]]
      /\ obj'[k][child[t]] = n
      /\ \A s \in Slots : s # child[t] => \A l \in Kinds : obj'[l][s] = obj[l][s]
      /\ mmap_sem' \subseteq Objects
  BY <1>4, <1>6, <1>7, <1>8 DEF TypeOK
<1>10. copied' \in [Slots -> 0 .. Len(CopyOrder)] /\ copied'[t] = j
       /\ \A s \in Slots : s # t => copied'[s] = copied[s]
  BY <1>3, <1>6, <1>7 DEF TypeOK, ToCopy
<1>11. Users(j, n) = {}
  BY <1>7, <1>8, UsersFinite DEF Inv, Counted
<1>12. Gets(t, j, n)
  BY <1>6, <1>7, <1>9, <1>10, <1>11 DEF Gets
<1>13. CopyStep(t, j, n, to)
  BY <1>3, <1>6, <1>7, <1>9, <1>10, <1>12 DEF CopyStep
<1>14. to = "pages" => j = Len(CopyOrder)
  BY <1>2, <1>7, Constants
<1>15. QED
  BY <1>2, <1>3, <1>5, <1>8, <1>12, <1>13, <1>14, CopyFrame

\* bad_fork_cleanup_mm and on, and copy_mm that gives its memory back.
LEMMA GiveBackSteps ==
  ASSUME Inv, NEW t \in Slots, UndoKind(t) \/ PagesFail(t)
  PROVE  Inv'
<1> USE DEF objVars, taskVars, vforkVars, forkVars
<1>1. /\ at[t] \in {"undo", "pages"} /\ at' = [at EXCEPT ![t] = "undo"]
      /\ UNCHANGED <<state, child, flags, saved, vfork_sem, PF_VFORK, opptr, user_count>>
      /\ copied' = [copied EXCEPT ![t] = @ - 1] /\ mmap_sem' \subseteq mmap_sem
  BY DEF UndoKind, PagesFail, Goto
<1>2. Building(t)
  BY <1>1 DEF Building
<1>3. /\ copied[t] \in 0 .. Len(CopyOrder) /\ Len(CopyOrder) \in Nat
      /\ child[t] \in Slots /\ child[t] # t /\ state[t] = "linked" /\ TypeOK
      /\ \A i \in 1 .. copied[t] : i \in Orders /\ obj[CopyOrder[i]][child[t]] \in Objects
      /\ copied[t] > 0 => copied[t] \in Orders
  BY <1>2, CopiedIs
<1>4. PICK j \in Orders : j = copied[t]
  <2>1. CASE UndoKind(t)
    BY <1>3, <2>1 DEF UndoKind
  <2>2. CASE PagesFail(t)
    <3>1. copied[t] = Len(CopyOrder)
      BY <2>2, InvParts DEF PagesFail, Goto, Child
    <3>2. Len(CopyOrder) \in Orders
      BY Constants
    <3>3. QED
      BY <3>1, <3>2
  <2>3. QED
    BY <2>1, <2>2
<1>5. PICK k \in Kinds : k = CopyOrder[j]
  BY Constants
<1>6. PICK n \in Objects : n = obj[k][child[t]]
  BY <1>3, <1>4, <1>5 DEF Orders
<1>7. /\ count' = [count EXCEPT ![k][n] = @ - 1]
      /\ obj' = [obj EXCEPT ![k][child[t]] = Nobody]
  <2>1. CASE UndoKind(t)
    BY <1>4, <1>5, <1>6, <2>1 DEF UndoKind, Point
  <2>2. CASE PagesFail(t)
    <3>1. copied[t] = Len(CopyOrder)
      BY <2>2, InvParts DEF PagesFail, Goto, Child
    <3>2. k = "mm"
      BY <1>4, <1>5, <3>1, Constants
    <3>3. QED
      BY <1>6, <2>2, <3>2 DEF PagesFail, Point, Mm
  <2>3. QED
    BY <2>1, <2>2
<1>8. count[k][n] \in Nat /\ count[k][n] >= 1
  <2>1. Uses(child[t], j, n)
    BY <1>2, <1>3, <1>4, <1>5, <1>6, UsesOfChild
  <2>2. Users(j, n) # {} /\ Counted(j, n)
    BY <1>3, <2>1 DEF Users, Inv
  <2>3. Cardinality(Users(j, n)) \in Nat /\ Cardinality(Users(j, n)) # 0
    BY <2>2, UsersFinite
  <2>4. QED
    BY <1>5, <2>2, <2>3 DEF Counted
<1>9. /\ count' \in [Kinds -> [Objects -> Nat]] /\ count'[k][n] = count[k][n] - 1
      /\ \A o \in Objects : o # n => count'[k][o] = count[k][o]
      /\ \A l \in Kinds : l # k => count'[l] = count[l] /\ obj'[l] = obj[l]
      /\ obj' \in [Kinds -> [Slots -> Objects \cup {Nobody}]]
      /\ \A s \in Slots : s # child[t] => \A l \in Kinds : obj'[l][s] = obj[l][s]
  BY <1>3, <1>7, <1>8 DEF TypeOK
<1>10. /\ copied' \in [Slots -> 0 .. Len(CopyOrder)] /\ copied'[t] = j - 1
       /\ \A s \in Slots : s # t => copied'[s] = copied[s]
  <2>1. j \in Nat /\ j >= 1
    BY Constants
  <2>2. QED
    BY <1>1, <1>3, <1>4, <2>1 DEF TypeOK
<1>11. Loses(t, j, n)
  BY <1>4, <1>5, <1>6, <1>9, <1>10 DEF Loses
<1>12. CopyStep(t, j, n, "undo")
  BY <1>1, <1>3, <1>5, <1>9, <1>10, <1>11 DEF CopyStep, TypeOK
<1>13. QED
  BY <1>2, <1>12, CopyFrame

-------------------------------------------------------------------------------
(* Slots that change hands *)

LEMMA SlotTaken ==
  ASSUME Inv, NEW u \in Slots
  PROVE  /\ user_count \in Nat
         /\ state[u] = "free" => Cardinality((Slots \ FreeSlots) \cup {u}) = user_count + 1
         /\ state[u] # "free" =>
              Cardinality((Slots \ FreeSlots) \ {u}) = user_count - 1 /\ user_count - 1 \in Nat
<1> DEFINE T == Slots \ FreeSlots
<1>1. T \in SUBSET Slots /\ user_count = Cardinality(T)
  BY DEF Inv
<1>2. IsFiniteSet(T)
  BY <1>1, Constants, FS_Subset
<1>3. u \in T <=> state[u] # "free"
  BY DEF FreeSlots
<1>4. Cardinality(T) \in Nat
  BY <1>2, FS_CardinalityType
<1>5. u \in T => Cardinality(T \ {u}) = Cardinality(T) - 1
  BY <1>2, FS_RemoveElement
<1>6. u \notin T => Cardinality(T \cup {u}) = Cardinality(T) + 1
  BY <1>2, FS_AddElement
<1>7. IsFiniteSet(T \ {u})
  BY <1>2, FS_RemoveElement
<1>8. Cardinality(T \ {u}) \in Nat
  BY <1>7, FS_CardinalityType
<1>9. QED
  BY <1>1, <1>3, <1>4, <1>5, <1>6, <1>8

\* A slot is taken; the child points to what its parent has and holds nothing yet.
LEMMA ForkBeginStep ==
  ASSUME Inv, NEW t \in Slots, ForkBegin(t)
  PROVE  Inv'
<1> USE DEF objVars, taskVars, vforkVars, forkVars
<1>1. PICK u \in FreeSlots :
        /\ state' = [state EXCEPT ![u] = "building"]
        /\ child' = [child EXCEPT ![t] = u]
        /\ obj' = [k \in Kinds |-> [obj[k] EXCEPT ![u] = obj[k][t]]]
        /\ PF_VFORK' = IF "vfork" \in flags[t] THEN PF_VFORK \cup {u} ELSE PF_VFORK
        /\ opptr' = [opptr EXCEPT ![u] = t]
  BY DEF ForkBegin
<1>2. /\ Goto(t, "fork", "copy") /\ user_count' = user_count + 1
      /\ mmap_sem' = mmap_sem \cup {Mm(t)}
      /\ UNCHANGED <<flags, copied, count, saved, vfork_sem>>
  BY DEF ForkBegin
<1>3. /\ t \in Linked /\ state[t] = "linked" /\ at[t] = "fork" /\ at'[t] = "copy"
      /\ at' = [at EXCEPT ![t] = "copy"]
      /\ \A s \in Slots : s # t => at'[s] = at[s]
      /\ TypeOK /\ Tidy(t) /\ Child(t) /\ Flushing(t)
      /\ \A k \in Kinds : obj[k][t] \in Objects
      /\ Mm(t) \in Objects
  BY <1>2, MoverIs
<1>4. u \in Slots /\ state[u] = "free" /\ u # t
  BY <1>3 DEF FreeSlots
<1>5. u \notin PF_VFORK
  BY <1>1 DEF Inv, Vfork, VforkParents
<1>6. /\ state' \in [Slots -> {"free", "building", "linked"}] /\ state'[u] = "building"
      /\ \A s \in Slots : s # u => state'[s] = state[s]
      /\ child' \in [Slots -> Slots \cup {Nobody}] /\ child'[t] = u
      /\ \A s \in Slots : s # t => child'[s] = child[s]
      /\ opptr' \in [Slots -> Slots \cup {Nobody}] /\ opptr'[u] = t
      /\ \A s \in Slots : s # u => opptr'[s] = opptr[s]
      /\ PF_VFORK' \subseteq Slots /\ (u \in PF_VFORK' <=> "vfork" \in flags[t])
      /\ \A s : s # u => (s \in PF_VFORK' <=> s \in PF_VFORK)
  BY <1>1, <1>3, <1>4, <1>5 DEF TypeOK
<1>7. /\ obj' \in [Kinds -> [Slots -> Objects \cup {Nobody}]]
      /\ \A k \in Kinds : obj'[k][u] = obj[k][t]
      /\ \A s \in Slots : s # u => \A k \in Kinds : obj'[k][s] = obj[k][s]
  BY <1>1, <1>3, <1>4 DEF TypeOK
<1>8. (user_count = Cardinality(Slots \ FreeSlots))' /\ user_count' \in Nat
  <2>1. Slots \ FreeSlots' = (Slots \ FreeSlots) \cup {u}
    BY <1>4, <1>6 DEF FreeSlots
  <2>2. user_count \in Nat /\ Cardinality((Slots \ FreeSlots) \cup {u}) = user_count + 1
    BY <1>4, SlotTaken
  <2>3. user_count' \in Nat
    BY <1>2, <2>2
  <2>4. QED
    BY <1>2, <2>1, <2>2, <2>3
<1>9. TypeOK'
  <2>1. mmap_sem' \subseteq Objects /\ at' \in [Slots -> Places]
    BY <1>2, <1>3 DEF TypeOK, Places
  <2>2. QED
    BY <1>2, <1>3, <1>6, <1>7, <1>8, <2>1 DEF TypeOK
<1>10. ASSUME NEW s \in Slots, s # t, s # u PROVE Local(s)'
  <2>1. Local(s)
    BY DEF Inv
  <2>2. Building(s) => child[s] \in Slots /\ child[s] # u
    BY <1>4, <2>1 DEF Local, Child
  <2>3. QED
    BY <1>2, <1>3, <1>6, <1>7, <1>10, <2>1, <2>2, LocalFrame
<1>11. Local(u)'
  <2>1. Local(u) /\ at[u] = "user"
    BY <1>4 DEF Inv, Local, Tidy
  <2>2. at'[u] = "user"
    BY <1>3, <1>4, <2>1
  <2>3. Tidy(u)'
    BY <1>2, <1>4, <1>6, <2>1, <2>2 DEF Local, Tidy, Building, Executes
  <2>4. Child(u)'
    BY <2>2 DEF Child, Building
  <2>5. Flushing(u)'
    BY <2>2 DEF Flushing, Executes
  <2>6. QED
    BY <2>3, <2>4, <2>5 DEF Local
<1>12. copied[t] = 0 /\ vfork_sem[t] = 0
  BY <1>3 DEF Tidy, Building, Child
<1>13. Local(t)'
  <2>1. Tidy(t)'
    BY <1>2, <1>3, <1>4, <1>6, <1>7 DEF Tidy, Building, Executes
  <2>2. \A i \in 1 .. Len(CopyOrder) : CopyOrder[i] \in Kinds
    BY DEF Kinds
  <2>3. \A i \in 1 .. Len(CopyOrder) : obj'[CopyOrder[i]][u] = obj'[CopyOrder[i]][t]
    BY <1>4, <1>7, <2>2
  <2>4. Child(t)'
    BY <1>2, <1>3, <1>4, <1>6, <1>12, <2>3 DEF Child, Building
  <2>5. Flushing(t)'
    BY <1>3 DEF Flushing, Executes
  <2>6. QED
    BY <2>1, <2>4, <2>5 DEF Local
<1>14. ASSUME NEW i \in Orders, NEW o \in Objects PROVE Change(t, i, o)
  <2>1. i \in Nat /\ i >= 1 /\ CopyOrder[i] \in Kinds
    BY Constants
  <2>2. \A p \in Slots : copied[p] >= i => child'[p] = child[p] /\ child[p] # u
    <3>1. SUFFICES ASSUME NEW p \in Slots, copied[p] >= i PROVE child'[p] = child[p] /\ child[p] # u
      OBVIOUS
    <3>2. p # t
      BY <1>12, <2>1, <3>1
    <3>3. QED
      BY <1>4, <1>6, <3>1, <3>2, ParentIs
  <2>3. ASSUME NEW s \in Slots PROVE Uses(s, i, o)' <=> Uses(s, i, o)
    <3>1. CASE s = u
      BY <1>2, <1>4, <1>6, <2>2, <3>1 DEF Uses, Linked
    <3>2. CASE s # u
      <4>1. state'[s] = state[s] /\ obj'[CopyOrder[i]][s] = obj[CopyOrder[i]][s]
        BY <1>6, <1>7, <2>1, <3>2
      <4>2. \A p \in Slots : state'[p] = "linked" <=> state[p] = "linked"
        BY <1>4, <1>6
      <4>3. (\E p \in Linked' : child'[p] = s /\ copied'[p] >= i)
              <=> \E p \in Linked : child[p] = s /\ copied[p] >= i
        BY <1>2, <2>2, <4>2 DEF Linked
      <4>4. QED
        BY <1>2, <4>1, <4>3 DEF Uses
    <3>3. QED
      BY <3>1, <3>2
  <2>4. QED
    BY <1>2, <2>3, SameChange
<1>15. Owned(t)'
  BY <1>3 DEF Owned, Private
<1>16. Vfork'
  <2>1. VforkSemaphore /\ VforkParents
    BY DEF Inv, Vfork
  <2>2. Linked' = Linked /\ FreeSlots' = FreeSlots \ {u}
    BY <1>4, <1>6 DEF Linked, FreeSlots
  <2>3. u \notin Linked
    BY <1>4 DEF Linked
  <2>4. VforkParents'
    BY <1>4, <1>6, <2>1, <2>2, <2>3 DEF VforkParents, Linked
  <2>5. \A c \in PF_VFORK \cap Linked : opptr[c] # t
    BY <1>3, <2>1 DEF VforkSemaphore
  <2>6. VforkSemaphore'
    BY <1>2, <1>3, <1>6, <2>1, <2>2, <2>3, <2>5 DEF VforkSemaphore, VforkParents, Linked
  <2>7. QED
    BY <2>4, <2>6 DEF Vfork
<1>17. state'[1] = "linked"
  BY <1>4, <1>6, Constants DEF Inv
<1>18. \A s \in Slots : Local(s)'
  BY <1>10, <1>11, <1>13
<1>19. \A s \in Slots : state[s] = "linked" => \A k \in Kinds : obj'[k][s] = obj[k][s]
  BY <1>4, <1>7
<1>20. QED
  BY <1>3, <1>8, <1>9, <1>14, <1>15, <1>16, <1>17, <1>18, <1>19, StepKeeps

\* The slot is free again; whatever the child pointed to it did not hold.
LEMMA ForkUndoneStep ==
  ASSUME Inv, NEW t \in Slots, ForkUndone(t)
  PROVE  Inv'
<1> USE DEF objVars, taskVars, vforkVars, forkVars
<1>1. /\ Goto(t, "undo", "user") /\ copied[t] = 0 /\ user_count' = user_count - 1
      /\ mmap_sem' = mmap_sem \ {Mm(t)}
      /\ UNCHANGED <<count, saved, vfork_sem>>
  BY DEF ForkUndone
<1>2. /\ t \in Linked /\ state[t] = "linked" /\ at[t] = "undo" /\ at'[t] = "user"
      /\ at' = [at EXCEPT ![t] = "user"]
      /\ \A s \in Slots : s # t => at'[s] = at[s]
      /\ TypeOK /\ Tidy(t) /\ Child(t) /\ Flushing(t)
      /\ \A k \in Kinds : obj[k][t] \in Objects
  BY <1>1, MoverIs
<1>3. PICK u \in Slots : u = child[t] /\ state[u] = "building" /\ opptr[u] = t /\ u # t
  BY <1>2 DEF Child, Building
<1>4. /\ state' = [state EXCEPT ![u] = "free"]
      /\ obj' = [k \in Kinds |-> [obj[k] EXCEPT ![u] = Nobody]]
      /\ PF_VFORK' = PF_VFORK \ {u}
      /\ opptr' = [opptr EXCEPT ![u] = Nobody]
      /\ flags' = [flags EXCEPT ![t] = {}]
      /\ child' = [child EXCEPT ![t] = Nobody]
      /\ copied' = [copied EXCEPT ![t] = 0]
  BY <1>3 DEF ForkUndone, ForkReturnsError
<1>5. /\ state' \in [Slots -> {"free", "building", "linked"}] /\ state'[u] = "free"
      /\ \A s \in Slots : s # u => state'[s] = state[s]
      /\ child' \in [Slots -> Slots \cup {Nobody}] /\ child'[t] = Nobody
      /\ \A s \in Slots : s # t => child'[s] = child[s] /\ flags'[s] = flags[s]
      /\ opptr' \in [Slots -> Slots \cup {Nobody}]
      /\ \A s \in Slots : s # u => opptr'[s] = opptr[s]
      /\ flags' \in [Slots -> SUBSET (Kinds \cup {"vfork"})]
      /\ PF_VFORK' \subseteq Slots
      /\ copied' = copied
  BY <1>1, <1>2, <1>3, <1>4 DEF TypeOK
<1>6. /\ obj' \in [Kinds -> [Slots -> Objects \cup {Nobody}]]
      /\ \A s \in Slots : s # u => \A k \in Kinds : obj'[k][s] = obj[k][s]
  BY <1>2, <1>3, <1>4 DEF TypeOK
<1>7. (user_count = Cardinality(Slots \ FreeSlots))' /\ user_count' \in Nat
  <2>1. Slots \ FreeSlots' = (Slots \ FreeSlots) \ {u}
    BY <1>3, <1>5 DEF FreeSlots
  <2>2. QED
    BY <1>1, <1>3, <2>1, SlotTaken
<1>8. TypeOK'
  <2>1. mmap_sem' \subseteq Objects /\ at' \in [Slots -> Places]
    BY <1>1, <1>2 DEF TypeOK, Places
  <2>2. QED
    BY <1>1, <1>2, <1>5, <1>6, <1>7, <2>1 DEF TypeOK
<1>9. ASSUME NEW s \in Slots, s # t, s # u PROVE Local(s)'
  <2>1. Local(s)
    BY DEF Inv
  <2>2. Building(s) => child[s] \in Slots /\ child[s] # u
    BY <1>2, <1>3, <1>9, InvParts DEF Building, Child
  <2>3. QED
    BY <1>1, <1>2, <1>4, <1>5, <1>6, <1>9, <2>1, <2>2, LocalFrame
<1>10. Local(u)'
  <2>1. Local(u) /\ at[u] = "user"
    BY <1>3 DEF Inv, Local, Tidy
  <2>2. at'[u] = "user"
    BY <1>2, <1>3, <2>1
  <2>3. Tidy(u)'
    BY <1>1, <1>3, <1>5, <2>1, <2>2 DEF Local, Tidy, Building, Executes
  <2>4. Child(u)'
    BY <2>2 DEF Child, Building
  <2>5. Flushing(u)'
    BY <2>2 DEF Flushing, Executes
  <2>6. QED
    BY <2>3, <2>4, <2>5 DEF Local
<1>11. Local(t)'
  <2>1. Tidy(t)'
    BY <1>1, <1>2, <1>3, <1>5, <1>6 DEF Tidy, Building, Executes
  <2>2. Child(t)'
    BY <1>2 DEF Child, Building
  <2>3. Flushing(t)'
    BY <1>2 DEF Flushing, Executes
  <2>4. QED
    BY <2>1, <2>2, <2>3 DEF Local
<1>12. ASSUME NEW i \in Orders, NEW o \in Objects PROVE Change(t, i, o)
  <2>1. i \in Nat /\ i >= 1 /\ CopyOrder[i] \in Kinds
    BY Constants
  <2>2. \A p \in Slots : copied[p] >= i => child'[p] = child[p] /\ child[p] # u
    <3>1. SUFFICES ASSUME NEW p \in Slots, copied[p] >= i PROVE child'[p] = child[p] /\ child[p] # u
      OBVIOUS
    <3>2. p # t
      BY <1>1, <2>1, <3>1
    <3>3. QED
      BY <1>3, <1>5, <3>1, <3>2, ParentIs
  <2>3. ASSUME NEW s \in Slots PROVE Uses(s, i, o)' <=> Uses(s, i, o)
    <3>1. CASE s = u
      BY <1>3, <1>5, <2>2, <3>1 DEF Uses, Linked
    <3>2. CASE s # u
      <4>1. state'[s] = state[s] /\ obj'[CopyOrder[i]][s] = obj[CopyOrder[i]][s]
        BY <1>5, <1>6, <2>1, <3>2
      <4>2. \A p \in Slots : state'[p] = "linked" <=> state[p] = "linked"
        BY <1>3, <1>5
      <4>3. (\E p \in Linked' : child'[p] = s /\ copied'[p] >= i)
              <=> \E p \in Linked : child[p] = s /\ copied[p] >= i
        BY <1>5, <2>2, <4>2 DEF Linked
      <4>4. QED
        BY <1>1, <4>1, <4>3 DEF Uses
    <3>3. QED
      BY <3>1, <3>2
  <2>4. QED
    BY <1>1, <2>3, SameChange
<1>13. Owned(t)'
  BY <1>2 DEF Owned, Private
<1>14. Vfork'
  <2>1. VforkSemaphore /\ VforkParents
    BY DEF Inv, Vfork
  <2>2. Linked' = Linked /\ FreeSlots' = FreeSlots \cup {u}
    BY <1>3, <1>5 DEF Linked, FreeSlots
  <2>3. u \notin Linked
    BY <1>3 DEF Linked
  <2>4. VforkParents'
    BY <1>4, <1>5, <2>1, <2>2, <2>3 DEF VforkParents, Linked
  <2>5. \A c \in PF_VFORK \cap Linked : opptr[c] # t
    BY <1>2, <2>1 DEF VforkSemaphore
  <2>6. VforkSemaphore'
    BY <1>1, <1>2, <1>4, <1>5, <2>1, <2>2, <2>3, <2>5 DEF VforkSemaphore, VforkParents, Linked
  <2>7. QED
    BY <2>4, <2>6 DEF Vfork
<1>15. state'[1] = "linked"
  BY <1>3, <1>5, Constants DEF Inv
<1>16. \A s \in Slots : Local(s)'
  BY <1>9, <1>10, <1>11
<1>17. \A s \in Slots : state[s] = "linked" => \A k \in Kinds : obj'[k][s] = obj[k][s]
  BY <1>3, <1>6
<1>18. QED
  BY <1>2, <1>7, <1>8, <1>12, <1>13, <1>14, <1>15, <1>16, <1>17, StepKeeps

\* The child is linked and runs: what it was given it holds from now on.
LEMMA ForkDoneStep ==
  ASSUME Inv, NEW t \in Slots, ForkDone(t)
  PROVE  Inv'
<1> USE DEF objVars, taskVars, vforkVars, forkVars
<1>1. PICK to \in {"vfork", "user"} :
        /\ Goto(t, "copy", to) /\ (to = "vfork" <=> "vfork" \in flags[t])
        /\ child' = [child EXCEPT ![t] = IF "vfork" \in flags[t] THEN @ ELSE Nobody]
  BY DEF ForkDone
<1>2. /\ ~ToCopy(t) /\ mmap_sem' = mmap_sem \ {Mm(t)}
      /\ UNCHANGED <<obj, count, saved, vfork_sem, PF_VFORK, opptr, user_count>>
  BY DEF ForkDone
<1>3. /\ t \in Linked /\ state[t] = "linked" /\ at[t] = "copy" /\ at'[t] = to
      /\ at' = [at EXCEPT ![t] = to]
      /\ \A s \in Slots : s # t => at'[s] = at[s]
      /\ TypeOK /\ Tidy(t) /\ Child(t) /\ Flushing(t)
      /\ \A k \in Kinds : obj[k][t] \in Objects
  BY <1>1, MoverIs
<1>4. Building(t)
  BY <1>3 DEF Building
<1>5. PICK c \in Slots : /\ c = child[t] /\ state[c] = "building" /\ opptr[c] = t /\ c # t
                         /\ vfork_sem[t] = 0 /\ (c \in PF_VFORK <=> "vfork" \in flags[t])
  BY <1>3, <1>4 DEF Child
<1>6. copied[t] = Len(CopyOrder)
  BY <1>2, <1>3, Constants DEF ToCopy, TypeOK
<1>7. \A k \in Kinds : obj[k][c] \in Objects
  <2>1. \A i \in Orders : obj[CopyOrder[i]][c] \in Objects
    BY <1>3, <1>4, <1>5, <1>6 DEF Child, Orders
  <2>2. QED
    BY <2>1, Constants
<1>8. /\ state' = [state EXCEPT ![c] = "linked"]
      /\ copied' = [copied EXCEPT ![t] = 0]
      /\ flags' = [flags EXCEPT ![t] = {}]
  BY <1>5 DEF ForkDone
<1>9. /\ state' \in [Slots -> {"free", "building", "linked"}] /\ state'[c] = "linked"
      /\ \A s \in Slots : s # c => state'[s] = state[s]
      /\ child' \in [Slots -> Slots \cup {Nobody}]
      /\ child'[t] = IF to = "vfork" THEN c ELSE Nobody
      /\ \A s \in Slots : s # t =>
           child'[s] = child[s] /\ flags'[s] = flags[s] /\ copied'[s] = copied[s]
      /\ flags' \in [Slots -> SUBSET (Kinds \cup {"vfork"})]
      /\ copied' \in [Slots -> 0 .. Len(CopyOrder)] /\ copied'[t] = 0
  BY <1>1, <1>3, <1>5, <1>8, Constants DEF TypeOK
<1>10. TypeOK'
  <2>1. mmap_sem' \subseteq Objects /\ at' \in [Slots -> Places]
    BY <1>1, <1>2, <1>3 DEF TypeOK, Places
  <2>2. QED
    BY <1>2, <1>3, <1>9, <2>1 DEF TypeOK
<1>11. ASSUME NEW s \in Slots, s # t, s # c PROVE Local(s)'
  <2>1. Local(s)
    BY DEF Inv
  <2>2. Building(s) => child[s] \in Slots /\ child[s] # c
    BY <1>4, <1>5, <1>11, InvParts DEF Child
  <2>3. QED
    BY <1>2, <1>3, <1>9, <1>11, <2>1, <2>2, LocalFrame
<1>12. Local(c) /\ at[c] = "user" /\ at'[c] = "user" /\ copied[c] = 0 /\ saved[c] = None
  BY <1>3, <1>5 DEF Inv, Local, Tidy, Building, Executes
<1>13. Local(c)'
  <2>1. Tidy(c)'
    BY <1>2, <1>5, <1>7, <1>9, <1>12 DEF Local, Tidy, Building, Executes
  <2>2. Child(c)'
    BY <1>12 DEF Child, Building
  <2>3. Flushing(c)'
    BY <1>12 DEF Flushing, Executes
  <2>4. QED
    BY <2>1, <2>2, <2>3 DEF Local
<1>14. Local(t)'
  <2>1. Tidy(t)'
    BY <1>1, <1>2, <1>3, <1>5, <1>9 DEF Tidy, Building, Executes
  <2>2. Child(t)'
    BY <1>1, <1>3 DEF Child, Building
  <2>3. Flushing(t)'
    BY <1>1, <1>3 DEF Flushing, Executes
  <2>4. QED
    BY <2>1, <2>2, <2>3 DEF Local
<1>15. ASSUME NEW i \in Orders, NEW o \in Objects PROVE Change(t, i, o)
  <2>1. i \in Nat /\ i >= 1 /\ CopyOrder[i] \in Kinds /\ i <= copied[t]
    BY <1>6, Constants DEF Orders
  <2>2. ASSUME NEW s \in Slots PROVE Uses(s, i, o)' <=> Uses(s, i, o)
    <3>1. CASE s = c
      <4>1. Uses(c, i, o) <=> obj[CopyOrder[i]][c] = o
        BY <1>4, <1>5, <2>1, UsesOfChild
      <4>2. CopyOrder[i] \in ExecKinds => saved[c][CopyOrder[i]] # o
        BY <1>12, Constants DEF None, ExecKinds
      <4>3. Uses(c, i, o)' <=> obj[CopyOrder[i]][c] = o
        BY <1>2, <1>9, <4>2 DEF Uses
      <4>4. QED
        BY <3>1, <4>1, <4>3
    <3>2. CASE s # c
      <4>1. state'[s] = state[s]
        BY <1>9, <3>2
      <4>2. ASSUME NEW p \in Slots
            PROVE  (state'[p] = "linked" /\ child'[p] = s /\ copied'[p] >= i)
                     <=> (state[p] = "linked" /\ child[p] = s /\ copied[p] >= i)
        BY <1>5, <1>9, <1>12, <2>1, <3>2
      <4>3. QED
        BY <1>2, <4>1, <4>2 DEF Uses, Linked
    <3>3. QED
      BY <3>1, <3>2
  <2>3. QED
    BY <1>2, <2>2, SameChange
<1>16. Owned(t)'
  BY <1>1, <1>3 DEF Owned, Private
<1>17. Vfork'
  <2>1. VforkSemaphore /\ VforkParents
    BY DEF Inv, Vfork
  <2>2. Linked' = Linked \cup {c} /\ FreeSlots' = FreeSlots /\ c \notin Linked
    BY <1>5, <1>9 DEF Linked, FreeSlots
  <2>3. VforkParents'
    BY <1>2, <1>3, <1>5, <2>1, <2>2 DEF VforkParents
  <2>4. \A d \in PF_VFORK \cap Linked : opptr[d] # t /\ opptr[d] # c /\ opptr[d] \in Slots
    BY <1>3, <1>12, <2>1 DEF VforkSemaphore, VforkParents, Linked
  <2>5. ASSUME NEW s \in Linked', at'[s] = "vfork"
        PROVE  \/ vfork_sem'[s] = 1
               \/ /\ vfork_sem'[s] = 0 /\ child'[s] \in PF_VFORK' \cap Linked'
                  /\ opptr'[child'[s]] = s
    <3>1. CASE s = t
      BY <1>1, <1>2, <1>3, <1>5, <1>9, <2>2, <2>5, <3>1
    <3>2. CASE s # t
      <4>1. s \in Slots /\ s \in Linked /\ at[s] = "vfork"
        BY <1>3, <1>12, <2>2, <2>5, <3>2 DEF Linked
      <4>2. QED
        BY <1>2, <1>9, <2>1, <2>2, <3>2, <4>1 DEF VforkSemaphore
    <3>3. QED
      BY <3>1, <3>2
  <2>6. ASSUME NEW d \in PF_VFORK' \cap Linked'
        PROVE  at'[opptr'[d]] = "vfork" /\ child'[opptr'[d]] = d /\ vfork_sem'[opptr'[d]] = 0
    <3>1. CASE d = c
      BY <1>1, <1>2, <1>3, <1>5, <1>9, <3>1
    <3>2. CASE d # c
      <4>1. d \in PF_VFORK \cap Linked
        BY <1>2, <2>2, <3>2
      <4>2. QED
        BY <1>2, <1>3, <1>9, <2>1, <2>4, <4>1 DEF VforkSemaphore
    <3>3. QED
      BY <3>1, <3>2
  <2>7. QED
    BY <2>3, <2>5, <2>6 DEF Vfork, VforkSemaphore
<1>18. (user_count = Cardinality(Slots \ FreeSlots))'
  <2>1. FreeSlots' = FreeSlots
    BY <1>5, <1>9 DEF FreeSlots
  <2>2. QED
    BY <1>2, <2>1 DEF Inv
<1>19. state'[1] = "linked"
  BY <1>5, <1>9, Constants DEF Inv
<1>20. \A s \in Slots : Local(s)'
  BY <1>11, <1>13, <1>14
<1>21. QED
  BY <1>2, <1>3, <1>10, <1>15, <1>16, <1>17, <1>18, <1>19, <1>20, StepKeeps

\* A task gives back everything it points to, and its slot.
LEMMA ExitStep ==
  ASSUME Inv, NEW t \in Slots, Exit(t)
  PROVE  Inv'
<1> USE DEF objVars, taskVars, vforkVars, forkVars
<1>1. /\ t # 1 /\ Goto(t, "user", "user") /\ mm_release(t)
      /\ count' = [k \in Kinds |-> [count[k] EXCEPT ![obj[k][t]] = @ - 1]]
      /\ obj' = [k \in Kinds |-> [obj[k] EXCEPT ![t] = Nobody]]
      /\ state' = [state EXCEPT ![t] = "free"]
      /\ opptr' = [s \in Slots |-> IF s = t THEN Nobody ELSE IF opptr[s] = t THEN 1 ELSE opptr[s]]
      /\ user_count' = user_count - 1
      /\ UNCHANGED <<child, flags, copied, saved, mmap_sem>>
  BY DEF Exit
<1>2. /\ t \in Linked /\ state[t] = "linked" /\ at[t] = "user" /\ at'[t] = "user"
      /\ at' = [at EXCEPT ![t] = "user"]
      /\ \A s \in Slots : s # t => at'[s] = at[s]
      /\ TypeOK /\ Tidy(t) /\ Child(t) /\ Flushing(t)
      /\ \A k \in Kinds : obj[k][t] \in Objects
  BY <1>1, MoverIs
<1>3. child[t] = Nobody /\ copied[t] = 0 /\ saved[t] = None
  BY <1>2 DEF Tidy, Building, Executes
<1>4. /\ vfork_sem' \in [Slots -> Nat] /\ PF_VFORK' \subseteq Slots
      /\ PF_VFORK' = PF_VFORK \ {t}
      /\ \A s \in Slots :
           /\ at[s] # "vfork" => vfork_sem'[s] = vfork_sem[s]
           /\ Building(s) => (child[s] \in PF_VFORK' <=> child[s] \in PF_VFORK)
           /\ at[s] = "vfork" /\ state[s] = "linked" =>
                \/ vfork_sem'[s] = 1
                \/ /\ vfork_sem'[s] = 0 /\ child[s] \in PF_VFORK' \cap Linked
                   /\ opptr[child[s]] = s
      /\ \A c \in PF_VFORK' \cap Linked :
           /\ opptr[c] \in Linked /\ at[opptr[c]] = "vfork" /\ child[opptr[c]] = c
           /\ vfork_sem'[opptr[c]] = 0
  BY <1>1, <1>2, MmRelease
<1>5. /\ state' \in [Slots -> {"free", "building", "linked"}] /\ state'[t] = "free"
      /\ \A s \in Slots : s # t => state'[s] = state[s]
      /\ opptr' \in [Slots -> Slots \cup {Nobody}]
      /\ \A s \in Slots : s # t /\ opptr[s] # t => opptr'[s] = opptr[s]
  BY <1>1, <1>2, Constants DEF TypeOK
<1>6. /\ obj' \in [Kinds -> [Slots -> Objects \cup {Nobody}]]
      /\ \A s \in Slots : s # t => \A k \in Kinds : obj'[k][s] = obj[k][s]
  BY <1>1, <1>2 DEF TypeOK
<1>7. \A k \in Kinds : count[k][obj[k][t]] \in Nat /\ count[k][obj[k][t]] >= 1
  BY <1>2, HeldPositive
<1>8. /\ count' \in [Kinds -> [Objects -> Nat]]
      /\ \A k \in Kinds : \A o \in Objects :
           count'[k][o] = IF o = obj[k][t] THEN count[k][o] - 1 ELSE count[k][o]
  BY <1>1, <1>2, <1>7 DEF TypeOK
<1>9. (user_count = Cardinality(Slots \ FreeSlots))' /\ user_count' \in Nat
  <2>1. Slots \ FreeSlots' = (Slots \ FreeSlots) \ {t}
    BY <1>2, <1>5 DEF FreeSlots
  <2>2. QED
    BY <1>1, <1>2, <2>1, SlotTaken
<1>10. TypeOK'
  <2>1. at' \in [Slots -> Places]
    BY <1>2 DEF TypeOK, Places
  <2>2. QED
    BY <1>1, <1>2, <1>4, <1>5, <1>6, <1>8, <1>9, <2>1 DEF TypeOK
<1>11. ASSUME NEW s \in Slots, s # t PROVE Local(s)'
  <2>1. Local(s)
    BY DEF Inv
  <2>2. Building(s) => child[s] \in Slots /\ child[s] # t /\ opptr[child[s]] = s
    BY <1>2, <2>1 DEF Local, Child
  <2>3. Building(s) \/ at[s] = "fork" => vfork_sem'[s] = vfork_sem[s]
    BY <1>4 DEF Building
  <2>4. QED
    BY <1>1, <1>2, <1>4, <1>5, <1>6, <1>11, <2>1, <2>2, <2>3, LocalFrame
<1>12. Local(t)'
  <2>1. Tidy(t)'
    BY <1>1, <1>2, <1>3, <1>5 DEF Tidy, Building, Executes
  <2>2. Child(t)'
    BY <1>2 DEF Child, Building
  <2>3. Flushing(t)'
    BY <1>2 DEF Flushing, Executes
  <2>4. QED
    BY <2>1, <2>2, <2>3 DEF Local
<1>13. ASSUME NEW i \in Orders, NEW o \in Objects PROVE Change(t, i, o)
  <2>1. i \in Nat /\ i >= 1 /\ CopyOrder[i] \in Kinds
    BY Constants
  <2>2. ASSUME NEW s \in Slots, s # t PROVE Uses(s, i, o)' <=> Uses(s, i, o)
    <3>1. state'[s] = state[s] /\ obj'[CopyOrder[i]][s] = obj[CopyOrder[i]][s]
      BY <1>5, <1>6, <2>1, <2>2
    <3>2. ASSUME NEW p \in Slots
          PROVE  (state'[p] = "linked" /\ child'[p] = s /\ copied'[p] >= i)
                   <=> (state[p] = "linked" /\ child[p] = s /\ copied[p] >= i)
      BY <1>1, <1>3, <1>5, <2>1
    <3>3. QED
      BY <1>1, <3>1, <3>2 DEF Uses, Linked
  <2>3. CopyOrder[i] \in ExecKinds => saved[t][CopyOrder[i]] # o
    BY <1>3, Constants DEF None, ExecKinds
  <2>4. ~Uses(t, i, o)' /\ (Uses(t, i, o) <=> obj[CopyOrder[i]][t] = o)
    BY <1>2, <1>5, <2>3 DEF Uses
  <2>5. CASE obj[CopyOrder[i]][t] = o
    <3>1. count'[CopyOrder[i]][o] = count[CopyOrder[i]][o] - 1
      BY <1>8, <2>1, <2>5
    <3>2. QED
      BY <2>2, <2>4, <2>5, <3>1, RemoveChange
  <2>6. CASE obj[CopyOrder[i]][t] # o
    <3>1. count'[CopyOrder[i]][o] = count[CopyOrder[i]][o]
      BY <1>8, <2>1, <2>6
    <3>2. \A s \in Slots : Uses(s, i, o)' <=> Uses(s, i, o)
      BY <2>2, <2>4, <2>6
    <3>3. QED
      BY <3>1, <3>2, SameChange
  <2>7. QED
    BY <2>5, <2>6
<1>14. Owned(t)'
  BY <1>2 DEF Owned, Private
<1>15. Vfork'
  <2>1. VforkParents
    BY DEF Inv, Vfork
  <2>2. Linked' = Linked \ {t} /\ FreeSlots' = FreeSlots \cup {t}
    BY <1>2, <1>5 DEF Linked, FreeSlots
  <2>3. ASSUME NEW c \in PF_VFORK' \cap Linked'
        PROVE  /\ c \in PF_VFORK' \cap Linked /\ opptr[c] # t /\ opptr'[c] = opptr[c]
               /\ opptr[c] \in Slots /\ opptr[c] \in Linked'
    BY <1>2, <1>4, <1>5, <2>2 DEF Linked
  <2>4. VforkParents'
    BY <1>4, <2>1, <2>2, <2>3 DEF VforkParents
  <2>5. ASSUME NEW s \in Linked', at'[s] = "vfork"
        PROVE  \/ vfork_sem'[s] = 1
               \/ /\ vfork_sem'[s] = 0 /\ child'[s] \in PF_VFORK' \cap Linked'
                  /\ opptr'[child'[s]] = s
    <3>1. s \in Slots /\ s # t /\ state[s] = "linked" /\ at[s] = "vfork" /\ child'[s] = child[s]
      BY <1>1, <1>2, <2>2, <2>5 DEF Linked
    <3>2. child[s] \in PF_VFORK' \cap Linked => child[s] \in Slots /\ child[s] # t
      BY <1>4
    <3>3. QED
      BY <1>4, <1>5, <2>2, <3>1, <3>2
  <2>6. ASSUME NEW c \in PF_VFORK' \cap Linked'
        PROVE  at'[opptr'[c]] = "vfork" /\ child'[opptr'[c]] = c /\ vfork_sem'[opptr'[c]] = 0
    <3>1. PICK p \in Slots : p = opptr[c] /\ p = opptr'[c] /\ p # t
      BY <2>3, <2>6
    <3>2. at[p] = "vfork" /\ child[p] = c /\ vfork_sem'[p] = 0
      BY <1>4, <2>3, <3>1
    <3>3. QED
      BY <1>1, <1>2, <3>1, <3>2
  <2>7. QED
    BY <2>4, <2>5, <2>6 DEF Vfork, VforkSemaphore
<1>16. state'[1] = "linked"
  BY <1>1, <1>5, Constants DEF Inv
<1>17. \A s \in Slots : Local(s)'
  BY <1>11, <1>12
<1>18. QED
  BY <1>2, <1>6, <1>9, <1>10, <1>13, <1>14, <1>15, <1>16, <1>17, StepKeeps

-------------------------------------------------------------------------------
(* The theorems *)

LEMMA InitInv == Init => Inv
<1> SUFFICES ASSUME Init PROVE Inv
  OBVIOUS
<1> USE Constants DEF Init
<1>1. TypeOK
  <2>1. state \in [Slots -> {"free", "building", "linked"}] /\ at \in [Slots -> Places]
    BY DEF Places
  <2>2. /\ child \in [Slots -> Slots \cup {Nobody}] /\ opptr \in [Slots -> Slots \cup {Nobody}]
        /\ flags \in [Slots -> SUBSET (Kinds \cup {"vfork"})]
        /\ copied \in [Slots -> 0 .. Len(CopyOrder)]
    OBVIOUS
  <2>3. /\ obj \in [Kinds -> [Slots -> Objects \cup {Nobody}]]
        /\ count \in [Kinds -> [Objects -> Nat]]
    OBVIOUS
  <2>4. saved \in [Slots -> [ExecKinds -> Objects \cup {Nobody}]]
    BY DEF None, ExecKinds
  <2>5. mmap_sem \subseteq Objects /\ vfork_sem \in [Slots -> Nat] /\ PF_VFORK \subseteq Slots
        /\ user_count \in Nat
    OBVIOUS
  <2>6. QED
    BY <2>1, <2>2, <2>3, <2>4, <2>5 DEF TypeOK
<1>2. ASSUME NEW t \in Slots PROVE Local(t) /\ Owned(t)
  <2>1. at[t] = "user" /\ child[t] = Nobody /\ copied[t] = 0 /\ saved[t] = None
    OBVIOUS
  <2>2. state[t] = "linked" => \A k \in Kinds : obj[k][t] \in Objects
    OBVIOUS
  <2>3. QED
    BY <2>1, <2>2 DEF Local, Tidy, Child, Flushing, Owned, Private, Building, Executes
<1>3. Slots \ FreeSlots = {1} /\ Linked = {1}
  BY DEF FreeSlots, Linked
<1>4. Cardinality({1}) = 1
  BY FS_Singleton
<1>5. ASSUME NEW i \in Orders, NEW o \in Objects PROVE Counted(i, o)
  <2>1. CopyOrder[i] \in Kinds
    OBVIOUS
  <2>2. CopyOrder[i] \in ExecKinds => saved[1][CopyOrder[i]] # o
    BY DEF None, ExecKinds
  <2>3. \A s \in Slots : Uses(s, i, o) <=> s = 1 /\ o = 1
    BY <2>1, <2>2 DEF Uses
  <2>4. Users(i, o) = IF o = 1 THEN {1} ELSE {}
    BY <2>3 DEF Users
  <2>5. Cardinality({}) = 0
    BY FS_EmptySet
  <2>6. QED
    BY <1>4, <2>1, <2>4, <2>5 DEF Counted
<1>6. Vfork
  BY DEF Vfork, VforkParents, VforkSemaphore, Linked
<1>7. QED
  BY <1>1, <1>2, <1>3, <1>4, <1>5, <1>6 DEF Inv

LEMMA StepInv ==
  ASSUME Inv, [Next]_vars
  PROVE  Inv'
<1>1. ASSUME NEW t \in Forking, NEW fl \in CloneFlags, ForkStart(t, fl) PROVE Inv'
  BY <1>1, ForkStartStep, ProcessAssumption
<1>2. ASSUME NEW t \in Executing, ExecStart(t) PROVE Inv'
  BY <1>2, SavingSteps, ProcessAssumption
<1>3. ASSUME NEW t \in Slots, ForkDown(t) PROVE Inv'
  BY <1>3, ForkRefusedStep, ForkBeginStep DEF ForkDown
<1>4. ASSUME NEW t \in Slots, Fork(t) PROVE Inv'
  BY <1>4, CopySharedStep, CopyOwnStep, CopyPagesStep, FailSteps, GiveBackSteps,
     ForkUndoneStep, ForkDoneStep DEF Fork
<1>5. ASSUME NEW t \in Slots, VforkReturns(t) PROVE Inv'
  BY <1>5, VforkReturnsStep
<1>6. ASSUME NEW t \in Slots, Exec(t) PROVE Inv'
  BY <1>6, SigTestedStep, NewSigStep, SavingSteps, ExecDoneSteps, MmSharedStep, NewMmStep,
     NewMmFailsStep, TablesFailStep DEF Exec
<1>7. ASSUME NEW t \in Slots, Exit(t) PROVE Inv'
  BY <1>7, ExitStep
<1>8. CASE UNCHANGED vars
  <2>1. /\ UNCHANGED <<at, child, flags, copied, obj, count, saved, mmap_sem>>
        /\ UNCHANGED <<vfork_sem, PF_VFORK, state, opptr, user_count>>
    BY <1>8 DEF vars, forkVars, objVars, vforkVars, taskVars
  <2>2. TypeOK' = TypeOK /\ Linked' = Linked /\ FreeSlots' = FreeSlots
    BY <2>1 DEF TypeOK, Linked, FreeSlots
  <2>3. \A t \in Slots : Local(t)' = Local(t)
    BY <2>1 DEF Local, Tidy, Child, Flushing, Building, Executes
  <2>4. \A i, o : Users(i, o)' = Users(i, o)
    BY <2>1, <2>2 DEF Users, Uses
  <2>5. \A i, o : Counted(i, o)' = Counted(i, o)
    BY <2>1, <2>4 DEF Counted
  <2>6. \A t \in Slots : Owned(t)' = Owned(t)
    BY <2>1, <2>4 DEF Owned, Private, Alone
  <2>7. Vfork' = Vfork
    BY <2>1, <2>2 DEF Vfork, VforkParents, VforkSemaphore
  <2>8. QED
    BY <2>1, <2>2, <2>3, <2>5, <2>6, <2>7 DEF Inv
<1>9. QED
  BY <1>1, <1>2, <1>3, <1>4, <1>5, <1>6, <1>7, <1>8 DEF Next

\* Whichever steps of do_fork and flush_old_exec succeed or fail, the counts
\* are those of the users, and everybody inside a call has what the call needs.
THEOREM Invariance == Spec => []Inv
<1>1. Init => Inv
  BY InitInv
<1>2. Inv /\ [Next]_vars => Inv'
  BY StepInv
<1>3. QED
  BY <1>1, <1>2, PTL DEF Spec

\* A use count is the number of those who will release the object, in the
\* error exits of do_fork (bad_fork_cleanup_mm and the labels after it) and of
\* flush_old_exec (fail_restore, mmap_failed) too: nothing is freed in use,
\* nothing leaks, and the user's count is the number of tasks.
THEOREM CountsAreHoldersHolds == Spec => []CountsAreHolders
<1>1. Inv => CountsAreHolders
  <2> SUFFICES ASSUME Inv PROVE CountsAreHolders
    OBVIOUS
  <2>1. ASSUME NEW i \in 1 .. Len(CopyOrder), NEW o \in Objects
        PROVE  count[CopyOrder[i]][o]
                 = Cardinality(Holds(CopyOrder[i], i, o)) + Cardinality(Saves(CopyOrder[i], o))
    <3> DEFINE H == Holds(CopyOrder[i], i, o)
               S == Saves(CopyOrder[i], o)
    <3>1. H \cup S = Users(i, o)
      BY DEF Holds, Saves, Users, Uses, ExecKinds, Linked
    <3>2. H \cap S = {}
      BY DEF Holds, Saves, Linked
    <3>3. IsFiniteSet(Users(i, o))
      BY UsersFinite
    <3>4. IsFiniteSet(H) /\ IsFiniteSet(S)
      BY <3>1, <3>3, FS_Subset
    <3>5. Cardinality(H \cup S) = Cardinality(H) + Cardinality(S) - Cardinality(H \cap S)
      BY <3>4, FS_Union
    <3>6. Cardinality(H \cap S) = 0
      BY <3>2, FS_EmptySet
    <3>7. Cardinality(H) \in Nat /\ Cardinality(S) \in Nat
      BY <3>4, FS_CardinalityType
    <3>8. Counted(i, o)
      BY DEF Inv, Orders
    <3>9. Cardinality(Users(i, o)) = Cardinality(H) + Cardinality(S)
      <4>1. PICK h \in Nat, a \in Nat : h = Cardinality(H) /\ a = Cardinality(S)
        BY <3>7
      <4>2. Cardinality(Users(i, o)) = h + a - 0
        BY <3>1, <3>5, <3>6, <4>1
      <4>3. h + a - 0 = h + a
        BY <4>1
      <4>4. QED
        BY <4>1, <4>2, <4>3
    <3>10. QED
      BY <3>8, <3>9 DEF Counted
  <2>2. QED
    BY <2>1 DEF CountsAreHolders, Inv
<1>2. QED
  BY <1>1, Invariance, PTL

\* mm_release raises a semaphore only while its owner is inside do_fork, and a
\* parent that waits there with the semaphore at 0 has a child that will.
THEOREM VforkSemaphoreHolds == Spec => []VforkSemaphore
<1>1. Inv => VforkSemaphore
  BY DEF Inv, Vfork
<1>2. QED
  BY <1>1, Invariance, PTL

\* An object with use count 1 belongs to the task that points to it.
LEMMA CountOneAlone ==
  ASSUME Inv, NEW t \in Slots, state[t] = "linked", NEW k \in Kinds, count[k][obj[k][t]] = 1,
         NEW s \in Linked \ {t}
  PROVE  obj[k][s] # obj[k][t]
<1>1. PICK i \in Orders : CopyOrder[i] = k
  BY Constants
<1>2. PICK o \in Objects : o = obj[k][t]
  BY InvParts
<1>3. t \in Users(i, o) /\ Counted(i, o)
  BY <1>1, <1>2 DEF Users, Uses, Inv
<1>4. Users(i, o) = {t}
  BY <1>1, <1>2, <1>3, UsersFinite DEF Counted
<1>5. obj[k][s] = o => s \in Users(i, o)
  BY <1>1 DEF Users, Uses, Linked
<1>6. QED
  BY <1>2, <1>4, <1>5

\* A task comes out of flush_old_exec in one of its own steps.
LEMMA ExecStepIs ==
  ASSUME Inv, Next, NEW t \in Slots, at[t] \in {"new_sig", "mm", "new_mm", "tables"},
         at'[t] = "user"
  PROVE  NewSigFails(t) \/ NewMmFails(t) \/ MmOwned(t) \/ TablesFail(t) \/ TablesDone(t)
<1> DEFINE Comes == NewSigFails(t) \/ NewMmFails(t) \/ MmOwned(t) \/ TablesFail(t) \/ TablesDone(t)
<1>1. ASSUME NEW u \in Slots, NEW from, NEW to, Goto(u, from, to)
      PROVE  u = t /\ at[t] = from /\ to = "user"
  <2>1. at \in [Slots -> Places]
    BY DEF Inv, TypeOK
  <2>2. QED
    BY <1>1, <2>1 DEF Goto
<1>2. ASSUME NEW u \in Forking, NEW fl \in CloneFlags, ForkStart(u, fl) PROVE Comes
  BY <1>1, <1>2, ProcessAssumption DEF ForkStart
<1>3. ASSUME NEW u \in Executing, ExecStart(u) PROVE Comes
  BY <1>1, <1>3, ProcessAssumption DEF ExecStart
<1>4. ASSUME NEW u \in Slots, ForkDown(u) PROVE Comes
  BY <1>1, <1>4 DEF ForkDown, ForkRefused, ForkBegin
<1>5. ASSUME NEW u \in Slots, Fork(u) PROVE Comes
  BY <1>1, <1>5 DEF Fork, CopyShared, CopyOwn, CopyPages, CopyFails, PagesFail, ThreadFails,
                    UndoKind, ForkUndone, ForkDone
<1>6. ASSUME NEW u \in Slots, VforkReturns(u) \/ Exit(u) PROVE Comes
  BY <1>1, <1>6 DEF VforkReturns, Exit
<1>7. ASSUME NEW u \in Slots, Exec(u) PROVE Comes
  <2>1. ASSUME SigTested(u) \/ NewSig(u) \/ MmShared(u) \/ NewMm(u) PROVE FALSE
    BY <1>1, <2>1 DEF SigTested, NewSig, MmShared, NewMm
  <2>2. ASSUME NewSigFails(u) \/ NewMmFails(u) \/ MmOwned(u) \/ TablesFail(u) \/ TablesDone(u)
        PROVE  u = t
    BY <1>1, <2>2 DEF NewSigFails, NewMmFails, MmOwned, TablesFail, TablesDone
  <2>3. QED
    BY <1>7, <2>1, <2>2 DEF Exec
<1>8. QED
  BY <1>2, <1>3, <1>4, <1>5, <1>6, <1>7 DEF Next

\* Has its old signals and memory back, or has both to itself.
HasOld(t) == \A k \in ExecKinds : obj'[k][t] = saved[t][k]
HasOwn(t) == \A k \in ExecKinds :
               count'[k][obj'[k][t]] = 1 /\ \A s \in Linked \ {t} : obj'[k][s] # obj'[k][t]

LEMMA ExecFails ==
  ASSUME Inv, NEW t \in Slots, NewSigFails(t) \/ NewMmFails(t) \/ TablesFail(t)
  PROVE  HasOld(t)
<1> USE DEF objVars, HasOld, ExecKinds
<1>1. TypeOK /\ Flushing(t) /\ "sig" \in Kinds /\ "mm" \in Kinds
  BY InvParts, Constants
<1>2. CASE NewSigFails(t)
  BY <1>1, <1>2 DEF NewSigFails, Goto, Flushing, Executes
<1>3. CASE NewMmFails(t)
  <2>1. at[t] = "new_mm" /\ obj' = [obj EXCEPT !["sig"][t] = saved[t].sig]
    BY <1>3 DEF NewMmFails, Goto, Point
  <2>2. saved[t]["mm"] = obj["mm"][t]
    BY <1>1, <2>1 DEF Flushing, Executes
  <2>3. obj'["sig"][t] = saved[t]["sig"] /\ obj'["mm"][t] = obj["mm"][t]
    BY <1>1, <2>1 DEF TypeOK
  <2>4. QED
    BY <2>2, <2>3
<1>4. CASE TablesFail(t)
  <2>1. obj' = [obj EXCEPT !["mm"][t] = saved[t].mm, !["sig"][t] = saved[t].sig]
    BY <1>4 DEF TablesFail
  <2>2. QED
    BY <1>1, <2>1 DEF TypeOK
<1>5. QED
  BY <1>2, <1>3, <1>4

LEMMA ExecSucceeds ==
  ASSUME Inv, NEW t \in Slots, MmOwned(t) \/ TablesDone(t)
  PROVE  HasOwn(t)
<1> USE DEF objVars
<1>1. at[t] \in {"mm", "tables"} /\ (at[t] = "mm" => count["mm"][obj["mm"][t]] = 1) /\ obj' = obj
  BY DEF MmOwned, TablesDone, Goto, Held
<1>2. /\ state[t] = "linked" /\ TypeOK /\ "sig" \in Kinds /\ "mm" \in Kinds
      /\ obj["sig"][t] \in Objects /\ obj["mm"][t] \in Objects
      /\ saved[t]["sig"] \in Objects /\ saved[t]["mm"] \in Objects
      /\ at[t] = "tables" <=> saved[t]["mm"] # obj["mm"][t]
      /\ count["sig"][obj["sig"][t]] = 1 /\ count["mm"][obj["mm"][t]] = 1
  BY <1>1, ExecHas
<1>3. PICK c \in [Kinds -> [Objects -> Int]] :
        /\ count' = OldSigReleased(t, c)
        /\ c["sig"] = count["sig"] /\ c["mm"][obj["mm"][t]] = count["mm"][obj["mm"][t]]
  <2>1. CASE MmOwned(t)
    BY <1>2, <2>1 DEF MmOwned, TypeOK
  <2>2. CASE TablesDone(t)
    <3>1. PICK c : c = [count EXCEPT !["mm"][saved[t]["mm"]] = @ - 1]
      OBVIOUS
    <3>2. count' = OldSigReleased(t, c) /\ at[t] = "tables"
      BY <2>2, <3>1 DEF TablesDone, Goto
    <3>3. c \in [Kinds -> [Objects -> Int]]
      BY <1>2, <3>1 DEF TypeOK
    <3>4. c["sig"] = count["sig"] /\ c["mm"][obj["mm"][t]] = count["mm"][obj["mm"][t]]
      BY <1>2, <3>1, <3>2 DEF TypeOK
    <3>5. QED
      BY <3>2, <3>3, <3>4
  <2>3. QED
    BY <2>1, <2>2
<1>4. count'["sig"][obj["sig"][t]] = 1 /\ count'["mm"][obj["mm"][t]] = 1
  BY <1>2, <1>3 DEF OldSigReleased
<1>5. ASSUME NEW k \in ExecKinds, NEW s \in Linked \ {t} PROVE obj[k][s] # obj[k][t]
  <2>1. k \in Kinds /\ count[k][obj[k][t]] = 1
    BY <1>2 DEF ExecKinds
  <2>2. QED
    BY <1>2, <2>1, CountOneAlone
<1>6. QED
  BY <1>1, <1>4, <1>5 DEF HasOwn, ExecKinds

\* flush_old_exec leaves a task with signals and memory nobody else uses, or
\* with what it had before (fail_restore, mmap_failed).
THEOREM ExecAllOrNothingHolds == Spec => ExecAllOrNothing
<1> DEFINE A == \A t \in Linked :
       at[t] \in {"new_sig", "mm", "new_mm", "tables"} /\ at'[t] = "user" =>
         \/ \A k \in {"sig", "mm"} : obj'[k][t] = saved[t][k]
         \/ \A k \in {"sig", "mm"} :
              count'[k][obj'[k][t]] = 1 /\ \A s \in Linked \ {t} : obj'[k][s] # obj'[k][t]
<1>1. Inv /\ [Next]_vars => [A]_vars
  <2> SUFFICES ASSUME Inv, Next PROVE A
    OBVIOUS
  <2>1. ASSUME NEW t \in Linked, at[t] \in {"new_sig", "mm", "new_mm", "tables"}, at'[t] = "user"
        PROVE  HasOld(t) \/ HasOwn(t)
    <3>1. t \in Slots
      BY DEF Linked
    <3>2. QED
      BY <2>1, <3>1, ExecStepIs, ExecFails, ExecSucceeds
  <2>2. QED
    BY <2>1 DEF HasOld, HasOwn, ExecKinds
<1>2. QED
  BY <1>1, Invariance, PTL DEF Spec, ExecAllOrNothing
===============================================================================
