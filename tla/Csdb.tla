---------------------------------- MODULE Csdb ----------------------------------
(***************************************************************************)
(* The database of the csd (src/src/csd/csdb.c, built with the linear      *)
(* search): a tree of entries whose children form a doubly linked list,    *)
(* most recent first, under one mutex.  Every function takes the mutex,    *)
(* walks down the tree along the parts of the key, does its work and       *)
(* releases the mutex, with two exceptions: a lookup that fails returns    *)
(* with the mutex locked, and csdb_get_child_names_for_key takes no lock.  *)
(* Every comparison of a name is a step, so that a listing runs beside the *)
(* operations that change the tree; what a function does at the end of its *)
(* walk, with the mutex held, is one step.                                 *)
(*                                                                         *)
(* An entry is a leaf exactly if it has a value: is_leaf is set with the   *)
(* value, and no caller sets a null value.  The end of the process (a      *)
(* segmentation fault) is the variable crashed.                            *)
(***************************************************************************)
EXTENDS Sequences, Naturals, FiniteSets

CONSTANTS
  Threads,    \* threads that use the database
  Entries,    \* memory for struct csdbe
  Root,       \* csdb_root
  NULL,       \* the null pointer
  NoValue,    \* the null pointer as entry->value
  NoThread,   \* owner of the mutex while it is free
  Words,      \* words of which values are made
  Jobs,       \* functions each thread calls, with the key as its parts
  MaxWords    \* bound on the length of a value

ASSUME CsdbAssumption ==
  /\ NULL \notin Entries /\ Root \notin Entries /\ Root # NULL
  /\ NoThread \notin Threads
  /\ NoValue \notin Seq(Words)
  /\ \A t \in Threads : \A j \in Jobs[t] :
       /\ j.op \in {"set", "append", "get", "exist", "remove", "dump", "list"}
       /\ j.path \in Seq(STRING)
       /\ \A i \in 1 .. Len(j.path) : j.path[i] # NULL
  /\ MaxWords \in Nat \ {0}

VARIABLES
  name, value, childs, parent, next, prev,   \* fields of struct csdbe
  alloc,      \* entries malloc has handed out and free has not taken
  mutex,      \* csdb_root_mutex
  crashed,
  pc,         \* where a thread is
  job,        \* the function it calls, with its arguments
  rest,       \* parts of the key not yet found
  entry,      \* the entry found so far
  cur,        \* sear_ptr or sear_entry, the sibling looked at next
  count,      \* children a listing has counted, for which it has memory
  copied,     \* names it has copied
  answer,     \* what the last synchronised call returned
  lost,       \* history: entries unlinked and never freed
  fresh       \* history: entries made by a csdb_set_value_for_key under way

tree == <<name, value, childs, parent, next, prev, alloc, lost>>
locals == <<job, rest, entry, cur, count, copied>>
vars == <<tree, mutex, crashed, pc, locals, answer, fresh>>

All == Entries \cup {Root}
Linked == alloc \ lost
NoJob == [op |-> "none", path |-> <<>>, word |-> NULL]

Init ==
  /\ name = [e \in All |-> NULL]
  /\ value = [e \in All |-> NoValue]
  /\ childs = [e \in All |-> NULL]
  /\ parent = [e \in All |-> IF e = Root THEN Root ELSE NULL]
  /\ next = [e \in All |-> NULL]
  /\ prev = [e \in All |-> NULL]
  /\ alloc = {Root}
  /\ mutex = NoThread
  /\ crashed = FALSE
  /\ pc = [t \in Threads |-> "idle"]
  /\ job = [t \in Threads |-> NoJob]
  /\ rest = [t \in Threads |-> <<>>]
  /\ entry = [t \in Threads |-> NULL]
  /\ cur = [t \in Threads |-> NULL]
  /\ count = [t \in Threads |-> 0]
  /\ copied = [t \in Threads |-> 0]
  /\ answer = [t \in Threads |-> <<"none">>]
  /\ lost = {}
  /\ fresh = {}

-------------------------------------------------------------------------------
\* The entries below e are those in every set that has e and, with an entry, its
\* children; the key of an entry is made along the parent pointers.
Downward(S) == \A c \in Linked : parent[c] \in S => c \in S

Below(e) ==
  {c \in Linked \ {e} : \A S \in SUBSET Linked : e \in S /\ Downward(S) => c \in S}

Key(e) ==
  LET key[c \in Linked] ==
        IF c = Root THEN <<>> ELSE Append(key[parent[c]], name[c])
  IN  key[e]

IsLeaf(e) == e # NULL /\ value[e] # NoValue

Goto(t, from, to) ==
  /\ ~crashed
  /\ pc[t] = from
  /\ pc' = [pc EXCEPT ![t] = to]

Returns(t, v) == answer' = [answer EXCEPT ![t] = v]

\* The locals of a call end with it.
Leave(t) ==
  /\ rest' = [rest EXCEPT ![t] = <<>>]
  /\ entry' = [entry EXCEPT ![t] = NULL]
  /\ cur' = [cur EXCEPT ![t] = NULL]
  /\ count' = [count EXCEPT ![t] = 0]
  /\ copied' = [copied EXCEPT ![t] = 0]
  /\ job' = [job EXCEPT ![t] = NoJob]

Descend(t, e, parts) ==
  /\ entry' = [entry EXCEPT ![t] = e]
  /\ rest' = [rest EXCEPT ![t] = parts]
  /\ cur' = [cur EXCEPT ![t] = IF e = NULL THEN NULL ELSE childs[e]]
  /\ UNCHANGED <<job, count, copied>>

\* Bound on the values: no thread appends to a value that may become too long.
MayAppend ==
  \A e \in Linked :
    IsLeaf(e) =>
      Len(value[e])
        + Cardinality({u \in Threads : pc[u] # "idle" /\ job[u].op = "append"})
      < MaxWords

\* A thread calls a function of the database with a valid key.
Call(t, j, w) ==
  /\ Goto(t, "idle", "lock")
  /\ j.op # "list"
  /\ j.op = "append" => MayAppend
  /\ ~(j.op = "remove" /\ j.path = <<>>)
  /\ job' = [job EXCEPT ![t] =
               [op |-> j.op, path |-> j.path,
                word |-> IF j.op \in {"set", "append"} THEN w ELSE NULL]]
  /\ Returns(t, <<"none">>)
  /\ UNCHANGED <<tree, mutex, crashed, rest, entry, cur, count, copied, fresh>>

\* csdb_get_child_names_for_key starts its walk at once.
CallList(t, j) ==
  /\ Goto(t, "idle", "walk")
  /\ j.op = "list"
  /\ job' = [job EXCEPT ![t] = [op |-> "list", path |-> j.path, word |-> NULL]]
  /\ rest' = [rest EXCEPT ![t] = j.path]
  /\ entry' = [entry EXCEPT ![t] = Root]
  /\ cur' = [cur EXCEPT ![t] = childs[Root]]
  /\ Returns(t, <<"none">>)
  /\ UNCHANGED <<tree, mutex, crashed, count, copied, fresh>>

\* csdb_remove_from_key refuses the root key.
RemoveRoot(t, j) ==
  /\ Goto(t, "idle", "idle")
  /\ j.op = "remove" /\ j.path = <<>>
  /\ Returns(t, <<"error">>)
  /\ UNCHANGED <<tree, mutex, crashed, locals, fresh>>

Lock_Unguarded(t) ==
  /\ Goto(t, "lock", "walk")
  /\ mutex' = t
  /\ Descend(t, Root, job[t].path)
  /\ UNCHANGED <<tree, crashed, answer, fresh>>

Lock(t) ==
  /\ Goto(t, "lock", "walk")
  /\ mutex = NoThread
  /\ mutex' = t
  /\ Descend(t, Root, job[t].path)
  /\ UNCHANGED <<tree, crashed, answer, fresh>>

\* A call that has done its work releases the mutex and returns v.
Unlock(t, v) ==
  /\ Goto(t, "walk", "idle")
  /\ mutex' = NoThread
  /\ Returns(t, v)
  /\ Leave(t)
  /\ UNCHANGED crashed

-------------------------------------------------------------------------------
\* The entry a listing reads next has been freed since it got the pointer.
Astray(t) ==
  /\ job[t].op = "list" /\ pc[t] # "idle"
  /\ (IF pc[t] = "walk" /\ rest[t] = <<>> THEN entry[t] ELSE cur[t])
       \notin Linked \cup {NULL}

\* csdb_find_child compares the next part of the key with one child.
Hop(t) ==
  /\ Goto(t, "walk", "walk")
  /\ rest[t] # <<>> /\ cur[t] # NULL /\ ~Astray(t)
  /\ name[cur[t]] # Head(rest[t])
  /\ cur' = [cur EXCEPT ![t] = next[cur[t]]]
  /\ UNCHANGED <<tree, mutex, crashed, job, rest, entry, count, copied, answer,
                 fresh>>

Found(t) ==
  /\ Goto(t, "walk", "walk")
  /\ rest[t] # <<>> /\ cur[t] # NULL /\ ~Astray(t)
  /\ name[cur[t]] = Head(rest[t])
  /\ Descend(t, cur[t], Tail(rest[t]))
  /\ UNCHANGED <<tree, mutex, crashed, answer, fresh>>

NotFound(t) ==
  /\ Goto(t, "walk", "walk")
  /\ rest[t] # <<>> /\ cur[t] = NULL
  /\ job[t].op # "set"
  /\ Descend(t, NULL, <<>>)
  /\ UNCHANGED <<tree, mutex, crashed, answer, fresh>>

AppendChild_PrevKept(e, c, part) ==
  /\ name' = [name EXCEPT ![c] = part]
  /\ value' = [value EXCEPT ![c] = NoValue]
  /\ childs' = [childs EXCEPT ![c] = NULL, ![e] = c]
  /\ parent' = [parent EXCEPT ![c] = e]
  /\ next' = [next EXCEPT ![c] = childs[e]]
  /\ prev' = [prev EXCEPT ![c] = NULL]

\* csdb_append_child puts the new entry before the children there are.
AppendChild(e, c, part) ==
  /\ name' = [name EXCEPT ![c] = part]
  /\ value' = [value EXCEPT ![c] = NoValue]
  /\ childs' = [childs EXCEPT ![c] = NULL, ![e] = c]
  /\ parent' = [parent EXCEPT ![c] = e]
  /\ next' = [next EXCEPT ![c] = childs[e]]
  /\ prev' = [p \in All |-> IF p = c THEN NULL
                            ELSE IF p = childs[e] THEN c ELSE prev[p]]

\* csdb_set_value_for_key makes the parts of the key that do not exist.
Create(t) ==
  /\ Goto(t, "walk", "walk")
  /\ job[t].op = "set"
  /\ rest[t] # <<>> /\ cur[t] = NULL
  /\ \E c \in Entries \ alloc :
       /\ alloc' = alloc \cup {c}
       /\ AppendChild(entry[t], c, Head(rest[t]))
       /\ fresh' = fresh \cup {c}
       /\ entry' = [entry EXCEPT ![t] = c]
  /\ rest' = [rest EXCEPT ![t] = Tail(@)]
  /\ UNCHANGED <<mutex, crashed, job, cur, count, copied, answer, lost>>

\* The result of malloc is not checked.
CreateNoMem(t) ==
  /\ Goto(t, "walk", "walk")
  /\ job[t].op = "set"
  /\ rest[t] # <<>> /\ cur[t] = NULL
  /\ Entries \subseteq alloc
  /\ crashed' = TRUE
  /\ UNCHANGED <<tree, mutex, locals, answer, fresh>>

-------------------------------------------------------------------------------
\* What the functions do at the end of the walk, entry being NULL if the key
\* does not exist.
Walked(t, op) ==
  /\ pc[t] = "walk"
  /\ job[t].op = op
  /\ rest[t] = <<>>

SetValue(t) ==
  /\ Walked(t, "set")
  /\ value' = [value EXCEPT ![entry[t]] = <<job[t].word>>]
  /\ fresh' = {}
  /\ Unlock(t, <<"ok">>)
  /\ UNCHANGED <<name, childs, parent, next, prev, alloc, lost>>

AppendValue_Replaces(t) ==
  /\ Walked(t, "append")
  /\ \/ /\ IsLeaf(entry[t])
        /\ value' = [value EXCEPT ![entry[t]] = <<job[t].word>>]
        /\ Unlock(t, <<"ok">>)
     \/ /\ ~IsLeaf(entry[t])
        /\ Unlock(t, <<"error">>)
        /\ UNCHANGED value
  /\ UNCHANGED <<name, childs, parent, next, prev, alloc, lost, fresh>>

AppendValue(t) ==
  /\ Walked(t, "append")
  /\ \/ /\ IsLeaf(entry[t])
        /\ value' = [value EXCEPT ![entry[t]] = Append(@, job[t].word)]
        /\ Unlock(t, <<"ok">>)
     \/ /\ ~IsLeaf(entry[t])
        /\ Unlock(t, <<"error">>)
        /\ UNCHANGED value
  /\ UNCHANGED <<name, childs, parent, next, prev, alloc, lost, fresh>>

KeyExist(t) ==
  /\ Walked(t, "exist")
  /\ Unlock(t, <<"exists", entry[t] # NULL>>)
  /\ UNCHANGED <<tree, fresh>>

GetValue(t) ==
  /\ Walked(t, "get")
  /\ IsLeaf(entry[t])
  /\ Unlock(t, <<"value", value[entry[t]]>>)
  /\ UNCHANGED <<tree, fresh>>

\* The error returns of csdb_get_value_for_key pass by the unlock.
GetFails(t) ==
  /\ Walked(t, "get")
  /\ Goto(t, "walk", "idle")
  /\ \/ entry[t] = NULL /\ Returns(t, <<"invalid key">>)
     \/ entry[t] # NULL /\ ~IsLeaf(entry[t]) /\ Returns(t, <<"no leaf">>)
  /\ Leave(t)
  /\ UNCHANGED <<tree, mutex, crashed, fresh>>

Dump(t) ==
  /\ Walked(t, "dump")
  /\ Unlock(t, <<"leaves",
                 IF entry[t] = NULL THEN {}
                 ELSE {<<Key(e), value[e]>> :
                         e \in {e \in Below(entry[t]) : IsLeaf(e)}}>>)
  /\ UNCHANGED <<tree, fresh>>

RemoveMissing_KeepsMutex(t) ==
  /\ Walked(t, "remove")
  /\ Goto(t, "walk", "idle")
  /\ entry[t] = NULL
  /\ Returns(t, <<"error">>)
  /\ Leave(t)
  /\ UNCHANGED <<tree, mutex, crashed, fresh>>

RemoveMissing(t) ==
  /\ Walked(t, "remove")
  /\ entry[t] = NULL
  /\ Unlock(t, <<"error">>)
  /\ UNCHANGED <<tree, fresh>>

\* The entries of gone leave the tree; what freed memory holds is of no use to
\* anyone, and is forgotten.
Unlink(e, gone) ==
  /\ name' = [c \in All |-> IF c \in gone THEN NULL ELSE name[c]]
  /\ value' = [c \in All |-> IF c \in gone THEN NoValue ELSE value[c]]
  /\ parent' = [c \in All |-> IF c \in gone THEN NULL ELSE parent[c]]
  /\ childs' = [c \in All |->
                  IF c \in gone THEN NULL
                  ELSE IF c = parent[e] /\ prev[e] = NULL THEN next[e]
                  ELSE childs[c]]
  /\ next' = [c \in All |->
                IF c \in gone THEN NULL
                ELSE IF c = prev[e] THEN next[e] ELSE next[c]]
  /\ prev' = [c \in All |->
                IF c \in gone THEN NULL
                ELSE IF c = next[e] THEN prev[e] ELSE prev[c]]

\* __csdb_remove_from_entry frees a child when it has moved on to the next one,
\* and so never the last child of an entry.
RemoveEntry(t) ==
  /\ Walked(t, "remove")
  /\ entry[t] # NULL
  /\ LET e == entry[t]
         last == {c \in Below(e) : next[c] = NULL}
     IN  /\ alloc' = alloc \ ({e} \cup (Below(e) \ last))
         /\ lost' = lost \cup last
         /\ Unlink(e, {e} \cup Below(e))
  /\ Unlock(t, <<"ok">>)
  /\ UNCHANGED fresh

-------------------------------------------------------------------------------
\* The listing: it counts the children, gets memory for their names and copies
\* them, all without the mutex.
HasNames(e) == e # NULL /\ ~IsLeaf(e) /\ childs[e] # NULL

ListNone(t) ==
  /\ Walked(t, "list") /\ ~Astray(t)
  /\ ~HasNames(entry[t])
  /\ Goto(t, "walk", "idle")
  /\ Leave(t)
  /\ UNCHANGED <<tree, mutex, crashed, answer, fresh>>

ListStart(t) ==
  /\ Walked(t, "list") /\ ~Astray(t)
  /\ HasNames(entry[t])
  /\ Goto(t, "walk", "count")
  /\ entry' = [entry EXCEPT ![t] = childs[entry[t]]]
  /\ cur' = [cur EXCEPT ![t] = childs[entry[t]]]
  /\ UNCHANGED <<tree, mutex, crashed, job, rest, count, copied, answer, fresh>>

\* Bound: a listing that strays through freed entries counts at most all.
ListCount(t) ==
  /\ Goto(t, "count", "count")
  /\ cur[t] # NULL /\ ~Astray(t)
  /\ count[t] < Cardinality(Entries)
  /\ count' = [count EXCEPT ![t] = @ + 1]
  /\ cur' = [cur EXCEPT ![t] = next[cur[t]]]
  /\ UNCHANGED <<tree, mutex, crashed, job, rest, entry, copied, answer, fresh>>

ListAlloc(t) ==
  /\ Goto(t, "count", "copy")
  /\ cur[t] = NULL
  /\ cur' = [cur EXCEPT ![t] = entry[t]]
  /\ UNCHANGED <<tree, mutex, crashed, job, rest, entry, count, copied, answer,
                 fresh>>

ListCopy(t) ==
  /\ Goto(t, "copy", "copy")
  /\ cur[t] # NULL /\ ~Astray(t)
  /\ copied[t] < count[t]
  /\ copied' = [copied EXCEPT ![t] = @ + 1]
  /\ cur' = [cur EXCEPT ![t] = next[cur[t]]]
  /\ UNCHANGED <<tree, mutex, crashed, job, rest, entry, count, answer, fresh>>

\* A name more than were counted is written behind the allocated memory.
ListOverflow(t) ==
  /\ Goto(t, "copy", "copy")
  /\ cur[t] # NULL /\ ~Astray(t)
  /\ copied[t] = count[t]
  /\ crashed' = TRUE
  /\ UNCHANGED <<tree, mutex, locals, answer, fresh>>

ListReturn(t) ==
  /\ Goto(t, "copy", "idle")
  /\ cur[t] = NULL
  /\ Leave(t)
  /\ UNCHANGED <<tree, mutex, crashed, answer, fresh>>

\* What a listing does that reads an entry which has been freed is undefined:
\* the process ends, or the listing with names that are no longer there.
ListAstray(t) ==
  /\ Astray(t)
  /\ \/ /\ crashed' = TRUE
        /\ Goto(t, pc[t], pc[t])
        /\ UNCHANGED locals
     \/ /\ Goto(t, pc[t], "idle")
        /\ Leave(t)
        /\ UNCHANGED crashed
  /\ UNCHANGED <<tree, mutex, answer, fresh>>

-------------------------------------------------------------------------------
Listing(t) ==
  \/ ListNone(t) \/ ListStart(t) \/ ListCount(t) \/ ListAlloc(t) \/ ListCopy(t)
  \/ ListOverflow(t) \/ ListReturn(t) \/ ListAstray(t)

Walking(t) ==
  \/ Hop(t) \/ Found(t) \/ NotFound(t) \/ Create(t) \/ CreateNoMem(t)

Working(t) ==
  \/ SetValue(t) \/ AppendValue(t) \/ KeyExist(t) \/ GetValue(t) \/ GetFails(t)
  \/ Dump(t) \/ RemoveMissing(t) \/ RemoveEntry(t)

Calling(t) ==
  \E j \in Jobs[t] :
    (\E w \in Words : Call(t, j, w)) \/ CallList(t, j) \/ RemoveRoot(t, j)

Next ==
  \E t \in Threads :
    Calling(t) \/ Lock(t) \/ Walking(t) \/ Working(t) \/ Listing(t)

Spec == Init /\ [][Next]_vars

-------------------------------------------------------------------------------
\* The state is of its types: the type invariant.
DbTypeOK ==
  /\ alloc \subseteq All /\ Root \in alloc
  /\ lost \subseteq alloc \ {Root}
  /\ fresh \subseteq Linked \ {Root}
  /\ \A e \in All : value[e] = NoValue \/ Len(value[e]) \in 1 .. MaxWords
  /\ \A f \in {childs, parent, next, prev} : \A e \in All : f[e] \in All \cup {NULL}
  /\ mutex \in Threads \cup {NoThread}
  /\ crashed \in BOOLEAN
  /\ \A t \in Threads :
       /\ pc[t] \in {"idle", "lock", "walk", "count", "copy"}
       /\ entry[t] \in All \cup {NULL} /\ cur[t] \in Entries \cup {NULL}
       /\ copied[t] <= count[t]

\* The sibling lists of csdb.h: first and last child, both directions, one
\* parent; no two children of an entry have the same name.
SiblingsInv ==
  \A e \in Linked \ {Root} :
    /\ parent[e] \in Linked
    /\ prev[e] = NULL <=> childs[parent[e]] = e
    /\ prev[e] # NULL => prev[e] \in Linked /\ next[prev[e]] = e
    /\ next[e] # NULL =>
         next[e] \in Linked /\ prev[next[e]] = e /\ parent[next[e]] = parent[e]
    /\ childs[e] # NULL => childs[e] \in Linked /\ parent[childs[e]] = e
    /\ \A c \in Linked \ {Root, e} :
         name[c] = name[e] => parent[c] # parent[e]

\* Every entry in use can be reached from the root, so that no key is lost
\* and the walk down the tree always ends; what removal has given up is no
\* longer reachable from anywhere.
TreeInv ==
  /\ SiblingsInv
  /\ Linked \ {Root} = Below(Root)
  /\ \A e \in Linked : next[e] \notin lost /\ childs[e] \notin lost

\* A thread that holds the mutex never touches an entry that was freed or
\* given up, whatever the others do, listings included.
LockedReads ==
  \A t \in Threads :
    job[t].op # "list" /\ pc[t] = "walk" =>
      /\ mutex = t
      /\ entry[t] \in Linked \cup {NULL}
      /\ cur[t] \in Linked \cup {NULL}

\* A function returns with the mutex locked only where a lookup failed.
ReturnsUnlocked ==
  [][\A t \in Threads :
       pc[t] = "walk" /\ job[t].op # "list" /\ pc'[t] = "idle" =>
         mutex' = NoThread \/ answer'[t] \in {<<"invalid key">>, <<"no leaf">>}]_vars

\* The directory the tree stands for: the keys of its entries, without those
\* a csdb_set_value_for_key is just making.
TreeDir ==
  [p \in {Key(e) : e \in Linked \ fresh} |->
     value[CHOOSE e \in Linked \ fresh : Key(e) = p]]

\* A listing is no call of the directory.
TreeCalls == [t \in Threads |-> IF job[t].op = "list" THEN NoJob ELSE job[t]]

D == INSTANCE Directory
       WITH dir <- TreeDir,
            call <- TreeCalls,
            Calls <- UNION {{[op |-> j.op, path |-> j.path, word |-> w] :
                               j \in Jobs[t], w \in Words \cup {NULL}} : t \in Threads},
            NoCall <- NoJob

\* The tree of csdb.c implements the directory: each call has its effect on the
\* keys at one instant and returns what it would return of the directory.
ImplementsDirectory == D!DSpec

\* A listing never looks at an entry that has been freed.
ListingSynchronised ==
  \A t \in Threads : ~Astray(t)
===============================================================================
