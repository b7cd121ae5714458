------------------------------- MODULE Directory -------------------------------
(***************************************************************************)
(* What the capability and system information database promises to the     *)
(* threads of the csd: a hierarchical directory of keys, some of which     *)
(* have a value, whose operations take effect at one instant.  Csdb shows  *)
(* that the tree of csdb.c implements it, the listing of a key apart,      *)
(* which takes no lock and about which nothing is promised here.           *)
(*                                                                         *)
(* A key is the sequence of its parts: .alive.defiant is                   *)
(* <<"alive", "defiant">> and the root key "." is the empty sequence.  A   *)
(* value is the sequence of its blank-separated words.                     *)
(***************************************************************************)
EXTENDS Sequences, Naturals

CONSTANTS Threads,   \* threads that use the database
          Calls,     \* calls they make: an operation, a key and a word
          NoCall,    \* a thread that is in no call
          NoValue    \* "value" of a key that is not a leaf

VARIABLES dir,       \* value of every key that exists
          call,      \* the call a thread is in
          answer     \* what its last call returned

dirVars == <<dir, call, answer>>

Prefixes(p) == {SubSeq(p, 1, i) : i \in 0 .. Len(p)}

\* A leaf has a value; it may have keys below it all the same.
IsLeaf(p) == p \in DOMAIN dir /\ dir[p] # NoValue

DInit ==
  /\ dir = [p \in {<<>>} |-> NoValue]
  /\ call = [t \in Threads |-> NoCall]
  /\ answer = [t \in Threads |-> <<"none">>]

\* A thread calls an operation.
DCall(t, c) ==
  /\ call[t] = NoCall
  /\ call' = [call EXCEPT ![t] = c]
  /\ answer' = [answer EXCEPT ![t] = <<"none">>]
  /\ UNCHANGED dir

\* The call of a thread returns v; its effect takes place at this instant.
DReturn(t, op, v) ==
  /\ call[t].op = op
  /\ call' = [call EXCEPT ![t] = NoCall]
  /\ answer' = [answer EXCEPT ![t] = v]

\* Setting a key creates the keys above it.
DSet(t) ==
  LET p == call[t].path
  IN  /\ DReturn(t, "set", <<"ok">>)
      /\ dir' = [q \in DOMAIN dir \cup Prefixes(p) |->
                   IF q = p THEN <<call[t].word>>
                   ELSE IF q \in DOMAIN dir THEN dir[q] ELSE NoValue]

DAppend(t) ==
  LET p == call[t].path
  IN  \/ /\ IsLeaf(p)
         /\ DReturn(t, "append", <<"ok">>)
         /\ dir' = [dir EXCEPT ![p] = Append(@, call[t].word)]
      \/ /\ ~IsLeaf(p)
         /\ DReturn(t, "append", <<"error">>)
         /\ UNCHANGED dir

DGet(t) ==
  LET p == call[t].path
  IN  /\ DReturn(t, "get", IF p \notin DOMAIN dir THEN <<"invalid key">>
                           ELSE IF IsLeaf(p) THEN <<"value", dir[p]>> ELSE <<"no leaf">>)
      /\ UNCHANGED dir

DExist(t) ==
  /\ DReturn(t, "exist", <<"exists", call[t].path \in DOMAIN dir>>)
  /\ UNCHANGED dir

\* Removing a key removes the keys below it.
DRemove(t) ==
  LET p == call[t].path
  IN  \/ /\ p \in DOMAIN dir
         /\ DReturn(t, "remove", <<"ok">>)
         /\ dir' = [q \in {q \in DOMAIN dir : p \notin Prefixes(q)} |-> dir[q]]
      \/ /\ p \notin DOMAIN dir
         /\ DReturn(t, "remove", <<"error">>)
         /\ UNCHANGED dir

\* The root cannot be removed.
DRemoveRoot(t) ==
  /\ call[t] = NoCall
  /\ answer' = [answer EXCEPT ![t] = <<"error">>]
  /\ UNCHANGED <<dir, call>>

\* A listing returns names; which ones is left open.
DList(t) ==
  /\ call[t] = NoCall
  /\ answer' = [answer EXCEPT ![t] = <<"none">>]
  /\ UNCHANGED <<dir, call>>

\* A dump lists the leaves below a key, not the key itself.
DDump(t) ==
  LET p == call[t].path
  IN  /\ DReturn(t, "dump", <<"leaves", {<<q, dir[q]>> : q \in {q \in DOMAIN dir :
                                          IsLeaf(q) /\ q # p /\ p \in Prefixes(q)}}>>)
      /\ UNCHANGED dir

DNext ==
  \E t \in Threads :
    \/ \E c \in Calls : DCall(t, c)
    \/ DSet(t) \/ DAppend(t) \/ DGet(t) \/ DExist(t)
    \/ DRemove(t) \/ DRemoveRoot(t) \/ DDump(t) \/ DList(t)

DSpec == DInit /\ [][DNext]_dirVars
===============================================================================
