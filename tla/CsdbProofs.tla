------------------------------- MODULE CsdbProofs -------------------------------
(***************************************************************************)
(* The tree of the csd's database, for any number of entries, threads,     *)
(* keys and values: it stays a tree, a thread that holds the mutex only    *)
(* meets entries of the tree, the mutex is released by every function but  *)
(* a lookup that failed, and the keys of the tree with their values are    *)
(* the directory of module Directory.                                      *)
(***************************************************************************)
EXTENDS Csdb, TLAPS, SequenceTheorems

-------------------------------------------------------------------------------
(* The invariant *)

Pointers == [All -> All \cup {NULL}]
Ops == {"none", "set", "append", "get", "exist", "remove", "dump", "list"}

TreeType ==
  /\ alloc \subseteq All /\ Root \in Linked /\ lost \subseteq alloc
  /\ childs \in Pointers /\ parent \in Pointers /\ next \in Pointers /\ prev \in Pointers
  /\ DOMAIN name = All

LocalsType ==
  /\ mutex \in Threads \cup {NoThread}
  /\ pc \in [Threads -> {"idle", "lock", "walk", "count", "copy"}]
  /\ DOMAIN job = Threads /\ DOMAIN entry = Threads /\ DOMAIN cur = Threads
  /\ DOMAIN answer = Threads
  /\ rest \in [Threads -> Seq(STRING)]
  /\ \A t \in Threads : job[t].op \in Ops /\ job[t].path \in Seq(STRING)

\* SiblingsInv speaks of the entries below the root; this is the root.
RootInv ==
  /\ parent[Root] = Root /\ next[Root] = NULL /\ prev[Root] = NULL
  /\ childs[Root] # NULL => childs[Root] \in Linked \ {Root} /\ parent[childs[Root]] = Root

\* The whole tree hangs from the root: a set that has the root and all children
\* of its entries has everything.
Hangs == \A S \in SUBSET Linked : Root \in S /\ Downward(S) => Linked \subseteq S

\* The children of an entry are one list: a set that has the first one and
\* whatever comes next has all of them.
Onward(S, end) == \A c \in S : next[c] \in S \cup {end}

OneList ==
  \A p \in Linked : \A S \in SUBSET Linked :
    childs[p] \in S \cup {NULL} /\ Onward(S, NULL) =>
      \A c \in Linked \ {Root} : parent[c] = p => c \in S

\* The children a thread has compared already, up to cur, are not the one it
\* looks for.
Seen(t, S) ==
  /\ S \subseteq Linked
  /\ childs[entry[t]] \in S \cup {cur[t]}
  /\ Onward(S, cur[t])
  /\ \A c \in S : name[c] # Head(rest[t])

\* A thread on its way down the tree with the mutex.
Walk(t) ==
  /\ mutex = t
  /\ entry[t] \in Linked \cup {NULL} /\ cur[t] \in (Linked \ {Root}) \cup {NULL}
  /\ rest[t] # <<>> => entry[t] # NULL /\ \E S : Seen(t, S)
  /\ job[t].op = "set" => entry[t] # NULL
  /\ job[t].op = "remove" /\ rest[t] = <<>> => entry[t] # Root

WalkInv ==
  \A t \in Threads :
    /\ job[t].op # "list" /\ pc[t] = "walk" => Walk(t)
    /\ job[t].op = "remove" /\ pc[t] = "lock" => job[t].path # <<>>
    /\ pc[t] = "lock" => job[t].op # "list"

DbInv == TreeType /\ LocalsType /\ SiblingsInv /\ RootInv /\ Hangs /\ OneList /\ WalkInv

LEMMA NullIs == NULL \notin All /\ Root \in All /\ Root \notin Entries /\ NoThread \notin Threads
BY CsdbAssumption DEF All

\* What SiblingsInv and RootInv say together, of any entry of the tree.
LEMMA LinksIn ==
  ASSUME TreeType, SiblingsInv, RootInv, NEW e \in Linked
  PROVE  /\ parent[e] \in Linked
         /\ next[e] \in (Linked \ {Root}) \cup {NULL} /\ prev[e] \in (Linked \ {Root}) \cup {NULL}
         /\ childs[e] \in (Linked \ {Root}) \cup {NULL}
         /\ next[e] # NULL => prev[next[e]] = e /\ parent[next[e]] = parent[e]
         /\ prev[e] # NULL => next[prev[e]] = e /\ parent[prev[e]] = parent[e]
         /\ childs[e] # NULL => parent[childs[e]] = e /\ prev[childs[e]] = NULL
<1>1. Linked \subseteq All /\ Root \in Linked
  BY DEF TreeType, Linked
<1>2. CASE e = Root
  BY <1>1, <1>2, NullIs DEF SiblingsInv, RootInv
<1>3. CASE e # Root
  <2>1. parent[e] \in Linked
    BY <1>3 DEF SiblingsInv
  <2>2. next[e] # NULL => /\ next[e] \in Linked \ {Root}
                          /\ prev[next[e]] = e /\ parent[next[e]] = parent[e]
    BY <1>1, <1>3, NullIs DEF SiblingsInv, RootInv
  <2>3. prev[e] # NULL => prev[e] \in Linked \ {Root} /\ next[prev[e]] = e
    BY <1>1, <1>3, NullIs DEF SiblingsInv, RootInv
  <2>4. prev[e] # NULL => parent[prev[e]] = parent[e]
    BY <1>1, <1>3, <2>3, NullIs DEF SiblingsInv
  <2>5. childs[e] # NULL => childs[e] \in Linked /\ parent[childs[e]] = e
    BY <1>3 DEF SiblingsInv
  <2>6. childs[e] # NULL => childs[e] # Root
    BY <1>3, <2>5 DEF RootInv
  <2>7. childs[e] # NULL => prev[childs[e]] = NULL
    BY <1>3, <2>5, <2>6 DEF SiblingsInv
  <2>8. QED
    BY <2>1, <2>2, <2>3, <2>4, <2>5, <2>6, <2>7
<1>4. QED
  BY <1>2, <1>3

-------------------------------------------------------------------------------
(* A new child *)

\* The fields after csdb_append_child, one by one.
LEMMA AppendChildIs ==
  ASSUME TreeType, NEW e \in Linked, NEW c \in Entries \ alloc, NEW part,
         AppendChild(e, c, part), alloc' = alloc \cup {c}, lost' = lost
  PROVE  /\ TreeType'
         /\ \A x : x \in Linked' <=> x \in Linked \/ x = c
         /\ c \notin Linked /\ c \in All /\ c # Root /\ c # NULL
         /\ name'[c] = part /\ childs'[c] = NULL /\ parent'[c] = e
         /\ next'[c] = childs[e] /\ prev'[c] = NULL /\ childs'[e] = c
         /\ \A x \in Linked :
              /\ name'[x] = name[x] /\ parent'[x] = parent[x] /\ next'[x] = next[x]
              /\ x # e => childs'[x] = childs[x]
              /\ x # childs[e] => prev'[x] = prev[x]
              /\ x = childs[e] => prev'[x] = c
<1>1. /\ Linked \subseteq All /\ Entries \subseteq All /\ c \in All /\ e \in All /\ c # e
      /\ c \notin Linked /\ c # Root /\ c # NULL
  BY NullIs DEF TreeType, Linked, All
<1>2. /\ childs \in Pointers /\ parent \in Pointers /\ next \in Pointers /\ prev \in Pointers
      /\ DOMAIN name = All
  BY DEF TreeType
<1>3. \A x : x \in Linked' <=> x \in Linked \/ x = c
  BY DEF TreeType, Linked
<1>4. DOMAIN name' = All /\ name'[c] = part /\ \A x \in Linked : name'[x] = name[x]
  BY <1>1, <1>2 DEF AppendChild
<1>5. /\ parent' \in Pointers /\ parent'[c] = e
      /\ \A x \in Linked : parent'[x] = parent[x]
  BY <1>1, <1>2 DEF AppendChild, Pointers
<1>6. /\ next' \in Pointers /\ next'[c] = childs[e]
      /\ \A x \in Linked : next'[x] = next[x]
  BY <1>1, <1>2 DEF AppendChild, Pointers
<1>7. /\ childs' \in Pointers /\ childs'[c] = NULL /\ childs'[e] = c
      /\ \A x \in Linked : x # e => childs'[x] = childs[x]
  BY <1>1, <1>2 DEF AppendChild, Pointers
<1>8. /\ prev' \in Pointers /\ prev'[c] = NULL
      /\ \A x \in Linked : (x # childs[e] => prev'[x] = prev[x]) /\ (x = childs[e] => prev'[x] = c)
  BY <1>1, <1>2 DEF AppendChild, Pointers
<1>9. TreeType'
  BY <1>1, <1>3, <1>4, <1>5, <1>6, <1>7, <1>8 DEF TreeType
<1>10. QED
  BY <1>1, <1>3, <1>4, <1>5, <1>6, <1>7, <1>8, <1>9

TreeKept == TreeType /\ SiblingsInv /\ RootInv /\ Hangs /\ OneList

\* csdb_append_child keeps the tree, if there is no child of that name yet.
LEMMA CreateTree ==
  ASSUME TreeKept, NEW e \in Linked, NEW c \in Entries \ alloc, NEW part,
         AppendChild(e, c, part), alloc' = alloc \cup {c}, lost' = lost,
         \A x \in Linked \ {Root} : parent[x] = e => name[x] # part
  PROVE  TreeKept'
<1>1. TreeType /\ SiblingsInv /\ RootInv /\ Hangs /\ OneList
  BY DEF TreeKept
<1>2. /\ TreeType'
      /\ \A x : x \in Linked' <=> x \in Linked \/ x = c
      /\ c \notin Linked /\ c \in All /\ c # Root /\ c # NULL
      /\ name'[c] = part /\ childs'[c] = NULL /\ parent'[c] = e
      /\ next'[c] = childs[e] /\ prev'[c] = NULL /\ childs'[e] = c
      /\ \A x \in Linked :
           /\ name'[x] = name[x] /\ parent'[x] = parent[x] /\ next'[x] = next[x]
           /\ x # e => childs'[x] = childs[x]
           /\ x # childs[e] => prev'[x] = prev[x]
           /\ x = childs[e] => prev'[x] = c
  BY <1>1, AppendChildIs
<1>3. \A x \in Linked :
        /\ parent[x] \in Linked
        /\ next[x] \in (Linked \ {Root}) \cup {NULL} /\ prev[x] \in (Linked \ {Root}) \cup {NULL}
        /\ childs[x] \in (Linked \ {Root}) \cup {NULL}
        /\ next[x] # NULL => prev[next[x]] = x /\ parent[next[x]] = parent[x]
        /\ prev[x] # NULL => next[prev[x]] = x /\ parent[prev[x]] = parent[x]
        /\ childs[x] # NULL => parent[childs[x]] = x /\ prev[childs[x]] = NULL
  BY <1>1, LinksIn
<1>4. Root \in Linked /\ NULL \notin Linked
  BY <1>1, NullIs DEF TreeType, Linked
<1>5. ASSUME NEW x \in Linked \ {Root}
      PROVE  /\ parent'[x] \in Linked'
             /\ prev'[x] = NULL <=> childs'[parent'[x]] = x
             /\ prev'[x] # NULL => prev'[x] \in Linked' /\ next'[prev'[x]] = x
             /\ next'[x] # NULL =>
                  next'[x] \in Linked' /\ prev'[next'[x]] = x /\ parent'[next'[x]] = parent'[x]
             /\ childs'[x] # NULL => childs'[x] \in Linked' /\ parent'[childs'[x]] = x
             /\ \A y \in Linked' \ {Root, x} : name'[y] = name'[x] => parent'[y] # parent'[x]
  <2>1. parent'[x] \in Linked' /\ parent'[x] = parent[x] /\ next'[x] = next[x]
    BY <1>2, <1>3
  <2>2. prev'[x] = NULL <=> childs'[parent'[x]] = x
    <3>1. prev[x] = NULL <=> childs[parent[x]] = x
      BY <1>1, <1>5 DEF SiblingsInv
    <3>2. CASE x = childs[e]
      BY <1>2, <1>3, <1>4, <1>5, <2>1, <3>2
    <3>3. CASE x # childs[e] /\ parent[x] = e
      BY <1>2, <1>5, <2>1, <3>1, <3>3
    <3>4. CASE x # childs[e] /\ parent[x] # e
      BY <1>2, <1>3, <1>5, <2>1, <3>1, <3>4
    <3>5. QED
      BY <3>2, <3>3, <3>4
  <2>3. prev'[x] # NULL => prev'[x] \in Linked' /\ next'[prev'[x]] = x
    BY <1>2, <1>3, <1>5
  <2>4. next'[x] # NULL =>
          next'[x] \in Linked' /\ prev'[next'[x]] = x /\ parent'[next'[x]] = parent'[x]
    <3>1. CASE next[x] # NULL
      <4>1. next[x] \in Linked /\ prev[next[x]] = x /\ parent[next[x]] = parent[x]
        BY <1>3, <1>5, <3>1
      <4>2. next[x] # childs[e]
        BY <1>3, <1>4, <1>5, <3>1, <4>1
      <4>3. QED
        BY <1>2, <2>1, <4>1, <4>2, <1>5
    <3>2. QED
      BY <2>1, <3>1
  <2>5. childs'[x] # NULL => childs'[x] \in Linked' /\ parent'[childs'[x]] = x
    BY <1>2, <1>3, <1>5
  <2>6. ASSUME NEW y \in Linked' \ {Root, x}, name'[y] = name'[x]
        PROVE  parent'[y] # parent'[x]
    <3>1. CASE y = c
      BY <1>2, <1>5, <2>6, <3>1
    <3>2. CASE y \in Linked
      BY <1>1, <1>2, <1>5, <2>6, <3>2 DEF SiblingsInv
    <3>3. QED
      BY <1>2, <2>6, <3>1, <3>2
  <2>7. QED
    BY <2>1, <2>2, <2>3, <2>4, <2>5, <2>6
<1>6. /\ parent'[c] \in Linked'
      /\ prev'[c] = NULL <=> childs'[parent'[c]] = c
      /\ prev'[c] # NULL => prev'[c] \in Linked' /\ next'[prev'[c]] = c
      /\ next'[c] # NULL =>
           next'[c] \in Linked' /\ prev'[next'[c]] = c /\ parent'[next'[c]] = parent'[c]
      /\ childs'[c] # NULL => childs'[c] \in Linked' /\ parent'[childs'[c]] = c
      /\ \A y \in Linked' \ {Root, c} : name'[y] = name'[c] => parent'[y] # parent'[c]
  BY <1>2, <1>3
<1>7. SiblingsInv'
  <2>1. \A x \in Linked' \ {Root} : x \in Linked \ {Root} \/ x = c
    BY <1>2
  <2>2. QED
    BY <1>5, <1>6, <2>1 DEF SiblingsInv
<1>8. RootInv'
  <2>1. parent'[Root] = Root /\ next'[Root] = NULL /\ Root # childs[e]
    BY <1>1, <1>2, <1>3, <1>4 DEF RootInv
  <2>2. prev'[Root] = NULL
    BY <1>1, <1>2, <1>4, <2>1 DEF RootInv
  <2>3. childs'[Root] # NULL => childs'[Root] \in Linked' \ {Root} /\ parent'[childs'[Root]] = Root
    BY <1>2, <1>3, <1>4
  <2>4. QED
    BY <2>1, <2>2, <2>3 DEF RootInv
<1>9. Hangs'
  <2>1. SUFFICES ASSUME NEW S \in SUBSET Linked', Root \in S, Downward(S)'
                 PROVE  Linked' \subseteq S
    BY DEF Hangs
  <2>2. S \cap Linked \in SUBSET Linked /\ Root \in S \cap Linked
    BY <1>4, <2>1
  <2>3. Downward(S \cap Linked)
    BY <1>2, <1>3, <2>1 DEF Downward
  <2>4. Linked \subseteq S
    BY <1>1, <2>2, <2>3 DEF Hangs
  <2>5. c \in S
    BY <1>2, <2>1, <2>4 DEF Downward
  <2>6. QED
    BY <1>2, <2>4, <2>5
<1>10. OneList'
  <2>1. SUFFICES ASSUME NEW p \in Linked', NEW S \in SUBSET Linked',
                        childs'[p] \in S \cup {NULL}, Onward(S, NULL)',
                        NEW x \in Linked' \ {Root}, parent'[x] = p
                 PROVE  x \in S
    BY DEF OneList
  <2>2. PICK T : T = S \cap Linked
    OBVIOUS
  <2>3. T \in SUBSET Linked /\ Onward(T, NULL)
    BY <1>2, <1>3, <2>1, <2>2 DEF Onward
  <2>4. CASE x = c
    <3>1. p = e
      BY <1>2, <2>1, <2>4
    <3>2. QED
      BY <1>2, <2>1, <2>4, <3>1
  <2>5. CASE x # c
    <3>1. x \in Linked \ {Root} /\ parent[x] = p /\ p \in Linked
      BY <1>2, <1>3, <2>1, <2>5
    <3>2. childs[p] \in T \cup {NULL}
      <4>1. CASE p = e
        <5>1. c \in S
          BY <1>2, <2>1, <4>1
        <5>2. next'[c] \in S \cup {NULL}
          BY <2>1, <5>1 DEF Onward
        <5>3. QED
          BY <1>2, <1>3, <2>2, <4>1, <5>2
      <4>2. CASE p # e
        BY <1>2, <1>3, <2>1, <2>2, <3>1, <4>2
      <4>3. QED
        BY <4>1, <4>2
    <3>3. x \in T
      BY <1>1, <2>3, <3>1, <3>2 DEF OneList
    <3>4. QED
      BY <2>2, <3>3
  <2>6. QED
    BY <2>4, <2>5
<1>11. QED
  BY <1>2, <1>7, <1>8, <1>9, <1>10 DEF TreeKept

-------------------------------------------------------------------------------
(* A subtree is removed *)

\* An entry, what is below it, and nothing else: with an entry its children, with
\* a child its parent, and never the root.
LEMMA SubtreeIs ==
  ASSUME TreeKept, NEW e \in Linked, e # Root, NEW gone, gone = {e} \cup Below(e)
  PROVE  /\ gone \subseteq Linked \ {Root}
         /\ \A x \in Linked : parent[x] \in gone => x \in gone
         /\ \A x \in gone : x = e \/ parent[x] \in gone
<1>1. TreeType /\ RootInv /\ Root \in Linked
  BY DEF TreeKept, TreeType
<1>2. \A x : x \in Below(e) <=>
        /\ x \in Linked /\ x # e
        /\ \A S \in SUBSET Linked : e \in S /\ Downward(S) => x \in S
  BY DEF Below
<1>3. gone \subseteq Linked \ {Root}
  <2>1. Linked \ {Root} \in SUBSET Linked /\ Downward(Linked \ {Root})
    BY <1>1 DEF Downward, RootInv
  <2>2. QED
    BY <1>2, <2>1
<1>4. ASSUME NEW x \in Linked, parent[x] \in gone
      PROVE  x \in gone
  <2>1. ASSUME NEW S \in SUBSET Linked, e \in S, Downward(S)
        PROVE  x \in S
    <3>1. parent[x] \in S
      BY <1>2, <1>4, <2>1
    <3>2. QED
      BY <1>4, <2>1, <3>1 DEF Downward
  <2>2. QED
    BY <1>2, <1>4, <2>1
<1>5. ASSUME NEW x \in gone, x # e, parent[x] \notin gone
      PROVE  FALSE
  <2>1. PICK T : T = gone \ {x}
    OBVIOUS
  <2>2. T \in SUBSET Linked /\ e \in T
    BY <1>3, <1>5, <2>1
  <2>3. Downward(T)
    BY <1>4, <1>5, <2>1 DEF Downward
  <2>4. x \in T
    BY <1>2, <1>5, <2>2, <2>3
  <2>5. QED
    BY <2>1, <2>4
<1>6. QED
  BY <1>3, <1>4, <1>5

\* The fields after the removal, one by one.
LEMMA UnlinkIs ==
  ASSUME TreeKept, NEW e \in Linked, e # Root, NEW gone, gone = {e} \cup Below(e),
         NEW last, last \subseteq Below(e), Unlink(e, gone),
         alloc' = alloc \ ({e} \cup (Below(e) \ last)), lost' = lost \cup last
  PROVE  /\ TreeType'
         /\ \A x : x \in Linked' <=> x \in Linked /\ x \notin gone
         /\ \A x \in Linked' :
              /\ name'[x] = name[x] /\ parent'[x] = parent[x]
              /\ childs'[x] = IF x = parent[e] /\ prev[e] = NULL THEN next[e] ELSE childs[x]
              /\ next'[x] = IF x = prev[e] THEN next[e] ELSE next[x]
              /\ prev'[x] = IF x = next[e] THEN prev[e] ELSE prev[x]
<1>1. TreeType /\ Linked \subseteq All /\ e \in All
  BY DEF TreeKept, TreeType, Linked
<1>2. /\ childs \in Pointers /\ parent \in Pointers /\ next \in Pointers /\ prev \in Pointers
      /\ DOMAIN name = All /\ alloc \subseteq All /\ lost \subseteq alloc /\ Root \in Linked
  BY <1>1 DEF TreeType
<1>3. gone \subseteq Linked \ {Root}
  BY SubtreeIs
<1>4. \A x : x \in Linked' <=> x \in Linked /\ x \notin gone
  BY <1>2, <1>3 DEF Linked
<1>5. DOMAIN name' = All /\ \A x \in All : x \notin gone => name'[x] = name[x]
  BY DEF Unlink
<1>6. parent' \in Pointers /\ \A x \in All : x \notin gone => parent'[x] = parent[x]
  BY <1>2 DEF Unlink, Pointers
<1>7. /\ childs' \in Pointers
      /\ \A x \in All : x \notin gone =>
           childs'[x] = IF x = parent[e] /\ prev[e] = NULL THEN next[e] ELSE childs[x]
  BY <1>1, <1>2 DEF Unlink, Pointers
<1>8. /\ next' \in Pointers
      /\ \A x \in All : x \notin gone => next'[x] = IF x = prev[e] THEN next[e] ELSE next[x]
  BY <1>1, <1>2 DEF Unlink, Pointers
<1>9. /\ prev' \in Pointers
      /\ \A x \in All : x \notin gone => prev'[x] = IF x = next[e] THEN prev[e] ELSE prev[x]
  BY <1>1, <1>2 DEF Unlink, Pointers
<1>10. alloc' \subseteq All /\ lost' \subseteq alloc' /\ Root \in Linked'
  <2>1. lost \cap Linked = {} /\ Below(e) \subseteq Linked /\ e \notin Below(e)
    BY DEF Linked, Below
  <2>2. lost' \subseteq alloc'
    BY <1>2, <2>1 DEF Linked
  <2>3. QED
    BY <1>2, <1>3, <1>4, <2>2
<1>11. TreeType'
  BY <1>5, <1>6, <1>7, <1>8, <1>9, <1>10 DEF TreeType
<1>12. \A x \in Linked' : x \in All /\ x \notin gone
  BY <1>1, <1>4
<1>13. QED
  BY <1>4, <1>5, <1>6, <1>7, <1>8, <1>9, <1>11, <1>12

\* The neighbours of a subtree are outside of it, and inside only its top has
\* any outside.
LEMMA Neighbours ==
  ASSUME TreeKept, NEW e \in Linked, e # Root, NEW gone, gone = {e} \cup Below(e)
  PROVE  /\ parent[e] \notin gone /\ next[e] \notin gone /\ prev[e] \notin gone
         /\ \A x \in Linked \ gone :
              /\ parent[x] \notin gone
              /\ next[x] \in gone => next[x] = e
              /\ prev[x] \in gone => prev[x] = e
              /\ childs[x] \in gone => childs[x] = e
         /\ \A x \in gone : x # e => next[x] \in gone \cup {NULL}
<1>1. /\ gone \subseteq Linked \ {Root}
      /\ \A x \in Linked : parent[x] \in gone => x \in gone
      /\ \A x \in gone : x = e \/ parent[x] \in gone
  BY SubtreeIs
<1>2. TreeType /\ SiblingsInv /\ RootInv /\ Hangs /\ OneList /\ Root \in Linked /\ NULL \notin Linked
  BY NullIs DEF TreeKept, TreeType, Linked
<1>3. \A x \in Linked :
        /\ parent[x] \in Linked
        /\ next[x] \in (Linked \ {Root}) \cup {NULL} /\ prev[x] \in (Linked \ {Root}) \cup {NULL}
        /\ childs[x] \in (Linked \ {Root}) \cup {NULL}
        /\ next[x] # NULL => prev[next[x]] = x /\ parent[next[x]] = parent[x]
        /\ prev[x] # NULL => next[prev[x]] = x /\ parent[prev[x]] = parent[x]
        /\ childs[x] # NULL => parent[childs[x]] = x /\ prev[childs[x]] = NULL
  BY <1>2, LinksIn
<1>4. parent[e] \notin gone
  <2>1. SUFFICES ASSUME parent[e] \in gone PROVE FALSE
    OBVIOUS
  <2>2. \A x \in gone : parent[x] \in gone
    BY <1>1, <2>1
  <2>3. Linked \ gone \in SUBSET Linked /\ Root \in Linked \ gone /\ Downward(Linked \ gone)
    BY <1>1, <1>2, <2>2 DEF Downward
  <2>4. Linked \subseteq Linked \ gone
    BY <1>2, <2>3 DEF Hangs
  <2>5. QED
    BY <2>4
<1>5. next[e] # e
  <2>1. SUFFICES ASSUME next[e] = e PROVE FALSE
    OBVIOUS
  <2>2. prev[e] = e
    BY <1>2, <1>3, <2>1
  <2>3. childs[parent[e]] # e
    BY <1>2, <2>2 DEF SiblingsInv
  <2>4. PICK T : T = Linked \ {e}
    OBVIOUS
  <2>5. T \in SUBSET Linked /\ childs[parent[e]] \in T \cup {NULL}
    BY <1>3, <2>3, <2>4
  <2>6. Onward(T, NULL)
    BY <1>2, <1>3, <2>2, <2>4 DEF Onward
  <2>7. e \in T
    BY <1>2, <1>3, <2>5, <2>6 DEF OneList
  <2>8. QED
    BY <2>4, <2>7
<1>6. prev[e] # e
  BY <1>2, <1>3, <1>5
<1>7. next[e] \notin gone /\ prev[e] \notin gone
  BY <1>1, <1>2, <1>3, <1>4, <1>5, <1>6
<1>8. ASSUME NEW x \in Linked \ gone
      PROVE  /\ parent[x] \notin gone
             /\ next[x] \in gone => next[x] = e
             /\ prev[x] \in gone => prev[x] = e
             /\ childs[x] \in gone => childs[x] = e
  BY <1>1, <1>2, <1>3, <1>8
<1>9. ASSUME NEW x \in gone, x # e
      PROVE  next[x] \in gone \cup {NULL}
  BY <1>1, <1>2, <1>3, <1>9
<1>10. QED
  BY <1>4, <1>7, <1>8, <1>9

\* csdb_remove_from_key keeps the tree.
LEMMA RemoveTree ==
  ASSUME TreeKept, NEW e \in Linked, e # Root, NEW gone, gone = {e} \cup Below(e),
         NEW last, last \subseteq Below(e), Unlink(e, gone),
         alloc' = alloc \ ({e} \cup (Below(e) \ last)), lost' = lost \cup last
  PROVE  TreeKept'
<1>1. TreeType /\ SiblingsInv /\ RootInv /\ Hangs /\ OneList /\ Root \in Linked /\ NULL \notin Linked
  BY NullIs DEF TreeKept, TreeType, Linked
<1>2. \A x \in Linked :
        /\ parent[x] \in Linked
        /\ next[x] \in (Linked \ {Root}) \cup {NULL} /\ prev[x] \in (Linked \ {Root}) \cup {NULL}
        /\ childs[x] \in (Linked \ {Root}) \cup {NULL}
        /\ next[x] # NULL => prev[next[x]] = x /\ parent[next[x]] = parent[x]
        /\ prev[x] # NULL => next[prev[x]] = x /\ parent[prev[x]] = parent[x]
        /\ childs[x] # NULL => parent[childs[x]] = x /\ prev[childs[x]] = NULL
  BY <1>1, LinksIn
<1>3. /\ gone \subseteq Linked \ {Root} /\ e \in gone
      /\ \A x \in Linked : parent[x] \in gone => x \in gone
      /\ \A x \in gone : x = e \/ parent[x] \in gone
  BY SubtreeIs
<1>4. /\ parent[e] \notin gone /\ next[e] \notin gone /\ prev[e] \notin gone
      /\ \A x \in Linked \ gone :
           /\ parent[x] \notin gone
           /\ next[x] \in gone => next[x] = e
           /\ prev[x] \in gone => prev[x] = e
           /\ childs[x] \in gone => childs[x] = e
      /\ \A x \in gone : x # e => next[x] \in gone \cup {NULL}
  BY Neighbours
<1>5. /\ TreeType'
      /\ \A x : x \in Linked' <=> x \in Linked /\ x \notin gone
      /\ \A x \in Linked' :
           /\ name'[x] = name[x] /\ parent'[x] = parent[x]
           /\ childs'[x] = IF x = parent[e] /\ prev[e] = NULL THEN next[e] ELSE childs[x]
           /\ next'[x] = IF x = prev[e] THEN next[e] ELSE next[x]
           /\ prev'[x] = IF x = next[e] THEN prev[e] ELSE prev[x]
  BY UnlinkIs
<1>6. /\ parent[e] \in Linked' /\ next[e] \in (Linked' \ {Root}) \cup {NULL}
      /\ prev[e] \in (Linked' \ {Root}) \cup {NULL} /\ Root \in Linked'
  BY <1>1, <1>2, <1>3, <1>4, <1>5
<1>7. \A x \in Linked \ {Root} : prev[x] = NULL <=> childs[parent[x]] = x
  BY <1>1 DEF SiblingsInv
<1>8. ASSUME NEW x \in Linked'
      PROVE  childs'[x] # NULL => childs'[x] \in Linked' \ {Root} /\ parent'[childs'[x]] = x
  <2>1. CASE x = parent[e] /\ prev[e] = NULL
    BY <1>2, <1>5, <1>6, <1>8, <2>1
  <2>2. CASE ~(x = parent[e] /\ prev[e] = NULL)
    <3>1. childs'[x] = childs[x] /\ x \in Linked \ gone
      BY <1>5, <1>8, <2>2
    <3>2. CASE childs[x] # NULL
      <4>1. childs[x] # e
        BY <1>2, <2>2, <3>1, <3>2
      <4>2. childs[x] \in Linked \ {Root} /\ childs[x] \notin gone /\ parent[childs[x]] = x
        BY <1>2, <1>4, <3>1, <3>2, <4>1
      <4>3. QED
        BY <1>5, <3>1, <4>2
    <3>3. QED
      BY <3>1, <3>2
  <2>3. QED
    BY <2>1, <2>2
<1>9. ASSUME NEW x \in Linked' \ {Root}
      PROVE  /\ parent'[x] \in Linked'
             /\ prev'[x] = NULL <=> childs'[parent'[x]] = x
             /\ prev'[x] # NULL => prev'[x] \in Linked' /\ next'[prev'[x]] = x
             /\ next'[x] # NULL =>
                  next'[x] \in Linked' /\ prev'[next'[x]] = x /\ parent'[next'[x]] = parent'[x]
             /\ \A y \in Linked' \ {Root, x} : name'[y] = name'[x] => parent'[y] # parent'[x]
  <2>1. x \in Linked \ {Root} /\ x \notin gone /\ x # e
    BY <1>3, <1>5, <1>9
  <2>2. parent'[x] \in Linked' /\ parent'[x] = parent[x]
    BY <1>2, <1>4, <1>5, <1>9, <2>1
  <2>3. prev'[x] = NULL <=> childs'[parent'[x]] = x
    <3>1. childs'[parent'[x]] = IF parent[x] = parent[e] /\ prev[e] = NULL THEN next[e]
                                ELSE childs[parent[x]]
      BY <1>5, <2>2
    <3>2. CASE x = next[e]
      <4>1. prev'[x] = prev[e] /\ parent[x] = parent[e] /\ prev[x] = e
        BY <1>1, <1>2, <1>5, <1>9, <2>1, <3>2
      <4>2. childs[parent[x]] # x
        BY <1>1, <1>7, <2>1, <4>1
      <4>3. QED
        BY <3>1, <3>2, <4>1, <4>2
    <3>3. CASE x # next[e]
      <4>1. prev'[x] = prev[x]
        BY <1>5, <1>9, <3>3
      <4>2. CASE parent[x] = parent[e] /\ prev[e] = NULL
        BY <1>3, <1>7, <2>1, <3>1, <3>3, <4>1, <4>2
      <4>3. CASE ~(parent[x] = parent[e] /\ prev[e] = NULL)
        BY <1>7, <2>1, <3>1, <4>1, <4>3
      <4>4. QED
        BY <4>2, <4>3
    <3>4. QED
      BY <3>2, <3>3
  <2>4. ASSUME prev'[x] # NULL
        PROVE  prev'[x] \in Linked' /\ next'[prev'[x]] = x
    <3>1. CASE x = next[e]
      BY <1>5, <1>6, <1>9, <2>4, <3>1
    <3>2. CASE x # next[e]
      <4>1. prev'[x] = prev[x]
        BY <1>5, <1>9, <3>2
      <4>2. prev[x] \in Linked /\ next[prev[x]] = x
        BY <1>2, <2>1, <2>4, <4>1
      <4>3. prev[x] # e /\ prev[x] \in Linked'
        BY <1>4, <1>5, <2>1, <3>2, <4>2
      <4>4. prev[x] # prev[e]
        BY <1>2, <1>3, <2>1, <2>4, <4>1, <4>2
      <4>5. QED
        BY <1>5, <4>1, <4>2, <4>3, <4>4
    <3>3. QED
      BY <3>1, <3>2
  <2>5. ASSUME next'[x] # NULL
        PROVE  next'[x] \in Linked' /\ prev'[next'[x]] = x /\ parent'[next'[x]] = parent'[x]
    <3>1. CASE x = prev[e]
      <4>1. next'[x] = next[e] /\ next[e] \in Linked'
        BY <1>5, <1>6, <1>9, <2>5, <3>1
      <4>2. parent[next[e]] = parent[e] /\ parent[x] = parent[e]
        BY <1>1, <1>2, <2>1, <2>5, <3>1, <4>1
      <4>3. QED
        BY <1>5, <1>9, <3>1, <4>1, <4>2
    <3>2. CASE x # prev[e]
      <4>1. next'[x] = next[x]
        BY <1>5, <1>9, <3>2
      <4>2. next[x] \in Linked /\ prev[next[x]] = x /\ parent[next[x]] = parent[x]
        BY <1>2, <2>1, <2>5, <4>1
      <4>3. next[x] # e /\ next[x] \in Linked'
        BY <1>4, <1>5, <2>1, <3>2, <4>2
      <4>4. next[x] # next[e]
        BY <1>2, <1>3, <2>1, <2>5, <4>1, <4>2
      <4>5. QED
        BY <1>5, <1>9, <4>1, <4>2, <4>3, <4>4
    <3>3. QED
      BY <3>1, <3>2
  <2>6. \A y \in Linked' \ {Root, x} : name'[y] = name'[x] => parent'[y] # parent'[x]
    BY <1>1, <1>5, <1>9, <2>1 DEF SiblingsInv
  <2>7. QED
    BY <2>2, <2>3, <2>4, <2>5, <2>6
<1>10. SiblingsInv'
  BY <1>8, <1>9 DEF SiblingsInv
<1>11. RootInv'
  <2>1. parent'[Root] = Root /\ next'[Root] = NULL /\ prev'[Root] = NULL
    BY <1>1, <1>2, <1>5, <1>6 DEF RootInv
  <2>2. QED
    BY <1>6, <1>8, <2>1 DEF RootInv
<1>12. Hangs'
  <2>1. SUFFICES ASSUME NEW S \in SUBSET Linked', Root \in S, Downward(S)'
                 PROVE  Linked' \subseteq S
    BY DEF Hangs
  <2>2. PICK T : T = S \cup gone
    OBVIOUS
  <2>3. T \in SUBSET Linked /\ Root \in T
    BY <1>3, <1>5, <2>1, <2>2
  <2>4. Downward(T)
    BY <1>3, <1>5, <2>1, <2>2 DEF Downward
  <2>5. Linked \subseteq T
    BY <1>1, <2>3, <2>4 DEF Hangs
  <2>6. QED
    BY <1>5, <2>2, <2>5
<1>13. OneList'
  <2>1. SUFFICES ASSUME NEW p \in Linked', NEW S \in SUBSET Linked',
                        childs'[p] \in S \cup {NULL}, Onward(S, NULL)',
                        NEW x \in Linked' \ {Root}, parent'[x] = p
                 PROVE  x \in S
    BY DEF OneList
  <2>2. x \in Linked \ {Root} /\ parent[x] = p /\ p \in Linked /\ x \notin gone /\ S \subseteq Linked
    BY <1>5, <2>1
  <2>3. \A y \in S : y \in Linked' /\ next'[y] \in S \cup {NULL}
    BY <2>1 DEF Onward
  <2>4. CASE next[e] \in S \cup {NULL}
    <3>1. PICK T : T = S \cup gone
      OBVIOUS
    <3>2. T \in SUBSET Linked
      BY <1>3, <2>2, <3>1
    <3>3. childs[p] \in T \cup {NULL}
      <4>1. CASE p = parent[e] /\ prev[e] = NULL
        BY <1>3, <1>7, <3>1, <4>1
      <4>2. CASE ~(p = parent[e] /\ prev[e] = NULL)
        BY <1>5, <2>1, <3>1, <4>2
      <4>3. QED
        BY <4>1, <4>2
    <3>4. ASSUME NEW y \in T PROVE next[y] \in T \cup {NULL}
      <4>1. CASE y = e
        BY <2>4, <3>1, <4>1
      <4>2. CASE y \in gone /\ y # e
        BY <1>4, <3>1, <4>2
      <4>3. CASE y \in S /\ y = prev[e]
        BY <1>1, <1>2, <1>3, <2>2, <3>1, <4>3
      <4>4. CASE y \in S /\ y # prev[e]
        BY <1>5, <2>3, <3>1, <4>4
      <4>5. QED
        BY <3>1, <3>4, <4>1, <4>2, <4>3, <4>4
    <3>5. Onward(T, NULL)
      BY <3>4 DEF Onward
    <3>6. x \in T
      BY <1>1, <2>2, <3>2, <3>3, <3>5 DEF OneList
    <3>7. QED
      BY <2>2, <3>1, <3>6
  <2>5. CASE next[e] \notin S \cup {NULL}
    <3>1. childs[p] \in S \cup {NULL}
      BY <1>5, <2>1, <2>5
    <3>2. Onward(S, NULL)
      BY <1>5, <2>3, <2>5 DEF Onward
    <3>3. QED
      BY <1>1, <2>2, <3>1, <3>2 DEF OneList
  <2>6. QED
    BY <2>4, <2>5
<1>14. QED
  BY <1>5, <1>10, <1>11, <1>12, <1>13 DEF TreeKept

-------------------------------------------------------------------------------
(* What the threads do *)

LEMMA TreeUntouched ==
  ASSUME TreeKept, UNCHANGED <<name, childs, parent, next, prev, alloc, lost>>
  PROVE  TreeKept' /\ Linked' = Linked
<1>1. Linked' = Linked
  BY DEF Linked
<1>2. TreeType' /\ SiblingsInv' /\ RootInv'
  BY <1>1 DEF TreeKept, TreeType, SiblingsInv, RootInv
<1>3. Hangs'
  BY <1>1 DEF TreeKept, Hangs, Downward
<1>4. OneList'
  BY <1>1 DEF TreeKept, OneList, Onward
<1>5. QED
  BY <1>1, <1>2, <1>3, <1>4 DEF TreeKept

\* What WalkInv says of one thread.
WalkOf(t) ==
  /\ job[t].op # "list" /\ pc[t] = "walk" => Walk(t)
  /\ job[t].op = "remove" /\ pc[t] = "lock" => job[t].path # <<>>
  /\ pc[t] = "lock" => job[t].op # "list"

\* A thread that does not move keeps its place in the tree, because nobody
\* changes the tree without the mutex.
LEMMA OthersKept ==
  ASSUME DbInv, NEW t \in Threads, NEW u \in Threads, u # t,
         pc'[u] = pc[u], job'[u] = job[u], rest'[u] = rest[u],
         entry'[u] = entry[u], cur'[u] = cur[u],
         mutex \in {t, NoThread} \/
           UNCHANGED <<mutex, name, childs, parent, next, prev, alloc, lost>>
  PROVE  WalkOf(u)'
<1>1. WalkOf(u)
  BY DEF DbInv, WalkInv, WalkOf
<1>2. CASE mutex \in {t, NoThread}
  <2>1. mutex # u
    BY <1>2, NullIs
  <2>2. ~(job[u].op # "list" /\ pc[u] = "walk")
    BY <1>1, <2>1 DEF WalkOf, Walk
  <2>3. QED
    BY <1>1, <2>2 DEF WalkOf
<1>3. CASE UNCHANGED <<mutex, name, childs, parent, next, prev, alloc, lost>>
  <2>1. Linked' = Linked
    BY <1>3 DEF Linked
  <2>2. \A S : Seen(u, S) => Seen(u, S)'
    BY <1>3, <2>1 DEF Seen, Onward
  <2>3. Walk(u) => Walk(u)'
    BY <1>3, <2>1, <2>2 DEF Walk
  <2>4. QED
    BY <1>1, <2>3 DEF WalkOf
<1>4. QED
  BY <1>2, <1>3

\* The parts of the invariant together.
LEMMA DbFrame ==
  ASSUME DbInv, NEW t \in Threads, TreeKept', LocalsType', WalkOf(t)',
         \A u \in Threads \ {t} :
           /\ pc'[u] = pc[u] /\ job'[u] = job[u] /\ rest'[u] = rest[u]
           /\ entry'[u] = entry[u] /\ cur'[u] = cur[u],
         mutex \in {t, NoThread} \/
           UNCHANGED <<mutex, name, childs, parent, next, prev, alloc, lost>>
  PROVE  DbInv'
<1>1. ASSUME NEW u \in Threads PROVE WalkOf(u)'
  BY <1>1, OthersKept
<1>2. WalkInv'
  BY <1>1 DEF WalkInv, WalkOf
<1>3. QED
  BY <1>2 DEF DbInv, TreeKept

Fixed == <<name, childs, parent, next, prev, alloc, lost>>

LEMMA LeaveIs ==
  ASSUME LocalsType, NEW t \in Threads, Leave(t)
  PROVE  /\ DOMAIN job' = Threads /\ DOMAIN entry' = Threads /\ DOMAIN cur' = Threads
         /\ rest' \in [Threads -> Seq(STRING)]
         /\ \A u \in Threads : job'[u].op \in Ops /\ job'[u].path \in Seq(STRING)
         /\ \A u \in Threads \ {t} : /\ job'[u] = job[u] /\ rest'[u] = rest[u]
                                     /\ entry'[u] = entry[u] /\ cur'[u] = cur[u]
<1>1. /\ DOMAIN job = Threads /\ DOMAIN entry = Threads /\ DOMAIN cur = Threads
      /\ rest \in [Threads -> Seq(STRING)]
      /\ \A u \in Threads : job[u].op \in Ops /\ job[u].path \in Seq(STRING)
  BY DEF LocalsType
<1>2. /\ rest' = [rest EXCEPT ![t] = <<>>] /\ entry' = [entry EXCEPT ![t] = NULL]
      /\ cur' = [cur EXCEPT ![t] = NULL] /\ job' = [job EXCEPT ![t] = NoJob]
  BY DEF Leave
<1>3. <<>> \in Seq(STRING) /\ NoJob.op \in Ops /\ NoJob.path \in Seq(STRING)
  BY DEF NoJob, Ops
<1>4. \A u \in Threads : job'[u] = IF u = t THEN NoJob ELSE job[u]
  BY <1>1, <1>2
<1>5. \A u \in Threads : job'[u].op \in Ops /\ job'[u].path \in Seq(STRING)
  BY <1>1, <1>3, <1>4
<1>6. QED
  BY <1>1, <1>2, <1>3, <1>4, <1>5

\* A call returns.
LEMMA ReturnStep ==
  ASSUME DbInv, NEW t \in Threads, pc' = [pc EXCEPT ![t] = "idle"],
         Leave(t) \/ UNCHANGED locals, mutex' \in {mutex, NoThread},
         DOMAIN answer' = Threads, TreeKept',
         mutex \in {t, NoThread} \/ UNCHANGED <<mutex, Fixed>>
  PROVE  DbInv'
<1>1. LocalsType /\ pc \in [Threads -> {"idle", "lock", "walk", "count", "copy"}]
  BY DEF DbInv, LocalsType
<1>2. /\ DOMAIN job' = Threads /\ DOMAIN entry' = Threads /\ DOMAIN cur' = Threads
      /\ rest' \in [Threads -> Seq(STRING)]
      /\ \A u \in Threads : job'[u].op \in Ops /\ job'[u].path \in Seq(STRING)
      /\ \A u \in Threads \ {t} : /\ job'[u] = job[u] /\ rest'[u] = rest[u]
                                  /\ entry'[u] = entry[u] /\ cur'[u] = cur[u]
  <2>1. CASE Leave(t)
    BY <1>1, <2>1, LeaveIs
  <2>2. CASE UNCHANGED locals
    BY <1>1, <2>2 DEF locals, LocalsType
  <2>3. QED
    BY <2>1, <2>2
<1>3. /\ pc' \in [Threads -> {"idle", "lock", "walk", "count", "copy"}] /\ pc'[t] = "idle"
      /\ \A u \in Threads \ {t} : pc'[u] = pc[u]
  BY <1>1
<1>4. LocalsType'
  BY <1>1, <1>2, <1>3 DEF LocalsType
<1>5. WalkOf(t)'
  BY <1>3 DEF WalkOf
<1>6. QED
  BY <1>2, <1>3, <1>4, <1>5, DbFrame DEF Fixed

LEMMA CallSteps ==
  ASSUME DbInv, NEW t \in Threads, Calling(t)
  PROVE  DbInv'
<1>1. PICK j \in Jobs[t] : (\E w \in Words : Call(t, j, w)) \/ CallList(t, j) \/ RemoveRoot(t, j)
  BY DEF Calling
<1>2. j.op \in Ops /\ j.path \in Seq(STRING)
  BY CsdbAssumption DEF Ops
<1>3. TreeKept /\ LocalsType
  BY DEF DbInv, TreeKept
<1>4. pc \in [Threads -> {"idle", "lock", "walk", "count", "copy"}] /\ DOMAIN job = Threads
      /\ DOMAIN answer = Threads
  BY <1>3 DEF LocalsType
<1>5. ASSUME NEW w \in Words, Call(t, j, w) PROVE DbInv'
  <2>1. /\ pc' = [pc EXCEPT ![t] = "lock"] /\ UNCHANGED <<mutex, Fixed, rest, entry, cur>>
        /\ j.op # "list" /\ ~(j.op = "remove" /\ j.path = <<>>)
        /\ answer' = [answer EXCEPT ![t] = <<"none">>]
    BY <1>5 DEF Call, Goto, Returns, tree, Fixed
  <2>2. PICK a : a = [op |-> j.op, path |-> j.path,
                      word |-> IF j.op \in {"set", "append"} THEN w ELSE NULL]
    OBVIOUS
  <2>3. job' = [job EXCEPT ![t] = a] /\ a.op = j.op /\ a.path = j.path
    BY <1>5, <2>2 DEF Call
  <2>4. /\ DOMAIN job' = Threads /\ job'[t] = a /\ \A u \in Threads \ {t} : job'[u] = job[u]
    BY <1>4, <2>3
  <2>5. /\ pc' \in [Threads -> {"idle", "lock", "walk", "count", "copy"}] /\ pc'[t] = "lock"
        /\ \A u \in Threads \ {t} : pc'[u] = pc[u]
    BY <1>4, <2>1
  <2>6. \A u \in Threads : job'[u].op \in Ops /\ job'[u].path \in Seq(STRING)
    BY <1>2, <1>3, <2>3, <2>4 DEF LocalsType
  <2>7. LocalsType'
    BY <1>3, <1>4, <2>1, <2>4, <2>5, <2>6 DEF LocalsType
  <2>8. WalkOf(t)'
    BY <2>1, <2>3, <2>4, <2>5 DEF WalkOf
  <2>9. TreeKept'
    BY <1>3, <2>1, TreeUntouched DEF Fixed
  <2>10. QED
    BY <2>1, <2>4, <2>5, <2>7, <2>8, <2>9, DbFrame DEF Fixed
<1>6. CASE CallList(t, j)
  <2>1. /\ pc' = [pc EXCEPT ![t] = "walk"] /\ UNCHANGED <<mutex, Fixed>>
        /\ rest' = [rest EXCEPT ![t] = j.path] /\ entry' = [entry EXCEPT ![t] = Root]
        /\ cur' = [cur EXCEPT ![t] = childs[Root]]
        /\ answer' = [answer EXCEPT ![t] = <<"none">>]
    BY <1>6 DEF CallList, Goto, Returns, tree, Fixed
  <2>2. PICK a : a = [op |-> "list", path |-> j.path, word |-> NULL]
    OBVIOUS
  <2>3. job' = [job EXCEPT ![t] = a] /\ a.op = "list" /\ a.path = j.path
    BY <1>6, <2>2 DEF CallList
  <2>4. /\ DOMAIN job' = Threads /\ job'[t] = a /\ \A u \in Threads \ {t} : job'[u] = job[u]
    BY <1>4, <2>3
  <2>5. /\ pc' \in [Threads -> {"idle", "lock", "walk", "count", "copy"}] /\ pc'[t] = "walk"
        /\ \A u \in Threads \ {t} : pc'[u] = pc[u]
    BY <1>4, <2>1
  <2>6. \A u \in Threads : job'[u].op \in Ops /\ job'[u].path \in Seq(STRING)
    BY <1>2, <1>3, <2>3, <2>4 DEF LocalsType, Ops
  <2>7. /\ DOMAIN entry' = Threads /\ DOMAIN cur' = Threads
        /\ rest' \in [Threads -> Seq(STRING)]
        /\ \A u \in Threads \ {t} : rest'[u] = rest[u] /\ entry'[u] = entry[u] /\ cur'[u] = cur[u]
    BY <1>2, <1>3, <2>1 DEF LocalsType
  <2>8. LocalsType'
    BY <1>3, <1>4, <2>1, <2>4, <2>5, <2>6, <2>7 DEF LocalsType
  <2>9. WalkOf(t)'
    BY <2>3, <2>4, <2>5 DEF WalkOf
  <2>10. TreeKept'
    BY <1>3, <2>1, TreeUntouched DEF Fixed
  <2>11. QED
    BY <2>1, <2>4, <2>5, <2>7, <2>8, <2>9, <2>10, DbFrame DEF Fixed
<1>7. CASE RemoveRoot(t, j)
  <2>1. /\ pc' = [pc EXCEPT ![t] = "idle"] /\ UNCHANGED <<mutex, Fixed>> /\ UNCHANGED locals
        /\ answer' = [answer EXCEPT ![t] = <<"error">>]
    BY <1>7 DEF RemoveRoot, Goto, Returns, tree, Fixed
  <2>2. TreeKept'
    BY <1>3, <2>1, TreeUntouched DEF Fixed
  <2>3. DOMAIN answer' = Threads /\ mutex' \in {mutex, NoThread}
    BY <1>4, <2>1
  <2>4. QED
    BY <2>1, <2>2, <2>3, ReturnStep
<1>8. QED
  BY <1>1, <1>5, <1>6, <1>7

LEMMA DbStutters ==
  ASSUME DbInv, UNCHANGED <<Fixed, mutex, pc, job, rest, entry, cur, answer>>
  PROVE  DbInv'
<1>1. UNCHANGED <<name, childs, parent, next, prev, alloc, lost>> /\ TreeKept
  BY DEF Fixed, DbInv, TreeKept
<1>2. TreeKept' /\ Linked' = Linked
  BY <1>1, TreeUntouched
<1>3. LocalsType'
  BY DEF DbInv, LocalsType
<1>4. \A t, S : Seen(t, S) => Seen(t, S)'
  BY <1>1, <1>2 DEF Seen, Onward
<1>5. WalkInv'
  BY <1>1, <1>2, <1>4 DEF DbInv, WalkInv, Walk
<1>6. QED
  BY <1>2, <1>3, <1>5 DEF DbInv, TreeKept

\* A thread goes on at an entry e of the tree with parts of the key left, before
\* the first child of e.
LEMMA DescendStep ==
  ASSUME DbInv, NEW t \in Threads, NEW e \in Linked \cup {NULL}, NEW parts \in Seq(STRING),
         Descend(t, e, parts), pc' = [pc EXCEPT ![t] = "walk"], UNCHANGED <<answer, Fixed>>,
         mutex' = mutex \/ (mutex = NoThread /\ mutex' = t),
         job[t].op # "list" => mutex' = t,
         e = NULL => parts = <<>> /\ job[t].op # "set",
         job[t].op = "remove" /\ parts = <<>> => e # Root
  PROVE  DbInv'
<1>1. TreeKept /\ LocalsType /\ TreeType /\ SiblingsInv /\ RootInv
  BY DEF DbInv, TreeKept
<1>2. UNCHANGED <<name, childs, parent, next, prev, alloc, lost>>
  BY DEF Fixed
<1>3. TreeKept' /\ Linked' = Linked
  BY <1>1, <1>2, TreeUntouched
<1>4. /\ DOMAIN entry' = Threads /\ entry'[t] = e
      /\ DOMAIN cur' = Threads /\ cur'[t] = (IF e = NULL THEN NULL ELSE childs[e])
      /\ rest' \in [Threads -> Seq(STRING)] /\ rest'[t] = parts /\ job' = job
      /\ \A u \in Threads \ {t} : rest'[u] = rest[u] /\ entry'[u] = entry[u] /\ cur'[u] = cur[u]
  BY <1>1 DEF Descend, LocalsType
<1>5. /\ pc' \in [Threads -> {"idle", "lock", "walk", "count", "copy"}] /\ pc'[t] = "walk"
      /\ \A u \in Threads \ {t} : pc'[u] = pc[u]
  BY <1>1 DEF LocalsType
<1>6. LocalsType'
  BY <1>1, <1>4, <1>5 DEF LocalsType
<1>7. WalkOf(t)'
  <2>1. e # NULL => childs[e] \in (Linked \ {Root}) \cup {NULL}
    BY <1>1, LinksIn
  <2>2. cur'[t] \in (Linked' \ {Root}) \cup {NULL} /\ entry'[t] \in Linked' \cup {NULL}
    BY <1>3, <1>4, <2>1
  <2>3. e # NULL => Seen(t, {})'
    BY <1>2, <1>4 DEF Seen, Onward
  <2>4. job[t].op # "list" => Walk(t)'
    BY <1>4, <2>2, <2>3 DEF Walk
  <2>5. QED
    BY <1>4, <1>5, <2>4 DEF WalkOf
<1>8. QED
  BY <1>2, <1>3, <1>4, <1>5, <1>6, <1>7, DbFrame

LEMMA LockStep ==
  ASSUME DbInv, NEW t \in Threads, Lock(t)
  PROVE  DbInv'
<1>1. /\ pc[t] = "lock" /\ pc' = [pc EXCEPT ![t] = "walk"] /\ mutex = NoThread /\ mutex' = t
      /\ Descend(t, Root, job[t].path) /\ UNCHANGED <<answer, Fixed>>
  BY DEF Lock, Goto, tree, Fixed
<1>2. job[t].path \in Seq(STRING) /\ Root \in Linked
  BY DEF DbInv, LocalsType, TreeType
<1>3. job[t].op = "remove" => job[t].path # <<>>
  BY <1>1 DEF DbInv, WalkInv
<1>4. Root # NULL
  BY NullIs
<1>5. PICK parts \in Seq(STRING) : parts = job[t].path
  BY <1>2
<1>6. Descend(t, Root, parts)
  BY <1>1, <1>5
<1>7. QED
  BY <1>1, <1>2, <1>3, <1>4, <1>5, <1>6, DescendStep

\* csdb_find_child compares, finds or comes to the end.
LEMMA FindSteps ==
  ASSUME DbInv, NEW t \in Threads, Hop(t) \/ Found(t) \/ NotFound(t)
  PROVE  DbInv'
<1>1. /\ pc[t] = "walk" /\ pc' = [pc EXCEPT ![t] = "walk"] /\ rest[t] # <<>>
      /\ UNCHANGED <<mutex, answer, Fixed>> /\ rest[t] \in Seq(STRING)
  BY DEF Hop, Found, NotFound, Goto, tree, Fixed, DbInv, LocalsType
<1>2. TreeKept /\ LocalsType /\ TreeType /\ SiblingsInv /\ RootInv
  BY DEF DbInv, TreeKept
<1>3. job[t].op # "list" => Walk(t) /\ mutex = t
  BY <1>1 DEF DbInv, WalkInv, Walk
<1>4. CASE Found(t)
  <2>1. /\ cur[t] # NULL /\ ~Astray(t) /\ Descend(t, cur[t], Tail(rest[t]))
    BY <1>4 DEF Found
  <2>2. cur[t] \in Linked
    <3>1. CASE job[t].op = "list"
      BY <1>1, <2>1, <3>1 DEF Astray
    <3>2. CASE job[t].op # "list"
      BY <1>3, <2>1, <3>2 DEF Walk
    <3>3. QED
      BY <3>1, <3>2
  <2>3. job[t].op # "list" => cur[t] # Root
    BY <1>3, <2>1, NullIs DEF Walk
  <2>4. PICK e \in Linked : e = cur[t]
    BY <2>2
  <2>5. PICK parts \in Seq(STRING) : parts = Tail(rest[t])
    <3>1. \A s \in Seq(STRING) : s # <<>> => Tail(s) \in Seq(STRING)
      OBVIOUS
    <3>2. Tail(rest[t]) \in Seq(STRING)
      BY <1>1, <3>1
    <3>3. QED
      BY <3>2
  <2>6. Descend(t, e, parts) /\ e # NULL /\ (job[t].op # "list" => e # Root)
    BY <2>1, <2>3, <2>4, <2>5
  <2>7. QED
    BY <1>1, <1>3, <2>6, DescendStep
<1>5. CASE NotFound(t)
  <2>1. Descend(t, NULL, <<>>) /\ job[t].op # "set" /\ <<>> \in Seq(STRING) /\ NULL # Root
    BY <1>5, NullIs DEF NotFound
  <2>2. QED
    BY <1>1, <1>3, <2>1, DescendStep
<1>6. CASE Hop(t)
  <2>1. /\ cur[t] # NULL /\ name[cur[t]] # Head(rest[t])
        /\ cur' = [cur EXCEPT ![t] = next[cur[t]]] /\ UNCHANGED <<job, rest, entry>>
    BY <1>6 DEF Hop
  <2>2. UNCHANGED <<name, childs, parent, next, prev, alloc, lost>>
    BY <1>1 DEF Fixed
  <2>3. TreeKept' /\ Linked' = Linked
    BY <1>2, <2>2, TreeUntouched
  <2>4. /\ DOMAIN cur' = Threads /\ cur'[t] = next[cur[t]]
        /\ \A u \in Threads \ {t} : cur'[u] = cur[u]
    BY <1>2, <2>1 DEF LocalsType
  <2>5. pc' = pc
    BY <1>1, <1>2 DEF LocalsType
  <2>6. LocalsType'
    BY <1>1, <1>2, <2>1, <2>4, <2>5 DEF LocalsType
  <2>7. ASSUME job[t].op # "list" PROVE Walk(t)'
    <3>1. mutex = t /\ cur[t] \in Linked \ {Root} /\ entry[t] # NULL /\ entry[t] \in Linked
      BY <1>1, <1>3, <2>1, <2>7 DEF Walk
    <3>2. PICK S : Seen(t, S)
      BY <1>1, <1>3, <2>7 DEF Walk
    <3>3. PICK T : T = S \cup {cur[t]}
      OBVIOUS
    <3>4. next[cur[t]] \in (Linked \ {Root}) \cup {NULL}
      BY <1>2, <3>1, LinksIn
    <3>5. Seen(t, T)'
      BY <2>1, <2>2, <2>3, <2>4, <3>1, <3>2, <3>3 DEF Seen, Onward
    <3>6. QED
      BY <1>1, <2>1, <2>3, <2>4, <3>1, <3>4, <3>5 DEF Walk
  <2>8. WalkOf(t)'
    BY <1>1, <2>1, <2>5, <2>7 DEF WalkOf
  <2>9. QED
    BY <1>1, <2>1, <2>2, <2>3, <2>4, <2>5, <2>6, <2>8, DbFrame
<1>7. QED
  BY <1>4, <1>5, <1>6

LEMMA TailIs == \A s \in Seq(STRING) : s # <<>> => Tail(s) \in Seq(STRING)
OBVIOUS

\* Where csdb_find_child has come to the end of the list, no child has the name.
LEMMA NoSuchChild ==
  ASSUME DbInv, NEW t \in Threads, job[t].op # "list", pc[t] = "walk", rest[t] # <<>>,
         cur[t] = NULL
  PROVE  /\ entry[t] \in Linked /\ entry[t] # NULL
         /\ \A x \in Linked \ {Root} : parent[x] = entry[t] => name[x] # Head(rest[t])
<1>1. Walk(t) /\ OneList /\ TreeType
  BY DEF DbInv, WalkInv
<1>2. entry[t] \in Linked /\ entry[t] # NULL
  BY <1>1 DEF Walk
<1>3. PICK S : Seen(t, S)
  BY <1>1 DEF Walk
<1>4. S \in SUBSET Linked /\ childs[entry[t]] \in S \cup {NULL} /\ Onward(S, NULL)
  BY <1>3 DEF Seen
<1>5. \A x \in Linked \ {Root} : parent[x] = entry[t] => x \in S
  BY <1>1, <1>2, <1>4 DEF OneList
<1>6. QED
  BY <1>2, <1>3, <1>5 DEF Seen

\* csdb_set_value_for_key makes an entry where csdb_find_child found none.
LEMMA CreateStep ==
  ASSUME DbInv, NEW t \in Threads, Create(t)
  PROVE  DbInv'
<1>1. /\ pc[t] = "walk" /\ pc' = [pc EXCEPT ![t] = "walk"] /\ rest[t] # <<>> /\ cur[t] = NULL
      /\ job[t].op = "set" /\ UNCHANGED <<mutex, answer, lost, job, cur>>
      /\ rest' = [rest EXCEPT ![t] = Tail(rest[t])]
  BY DEF Create, Goto
<1>2. TreeKept /\ LocalsType /\ TreeType /\ OneList /\ rest \in [Threads -> Seq(STRING)]
  BY DEF DbInv, TreeKept, LocalsType
<1>3. Walk(t)
  BY <1>1 DEF DbInv, WalkInv
<1>4. PICK c \in Entries \ alloc :
        /\ alloc' = alloc \cup {c} /\ AppendChild(entry[t], c, Head(rest[t]))
        /\ entry' = [entry EXCEPT ![t] = c]
  BY DEF Create
<1>5. PICK e \in Linked : e = entry[t]
  BY <1>1, <1>3 DEF Walk
<1>6. PICK part : part = Head(rest[t])
  OBVIOUS
<1>7. \A x \in Linked \ {Root} : parent[x] = e => name[x] # part
  BY <1>1, <1>5, <1>6, NoSuchChild
<1>8. AppendChild(e, c, part)
  BY <1>4, <1>5, <1>6
<1>9. TreeKept'
  BY <1>1, <1>2, <1>4, <1>7, <1>8, CreateTree
<1>10. childs'[c] = NULL /\ c \in Linked' /\ c # NULL
  BY <1>1, <1>2, <1>4, <1>8, AppendChildIs
<1>11. Tail(rest[t]) \in Seq(STRING)
  BY <1>1, <1>2, TailIs
<1>12. /\ DOMAIN entry' = Threads /\ entry'[t] = c
       /\ rest' \in [Threads -> Seq(STRING)]
       /\ \A u \in Threads \ {t} : rest'[u] = rest[u] /\ entry'[u] = entry[u]
  BY <1>1, <1>2, <1>4, <1>11 DEF LocalsType
<1>13. pc' = pc
  BY <1>1, <1>2 DEF LocalsType
<1>14. LocalsType'
  BY <1>1, <1>2, <1>12, <1>13 DEF LocalsType
<1>15. WalkOf(t)'
  <2>1. Seen(t, {})'
    BY <1>1, <1>10, <1>12 DEF Seen, Onward
  <2>2. Walk(t)'
    BY <1>1, <1>3, <1>10, <1>12, <2>1 DEF Walk
  <2>3. QED
    BY <1>1, <1>13, <2>2 DEF WalkOf
<1>16. mutex = t
  BY <1>3 DEF Walk
<1>17. QED
  BY <1>1, <1>9, <1>12, <1>13, <1>14, <1>15, <1>16, DbFrame

LEMMA CreateNoMemStep ==
  ASSUME DbInv, NEW t \in Threads, CreateNoMem(t)
  PROVE  DbInv'
<1>1. pc' = pc
  BY DEF CreateNoMem, Goto, DbInv, LocalsType
<1>2. UNCHANGED <<Fixed, mutex, job, rest, entry, cur, answer>>
  BY DEF CreateNoMem, tree, locals, Fixed
<1>3. QED
  BY <1>1, <1>2, DbStutters

\* The functions at the end of the walk.
LEMMA WorkSteps ==
  ASSUME DbInv, NEW t \in Threads, Working(t)
  PROVE  DbInv'
<1>1. /\ pc[t] = "walk" /\ rest[t] = <<>>
      /\ job[t].op \in {"set", "append", "get", "exist", "remove", "dump"}
  BY DEF Working, SetValue, AppendValue, KeyExist, GetValue, GetFails, Dump, RemoveMissing,
         RemoveEntry, Walked
<1>2. Walk(t) /\ mutex = t /\ TreeKept /\ LocalsType
  BY <1>1 DEF DbInv, WalkInv, Walk, TreeKept
<1>3. /\ pc' = [pc EXCEPT ![t] = "idle"] /\ Leave(t) /\ mutex' \in {mutex, NoThread}
      /\ DOMAIN answer' = Threads
  <2>1. DOMAIN answer = Threads
    BY <1>2 DEF LocalsType
  <2>2. ASSUME NEW v, Unlock(t, v)
        PROVE  /\ pc' = [pc EXCEPT ![t] = "idle"] /\ Leave(t) /\ mutex' \in {mutex, NoThread}
               /\ DOMAIN answer' = Threads
    BY <2>1, <2>2 DEF Unlock, Goto, Returns
  <2>3. CASE GetFails(t)
    BY <2>1, <2>3 DEF GetFails, Goto, Returns
  <2>4. CASE Dump(t)
    BY <2>2, <2>4 DEF Dump
  <2>5. CASE KeyExist(t) \/ GetValue(t)
    BY <2>2, <2>5 DEF KeyExist, GetValue
  <2>6. CASE SetValue(t) \/ AppendValue(t)
    BY <2>2, <2>6 DEF SetValue, AppendValue
  <2>7. CASE RemoveMissing(t) \/ RemoveEntry(t)
    BY <2>2, <2>7 DEF RemoveMissing, RemoveEntry
  <2>8. QED
    BY <2>3, <2>4, <2>5, <2>6, <2>7 DEF Working
<1>4. TreeKept'
  <2>1. CASE RemoveEntry(t)
    <3>1. PICK e \in Linked : e = entry[t] /\ e # Root
      BY <1>1, <1>2, <2>1 DEF RemoveEntry, Walked, Walk
    <3>2. PICK last : last = {c \in Below(e) : next[c] = NULL}
      OBVIOUS
    <3>3. PICK gone : gone = {e} \cup Below(e)
      OBVIOUS
    <3>4. /\ alloc' = alloc \ ({e} \cup (Below(e) \ last)) /\ lost' = lost \cup last
          /\ Unlink(e, gone)
      BY <2>1, <3>1, <3>2, <3>3 DEF RemoveEntry
    <3>5. last \subseteq Below(e)
      BY <3>2
    <3>6. QED
      BY <1>2, <3>1, <3>3, <3>4, <3>5, RemoveTree
  <2>2. CASE ~RemoveEntry(t)
    <3>1. UNCHANGED <<name, childs, parent, next, prev, alloc, lost>>
      BY <2>2 DEF Working, SetValue, AppendValue, KeyExist, GetValue, GetFails, Dump,
                  RemoveMissing, tree
    <3>2. QED
      BY <1>2, <3>1, TreeUntouched
  <2>3. QED
    BY <2>1, <2>2
<1>5. QED
  BY <1>2, <1>3, <1>4, ReturnStep

\* A listing holds no mutex and changes nothing but its own variables.
LEMMA ListSteps ==
  ASSUME DbInv, NEW t \in Threads, Listing(t)
  PROVE  DbInv'
<1>1. UNCHANGED <<mutex, answer, Fixed>>
  BY DEF Listing, ListNone, ListStart, ListCount, ListAlloc, ListCopy, ListOverflow, ListReturn,
         ListAstray, tree, Fixed
<1>2. UNCHANGED <<name, childs, parent, next, prev, alloc, lost>> /\ TreeKept /\ LocalsType
  BY <1>1 DEF Fixed, DbInv, TreeKept
<1>3. TreeKept' /\ DOMAIN answer' = Threads /\ mutex' \in {mutex, NoThread}
  BY <1>1, <1>2, TreeUntouched DEF LocalsType
<1>4. ASSUME pc' = [pc EXCEPT ![t] = "idle"], Leave(t) PROVE DbInv'
  BY <1>1, <1>3, <1>4, ReturnStep
<1>5. ASSUME pc' = [pc EXCEPT ![t] = pc[t]], UNCHANGED locals PROVE DbInv'
  <2>1. pc' = pc /\ UNCHANGED <<job, rest, entry, cur>>
    BY <1>2, <1>5 DEF LocalsType, locals
  <2>2. QED
    BY <1>1, <2>1, DbStutters
<1>6. ASSUME NEW p \in {"count", "copy"}, pc' = [pc EXCEPT ![t] = p], UNCHANGED <<job, rest>>,
             NEW e, entry' = entry \/ entry' = [entry EXCEPT ![t] = e],
             NEW c, cur' = [cur EXCEPT ![t] = c]
      PROVE  DbInv'
  <2>1. /\ DOMAIN entry' = Threads /\ DOMAIN cur' = Threads
        /\ \A u \in Threads \ {t} : entry'[u] = entry[u] /\ cur'[u] = cur[u]
    BY <1>2, <1>6 DEF LocalsType
  <2>2. /\ pc' \in [Threads -> {"idle", "lock", "walk", "count", "copy"}] /\ pc'[t] = p
        /\ \A u \in Threads \ {t} : pc'[u] = pc[u]
    BY <1>2, <1>6 DEF LocalsType
  <2>3. LocalsType'
    BY <1>1, <1>2, <1>6, <2>1, <2>2 DEF LocalsType
  <2>4. WalkOf(t)'
    BY <1>6, <2>2 DEF WalkOf
  <2>5. QED
    BY <1>1, <1>2, <1>3, <1>6, <2>1, <2>2, <2>3, <2>4, DbFrame
<1>7. CASE ListNone(t) \/ ListReturn(t)
  BY <1>4, <1>7 DEF ListNone, ListReturn, Goto
<1>8. CASE ListAstray(t)
  BY <1>4, <1>5, <1>8 DEF ListAstray, Goto
<1>9. CASE ListOverflow(t)
  BY <1>5, <1>9 DEF ListOverflow, Goto
<1>10. CASE ListStart(t)
  BY <1>6, <1>10 DEF ListStart, Goto
<1>11. CASE ListCount(t) \/ ListAlloc(t) \/ ListCopy(t)
  BY <1>6, <1>11 DEF ListCount, ListAlloc, ListCopy, Goto
<1>12. QED
  BY <1>7, <1>8, <1>9, <1>10, <1>11 DEF Listing

-------------------------------------------------------------------------------
(* The theorems *)

LEMMA DbInitInv == ASSUME Init PROVE DbInv
<1>1. /\ name = [e \in All |-> NULL] /\ childs = [e \in All |-> NULL]
      /\ parent = [e \in All |-> IF e = Root THEN Root ELSE NULL]
      /\ next = [e \in All |-> NULL] /\ prev = [e \in All |-> NULL]
      /\ alloc = {Root} /\ lost = {} /\ Root \in All /\ Linked = {Root}
  BY NullIs DEF Init, Linked
<1>2. TreeType
  BY <1>1 DEF TreeType, Pointers
<1>3. SiblingsInv /\ RootInv
  BY <1>1 DEF SiblingsInv, RootInv
<1>4. Hangs /\ OneList
  BY <1>1 DEF Hangs, OneList
<1>5. LocalsType /\ WalkInv
  <2>1. \A t \in Threads : job[t].op = "none" /\ job[t].path = <<>> /\ pc[t] = "idle"
    BY DEF Init, NoJob
  <2>2. LocalsType
    <3>1. /\ mutex = NoThread /\ pc = [t \in Threads |-> "idle"]
          /\ DOMAIN job = Threads /\ DOMAIN entry = Threads /\ DOMAIN cur = Threads
          /\ DOMAIN answer = Threads /\ rest = [t \in Threads |-> <<>>]
      BY DEF Init
    <3>2. rest \in [Threads -> Seq(STRING)] /\ <<>> \in Seq(STRING)
      BY <3>1
    <3>3. \A t \in Threads : job[t].op \in Ops /\ job[t].path \in Seq(STRING)
      BY <2>1, <3>2 DEF Ops
    <3>4. QED
      BY <3>1, <3>2, <3>3 DEF LocalsType
  <2>3. WalkInv
    BY <2>1 DEF WalkInv
  <2>4. QED
    BY <2>2, <2>3
<1>6. QED
  BY <1>2, <1>3, <1>4, <1>5 DEF DbInv

LEMMA DbStep ==
  ASSUME DbInv, [Next]_vars
  PROVE  DbInv'
<1>1. CASE UNCHANGED vars
  BY <1>1, DbStutters DEF vars, tree, locals, Fixed
<1>2. ASSUME NEW t \in Threads,
             Calling(t) \/ Lock(t) \/ Walking(t) \/ Working(t) \/ Listing(t)
      PROVE  DbInv'
  <2>1. CASE Walking(t)
    BY <2>1, FindSteps, CreateStep, CreateNoMemStep DEF Walking
  <2>2. QED
    BY <1>2, <2>1, CallSteps, LockStep, WorkSteps, ListSteps
<1>3. QED
  BY <1>1, <1>2 DEF Next

\* The invariant of the database: a tree of doubly linked lists, and under the
\* mutex a walk that has passed over no child of the name it looks for.
THEOREM DbInvariance == Spec => []DbInv
<1>1. Init => DbInv
  BY DbInitInv
<1>2. DbInv /\ [Next]_vars => DbInv'
  BY DbStep
<1>3. QED
  BY <1>1, <1>2, PTL DEF Spec

\* The entries in use are a tree of sibling lists below the root, with one entry
\* for a name, whatever is created and removed in whatever order.
THEOREM TreeInvHolds == Spec => []TreeInv
<1>1. DbInv => TreeInv
  <2>1. SUFFICES ASSUME DbInv PROVE TreeInv
    OBVIOUS
  <2>2. TreeType /\ SiblingsInv /\ RootInv /\ Hangs
    BY <2>1 DEF DbInv
  <2>3. Linked \ {Root} = Below(Root)
    BY <2>2 DEF Below, Hangs
  <2>4. NULL \notin lost /\ Linked \cap lost = {}
    BY <2>2, NullIs DEF TreeType, Linked
  <2>5. \A e \in Linked : next[e] \notin lost /\ childs[e] \notin lost
    BY <2>2, <2>4, LinksIn
  <2>6. QED
    BY <2>2, <2>3, <2>5 DEF TreeInv
<1>2. QED
  BY <1>1, DbInvariance, PTL

\* A thread that walks down the tree has the mutex and meets only entries of the
\* tree, however many listings run beside it.
THEOREM LockedReadsHolds == Spec => []LockedReads
<1>1. DbInv => LockedReads
  BY DEF DbInv, WalkInv, Walk, LockedReads
<1>2. QED
  BY <1>1, DbInvariance, PTL

\* Every function releases the mutex but csdb_get_value_for_key where it fails.
THEOREM ReturnsUnlockedHolds == Spec => ReturnsUnlocked
<1>1. ASSUME DbInv, [Next]_vars, NEW t \in Threads,
             pc[t] = "walk", job[t].op # "list", pc'[t] = "idle"
      PROVE  mutex' = NoThread \/ answer'[t] \in {<<"invalid key">>, <<"no leaf">>}
  <2>1. DOMAIN pc = Threads /\ DOMAIN answer = Threads
    BY <1>1 DEF DbInv, LocalsType
  <2>2. ~UNCHANGED vars
    BY <1>1 DEF vars
  <2>3. PICK u \in Threads :
          Calling(u) \/ Lock(u) \/ Walking(u) \/ Working(u) \/ Listing(u)
    BY <1>1, <2>2 DEF Next
  <2>4. ASSUME NEW from, NEW to, Goto(u, from, to)
        PROVE  pc'[u] = to /\ pc[u] = from /\ \A v \in Threads \ {u} : pc'[v] = pc[v]
    BY <2>1, <2>4 DEF Goto
  <2>5. ASSUME NEW v, Unlock(u, v) PROVE mutex' = NoThread
    BY <2>5 DEF Unlock
  <2>6. CASE Working(u)
    <3>1. CASE GetFails(u)
      <4>1. u = t
        BY <1>1, <2>4, <3>1 DEF GetFails
      <4>2. QED
        BY <2>1, <3>1, <4>1 DEF GetFails, Returns
    <3>2. CASE ~GetFails(u)
      BY <2>5, <2>6, <3>2 DEF Working, SetValue, AppendValue, KeyExist, GetValue, Dump,
                              RemoveMissing, RemoveEntry
    <3>3. QED
      BY <3>1, <3>2
  <2>7. CASE Listing(u)
    <3>1. CASE ListNone(u)
      BY <1>1, <2>4, <3>1 DEF ListNone, Walked
    <3>2. CASE ListReturn(u)
      <4>1. pc[u] = "copy" /\ \A v \in Threads \ {u} : pc'[v] = pc[v]
        BY <2>4, <3>2 DEF ListReturn
      <4>2. QED
        BY <1>1, <4>1
    <3>3. CASE ListAstray(u)
      <4>1. job[u].op = "list" /\ (Goto(u, pc[u], pc[u]) \/ Goto(u, pc[u], "idle"))
        BY <3>3 DEF ListAstray, Astray
      <4>2. \A v \in Threads \ {u} : pc'[v] = pc[v]
        BY <2>4, <4>1
      <4>3. QED
        BY <1>1, <4>1, <4>2
    <3>4. CASE ListStart(u)
      <4>1. pc'[u] = "count" /\ \A v \in Threads \ {u} : pc'[v] = pc[v]
        BY <2>4, <3>4 DEF ListStart
      <4>2. QED
        BY <1>1, <4>1
    <3>5. CASE ListCount(u) \/ ListAlloc(u)
      BY <1>1, <2>4, <3>5 DEF ListCount, ListAlloc
    <3>6. CASE ListCopy(u) \/ ListOverflow(u)
      BY <1>1, <2>4, <3>6 DEF ListCopy, ListOverflow
    <3>7. QED
      BY <2>7, <3>1, <3>2, <3>3, <3>4, <3>5, <3>6 DEF Listing
  <2>8. CASE Lock(u) \/ Walking(u)
    BY <1>1, <2>4, <2>8 DEF Lock, Walking, Hop, Found, NotFound, Create, CreateNoMem
  <2>9. CASE Calling(u)
    BY <1>1, <2>4, <2>9 DEF Calling, Call, CallList, RemoveRoot
  <2>10. QED
    BY <2>3, <2>6, <2>7, <2>8, <2>9
<1>2. DbInv /\ [Next]_vars =>
        [\A t \in Threads :
           pc[t] = "walk" /\ job[t].op # "list" /\ pc'[t] = "idle" =>
             mutex' = NoThread \/ answer'[t] \in {<<"invalid key">>, <<"no leaf">>}]_vars
  BY <1>1
<1>3. QED
  BY <1>2, DbInvariance, PTL DEF Spec, ReturnsUnlocked

-------------------------------------------------------------------------------
(* Keys *)

\* The parts of which keys are made.
Parts == STRING

\* The recursion of Key: f gives the entries of L their keys.
IsPath(f, L, up, nam) ==
  f = [c \in L |-> IF c = Root THEN <<>> ELSE Append(f[up[c]], nam[c])]

PathInv == \E f : IsPath(f, Linked, parent, name)

Keys == CHOOSE f : IsPath(f, Linked, parent, name)

NameInv == DOMAIN value = All /\ \A c \in Linked \ {Root} : name[c] \in Parts

LEMMA KeyIs == \A e : Key(e) = Keys[e]
BY Zenon DEF Key, Keys, IsPath

\* The key of an entry is that of its parent and its name.
LEMMA KeysAre ==
  ASSUME PathInv
  PROVE  /\ IsPath(Keys, Linked, parent, name)
         /\ Root \in Linked => Keys[Root] = <<>>
         /\ \A c \in Linked : c # Root => Keys[c] = Append(Keys[parent[c]], name[c])
<1>1. IsPath(Keys, Linked, parent, name)
  BY Zenon DEF PathInv, Keys
<1>2. \A c \in Linked : Keys[c] = IF c = Root THEN <<>> ELSE Append(Keys[parent[c]], name[c])
  BY <1>1 DEF IsPath
<1>3. QED
  BY <1>1, <1>2

\* Two trees that agree on an entry and on those above it give it the same key.
LEMMA SameKeys ==
  ASSUME Hangs, RootInv, Root \in Linked, NEW f, IsPath(f, Linked, parent, name),
         NEW M, Root \in M, NEW up, NEW nam, NEW g, IsPath(g, M, up, nam),
         \A c \in M : c \in Linked /\ c # Root =>
           up[c] = parent[c] /\ nam[c] = name[c] /\ parent[c] \in M
  PROVE  \A c \in M : c \in Linked => g[c] = f[c]
<1>1. /\ \A c \in Linked : f[c] = IF c = Root THEN <<>> ELSE Append(f[parent[c]], name[c])
      /\ \A c \in M : g[c] = IF c = Root THEN <<>> ELSE Append(g[up[c]], nam[c])
  BY DEF IsPath
<1>2. PICK S : S = {c \in Linked : c \in M => g[c] = f[c]}
  OBVIOUS
<1>3. S \in SUBSET Linked /\ Root \in S
  BY <1>1, <1>2
<1>4. ASSUME NEW c \in Linked, parent[c] \in S PROVE c \in S
  <2>1. CASE c = Root \/ c \notin M
    BY <1>3, <1>2, <1>4, <2>1
  <2>2. CASE c # Root /\ c \in M
    <3>1. g[parent[c]] = f[parent[c]]
      BY <1>2, <1>4, <2>2
    <3>2. g[c] = f[c]
      BY <1>1, <1>4, <2>2, <3>1
    <3>3. QED
      BY <1>2, <1>4, <3>2
  <2>3. QED
    BY <2>1, <2>2
<1>5. Linked \subseteq S
  BY <1>3, <1>4 DEF Hangs, Downward
<1>6. QED
  BY <1>2, <1>5

LEMMA KeysType ==
  ASSUME TreeKept, PathInv, NameInv
  PROVE  \A c \in Linked : Keys[c] \in Seq(Parts)
<1>1. PICK S : S = {c \in Linked : Keys[c] \in Seq(Parts)}
  OBVIOUS
<1>2. Root \in Linked
  BY DEF TreeKept, TreeType
<1>3. S \in SUBSET Linked /\ Root \in S
  <2>1. Keys[Root] = <<>> /\ <<>> \in Seq(Parts)
    BY <1>2, KeysAre
  <2>2. QED
    BY <1>1, <1>2, <2>1
<1>4. ASSUME NEW c \in Linked, parent[c] \in S PROVE c \in S
  <2>1. CASE c = Root
    BY <1>3, <2>1
  <2>2. CASE c # Root
    <3>1. name[c] \in Parts /\ Keys[parent[c]] \in Seq(Parts)
      BY <1>1, <1>4, <2>2 DEF NameInv
    <3>2. Keys[c] \in Seq(Parts)
      BY <2>2, <3>1, KeysAre, AppendProperties
    <3>3. QED
      BY <1>1, <3>2
  <2>3. QED
    BY <2>1, <2>2
<1>5. QED
  BY <1>1, <1>3, <1>4 DEF TreeKept, Hangs, Downward

LEMMA AppendParts ==
  \A s, r \in Seq(Parts) : \A a, b \in Parts : Append(s, a) = Append(r, b) => s = r /\ a = b
BY AppendInjective

\* No two entries have the same key: siblings differ in their names.
LEMMA KeysDiffer ==
  ASSUME TreeKept, PathInv, NameInv
  PROVE  \A c, d \in Linked : Keys[c] = Keys[d] => c = d
<1>1. PICK S : S = {c \in Linked : \A d \in Linked : Keys[c] = Keys[d] => c = d}
  OBVIOUS
<1>2. Root \in Linked /\ SiblingsInv /\ RootInv /\ Hangs
  BY DEF TreeKept, TreeType
<1>3. ASSUME NEW d \in Linked, d # Root
      PROVE  /\ Keys[d] = Append(Keys[parent[d]], name[d]) /\ name[d] \in Parts
             /\ parent[d] \in Linked /\ Keys[parent[d]] \in Seq(Parts) /\ Keys[d] # <<>>
  <2>1. parent[d] \in Linked /\ name[d] \in Parts
    BY <1>2, <1>3 DEF SiblingsInv, NameInv
  <2>2. Keys[parent[d]] \in Seq(Parts)
    BY <2>1, KeysType
  <2>3. Keys[d] = Append(Keys[parent[d]], name[d])
    BY <1>3, KeysAre
  <2>4. QED
    BY <2>1, <2>2, <2>3, AppendProperties
<1>4. S \in SUBSET Linked /\ Root \in S
  BY <1>1, <1>2, <1>3, KeysAre
<1>5. ASSUME NEW c \in Linked, parent[c] \in S PROVE c \in S
  <2>1. CASE c = Root
    BY <1>4, <2>1
  <2>2. CASE c # Root
    <3>1. ASSUME NEW d \in Linked, Keys[c] = Keys[d] PROVE c = d
      <4>1. d # Root
        BY <1>2, <1>3, <2>2, <3>1, KeysAre
      <4>2. Keys[parent[c]] = Keys[parent[d]] /\ name[c] = name[d]
        <5>1. Append(Keys[parent[c]], name[c]) = Append(Keys[parent[d]], name[d])
          BY <1>3, <2>2, <3>1, <4>1
        <5>2. /\ Keys[parent[c]] \in Seq(Parts) /\ name[c] \in Parts
              /\ Keys[parent[d]] \in Seq(Parts) /\ name[d] \in Parts
          BY <1>3, <2>2, <4>1
        <5>3. QED
          BY <5>1, <5>2, AppendParts, Zenon
      <4>3. parent[c] = parent[d]
        BY <1>1, <1>3, <1>5, <4>1, <4>2
      <4>4. QED
        BY <1>2, <2>2, <4>1, <4>2, <4>3 DEF SiblingsInv
    <3>2. QED
      BY <1>1, <3>1
  <2>3. QED
    BY <2>1, <2>2
<1>6. QED
  BY <1>1, <1>2, <1>4, <1>5 DEF Hangs, Downward

-------------------------------------------------------------------------------
(* Prefixes of a key *)

LEMMA PrefixEmpty == D!Prefixes(<<>>) = {<<>>}
<1>1. \A i \in 0 .. Len(<<>>) : SubSeq(<<>>, 1, i) = <<>>
  OBVIOUS
<1>2. 0 \in 0 .. Len(<<>>)
  OBVIOUS
<1>3. QED
  BY <1>1, <1>2 DEF D!Prefixes

LEMMA PrefixSelf == \A s \in Seq(Parts) : s \in D!Prefixes(s)
<1>1. ASSUME NEW s \in Seq(Parts) PROVE s \in D!Prefixes(s)
  <2>1. SubSeq(s, 1, Len(s)) = s /\ Len(s) \in 0 .. Len(s)
    BY SubSeqFull
  <2>2. QED
    BY <2>1 DEF D!Prefixes
<1>2. QED
  BY <1>1

LEMMA PrefixAppend ==
  ASSUME NEW s \in Seq(Parts), NEW a \in Parts
  PROVE  D!Prefixes(Append(s, a)) = D!Prefixes(s) \cup {Append(s, a)}
<1>1. PICK r \in Seq(Parts) :
        /\ r = Append(s, a) /\ Len(r) = Len(s) + 1 /\ \A i \in 1 .. Len(s) : r[i] = s[i]
  <2>1. /\ Append(s, a) \in Seq(Parts) /\ Len(Append(s, a)) = Len(s) + 1
        /\ \A i \in 1 .. Len(s) : Append(s, a)[i] = s[i]
    BY AppendProperties
  <2>2. QED
    BY <2>1
<1>2. Len(s) \in Nat
  OBVIOUS
<1>3. ASSUME NEW i \in 0 .. Len(s) PROVE SubSeq(r, 1, i) = SubSeq(s, 1, i)
  <2>1. \A k \in 1 .. i : r[k] = s[k] /\ r[k] \in Parts
    BY <1>1, <1>2, <1>3
  <2>2. /\ SubSeq(r, 1, i) \in Seq(Parts) /\ Len(SubSeq(r, 1, i)) = i
        /\ \A k \in 1 .. i : SubSeq(r, 1, i)[k] = r[k]
    BY <1>1, <1>2, <1>3, <2>1
  <2>3. /\ SubSeq(s, 1, i) \in Seq(Parts) /\ Len(SubSeq(s, 1, i)) = i
        /\ \A k \in 1 .. i : SubSeq(s, 1, i)[k] = s[k]
    BY <1>1, <1>2, <1>3, <2>1
  <2>4. QED
    BY <2>1, <2>2, <2>3, SeqEqual
<1>4. SubSeq(r, 1, Len(s) + 1) = r
  BY <1>1, SubSeqFull
<1>5. 0 .. Len(r) = (0 .. Len(s)) \cup {Len(s) + 1}
  BY <1>1, <1>2
<1>6. QED
  <2>1. \A q : q \in D!Prefixes(r) <=> \E i \in 0 .. Len(r) : q = SubSeq(r, 1, i)
    BY DEF D!Prefixes
  <2>2. \A q : q \in D!Prefixes(s) <=> \E i \in 0 .. Len(s) : q = SubSeq(s, 1, i)
    BY DEF D!Prefixes
  <2>3. \A i : i \in 0 .. Len(r) <=> i \in 0 .. Len(s) \/ i = Len(s) + 1
    BY <1>5
  <2>4. ASSUME NEW q PROVE q \in D!Prefixes(r) <=> q \in D!Prefixes(s) \/ q = r
    <3>1. ASSUME NEW i \in 0 .. Len(r), q = SubSeq(r, 1, i) PROVE q \in D!Prefixes(s) \/ q = r
      BY <1>3, <1>4, <2>2, <2>3, <3>1
    <3>2. ASSUME NEW i \in 0 .. Len(s), q = SubSeq(s, 1, i) PROVE q \in D!Prefixes(r)
      BY <1>3, <2>1, <2>3, <3>2
    <3>3. r \in D!Prefixes(r)
      BY <1>4, <2>1, <2>3
    <3>4. QED
      BY <2>1, <2>2, <3>1, <3>2, <3>3
  <2>5. D!Prefixes(r) = D!Prefixes(s) \cup {r}
    BY <2>4
  <2>6. QED
    BY <1>1, <2>5

LEMMA PrefixConcat ==
  ASSUME NEW s \in Seq(Parts), NEW r \in Seq(Parts)
  PROVE  s \in D!Prefixes(s \o r)
<1>1. PICK q \in Seq(Parts) :
        /\ q = s \o r /\ Len(q) = Len(s) + Len(r) /\ \A i \in 1 .. Len(s) : q[i] = s[i]
  <2>1. /\ s \o r \in Seq(Parts) /\ Len(s \o r) = Len(s) + Len(r)
        /\ \A i \in 1 .. Len(s) : (s \o r)[i] = s[i]
    OBVIOUS
  <2>2. QED
    BY <2>1
<1>2. SubSeq(q, 1, Len(s)) = s
  BY <1>1
<1>3. Len(s) \in 0 .. Len(q)
  BY <1>1
<1>4. QED
  BY <1>1, <1>2, <1>3 DEF D!Prefixes

-------------------------------------------------------------------------------
(* Keys and the tree *)

LEMMA PrefixOfChild ==
  ASSUME TreeKept, PathInv, NameInv, NEW c \in Linked, c # Root
  PROVE  D!Prefixes(Keys[c]) = D!Prefixes(Keys[parent[c]]) \cup {Keys[c]}
<1>1. parent[c] \in Linked /\ name[c] \in Parts
  BY DEF NameInv, TreeKept, SiblingsInv
<1>2. Keys[parent[c]] \in Seq(Parts)
  BY <1>1, KeysType
<1>3. Keys[c] = Append(Keys[parent[c]], name[c])
  BY KeysAre
<1>4. \A s \in Seq(Parts) : \A a \in Parts :
        D!Prefixes(Append(s, a)) = D!Prefixes(s) \cup {Append(s, a)}
  BY PrefixAppend
<1>5. QED
  BY <1>1, <1>2, <1>3, <1>4, Zenon

\* With a key the tree has every prefix of it.
LEMMA PrefixesAreKeys ==
  ASSUME TreeKept, PathInv, NameInv
  PROVE  \A c \in Linked : \A q \in D!Prefixes(Keys[c]) : \E d \in Linked : Keys[d] = q
<1>1. PICK S : S = {c \in Linked : \A q \in D!Prefixes(Keys[c]) : \E d \in Linked : Keys[d] = q}
  OBVIOUS
<1>2. Root \in Linked /\ Keys[Root] = <<>> /\ Hangs
  BY KeysAre DEF TreeKept, TreeType
<1>3. S \in SUBSET Linked /\ Root \in S
  BY <1>1, <1>2, PrefixEmpty
<1>4. ASSUME NEW c \in Linked, parent[c] \in S PROVE c \in S
  <2>1. CASE c = Root
    BY <1>3, <2>1
  <2>2. CASE c # Root
    <3>1. D!Prefixes(Keys[c]) = D!Prefixes(Keys[parent[c]]) \cup {Keys[c]}
      BY <1>4, <2>2, PrefixOfChild
    <3>2. QED
      BY <1>1, <1>4, <3>1
  <2>3. QED
    BY <2>1, <2>2
<1>5. QED
  BY <1>1, <1>2, <1>3, <1>4 DEF Hangs, Downward

\* What is below an entry in the tree is what has a longer key.
LEMMA BelowIs ==
  ASSUME TreeKept, PathInv, NameInv, NEW e \in Linked
  PROVE  \A x : x \in Below(e) <=> x \in Linked /\ x # e /\ Keys[e] \in D!Prefixes(Keys[x])
<1>1. Root \in Linked /\ Keys[Root] = <<>> /\ Hangs /\ RootInv
  BY KeysAre DEF TreeKept, TreeType
<1>2. \A x : x \in Below(e) <=>
        /\ x \in Linked /\ x # e
        /\ \A S \in SUBSET Linked : e \in S /\ Downward(S) => x \in S
  BY DEF Below
<1>3. ASSUME NEW x \in Below(e) PROVE Keys[e] \in D!Prefixes(Keys[x])
  <2>1. PICK S : S = {c \in Linked : Keys[e] \in D!Prefixes(Keys[c])}
    OBVIOUS
  <2>2. S \in SUBSET Linked /\ e \in S
    BY <2>1, KeysType, PrefixSelf
  <2>3. ASSUME NEW c \in Linked, parent[c] \in S PROVE c \in S
    <3>1. CASE c = Root
      BY <1>1, <2>3, <3>1 DEF RootInv
    <3>2. CASE c # Root
      BY <2>1, <2>3, <3>2, PrefixOfChild
    <3>3. QED
      BY <3>1, <3>2
  <2>4. QED
    BY <1>2, <1>3, <2>1, <2>2, <2>3 DEF Downward
<1>4. ASSUME NEW c \in Linked, parent[c] \in {e} \cup Below(e) PROVE c \in {e} \cup Below(e)
  <2>1. ASSUME NEW S \in SUBSET Linked, e \in S, Downward(S) PROVE c \in S
    <3>1. parent[c] \in S
      BY <1>2, <1>4, <2>1
    <3>2. QED
      BY <1>4, <2>1, <3>1 DEF Downward
  <2>2. QED
    BY <1>2, <1>4, <2>1
<1>5. PICK S : S = {c \in Linked : Keys[e] \in D!Prefixes(Keys[c]) => c \in {e} \cup Below(e)}
  OBVIOUS
<1>6. S \in SUBSET Linked /\ Root \in S
  BY <1>1, <1>5, PrefixEmpty, KeysDiffer
<1>7. ASSUME NEW c \in Linked, parent[c] \in S PROVE c \in S
  <2>1. CASE c = Root
    BY <1>6, <2>1
  <2>2. CASE c # Root
    <3>1. ASSUME Keys[e] \in D!Prefixes(Keys[c]) PROVE c \in {e} \cup Below(e)
      <4>1. Keys[e] \in D!Prefixes(Keys[parent[c]]) \/ Keys[e] = Keys[c]
        BY <2>2, <3>1, PrefixOfChild
      <4>2. CASE Keys[e] = Keys[c]
        BY <1>7, <4>2, KeysDiffer
      <4>3. CASE Keys[e] \in D!Prefixes(Keys[parent[c]])
        <5>1. parent[c] \in {e} \cup Below(e)
          BY <1>5, <1>7, <4>3
        <5>2. QED
          BY <1>4, <1>7, <5>1
      <4>4. QED
        BY <4>1, <4>2, <4>3
    <3>2. QED
      BY <1>5, <1>7, <3>1
  <2>3. QED
    BY <2>1, <2>2
<1>8. Linked \subseteq S
  BY <1>1, <1>6, <1>7 DEF Hangs, Downward
<1>9. QED
  BY <1>2, <1>3, <1>5, <1>8

\* Keys change neither where the tree does not,
LEMMA KeysUntouched ==
  ASSUME PathInv, UNCHANGED <<name, parent, alloc, lost>>
  PROVE  PathInv' /\ Keys' = Keys /\ Linked' = Linked
BY DEF PathInv, Keys, IsPath, Linked

\* nor where a child is made,
LEMMA CreateKeys ==
  ASSUME TreeKept, PathInv, NEW e \in Linked, NEW c \in Entries \ alloc, NEW part,
         AppendChild(e, c, part), alloc' = alloc \cup {c}, lost' = lost
  PROVE  /\ PathInv' /\ Keys'[c] = Append(Keys[e], part)
         /\ \A x \in Linked : Keys'[x] = Keys[x]
<1>1. TreeType /\ SiblingsInv /\ RootInv /\ Hangs /\ Root \in Linked
  BY DEF TreeKept, TreeType
<1>2. /\ \A x : x \in Linked' <=> x \in Linked \/ x = c
      /\ c \notin Linked /\ c \in All /\ c # Root /\ c # NULL
      /\ name'[c] = part /\ parent'[c] = e
      /\ \A x \in Linked : name'[x] = name[x] /\ parent'[x] = parent[x]
  BY <1>1, AppendChildIs
<1>3. \A x \in Linked : parent[x] \in Linked
  BY <1>1 DEF SiblingsInv, RootInv
<1>4. /\ IsPath(Keys, Linked, parent, name) /\ Keys[Root] = <<>>
      /\ \A x \in Linked : x # Root => Keys[x] = Append(Keys[parent[x]], name[x])
  BY <1>1, KeysAre
<1>5. PICK g : g = [x \in Linked' |-> IF x = c THEN Append(Keys[e], part) ELSE Keys[x]]
  OBVIOUS
<1>6. g[c] = Append(Keys[e], part) /\ \A x \in Linked : g[x] = Keys[x]
  BY <1>2, <1>5
<1>7. \A x \in Linked' :
        g[x] = IF x = Root THEN <<>> ELSE Append(g[parent'[x]], name'[x])
  <2>1. g[c] = Append(g[parent'[c]], name'[c]) /\ c # Root
    BY <1>2, <1>6
  <2>2. g[Root] = <<>>
    BY <1>1, <1>4, <1>6
  <2>3. ASSUME NEW x \in Linked, x # Root PROVE g[x] = Append(g[parent'[x]], name'[x])
    BY <1>2, <1>3, <1>4, <1>6, <2>3
  <2>4. QED
    BY <1>2, <2>1, <2>2, <2>3
<1>8. IsPath(g, Linked', parent', name')
  <2>1. g = [x \in Linked' |-> g[x]]
    BY <1>5
  <2>2. QED
    BY <1>7, <2>1, Zenon DEF IsPath
<1>9. PathInv'
  BY <1>8 DEF PathInv
<1>10. IsPath(Keys', Linked', parent', name')
  BY <1>9, Zenon DEF PathInv, Keys
<1>11. \A x \in Linked : Keys'[x] = Keys[x]
  BY <1>1, <1>2, <1>3, <1>4, <1>10, SameKeys
<1>12. Keys'[c] = Append(Keys'[parent'[c]], name'[c])
  BY <1>2, <1>10 DEF IsPath
<1>13. QED
  BY <1>2, <1>9, <1>11, <1>12

\* nor for what is left where an entry is removed.
LEMMA RemoveKeys ==
  ASSUME TreeKept, PathInv, NEW e \in Linked, e # Root, NEW gone, gone = {e} \cup Below(e),
         NEW last, last \subseteq Below(e), Unlink(e, gone),
         alloc' = alloc \ ({e} \cup (Below(e) \ last)), lost' = lost \cup last
  PROVE  PathInv' /\ \A x \in Linked' : Keys'[x] = Keys[x]
<1>1. TreeType /\ SiblingsInv /\ RootInv /\ Hangs /\ Root \in Linked
  BY DEF TreeKept, TreeType
<1>2. /\ \A x : x \in Linked' <=> x \in Linked /\ x \notin gone
      /\ \A x \in Linked' : name'[x] = name[x] /\ parent'[x] = parent[x]
  BY UnlinkIs
<1>3. gone \subseteq Linked \ {Root} /\ \A x \in Linked : parent[x] \in gone => x \in gone
  BY SubtreeIs
<1>4. /\ IsPath(Keys, Linked, parent, name) /\ Keys[Root] = <<>>
      /\ \A x \in Linked : x # Root => Keys[x] = Append(Keys[parent[x]], name[x])
  BY <1>1, KeysAre
<1>5. \A x \in Linked' : parent[x] \in Linked'
  BY <1>1, <1>2, <1>3 DEF SiblingsInv, RootInv
<1>6. PICK g : g = [x \in Linked' |-> Keys[x]]
  OBVIOUS
<1>7. \A x \in Linked' :
        g[x] = IF x = Root THEN <<>> ELSE Append(g[parent'[x]], name'[x])
  BY <1>2, <1>4, <1>5, <1>6
<1>8. IsPath(g, Linked', parent', name')
  BY <1>6, <1>7 DEF IsPath
<1>9. PathInv'
  BY <1>8 DEF PathInv
<1>10. IsPath(Keys', Linked', parent', name')
  BY <1>9, Zenon DEF PathInv, Keys
<1>11. Root \in Linked'
  BY <1>1, <1>2, <1>3
<1>12. \A x \in Linked' : Keys'[x] = Keys[x]
  BY <1>1, <1>2, <1>4, <1>5, <1>10, <1>11, SameKeys
<1>13. QED
  BY <1>9, <1>12

-------------------------------------------------------------------------------
(* The walk along a key *)

\* A thread on its way with the mutex: what it has found and what is left make
\* up its key; where it has found nothing, there is no such key.
PathWalk(t) ==
  /\ cur[t] # NULL => parent[cur[t]] = entry[t]
  /\ entry[t] # NULL => Keys[entry[t]] \o rest[t] = job[t].path
  /\ entry[t] = NULL => \A x \in Linked : Keys[x] # job[t].path

WalkKeys == \A t \in Threads : job[t].op # "list" /\ pc[t] = "walk" => PathWalk(t)

\* Entries just made have no value yet; they belong to the thread that has the
\* mutex, and lie on the way to its key.
FreshInv ==
  /\ fresh \subseteq Linked \ {Root}
  /\ fresh # {} => mutex \in Threads /\ pc[mutex] = "walk" /\ job[mutex].op = "set"
  /\ \A f \in fresh : value[f] = NoValue /\ Keys[f] \in D!Prefixes(job[mutex].path)

ModeOf(t) ==
  /\ pc[t] = "idle" => job[t] = NoJob
  /\ pc[t] \in {"count", "copy"} => job[t].op = "list"

ModeInv == \A t \in Threads : ModeOf(t)

KeyInv == PathInv /\ NameInv /\ WalkKeys /\ FreshInv /\ ModeInv

LEMMA SplitHead ==
  ASSUME NEW s \in Seq(Parts), NEW r \in Seq(Parts), r # <<>>
  PROVE  /\ Head(r) \in Parts /\ Tail(r) \in Seq(Parts) /\ Append(s, Head(r)) \in Seq(Parts)
         /\ Append(s, Head(r)) \o Tail(r) = s \o r
<1>1. Head(r) \in Parts /\ Tail(r) \in Seq(Parts)
  BY HeadTailProperties
<1>2. Append(s, Head(r)) \in Seq(Parts)
  BY <1>1, AppendProperties
<1>3. Append(s, Head(r)) \o Tail(r) = s \o r
  BY <1>1, <1>2
<1>4. QED
  BY <1>1, <1>2, <1>3

LEMMA RestIs ==
  ASSUME DbInv, NEW t \in Threads
  PROVE  rest[t] \in Seq(Parts) /\ job[t].path \in Seq(Parts)
BY DEF DbInv, LocalsType, Parts

LEMMA QuietTree ==
  ASSUME PathInv, NameInv, UNCHANGED Fixed, DOMAIN value' = All
  PROVE  PathInv' /\ NameInv' /\ Keys' = Keys /\ Linked' = Linked
<1>1. UNCHANGED <<name, parent, alloc, lost>>
  BY DEF Fixed
<1>2. PathInv' /\ Keys' = Keys /\ Linked' = Linked
  BY <1>1, KeysUntouched
<1>3. QED
  BY <1>1, <1>2 DEF NameInv

LEMMA KeyFrame ==
  ASSUME DbInv, KeyInv, NEW t \in Threads, PathInv', NameInv', FreshInv', ModeOf(t)',
         \A u \in Threads \ {t} :
           /\ pc'[u] = pc[u] /\ job'[u] = job[u] /\ rest'[u] = rest[u]
           /\ entry'[u] = entry[u] /\ cur'[u] = cur[u],
         mutex \in {t, NoThread} \/ UNCHANGED Fixed,
         job'[t].op # "list" /\ pc'[t] = "walk" => PathWalk(t)'
  PROVE  KeyInv'
<1>1. ASSUME NEW u \in Threads, job'[u].op # "list", pc'[u] = "walk" PROVE PathWalk(u)'
  <2>1. CASE u = t
    BY <1>1, <2>1
  <2>2. CASE u # t
    <3>1. job[u].op # "list" /\ pc[u] = "walk"
      BY <1>1, <2>2
    <3>2. PathWalk(u) /\ mutex = u
      BY <3>1 DEF KeyInv, WalkKeys, DbInv, WalkInv, Walk
    <3>3. UNCHANGED Fixed
      BY <2>2, <3>2, NullIs
    <3>4. Keys' = Keys /\ Linked' = Linked /\ parent' = parent
      BY <3>3, KeysUntouched DEF Fixed, KeyInv
    <3>5. QED
      BY <2>2, <3>2, <3>4 DEF PathWalk
  <2>3. QED
    BY <2>1, <2>2
<1>2. ModeInv'
  BY DEF KeyInv, ModeInv, ModeOf
<1>3. QED
  BY <1>1, <1>2 DEF KeyInv, WalkKeys

\* The new entries stay the same while their thread does not move.
LEMMA FreshKept ==
  ASSUME KeyInv, UNCHANGED <<Fixed, fresh, mutex>>,
         fresh # {} => pc'[mutex] = pc[mutex] /\ job'[mutex] = job[mutex] /\ value' = value
  PROVE  FreshInv'
<1>1. Keys' = Keys /\ Linked' = Linked
  BY KeysUntouched DEF Fixed, KeyInv
<1>2. QED
  BY <1>1 DEF KeyInv, FreshInv

-------------------------------------------------------------------------------
(* The steps *)

LEMMA KeyCalls ==
  ASSUME DbInv, KeyInv, NEW t \in Threads, Calling(t)
  PROVE  KeyInv'
<1>1. PICK j \in Jobs[t] : (\E w \in Words : Call(t, j, w)) \/ CallList(t, j) \/ RemoveRoot(t, j)
  BY DEF Calling
<1>2. /\ DOMAIN pc = Threads /\ DOMAIN job = Threads /\ DOMAIN rest = Threads
      /\ DOMAIN entry = Threads /\ DOMAIN cur = Threads
  BY DEF DbInv, LocalsType
<1>3. pc[t] = "idle" /\ UNCHANGED <<Fixed, value, fresh, mutex>> /\ job[t] = NoJob
  BY <1>1 DEF Call, CallList, RemoveRoot, Goto, tree, Fixed, KeyInv, ModeInv, ModeOf
<1>4. PathInv' /\ NameInv' /\ Keys' = Keys /\ Linked' = Linked
  BY <1>3, QuietTree DEF KeyInv, NameInv
<1>5. \A u \in Threads \ {t} :
        /\ pc'[u] = pc[u] /\ job'[u] = job[u] /\ rest'[u] = rest[u]
        /\ entry'[u] = entry[u] /\ cur'[u] = cur[u]
  BY <1>1, <1>2 DEF Call, CallList, RemoveRoot, Goto, locals
<1>6. fresh # {} => mutex \in Threads \ {t}
  BY <1>3 DEF KeyInv, FreshInv
<1>7. FreshInv'
  BY <1>3, <1>5, <1>6, FreshKept
<1>8. \/ pc'[t] = "lock"
      \/ pc'[t] = "walk" /\ job'[t].op = "list"
      \/ pc'[t] = "idle" /\ job'[t] = NoJob
  BY <1>1, <1>2, <1>3 DEF Call, CallList, RemoveRoot, Goto, locals
<1>9. ModeOf(t)' /\ ~(job'[t].op # "list" /\ pc'[t] = "walk")
  BY <1>8 DEF ModeOf
<1>10. QED
  BY <1>3, <1>4, <1>5, <1>7, <1>9, KeyFrame

LEMMA KeyDescends ==
  ASSUME DbInv, KeyInv, NEW t \in Threads, NEW e \in Linked \cup {NULL}, NEW parts,
         Descend(t, e, parts), pc' = [pc EXCEPT ![t] = "walk"], UNCHANGED <<Fixed, value>>, FreshInv',
         e # NULL /\ job[t].op # "list" => Keys[e] \o parts = job[t].path,
         e = NULL /\ job[t].op # "list" => \A x \in Linked : Keys[x] # job[t].path
  PROVE  KeyInv'
<1>1. /\ DOMAIN pc = Threads /\ DOMAIN job = Threads /\ DOMAIN rest = Threads
      /\ DOMAIN entry = Threads /\ DOMAIN cur = Threads
  BY DEF DbInv, LocalsType
<1>2. PathInv' /\ NameInv' /\ Keys' = Keys /\ Linked' = Linked /\ parent' = parent
  BY QuietTree DEF KeyInv, NameInv, Fixed
<1>3. /\ entry'[t] = e /\ rest'[t] = parts /\ cur'[t] = IF e = NULL THEN NULL ELSE childs[e]
      /\ job' = job /\ pc'[t] = "walk"
      /\ \A u \in Threads \ {t} :
           /\ pc'[u] = pc[u] /\ job'[u] = job[u] /\ rest'[u] = rest[u]
           /\ entry'[u] = entry[u] /\ cur'[u] = cur[u]
  BY <1>1 DEF Descend
<1>4. e # NULL => childs[e] = NULL \/ parent[childs[e]] = e
  BY LinksIn DEF DbInv
<1>5. ModeOf(t)'
  BY <1>3 DEF ModeOf
<1>6. job'[t].op # "list" => PathWalk(t)'
  BY <1>2, <1>3, <1>4 DEF PathWalk
<1>7. QED
  BY <1>2, <1>3, <1>5, <1>6, KeyFrame

LEMMA KeyLock ==
  ASSUME DbInv, KeyInv, NEW t \in Threads, Lock(t)
  PROVE  KeyInv'
<1>1. /\ pc' = [pc EXCEPT ![t] = "walk"] /\ mutex = NoThread
      /\ Descend(t, Root, job[t].path) /\ UNCHANGED <<Fixed, value, fresh>>
  BY DEF Lock, Goto, tree, Fixed
<1>2. fresh = {} /\ Root \in Linked /\ Root # NULL /\ Keys[Root] = <<>>
  BY <1>1, NullIs, KeysAre DEF KeyInv, FreshInv, DbInv, TreeType
<1>3. FreshInv'
  BY <1>1, <1>2 DEF FreshInv
<1>4. <<>> \o job[t].path = job[t].path
  BY RestIs, ConcatEmptySeq
<1>5. PICK p : p = job[t].path
  OBVIOUS
<1>6. Keys[Root] \o p = job[t].path /\ Descend(t, Root, p)
  BY <1>1, <1>2, <1>4, <1>5
<1>7. QED
  BY <1>1, <1>2, <1>3, <1>6, KeyDescends

LEMMA KeyFinds ==
  ASSUME DbInv, KeyInv, NEW t \in Threads, Hop(t) \/ Found(t) \/ NotFound(t)
  PROVE  KeyInv'
<1>1. /\ pc[t] = "walk" /\ pc' = [pc EXCEPT ![t] = "walk"] /\ rest[t] # <<>> /\ job' = job
      /\ UNCHANGED <<mutex, Fixed, value, fresh>> /\ rest[t] \in Seq(Parts)
  BY RestIs DEF Hop, Found, NotFound, Goto, tree, Fixed, Descend
<1>2. pc' = pc /\ DOMAIN cur = Threads
  BY <1>1 DEF DbInv, LocalsType
<1>3. FreshInv'
  BY <1>1, <1>2, FreshKept
<1>4. TreeKept /\ PathInv /\ NameInv /\ RootInv
  BY DEF DbInv, TreeKept, KeyInv
<1>5. job[t].op # "list" =>
        /\ PathWalk(t) /\ entry[t] \in Linked /\ entry[t] # NULL
        /\ cur[t] \in (Linked \ {Root}) \cup {NULL}
  BY <1>1 DEF KeyInv, WalkKeys, DbInv, WalkInv, Walk
<1>6. job[t].op # "list" =>
        /\ Keys[entry[t]] \in Seq(Parts) /\ Head(rest[t]) \in Parts
        /\ Append(Keys[entry[t]], Head(rest[t])) \in Seq(Parts) /\ Tail(rest[t]) \in Seq(Parts)
        /\ Append(Keys[entry[t]], Head(rest[t])) \o Tail(rest[t]) = job[t].path
  BY <1>1, <1>4, <1>5, KeysType, SplitHead DEF PathWalk
<1>7. CASE Found(t)
  <2>1. /\ cur[t] # NULL /\ ~Astray(t) /\ Descend(t, cur[t], Tail(rest[t]))
        /\ name[cur[t]] = Head(rest[t])
    BY <1>7 DEF Found
  <2>2. cur[t] \in Linked
    BY <1>1, <1>5, <2>1 DEF Astray
  <2>3. job[t].op # "list" => Keys[cur[t]] \o Tail(rest[t]) = job[t].path
    <3>1. SUFFICES ASSUME job[t].op # "list" PROVE Keys[cur[t]] \o Tail(rest[t]) = job[t].path
      OBVIOUS
    <3>2. cur[t] # Root /\ parent[cur[t]] = entry[t]
      BY <1>5, <2>1, <3>1, NullIs DEF PathWalk
    <3>3. Keys[cur[t]] = Append(Keys[entry[t]], Head(rest[t]))
      BY <1>4, <2>1, <2>2, <3>2, KeysAre
    <3>4. QED
      BY <1>6, <3>1, <3>3
  <2>4. PICK e \in Linked : e = cur[t]
    BY <2>2
  <2>5. PICK parts : parts = Tail(rest[t])
    OBVIOUS
  <2>6. /\ Descend(t, e, parts) /\ e # NULL
        /\ job[t].op # "list" => Keys[e] \o parts = job[t].path
    BY <2>1, <2>3, <2>4, <2>5
  <2>7. QED
    BY <1>1, <1>3, <2>6, KeyDescends
<1>8. CASE NotFound(t)
  <2>1. Descend(t, NULL, <<>>) /\ cur[t] = NULL
    BY <1>8 DEF NotFound
  <2>2. ASSUME job[t].op # "list", NEW x \in Linked, Keys[x] = job[t].path PROVE FALSE
    <3>1. PICK q \in Seq(Parts) : q = Append(Keys[entry[t]], Head(rest[t]))
      BY <1>6, <2>2
    <3>2. q \in D!Prefixes(Keys[x])
      BY <1>6, <2>2, <3>1, PrefixConcat
    <3>3. PICK y \in Linked : Keys[y] = q
      BY <1>4, <3>2, PrefixesAreKeys
    <3>4. Root \in Linked /\ Keys[Root] = <<>> /\ q # <<>>
      BY <1>4, <1>6, <2>2, <3>1, KeysAre, AppendProperties DEF TreeKept, TreeType
    <3>5. y # Root
      BY <3>3, <3>4
    <3>6. /\ Keys[y] = Append(Keys[parent[y]], name[y]) /\ name[y] \in Parts
          /\ parent[y] \in Linked /\ Keys[parent[y]] \in Seq(Parts)
      <4>1. Keys[y] = Append(Keys[parent[y]], name[y]) /\ name[y] \in Parts /\ parent[y] \in Linked
        BY <1>4, <3>5, KeysAre DEF NameInv, TreeKept, SiblingsInv
      <4>2. QED
        BY <1>4, <4>1, KeysType
    <3>7. Keys[parent[y]] = Keys[entry[t]] /\ name[y] = Head(rest[t])
      <4>1. Append(Keys[parent[y]], name[y]) = Append(Keys[entry[t]], Head(rest[t]))
        BY <3>1, <3>3, <3>6
      <4>2. /\ Keys[entry[t]] \in Seq(Parts) /\ Head(rest[t]) \in Parts
            /\ Keys[parent[y]] \in Seq(Parts) /\ name[y] \in Parts
        BY <1>6, <2>2, <3>6
      <4>3. PICK s1 \in Seq(Parts), s2 \in Seq(Parts), a1 \in Parts, a2 \in Parts :
              /\ s1 = Keys[parent[y]] /\ s2 = Keys[entry[t]]
              /\ a1 = name[y] /\ a2 = Head(rest[t])
        BY <4>2
      <4>4. Append(s1, a1) = Append(s2, a2)
        BY <4>1, <4>3
      <4>5. s1 = s2 /\ a1 = a2
        BY <4>4, AppendParts
      <4>6. QED
        BY <4>3, <4>5
    <3>8. parent[y] = entry[t]
      BY <1>4, <1>5, <2>2, <3>6, <3>7, KeysDiffer
    <3>9. QED
      BY <1>1, <2>1, <2>2, <3>5, <3>7, <3>8, NoSuchChild
  <2>3. QED
    BY <1>1, <1>3, <2>1, <2>2, KeyDescends
<1>9. CASE Hop(t)
  <2>1. /\ cur[t] # NULL /\ cur' = [cur EXCEPT ![t] = next[cur[t]]] /\ UNCHANGED <<rest, entry>>
    BY <1>9 DEF Hop
  <2>2. PathInv' /\ NameInv' /\ Keys' = Keys /\ Linked' = Linked /\ parent' = parent
    BY <1>1, QuietTree DEF KeyInv, NameInv, Fixed
  <2>3. cur'[t] = next[cur[t]] /\ \A u \in Threads \ {t} : cur'[u] = cur[u]
    BY <1>2, <2>1
  <2>4. job[t].op # "list" =>
          next[cur[t]] = NULL \/ parent[next[cur[t]]] = parent[cur[t]]
    BY <1>4, <1>5, <2>1, LinksIn DEF TreeKept
  <2>5. job[t].op # "list" => PathWalk(t)'
    BY <1>1, <1>5, <2>1, <2>2, <2>3, <2>4 DEF PathWalk
  <2>6. ModeOf(t)'
    BY <1>1, <1>2 DEF ModeOf
  <2>7. QED
    BY <1>1, <1>2, <1>3, <2>1, <2>2, <2>3, <2>5, <2>6, KeyFrame
<1>10. QED
  BY <1>7, <1>8, <1>9

LEMMA KeyCreates ==
  ASSUME DbInv, KeyInv, NEW t \in Threads, Create(t)
  PROVE  KeyInv'
<1>1. /\ pc[t] = "walk" /\ pc' = [pc EXCEPT ![t] = "walk"] /\ rest[t] # <<>> /\ cur[t] = NULL
      /\ job[t].op = "set" /\ UNCHANGED <<mutex, lost, job, cur>>
      /\ rest' = [rest EXCEPT ![t] = Tail(rest[t])] /\ rest[t] \in Seq(Parts)
  BY RestIs DEF Create, Goto
<1>2. TreeKept /\ TreeType /\ PathInv /\ NameInv /\ FreshInv
  BY DEF DbInv, TreeKept, KeyInv
<1>3. /\ DOMAIN rest = Threads /\ DOMAIN entry = Threads /\ pc' = pc
  BY <1>1 DEF DbInv, LocalsType
<1>4. mutex = t /\ PathWalk(t) /\ entry[t] \in Linked /\ entry[t] # NULL
  BY <1>1 DEF KeyInv, WalkKeys, DbInv, WalkInv, Walk
<1>5. PICK c \in Entries \ alloc :
        /\ alloc' = alloc \cup {c} /\ AppendChild(entry[t], c, Head(rest[t]))
        /\ entry' = [entry EXCEPT ![t] = c] /\ fresh' = fresh \cup {c}
  BY DEF Create
<1>6. PICK e \in Linked : e = entry[t]
  BY <1>4
<1>7. PICK part : part = Head(rest[t])
  OBVIOUS
<1>8. AppendChild(e, c, part)
  BY <1>5, <1>6, <1>7
<1>9. /\ \A x : x \in Linked' <=> x \in Linked \/ x = c
      /\ c \notin Linked /\ c \in All /\ c # Root /\ c # NULL /\ name'[c] = part
      /\ \A x \in Linked : name'[x] = name[x]
  BY <1>1, <1>2, <1>5, <1>8, AppendChildIs
<1>10. /\ PathInv' /\ Keys'[c] = Append(Keys[e], part)
       /\ \A x \in Linked : Keys'[x] = Keys[x]
  BY <1>1, <1>2, <1>5, <1>8, CreateKeys
<1>11. /\ Keys[e] \in Seq(Parts) /\ part \in Parts /\ Tail(rest[t]) \in Seq(Parts)
       /\ Append(Keys[e], part) \in Seq(Parts)
       /\ Append(Keys[e], part) \o Tail(rest[t]) = job[t].path
  BY <1>1, <1>2, <1>4, <1>6, <1>7, KeysType, SplitHead DEF PathWalk
<1>12. DOMAIN value' = All /\ value'[c] = NoValue /\ \A x \in Linked : value'[x] = value[x]
  <2>1. value' = [value EXCEPT ![c] = NoValue] /\ DOMAIN value = All
    BY <1>2, <1>8 DEF AppendChild, NameInv
  <2>2. QED
    BY <1>2, <1>9, <2>1 DEF TreeType, Linked
<1>13. NameInv'
  BY <1>2, <1>7, <1>9, <1>11, <1>12 DEF NameInv
<1>14. FreshInv'
  <2>1. fresh' \subseteq Linked' \ {Root}
    BY <1>2, <1>5, <1>9 DEF FreshInv
  <2>2. mutex' \in Threads /\ pc'[mutex'] = "walk" /\ job'[mutex'].op = "set"
    BY <1>1, <1>3, <1>4
  <2>3. Keys'[c] \in D!Prefixes(job[t].path)
    BY <1>10, <1>11, PrefixConcat
  <2>4. \A f \in fresh : value'[f] = NoValue /\ Keys'[f] \in D!Prefixes(job[t].path)
    BY <1>2, <1>4, <1>10, <1>12 DEF FreshInv
  <2>5. QED
    BY <1>1, <1>4, <1>5, <1>12, <2>1, <2>2, <2>3, <2>4 DEF FreshInv
<1>15. /\ entry'[t] = c /\ rest'[t] = Tail(rest[t])
       /\ \A u \in Threads \ {t} : entry'[u] = entry[u] /\ rest'[u] = rest[u]
  BY <1>1, <1>3, <1>5
<1>16. PathWalk(t)'
  BY <1>1, <1>9, <1>10, <1>11, <1>15 DEF PathWalk
<1>17. ModeOf(t)'
  BY <1>1, <1>3 DEF ModeOf
<1>18. QED
  BY <1>1, <1>3, <1>4, <1>10, <1>13, <1>14, <1>15, <1>16, <1>17, KeyFrame

LEMMA KeyStutters ==
  ASSUME KeyInv, UNCHANGED <<Fixed, value, fresh, mutex, pc, job, rest, entry, cur>>
  PROVE  KeyInv'
<1>1. PathInv' /\ NameInv' /\ Keys' = Keys /\ Linked' = Linked /\ parent' = parent
  BY QuietTree DEF KeyInv, NameInv, Fixed
<1>2. FreshInv' /\ ModeInv'
  BY FreshKept DEF KeyInv, ModeInv, ModeOf
<1>3. WalkKeys'
  BY <1>1 DEF KeyInv, WalkKeys, PathWalk
<1>4. QED
  BY <1>1, <1>2, <1>3 DEF KeyInv

\* The functions at the end of the walk; only csdb_set_value_for_key has made
\* entries, and they are its own no longer.
LEMMA KeyWorks ==
  ASSUME DbInv, KeyInv, NEW t \in Threads, Working(t)
  PROVE  /\ KeyInv' /\ fresh' = {} /\ job' = [job EXCEPT ![t] = NoJob]
         /\ job[t].op # "set" => fresh = {}
<1>1. /\ pc[t] = "walk" /\ rest[t] = <<>>
      /\ job[t].op \in {"set", "append", "get", "exist", "remove", "dump"}
  BY DEF Working, SetValue, AppendValue, KeyExist, GetValue, GetFails, Dump, RemoveMissing,
         RemoveEntry, Walked
<1>2. Walk(t) /\ mutex = t /\ TreeKept /\ LocalsType
  BY <1>1 DEF DbInv, WalkInv, Walk, TreeKept
<1>3. PathInv /\ NameInv /\ FreshInv
  BY DEF KeyInv
<1>4. job[t].op # "set" => fresh = {}
  BY <1>2, <1>3 DEF FreshInv
<1>5. fresh' = {}
  BY <1>4 DEF Working, SetValue, AppendValue, KeyExist, GetValue, GetFails, Dump, RemoveMissing,
              RemoveEntry, Walked
<1>6. pc' = [pc EXCEPT ![t] = "idle"] /\ Leave(t)
  BY DEF Working, SetValue, AppendValue, KeyExist, GetValue, GetFails, Dump, RemoveMissing,
         RemoveEntry, Unlock, Goto
<1>7. /\ pc'[t] = "idle" /\ job'[t] = NoJob
      /\ \A u \in Threads \ {t} :
           /\ pc'[u] = pc[u] /\ job'[u] = job[u] /\ rest'[u] = rest[u]
           /\ entry'[u] = entry[u] /\ cur'[u] = cur[u]
  BY <1>2, <1>6 DEF LocalsType, Leave
<1>8. FreshInv'
  BY <1>5 DEF FreshInv
<1>9. PathInv' /\ NameInv'
  <2>1. CASE RemoveEntry(t)
    <3>1. PICK e \in Linked : e = entry[t] /\ e # Root
      BY <1>1, <1>2, <2>1 DEF RemoveEntry, Walked, Walk
    <3>2. PICK last : last = {c \in Below(e) : next[c] = NULL}
      OBVIOUS
    <3>3. PICK gone : gone = {e} \cup Below(e)
      OBVIOUS
    <3>4. /\ alloc' = alloc \ ({e} \cup (Below(e) \ last)) /\ lost' = lost \cup last
          /\ Unlink(e, gone)
      BY <2>1, <3>1, <3>2, <3>3 DEF RemoveEntry
    <3>5. last \subseteq Below(e)
      BY <3>2
    <3>6. PathInv'
      BY <1>2, <1>3, <3>1, <3>3, <3>4, <3>5, RemoveKeys
    <3>7. /\ \A x : x \in Linked' <=> x \in Linked /\ x \notin gone
          /\ \A x \in Linked' : name'[x] = name[x]
      BY <1>2, <3>1, <3>3, <3>4, <3>5, UnlinkIs
    <3>8. NameInv'
      BY <1>3, <3>4, <3>7 DEF NameInv, Unlink
    <3>9. QED
      BY <3>6, <3>8
  <2>2. CASE ~RemoveEntry(t)
    <3>1. UNCHANGED Fixed
      BY <2>2 DEF Working, SetValue, AppendValue, KeyExist, GetValue, GetFails, Dump,
                  RemoveMissing, tree, Fixed
    <3>2. DOMAIN value = All
      BY <1>3 DEF NameInv
    <3>3. DOMAIN value' = All
      BY <2>2, <3>2 DEF Working, SetValue, AppendValue, KeyExist, GetValue, GetFails, Dump,
                        RemoveMissing, tree
    <3>4. QED
      BY <1>3, <3>1, <3>3, QuietTree
  <2>3. QED
    BY <2>1, <2>2
<1>10. ModeOf(t)' /\ pc'[t] # "walk"
  BY <1>7 DEF ModeOf
<1>11. KeyInv'
  BY <1>2, <1>7, <1>8, <1>9, <1>10, KeyFrame
<1>12. QED
  BY <1>4, <1>5, <1>6, <1>11 DEF Leave

LEMMA KeyLists ==
  ASSUME DbInv, KeyInv, NEW t \in Threads, Listing(t)
  PROVE  KeyInv' /\ job[t].op = "list" /\ UNCHANGED <<Fixed, value, fresh, mutex, answer>>
         /\ (job' = job \/ job' = [job EXCEPT ![t] = NoJob])
<1>1. UNCHANGED <<Fixed, value, fresh, mutex, answer>>
  BY DEF Listing, ListNone, ListStart, ListCount, ListAlloc, ListCopy, ListOverflow, ListReturn,
         ListAstray, tree, Fixed
<1>2. /\ DOMAIN pc = Threads /\ DOMAIN job = Threads /\ DOMAIN rest = Threads
      /\ DOMAIN entry = Threads /\ DOMAIN cur = Threads
  BY DEF DbInv, LocalsType
<1>3. job[t].op = "list" /\ pc[t] # "idle"
  <2>1. ModeOf(t)
    BY DEF KeyInv, ModeInv
  <2>2. CASE ListNone(t) \/ ListStart(t) \/ ListAstray(t)
    BY <2>2 DEF ListNone, ListStart, ListAstray, Walked, Astray
  <2>3. CASE ListCount(t) \/ ListAlloc(t) \/ ListCopy(t) \/ ListOverflow(t) \/ ListReturn(t)
    BY <2>1, <2>3 DEF ListCount, ListAlloc, ListCopy, ListOverflow, ListReturn, Goto, ModeOf
  <2>4. QED
    BY <2>2, <2>3 DEF Listing
<1>4. \/ Leave(t) /\ pc' = [pc EXCEPT ![t] = "idle"]
      \/ UNCHANGED locals /\ pc' = [pc EXCEPT ![t] = pc[t]]
      \/ /\ UNCHANGED <<job, rest>>
         /\ pc' = [pc EXCEPT ![t] = "count"] \/ pc' = [pc EXCEPT ![t] = "copy"]
         /\ entry' = entry \/ \E e : entry' = [entry EXCEPT ![t] = e]
         /\ \E c : cur' = [cur EXCEPT ![t] = c]
  <2>1. CASE ListNone(t) \/ ListReturn(t)
    BY <2>1 DEF ListNone, ListReturn, Goto
  <2>2. CASE ListAstray(t)
    BY <2>2 DEF ListAstray, Goto
  <2>3. CASE ListOverflow(t)
    BY <2>3 DEF ListOverflow, Goto
  <2>4. CASE ListStart(t)
    BY <2>4 DEF ListStart, Goto
  <2>5. CASE ListCount(t) \/ ListAlloc(t) \/ ListCopy(t)
    BY <2>5 DEF ListCount, ListAlloc, ListCopy, Goto
  <2>6. QED
    BY <2>1, <2>2, <2>3, <2>4, <2>5 DEF Listing
<1>5. \A u \in Threads \ {t} :
        /\ pc'[u] = pc[u] /\ job'[u] = job[u] /\ rest'[u] = rest[u]
        /\ entry'[u] = entry[u] /\ cur'[u] = cur[u]
  BY <1>2, <1>4 DEF Leave, locals
<1>6. \/ job' = [job EXCEPT ![t] = NoJob] /\ job'[t] = NoJob /\ pc'[t] = "idle"
      \/ job' = job /\ job'[t] = job[t] /\ pc'[t] # "idle"
  BY <1>2, <1>3, <1>4 DEF Leave, locals
<1>7. ModeOf(t)' /\ ~(job'[t].op # "list" /\ pc'[t] = "walk")
  BY <1>3, <1>6 DEF ModeOf
<1>8. PathInv' /\ NameInv'
  BY <1>1, QuietTree DEF KeyInv, NameInv
<1>9. fresh # {} => mutex \in Threads \ {t}
  BY <1>3 DEF KeyInv, FreshInv
<1>10. FreshInv'
  BY <1>1, <1>5, <1>9, FreshKept
<1>11. KeyInv'
  BY <1>1, <1>5, <1>7, <1>8, <1>10, KeyFrame
<1>12. QED
  BY <1>1, <1>3, <1>6, <1>11

LEMMA KeyInit == ASSUME Init PROVE KeyInv
<1>1. /\ Linked = {Root} /\ fresh = {} /\ DOMAIN value = All
      /\ \A t \in Threads : job[t] = NoJob /\ pc[t] = "idle"
  BY DEF Init, Linked
<1>2. PICK f : f = [c \in {Root} |-> <<>>]
  OBVIOUS
<1>3. IsPath(f, Linked, parent, name)
  BY <1>1, <1>2 DEF IsPath
<1>4. PathInv
  BY <1>3 DEF PathInv
<1>5. NameInv /\ WalkKeys /\ FreshInv /\ ModeInv
  BY <1>1 DEF NameInv, WalkKeys, FreshInv, ModeInv, ModeOf
<1>6. QED
  BY <1>4, <1>5 DEF KeyInv

LEMMA KeyStep ==
  ASSUME DbInv, KeyInv, [Next]_vars
  PROVE  KeyInv'
<1>1. CASE UNCHANGED vars
  BY <1>1, KeyStutters DEF vars, tree, locals, Fixed
<1>2. ASSUME NEW t \in Threads,
             Calling(t) \/ Lock(t) \/ Walking(t) \/ Working(t) \/ Listing(t)
      PROVE  KeyInv'
  <2>1. CASE CreateNoMem(t)
    <3>1. pc' = pc
      BY <2>1 DEF CreateNoMem, Goto, DbInv, LocalsType
    <3>2. UNCHANGED <<Fixed, value, fresh, mutex, job, rest, entry, cur>>
      BY <2>1 DEF CreateNoMem, tree, locals, Fixed
    <3>3. QED
      BY <3>1, <3>2, KeyStutters
  <2>2. CASE Walking(t)
    BY <2>1, <2>2, KeyFinds, KeyCreates DEF Walking
  <2>3. QED
    BY <1>2, <2>2, KeyCalls, KeyLock, KeyWorks, KeyLists
<1>3. QED
  BY <1>1, <1>2 DEF Next

\* Along every walk down the tree, what was found and what is left make up the
\* key that was asked for, and a walk ends with nothing only if no entry has it.
THEOREM KeyInvariance == Spec => [](DbInv /\ KeyInv)
<1>1. Init => DbInv /\ KeyInv
  BY DbInitInv, KeyInit
<1>2. DbInv /\ KeyInv /\ [Next]_vars => (DbInv /\ KeyInv)'
  BY DbStep, KeyStep
<1>3. QED
  BY <1>1, <1>2, PTL DEF Spec

-------------------------------------------------------------------------------
(* The tree as a directory *)

Dir(L, k, v) == [p \in {k[e] : e \in L} |-> v[CHOOSE e \in L : k[e] = p]]

LEMMA TreeDirIs == TreeDir = Dir(Linked \ fresh, Keys, value)
BY Zenon DEF TreeDir, Dir, Key, Keys, IsPath

LEMMA TreeDirIsNext == TreeDir' = Dir(Linked' \ fresh', Keys', value')
BY Zenon DEF TreeDir, Dir, Key, Keys, IsPath

\* Where keys differ, a key stands for its entry.
LEMMA DirIs ==
  ASSUME NEW L, NEW k, NEW v, \A c, d \in L : k[c] = k[d] => c = d, NEW f, f = Dir(L, k, v)
  PROVE  /\ f = [p \in DOMAIN f |-> f[p]]
         /\ \A p : p \in DOMAIN f <=> \E e \in L : p = k[e]
         /\ \A e \in L : k[e] \in DOMAIN f /\ f[k[e]] = v[e]
<1>1. \A p : p \in DOMAIN f <=> \E e \in L : p = k[e]
  BY DEF Dir
<1>2. f = [p \in DOMAIN f |-> f[p]]
  BY DEF Dir
<1>3. ASSUME NEW e \in L PROVE k[e] \in DOMAIN f /\ f[k[e]] = v[e]
  <2>1. k[e] \in DOMAIN f /\ f[k[e]] = v[CHOOSE d \in L : k[d] = k[e]]
    BY DEF Dir
  <2>2. (CHOOSE d \in L : k[d] = k[e]) \in L /\ k[CHOOSE d \in L : k[d] = k[e]] = k[e]
    OBVIOUS
  <2>3. (CHOOSE d \in L : k[d] = k[e]) = e
    BY <2>2
  <2>4. QED
    BY <2>1, <2>3
<1>4. QED
  BY <1>1, <1>2, <1>3

LEMMA DirNow ==
  ASSUME DbInv, KeyInv
  PROVE  /\ TreeDir = [p \in DOMAIN TreeDir |-> TreeDir[p]]
         /\ \A p : p \in DOMAIN TreeDir <=> \E e \in Linked \ fresh : p = Keys[e]
         /\ \A e \in Linked \ fresh : Keys[e] \in DOMAIN TreeDir /\ TreeDir[Keys[e]] = value[e]
<1>1. \A c, d \in Linked : Keys[c] = Keys[d] => c = d
  BY KeysDiffer DEF DbInv, TreeKept, KeyInv
<1>2. PICK L : L = Linked \ fresh
  OBVIOUS
<1>3. \A c, d \in L : Keys[c] = Keys[d] => c = d
  BY <1>1, <1>2
<1>4. PICK f : f = TreeDir
  OBVIOUS
<1>5. f = Dir(L, Keys, value)
  BY <1>2, <1>4, TreeDirIs
<1>6. /\ f = [p \in DOMAIN f |-> f[p]]
      /\ \A p : p \in DOMAIN f <=> \E e \in L : p = Keys[e]
      /\ \A e \in L : Keys[e] \in DOMAIN f /\ f[Keys[e]] = value[e]
  BY <1>3, <1>5, DirIs
<1>7. QED
  BY <1>2, <1>4, <1>6

\* After a step that leaves the entries of L, with their keys.
LEMMA DirNext ==
  ASSUME DbInv, KeyInv, NEW L, L = Linked' \ fresh', L \subseteq Linked,
         \A e \in L : Keys'[e] = Keys[e]
  PROVE  /\ TreeDir' = [p \in DOMAIN TreeDir' |-> TreeDir'[p]]
         /\ \A p : p \in DOMAIN TreeDir' <=> \E e \in L : p = Keys[e]
         /\ \A e \in L : Keys[e] \in DOMAIN TreeDir' /\ TreeDir'[Keys[e]] = value'[e]
<1>1. \A c, d \in Linked : Keys[c] = Keys[d] => c = d
  BY KeysDiffer DEF DbInv, TreeKept, KeyInv
<1>2. PICK k : k = Keys'
  OBVIOUS
<1>3. \A c, d \in L : k[c] = k[d] => c = d
  BY <1>1, <1>2
<1>4. PICK f : f = TreeDir'
  OBVIOUS
<1>5. PICK v : v = value'
  OBVIOUS
<1>6. f = Dir(L, k, v)
  BY <1>2, <1>4, <1>5, TreeDirIsNext
<1>7. /\ f = [p \in DOMAIN f |-> f[p]]
      /\ \A p : p \in DOMAIN f <=> \E e \in L : p = k[e]
      /\ \A e \in L : k[e] \in DOMAIN f /\ f[k[e]] = v[e]
  BY <1>3, <1>6, DirIs
<1>8. QED
  BY <1>2, <1>4, <1>5, <1>7

LEMMA DirStays ==
  ASSUME DbInv, KeyInv, Linked' \ fresh' = Linked \ fresh,
         \A e \in Linked \ fresh : Keys'[e] = Keys[e] /\ value'[e] = value[e]
  PROVE  TreeDir' = TreeDir
<1>1. PICK L : L = Linked \ fresh
  OBVIOUS
<1>2. /\ TreeDir' = [p \in DOMAIN TreeDir' |-> TreeDir'[p]]
      /\ \A p : p \in DOMAIN TreeDir' <=> \E e \in L : p = Keys[e]
      /\ \A e \in L : TreeDir'[Keys[e]] = value'[e]
  BY <1>1, DirNext
<1>3. /\ TreeDir = [p \in DOMAIN TreeDir |-> TreeDir[p]]
      /\ \A p : p \in DOMAIN TreeDir <=> \E e \in L : p = Keys[e]
      /\ \A e \in L : TreeDir[Keys[e]] = value[e]
  BY <1>1, DirNow
<1>4. DOMAIN TreeDir' = DOMAIN TreeDir
  BY <1>2, <1>3
<1>5. \A p \in DOMAIN TreeDir : TreeDir'[p] = TreeDir[p]
  BY <1>1, <1>2, <1>3
<1>6. QED
  BY <1>2, <1>3, <1>4, <1>5

LEMMA DirQuiet ==
  ASSUME DbInv, KeyInv, UNCHANGED <<Fixed, value, fresh>>
  PROVE  TreeDir' = TreeDir
<1>1. Keys' = Keys /\ Linked' = Linked
  BY KeysUntouched DEF Fixed, KeyInv
<1>2. QED
  BY <1>1, DirStays

-------------------------------------------------------------------------------
(* The operations of the directory *)

LEMMA CallsReturn ==
  ASSUME DbInv, NEW t \in Threads, job' = [job EXCEPT ![t] = NoJob]
  PROVE  TreeCalls' = [TreeCalls EXCEPT ![t] = NoJob]
<1>1. DOMAIN job = Threads /\ NoJob.op = "none"
  BY DEF DbInv, LocalsType, NoJob
<1>2. job'[t] = NoJob /\ \A u \in Threads \ {t} : job'[u] = job[u]
  BY <1>1
<1>3. QED
  BY <1>1, <1>2 DEF TreeCalls

\* What a function finds at the end of its walk, and what it leaves.
LEMMA WorkFacts ==
  ASSUME DbInv, KeyInv, NEW t \in Threads, Working(t)
  PROVE  /\ TreeCalls[t] = job[t] /\ TreeCalls' = [TreeCalls EXCEPT ![t] = NoJob]
         /\ job[t].path \in Seq(Parts)
         /\ entry[t] # NULL => entry[t] \in Linked /\ Keys[entry[t]] = job[t].path
         /\ entry[t] = NULL => \A x \in Linked : Keys[x] # job[t].path
         /\ fresh' = {} /\ (job[t].op # "set" => fresh = {})
<1>1. /\ pc[t] = "walk" /\ rest[t] = <<>>
      /\ job[t].op \in {"set", "append", "get", "exist", "remove", "dump"}
  BY DEF Working, SetValue, AppendValue, KeyExist, GetValue, GetFails, Dump, RemoveMissing,
         RemoveEntry, Walked
<1>2. Walk(t) /\ PathWalk(t) /\ TreeKept /\ PathInv /\ NameInv
  BY <1>1 DEF DbInv, WalkInv, TreeKept, KeyInv, WalkKeys
<1>3. fresh' = {} /\ job' = [job EXCEPT ![t] = NoJob] /\ (job[t].op # "set" => fresh = {})
  BY KeyWorks
<1>4. TreeCalls' = [TreeCalls EXCEPT ![t] = NoJob]
  BY <1>3, CallsReturn
<1>5. TreeCalls[t] = job[t]
  BY <1>1 DEF TreeCalls
<1>6. ASSUME entry[t] # NULL PROVE entry[t] \in Linked /\ Keys[entry[t]] = job[t].path
  <2>1. entry[t] \in Linked /\ Keys[entry[t]] \o <<>> = job[t].path
    BY <1>1, <1>2, <1>6 DEF Walk, PathWalk
  <2>2. Keys[entry[t]] \in Seq(Parts)
    BY <1>2, <2>1, KeysType
  <2>3. QED
    BY <2>1, <2>2, ConcatEmptySeq
<1>7. QED
  BY <1>2, <1>3, <1>4, <1>5, <1>6, RestIs DEF PathWalk

\* csdb_set_value_for_key: the entries it has made become keys all at once, with
\* the value.
LEMMA SetIs ==
  ASSUME DbInv, KeyInv, NEW t \in Threads, SetValue(t)
  PROVE  D!DSet(t)
<1>1. Working(t) /\ UNCHANGED Fixed /\ job[t].op = "set"
  BY DEF Working, SetValue, Fixed, Walked
<1>2. /\ TreeCalls[t] = job[t] /\ TreeCalls' = [TreeCalls EXCEPT ![t] = NoJob]
      /\ fresh' = {}
  BY <1>1, WorkFacts
<1>3. PICK e \in Linked : e = entry[t] /\ Keys[e] = job[t].path
  <2>1. entry[t] # NULL
    BY DEF SetValue, Walked, DbInv, WalkInv, Walk
  <2>2. QED
    BY <1>1, <2>1, WorkFacts
<1>4. Keys' = Keys /\ Linked' = Linked
  BY <1>1, KeysUntouched DEF Fixed, KeyInv
<1>5. PICK w : w = <<job[t].word>>
  OBVIOUS
<1>6. value'[e] = w /\ \A x \in Linked : x # e => value'[x] = value[x]
  <2>1. value' = [value EXCEPT ![e] = w] /\ DOMAIN value = All /\ Linked \subseteq All
    BY <1>3, <1>5 DEF SetValue, KeyInv, NameInv, DbInv, TreeType, Linked
  <2>2. QED
    BY <2>1
<1>7. PICK p : p = job[t].path
  OBVIOUS
<1>8. PICK P : P = D!Prefixes(p)
  OBVIOUS
<1>9. /\ TreeDir' = [q \in DOMAIN TreeDir' |-> TreeDir'[q]]
      /\ \A q : q \in DOMAIN TreeDir' <=> \E x \in Linked : q = Keys[x]
      /\ \A x \in Linked : Keys[x] \in DOMAIN TreeDir' /\ TreeDir'[Keys[x]] = value'[x]
  <2>1. PICK L : L = Linked
    OBVIOUS
  <2>2. L = Linked' \ fresh' /\ L \subseteq Linked /\ \A x \in L : Keys'[x] = Keys[x]
    BY <1>2, <1>4, <2>1
  <2>3. QED
    BY <2>1, <2>2, DirNext
<1>10. /\ \A q : q \in DOMAIN TreeDir <=> \E x \in Linked \ fresh : q = Keys[x]
       /\ \A x \in Linked \ fresh : Keys[x] \in DOMAIN TreeDir /\ TreeDir[Keys[x]] = value[x]
  BY DirNow
<1>11. \A x \in fresh : x \in Linked /\ value[x] = NoValue /\ Keys[x] \in P
  BY <1>1, <1>7, <1>8 DEF KeyInv, FreshInv, SetValue, Walked, DbInv, WalkInv, Walk
<1>12. \A q \in P : \E x \in Linked : Keys[x] = q
  BY <1>3, <1>7, <1>8, PrefixesAreKeys DEF DbInv, TreeKept, KeyInv
<1>13. \A c, d \in Linked : Keys[c] = Keys[d] => c = d
  BY KeysDiffer DEF DbInv, TreeKept, KeyInv
<1>14. \A q : q \in DOMAIN TreeDir' <=> q \in DOMAIN TreeDir \/ q \in P
  BY <1>9, <1>10, <1>11, <1>12
<1>15. ASSUME NEW q \in DOMAIN TreeDir'
       PROVE  TreeDir'[q] = IF q = p THEN w ELSE IF q \in DOMAIN TreeDir THEN TreeDir[q] ELSE NoValue
  <2>1. PICK x \in Linked : q = Keys[x] /\ TreeDir'[q] = value'[x]
    BY <1>9, <1>15
  <2>2. CASE x = e
    BY <1>3, <1>6, <1>7, <2>1, <2>2
  <2>3. CASE x # e /\ x \notin fresh
    <3>1. q # p /\ q \in DOMAIN TreeDir /\ TreeDir[q] = value[x]
      BY <1>3, <1>7, <1>10, <1>13, <2>1, <2>3
    <3>2. QED
      BY <1>6, <2>1, <2>3, <3>1
  <2>4. CASE x # e /\ x \in fresh
    <3>1. q # p /\ q \notin DOMAIN TreeDir /\ value[x] = NoValue
      BY <1>3, <1>7, <1>10, <1>11, <1>13, <2>1, <2>4
    <3>2. QED
      BY <1>6, <2>1, <2>4, <3>1
  <2>5. QED
    BY <2>2, <2>3, <2>4
<1>16. TreeDir' = [q \in DOMAIN TreeDir \cup P |->
                     IF q = p THEN w ELSE IF q \in DOMAIN TreeDir THEN TreeDir[q] ELSE NoValue]
  <2>1. DOMAIN TreeDir' = DOMAIN TreeDir \cup P
    BY <1>14
  <2>2. QED
    BY <1>9, <1>15, <2>1
<1>17. answer' = [answer EXCEPT ![t] = <<"ok">>]
  BY DEF SetValue, Unlock, Returns
<1>18. QED
  BY <1>1, <1>2, <1>5, <1>7, <1>8, <1>16, <1>17, Zenon DEF D!DSet, D!DReturn

\* The functions other than csdb_set_value_for_key see a directory of all
\* entries.
LEMMA DirFull ==
  ASSUME DbInv, KeyInv, fresh = {}
  PROVE  /\ TreeDir = [q \in DOMAIN TreeDir |-> TreeDir[q]]
         /\ \A q : q \in DOMAIN TreeDir <=> \E x \in Linked : q = Keys[x]
         /\ \A x \in Linked : Keys[x] \in DOMAIN TreeDir /\ TreeDir[Keys[x]] = value[x]
<1>1. Linked \ fresh = Linked
  OBVIOUS
<1>2. PICK L : L = Linked \ fresh /\ L = Linked
  BY <1>1
<1>3. /\ TreeDir = [q \in DOMAIN TreeDir |-> TreeDir[q]]
      /\ \A q : q \in DOMAIN TreeDir <=> \E x \in L : q = Keys[x]
      /\ \A x \in L : Keys[x] \in DOMAIN TreeDir /\ TreeDir[Keys[x]] = value[x]
  BY <1>2, DirNow
<1>4. QED
  BY <1>2, <1>3

\* The key is a leaf of the directory if its entry is one.
LEMMA LeafIs ==
  ASSUME DbInv, KeyInv, NEW t \in Threads, Working(t), job[t].op # "set"
  PROVE  /\ job[t].path \in DOMAIN TreeDir <=> entry[t] # NULL
         /\ D!IsLeaf(job[t].path) <=> IsLeaf(entry[t])
         /\ IsLeaf(entry[t]) => TreeDir[job[t].path] = value[entry[t]]
<1>1. /\ entry[t] # NULL => entry[t] \in Linked /\ Keys[entry[t]] = job[t].path
      /\ entry[t] = NULL => \A x \in Linked : Keys[x] # job[t].path
      /\ fresh = {}
  BY WorkFacts
<1>2. /\ \A q : q \in DOMAIN TreeDir <=> \E x \in Linked : q = Keys[x]
      /\ \A x \in Linked : Keys[x] \in DOMAIN TreeDir /\ TreeDir[Keys[x]] = value[x]
  BY <1>1, DirFull
<1>3. CASE entry[t] # NULL
  BY <1>1, <1>2, <1>3 DEF IsLeaf, D!IsLeaf
<1>4. CASE entry[t] = NULL
  BY <1>1, <1>2, <1>4 DEF IsLeaf, D!IsLeaf
<1>5. QED
  BY <1>3, <1>4

\* csdb_append_value_for_key
LEMMA AppendIs ==
  ASSUME DbInv, KeyInv, NEW t \in Threads, AppendValue(t)
  PROVE  D!DAppend(t)
<1>1. Working(t) /\ UNCHANGED Fixed /\ job[t].op = "append"
  BY DEF Working, AppendValue, Fixed, Walked
<1>2. /\ TreeCalls[t] = job[t] /\ TreeCalls' = [TreeCalls EXCEPT ![t] = NoJob]
      /\ entry[t] # NULL => entry[t] \in Linked /\ Keys[entry[t]] = job[t].path
      /\ fresh = {} /\ fresh' = {}
  BY <1>1, WorkFacts
<1>3. D!IsLeaf(job[t].path) <=> IsLeaf(entry[t])
  BY <1>1, LeafIs
<1>4. Keys' = Keys /\ Linked' = Linked
  BY <1>1, KeysUntouched DEF Fixed, KeyInv
<1>5. CASE IsLeaf(entry[t])
  <2>1. value' = [value EXCEPT ![entry[t]] = Append(value[entry[t]], job[t].word)]
        /\ answer' = [answer EXCEPT ![t] = <<"ok">>]
    BY <1>5 DEF AppendValue, Unlock, Returns
  <2>2. PICK e \in Linked : e = entry[t] /\ Keys[e] = job[t].path
    BY <1>2, <1>5 DEF IsLeaf
  <2>3. PICK w : w = Append(value[e], job[t].word)
    OBVIOUS
  <2>4. value'[e] = w /\ \A x \in Linked : x # e => value'[x] = value[x]
    <3>1. value' = [value EXCEPT ![e] = w] /\ DOMAIN value = All /\ Linked \subseteq All
      BY <2>1, <2>2, <2>3 DEF KeyInv, NameInv, DbInv, TreeType, Linked
    <3>2. QED
      BY <3>1
  <2>5. /\ TreeDir' = [q \in DOMAIN TreeDir' |-> TreeDir'[q]]
        /\ \A q : q \in DOMAIN TreeDir' <=> \E x \in Linked : q = Keys[x]
        /\ \A x \in Linked : Keys[x] \in DOMAIN TreeDir' /\ TreeDir'[Keys[x]] = value'[x]
    <3>1. PICK L : L = Linked
      OBVIOUS
    <3>2. L = Linked' \ fresh' /\ L \subseteq Linked /\ \A x \in L : Keys'[x] = Keys[x]
      BY <1>2, <1>4, <3>1
    <3>3. QED
      BY <3>1, <3>2, DirNext
  <2>6. /\ TreeDir = [q \in DOMAIN TreeDir |-> TreeDir[q]]
        /\ \A q : q \in DOMAIN TreeDir <=> \E x \in Linked : q = Keys[x]
        /\ \A x \in Linked : Keys[x] \in DOMAIN TreeDir /\ TreeDir[Keys[x]] = value[x]
    BY <1>2, DirFull
  <2>7. \A c, d \in Linked : Keys[c] = Keys[d] => c = d
    BY KeysDiffer DEF DbInv, TreeKept, KeyInv
  <2>8. DOMAIN TreeDir' = DOMAIN TreeDir
    BY <2>5, <2>6
  <2>9. PICK p : p = job[t].path
    OBVIOUS
  <2>10. ASSUME NEW q \in DOMAIN TreeDir
         PROVE  TreeDir'[q] = IF q = p THEN w ELSE TreeDir[q]
    <3>1. PICK x \in Linked : q = Keys[x] /\ TreeDir'[q] = value'[x] /\ TreeDir[q] = value[x]
      BY <2>5, <2>6, <2>10
    <3>2. QED
      BY <2>2, <2>4, <2>7, <2>9, <3>1
  <2>11. TreeDir' = [TreeDir EXCEPT ![p] = w]
    BY <2>5, <2>6, <2>8, <2>10
  <2>12. TreeDir[p] = value[e]
    BY <2>2, <2>6, <2>9
  <2>13. TreeDir' = [TreeDir EXCEPT ![p] = Append(TreeDir[p], job[t].word)]
    BY <2>3, <2>11, <2>12
  <2>14. QED
    BY <1>1, <1>2, <1>3, <1>5, <2>1, <2>9, <2>13 DEF D!DAppend, D!DReturn
<1>6. CASE ~IsLeaf(entry[t])
  <2>1. UNCHANGED <<Fixed, value, fresh>> /\ answer' = [answer EXCEPT ![t] = <<"error">>]
    BY <1>1, <1>2, <1>6 DEF AppendValue, Unlock, Returns
  <2>2. TreeDir' = TreeDir
    BY <2>1, DirQuiet
  <2>3. QED
    BY <1>1, <1>2, <1>3, <1>6, <2>1, <2>2 DEF D!DAppend, D!DReturn
<1>7. QED
  BY <1>5, <1>6

\* csdb_get_value_for_key, with the two errors that leave the mutex locked
LEMMA GetIs ==
  ASSUME DbInv, KeyInv, NEW t \in Threads, GetValue(t) \/ GetFails(t)
  PROVE  D!DGet(t)
<1>1. Working(t) /\ UNCHANGED <<Fixed, value, fresh>> /\ job[t].op = "get"
  BY DEF Working, GetValue, GetFails, tree, Fixed, Walked
<1>2. /\ TreeCalls[t] = job[t] /\ TreeCalls' = [TreeCalls EXCEPT ![t] = NoJob]
  BY <1>1, WorkFacts
<1>3. /\ job[t].path \in DOMAIN TreeDir <=> entry[t] # NULL
      /\ D!IsLeaf(job[t].path) <=> IsLeaf(entry[t])
      /\ IsLeaf(entry[t]) => TreeDir[job[t].path] = value[entry[t]]
  BY <1>1, LeafIs
<1>4. TreeDir' = TreeDir
  BY <1>1, DirQuiet
<1>5. answer' = [answer EXCEPT ![t] =
                   IF entry[t] = NULL THEN <<"invalid key">>
                   ELSE IF IsLeaf(entry[t]) THEN <<"value", value[entry[t]]>> ELSE <<"no leaf">>]
  BY DEF GetValue, GetFails, Unlock, Returns, IsLeaf
<1>6. answer' = [answer EXCEPT ![t] =
                   IF job[t].path \notin DOMAIN TreeDir THEN <<"invalid key">>
                   ELSE IF D!IsLeaf(job[t].path) THEN <<"value", TreeDir[job[t].path]>>
                   ELSE <<"no leaf">>]
  BY <1>3, <1>5
<1>7. QED
  BY <1>1, <1>2, <1>4, <1>6 DEF D!DGet, D!DReturn

\* csdb_key_exist
LEMMA ExistIs ==
  ASSUME DbInv, KeyInv, NEW t \in Threads, KeyExist(t)
  PROVE  D!DExist(t)
<1>1. Working(t) /\ UNCHANGED <<Fixed, value, fresh>> /\ job[t].op = "exist"
  BY DEF Working, KeyExist, tree, Fixed, Walked
<1>2. /\ TreeCalls[t] = job[t] /\ TreeCalls' = [TreeCalls EXCEPT ![t] = NoJob]
  BY <1>1, WorkFacts
<1>3. (job[t].path \in DOMAIN TreeDir) <=> (entry[t] # NULL)
  BY <1>1, LeafIs
<1>4. (job[t].path \in DOMAIN TreeDir) = (entry[t] # NULL)
  BY <1>3
<1>5. TreeDir' = TreeDir
  BY <1>1, DirQuiet
<1>6. answer' = [answer EXCEPT ![t] = <<"exists", entry[t] # NULL>>]
  BY DEF KeyExist, Unlock, Returns
<1>7. answer' = [answer EXCEPT ![t] = <<"exists", job[t].path \in DOMAIN TreeDir>>]
  BY <1>4, <1>6, Zenon
<1>8. QED
  BY <1>1, <1>2, <1>5, <1>7, Zenon DEF D!DExist, D!DReturn

\* csdb_dump_from_key lists the leaves below the key; where the key does not
\* exist there are none, since a key never exists without those above it.
LEMMA DumpIs ==
  ASSUME DbInv, KeyInv, NEW t \in Threads, Dump(t)
  PROVE  D!DDump(t)
<1>1. Working(t) /\ UNCHANGED <<Fixed, value, fresh>> /\ job[t].op = "dump"
  BY DEF Working, Dump, tree, Fixed, Walked
<1>2. /\ TreeCalls[t] = job[t] /\ TreeCalls' = [TreeCalls EXCEPT ![t] = NoJob]
      /\ entry[t] # NULL => entry[t] \in Linked /\ Keys[entry[t]] = job[t].path
      /\ entry[t] = NULL => \A x \in Linked : Keys[x] # job[t].path
      /\ fresh = {}
  BY <1>1, WorkFacts
<1>3. TreeDir' = TreeDir
  BY <1>1, DirQuiet
<1>4. /\ \A q : q \in DOMAIN TreeDir <=> \E x \in Linked : q = Keys[x]
      /\ \A x \in Linked : Keys[x] \in DOMAIN TreeDir /\ TreeDir[Keys[x]] = value[x]
  BY <1>2, DirFull
<1>5. TreeKept /\ PathInv /\ NameInv
  BY DEF DbInv, TreeKept, KeyInv
<1>6. PICK p : p = job[t].path
  OBVIOUS
<1>7. PICK A : A = IF entry[t] = NULL THEN {}
                   ELSE {<<Key(e), value[e]>> : e \in {e \in Below(entry[t]) : IsLeaf(e)}}
  OBVIOUS
<1>8. PICK B : B = {<<q, TreeDir[q]>> : q \in {q \in DOMAIN TreeDir :
                                D!IsLeaf(q) /\ q # p /\ p \in D!Prefixes(q)}}
  OBVIOUS
<1>9. \A x \in Linked : x # NULL
  BY <1>5, NullIs DEF TreeKept, TreeType, Linked
<1>10. \A x \in Linked : D!IsLeaf(Keys[x]) <=> IsLeaf(x)
  BY <1>4, <1>9 DEF D!IsLeaf, IsLeaf
<1>11. ASSUME NEW q \in DOMAIN TreeDir, D!IsLeaf(q), q # p, p \in D!Prefixes(q)
       PROVE  <<q, TreeDir[q]>> \in A
  <2>1. PICK x \in Linked : q = Keys[x] /\ TreeDir[q] = value[x] /\ IsLeaf(x)
    BY <1>4, <1>10, <1>11
  <2>2. PICK d \in Linked : Keys[d] = p
    BY <1>5, <1>11, <2>1, PrefixesAreKeys
  <2>3. entry[t] # NULL /\ entry[t] \in Linked /\ Keys[entry[t]] = p
    BY <1>2, <1>6, <2>2
  <2>4. x \in Below(entry[t])
    BY <1>5, <1>11, <2>1, <2>3, BelowIs
  <2>5. Key(x) = q
    BY <2>1, KeyIs
  <2>6. QED
    BY <1>7, <2>1, <2>3, <2>4, <2>5
<1>12. ASSUME entry[t] # NULL, NEW x \in Below(entry[t]), IsLeaf(x)
       PROVE  <<Key(x), value[x]>> \in B
  <2>1. entry[t] \in Linked /\ Keys[entry[t]] = p
    BY <1>2, <1>6, <1>12
  <2>2. x \in Linked /\ x # entry[t] /\ p \in D!Prefixes(Keys[x])
    BY <1>5, <1>12, <2>1, BelowIs
  <2>3. Keys[x] # p
    BY <1>5, <2>1, <2>2, KeysDiffer
  <2>4. Key(x) = Keys[x] /\ TreeDir[Keys[x]] = value[x] /\ Keys[x] \in DOMAIN TreeDir
    BY <1>4, <2>2, KeyIs
  <2>5. D!IsLeaf(Keys[x])
    BY <1>10, <1>12, <2>2
  <2>6. PICK q : q = Keys[x]
    OBVIOUS
  <2>7. <<q, TreeDir[q]>> \in B
    BY <1>8, <2>2, <2>3, <2>4, <2>5, <2>6
  <2>8. QED
    BY <2>4, <2>6, <2>7
<1>13. A = B
  <2>1. \A a \in B : a \in A
    BY <1>8, <1>11
  <2>2. \A a \in A : a \in B
    BY <1>7, <1>12
  <2>3. QED
    BY <2>1, <2>2
<1>14. answer' = [answer EXCEPT ![t] = <<"leaves", A>>]
  BY <1>7 DEF Dump, Unlock, Returns
<1>15. answer' = [answer EXCEPT ![t] = <<"leaves", B>>]
  BY <1>13, <1>14
<1>16. QED
  BY <1>1, <1>2, <1>3, <1>6, <1>8, <1>15, Zenon DEF D!DDump, D!DReturn

\* csdb_remove_from_key takes the key and those below it.
LEMMA RemoveIs ==
  ASSUME DbInv, KeyInv, NEW t \in Threads, RemoveMissing(t) \/ RemoveEntry(t)
  PROVE  D!DRemove(t)
<1>1. Working(t) /\ job[t].op = "remove"
  BY DEF Working, RemoveMissing, RemoveEntry, Walked
<1>2. /\ TreeCalls[t] = job[t] /\ TreeCalls' = [TreeCalls EXCEPT ![t] = NoJob]
      /\ entry[t] # NULL => entry[t] \in Linked /\ Keys[entry[t]] = job[t].path
      /\ fresh = {} /\ fresh' = {}
  BY <1>1, WorkFacts
<1>3. job[t].path \in DOMAIN TreeDir <=> entry[t] # NULL
  BY <1>1, LeafIs
<1>4. CASE RemoveMissing(t)
  <2>1. /\ UNCHANGED <<Fixed, value, fresh>> /\ entry[t] = NULL
        /\ answer' = [answer EXCEPT ![t] = <<"error">>]
    BY <1>4 DEF RemoveMissing, tree, Fixed, Unlock, Returns
  <2>2. TreeDir' = TreeDir
    BY <2>1, DirQuiet
  <2>3. QED
    BY <1>1, <1>2, <1>3, <2>1, <2>2 DEF D!DRemove, D!DReturn
<1>5. CASE RemoveEntry(t)
  <2>1. TreeKept /\ PathInv /\ NameInv
    BY DEF DbInv, TreeKept, KeyInv
  <2>2. PICK e \in Linked : e = entry[t] /\ e # Root
    BY <1>5 DEF RemoveEntry, Walked, DbInv, WalkInv, Walk
  <2>3. PICK p : p = job[t].path /\ p = Keys[e] /\ p \in DOMAIN TreeDir
    BY <1>2, <1>3, <1>5, <2>2 DEF RemoveEntry
  <2>4. PICK last : last = {c \in Below(e) : next[c] = NULL}
    OBVIOUS
  <2>5. PICK gone : gone = {e} \cup Below(e)
    OBVIOUS
  <2>6. /\ alloc' = alloc \ ({e} \cup (Below(e) \ last)) /\ lost' = lost \cup last
        /\ Unlink(e, gone) /\ answer' = [answer EXCEPT ![t] = <<"ok">>]
    BY <1>5, <2>2, <2>4, <2>5 DEF RemoveEntry, Unlock, Returns
  <2>7. last \subseteq Below(e)
    BY <2>4
  <2>8. \A x \in Linked' : Keys'[x] = Keys[x]
    BY <2>1, <2>2, <2>5, <2>6, <2>7, RemoveKeys
  <2>9. \A x : x \in Linked' <=> x \in Linked /\ x \notin gone
    BY <2>1, <2>2, <2>5, <2>6, <2>7, UnlinkIs
  <2>10. \A x \in Linked : x \in gone <=> p \in D!Prefixes(Keys[x])
    <3>1. p \in D!Prefixes(p)
      BY <2>1, <2>3, KeysType, PrefixSelf
    <3>2. QED
      BY <2>1, <2>3, <2>5, <3>1, BelowIs
  <2>11. \A x \in Linked' : x \in Linked /\ p \notin D!Prefixes(Keys[x]) /\ value'[x] = value[x]
    <3>1. Linked \subseteq All
      BY <2>1 DEF TreeKept, TreeType, Linked
    <3>2. QED
      BY <2>6, <2>9, <2>10, <3>1 DEF Unlink
  <2>12. PICK L : L = Linked' \ fresh' /\ L = Linked'
    BY <1>2
  <2>13. /\ TreeDir' = [q \in DOMAIN TreeDir' |-> TreeDir'[q]]
         /\ \A q : q \in DOMAIN TreeDir' <=> \E x \in L : q = Keys[x]
         /\ \A x \in L : Keys[x] \in DOMAIN TreeDir' /\ TreeDir'[Keys[x]] = value'[x]
    BY <2>8, <2>11, <2>12, DirNext
  <2>14. /\ \A q : q \in DOMAIN TreeDir <=> \E x \in Linked : q = Keys[x]
         /\ \A x \in Linked : Keys[x] \in DOMAIN TreeDir /\ TreeDir[Keys[x]] = value[x]
    BY <1>2, DirFull
  <2>15. PICK Q : Q = {q \in DOMAIN TreeDir : p \notin D!Prefixes(q)}
    OBVIOUS
  <2>16. DOMAIN TreeDir' = Q
    BY <2>9, <2>10, <2>11, <2>12, <2>13, <2>14, <2>15
  <2>17. \A q \in Q : TreeDir'[q] = TreeDir[q]
    <3>1. ASSUME NEW q \in Q PROVE TreeDir'[q] = TreeDir[q]
      <4>1. PICK x \in L : q = Keys[x]
        BY <2>13, <2>16, <3>1
      <4>2. QED
        BY <2>11, <2>12, <2>13, <2>14, <4>1
    <3>2. QED
      BY <3>1
  <2>18. TreeDir' = [q \in Q |-> TreeDir[q]]
    BY <2>13, <2>16, <2>17
  <2>19. QED
    BY <1>1, <1>2, <2>3, <2>6, <2>15, <2>18, Zenon DEF D!DRemove, D!DReturn
<1>6. QED
  BY <1>4, <1>5

-------------------------------------------------------------------------------
(* The refinement *)

\* A call of the database is one of the directory; a listing is none.
LEMMA CallIs ==
  ASSUME DbInv, KeyInv, NEW t \in Threads, Calling(t)
  PROVE  D!DNext
<1>1. PICK j \in Jobs[t] : (\E w \in Words : Call(t, j, w)) \/ CallList(t, j) \/ RemoveRoot(t, j)
  BY DEF Calling
<1>2. DOMAIN job = Threads /\ NoJob.op = "none"
  BY DEF DbInv, LocalsType, NoJob
<1>3. pc[t] = "idle" /\ UNCHANGED <<Fixed, value, fresh>> /\ job[t] = NoJob
  BY <1>1 DEF Call, CallList, RemoveRoot, Goto, tree, Fixed, KeyInv, ModeInv, ModeOf
<1>4. TreeDir' = TreeDir
  BY <1>3, DirQuiet
<1>5. TreeCalls[t] = NoJob
  BY <1>2, <1>3 DEF TreeCalls
<1>6. ASSUME NEW w \in Words, Call(t, j, w) PROVE D!DNext
  <2>1. PICK c : c = [op |-> j.op, path |-> j.path,
                      word |-> IF j.op \in {"set", "append"} THEN w ELSE NULL]
    OBVIOUS
  <2>2. job' = [job EXCEPT ![t] = c] /\ answer' = [answer EXCEPT ![t] = <<"none">>]
    BY <1>6, <2>1 DEF Call, Returns
  <2>3. c.op # "list"
    BY <1>6, <2>1 DEF Call
  <2>4. TreeCalls' = [TreeCalls EXCEPT ![t] = c]
    <3>1. job'[t] = c /\ \A u \in Threads \ {t} : job'[u] = job[u]
      BY <1>2, <2>2
    <3>2. QED
      BY <1>2, <2>3, <3>1 DEF TreeCalls
  <2>5. PICK v \in Words \cup {NULL} : c = [op |-> j.op, path |-> j.path, word |-> v]
    BY <1>6, <2>1
  <2>6. c \in UNION {{[op |-> i.op, path |-> i.path, word |-> x] :
                        i \in Jobs[u], x \in Words \cup {NULL}} : u \in Threads}
    BY <2>5
  <2>7. D!DCall(t, c)
    BY <1>4, <1>5, <2>2, <2>4 DEF D!DCall
  <2>8. QED
    BY <2>6, <2>7 DEF D!DNext
<1>7. CASE CallList(t, j)
  <2>1. /\ job' = [job EXCEPT ![t] = [op |-> "list", path |-> j.path, word |-> NULL]]
        /\ answer' = [answer EXCEPT ![t] = <<"none">>]
    BY <1>7 DEF CallList, Returns
  <2>2. job'[t].op = "list" /\ \A u \in Threads \ {t} : job'[u] = job[u]
    BY <1>2, <2>1
  <2>3. TreeCalls' = TreeCalls
    BY <1>2, <1>3, <2>2 DEF TreeCalls
  <2>4. D!DList(t)
    BY <1>4, <1>5, <2>1, <2>3 DEF D!DList
  <2>5. QED
    BY <2>4 DEF D!DNext
<1>8. CASE RemoveRoot(t, j)
  <2>1. job' = job /\ answer' = [answer EXCEPT ![t] = <<"error">>]
    BY <1>8 DEF RemoveRoot, Returns, locals
  <2>2. TreeCalls' = TreeCalls
    BY <2>1 DEF TreeCalls
  <2>3. D!DRemoveRoot(t)
    BY <1>4, <1>5, <2>1, <2>2 DEF D!DRemoveRoot
  <2>4. QED
    BY <2>3 DEF D!DNext
<1>9. QED
  BY <1>1, <1>6, <1>7, <1>8

\* An entry made on the way to a key that is being set is not a key yet.
LEMMA CreateHidden ==
  ASSUME DbInv, KeyInv, NEW t \in Threads, Create(t)
  PROVE  TreeDir' = TreeDir /\ job' = job /\ answer' = answer
<1>1. /\ pc[t] = "walk" /\ rest[t] # <<>> /\ cur[t] = NULL
      /\ job[t].op = "set" /\ UNCHANGED <<lost, job, answer>>
  BY DEF Create, Goto
<1>2. TreeKept /\ TreeType /\ PathInv /\ NameInv
  BY DEF DbInv, TreeKept, KeyInv
<1>3. PICK c \in Entries \ alloc :
        /\ alloc' = alloc \cup {c} /\ AppendChild(entry[t], c, Head(rest[t]))
        /\ fresh' = fresh \cup {c}
  BY DEF Create
<1>4. PICK e \in Linked : e = entry[t]
  BY <1>1, NoSuchChild
<1>5. PICK part : part = Head(rest[t])
  OBVIOUS
<1>6. AppendChild(e, c, part)
  BY <1>3, <1>4, <1>5
<1>7. \A x \in Linked : Keys'[x] = Keys[x]
  BY <1>1, <1>2, <1>3, <1>6, CreateKeys
<1>8. (\A x : x \in Linked' <=> x \in Linked \/ x = c) /\ c \notin Linked
  BY <1>1, <1>2, <1>3, <1>6, AppendChildIs
<1>9. \A x \in Linked : value'[x] = value[x]
  <2>1. value' = [value EXCEPT ![c] = NoValue] /\ DOMAIN value = All /\ Linked \subseteq All
    BY <1>2, <1>6 DEF AppendChild, NameInv, TreeType, Linked
  <2>2. QED
    BY <1>8, <2>1
<1>10. Linked' \ fresh' = Linked \ fresh
  BY <1>3, <1>8
<1>11. TreeDir' = TreeDir
  BY <1>7, <1>9, <1>10, DirStays
<1>12. QED
  BY <1>1, <1>11

\* The tree of csdb.c, its walks and its removals, with any number of threads and
\* entries, is a directory whose operations take effect at one instant, the
\* listing apart.
THEOREM DatabaseImplementsDirectory == Spec => ImplementsDirectory
<1>1. Init => D!DInit
  <2>1. SUFFICES ASSUME Init PROVE D!DInit
    OBVIOUS
  <2>2. DbInv /\ KeyInv
    BY <2>1, DbInitInv, KeyInit
  <2>3. Linked = {Root} /\ fresh = {} /\ value[Root] = NoValue
    BY <2>1, NullIs DEF Init, Linked
  <2>4. Keys[Root] = <<>>
    BY <2>2, <2>3, KeysAre DEF KeyInv
  <2>5. /\ TreeDir = [q \in DOMAIN TreeDir |-> TreeDir[q]]
        /\ \A q : q \in DOMAIN TreeDir <=> \E x \in Linked : q = Keys[x]
        /\ \A x \in Linked : TreeDir[Keys[x]] = value[x]
    BY <2>2, <2>3, DirFull
  <2>6. TreeDir = [p \in {<<>>} |-> NoValue]
    <3>1. DOMAIN TreeDir = {<<>>} /\ TreeDir[<<>>] = NoValue
      BY <2>3, <2>4, <2>5
    <3>2. QED
      BY <2>5, <3>1
  <2>7. TreeCalls = [t \in Threads |-> NoJob] /\ answer = [t \in Threads |-> <<"none">>]
    BY <2>1 DEF Init, TreeCalls
  <2>8. QED
    BY <2>6, <2>7 DEF D!DInit
<1>2. DbInv /\ KeyInv /\ [Next]_vars => [D!DNext]_(D!dirVars)
  <2> SUFFICES ASSUME DbInv, KeyInv, [Next]_vars
               PROVE  D!DNext \/ UNCHANGED <<TreeDir, TreeCalls, answer>>
    BY DEF D!dirVars
  <2>1. ASSUME UNCHANGED <<Fixed, value, fresh>>, job' = job, answer' = answer
        PROVE  UNCHANGED <<TreeDir, TreeCalls, answer>>
    BY <2>1, DirQuiet DEF TreeCalls
  <2>2. CASE UNCHANGED vars
    BY <2>1, <2>2 DEF vars, tree, locals, Fixed
  <2>3. ASSUME NEW t \in Threads,
               Calling(t) \/ Lock(t) \/ Walking(t) \/ Working(t) \/ Listing(t)
        PROVE  D!DNext \/ UNCHANGED <<TreeDir, TreeCalls, answer>>
    <3>1. CASE Calling(t)
      BY <3>1, CallIs
    <3>2. CASE Working(t)
      <4>1. \/ D!DSet(t) \/ D!DAppend(t) \/ D!DGet(t) \/ D!DExist(t) \/ D!DDump(t) \/ D!DRemove(t)
        BY <3>2, SetIs, AppendIs, GetIs, ExistIs, DumpIs, RemoveIs DEF Working
      <4>2. QED
        BY <4>1 DEF D!DNext
    <3>3. CASE Create(t)
      BY <3>3, CreateHidden DEF TreeCalls
    <3>4. CASE Lock(t) \/ Hop(t) \/ Found(t) \/ NotFound(t) \/ CreateNoMem(t)
      BY <2>1, <3>4 DEF Lock, Hop, Found, NotFound, CreateNoMem, Descend, tree, locals, Fixed
    <3>5. CASE Listing(t)
      <4>1. /\ job[t].op = "list" /\ UNCHANGED <<Fixed, value, fresh, answer>>
            /\ job' = job \/ job' = [job EXCEPT ![t] = NoJob]
        BY <3>5, KeyLists
      <4>2. DOMAIN job = Threads /\ NoJob.op = "none"
        BY DEF DbInv, LocalsType, NoJob
      <4>3. TreeCalls' = TreeCalls
        BY <4>1, <4>2 DEF TreeCalls
      <4>4. QED
        BY <4>1, <4>3, DirQuiet
    <3>6. QED
      BY <2>3, <3>1, <3>2, <3>3, <3>4, <3>5 DEF Walking
  <2>4. QED
    BY <2>2, <2>3 DEF Next
<1>3. QED
  BY <1>1, <1>2, KeyInvariance, PTL DEF Spec, ImplementsDirectory, D!DSpec
===============================================================================
