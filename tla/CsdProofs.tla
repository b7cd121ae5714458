------------------------------- MODULE CsdProofs -------------------------------
(***************************************************************************)
(* The threads of a csd, for any nodes, libraries, requests and numbers of *)
(* rounds and packets: the list of capable nodes and the node best_node    *)
(* answers with, although three threads share the position of strtok,      *)
(* other nodes may answer wrongly and clients change the database.         *)
(***************************************************************************)
EXTENDS Csd, TLAPS, FiniteSetTheorems, SequenceTheorems, NaturalsInduction, WellFoundedInduction

-------------------------------------------------------------------------------
(* The invariant *)

Strtok == [rest : Seq(STRING), of : Parsers \cup {NoThread}, freed : BOOLEAN]

TypeInv ==
  /\ alive \in Seq(Nodes) /\ claimed \subseteq Nodes
  /\ capnodes = NoKey \/ (capnodes \in Seq(Nodes) /\ capnodes # <<>>)
  /\ save \in Strtok /\ mixed \in [Parsers -> BOOLEAN] /\ spoilt \in BOOLEAN
  /\ DOMAIN pc = Threads /\ DOMAIN tok = Parsers /\ DOMAIN buf = Parsers
  /\ DOMAIN arb = {"best", "max", "sum", "i", "found"}
  /\ packet \in [kind : Kinds, node : Nodes, left : Int, ok : BOOLEAN]

\* A thread took words of a string of its own only, up to the k-th one; if nobody
\* began another string meanwhile, strtok will go on behind it.
Reached(t, string, k) ==
  /\ k \in 1 .. Len(string) /\ tok[t] = string[k]
  /\ save.of = t =>
       /\ ~save.freed /\ Len(save.rest) = Len(string) - k
       /\ \A i \in 1 .. Len(save.rest) : save.rest[i] = string[k + i]

Stores == {"exist", "setcap", "append"}
Asks == {"send", "answer", "more"} \cup Stores
Candidates == Capable \cup {Self} \cup claimed

\* Nodes get into capnodes only that are capable, or this one, or claimed to be.
\* Nobody else changes the key in a round that is not spoilt.
StoreInv ==
  /\ capnodes # NoKey => Range(capnodes) \subseteq Candidates
  /\ pc["update"] \in Stores \cup {"answer"} => tok["update"] \in Nodes
  /\ pc["update"] \in Stores => tok["update"] \in Candidates
  /\ pc["update"] = "setcap" /\ ~spoilt => capnodes = NoKey
  /\ pc["update"] = "append" /\ ~spoilt => capnodes # NoKey

\* What it has found when it has asked the k-th node of the list.
AskInv ==
  /\ pc["update"] \in {"clear", "tok", "free"} \cup Asks => buf["update"] \in Seq(Nodes)
  /\ pc["update"] = "tok" => buf["update"] # <<>> /\ (~spoilt => capnodes = NoKey)
  /\ pc["update"] \in Asks /\ ~spoilt /\ ~mixed["update"] =>
       \E k \in 1 .. Len(buf["update"]) :
         /\ Reached("update", buf["update"], k)
         /\ Found(buf["update"], IF pc["update"] = "more" THEN k ELSE k - 1)
         /\ pc["update"] \in Stores => buf["update"][k] \in Capable
  /\ CapNodesFound

\* The request of update_db to its own node is under way while it waits for it,
\* and answered by the truth.
OwnInv ==
  /\ own # "none" => pc["update"] = "answer" /\ tok["update"] = Self
  /\ own \in {"yes", "no"} /\ ~spoilt => (own = "yes" <=> Self \in Capable)

\* receive_packets has looked for the libraries before the k-th one.
LibInv ==
  /\ pc["packets"] \in {"lib", "libnext"} /\ ~mixed["packets"] =>
       \E k \in 1 .. Len(Libs) :
         /\ Reached("packets", Libs, k)
         /\ \A i \in 1 .. k - 1 : Libs[i] \in conf
         /\ pc["packets"] = "libnext" => (packet.ok <=> Libs[k] \in conf)
  /\ pc["packets"] = "libfree" /\ ~mixed["packets"] =>
       (packet.ok <=> Range(Libs) \subseteq conf)

\* best_node compares nodes of the list it has looked up.
Compares == {"alive", "bench", "next"}

BestInv ==
  /\ buf["best_node"] \in Seq(Candidates)
  /\ pc["best_node"] = "tok" => buf["best_node"] # <<>>
  /\ pc["best_node"] \in {"msgrcv", "exist", "get", "tok"} => arb = NoArb
  /\ pc["best_node"] \in Compares /\ ~mixed["best_node"] =>
       /\ save.of = "best_node" => save.rest \in Seq(Candidates)
       /\ pc["best_node"] # "next" => tok["best_node"] \in Candidates
  /\ ~mixed["best_node"] => arb.best \in Candidates

CsdInv == TypeInv /\ StoreInv /\ AskInv /\ OwnInv /\ LibInv /\ BestInv

-------------------------------------------------------------------------------
(* strtok and the other threads *)

LEMMA Constants ==
  /\ Parsers \subseteq Threads /\ NoToken \notin Nodes /\ Self \in Nodes
  /\ Capable \subseteq Nodes /\ Nodes \subseteq STRING
  /\ NoKey \notin Seq(Nodes)
  /\ DefReq \in Seq(STRING) /\ DefReq # <<>> /\ Libs \in Seq(STRING) /\ Libs # <<>>
  /\ NoToken \notin Range(Libs)
  /\ Self \in Capable <=> Range(Libs) \subseteq LocalLibs
BY CsdAssumption DEF Parsers, Threads

LEMMA CandidatesAre ==
  ASSUME TypeInv
  PROVE  Candidates \subseteq Nodes /\ Candidates \subseteq STRING /\ Self \in Candidates
BY Constants DEF TypeInv, Candidates

\* Once claimed, always claimed.
LEMMA CandidatesKept ==
  ASSUME claimed \subseteq claimed'
  PROVE  Candidates \subseteq Candidates'
BY DEF Candidates

LEMMA TailIs ==
  /\ <<>> \in Seq(STRING)
  /\ \A s \in Seq(STRING) : s # <<>> =>
       /\ Tail(s) \in Seq(STRING) /\ Len(s) > 0 /\ Len(Tail(s)) = Len(s) - 1
       /\ \A i \in 1 .. Len(s) - 1 : Tail(s)[i] = s[i + 1]
OBVIOUS

LEMMA WordsBehind ==
  ASSUME NEW s, NEW k \in Nat, NEW r \in Seq(STRING), r # <<>>,
         \A i \in 1 .. Len(r) : r[i] = s[k + i]
  PROVE  \A i \in 1 .. Len(Tail(r)) : Tail(r)[i] = s[k + 1 + i]
<1>1. PICK n \in Nat : /\ n = Len(r) /\ n > 0 /\ Len(Tail(r)) = n - 1
                       /\ \A i \in 1 .. n - 1 : Tail(r)[i] = r[i + 1]
  BY TailIs
<1>2. SUFFICES ASSUME NEW i \in 1 .. n - 1 PROVE Tail(r)[i] = s[k + 1 + i]
  BY <1>1
<1>3. i + 1 \in 1 .. n /\ k + (i + 1) = k + 1 + i
  BY <1>1, <1>2
<1>4. QED
  BY <1>1, <1>3

LEMMA SeqMonotone ==
  ASSUME NEW S, NEW T, S \subseteq T, NEW s \in Seq(S)
  PROVE  s \in Seq(T)
<1>1. s \in [1 .. Len(s) -> S] /\ Len(s) \in Nat
  OBVIOUS
<1>2. s \in [1 .. Len(s) -> T]
  BY <1>1
<1>3. QED
  BY <1>1, <1>2

StrtokType == save \in Strtok /\ mixed \in [Parsers -> BOOLEAN] /\ DOMAIN tok = Parsers

\* strtok used by another thread: t goes on as before, or it will find that it
\* was disturbed.
Alone(t) ==
  /\ tok'[t] = tok[t]
  /\ mixed[t] => mixed'[t]
  /\ mixed'[t] \/ save'.of # t \/ save' = save

LEMMA StrtokFirstIs ==
  ASSUME StrtokType, NEW t \in Parsers, NEW s \in Seq(STRING), s # <<>>, StrtokFirst(t, s)
  PROVE  /\ StrtokType' /\ ~mixed'[t] /\ tok'[t] = s[1]
         /\ save'.of = t /\ ~save'.freed /\ save'.rest = Tail(s)
         /\ \A u \in Parsers \ {t} : Alone(u)
<1>1. save' = [rest |-> Tail(s), of |-> t, freed |-> FALSE] /\ Tail(s) \in Seq(STRING)
  BY DEF StrtokFirst
<1>2. save' \in Strtok /\ save'.of = t /\ ~save'.freed /\ save'.rest = Tail(s)
  BY <1>1 DEF Strtok
<1>3. mixed' \in [Parsers -> BOOLEAN] /\ ~mixed'[t] /\ \A u \in Parsers \ {t} : mixed'[u] = mixed[u]
  BY Zenon DEF StrtokType, StrtokFirst
<1>4. DOMAIN tok' = Parsers /\ tok'[t] = s[1] /\ \A u \in Parsers \ {t} : tok'[u] = tok[u]
  BY DEF StrtokType, StrtokFirst
<1>5. QED
  BY <1>2, <1>3, <1>4 DEF StrtokType, Alone

\* Either a thread was disturbed, or it gets the next word of its own string.
LEMMA StrtokNextIs ==
  ASSUME StrtokType, NEW t \in Parsers, StrtokNext(t)
  PROVE  /\ StrtokType'
         /\ \A u \in Parsers \ {t} : Alone(u)
         /\ ~mixed'[t] =>
              /\ ~mixed[t] /\ save.of = t /\ save'.of = t /\ (save'.freed => save.freed)
              /\ \/ save.rest # <<>> /\ tok'[t] = save.rest[1] /\ save'.rest = Tail(save.rest)
                 \/ (save.rest = <<>> \/ save.freed) /\ tok'[t] = NoToken /\ save'.rest = <<>>
<1>1. save.rest \in Seq(STRING) /\ save \in Strtok
  BY DEF StrtokType, Strtok
<1>2. PICK r, w : /\ save' = [save EXCEPT !.rest = r] /\ tok' = [tok EXCEPT ![t] = w]
                  /\ \/ save.rest # <<>> /\ w = save.rest[1] /\ r = Tail(save.rest)
                     \/ (save.rest = <<>> \/ save.freed) /\ w = NoToken /\ r = <<>>
  <2>1. CASE /\ save.rest # <<>>
             /\ tok' = [tok EXCEPT ![t] = Head(save.rest)]
             /\ save' = [save EXCEPT !.rest = Tail(@)]
    <3>1. Head(save.rest) = save.rest[1]
      BY <1>1
    <3>2. QED
      BY <2>1, <3>1, Zenon
  <2>2. CASE /\ save.rest = <<>> \/ save.freed
             /\ tok' = [tok EXCEPT ![t] = NoToken]
             /\ save' = [save EXCEPT !.rest = <<>>]
    BY <2>2, Zenon
  <2>3. QED
    BY <2>1, <2>2, Zenon DEF StrtokNext
<1>3. save' \in Strtok /\ save'.of = save.of /\ save'.freed = save.freed /\ save'.rest = r
  <2>1. (save.rest # <<>> /\ r = Tail(save.rest)) \/ r = <<>>
    BY <1>2, Zenon
  <2>2. r \in Seq(STRING)
    BY <1>1, <2>1, TailIs, Zenon
  <2>3. QED
    BY <1>1, <1>2, <2>2 DEF Strtok
<1>4. DOMAIN tok' = Parsers /\ \A u \in Parsers \ {t} : tok'[u] = tok[u]
  BY <1>2 DEF StrtokType
<1>5. mixed' = [u \in Parsers |-> mixed[u] \/ (save.of # t /\ u \in {t, save.of})]
  BY DEF StrtokNext
<1>6. mixed' \in [Parsers -> BOOLEAN]
  BY <1>5 DEF StrtokType
<1>7. \A u \in Parsers : mixed'[u] <=> mixed[u] \/ (save.of # t /\ u \in {t, save.of})
  BY <1>5
<1>8. ASSUME NEW u \in Parsers \ {t} PROVE Alone(u)
  BY <1>3, <1>4, <1>7, <1>8 DEF Alone
<1>9. ASSUME ~mixed'[t] PROVE ~mixed[t] /\ save.of = t
  BY <1>7, <1>9
<1>10. \/ save.rest # <<>> /\ tok'[t] = save.rest[1] /\ save'.rest = Tail(save.rest)
       \/ (save.rest = <<>> \/ save.freed) /\ tok'[t] = NoToken /\ save'.rest = <<>>
  BY <1>2, <1>3 DEF StrtokType
<1>11. QED
  BY <1>3, <1>4, <1>6, <1>8, <1>9, <1>10 DEF StrtokType

LEMMA FreeBufIs ==
  ASSUME StrtokType, DOMAIN buf = Parsers, NEW t \in Parsers, FreeBuf(t),
         mixed' = mixed \/ mixed' = [mixed EXCEPT ![t] = FALSE]
  PROVE  /\ StrtokType' /\ DOMAIN buf' = Parsers /\ buf'[t] = <<>>
         /\ \A u \in Parsers \ {t} : Alone(u) /\ buf'[u] = buf[u]
<1>1. mixed' \in [Parsers -> BOOLEAN] /\ \A u \in Parsers \ {t} : mixed'[u] = mixed[u]
  BY Zenon DEF StrtokType
<1>2. /\ DOMAIN tok' = Parsers /\ \A u \in Parsers \ {t} : tok'[u] = tok[u]
      /\ DOMAIN buf' = Parsers /\ buf'[t] = <<>> /\ \A u \in Parsers \ {t} : buf'[u] = buf[u]
  BY DEF StrtokType, FreeBuf
<1>3. /\ save' \in Strtok
      /\ save' = save \/ save'.of \in {t, NoThread}
  <2>1. NoSave \in Strtok /\ NoSave.of = NoThread
    BY DEF NoSave, Strtok
  <2>2. [save EXCEPT !.freed = TRUE] \in Strtok /\ [save EXCEPT !.freed = TRUE].of = save.of
    BY DEF StrtokType, Strtok
  <2>3. QED
    BY <2>1, <2>2 DEF StrtokType, FreeBuf
<1>4. NoThread \notin Parsers
  BY CsdAssumption DEF Parsers, Threads
<1>5. QED
  BY <1>1, <1>2, <1>3, <1>4 DEF StrtokType, Alone

LEMMA NoStrtokIs ==
  ASSUME StrtokType, NoStrtok
  PROVE  StrtokType' /\ save' = save /\ mixed' = mixed /\ tok' = tok /\ \A u \in Parsers : Alone(u)
<1>1. save' = save /\ mixed' = mixed /\ tok' = tok
  BY DEF NoStrtok, strtokVars
<1>2. QED
  BY <1>1 DEF StrtokType, Alone

\* What a step leaves to thread t if it is another one's, or a signal's.
Kept(t) ==
  /\ Alone(t) /\ buf'[t] = buf[t]
  /\ pc'[t] = pc[t] \/ pc'[t] \in Handler

\* A step of one of the three threads.
Frame(t) ==
  /\ StrtokType' /\ DOMAIN pc' = Threads /\ DOMAIN buf' = Parsers
  /\ \A u \in Parsers \ {t} : Kept(u)

LEMMA GotoIs ==
  ASSUME DOMAIN pc = Threads, NEW t \in Threads, NEW from, NEW to, Goto(t, from, to)
  PROVE  /\ pc[t] = from /\ DOMAIN pc' = Threads /\ pc'[t] = to
         /\ \A u \in Threads \ {t} : pc'[u] = pc[u]
BY DEF Goto

LEMMA TypeParts ==
  ASSUME TypeInv
  PROVE  StrtokType /\ DOMAIN pc = Threads /\ DOMAIN buf = Parsers
BY DEF TypeInv, StrtokType

\* pc and buf of a step that is described by Goto.
LEMMA FrameOf ==
  ASSUME TypeInv, NEW t \in Parsers, NEW from, NEW to, Goto(t, from, to),
         DOMAIN buf' = Parsers, \A u \in Parsers \ {t} : buf'[u] = buf[u],
         StrtokType', \A u \in Parsers \ {t} : Alone(u)
  PROVE  Frame(t)
<1>1. t \in Threads /\ Parsers \subseteq Threads
  BY DEF Parsers, Threads
<1>2. DOMAIN pc' = Threads /\ \A u \in Threads \ {t} : pc'[u] = pc[u]
  BY <1>1, GotoIs, TypeParts
<1>3. QED
  BY <1>1, <1>2 DEF Frame, Kept

LEMMA QuietFrame ==
  ASSUME TypeInv, NEW t \in Parsers, NEW from, NEW to, Goto(t, from, to),
         NoStrtok, buf' = buf
  PROVE  Frame(t) /\ save' = save /\ mixed' = mixed /\ tok' = tok
<1>1. StrtokType' /\ save' = save /\ mixed' = mixed /\ tok' = tok /\ \A u \in Parsers : Alone(u)
  BY NoStrtokIs, TypeParts
<1>2. DOMAIN buf' = Parsers
  BY TypeParts
<1>3. Frame(t)
  BY <1>1, <1>2, FrameOf
<1>4. QED
  BY <1>1, <1>3

-------------------------------------------------------------------------------
(* update_db *)

\* The steps of update_db that leave strtok alone.
LEMMA UpdateQuiet ==
  ASSUME CsdInv,
         \/ SetDynamicValues \/ ListNodes \/ GetDefReq \/ DbAnswered \/ DbRefused \/ DbTimeout
         \/ GetLibs \/ ClearCapNodes \/ CapSend \/ CapUnsent \/ CapAnswered \/ CapTimeout
         \/ CapKeyExist \/ CapStore \/ UpdateSlept
  PROVE  Frame("update") /\ save' = save /\ mixed' = mixed /\ tok' = tok /\ buf' = buf
<1>1. TypeInv /\ "update" \in Parsers
  BY DEF CsdInv, Parsers
<1>2. NoStrtok /\ buf' = buf
  BY DEF SetDynamicValues, ListNodes, GetDefReq, DbAnswered, DbRefused, DbTimeout, GetLibs,
         ClearCapNodes, CapSend, CapUnsent, CapAnswered, CapTimeout, CapKeyExist, CapStore,
         UpdateSlept
<1>3. \E from, to : Goto("update", from, to)
  BY DEF SetDynamicValues, ListNodes, GetDefReq, DbAnswered, DbRefused, DbTimeout, GetLibs,
         LookupConf, ClearCapNodes, CapSend, CapUnsent, CapAnswered, CapTimeout, CapKeyExist,
         CapStore, UpdateSlept
<1>4. QED
  BY <1>1, <1>2, <1>3, QuietFrame

\* The steps of update_db, as far as they concern the other threads.
LEMMA UpdateFrame ==
  ASSUME CsdInv, Update
  PROVE  Frame("update") /\ arb' = arb /\ packet' = packet /\ conf' = conf
<1>1. TypeInv /\ "update" \in Parsers /\ StrtokType /\ DOMAIN buf = Parsers
  BY TypeParts DEF CsdInv, Parsers
<1>2. arb' = arb /\ packet' = packet /\ conf' = conf
  BY DEF Update, others, SetDynamicValues, ListNodes, GetDefReq, NextNode, NodesDone, DbAnswered,
         DbRefused, DbTimeout, NextRequest, GetLibs, ListAlive, ClearCapNodes, FreeStray,
         FirstAlive, CapSend, CapUnsent, CapAnswered, CapTimeout, CapKeyExist, CapStore, NextAlive,
         FreeAlive, UpdateSlept
<1>3. CASE ListAlive
  <2>1. /\ NoStrtok /\ buf' = [buf EXCEPT !["update"] = alive]
        /\ Goto("update", "listing", "clear")
    BY <1>3 DEF ListAlive
  <2>2. DOMAIN buf' = Parsers /\ \A u \in Parsers \ {"update"} : buf'[u] = buf[u]
    BY <1>1, <2>1
  <2>3. StrtokType' /\ \A u \in Parsers \ {"update"} : Alone(u)
    BY <1>1, <2>1, NoStrtokIs
  <2>4. QED
    BY <1>1, <1>2, <2>1, <2>2, <2>3, FrameOf
<1>4. CASE FreeStray
  <2>1. /\ save' = save /\ tok' = tok /\ mixed' = mixed /\ buf' = buf
        /\ Goto("update", "stray", "sleep")
    BY <1>4 DEF FreeStray
  <2>2. StrtokType' /\ \A u \in Parsers \ {"update"} : Alone(u)
    BY <1>1, <2>1 DEF StrtokType, Alone
  <2>3. QED
    BY <1>1, <1>2, <2>1, <2>2, FrameOf
<1>5. CASE NextNode
  <2>1. /\ StrtokFirst("update", DefReq) /\ buf' = [buf EXCEPT !["update"] = DefReq]
        /\ \E to : Goto("update", "node", to)
    BY <1>5 DEF NextNode
  <2>2. DOMAIN buf' = Parsers /\ \A u \in Parsers \ {"update"} : buf'[u] = buf[u]
    BY <1>1, <2>1
  <2>3. StrtokType' /\ \A u \in Parsers \ {"update"} : Alone(u)
    BY <1>1, <2>1, StrtokFirstIs, Constants
  <2>4. QED
    BY <1>1, <1>2, <2>1, <2>2, <2>3, FrameOf
<1>6. CASE FirstAlive
  <2>1. /\ StrtokFirst("update", buf["update"]) /\ buf' = buf
        /\ Goto("update", "tok", "send")
    BY <1>6 DEF FirstAlive
  <2>2. buf["update"] \in Seq(STRING) /\ buf["update"] # <<>>
    <3>1. buf["update"] \in Seq(Nodes) /\ buf["update"] # <<>>
      BY <2>1 DEF Goto, CsdInv, AskInv
    <3>2. QED
      BY <3>1, Constants, SeqMonotone
  <2>3. StrtokType' /\ \A u \in Parsers \ {"update"} : Alone(u)
    BY <1>1, <2>1, <2>2, StrtokFirstIs
  <2>4. QED
    BY <1>1, <1>2, <2>1, <2>3, FrameOf
<1>7. CASE NextRequest \/ NextAlive
  <2>1. StrtokNext("update") /\ buf' = buf /\ \E from, to : Goto("update", from, to)
    BY <1>7 DEF NextRequest, NextAlive
  <2>2. StrtokType' /\ \A u \in Parsers \ {"update"} : Alone(u)
    BY <1>1, <2>1, StrtokNextIs
  <2>3. QED
    BY <1>1, <1>2, <2>1, <2>2, FrameOf
<1>8. CASE NodesDone \/ FreeAlive
  <2>1. /\ FreeBuf("update") /\ mixed' = [mixed EXCEPT !["update"] = FALSE]
        /\ \E from, to : Goto("update", from, to)
    BY <1>8 DEF NodesDone, FreeAlive
  <2>2. /\ StrtokType' /\ DOMAIN buf' = Parsers
        /\ \A u \in Parsers \ {"update"} : Alone(u) /\ buf'[u] = buf[u]
    BY <1>1, <2>1, FreeBufIs
  <2>3. QED
    BY <1>1, <1>2, <2>1, <2>2, FrameOf
<1>9. QED
  BY <1>2, <1>3, <1>4, <1>5, <1>6, <1>7, <1>8, UpdateQuiet DEF Update

-------------------------------------------------------------------------------
(* What the others' steps leave alone *)

LEMMA ReachedKept ==
  ASSUME NEW t \in Parsers, NEW s, NEW k, Reached(t, s, k), Alone(t), ~mixed'[t]
  PROVE  Reached(t, s, k)'
BY DEF Reached, Alone

LEMMA FoundKept ==
  ASSUME NEW s, NEW k, capnodes' = capnodes
  PROVE  Found(s, k)' <=> Found(s, k)
BY DEF Found

LEMMA AskKept ==
  ASSUME CsdInv, Kept("update"), spoilt => spoilt', capnodes' = capnodes \/ spoilt',
         claimed \subseteq claimed', capnodes' # NoKey => Range(capnodes') \subseteq Candidates'
  PROVE  StoreInv' /\ AskInv'
<1>1. CASE pc'["update"] \in Handler
  <2>1. /\ pc'["update"] \notin {"clear", "tok", "free"} \cup Asks
        /\ pc'["update"] \notin Stores \cup {"answer", "tok", "setcap", "append"}
    BY <1>1 DEF Handler, Asks, Stores
  <2>2. QED
    BY <2>1 DEF CsdInv, StoreInv, AskInv, CapNodesFound, Asks, Stores
<1>2. CASE pc'["update"] = pc["update"]
  <2>1. /\ tok'["update"] = tok["update"] /\ buf'["update"] = buf["update"]
        /\ mixed["update"] => mixed'["update"]
    BY DEF Kept, Alone
  <2>2. StoreInv'
    BY <1>2, <2>1, CandidatesKept DEF CsdInv, StoreInv
  <2>3. PICK s : s = buf["update"]
    OBVIOUS
  <2>4. ASSUME pc["update"] \in Asks, ~spoilt', ~mixed'["update"]
        PROVE  \E k \in 1 .. Len(s) :
                 /\ Reached("update", s, k)'
                 /\ Found(s, IF pc["update"] = "more" THEN k ELSE k - 1)'
                 /\ pc["update"] \in Stores => s[k] \in Capable
    <3>1. PICK k \in 1 .. Len(s) :
                 /\ Reached("update", s, k)
                 /\ Found(s, IF pc["update"] = "more" THEN k ELSE k - 1)
                 /\ pc["update"] \in Stores => s[k] \in Capable
      BY <2>1, <2>3, <2>4 DEF CsdInv, AskInv
    <3>2. Reached("update", s, k)'
      BY <2>4, <3>1, ReachedKept DEF Kept, Parsers
    <3>3. Found(s, IF pc["update"] = "more" THEN k ELSE k - 1)'
      <4>1. PICK m : m = IF pc["update"] = "more" THEN k ELSE k - 1
        OBVIOUS
      <4>2. Found(s, m)'
        BY <2>4, <3>1, <4>1, FoundKept
      <4>3. QED
        BY <1>2, <4>1, <4>2
    <3>4. QED
      BY <3>1, <3>2, <3>3
  <2>5. pc["update"] = "free" /\ ~spoilt' /\ ~mixed'["update"] => Found(s, Len(s))'
    BY <2>1, <2>3, FoundKept DEF CsdInv, AskInv, CapNodesFound
  <2>6. AskInv'
    BY <1>2, <2>1, <2>3, <2>4, <2>5 DEF CsdInv, AskInv, CapNodesFound
  <2>7. QED
    BY <2>2, <2>6
<1>3. QED
  BY <1>1, <1>2 DEF Kept

LEMMA LibKept ==
  ASSUME CsdInv, Kept("packets"), packet' = packet, conf' = conf
  PROVE  LibInv'
<1>1. CASE pc'["packets"] \in Handler
  BY <1>1 DEF Handler, LibInv
<1>2. CASE pc'["packets"] = pc["packets"]
  <2>1. mixed["packets"] => mixed'["packets"]
    BY DEF Kept, Alone
  <2>2. ASSUME pc["packets"] \in {"lib", "libnext"}, ~mixed'["packets"]
        PROVE  \E k \in 1 .. Len(Libs) :
                 /\ Reached("packets", Libs, k)'
                 /\ \A i \in 1 .. k - 1 : Libs[i] \in conf
                 /\ pc["packets"] = "libnext" => (packet.ok <=> Libs[k] \in conf)
    <3>1. PICK k \in 1 .. Len(Libs) :
                 /\ Reached("packets", Libs, k)
                 /\ \A i \in 1 .. k - 1 : Libs[i] \in conf
                 /\ pc["packets"] = "libnext" => (packet.ok <=> Libs[k] \in conf)
      BY <2>1, <2>2 DEF CsdInv, LibInv
    <3>2. Reached("packets", Libs, k)'
      BY <2>2, <3>1, ReachedKept DEF Kept, Parsers
    <3>3. QED
      BY <3>1, <3>2
  <2>3. pc["packets"] = "libfree" /\ ~mixed'["packets"] =>
          (packet.ok <=> Range(Libs) \subseteq conf)
    BY <2>1 DEF CsdInv, LibInv
  <2>4. QED
    BY <1>2, <2>2, <2>3 DEF LibInv
<1>3. QED
  BY <1>1, <1>2 DEF Kept

LEMMA BestKept ==
  ASSUME CsdInv, Kept("best_node"), arb' = arb, claimed \subseteq claimed'
  PROVE  BestInv'
<1>0. Candidates \subseteq Candidates' /\ \A s \in Seq(Candidates) : s \in Seq(Candidates')
  BY CandidatesKept, SeqMonotone
<1>1. /\ tok'["best_node"] = tok["best_node"] /\ buf'["best_node"] = buf["best_node"]
      /\ mixed["best_node"] => mixed'["best_node"]
      /\ mixed'["best_node"] \/ save'.of # "best_node" \/ save' = save
  BY DEF Kept, Alone
<1>2. CASE pc'["best_node"] \in Handler
  BY <1>0, <1>1, <1>2 DEF Handler, CsdInv, BestInv, Compares
<1>3. CASE pc'["best_node"] = pc["best_node"]
  BY <1>0, <1>1, <1>3 DEF CsdInv, BestInv
<1>4. QED
  BY <1>2, <1>3 DEF Kept

-------------------------------------------------------------------------------
(* The alive nodes *)

LEMMA WithoutNodeIs ==
  ASSUME alive \in Seq(Nodes), NEW n
  PROVE  WithoutNode(n) \in Seq(Nodes)
<1>1. CASE n \notin Range(alive)
  BY <1>1 DEF WithoutNode
<1>2. CASE n \in Range(alive)
  <2>1. \E i \in DOMAIN alive : alive[i] = n
    BY <1>2 DEF Range
  <2>2. PICK i \in DOMAIN alive :
          WithoutNode(n) = SubSeq(alive, 1, i - 1) \o SubSeq(alive, i + 1, Len(alive))
    BY <1>2, <2>1, Zenon DEF WithoutNode
  <2>3. i \in 1 .. Len(alive) /\ Len(alive) \in Nat
    OBVIOUS
  <2>4. PICK a, b : a = SubSeq(alive, 1, i - 1) /\ b = SubSeq(alive, i + 1, Len(alive))
    OBVIOUS
  <2>5. a \in Seq(Nodes) /\ b \in Seq(Nodes)
    BY <2>3, <2>4
  <2>6. a \o b \in Seq(Nodes)
    BY <2>5
  <2>7. QED
    BY <2>2, <2>4, <2>6
<1>3. QED
  BY <1>1, <1>2

LEMMA WithNodeIs ==
  ASSUME alive \in Seq(Nodes), NEW n \in Nodes
  PROVE  WithNode(n) \in Seq(Nodes)
<1>1. <<n>> \o alive \in Seq(Nodes)
  OBVIOUS
<1>2. QED
  BY <1>1 DEF WithNode

-------------------------------------------------------------------------------
(* The capable nodes *)

LEMMA FoundNothing ==
  ASSUME NEW s, capnodes = NoKey
  PROVE  Found(s, 0)
BY DEF Found

LEMMA FoundSkip ==
  ASSUME NEW s, NEW k \in Nat \ {0}, s[k] \notin Capable, Found(s, k - 1)
  PROVE  Found(s, k)
<1>1. {i \in 1 .. k : s[i] \in Capable} = {i \in 1 .. k - 1 : s[i] \in Capable}
  OBVIOUS
<1>2. QED
  BY <1>1 DEF Found

\* The two ways of csc_update_cap_nodes_for_app to add a node.
LEMMA FoundOne ==
  ASSUME NEW s, NEW k \in Nat \ {0}, s[k] \in Capable, Found(s, k - 1),
         capnodes = NoKey, capnodes' = <<s[k]>>
  PROVE  Found(s, k)'
<1>1. PICK C : C = {i \in 1 .. k : s[i] \in Capable}
  OBVIOUS
<1>2. {i \in 1 .. k - 1 : s[i] \in Capable} = {}
  BY DEF Found
<1>3. C = {k}
  BY <1>1, <1>2
<1>4. <<s[k]>> \in Seq(Nodes)
  <2>1. s[k] \in Nodes
    BY CsdAssumption
  <2>2. QED
    BY <2>1
<1>5. capnodes' # NoKey
  BY <1>4, CsdAssumption
<1>6. DOMAIN capnodes' = {1} /\ capnodes'[1] = s[k]
  OBVIOUS
<1>7. Range(capnodes') = {s[i] : i \in C}
  BY <1>3, <1>6 DEF Range
<1>8. \A a, b \in DOMAIN capnodes' : ~(a < b)
  BY <1>6
<1>9. QED
  BY <1>1, <1>3, <1>5, <1>7, <1>8 DEF Found

LEMMA FoundMore ==
  ASSUME NEW s, NEW k \in Nat \ {0}, s[k] \in Capable, Found(s, k - 1),
         capnodes # NoKey, capnodes \in Seq(Nodes), capnodes' = Append(capnodes, s[k])
  PROVE  Found(s, k)'
<1>1. PICK C : C = {i \in 1 .. k - 1 : s[i] \in Capable}
  OBVIOUS
<1>2. PICK D : D = {i \in 1 .. k : s[i] \in Capable}
  OBVIOUS
<1>3. /\ Range(capnodes) = {s[i] : i \in C}
      /\ \A a, b \in DOMAIN capnodes : a < b =>
           \E i, j \in C : i < j /\ s[i] = capnodes[a] /\ s[j] = capnodes[b]
  BY <1>1 DEF Found
<1>4. D = C \cup {k} /\ \A i \in C : i \in Nat /\ i < k
  BY <1>1, <1>2
<1>5. s[k] \in Nodes
  BY CsdAssumption
<1>6. PICK l \in Nat : l = Len(capnodes)
  OBVIOUS
<1>7. /\ capnodes' \in Seq(Nodes) /\ DOMAIN capnodes' = 1 .. l + 1 /\ DOMAIN capnodes = 1 .. l
      /\ capnodes'[l + 1] = s[k] /\ \A a \in 1 .. l : capnodes'[a] = capnodes[a]
  BY <1>5, <1>6
<1>8. capnodes' # NoKey
  BY <1>7, CsdAssumption
<1>9. \A a \in 1 .. l : capnodes[a] \in {s[i] : i \in C}
  BY <1>3, <1>7 DEF Range
<1>10. Range(capnodes') = {s[i] : i \in D}
  <2>1. ASSUME NEW x \in Range(capnodes') PROVE x \in {s[i] : i \in D}
    <3>1. PICK a \in 1 .. l + 1 : x = capnodes'[a]
      BY <1>7 DEF Range
    <3>2. CASE a = l + 1
      BY <1>4, <1>7, <3>1, <3>2
    <3>3. CASE a # l + 1
      BY <1>4, <1>7, <1>9, <3>1, <3>3
    <3>4. QED
      BY <3>2, <3>3
  <2>2. ASSUME NEW i \in D PROVE s[i] \in Range(capnodes')
    <3>1. CASE i = k
      BY <1>7, <3>1 DEF Range
    <3>2. CASE i \in C
      <4>1. PICK a \in 1 .. l : s[i] = capnodes[a]
        BY <1>3, <1>7, <3>2 DEF Range
      <4>2. QED
        BY <1>7, <4>1 DEF Range
    <3>3. QED
      BY <1>4, <3>1, <3>2
  <2>3. QED
    BY <2>1, <2>2
<1>11. ASSUME NEW a \in DOMAIN capnodes', NEW b \in DOMAIN capnodes', a < b
       PROVE  \E i, j \in D : i < j /\ s[i] = capnodes'[a] /\ s[j] = capnodes'[b]
  <2>1. a \in 1 .. l
    BY <1>7, <1>11
  <2>2. CASE b = l + 1
    <3>1. PICK i \in C : s[i] = capnodes[a]
      BY <1>9, <2>1
    <3>2. i < k /\ i \in D /\ k \in D /\ s[i] = capnodes'[a] /\ s[k] = capnodes'[b]
      BY <1>4, <1>7, <2>1, <2>2, <3>1
    <3>3. QED
      BY <3>2
  <2>3. CASE b # l + 1
    <3>1. b \in 1 .. l
      BY <1>7, <2>3
    <3>2. PICK i, j \in C : i < j /\ s[i] = capnodes[a] /\ s[j] = capnodes[b]
      BY <1>3, <1>7, <1>11, <2>1, <3>1
    <3>3. QED
      BY <1>4, <1>7, <2>1, <3>1, <3>2
  <2>4. QED
    BY <2>2, <2>3
<1>12. D # {}
  BY <1>4
<1>13. \A a, b \in DOMAIN capnodes' : a < b =>
         \E i, j \in D : i < j /\ s[i] = capnodes'[a] /\ s[j] = capnodes'[b]
  BY <1>11, Zenon
<1>14. /\ D # {} /\ capnodes' # NoKey /\ Range(capnodes') = {s[i] : i \in D}
       /\ \A a, b \in DOMAIN capnodes' : a < b =>
            \E i, j \in D : i < j /\ s[i] = capnodes'[a] /\ s[j] = capnodes'[b]
  BY <1>8, <1>10, <1>12, <1>13, Zenon
<1>15. QED
  BY <1>2, <1>14, SMTT(60) DEF Found

-------------------------------------------------------------------------------
(* The types after a step of update_db *)

LEMMA CapStoreIs ==
  ASSUME CsdInv, CapStore
  PROVE  /\ tok["update"] \in Nodes \cap Candidates /\ pc["update"] \in Stores
         /\ pc'["update"] = "more"
         /\ \/ capnodes' = <<tok["update"]>> /\ (~spoilt => capnodes = NoKey)
            \/ /\ capnodes # NoKey /\ capnodes \in Seq(Nodes)
               /\ capnodes' = Append(capnodes, tok["update"])
            \/ spoilt /\ capnodes = NoKey /\ capnodes' = NoKey
<1>1. DOMAIN pc = Threads /\ "update" \in Threads
  BY DEF CsdInv, TypeInv, Threads
<1>2. /\ pc["update"] \in {"setcap", "append"} /\ pc'["update"] = "more"
      /\ \/ pc["update"] = "setcap" /\ capnodes' = <<tok["update"]>>
         \/ /\ pc["update"] = "append"
            /\ capnodes' = IF capnodes = NoKey THEN NoKey ELSE Append(capnodes, tok["update"])
  BY <1>1, GotoIs DEF CapStore
<1>3. /\ capnodes = NoKey \/ capnodes \in Seq(Nodes)
      /\ pc["update"] = "setcap" /\ ~spoilt => capnodes = NoKey
      /\ pc["update"] = "append" /\ ~spoilt => capnodes # NoKey
      /\ tok["update"] \in Nodes \cap Candidates /\ pc["update"] \in Stores
  BY <1>2 DEF CsdInv, TypeInv, StoreInv, Stores
<1>4. CASE pc["update"] = "setcap" /\ capnodes' = <<tok["update"]>>
  BY <1>2, <1>3, <1>4
<1>5. CASE /\ pc["update"] = "append"
           /\ capnodes' = IF capnodes = NoKey THEN NoKey ELSE Append(capnodes, tok["update"])
  BY <1>2, <1>3, <1>5
<1>6. QED
  BY <1>2, <1>4, <1>5

\* What update_db may be told wrongly.
LEMMA UpdateClaims ==
  ASSUME CsdInv, Update
  PROVE  /\ claimed \subseteq claimed' /\ claimed' \subseteq claimed \cup Nodes
         /\ CapAnswered \/ claimed' = claimed
<1>1. CASE CapAnswered
  <2>1. tok["update"] \in Nodes
    BY <1>1 DEF CapAnswered, Goto, CsdInv, StoreInv
  <2>2. claimed' = claimed \/ claimed' = claimed \cup {tok["update"]}
    BY <1>1 DEF CapAnswered
  <2>3. QED
    BY <1>1, <2>1, <2>2
<1>2. CASE ~CapAnswered
  <2>1. claimed' = claimed
    BY <1>2 DEF Update, history, SetDynamicValues, ListNodes, GetDefReq, NextNode, NodesDone,
           DbAnswered, DbRefused, DbTimeout, NextRequest, GetLibs, ListAlive, ClearCapNodes,
           FreeStray, FirstAlive, CapSend, CapUnsent, CapTimeout, CapKeyExist, CapStore,
           NextAlive, FreeAlive, UpdateSlept
  <2>2. QED
    BY <2>1
<1>3. QED
  BY <1>1, <1>2

LEMMA UpdateTypes ==
  ASSUME CsdInv, Update
  PROVE  TypeInv'
<1>1. Frame("update") /\ arb' = arb /\ packet' = packet
  BY UpdateFrame
<1>2. alive' \in Seq(Nodes)
  <2>1. alive \in Seq(Nodes)
    BY DEF CsdInv, TypeInv
  <2>2. alive' = alive \/ \E n : alive' = WithoutNode(n)
    BY DEF Update, db, SetDynamicValues, ListNodes, GetDefReq, NextNode, NodesDone, DbAnswered,
           DbRefused, DbTimeout, NextRequest, GetLibs, ListAlive, ClearCapNodes, FreeStray,
           FirstAlive, CapSend, CapUnsent, CapAnswered, CapTimeout, CapKeyExist, CapStore,
           NextAlive, FreeAlive, UpdateSlept
  <2>3. QED
    BY <2>1, <2>2, WithoutNodeIs
<1>3. capnodes' = NoKey \/ (capnodes' \in Seq(Nodes) /\ capnodes' # <<>>)
  <2>1. CASE CapStore
    <3>1. PICK n \in Nodes : \/ capnodes' = <<n>> \/ capnodes' = NoKey
                             \/ capnodes \in Seq(Nodes) /\ capnodes' = Append(capnodes, n)
      <4>1. tok["update"] \in Nodes
        BY <2>1, CapStoreIs
      <4>2. \/ capnodes' = <<tok["update"]>> \/ capnodes' = NoKey
            \/ capnodes \in Seq(Nodes) /\ capnodes' = Append(capnodes, tok["update"])
        BY <2>1, CapStoreIs, Zenon
      <4>3. QED
        BY <4>1, <4>2, Zenon
    <3>2. <<n>> \in Seq(Nodes) /\ <<n>> # <<>>
      OBVIOUS
    <3>3. capnodes \in Seq(Nodes) =>
            Append(capnodes, n) \in Seq(Nodes) /\ Append(capnodes, n) # <<>>
      BY AppendProperties
    <3>4. QED
      BY <3>1, <3>2, <3>3
  <2>2. CASE ~CapStore
    <3>1. capnodes' = capnodes \/ capnodes' = NoKey
      BY <2>2 DEF Update, db, SetDynamicValues, ListNodes, GetDefReq, NextNode, NodesDone,
           DbAnswered, DbRefused, DbTimeout, NextRequest, GetLibs, ListAlive, ClearCapNodes,
           FreeStray, FirstAlive, CapSend, CapUnsent, CapAnswered, CapTimeout, CapKeyExist,
           NextAlive, FreeAlive, UpdateSlept
    <3>2. QED
      BY <3>1 DEF CsdInv, TypeInv
  <2>3. QED
    BY <2>1, <2>2
<1>4. spoilt' \in BOOLEAN
  <2>a. CASE CapAnswered
    <3>1. PICK yes \in BOOLEAN :
            spoilt' = (spoilt \/ (tok["update"] # Self /\ yes # (tok["update"] \in Capable)))
      BY <2>a DEF CapAnswered
    <3>2. QED
      BY <3>1
  <2>1. CapAnswered \/ spoilt' = spoilt \/ spoilt' = TRUE \/ spoilt' = FALSE
    BY Zenon DEF Update, history, SetDynamicValues, ListNodes, GetDefReq, NextNode, NodesDone, DbAnswered,
           DbRefused, DbTimeout, NextRequest, GetLibs, ListAlive, ClearCapNodes, FreeStray,
           FirstAlive, CapSend, CapUnsent, CapTimeout, CapKeyExist, CapStore, NextAlive,
           FreeAlive, UpdateSlept
  <2>2. QED
    BY <2>a, <2>1, Zenon DEF CsdInv, TypeInv
<1>5. claimed' \subseteq Nodes
  BY UpdateClaims DEF CsdInv, TypeInv
<1>6. QED
  BY <1>1, <1>2, <1>3, <1>4, <1>5 DEF CsdInv, TypeInv, Frame, StrtokType

-------------------------------------------------------------------------------
(* The steps of update_db and what it stores *)

\* The steps outside of csc_update_cap_nodes_for_app's loop.
Outside ==
  \/ SetDynamicValues \/ ListNodes \/ GetDefReq \/ NextNode \/ NodesDone \/ DbAnswered
  \/ DbRefused \/ DbTimeout \/ NextRequest \/ GetLibs \/ FreeStray \/ FreeAlive \/ UpdateSlept

LEMMA OutsideStep ==
  ASSUME CsdInv, Outside
  PROVE  /\ pc["update"] # "answer" /\ own' = own /\ capnodes' = capnodes
         /\ pc'["update"] \in {"set", "list", "libs", "conf", "node", "ask", "next", "listing",
                                "sleep", "end"}
<1>1. DOMAIN pc = Threads /\ "update" \in Threads
  BY DEF CsdInv, TypeInv, Threads
<1>2. own' = own /\ capnodes' = capnodes
  BY DEF Outside, db, SetDynamicValues, ListNodes, GetDefReq, NextNode, NodesDone, DbAnswered,
         DbRefused, DbTimeout, NextRequest, GetLibs, FreeStray, FreeAlive, UpdateSlept
<1>3. pc["update"] # "answer"
  BY DEF Outside, Goto, LookupConf, SetDynamicValues, ListNodes, GetDefReq, NextNode, NodesDone,
         DbAnswered, DbRefused, DbTimeout, NextRequest, GetLibs, FreeStray, FreeAlive, UpdateSlept
<1>4. pc'["update"] \in {"set", "list", "libs", "conf", "node", "ask", "next", "listing",
                          "sleep", "end"}
  BY <1>1, GotoIs DEF Outside, LookupConf, SetDynamicValues, ListNodes, GetDefReq, NextNode,
         NodesDone, DbAnswered, DbRefused, DbTimeout, NextRequest, GetLibs, FreeStray, FreeAlive,
         UpdateSlept
<1>5. QED
  BY <1>2, <1>3, <1>4

\* The steps inside it.
LEMMA LoopSteps ==
  ASSUME CsdInv
  PROVE  /\ ListAlive => pc["update"] = "listing" /\ pc'["update"] = "clear"
         /\ ClearCapNodes => /\ pc["update"] = "clear"
                             /\ pc'["update"] = IF buf["update"] = <<>> THEN "stray" ELSE "tok"
         /\ FirstAlive => pc["update"] = "tok" /\ pc'["update"] = "send"
         /\ CapSend => pc["update"] = "send" /\ pc'["update"] = "answer"
         /\ CapUnsent => pc["update"] = "send" /\ pc'["update"] = "free"
         /\ CapAnswered => pc["update"] = "answer" /\ pc'["update"] \in {"exist", "more"}
         /\ CapTimeout => pc["update"] = "answer" /\ pc'["update"] = "free"
         /\ CapKeyExist => /\ pc["update"] = "exist"
                           /\ pc'["update"] = IF capnodes = NoKey THEN "setcap" ELSE "append"
         /\ NextAlive => /\ pc["update"] = "more"
                         /\ pc'["update"] = IF tok'["update"] = NoToken THEN "free" ELSE "send"
<1>1. DOMAIN pc = Threads /\ "update" \in Threads
  BY DEF CsdInv, TypeInv, Threads
<1>2. QED
  BY <1>1, GotoIs DEF ListAlive, ClearCapNodes, FirstAlive, CapSend, CapUnsent, CapAnswered,
                      CapTimeout, CapKeyExist, NextAlive

\* A node that says it is capable is, or the answer is a claim; in a round that
\* is not spoilt every answer is the truth.
LEMMA CapAnsweredIs ==
  ASSUME CsdInv, CapAnswered
  PROVE  /\ tok["update"] \in Nodes
         /\ pc'["update"] = "exist" => tok["update"] \in Candidates'
         /\ ~spoilt' => ~spoilt /\ (pc'["update"] = "exist" <=> tok["update"] \in Capable)
<1>1. DOMAIN pc = Threads /\ "update" \in Threads
  BY DEF CsdInv, TypeInv, Threads
<1>2. PICK yes \in BOOLEAN :
        /\ Goto("update", "answer", IF yes THEN "exist" ELSE "more")
        /\ tok["update"] = Self => own = (IF yes THEN "yes" ELSE "no")
        /\ spoilt' = (spoilt \/ (tok["update"] # Self /\ yes # (tok["update"] \in Capable)))
        /\ claimed' = IF yes /\ tok["update"] \notin Capable
                      THEN claimed \cup {tok["update"]} ELSE claimed
  BY DEF CapAnswered
<1>3. pc["update"] = "answer" /\ (pc'["update"] = "exist" <=> yes)
  BY <1>1, <1>2, GotoIs
<1>4. tok["update"] \in Nodes
  BY <1>3 DEF CsdInv, StoreInv
<1>5. pc'["update"] = "exist" => tok["update"] \in Candidates'
  BY <1>2, <1>3 DEF Candidates
<1>6. ASSUME ~spoilt' PROVE ~spoilt /\ (pc'["update"] = "exist" <=> tok["update"] \in Capable)
  <2>1. ~spoilt /\ (tok["update"] # Self => (yes <=> tok["update"] \in Capable))
    BY <1>2, <1>6
  <2>2. tok["update"] = Self => own \in {"yes", "no"} /\ (own = "yes" <=> yes)
    BY <1>2
  <2>3. QED
    BY <1>3, <2>1, <2>2 DEF CsdInv, OwnInv
<1>7. QED
  BY <1>4, <1>5, <1>6

LEMMA UpdateStores ==
  ASSUME CsdInv, Update
  PROVE  StoreInv'
<1>0. /\ claimed \subseteq claimed' /\ Candidates \subseteq Candidates'
      /\ CapAnswered \/ Candidates' = Candidates
  BY UpdateClaims, CandidatesKept DEF Candidates
<1>1. CASE Outside
  BY <1>0, <1>1, OutsideStep DEF CsdInv, StoreInv, Stores
<1>2. CASE ListAlive \/ FirstAlive \/ CapUnsent \/ CapTimeout \/ NextAlive
  <2>1. capnodes' = capnodes
    BY <1>2 DEF ListAlive, FirstAlive, CapUnsent, CapTimeout, NextAlive, db
  <2>2. pc'["update"] \in {"clear", "send", "free"}
    BY <1>2, LoopSteps
  <2>3. QED
    BY <1>0, <2>1, <2>2 DEF CsdInv, StoreInv, Stores
<1>3. CASE ClearCapNodes
  BY <1>3, LoopSteps DEF ClearCapNodes, StoreInv, Stores
<1>4. CASE CapSend
  <2>1. capnodes' = capnodes /\ tok'["update"] \in Nodes
    BY <1>4, UpdateQuiet DEF CapSend, db
  <2>2. QED
    BY <1>0, <1>4, <2>1, LoopSteps DEF CsdInv, StoreInv, Stores
<1>5. CASE CapAnswered
  <2>1. capnodes' = capnodes /\ tok' = tok
    BY <1>5, UpdateQuiet DEF CapAnswered, db
  <2>2. QED
    BY <1>0, <1>5, <2>1, LoopSteps, CapAnsweredIs DEF CsdInv, StoreInv, Stores
<1>6. CASE CapKeyExist
  <2>1. capnodes' = capnodes /\ tok' = tok
    BY <1>6, UpdateQuiet DEF CapKeyExist, db
  <2>2. QED
    BY <1>0, <1>6, <2>1, LoopSteps DEF CsdInv, StoreInv, Stores
<1>7. CASE CapStore
  <2>0. pc'["update"] = "more"
    BY <1>7, CapStoreIs
  <2>1. PICK n \in Nodes \cap Candidates :
           \/ capnodes' = <<n>> \/ capnodes' = NoKey
           \/ /\ capnodes # NoKey /\ capnodes \in Seq(Nodes)
              /\ capnodes' = Append(capnodes, n)
    <3>1. tok["update"] \in Nodes \cap Candidates
      BY <1>7, CapStoreIs
    <3>2. \/ capnodes' = <<tok["update"]>> \/ capnodes' = NoKey
          \/ /\ capnodes # NoKey /\ capnodes \in Seq(Nodes)
             /\ capnodes' = Append(capnodes, tok["update"])
      BY <1>7, CapStoreIs, Zenon
    <3>3. QED
      BY <3>1, <3>2, Zenon
  <2>2. CASE capnodes' = <<n>>
    <3>1. DOMAIN capnodes' = {1} /\ capnodes'[1] = n
      BY <2>2
    <3>2. Range(capnodes') \subseteq Candidates'
      BY <1>0, <2>1, <3>1 DEF Range
    <3>3. QED
      BY <2>0, <3>2 DEF StoreInv, Stores
  <2>3. CASE capnodes # NoKey /\ capnodes \in Seq(Nodes) /\ capnodes' = Append(capnodes, n)
    <3>1. PICK l \in Nat : l = Len(capnodes) /\ DOMAIN capnodes = 1 .. l
      BY <2>3
    <3>2. /\ DOMAIN capnodes' = 1 .. l + 1 /\ capnodes'[l + 1] = n
          /\ \A i \in 1 .. l : capnodes'[i] = capnodes[i]
      BY <2>3, <3>1
    <3>3. \A i \in 1 .. l : capnodes[i] \in Candidates
      BY <2>3, <3>1 DEF CsdInv, StoreInv, Range
    <3>4. Range(capnodes') \subseteq Candidates'
      BY <1>0, <2>1, <3>2, <3>3 DEF Range
    <3>5. QED
      BY <2>0, <3>4 DEF StoreInv, Stores
  <2>4. CASE capnodes' = NoKey
    BY <2>0, <2>4 DEF StoreInv, Stores
  <2>5. QED
    BY <2>1, <2>2, <2>3, <2>4
<1>8. QED
  BY <1>1, <1>2, <1>3, <1>4, <1>5, <1>6, <1>7 DEF Update, Outside

LEMMA UpdateOwn ==
  ASSUME CsdInv, Update
  PROVE  OwnInv'
<1>1. CASE Outside
  BY <1>1, OutsideStep DEF CsdInv, OwnInv
<1>2. CASE CapAnswered \/ CapTimeout
  BY <1>2 DEF CapAnswered, CapTimeout, OwnInv
<1>3. CASE CapSend
  <2>1. tok' = tok
    BY <1>3, UpdateQuiet
  <2>2. own' = IF tok["update"] = Self THEN "asked" ELSE "none"
    BY <1>3 DEF CapSend
  <2>3. QED
    BY <1>3, <2>1, <2>2, LoopSteps DEF OwnInv
<1>4. CASE ListAlive \/ ClearCapNodes \/ FirstAlive \/ CapUnsent \/ CapKeyExist \/ CapStore
             \/ NextAlive
  <2>1. own' = own
    BY <1>4 DEF ListAlive, ClearCapNodes, FirstAlive, CapUnsent, CapKeyExist, CapStore, NextAlive
  <2>2. pc["update"] # "answer"
    BY <1>4, LoopSteps, CapStoreIs DEF Stores
  <2>3. QED
    BY <2>1, <2>2 DEF CsdInv, OwnInv
<1>5. QED
  BY <1>1, <1>2, <1>3, <1>4 DEF Update, Outside

\* update_db stands before, or behind, the k-th node of its list s.
Standing(s, k) ==
  /\ k \in 1 .. Len(s) /\ Reached("update", s, k)
  /\ Found(s, IF pc["update"] = "more" THEN k ELSE k - 1)
  /\ pc["update"] \in Stores => s[k] \in Capable

LEMMA WhereItStands ==
  ASSUME CsdInv, pc["update"] \in Asks, ~spoilt, ~mixed["update"]
  PROVE  \E k \in Nat \ {0} : Standing(buf["update"], k)
<1>1. PICK k \in 1 .. Len(buf["update"]) : Standing(buf["update"], k)
  BY DEF CsdInv, AskInv, Standing
<1>2. QED
  BY <1>1

\* A step in the loop that leaves the list alone.
LEMMA AskAgain ==
  ASSUME CsdInv, pc["update"] \in Asks, pc'["update"] \in Asks, buf' = buf,
         ~spoilt' /\ ~mixed'["update"] => \E k \in Nat : Standing(buf["update"], k)'
  PROVE  AskInv'
<1>1. buf'["update"] \in Seq(Nodes)
  BY DEF CsdInv, AskInv
<1>2. pc'["update"] # "tok" /\ pc'["update"] # "free"
  BY DEF Asks, Stores
<1>3. ~spoilt' /\ ~mixed'["update"] => \E k \in Nat : Standing(buf["update"], k)'
  OBVIOUS
<1>4. QED
  BY <1>1, <1>2, <1>3 DEF AskInv, Standing, CapNodesFound

LEMMA UpdateAsks ==
  ASSUME CsdInv, Update
  PROVE  AskInv'
<1>1. CASE Outside
  BY <1>1, OutsideStep DEF AskInv, Asks, Stores, CapNodesFound
<1>2. CASE ListAlive
  <2>1. buf'["update"] = alive /\ alive \in Seq(Nodes)
    BY <1>2 DEF ListAlive, CsdInv, TypeInv, Parsers
  <2>2. QED
    BY <1>2, <2>1, LoopSteps DEF AskInv, Asks, Stores, CapNodesFound
<1>3. CASE ClearCapNodes
  <2>1. capnodes' = NoKey /\ buf' = buf
    BY <1>3 DEF ClearCapNodes
  <2>2. /\ pc["update"] = "clear"
        /\ pc'["update"] = IF buf["update"] = <<>> THEN "stray" ELSE "tok"
    BY <1>3, LoopSteps
  <2>3. buf["update"] \in Seq(Nodes)
    BY <2>2 DEF CsdInv, AskInv
  <2>4. QED
    BY <2>1, <2>2, <2>3 DEF AskInv, Asks, Stores, CapNodesFound
<1>4. CASE CapUnsent \/ CapTimeout
  <2>1. spoilt' /\ pc'["update"] = "free" /\ pc["update"] \in Asks /\ buf' = buf
    BY <1>4, LoopSteps, UpdateQuiet DEF CapUnsent, CapTimeout, Asks
  <2>2. buf["update"] \in Seq(Nodes)
    BY <2>1 DEF CsdInv, AskInv
  <2>3. QED
    BY <2>1, <2>2 DEF AskInv, Asks, Stores, CapNodesFound
<1>5. CASE FirstAlive
  <2>1. pc["update"] = "tok" /\ pc'["update"] = "send" /\ buf' = buf /\ capnodes' = capnodes
    BY <1>5, LoopSteps DEF FirstAlive, db
  <2>2. PICK s \in Seq(Nodes) : s = buf["update"]
    BY <2>1 DEF CsdInv, AskInv
  <2>3. s # <<>> /\ (~spoilt' => capnodes = NoKey)
    BY <1>5, <2>1, <2>2 DEF CsdInv, AskInv, FirstAlive, history
  <2>4. s \in Seq(STRING) /\ "update" \in Parsers /\ StrtokType
    BY Constants, SeqMonotone, TypeParts DEF CsdInv, Parsers
  <2>5. tok'["update"] = s[1] /\ ~save'.freed /\ save'.rest = Tail(s)
    BY <1>5, <2>2, <2>3, <2>4, StrtokFirstIs DEF FirstAlive
  <2>6. Reached("update", s, 1)'
    BY <2>3, <2>4, <2>5, TailIs DEF Reached
  <2>7. ~spoilt' => Found(s, 0)'
    BY <2>1, <2>3 DEF Found
  <2>8. 1 \in 1 .. Len(s)
    BY <2>3
  <2>9. QED
    BY <2>1, <2>2, <2>3, <2>6, <2>7, <2>8 DEF AskInv, Asks, Stores, CapNodesFound
<1>6. CASE CapSend \/ CapKeyExist
  <2>1. /\ save' = save /\ mixed' = mixed /\ tok' = tok /\ buf' = buf
        /\ capnodes' = capnodes /\ spoilt' = spoilt
    BY <1>6, UpdateQuiet DEF CapSend, CapKeyExist, db, history
  <2>2. /\ pc["update"] \in Asks \ {"more"} /\ pc'["update"] \in Asks \ {"more"}
        /\ pc'["update"] \in Stores => pc["update"] \in Stores
    BY <1>6, LoopSteps DEF Asks, Stores
  <2>3. ASSUME ~spoilt', ~mixed'["update"]
        PROVE  \E k \in Nat : Standing(buf["update"], k)'
    <3>1. PICK k \in Nat \ {0} : Standing(buf["update"], k)
      BY <2>1, <2>2, <2>3, WhereItStands
    <3>2. Found(buf["update"], k - 1)
      BY <2>2, <3>1 DEF Standing
    <3>3. Found(buf["update"], k - 1)'
      BY <2>1, <3>2 DEF Found
    <3>4. Reached("update", buf["update"], k)'
      BY <2>1, <3>1 DEF Standing, Reached
    <3>5. QED
      BY <2>1, <2>2, <3>1, <3>3, <3>4 DEF Standing
  <2>4. QED
    BY <2>1, <2>2, <2>3, AskAgain
<1>7. CASE CapAnswered
  <2>1. /\ save' = save /\ mixed' = mixed /\ tok' = tok /\ buf' = buf
        /\ capnodes' = capnodes /\ (~spoilt' => ~spoilt)
    BY <1>7, UpdateQuiet, CapAnsweredIs DEF CapAnswered, db
  <2>2. /\ pc["update"] = "answer" /\ pc'["update"] \in {"exist", "more"}
        /\ pc["update"] \in Asks /\ pc'["update"] \in Asks
    BY <1>7, LoopSteps DEF Asks, Stores
  <2>3. ASSUME ~spoilt', ~mixed'["update"]
        PROVE  \E k \in Nat : Standing(buf["update"], k)'
    <3>1. PICK k \in Nat \ {0} : Standing(buf["update"], k)
      BY <2>1, <2>2, <2>3, WhereItStands
    <3>2. Found(buf["update"], k - 1) /\ tok["update"] = buf["update"][k]
      BY <2>2, <3>1 DEF Standing, Reached
    <3>3. pc'["update"] = "exist" <=> buf["update"][k] \in Capable
      BY <1>7, <2>1, <2>3, <3>2, CapAnsweredIs
    <3>4. pc'["update"] = "more" => Found(buf["update"], k)
      BY <3>2, <3>3, FoundSkip
    <3>5. Found(buf["update"], IF pc'["update"] = "more" THEN k ELSE k - 1)
      BY <3>2, <3>4
    <3>6. Found(buf["update"], IF pc["update"] = "more" THEN k ELSE k - 1)'
      BY <2>1, <3>5 DEF Found
    <3>7. Reached("update", buf["update"], k)'
      BY <2>1, <3>1 DEF Standing, Reached
    <3>8. pc'["update"] \in Stores => pc'["update"] = "exist"
      BY <2>2 DEF Stores
    <3>9. QED
      BY <2>1, <3>1, <3>3, <3>6, <3>7, <3>8 DEF Standing
  <2>4. QED
    BY <2>1, <2>2, <2>3, AskAgain
<1>8. CASE CapStore
  <2>1. save' = save /\ mixed' = mixed /\ tok' = tok /\ buf' = buf /\ spoilt' = spoilt
    BY <1>8, UpdateQuiet DEF CapStore, history
  <2>2. /\ pc["update"] \in Stores /\ pc'["update"] = "more"
        /\ pc["update"] \in Asks /\ pc'["update"] \in Asks
    BY <1>8, CapStoreIs DEF Asks
  <2>3. ASSUME ~spoilt', ~mixed'["update"]
        PROVE  \E k \in Nat : Standing(buf["update"], k)'
    <3>1. PICK k \in Nat \ {0} : Standing(buf["update"], k)
      BY <2>1, <2>2, <2>3, WhereItStands
    <3>2. PICK s : s = buf["update"]
      OBVIOUS
    <3>3. Found(s, k - 1) /\ tok["update"] = s[k] /\ s[k] \in Capable
      BY <2>2, <3>1, <3>2 DEF Standing, Reached, Stores
    <3>4. \/ capnodes = NoKey /\ capnodes' = <<s[k]>>
          \/ capnodes # NoKey /\ capnodes \in Seq(Nodes) /\ capnodes' = Append(capnodes, s[k])
      BY <1>8, <2>1, <2>3, <3>3, CapStoreIs, Zenon
    <3>5. Found(s, k)'
      BY <3>3, <3>4, FoundOne, FoundMore
    <3>6. Reached("update", s, k)'
      BY <2>1, <3>1, <3>2 DEF Standing, Reached
    <3>7. pc'["update"] \notin Stores
      BY <2>2 DEF Stores
    <3>8. QED
      BY <2>1, <2>2, <3>1, <3>2, <3>5, <3>6, <3>7 DEF Standing
  <2>4. QED
    BY <2>1, <2>2, <2>3, AskAgain
<1>9. CASE NextAlive
  <2>1. /\ pc["update"] = "more" /\ pc["update"] \in Asks
        /\ pc'["update"] = IF tok'["update"] = NoToken THEN "free" ELSE "send"
    BY <1>9, LoopSteps DEF Asks
  <2>2. StrtokNext("update") /\ buf' = buf /\ capnodes' = capnodes /\ spoilt' = spoilt
    BY <1>9 DEF NextAlive, db, history
  <2>3. PICK s \in Seq(Nodes) : s = buf["update"]
    BY <2>1 DEF CsdInv, AskInv
  <2>4. "update" \in Parsers /\ StrtokType /\ save.rest \in Seq(STRING)
    BY TypeParts DEF CsdInv, Parsers, StrtokType, Strtok
  <2>5. ASSUME ~spoilt', ~mixed'["update"]
        PROVE  \/ tok'["update"] = NoToken /\ Found(s, Len(s))'
               \/ tok'["update"] # NoToken /\ \E k \in Nat : Standing(s, k)'
    <3>1. /\ ~mixed["update"] /\ save.of = "update" /\ save'.of = "update"
          /\ save'.freed => save.freed
          /\ \/ /\ save.rest # <<>> /\ tok'["update"] = save.rest[1]
                /\ save'.rest = Tail(save.rest)
             \/ (save.rest = <<>> \/ save.freed) /\ tok'["update"] = NoToken
      BY <2>2, <2>4, <2>5, StrtokNextIs
    <3>2. PICK k \in Nat \ {0} : Standing(s, k)
      BY <2>1, <2>2, <2>3, <2>5, <3>1, WhereItStands
    <3>3. /\ k \in 1 .. Len(s) /\ Found(s, k) /\ ~save.freed
          /\ Len(save.rest) = Len(s) - k
          /\ \A i \in 1 .. Len(save.rest) : save.rest[i] = s[k + i]
      BY <2>1, <3>1, <3>2 DEF Standing, Reached
    <3>4. Found(s, k)'
      BY <2>2, <3>3, FoundKept
    <3>5. CASE tok'["update"] = NoToken /\ save.rest = <<>>
      <4>1. k = Len(s)
        BY <3>3, <3>5
      <4>2. QED
        BY <3>4, <3>5, <4>1
    <3>6. CASE /\ save.rest # <<>> /\ tok'["update"] = save.rest[1]
               /\ save'.rest = Tail(save.rest)
      <4>1. /\ Len(save.rest) > 0 /\ Len(save'.rest) = Len(save.rest) - 1
            /\ \A i \in 1 .. Len(save.rest) - 1 : save'.rest[i] = save.rest[i + 1]
        BY <2>4, <3>6, TailIs
      <4>2. k + 1 \in 1 .. Len(s) /\ tok'["update"] = s[k + 1] /\ s[k + 1] \in Nodes
        BY <2>3, <3>3, <3>6, <4>1
      <4>3. \A i \in 1 .. Len(save'.rest) : save'.rest[i] = s[k + 1 + i]
        <5>1. /\ save.rest \in Seq(STRING) /\ save.rest # <<>> /\ save'.rest = Tail(save.rest)
              /\ k \in Nat /\ \A i \in 1 .. Len(save.rest) : save.rest[i] = s[k + i]
          BY <2>4, <3>2, <3>3, <3>6
        <5>2. QED
          BY <5>1, WordsBehind
      <4>4. Reached("update", s, k + 1)'
        BY <3>1, <3>3, <4>1, <4>2, <4>3 DEF Reached
      <4>5. tok'["update"] # NoToken /\ pc'["update"] = "send"
        BY <2>1, <4>2, Constants
      <4>6. Found(s, IF pc["update"] = "more" THEN k + 1 ELSE (k + 1) - 1)'
        BY <3>4, <4>5
      <4>7. Standing(s, k + 1)'
        BY <4>2, <4>4, <4>5, <4>6 DEF Standing, Stores
      <4>8. QED
        BY <4>5, <4>7
    <3>7. QED
      BY <3>1, <3>3, <3>5, <3>6
  <2>6. CASE tok'["update"] = NoToken
    <3>1. pc'["update"] = "free"
      BY <2>1, <2>6
    <3>2. CapNodesFound'
      BY <2>2, <2>3, <2>5, <2>6 DEF CapNodesFound
    <3>3. QED
      BY <2>2, <2>3, <3>1, <3>2 DEF AskInv, Asks, Stores
  <2>7. CASE tok'["update"] # NoToken
    <3>1. pc'["update"] \in Asks
      BY <2>1, <2>7 DEF Asks
    <3>2. ~spoilt' /\ ~mixed'["update"] => \E k \in Nat : Standing(buf["update"], k)'
      BY <2>2, <2>3, <2>5, <2>7
    <3>3. QED
      BY <2>1, <2>2, <3>1, <3>2, AskAgain
  <2>8. QED
    BY <2>6, <2>7
<1>10. QED
  BY <1>1, <1>2, <1>3, <1>4, <1>5, <1>6, <1>7, <1>8, <1>9 DEF Update, Outside

-------------------------------------------------------------------------------
(* best_node *)

LEMMA BestFrame ==
  ASSUME CsdInv, BnReceive \/ BestNode
  PROVE  /\ Frame("best_node") /\ packet' = packet /\ own' = own /\ conf' = conf
         /\ alive' = alive /\ capnodes' = capnodes /\ spoilt' = spoilt /\ claimed' = claimed
<1>1. TypeInv /\ "best_node" \in Parsers /\ StrtokType /\ DOMAIN buf = Parsers
  BY TypeParts DEF CsdInv, Parsers
<1>2. /\ packet' = packet /\ own' = own /\ conf' = conf
      /\ alive' = alive /\ capnodes' = capnodes /\ spoilt' = spoilt /\ claimed' = claimed
  BY DEF BestNode, rest, db, history, BnReceive, BnKeyExist, BnGetCapNodes, BnFirst, BnIsAlive, BnBench,
         BnNoBench, BnNext, BnFree, BnReply
<1>3. CASE BnReceive \/ BnKeyExist \/ BnIsAlive \/ BnBench \/ BnNoBench
  <2>1. NoStrtok /\ buf' = buf
    BY <1>3 DEF BnReceive, BnKeyExist, BnIsAlive, BnBench, BnNoBench
  <2>2. \E from, to : Goto("best_node", from, to)
    BY <1>3 DEF BnReceive, BnKeyExist, BnIsAlive, BnBench, BnNoBench
  <2>3. QED
    BY <1>1, <1>2, <2>1, <2>2, QuietFrame
<1>4. CASE BnGetCapNodes
  <2>1. /\ NoStrtok
        /\ \E to : Goto("best_node", "get", to)
        /\ buf' = buf \/ buf' = [buf EXCEPT !["best_node"] = capnodes]
    BY <1>4 DEF BnGetCapNodes
  <2>2. DOMAIN buf' = Parsers /\ \A u \in Parsers \ {"best_node"} : buf'[u] = buf[u]
    BY <1>1, <2>1
  <2>3. StrtokType' /\ \A u \in Parsers \ {"best_node"} : Alone(u)
    BY <1>1, <2>1, NoStrtokIs
  <2>4. QED
    BY <1>1, <1>2, <2>1, <2>2, <2>3, FrameOf
<1>5. CASE BnFirst
  <2>1. /\ StrtokFirst("best_node", buf["best_node"]) /\ buf' = buf
        /\ Goto("best_node", "tok", "alive")
    BY <1>5 DEF BnFirst
  <2>2. buf["best_node"] \in Seq(STRING) /\ buf["best_node"] # <<>>
    <3>1. buf["best_node"] \in Seq(Candidates) /\ buf["best_node"] # <<>>
      BY <2>1 DEF Goto, CsdInv, BestInv
    <3>2. Candidates \subseteq STRING
      BY <1>1, CandidatesAre
    <3>3. QED
      BY <3>1, <3>2, SeqMonotone
  <2>3. StrtokType' /\ \A u \in Parsers \ {"best_node"} : Alone(u)
    BY <1>1, <2>1, <2>2, StrtokFirstIs
  <2>4. QED
    BY <1>1, <1>2, <2>1, <2>3, FrameOf
<1>6. CASE BnNext
  <2>1. StrtokNext("best_node") /\ buf' = buf /\ \E from, to : Goto("best_node", from, to)
    BY <1>6 DEF BnNext
  <2>2. StrtokType' /\ \A u \in Parsers \ {"best_node"} : Alone(u)
    BY <1>1, <2>1, StrtokNextIs
  <2>3. QED
    BY <1>1, <1>2, <2>1, <2>2, FrameOf
<1>7. CASE BnFree
  <2>1. FreeBuf("best_node") /\ mixed' = mixed /\ Goto("best_node", "free", "reply")
    BY <1>7 DEF BnFree
  <2>2. /\ StrtokType' /\ DOMAIN buf' = Parsers
        /\ \A u \in Parsers \ {"best_node"} : Alone(u) /\ buf'[u] = buf[u]
    BY <1>1, <2>1, FreeBufIs
  <2>3. QED
    BY <1>1, <1>2, <2>1, <2>2, FrameOf
<1>8. CASE BnReply
  <2>1. /\ save' = save /\ tok' = tok /\ mixed' = [mixed EXCEPT !["best_node"] = FALSE]
        /\ buf' = buf /\ \E to : Goto("best_node", "reply", to)
    BY <1>8 DEF BnReply
  <2>2. mixed' \in [Parsers -> BOOLEAN] /\ \A u \in Parsers \ {"best_node"} : mixed'[u] = mixed[u]
    BY <1>1, <2>1, Zenon DEF StrtokType
  <2>3. StrtokType' /\ \A u \in Parsers \ {"best_node"} : Alone(u)
    BY <1>1, <2>1, <2>2 DEF StrtokType, Alone
  <2>4. QED
    BY <1>1, <1>2, <2>1, <2>3, FrameOf
<1>9. QED
  BY <1>3, <1>4, <1>5, <1>6, <1>7, <1>8 DEF BestNode

ArbType == DOMAIN arb = {"best", "max", "sum", "i", "found"}

ArbWith(x, y) == [arb EXCEPT !.sum = x, !.i = y]

LEMMA ArbIs ==
  ASSUME ArbType, NEW x, NEW y, NEW d, d = ArbWith(x, y)
  PROVE  /\ d.best = arb.best /\ d.max = arb.max /\ d.found = arb.found /\ d.sum = x /\ d.i = y
         /\ DOMAIN d = {"best", "max", "sum", "i", "found"}
<1>1. PICK c : c = [arb EXCEPT !.sum = x]
  OBVIOUS
<1>2. /\ c.best = arb.best /\ c.max = arb.max /\ c.found = arb.found /\ c.sum = x
      /\ DOMAIN c = DOMAIN arb
  BY <1>1 DEF ArbType
<1>3. d = [c EXCEPT !.i = y]
  BY <1>1 DEF ArbWith
<1>4. QED
  BY <1>2, <1>3 DEF ArbType

LEMMA BetterIs ==
  ASSUME ArbType, NEW n, NEW b, NEW d, d = Better(arb, n, b)
  PROVE  /\ DOMAIN d = {"best", "max", "sum", "i", "found"}
         /\ \/ /\ ~arb.found \/ b > arb.max
               /\ d.best = n /\ d.max = b /\ d.found
            \/ /\ arb.found /\ ~(b > arb.max)
               /\ d.best = arb.best /\ d.max = arb.max /\ d.found = arb.found
<1>1. CASE ~arb.found \/ b > arb.max
  <2>1. d = [best |-> n, max |-> b, sum |-> 0, i |-> 1, found |-> TRUE]
    BY <1>1, Zenon DEF Better
  <2>2. DOMAIN d = {"best", "max", "sum", "i", "found"} /\ d.best = n /\ d.max = b
    BY <2>1
  <2>3. d.found
    BY <2>1
  <2>4. QED
    BY <1>1, <2>2, <2>3, Zenon
<1>2. CASE ~(~arb.found \/ b > arb.max)
  <2>1. d = ArbWith(0, 1)
    BY <1>2, Zenon DEF Better, ArbWith
  <2>2. d.best = arb.best /\ d.max = arb.max /\ d.found = arb.found
    BY <2>1, ArbIs
  <2>3. DOMAIN d = {"best", "max", "sum", "i", "found"}
    BY <2>1, ArbIs
  <2>4. QED
    BY <1>2, <2>2, <2>3, Zenon
<1>3. QED
  BY <1>1, <1>2

LEMMA BnSteps ==
  ASSUME CsdInv
  PROVE  /\ BnReceive => pc["best_node"] = "msgrcv" /\ pc'["best_node"] = "exist"
         /\ BnKeyExist => /\ pc["best_node"] = "exist"
                          /\ pc'["best_node"] = IF capnodes = NoKey THEN "reply" ELSE "get"
         /\ BnGetCapNodes => /\ pc["best_node"] = "get"
                             /\ pc'["best_node"] = IF capnodes = NoKey THEN "reply" ELSE "tok"
         /\ BnFirst => pc["best_node"] = "tok" /\ pc'["best_node"] = "alive"
         /\ BnIsAlive => /\ pc["best_node"] = "alive"
                         /\ pc'["best_node"] = IF tok["best_node"] \in Range(alive)
                                                THEN "bench" ELSE "next"
         /\ BnBench => /\ pc["best_node"] = "bench"
                       /\ pc'["best_node"] = IF arb.i = Len(Avgs) THEN "next" ELSE "bench"
         /\ BnNoBench => pc["best_node"] = "bench" /\ pc'["best_node"] = "next"
         /\ BnNext => /\ pc["best_node"] = "next"
                      /\ pc'["best_node"] = IF tok'["best_node"] = NoToken
                                             THEN "free" ELSE "alive"
         /\ BnFree => pc["best_node"] = "free" /\ pc'["best_node"] = "reply"
         /\ BnReply => pc["best_node"] = "reply" /\ pc'["best_node"] \in {"end", "msgrcv"}
<1>1. DOMAIN pc = Threads /\ "best_node" \in Threads
  BY DEF CsdInv, TypeInv, Threads
<1>2. Len(Avgs) \in Nat
  BY CsdAssumption
<1>3. BnBench => /\ pc["best_node"] = "bench"
                 /\ pc'["best_node"] = IF arb.i = Len(Avgs) THEN "next" ELSE "bench"
  BY <1>1, <1>2, GotoIs DEF BnBench
<1>4. QED
  BY <1>1, <1>3, GotoIs DEF BnReceive, BnKeyExist, BnGetCapNodes, BnFirst, BnIsAlive, BnNoBench,
                            BnNext, BnFree, BnReply

LEMMA NoArbIs ==
  /\ NoArb.best = Self /\ NoArb.max = 0 /\ NoArb.sum = 0 /\ NoArb.i = 1 /\ ~NoArb.found
  /\ DOMAIN NoArb = {"best", "max", "sum", "i", "found"}
<1>1. NoArb.best = Self /\ NoArb.max = 0 /\ NoArb.sum = 0 /\ NoArb.i = 1
  BY DEF NoArb
<1>2. ~NoArb.found
  BY DEF NoArb
<1>3. DOMAIN NoArb = {"best", "max", "sum", "i", "found"}
  BY DEF NoArb
<1>4. QED
  BY <1>1, <1>2, <1>3

\* What best_node does with its comparison.
LEMMA ArbSteps ==
  ASSUME CsdInv, BnReceive \/ BestNode
  PROVE  /\ ArbType'
         /\ BnReceive \/ BnKeyExist \/ BnGetCapNodes \/ BnFirst \/ BnNext \/ BnFree => arb' = arb
         /\ BnIsAlive => arb'.best = arb.best
         /\ BnBench \/ BnNoBench => arb'.best \in {arb.best, tok["best_node"]}
<1>1. ArbType
  BY DEF CsdInv, TypeInv, ArbType
<1>2. BnReceive \/ BnKeyExist \/ BnGetCapNodes \/ BnFirst \/ BnNext \/ BnFree => arb' = arb
  BY DEF BnReceive, BnKeyExist, BnGetCapNodes, BnFirst, BnNext, BnFree
<1>3. CASE BnReceive \/ BnKeyExist \/ BnGetCapNodes \/ BnFirst \/ BnNext \/ BnFree
  BY <1>1, <1>2, <1>3 DEF ArbType
<1>4. ASSUME BnIsAlive PROVE ArbType' /\ arb'.best = arb.best
  <2>1. arb' = ArbWith(0, 1)
    BY <1>4, Zenon DEF BnIsAlive, ArbWith
  <2>2. QED
    BY <1>1, <2>1, ArbIs DEF ArbType
<1>5. ASSUME BnBench \/ BnNoBench
      PROVE  ArbType' /\ arb'.best \in {arb.best, tok["best_node"]}
  <2>1. \/ \E x, y : arb' = ArbWith(x, y)
        \/ \E b : arb' = Better(arb, tok["best_node"], b)
    BY <1>5, Zenon DEF BnBench, BnNoBench, ArbWith
  <2>2. CASE \E x, y : arb' = ArbWith(x, y)
    <3>1. PICK x, y : arb' = ArbWith(x, y)
      BY <2>2, Zenon
    <3>2. arb'.best = arb.best /\ DOMAIN arb' = {"best", "max", "sum", "i", "found"}
      BY <1>1, <3>1, ArbIs
    <3>3. QED
      BY <3>2 DEF ArbType
  <2>3. CASE \E b : arb' = Better(arb, tok["best_node"], b)
    <3>1. PICK b : arb' = Better(arb, tok["best_node"], b)
      BY <2>3
    <3>2. /\ arb'.best \in {arb.best, tok["best_node"]}
          /\ DOMAIN arb' = {"best", "max", "sum", "i", "found"}
      BY <1>1, <3>1, BetterIs
    <3>3. QED
      BY <3>2 DEF ArbType
  <2>4. QED
    BY <2>1, <2>2, <2>3
<1>6. CASE BnReply
  <2>1. arb' = NoArb
    BY <1>6 DEF BnReply
  <2>2. ArbType'
    BY <2>1, NoArbIs DEF ArbType
  <2>3. pc["best_node"] = "reply"
    BY <1>6, BnSteps
  <2>4. ~BnIsAlive /\ ~BnBench /\ ~BnNoBench
    BY <2>3, BnSteps
  <2>5. QED
    BY <1>2, <2>2, <2>4
<1>7. QED
  BY <1>2, <1>3, <1>4, <1>5, <1>6 DEF BestNode

LEMMA BestSteps ==
  ASSUME CsdInv, BnReceive \/ BestNode
  PROVE  BestInv'
<1>0. Candidates' = Candidates
  BY BestFrame DEF Candidates
<1>1. "best_node" \in Parsers /\ StrtokType /\ TypeInv /\ BestInv
  BY TypeParts DEF CsdInv, Parsers
<1>2. CASE BnReceive \/ BnKeyExist
  <2>1. /\ tok' = tok /\ buf' = buf /\ mixed' = mixed /\ arb' = arb /\ NoStrtok
        /\ pc["best_node"] \in {"msgrcv", "exist"}
        /\ pc'["best_node"] \in {"exist", "get", "reply"}
    BY <1>2, BnSteps, ArbSteps, NoStrtokIs DEF BestNode, BnReceive, BnKeyExist, NoStrtok, strtokVars
  <2>2. QED
    BY <1>0, <1>1, <2>1 DEF BestInv, Compares
<1>3. CASE BnGetCapNodes
  <2>1. mixed' = mixed /\ arb' = arb
    BY <1>3, ArbSteps DEF BestNode, BnGetCapNodes, NoStrtok, strtokVars
  <2>2. /\ pc["best_node"] = "get"
        /\ pc'["best_node"] = IF capnodes = NoKey THEN "reply" ELSE "tok"
    BY <1>3, BnSteps
  <2>3. CASE capnodes = NoKey
    <3>1. buf' = buf
      BY <1>3, <2>3 DEF BnGetCapNodes
    <3>2. QED
      BY <1>0, <1>1, <2>1, <2>2, <2>3, <3>1 DEF BestInv, Compares
  <2>4. CASE capnodes # NoKey
    <3>1. buf'["best_node"] = capnodes
      BY <1>1, <1>3, <2>4 DEF BnGetCapNodes, TypeInv
    <3>2. capnodes \in Seq(Nodes) /\ capnodes # <<>> /\ Range(capnodes) \subseteq Candidates
      BY <2>4 DEF CsdInv, TypeInv, StoreInv
    <3>3. capnodes \in [1 .. Len(capnodes) -> Candidates] /\ Len(capnodes) \in Nat
      BY <3>2 DEF Range
    <3>4. capnodes \in Seq(Candidates)
      BY <3>3
    <3>5. QED
      BY <1>0, <1>1, <2>1, <2>2, <2>4, <3>1, <3>2, <3>4 DEF BestInv, Compares
  <2>5. QED
    BY <2>3, <2>4
<1>4. CASE BnFirst
  <2>1. /\ StrtokFirst("best_node", buf["best_node"]) /\ buf' = buf /\ arb' = arb
        /\ pc["best_node"] = "tok" /\ pc'["best_node"] = "alive"
    BY <1>4, BnSteps DEF BnFirst
  <2>2. PICK s \in Seq(Candidates) : s = buf["best_node"] /\ s # <<>>
    BY <1>1, <2>1 DEF BestInv
  <2>3. Candidates \subseteq STRING
    BY <1>1, CandidatesAre
  <2>4. s \in Seq(STRING)
    BY <2>3, SeqMonotone
  <2>5. tok'["best_node"] = s[1] /\ save'.rest = Tail(s)
    BY <1>1, <2>1, <2>2, <2>4, StrtokFirstIs
  <2>6. s[1] \in Candidates /\ Tail(s) \in Seq(Candidates)
    BY <2>2
  <2>7. arb.best = Self /\ Self \in Candidates
    BY <1>1, <2>1, NoArbIs DEF BestInv, Candidates
  <2>8. QED
    BY <1>0, <1>1, <2>1, <2>2, <2>5, <2>6, <2>7 DEF BestInv, Compares
<1>5. CASE BnIsAlive
  <2>1. /\ tok' = tok /\ buf' = buf /\ mixed' = mixed /\ save' = save /\ arb'.best = arb.best
        /\ pc["best_node"] = "alive" /\ pc'["best_node"] \in {"bench", "next"}
    BY <1>5, BnSteps, ArbSteps DEF BestNode, BnIsAlive, NoStrtok, strtokVars
  <2>2. QED
    BY <1>0, <1>1, <2>1 DEF BestInv, Compares
<1>6. CASE BnBench \/ BnNoBench
  <2>1. /\ tok' = tok /\ buf' = buf /\ mixed' = mixed /\ save' = save
        /\ arb'.best \in {arb.best, tok["best_node"]}
        /\ pc["best_node"] = "bench" /\ pc'["best_node"] \in {"bench", "next"}
    BY <1>6, BnSteps, ArbSteps DEF BestNode, BnBench, BnNoBench, NoStrtok, strtokVars
  <2>2. QED
    BY <1>0, <1>1, <2>1 DEF BestInv, Compares
<1>7. CASE BnNext
  <2>1. /\ StrtokNext("best_node") /\ buf' = buf /\ arb' = arb /\ pc["best_node"] = "next"
        /\ pc'["best_node"] = IF tok'["best_node"] = NoToken THEN "free" ELSE "alive"
    BY <1>7, BnSteps DEF BnNext
  <2>2. ASSUME ~mixed'["best_node"]
        PROVE  /\ ~mixed["best_node"]
               /\ tok'["best_node"] # NoToken =>
                    save'.rest \in Seq(Candidates) /\ tok'["best_node"] \in Candidates
    <3>1. /\ ~mixed["best_node"] /\ save.of = "best_node"
          /\ \/ /\ save.rest # <<>> /\ tok'["best_node"] = save.rest[1]
                /\ save'.rest = Tail(save.rest)
             \/ tok'["best_node"] = NoToken
      BY <1>1, <2>1, <2>2, StrtokNextIs
    <3>2. save.rest \in Seq(Candidates)
      BY <1>1, <2>1, <3>1 DEF BestInv, Compares
    <3>3. \A s \in Seq(Candidates) : s # <<>> => s[1] \in Candidates /\ Tail(s) \in Seq(Candidates)
      OBVIOUS
    <3>4. QED
      BY <3>1, <3>2, <3>3
  <2>3. QED
    BY <1>0, <1>1, <2>1, <2>2 DEF BestInv, Compares
<1>8. CASE BnFree
  <2>1. /\ FreeBuf("best_node") /\ mixed' = mixed /\ arb' = arb
        /\ pc'["best_node"] = "reply"
    BY <1>8, BnSteps DEF BnFree
  <2>2. buf'["best_node"] = <<>>
    BY <1>1, <2>1, FreeBufIs DEF TypeInv
  <2>3. QED
    BY <1>0, <1>1, <2>1, <2>2 DEF BestInv, Compares
<1>9. CASE BnReply
  <2>1. arb' = NoArb /\ buf' = buf /\ pc'["best_node"] \in {"end", "msgrcv"}
    BY <1>9, BnSteps DEF BnReply
  <2>2. arb'.best \in Candidates
    BY <2>1, NoArbIs DEF Candidates
  <2>3. QED
    BY <1>0, <1>1, <2>1, <2>2 DEF BestInv, Compares
<1>10. QED
  BY <1>2, <1>3, <1>4, <1>5, <1>6, <1>7, <1>8, <1>9 DEF BestNode

-------------------------------------------------------------------------------
(* receive_packets *)

PacketQuiet ==
  \/ Receive \/ ReceiveOwn \/ Sighup \/ HelloValue \/ Lookup \/ ClientSet \/ ClientDel
  \/ LibExist \/ PacketDone

LEMMA PacketFrame ==
  ASSUME CsdInv, Receive \/ Sighup \/ Packets
  PROVE  /\ Frame("packets") /\ arb' = arb
         /\ PacketQuiet => save' = save /\ mixed' = mixed /\ tok' = tok /\ buf' = buf
<1>1. TypeInv /\ "packets" \in Parsers /\ StrtokType /\ DOMAIN buf = Parsers
  BY TypeParts DEF CsdInv, Parsers
<1>2. arb' = arb
  BY DEF Packets, remain, untouched, Receive, ReceiveOwn, Sighup, HelloValue, Lookup, ClientSet,
         ClientDel, LibFirst, LibExist, LibNext, CapReply, PacketDone
<1>3. ASSUME PacketQuiet
      PROVE  Frame("packets") /\ save' = save /\ mixed' = mixed /\ tok' = tok /\ buf' = buf
  <2>1. NoStrtok /\ buf' = buf
    BY <1>3 DEF PacketQuiet, untouched, Receive, ReceiveOwn, Sighup, HelloValue, Lookup, ClientSet,
           ClientDel, LibExist, PacketDone
  <2>2. \E from, to : Goto("packets", from, to)
    BY <1>3 DEF PacketQuiet, untouched, Receive, ReceiveOwn, Sighup, HelloValue, Lookup, ClientSet,
           ClientDel, LibExist, PacketDone
  <2>3. QED
    BY <1>1, <2>1, <2>2, QuietFrame
<1>4. CASE LibFirst
  <2>1. /\ StrtokFirst("packets", Libs) /\ buf' = [buf EXCEPT !["packets"] = Libs]
        /\ Goto("packets", "libtok", "lib")
    BY <1>4 DEF LibFirst
  <2>2. DOMAIN buf' = Parsers /\ \A u \in Parsers \ {"packets"} : buf'[u] = buf[u]
    BY <1>1, <2>1
  <2>3. StrtokType' /\ \A u \in Parsers \ {"packets"} : Alone(u)
    BY <1>1, <2>1, StrtokFirstIs, Constants
  <2>4. Frame("packets")
    BY <1>1, <2>1, <2>2, <2>3, FrameOf
  <2>5. QED
    BY <1>2, <1>3, <2>4
<1>5. CASE LibNext
  <2>1. StrtokNext("packets") /\ buf' = buf /\ \E from, to : Goto("packets", from, to)
    BY <1>5 DEF LibNext
  <2>2. StrtokType' /\ \A u \in Parsers \ {"packets"} : Alone(u)
    BY <1>1, <2>1, StrtokNextIs
  <2>3. Frame("packets")
    BY <1>1, <2>1, <2>2, FrameOf
  <2>4. QED
    BY <1>2, <1>3, <2>3
<1>6. CASE CapReply
  <2>1. /\ FreeBuf("packets") /\ mixed' = [mixed EXCEPT !["packets"] = FALSE]
        /\ Goto("packets", "libfree", "flag")
    BY <1>6 DEF CapReply
  <2>2. /\ StrtokType' /\ DOMAIN buf' = Parsers
        /\ \A u \in Parsers \ {"packets"} : Alone(u) /\ buf'[u] = buf[u]
    BY <1>1, <2>1, FreeBufIs
  <2>3. Frame("packets")
    BY <1>1, <2>1, <2>2, FrameOf
  <2>4. QED
    BY <1>2, <1>3, <2>3
<1>7. QED
  BY <1>2, <1>3, <1>4, <1>5, <1>6 DEF Packets, PacketQuiet

\* A client may change the list of capable nodes, which spoils the round.
LEMMA PacketStores ==
  ASSUME CsdInv, Receive \/ Sighup \/ Packets
  PROVE  /\ claimed \subseteq claimed' /\ claimed' \subseteq Nodes
         /\ capnodes' = capnodes \/ spoilt'
         /\ capnodes' # NoKey => Range(capnodes') \subseteq Candidates'
         /\ capnodes' = NoKey \/ (capnodes' \in Seq(Nodes) /\ capnodes' # <<>>)
<1>1. CASE capnodes' = capnodes /\ claimed' = claimed
  BY <1>1 DEF CsdInv, TypeInv, StoreInv, Candidates
<1>2. CASE capnodes' = NoKey /\ claimed' = claimed /\ spoilt'
  BY <1>2 DEF CsdInv, TypeInv
<1>3. CASE \E l \in ClientLists : capnodes' = l /\ claimed' = claimed \cup Range(l) /\ spoilt'
  <2>1. PICK l \in ClientLists : capnodes' = l /\ claimed' = claimed \cup Range(l) /\ spoilt'
    BY <1>3
  <2>2. l \in Seq(Nodes) /\ l # <<>>
    BY CsdAssumption
  <2>3. Range(l) \subseteq Nodes
    BY <2>2 DEF Range
  <2>4. QED
    BY <2>1, <2>2, <2>3 DEF CsdInv, TypeInv, Candidates
<1>4. \/ capnodes' = capnodes /\ claimed' = claimed
      \/ capnodes' = NoKey /\ claimed' = claimed /\ spoilt'
      \/ \E l \in ClientLists : capnodes' = l /\ claimed' = claimed \cup Range(l) /\ spoilt'
  <2>1. CASE ClientSet
    BY <2>1 DEF ClientSet, db, history
  <2>2. CASE ClientDel
    BY <2>2 DEF ClientDel, db, history
  <2>3. CASE ~ClientSet /\ ~ClientDel
    BY <2>3 DEF Packets, db, history, Receive, ReceiveOwn, Sighup, HelloValue, Lookup, LibFirst,
           LibExist, LibNext, CapReply, PacketDone
  <2>4. QED
    BY <2>1, <2>2, <2>3
<1>5. QED
  BY <1>1, <1>2, <1>3, <1>4

PacketType == [kind : Kinds, node : Nodes, left : Int, ok : BOOLEAN]

Handlers == {"hello", "libtok", "lookup", "change", "flag"}

LEMMA PacketSteps ==
  ASSUME CsdInv
  PROVE  /\ Receive \/ Sighup => pc["packets"] = "recv"
         /\ Receive \/ Sighup \/ ReceiveOwn => pc'["packets"] \in Handlers
         /\ HelloValue \/ Lookup \/ ClientSet \/ ClientDel \/ PacketDone =>
              pc'["packets"] \in {"hello", "flag", "end", "recv"}
         /\ LibFirst => pc["packets"] = "libtok" /\ pc'["packets"] = "lib"
         /\ LibExist => pc["packets"] = "lib" /\ pc'["packets"] = "libnext"
         /\ LibNext => /\ pc["packets"] = "libnext"
                       /\ pc'["packets"] = IF tok'["packets"] # NoToken /\ packet.ok
                                            THEN "lib" ELSE "libfree"
         /\ CapReply => pc["packets"] = "libfree" /\ pc'["packets"] = "flag"
<1>1. DOMAIN pc = Threads /\ "packets" \in Threads
  BY DEF CsdInv, TypeInv, Threads
<1>2. \A k : HandlerOf(k) \in Handlers
  BY DEF HandlerOf, Handlers
<1>3. /\ Receive \/ Sighup => pc["packets"] = "recv"
      /\ Receive \/ Sighup \/ ReceiveOwn => pc'["packets"] \in Handlers
  BY <1>1, <1>2, GotoIs DEF Receive, Sighup, ReceiveOwn, Handlers
<1>4. QED
  BY <1>1, <1>3, GotoIs DEF HelloValue, Lookup, ClientSet, ClientDel, PacketDone, LibFirst,
                            LibExist, LibNext, CapReply

LEMMA LibExistIs ==
  ASSUME packet \in PacketType, LibExist
  PROVE  packet' \in PacketType /\ (packet'.ok <=> tok["packets"] \in conf)
<1>a. (tok["packets"] \in conf) \in BOOLEAN
  BY SMT
<1>1. PICK b \in BOOLEAN : b = (tok["packets"] \in conf)
  BY <1>a, Zenon
<1>2. b <=> tok["packets"] \in conf
  BY <1>1, Zenon
<1>3. packet' = [packet EXCEPT !.ok = b]
  BY <1>1, Zenon DEF LibExist
<1>4. packet' \in PacketType /\ packet'.ok = b
  BY <1>2, <1>3 DEF PacketType
<1>5. QED
  BY <1>2, <1>4, Zenon

LEMMA PacketTypes ==
  ASSUME CsdInv, Receive \/ Sighup \/ Packets
  PROVE  TypeInv' /\ (spoilt => spoilt')
<1>1. Frame("packets") /\ arb' = arb
  BY PacketFrame
<1>2. packet \in PacketType /\ alive \in Seq(Nodes) /\ spoilt \in BOOLEAN
  BY DEF CsdInv, TypeInv, PacketType
<1>3. packet' \in PacketType
  <2>1. CASE Receive
    <3>1. PICK k \in Kinds, n \in Nodes :
            packet' = [Packet(k, n) EXCEPT !.left = IF k = "hello" THEN 3 ELSE 0]
      BY <2>1 DEF Receive
    <3>2. Packet(k, n) \in PacketType
      BY DEF Packet, PacketType
    <3>3. QED
      BY <3>1, <3>2 DEF PacketType
  <2>2. CASE ReceiveOwn
    <3>1. packet' = Packet("own", Self) /\ Self \in Nodes
      BY <2>2, Constants DEF ReceiveOwn
    <3>2. QED
      BY <3>1 DEF Packet, PacketType, Kinds
  <2>3. CASE Sighup
    <3>1. packet' = [packet EXCEPT !.left = IF packet.kind = "hello" THEN 3 ELSE 0, !.ok = TRUE]
      BY <2>3 DEF Sighup
    <3>2. PICK l \in Int : l = IF packet.kind = "hello" THEN 3 ELSE 0
      OBVIOUS
    <3>3. PICK p : p = [packet EXCEPT !.left = l]
      OBVIOUS
    <3>4. p \in PacketType
      BY <1>2, <3>2, <3>3 DEF PacketType
    <3>5. packet' = [p EXCEPT !.ok = TRUE]
      BY <3>1, <3>2, <3>3
    <3>6. QED
      BY <3>4, <3>5 DEF PacketType
  <2>4. CASE HelloValue
    <3>1. packet' = [packet EXCEPT !.left = packet.left - 1]
      BY <2>4 DEF HelloValue
    <3>2. QED
      BY <1>2, <3>1 DEF PacketType
  <2>5. CASE LibExist
    BY <1>2, <2>5, LibExistIs
  <2>6. CASE \/ Lookup \/ ClientSet \/ ClientDel \/ LibFirst \/ LibNext \/ CapReply
             \/ PacketDone
    <3>1. packet' = packet
      BY <2>6 DEF Lookup, ClientSet, ClientDel, untouched, LibFirst, LibNext, CapReply, PacketDone
    <3>2. QED
      BY <1>2, <3>1
  <2>7. QED
    BY <2>1, <2>2, <2>3, <2>4, <2>5, <2>6 DEF Packets
<1>4. alive' \in Seq(Nodes)
  <2>1. packet.node \in Nodes /\ <<>> \in Seq(Nodes)
    BY <1>2 DEF PacketType
  <2>2. CASE ClientSet \/ ClientDel
    <3>1. \/ alive' = alive \/ alive' = <<>>
          \/ \E n \in Nodes : alive' = WithNode(n) \/ alive' = WithoutNode(n)
      BY <2>2 DEF ClientSet, ClientDel, db
    <3>2. QED
      BY <1>2, <2>1, <3>1, WithNodeIs, WithoutNodeIs
  <2>3. CASE ~(ClientSet \/ ClientDel)
    <3>1. alive' = alive \/ alive' = WithNode(packet.node)
      BY <2>3 DEF Packets, db, Receive, ReceiveOwn, Sighup, HelloValue, Lookup, LibFirst, LibExist,
             LibNext, CapReply, PacketDone
    <3>2. QED
      BY <1>2, <2>1, <3>1, WithNodeIs
  <2>4. QED
    BY <2>2, <2>3
<1>5. spoilt' \in BOOLEAN /\ (spoilt => spoilt')
  <2>1. CASE ClientSet \/ ClientDel
    <3>1. spoilt' = spoilt \/ spoilt' = TRUE
      BY <2>1 DEF ClientSet, ClientDel, history
    <3>2. QED
      BY <1>2, <3>1
  <2>2. CASE ~(ClientSet \/ ClientDel)
    <3>1. CapReply \/ spoilt' = spoilt
      BY <2>2 DEF Packets, history, Receive, ReceiveOwn, Sighup, HelloValue, Lookup, LibFirst,
             LibExist, LibNext, PacketDone
    <3>2. CASE CapReply
      <4>1. \/ spoilt' = spoilt
            \/ spoilt' = (spoilt \/ mixed["packets"] \/ conf # Registered \cup LocalLibs)
        BY <3>2, Zenon DEF CapReply
      <4>2. QED
        BY <1>2, <4>1
    <3>3. QED
      BY <1>2, <3>1, <3>2
  <2>3. QED
    BY <2>1, <2>2
<1>6. QED
  BY <1>1, <1>3, <1>4, <1>5, PacketStores DEF CsdInv, TypeInv, Frame, StrtokType, PacketType

\* csc_cap_to_exec answers the truth if strtok was not disturbed.
LEMMA LibSteps ==
  ASSUME CsdInv, Receive \/ Sighup \/ Packets
  PROVE  LibInv'
<1>1. "packets" \in Parsers /\ StrtokType /\ LibInv /\ packet \in PacketType
  BY TypeParts DEF CsdInv, Parsers, TypeInv, PacketType
<1>2. CASE \/ Receive \/ Sighup \/ ReceiveOwn \/ HelloValue \/ Lookup \/ ClientSet \/ ClientDel
           \/ PacketDone \/ CapReply
  BY <1>2, PacketSteps DEF LibInv, Handlers
<1>3. CASE LibFirst
  <2>1. StrtokFirst("packets", Libs) /\ pc'["packets"] = "lib"
    BY <1>3, PacketSteps DEF LibFirst
  <2>2. tok'["packets"] = Libs[1] /\ ~save'.freed /\ save'.rest = Tail(Libs)
    BY <1>1, <2>1, StrtokFirstIs, Constants
  <2>3. 1 \in 1 .. Len(Libs)
    BY Constants
  <2>4. Reached("packets", Libs, 1)'
    BY <2>2, <2>3, Constants, TailIs DEF Reached
  <2>5. QED
    BY <2>1, <2>3, <2>4 DEF LibInv
<1>4. CASE LibExist
  <2>1. /\ save' = save /\ mixed' = mixed /\ tok' = tok
        /\ pc["packets"] = "lib" /\ pc'["packets"] = "libnext"
    BY <1>4, PacketFrame, PacketSteps DEF PacketQuiet, Packets
  <2>c. conf' = conf
    BY <1>4 DEF LibExist, remain
  <2>2. packet'.ok <=> tok["packets"] \in conf
    BY <1>1, <1>4, LibExistIs
  <2>3. ASSUME ~mixed'["packets"]
        PROVE  \E k \in 1 .. Len(Libs) :
                 /\ Reached("packets", Libs, k)'
                 /\ \A i \in 1 .. k - 1 : Libs[i] \in conf
                 /\ packet'.ok <=> Libs[k] \in conf
    <3>1. PICK k \in 1 .. Len(Libs) :
            /\ Reached("packets", Libs, k)
            /\ \A i \in 1 .. k - 1 : Libs[i] \in conf
      BY <1>1, <2>1, <2>3 DEF LibInv
    <3>2. Reached("packets", Libs, k)' /\ tok["packets"] = Libs[k]
      BY <2>1, <3>1 DEF Reached
    <3>3. QED
      BY <2>2, <3>1, <3>2
  <2>4. QED
    BY <2>1, <2>c, <2>3 DEF LibInv
<1>5. CASE LibNext
  <2>1. /\ StrtokNext("packets") /\ packet' = packet /\ conf' = conf /\ pc["packets"] = "libnext"
        /\ pc'["packets"] = IF tok'["packets"] # NoToken /\ packet.ok THEN "lib" ELSE "libfree"
    BY <1>5, PacketSteps DEF LibNext, remain
  <2>2. CASE mixed'["packets"]
    BY <2>1, <2>2 DEF LibInv
  <2>3. CASE ~mixed'["packets"]
    <3>1. /\ ~mixed["packets"] /\ save.of = "packets" /\ save'.of = "packets"
          /\ save'.freed => save.freed
          /\ \/ /\ save.rest # <<>> /\ tok'["packets"] = save.rest[1]
                /\ save'.rest = Tail(save.rest)
             \/ (save.rest = <<>> \/ save.freed) /\ tok'["packets"] = NoToken
      BY <1>1, <2>1, <2>3, StrtokNextIs
    <3>2. PICK k \in 1 .. Len(Libs) :
            /\ Reached("packets", Libs, k)
            /\ \A i \in 1 .. k - 1 : Libs[i] \in conf
            /\ packet.ok <=> Libs[k] \in conf
      BY <1>1, <2>1, <3>1 DEF LibInv
    <3>3. /\ ~save.freed /\ Len(save.rest) = Len(Libs) - k /\ save.rest \in Seq(STRING)
          /\ \A i \in 1 .. Len(save.rest) : save.rest[i] = Libs[k + i]
      BY <1>1, <3>1, <3>2 DEF Reached, StrtokType, Strtok
    <3>4. Libs \in Seq(STRING) /\ DOMAIN Libs = 1 .. Len(Libs) /\ Len(Libs) \in Nat
      BY Constants
    <3>5. CASE ~packet.ok
      <4>1. ~(Range(Libs) \subseteq conf)
        BY <3>2, <3>4, <3>5 DEF Range
      <4>2. QED
        BY <2>1, <3>5, <4>1 DEF LibInv
    <3>6. CASE packet.ok /\ save.rest # <<>>
      <4>a. tok'["packets"] = save.rest[1] /\ save'.rest = Tail(save.rest)
        BY <3>1, <3>3, <3>6, Zenon
      <4>b. save.rest # <<>> /\ save.rest \in Seq(STRING)
        BY <3>3, <3>6, Zenon
      <4>1. /\ tok'["packets"] = save.rest[1]
            /\ Len(save.rest) > 0 /\ Len(save'.rest) = Len(save.rest) - 1
            /\ \A i \in 1 .. Len(save.rest) - 1 : save'.rest[i] = save.rest[i + 1]
        BY <4>a, <4>b, TailIs
      <4>2. k + 1 \in 1 .. Len(Libs) /\ tok'["packets"] = Libs[k + 1]
        <5>a. PICK l \in Nat, n \in Nat : l = Len(save.rest) /\ n = Len(Libs)
          <6>1. \A s \in Seq(STRING) : Len(s) \in Nat
            OBVIOUS
          <6>2. Len(save.rest) \in Nat /\ Len(Libs) \in Nat
            BY <3>4, <4>b, <6>1, Zenon
          <6>3. QED
            BY <6>2, Zenon
        <5>b. l > 0 /\ l = n - k /\ k \in 1 .. n
          BY <3>3, <4>1, <5>a
        <5>c. k \in Nat /\ 1 <= n - k
          BY <5>b
        <5>1. Len(save.rest) \in Nat /\ k \in Nat /\ 1 <= Len(Libs) - k
          BY <5>a, <5>c
        <5>2. 1 \in 1 .. Len(save.rest)
          BY <4>1, <5>1
        <5>3. save.rest[1] = Libs[k + 1]
          BY <3>3, <5>2
        <5>4. QED
          BY <3>4, <4>1, <5>1, <5>3
      <4>3. \A i \in 1 .. Len(save'.rest) : save'.rest[i] = Libs[k + 1 + i]
        <5>1. k \in Nat
          BY <3>4
        <5>2. \A i \in 1 .. Len(save.rest) : save.rest[i] = Libs[k + i]
          BY <3>3, Zenon
        <5>3. QED
          BY <4>a, <4>b, <5>1, <5>2, WordsBehind
      <4>4. Reached("packets", Libs, k + 1)'
        BY <3>1, <3>3, <4>1, <4>2, <4>3 DEF Reached
      <4>5. tok'["packets"] # NoToken
        BY <3>4, <4>2, Constants DEF Range
      <4>6. \A i \in 1 .. (k + 1) - 1 : Libs[i] \in conf
        BY <3>2, <3>6
      <4>7. pc'["packets"] = "lib"
        BY <2>1, <3>6, <4>5
      <4>8. QED
        BY <2>1, <4>2, <4>4, <4>6, <4>7 DEF LibInv
    <3>7. CASE packet.ok /\ save.rest = <<>>
      <4>1. tok'["packets"] = NoToken /\ k = Len(Libs)
        BY <3>1, <3>3, <3>4, <3>7
      <4>2. Range(Libs) \subseteq conf
        BY <3>2, <3>4, <3>7, <4>1 DEF Range
      <4>3. QED
        BY <2>1, <3>7, <4>1, <4>2 DEF LibInv
    <3>8. QED
      BY <3>5, <3>6, <3>7
  <2>4. QED
    BY <2>2, <2>3
<1>6. QED
  BY <1>2, <1>3, <1>4, <1>5 DEF Packets

LEMMA PacketOwn ==
  ASSUME CsdInv, Receive \/ Sighup \/ Packets
  PROVE  OwnInv'
<1>1. Kept("update") /\ (spoilt => spoilt') /\ OwnInv
  BY PacketFrame, PacketTypes DEF Frame, Parsers, CsdInv
<1>2. tok'["update"] = tok["update"] /\ pc'["update"] = pc["update"]
  <2>1. \E from, to : Goto("packets", from, to)
    BY DEF Packets, Receive, ReceiveOwn, Sighup, HelloValue, Lookup, ClientSet, ClientDel,
           LibFirst, LibExist, LibNext, CapReply, PacketDone
  <2>2. DOMAIN pc = Threads /\ "packets" \in Threads /\ "update" \in Threads
    BY DEF CsdInv, TypeInv, Threads
  <2>3. QED
    BY <1>1, <2>1, <2>2, GotoIs DEF Kept, Alone
<1>3. CASE own' = own
  BY <1>1, <1>2, <1>3 DEF OwnInv
<1>4. CASE ReceiveOwn
  <2>1. own = "asked" /\ own' = "taken"
    BY <1>4 DEF ReceiveOwn
  <2>2. QED
    BY <1>1, <1>2, <2>1 DEF OwnInv
<1>5. CASE CapReply /\ own' # own
  <2>1. /\ own = "taken" /\ own' = IF packet.ok THEN "yes" ELSE "no"
        /\ spoilt' = (spoilt \/ mixed["packets"] \/ conf # Registered \cup LocalLibs)
    BY <1>5, Zenon DEF CapReply
  <2>2. pc["packets"] = "libfree"
    BY <1>5, PacketSteps
  <2>3. ~spoilt' => (packet.ok <=> Self \in Capable)
    <3>1. Registered \cap Range(Libs) = {}
      BY CsdAssumption
    <3>2. ~spoilt' => ~mixed["packets"] /\ conf = Registered \cup LocalLibs
      BY <2>1
    <3>3. ~mixed["packets"] => (packet.ok <=> Range(Libs) \subseteq conf)
      BY <2>2 DEF CsdInv, LibInv
    <3>4. Range(Libs) \subseteq Registered \cup LocalLibs <=> Range(Libs) \subseteq LocalLibs
      BY <3>1
    <3>5. QED
      BY <3>2, <3>3, <3>4, Constants
  <2>4. own' = "yes" <=> packet.ok
    BY <2>1
  <2>5. QED
    BY <1>1, <1>2, <2>1, <2>3, <2>4 DEF OwnInv
<1>6. own' = own \/ ReceiveOwn \/ CapReply
  BY DEF Packets, untouched, Receive, Sighup, HelloValue, Lookup, ClientSet, ClientDel, LibFirst,
         LibExist, LibNext, PacketDone
<1>7. QED
  BY <1>3, <1>4, <1>5, <1>6

-------------------------------------------------------------------------------
(* send_hello, main and the handler of SIGTERM *)

LEMMA QuietKept ==
  ASSUME CsdInv,
         \/ Hello \/ HelloFails \/ Sigterm \/ (\E t \in Signalled : OnSigterm(t))
         \/ JoinThreads \/ UNCHANGED vars
  PROVE  /\ \A u \in Parsers : Kept(u)
         /\ alive' = alive /\ capnodes' = capnodes /\ save' = save /\ tok' = tok /\ mixed' = mixed
         /\ buf' = buf /\ arb' = arb /\ packet' = packet /\ own' = own /\ spoilt' = spoilt
         /\ conf' = conf /\ claimed' = claimed
         /\ DOMAIN pc' = Threads /\ pc'["update"] = pc["update"]
<1>1. UNCHANGED quiet
  BY DEF Hello, HelloFails, Sigterm, OnSigterm, DumpDb, RaiseFlag, JoinThreads, vars, quiet, bounds
<1>2. /\ alive' = alive /\ capnodes' = capnodes /\ save' = save /\ tok' = tok /\ mixed' = mixed
      /\ buf' = buf /\ arb' = arb /\ packet' = packet /\ own' = own /\ spoilt' = spoilt
      /\ conf' = conf /\ claimed' = claimed
  BY <1>1 DEF quiet, db, strtokVars, history
<1>3. /\ DOMAIN pc' = Threads /\ pc'["update"] = pc["update"]
      /\ \A u \in Parsers : pc'[u] = pc[u] \/ pc'[u] \in Handler
  <2>1. DOMAIN pc = Threads /\ Parsers \subseteq Threads
    BY Constants DEF CsdInv, TypeInv
  <2>2. ASSUME NEW t \in Threads \ {"update"}, NEW to,
               pc' = [pc EXCEPT ![t] = to], t \in Parsers => to \in Handler
        PROVE  /\ DOMAIN pc' = Threads /\ pc'["update"] = pc["update"]
               /\ \A u \in Parsers : pc'[u] = pc[u] \/ pc'[u] \in Handler
    BY <2>1, <2>2 DEF Threads
  <2>3. CASE Hello \/ HelloFails
    BY <2>2, <2>3 DEF Hello, HelloFails, Goto, Threads, Parsers
  <2>4. Signalled \subseteq Threads \ {"update"}
    BY CsdAssumption DEF Threads
  <2>5. CASE Sigterm
    BY <2>2, <2>4, <2>5 DEF Sigterm, Handler
  <2>6. CASE \E t \in Signalled : OnSigterm(t)
    <3>1. PICK t \in Signalled : DumpDb(t) \/ RaiseFlag(t)
      BY <2>6 DEF OnSigterm
    <3>2. \E to \in Handler : pc' = [pc EXCEPT ![t] = to]
      BY <3>1 DEF DumpDb, RaiseFlag, Goto, Handler
    <3>3. QED
      BY <2>2, <2>4, <3>1, <3>2
  <2>7. CASE JoinThreads
    BY <2>2, <2>7 DEF JoinThreads, Goto, Threads, Parsers
  <2>8. CASE UNCHANGED vars
    BY <2>1, <2>8 DEF vars
  <2>9. QED
    BY <2>3, <2>5, <2>6, <2>7, <2>8
<1>4. \A u \in Parsers : Kept(u)
  BY <1>2, <1>3 DEF Kept, Alone
<1>5. QED
  BY <1>2, <1>3, <1>4

LEMMA QuietSteps ==
  ASSUME CsdInv,
         \/ Hello \/ HelloFails \/ Sigterm \/ (\E t \in Signalled : OnSigterm(t))
         \/ JoinThreads \/ UNCHANGED vars
  PROVE  CsdInv'
<1>1. /\ \A u \in Parsers : Kept(u)
      /\ alive' = alive /\ capnodes' = capnodes /\ save' = save /\ tok' = tok /\ mixed' = mixed
      /\ buf' = buf /\ arb' = arb /\ packet' = packet /\ own' = own /\ spoilt' = spoilt
      /\ DOMAIN pc' = Threads /\ pc'["update"] = pc["update"]
      /\ conf' = conf /\ claimed' = claimed
  BY QuietKept
<1>2. StoreInv' /\ AskInv'
  BY <1>1, AskKept DEF Parsers, CsdInv, StoreInv, Candidates
<1>3. LibInv' /\ BestInv'
  BY <1>1, LibKept, BestKept DEF Parsers
<1>4. OwnInv' /\ TypeInv'
  BY <1>1 DEF CsdInv, OwnInv, TypeInv
<1>5. QED
  BY <1>2, <1>3, <1>4 DEF CsdInv

-------------------------------------------------------------------------------
(* The theorems *)

LEMMA InitCsdInv ==
  ASSUME Init
  PROVE  CsdInv
<1>1. /\ alive = <<>> /\ capnodes = NoKey /\ save = NoSave /\ own = "none" /\ spoilt = FALSE
      /\ arb = NoArb /\ packet = Packet("none", Self) /\ claimed = {}
  BY DEF Init
<1>2. /\ DOMAIN pc = Threads /\ pc["update"] = "set" /\ pc["packets"] = "recv"
      /\ pc["best_node"] = "msgrcv"
  BY DEF Init, Threads
<1>3. /\ DOMAIN tok = Parsers /\ DOMAIN buf = Parsers /\ buf["best_node"] = <<>>
      /\ mixed \in [Parsers -> BOOLEAN]
  BY DEF Init, Parsers
<1>4. TypeInv
  <2>1. alive \in Seq(Nodes)
    BY <1>1
  <2>2. save \in Strtok
    BY <1>1 DEF NoSave, Strtok
  <2>3. packet \in [kind : Kinds, node : Nodes, left : Int, ok : BOOLEAN]
    BY <1>1, Constants DEF Packet, Kinds
  <2>4. DOMAIN arb = {"best", "max", "sum", "i", "found"}
    BY <1>1, NoArbIs
  <2>5. QED
    BY <1>1, <1>2, <1>3, <2>1, <2>2, <2>3, <2>4 DEF TypeInv
<1>5. StoreInv /\ AskInv
  BY <1>1, <1>2 DEF StoreInv, AskInv, Stores, Asks, CapNodesFound
<1>6. OwnInv /\ LibInv
  BY <1>1, <1>2 DEF OwnInv, LibInv
<1>7. BestInv
  <2>1. arb.best \in Candidates
    BY <1>1, NoArbIs DEF Candidates
  <2>2. QED
    BY <1>1, <1>2, <1>3, <2>1 DEF BestInv, Compares
<1>8. QED
  BY <1>4, <1>5, <1>6, <1>7 DEF CsdInv

LEMMA NextCsdInv ==
  ASSUME CsdInv, [Next]_vars
  PROVE  CsdInv'
<1>1. CASE Update
  <2>1. Frame("update") /\ arb' = arb /\ packet' = packet /\ conf' = conf
    BY <1>1, UpdateFrame
  <2>2. LibInv' /\ BestInv'
    BY <1>1, <2>1, LibKept, BestKept, UpdateClaims DEF Frame, Parsers
  <2>3. QED
    BY <1>1, <2>2, UpdateTypes, UpdateStores, UpdateAsks, UpdateOwn DEF CsdInv
<1>2. CASE BnReceive \/ BestNode
  <2>1. /\ Frame("best_node") /\ packet' = packet /\ own' = own /\ conf' = conf
        /\ alive' = alive /\ capnodes' = capnodes /\ spoilt' = spoilt /\ claimed' = claimed
    BY <1>2, BestFrame
  <2>2. Kept("update") /\ Kept("packets")
    BY <2>1 DEF Frame, Parsers
  <2>3. StoreInv' /\ AskInv' /\ LibInv'
    BY <2>1, <2>2, AskKept, LibKept DEF CsdInv, StoreInv, Candidates
  <2>4. OwnInv'
    <3>1. pc'["update"] = pc["update"] /\ tok'["update"] = tok["update"]
      <4>1. \E from, to : Goto("best_node", from, to)
        BY <1>2 DEF BnReceive, BestNode, BnKeyExist, BnGetCapNodes, BnFirst, BnIsAlive, BnBench,
                    BnNoBench, BnNext, BnFree, BnReply
      <4>2. DOMAIN pc = Threads /\ "best_node" \in Threads /\ "update" \in Threads
        BY DEF CsdInv, TypeInv, Threads
      <4>3. QED
        BY <2>2, <4>1, <4>2, GotoIs DEF Kept, Alone
    <3>2. QED
      BY <2>1, <3>1 DEF CsdInv, OwnInv
  <2>5. TypeInv'
    BY <1>2, <2>1, ArbSteps DEF CsdInv, TypeInv, Frame, StrtokType, ArbType
  <2>6. QED
    BY <1>2, <2>3, <2>4, <2>5, BestSteps DEF CsdInv
<1>3. CASE Receive \/ Sighup \/ Packets
  <2>1. Frame("packets") /\ arb' = arb
    BY <1>3, PacketFrame
  <2>2. TypeInv' /\ (spoilt => spoilt')
    BY <1>3, PacketTypes
  <2>3. StoreInv' /\ AskInv' /\ BestInv'
    BY <1>3, <2>1, <2>2, AskKept, BestKept, PacketStores DEF Frame, Parsers
  <2>4. QED
    BY <1>3, <2>2, <2>3, LibSteps, PacketOwn DEF CsdInv
<1>4. QED
  BY <1>1, <1>2, <1>3, QuietSteps DEF Next

\* What the threads of a csd keep true of the database and of the words they
\* take apart, although they interleave between any two calls and share the
\* position of strtok.
THEOREM CsdInvariance == Spec => []CsdInv
<1>1. Init => CsdInv
  BY InitCsdInv
<1>2. CsdInv /\ [Next]_vars => CsdInv'
  BY NextCsdInv
<1>3. QED
  BY <1>1, <1>2, PTL DEF Spec

\* A round of csc_update_cap_nodes_for_app in which every node answered truly, no
\* client wrote to the key or took libraries away and no thread used strtok in
\* between ends with exactly the capable ones of the listed nodes, whatever else
\* hellos, clients and the other threads did meanwhile.
THEOREM CapNodesFoundHolds == Spec => []CapNodesFound
<1>1. CsdInv => CapNodesFound
  BY DEF CsdInv, AskInv
<1>2. QED
  BY <1>1, CsdInvariance, PTL

\* csda_best_node_for_app answers with a capable node, with this one or with one
\* that a wrong answer or a client called capable, however often the lists of
\* capable nodes and of alive ones change meanwhile.
THEOREM BestIsCapableHolds == Spec => []BestIsCapable
<1>1. CsdInv => BestIsCapable
  BY DEF CsdInv, BestInv, BestIsCapable, Candidates
<1>2. QED
  BY <1>1, CsdInvariance, PTL

-------------------------------------------------------------------------------
(* The comparison of best_node *)

\* The bench of a node over the load values L, average by average.
Plus(L, n, x, i) == x + Part(i, L[n][Avgs[i]])
Upto(L, n) ==
  CHOOSE f : f = [i \in 0 .. Len(Avgs) |-> IF i = 0 THEN 0 ELSE Plus(L, n, f[i - 1], i)]

\* A set of numbers with 0 and the successors of its members has all of them.
LEMMA SetInduction ==
  ASSUME NEW S, 0 \in S, \A m \in Nat : m \in S => m + 1 \in S
  PROVE  Nat \subseteq S
<1> DEFINE LessThan == {ss \in Nat \X Nat : ss[1] < ss[2]}
<1>1. IsWellFoundedOn(LessThan, Nat)
  BY NatLessThanWellFounded, Zenon DEF OpToRel
<1>2. PICK R : R = LessThan
  OBVIOUS
<1>3. SUFFICES ASSUME Nat \ S # {} PROVE FALSE
  OBVIOUS
<1>4. PICK k \in Nat \ S : \A j \in Nat \ S : ~(<<j, k>> \in R)
  <2>1. Nat \ S \subseteq Nat
    OBVIOUS
  <2>2. QED
    BY <1>1, <1>2, <1>3, <2>1, WFMin, Zenon
<1>5. \A j \in Nat \ S : ~(j < k)
  BY <1>2, <1>4
<1>6. k # 0 /\ k - 1 \in Nat /\ k - 1 < k /\ (k - 1) + 1 = k
  BY <1>4
<1>7. QED
  BY <1>4, <1>5, <1>6

LEMMA UptoIs ==
  ASSUME NEW L, NEW n
  PROVE  /\ Upto(L, n)[0] = 0
         /\ \A i \in 1 .. Len(Avgs) : Upto(L, n)[i] = Plus(L, n, Upto(L, n)[i - 1], i)
<1> DEFINE Good(f, m) == f = [i \in 0 .. m |-> IF i = 0 THEN 0 ELSE Plus(L, n, f[i - 1], i)]
           S == {m \in Nat : \E f : Good(f, m)}
<1>1. 0 \in S
  <2>1. PICK f : f = [i \in 0 .. 0 |-> 0]
    OBVIOUS
  <2>2. f = [i \in 0 .. 0 |-> IF i = 0 THEN 0 ELSE Plus(L, n, f[i - 1], i)]
    BY <2>1
  <2>3. QED
    BY <2>2
<1>2. ASSUME NEW m \in Nat, m \in S PROVE m + 1 \in S
  <2>1. PICK f : Good(f, m)
    BY <1>2
  <2>2. PICK g : g = [i \in 0 .. m + 1 |-> IF i = m + 1 THEN Plus(L, n, f[m], m + 1) ELSE f[i]]
    OBVIOUS
  <2>3. \A i \in 0 .. m : g[i] = f[i] /\ f[i] = IF i = 0 THEN 0 ELSE Plus(L, n, f[i - 1], i)
    BY <2>1, <2>2
  <2>4. \A i \in 0 .. m + 1 : g[i] = IF i = 0 THEN 0 ELSE Plus(L, n, g[i - 1], i)
    <3>1. ASSUME NEW i \in 0 .. m PROVE g[i] = IF i = 0 THEN 0 ELSE Plus(L, n, g[i - 1], i)
      <4>1. CASE i = 0
        BY <2>3, <3>1, <4>1
      <4>2. CASE i # 0
        <5>1. i - 1 \in 0 .. m
          BY <3>1, <4>2
        <5>2. QED
          BY <2>3, <3>1, <4>2, <5>1
      <4>3. QED
        BY <4>1, <4>2
    <3>2. g[m + 1] = Plus(L, n, g[m], m + 1) /\ m + 1 # 0 /\ (m + 1) - 1 = m
      BY <2>2, <2>3
    <3>3. \A i \in 0 .. m + 1 : i \in 0 .. m \/ i = m + 1
      OBVIOUS
    <3>4. QED
      BY <3>1, <3>2, <3>3
  <2>5. DOMAIN g = 0 .. m + 1 /\ g = [i \in DOMAIN g |-> g[i]]
    BY <2>2
  <2>6. Good(g, m + 1)
    BY <2>4, <2>5
  <2>7. QED
    BY <2>6
<1>3. Len(Avgs) \in Nat
  BY CsdAssumption
<1>4. Len(Avgs) \in S
  <2>1. Nat \subseteq S
    BY <1>1, <1>2, SetInduction
  <2>2. QED
    BY <1>3, <2>1
<1>5. \E f : Good(f, Len(Avgs))
  BY <1>4
<1>6. Good(Upto(L, n), Len(Avgs))
  BY <1>5, Zenon DEF Upto
<1>7. PICK u : u = Upto(L, n)
  OBVIOUS
<1>8. u = [i \in 0 .. Len(Avgs) |-> IF i = 0 THEN 0 ELSE Plus(L, n, u[i - 1], i)]
  BY <1>6, <1>7, Zenon
<1>9. \A i \in 0 .. Len(Avgs) : u[i] = IF i = 0 THEN 0 ELSE Plus(L, n, u[i - 1], i)
  BY <1>8
<1>10. QED
  BY <1>3, <1>7, <1>9

LEMMA BenchIs ==
  ASSUME NEW n
  PROVE  Bench(n) = Upto(load, n)[Len(Avgs)]
BY Zenon DEF Bench, Upto, Plus

Total(L, n) == Upto(L, n)[Len(Avgs)]

\* What best_node has found among the nodes of S.
BestOf(a, L, S) ==
  IF S = {} THEN ~a.found /\ a.best = Self
  ELSE /\ a.found /\ a.best \in S /\ a.max \in Nat /\ a.max = Total(L, a.best)
       /\ \A n \in S : Total(L, n) \in Nat /\ Total(L, n) <= a.max

Compared(list, k, up) == {list[i] : i \in 1 .. k} \cap Range(up)
Eligible == IF capnodes = NoKey THEN {} ELSE Range(capnodes) \cap Range(alive)
Settled == still /\ mutex # "best_node"

\* best_node is at the k-th capable node, and has added up the values before the
\* one it looks for.
CompareAt(k) ==
  /\ Reached("best_node", capnodes, k)
  /\ BestOf(arb, load, Compared(capnodes, IF pc["best_node"] = "next" THEN k ELSE k - 1, alive))
  /\ pc["best_node"] = "bench" =>
       /\ tok["best_node"] \in Range(alive) /\ arb.i \in 1 .. Len(Avgs)
       /\ arb.sum \in Nat /\ arb.sum = Upto(load, tok["best_node"])[arb.i - 1]

\* Over a database that does not change.
BenchInv ==
  /\ load \in [Nodes -> [Range(Avgs) -> Loads \cup {NoKey}]]
  /\ Settled /\ pc["best_node"] = "tok" => capnodes # NoKey /\ capnodes = buf["best_node"]
  /\ Settled /\ ~mixed["best_node"] /\ pc["best_node"] \in Compares =>
       capnodes # NoKey /\ \E k \in 1 .. Len(capnodes) : CompareAt(k)
  /\ Settled /\ ~mixed["best_node"] /\ pc["best_node"] \in {"free", "reply"} =>
       BestOf(arb, load, Eligible)

LEMMA SomeAverage == 1 \in 1 .. Len(Avgs)
<1>1. Avgs \in Seq(STRING) /\ DefReq \in Seq(STRING) /\ DefReq # <<>> /\ Range(DefReq) = Range(Avgs)
  BY CsdAssumption
<1>2. 1 \in DOMAIN DefReq
  BY <1>1
<1>3. DefReq[1] \in Range(Avgs)
  BY <1>1, <1>2, Zenon DEF Range
<1>4. PICK i \in DOMAIN Avgs : Avgs[i] = DefReq[1]
  BY <1>3, Zenon DEF Range
<1>5. QED
  BY <1>1, <1>4

LEMMA PartIs ==
  ASSUME NEW i \in 1 .. Len(Avgs), NEW l \in Loads
  PROVE  Part(i, l) \in Nat
<1>1. l \in {0, 1} /\ Weight[i] \in Nat
  BY CsdAssumption
<1>2. PICK w \in Nat : w = Weight[i]
  BY <1>1
<1>3. (2 * w) \div 1 \in Nat /\ (2 * w) \div 2 \in Nat
  OBVIOUS
<1>4. QED
  BY <1>1, <1>2, <1>3 DEF Part

LEMMA ComparedIs ==
  ASSUME NEW list, NEW k \in Nat \ {0}, NEW up
  PROVE  /\ Compared(list, 0, up) = {}
         /\ list[k] \notin Range(up) => Compared(list, k, up) = Compared(list, k - 1, up)
         /\ list[k] \in Range(up) =>
              Compared(list, k, up) = Compared(list, k - 1, up) \cup {list[k]}
<1>1. \A i : i \in 1 .. k <=> i \in 1 .. k - 1 \/ i = k
  OBVIOUS
<1>2. {list[i] : i \in 1 .. k} = {list[i] : i \in 1 .. k - 1} \cup {list[k]}
  BY <1>1, Zenon
<1>3. 1 .. 0 = {}
  OBVIOUS
<1>4. Compared(list, 0, up) = {}
  BY <1>3 DEF Compared
<1>5. QED
  BY <1>2, <1>4, Zenon DEF Compared

\* One node more has been compared.
LEMMA BetterKeepsBest ==
  ASSUME ArbType, NEW L, NEW S, BestOf(arb, L, S), NEW n, NEW b \in Nat, b = Total(L, n),
         NEW d, d = Better(arb, n, b)
  PROVE  BestOf(d, L, S \cup {n})
<1>1. \/ /\ ~arb.found \/ b > arb.max
         /\ d.best = n /\ d.max = b /\ d.found
      \/ /\ arb.found /\ ~(b > arb.max)
         /\ d.best = arb.best /\ d.max = arb.max /\ d.found
  BY BetterIs
<1>2. S \cup {n} # {}
  OBVIOUS
<1>3. CASE S = {}
  <2>1. ~arb.found
    BY <1>3 DEF BestOf
  <2>2. d.best = n /\ d.max = b /\ d.found
    BY <1>1, <2>1
  <2>3. QED
    BY <1>2, <1>3, <2>2 DEF BestOf
<1>4. CASE S # {}
  <2>1. /\ arb.found /\ arb.best \in S /\ arb.max \in Nat /\ arb.max = Total(L, arb.best)
        /\ \A m \in S : Total(L, m) \in Nat /\ Total(L, m) <= arb.max
    BY <1>4 DEF BestOf
  <2>2. CASE b > arb.max
    <3>1. d.best = n /\ d.max = b /\ d.found
      BY <1>1, <2>2
    <3>2. \A m \in S \cup {n} : Total(L, m) \in Nat /\ Total(L, m) <= b
      BY <2>1, <2>2
    <3>3. QED
      BY <1>2, <3>1, <3>2 DEF BestOf
  <2>3. CASE ~(b > arb.max)
    <3>1. d.best = arb.best /\ d.max = arb.max /\ d.found
      BY <1>1, <2>1, <2>3
    <3>2. \A m \in S \cup {n} : Total(L, m) \in Nat /\ Total(L, m) <= arb.max
      BY <2>1, <2>3
    <3>3. QED
      BY <1>2, <2>1, <3>1, <3>2 DEF BestOf
  <2>4. QED
    BY <2>2, <2>3
<1>5. QED
  BY <1>3, <1>4

\* The mutex, once best_node has left it locked, stays so.
LEMMA MutexKept ==
  ASSUME Next, mutex' # "best_node"
  PROVE  mutex # "best_node"
<1>1. NoThread # "best_node"
  BY CsdAssumption DEF Threads
<1>2. CASE Update
  BY <1>1, <1>2 DEF Update, Locked, NoCall, FailedLookup, LookupConf, SetDynamicValues, ListNodes, GetDefReq, NextNode, NodesDone,
         DbAnswered, DbRefused, DbTimeout, NextRequest, GetLibs, ListAlive, ClearCapNodes,
         FreeStray, FirstAlive, CapSend, CapUnsent, CapAnswered, CapTimeout, CapKeyExist, CapStore,
         NextAlive, FreeAlive, UpdateSlept
<1>3. CASE BnReceive \/ BestNode
  BY <1>1, <1>3 DEF BestNode, Locked, NoCall, FailedLookup, BnReceive, BnKeyExist, BnGetCapNodes,
         BnFirst, BnIsAlive, BnBench, BnNoBench, BnNext, BnFree, BnReply
<1>4. CASE Receive \/ Sighup \/ Packets
  BY <1>1, <1>4 DEF Packets, Locked, NoCall, FailedLookup, Receive, ReceiveOwn, Sighup,
         HelloValue, Lookup, ClientSet, ClientDel, LibFirst, LibExist, LibNext, CapReply, PacketDone
<1>5. CASE \/ Hello \/ HelloFails \/ Sigterm \/ (\E t \in Signalled : OnSigterm(t))
           \/ JoinThreads
  BY <1>1, <1>5 DEF Locked, NoCall, FailedLookup, Hello, HelloFails, Sigterm, OnSigterm, DumpDb,
         RaiseFlag, JoinThreads
<1>6. QED
  BY <1>2, <1>3, <1>4, <1>5 DEF Next

\* What the history variable says of a step.
LEMMA SettledIs ==
  ASSUME [Next]_vars, Settled', pc'["best_node"] \notin {"msgrcv", "end"}
  PROVE  /\ alive' = alive /\ load' = load /\ capnodes' = capnodes
         /\ mutex # "best_node" /\ (still \/ pc["best_node"] = "msgrcv")
<1>1. CASE Next
  <2>1. still' = ((still \/ pc["best_node"] = "msgrcv") /\ db' = db)
    BY <1>1, Zenon DEF Next, History
  <2>2. still' /\ mutex' # "best_node"
    BY DEF Settled
  <2>3. (still \/ pc["best_node"] = "msgrcv") /\ db' = db
    BY <2>1, <2>2, Zenon
  <2>4. QED
    BY <1>1, <2>2, <2>3, MutexKept DEF db
<1>2. CASE UNCHANGED vars
  BY <1>2 DEF vars, db, Settled
<1>3. QED
  BY <1>1, <1>2

\* Steps of the other threads.
LEMMA BenchKept ==
  ASSUME CsdInv, BenchInv, [Next]_vars, Kept("best_node"), arb' = arb,
         load' \in [Nodes -> [Range(Avgs) -> Loads \cup {NoKey}]]
  PROVE  BenchInv'
<1>1. ASSUME Settled', pc'["best_node"] \in Compares \cup {"tok", "free", "reply"}
      PROVE  /\ Settled /\ pc'["best_node"] = pc["best_node"]
             /\ alive' = alive /\ load' = load /\ capnodes' = capnodes
             /\ buf'["best_node"] = buf["best_node"] /\ tok'["best_node"] = tok["best_node"]
             /\ ~mixed'["best_node"] => ~mixed["best_node"]
  <2>1. pc'["best_node"] = pc["best_node"] /\ pc'["best_node"] \notin {"msgrcv", "end"}
    BY <1>1 DEF Kept, Handler, Compares
  <2>2. QED
    BY <1>1, <2>1, SettledIs DEF Kept, Alone, Settled
<1>2. Settled' /\ pc'["best_node"] = "tok" => capnodes' # NoKey /\ capnodes' = buf'["best_node"]
  BY <1>1 DEF BenchInv
<1>3. ASSUME Settled', ~mixed'["best_node"], pc'["best_node"] \in Compares
      PROVE  capnodes' # NoKey /\ \E k \in 1 .. Len(capnodes') : CompareAt(k)'
  <2>1. PICK k \in 1 .. Len(capnodes) : CompareAt(k) /\ capnodes # NoKey
    BY <1>1, <1>3 DEF BenchInv
  <2>2. Reached("best_node", capnodes, k)'
    <3>1. PICK c : c = capnodes
      OBVIOUS
    <3>2. Reached("best_node", c, k)'
      BY <1>3, <2>1, <3>1, ReachedKept DEF CompareAt, Kept, Parsers
    <3>3. QED
      BY <1>1, <1>3, <3>1, <3>2
  <2>3. CompareAt(k)'
    BY <1>1, <1>3, <2>1, <2>2 DEF CompareAt
  <2>4. QED
    BY <1>1, <1>3, <2>1, <2>3
<1>4. ASSUME Settled', ~mixed'["best_node"], pc'["best_node"] \in {"free", "reply"}
      PROVE  BestOf(arb', load', Eligible')
  BY <1>1, <1>4 DEF BenchInv, Eligible
<1>5. QED
  BY <1>2, <1>3, <1>4 DEF BenchInv

\* The load values keep their type.
LEMMA LoadKept ==
  ASSUME CsdInv, BenchInv, [Next]_vars
  PROVE  load' \in [Nodes -> [Range(Avgs) -> Loads \cup {NoKey}]]
<1> DEFINE Values == [Range(Avgs) -> Loads \cup {NoKey}]
<1>1. load \in [Nodes -> Values] /\ Self \in Nodes
  BY Constants DEF BenchInv
<1>2. CASE SetDynamicValues
  <2>1. PICK l \in [Range(Avgs) -> Loads] : load' = [load EXCEPT ![Self] = l]
    BY <1>2 DEF SetDynamicValues
  <2>2. l \in Values
    BY <2>1
  <2>3. QED
    BY <1>1, <2>1, <2>2
<1>3. CASE DbAnswered
  <2>1. PICK v \in Loads : load' = [load EXCEPT ![Head(nodes)][tok["update"]] = v]
    BY <1>3 DEF DbAnswered
  <2>2. PICK h, a : h = Head(nodes) /\ a = tok["update"]
    OBVIOUS
  <2>3. load' = [load EXCEPT ![h] = [load[h] EXCEPT ![a] = v]]
    BY <2>1, <2>2
  <2>4. ASSUME h \in Nodes PROVE [load[h] EXCEPT ![a] = v] \in Values
    <3>1. load[h] \in Values
      BY <1>1, <2>4
    <3>2. QED
      BY <3>1
  <2>5. QED
    BY <1>1, <2>3, <2>4
<1>4. CASE load' = load
  BY <1>1, <1>4
<1>c. CASE \E n \in Nodes, a \in Range(Avgs), v \in Loads \cup {NoKey} :
             load' = [load EXCEPT ![n][a] = v]
  <2>1. PICK n \in Nodes, a \in Range(Avgs), v \in Loads \cup {NoKey} :
          load' = [load EXCEPT ![n] = [load[n] EXCEPT ![a] = v]]
    BY <1>c
  <2>2. load[n] \in Values
    BY <1>1
  <2>3. [load[n] EXCEPT ![a] = v] \in Values
    BY <2>2
  <2>4. QED
    BY <1>1, <2>1, <2>3
<1>5. \/ load' = load \/ SetDynamicValues \/ DbAnswered
      \/ \E n \in Nodes, a \in Range(Avgs), v \in Loads \cup {NoKey} :
           load' = [load EXCEPT ![n][a] = v]
  <2>1. CASE Update
    BY <2>1 DEF db, Update, ListNodes, GetDefReq, NextNode, NodesDone, DbRefused, DbTimeout,
           NextRequest, GetLibs, ListAlive, ClearCapNodes, FreeStray, FirstAlive, CapSend,
           CapUnsent, CapAnswered, CapTimeout, CapKeyExist, CapStore, NextAlive, FreeAlive,
           UpdateSlept
  <2>2. CASE BnReceive \/ BestNode
    BY <2>2 DEF db, BestNode, BnReceive, BnKeyExist, BnGetCapNodes, BnFirst, BnIsAlive, BnBench,
           BnNoBench, BnNext, BnFree, BnReply
  <2>c. CASE ClientSet \/ ClientDel
    BY <2>c DEF db, ClientSet, ClientDel
  <2>3. CASE (Receive \/ Sighup \/ Packets) /\ ~ClientSet /\ ~ClientDel
    BY <2>3 DEF db, Packets, Receive, ReceiveOwn, Sighup, HelloValue, Lookup, LibFirst, LibExist,
           LibNext, CapReply, PacketDone
  <2>4. CASE \/ Hello \/ HelloFails \/ Sigterm \/ (\E t \in Signalled : OnSigterm(t))
             \/ JoinThreads
    BY <2>4 DEF db, quiet, Hello, HelloFails, Sigterm, OnSigterm, DumpDb, RaiseFlag, JoinThreads
  <2>5. CASE UNCHANGED vars
    BY <2>5 DEF vars, db
  <2>6. QED
    BY <2>1, <2>2, <2>c, <2>3, <2>4, <2>5 DEF Next
<1>6. QED
  BY <1>2, <1>3, <1>4, <1>c, <1>5

\* The lookups of csda_calc_bench add up to the bench of the node.
LEMMA BenchStep ==
  ASSUME CsdInv, BenchInv, BnBench, NEW k \in 1 .. Len(capnodes), CompareAt(k), capnodes # NoKey
  PROVE  \/ /\ arb.i < Len(Avgs)
            /\ pc'["best_node"] = "bench"
            /\ arb'.best = arb.best /\ arb'.max = arb.max /\ arb'.found = arb.found
            /\ arb'.i \in 1 .. Len(Avgs) /\ arb'.sum \in Nat
            /\ arb'.sum = Upto(load, tok["best_node"])[arb'.i - 1]
         \/ /\ pc'["best_node"] = "next"
            /\ Total(load, tok["best_node"]) \in Nat
            /\ arb' = Better(arb, tok["best_node"], Total(load, tok["best_node"]))
<1>1. pc["best_node"] = "bench"
  BY BnSteps
<1>2. PICK n : n = tok["best_node"]
  OBVIOUS
<1>3. PICK i \in 1 .. Len(Avgs) : i = arb.i
  BY <1>1 DEF CompareAt
<1>4. PICK l : l = load[n][Avgs[i]]
  OBVIOUS
<1>5. n \in Range(alive) /\ arb.sum \in Nat /\ arb.sum = Upto(load, n)[i - 1]
  BY <1>1, <1>2, <1>3 DEF CompareAt
<1>6. l \in Loads
  <2>1. n \in Nodes
    BY <1>5 DEF CsdInv, TypeInv, Range
  <2>2. Avgs[i] \in Range(Avgs)
    BY <1>3, CsdAssumption DEF Range
  <2>3. l \in Loads \cup {NoKey}
    BY <1>4, <2>1, <2>2 DEF BenchInv
  <2>4. l # NoKey
    BY <1>2, <1>3, <1>4 DEF BnBench
  <2>5. QED
    BY <2>3, <2>4
<1>7. PICK x \in Nat : x = arb.sum + Part(i, l)
  BY <1>5, <1>6, PartIs
<1>8. x = Upto(load, n)[i]
  <2>1. Upto(load, n)[i] = Plus(load, n, Upto(load, n)[i - 1], i)
    BY UptoIs
  <2>2. QED
    BY <1>4, <1>5, <1>7, <2>1 DEF Plus
<1>9. Len(Avgs) \in Nat
  BY CsdAssumption
<1>10. ArbType
  BY DEF CsdInv, TypeInv, ArbType
<1>11. CASE arb.i < Len(Avgs) /\ arb' = [arb EXCEPT !.sum = @ + Part(arb.i, l), !.i = @ + 1]
  <2>1. PICK j : j = i + 1
    OBVIOUS
  <2>2. arb' = ArbWith(x, j)
    BY <1>3, <1>7, <1>11, <2>1, Zenon DEF ArbWith
  <2>3. /\ arb'.best = arb.best /\ arb'.max = arb.max /\ arb'.found = arb.found
        /\ arb'.sum = x /\ arb'.i = j
    BY <1>10, <2>2, ArbIs
  <2>4. j \in 1 .. Len(Avgs) /\ j - 1 = i
    BY <1>3, <1>9, <1>11, <2>1
  <2>5. pc'["best_node"] = "bench"
    BY <1>3, <1>9, <1>11, BnSteps
  <2>6. /\ arb'.best = arb.best /\ arb'.max = arb.max /\ arb'.found = arb.found
        /\ arb.i < Len(Avgs)
    BY <1>11, <2>3
  <2>7. arb'.i \in 1 .. Len(Avgs) /\ arb'.sum \in Nat /\ arb'.sum = Upto(load, n)[arb'.i - 1]
    BY <1>7, <1>8, <2>3, <2>4
  <2>8. QED
    BY <1>2, <2>5, <2>6, <2>7
<1>12. CASE arb.i = Len(Avgs) /\ arb' = Better(arb, n, arb.sum + Part(arb.i, l))
  <2>1. x = Total(load, n)
    BY <1>3, <1>8, <1>12 DEF Total
  <2>2. pc'["best_node"] = "next"
    BY <1>12, BnSteps
  <2>3. arb' = Better(arb, n, x)
    BY <1>3, <1>7, <1>12, Zenon
  <2>4. QED
    BY <1>2, <1>7, <2>1, <2>2, <2>3
<1>13. QED
  <2>1. \/ arb.i < Len(Avgs) /\ arb' = [arb EXCEPT !.sum = @ + Part(arb.i, l), !.i = @ + 1]
        \/ arb.i = Len(Avgs) /\ arb' = Better(arb, n, arb.sum + Part(arb.i, l))
    BY <1>2, <1>3, <1>4, Zenon DEF BnBench
  <2>2. QED
    BY <1>11, <1>12, <2>1, Zenon

\* BestOf asks for three fields only.
LEMMA BestOfFields ==
  ASSUME NEW a, NEW d, NEW L, NEW S, BestOf(a, L, S),
         d.best = a.best, d.max = a.max, d.found = a.found
  PROVE  BestOf(d, L, S)
BY DEF BestOf

LEMMA BenchSteps ==
  ASSUME CsdInv, BenchInv, Next, BnReceive \/ BestNode
  PROVE  BenchInv'
<1>1. /\ load' \in [Nodes -> [Range(Avgs) -> Loads \cup {NoKey}]]
      /\ alive' = alive /\ load' = load /\ capnodes' = capnodes
  <2>1. load' = load
    BY DEF db, BestNode, BnReceive, BnKeyExist, BnGetCapNodes, BnFirst, BnIsAlive, BnBench,
           BnNoBench, BnNext, BnFree, BnReply
  <2>2. QED
    BY <2>1, LoadKept, BestFrame
<1>2. "best_node" \in Parsers /\ StrtokType /\ BestInv /\ ArbType /\ DOMAIN buf = Parsers
  BY TypeParts DEF CsdInv, Parsers, TypeInv, ArbType
<1>3. ASSUME Settled', pc'["best_node"] \notin {"msgrcv", "end"}, pc["best_node"] # "msgrcv"
      PROVE  Settled
  BY <1>3, SettledIs DEF Settled
<1>4. CASE BnReceive \/ BnReply
  <2>1. pc'["best_node"] \in {"exist", "end", "msgrcv"}
    BY <1>4, BnSteps
  <2>2. QED
    BY <1>1, <2>1 DEF BenchInv, Compares
<1>5. CASE BnKeyExist
  <2>1. /\ pc["best_node"] = "exist" /\ arb' = arb
        /\ pc'["best_node"] = IF capnodes = NoKey THEN "reply" ELSE "get"
    BY <1>5, BnSteps, ArbSteps DEF BestNode
  <2>2. capnodes = NoKey => BestOf(arb', load', Eligible')
    <3>1. ~arb.found /\ arb.best = Self
      BY <1>2, <2>1, NoArbIs DEF BestInv
    <3>2. QED
      BY <1>1, <2>1, <3>1 DEF BestOf, Eligible
  <2>3. QED
    BY <1>1, <2>1, <2>2 DEF BenchInv, Compares
<1>6. CASE BnGetCapNodes
  <2>1. /\ pc["best_node"] = "get"
        /\ pc'["best_node"] = IF capnodes = NoKey THEN "reply" ELSE "tok"
    BY <1>6, BnSteps
  <2>2. CASE capnodes = NoKey
    <3>1. mutex' = "best_node"
      BY <1>6, <2>2 DEF BnGetCapNodes, FailedLookup
    <3>2. QED
      BY <1>1, <3>1 DEF BenchInv, Settled
  <2>3. CASE capnodes # NoKey
    <3>1. buf'["best_node"] = capnodes
      BY <1>2, <1>6, <2>3 DEF BnGetCapNodes
    <3>2. QED
      BY <1>1, <2>1, <2>3, <3>1 DEF BenchInv, Compares
  <2>4. QED
    BY <2>2, <2>3
<1>7. CASE BnFirst
  <2>1. /\ StrtokFirst("best_node", buf["best_node"]) /\ arb' = arb
        /\ pc["best_node"] = "tok" /\ pc'["best_node"] = "alive"
    BY <1>7, BnSteps, ArbSteps DEF BnFirst, BestNode
  <2>2. ASSUME Settled'
        PROVE  capnodes' # NoKey /\ 1 \in 1 .. Len(capnodes') /\ CompareAt(1)'
    <3>1. capnodes # NoKey /\ capnodes = buf["best_node"]
      BY <1>3, <2>1, <2>2 DEF BenchInv
    <3>2. PICK s \in Seq(Candidates) : s = capnodes /\ s # <<>>
      BY <1>2, <2>1, <3>1 DEF BestInv
    <3>3. Candidates \subseteq STRING
      BY CandidatesAre DEF CsdInv
    <3>4. s \in Seq(STRING)
      BY <3>3, SeqMonotone
    <3>5. tok'["best_node"] = s[1] /\ ~save'.freed /\ save'.rest = Tail(s)
      BY <1>2, <2>1, <3>1, <3>2, <3>4, StrtokFirstIs
    <3>6. 1 \in 1 .. Len(s)
      BY <3>2
    <3>7. Reached("best_node", s, 1)'
      BY <3>2, <3>4, <3>5, <3>6, TailIs DEF Reached
    <3>8. BestOf(arb, load, Compared(s, 0, alive))
      <4>1. ~arb.found /\ arb.best = Self
        BY <1>2, <2>1, NoArbIs DEF BestInv
      <4>2. QED
        BY <4>1, ComparedIs DEF BestOf
    <3>9. Reached("best_node", capnodes, 1)'
      BY <1>1, <3>2, <3>7
    <3>10. QED
      BY <1>1, <2>1, <3>1, <3>2, <3>6, <3>8, <3>9 DEF CompareAt
  <2>3. QED
    BY <1>1, <2>1, <2>2 DEF BenchInv, Compares
<1>8. CASE BnIsAlive \/ BnBench
  <2>1. /\ tok' = tok /\ mixed' = mixed /\ save' = save
        /\ pc["best_node"] \in {"alive", "bench"} /\ pc'["best_node"] \in {"bench", "next"}
    BY <1>8, BnSteps DEF BnIsAlive, BnBench, NoStrtok, strtokVars
  <2>2. ASSUME Settled', ~mixed'["best_node"]
        PROVE  capnodes' # NoKey /\ \E k \in 1 .. Len(capnodes') : CompareAt(k)'
    <3>1. PICK k \in 1 .. Len(capnodes) : CompareAt(k) /\ capnodes # NoKey
      BY <1>3, <2>1, <2>2 DEF BenchInv, Compares
    <3>2. capnodes \in Seq(Nodes) /\ k \in Nat \ {0}
      BY <3>1 DEF CsdInv, TypeInv
    <3>3. Reached("best_node", capnodes, k)' /\ tok["best_node"] = capnodes[k]
      BY <1>1, <2>1, <3>1 DEF CompareAt, Reached
    <3>4. BestOf(arb, load, Compared(capnodes, k - 1, alive))
      BY <2>1, <3>1 DEF CompareAt
    <3>5. CASE BnIsAlive
      <4>1. arb' = ArbWith(0, 1)
        BY <3>5, Zenon DEF BnIsAlive, ArbWith
      <4>2. /\ arb'.best = arb.best /\ arb'.max = arb.max /\ arb'.found = arb.found
            /\ arb'.sum = 0 /\ arb'.i = 1
        BY <1>2, <4>1, ArbIs
      <4>3. BestOf(arb', load, Compared(capnodes, k - 1, alive))
        BY <3>4, <4>2, BestOfFields
      <4>4. CASE tok["best_node"] \in Range(alive)
        <5>1. pc'["best_node"] = "bench"
          BY <3>5, <4>4, BnSteps
        <5>2. 1 \in 1 .. Len(Avgs)
          BY SomeAverage
        <5>3. arb'.sum = Upto(load, tok["best_node"])[arb'.i - 1]
          BY <4>2, UptoIs
        <5>4. QED
          BY <1>1, <2>1, <3>1, <3>3, <4>2, <4>3, <4>4, <5>1, <5>2, <5>3 DEF CompareAt
      <4>5. CASE tok["best_node"] \notin Range(alive)
        <5>1. pc'["best_node"] = "next"
          BY <3>5, <4>5, BnSteps
        <5>2. BestOf(arb', load, Compared(capnodes, k, alive))
          BY <3>2, <3>3, <4>3, <4>5, ComparedIs
        <5>3. QED
          BY <1>1, <3>1, <3>3, <5>1, <5>2 DEF CompareAt
      <4>6. QED
        BY <4>4, <4>5
    <3>6. CASE BnBench
      <4>1. pc["best_node"] = "bench" /\ tok["best_node"] \in Range(alive)
        BY <3>1, <3>6, BnSteps DEF CompareAt
      <4>2. CASE /\ pc'["best_node"] = "bench"
                 /\ arb'.best = arb.best /\ arb'.max = arb.max /\ arb'.found = arb.found
                 /\ arb'.i \in 1 .. Len(Avgs) /\ arb'.sum \in Nat
                 /\ arb'.sum = Upto(load, tok["best_node"])[arb'.i - 1]
        <5>1. BestOf(arb', load, Compared(capnodes, k - 1, alive))
          BY <3>4, <4>2, BestOfFields
        <5>2. QED
          BY <1>1, <2>1, <3>1, <3>3, <4>1, <4>2, <5>1 DEF CompareAt
      <4>3. CASE /\ pc'["best_node"] = "next"
                 /\ Total(load, tok["best_node"]) \in Nat
                 /\ arb' = Better(arb, tok["best_node"], Total(load, tok["best_node"]))
        <5>1. BestOf(arb', load, Compared(capnodes, k - 1, alive) \cup {tok["best_node"]})
          BY <1>2, <3>4, <4>3, BetterKeepsBest
        <5>2. BestOf(arb', load, Compared(capnodes, k, alive))
          <6>1. capnodes[k] \in Range(alive) /\ capnodes[k] = tok["best_node"]
            BY <3>3, <4>1
          <6>2. Compared(capnodes, k, alive) = Compared(capnodes, k - 1, alive) \cup {capnodes[k]}
            BY <3>2, <6>1, ComparedIs, Zenon
          <6>3. QED
            BY <5>1, <6>1, <6>2, Zenon
        <5>3. QED
          BY <1>1, <3>1, <3>3, <4>3, <5>2 DEF CompareAt
      <4>4. QED
        BY <3>1, <3>6, <4>2, <4>3, BenchStep
    <3>7. QED
      BY <1>8, <3>5, <3>6
  <2>3. QED
    BY <1>1, <2>1, <2>2 DEF BenchInv, Compares
<1>9. CASE BnNoBench
  <2>1. mutex' = "best_node"
    BY <1>9 DEF BnNoBench, FailedLookup
  <2>2. QED
    BY <1>1, <2>1 DEF BenchInv, Settled
<1>10. CASE BnNext
  <2>1. /\ StrtokNext("best_node") /\ arb' = arb /\ pc["best_node"] = "next"
        /\ pc'["best_node"] = IF tok'["best_node"] = NoToken THEN "free" ELSE "alive"
    BY <1>10, BnSteps, ArbSteps DEF BnNext, BestNode
  <2>2. ASSUME Settled', ~mixed'["best_node"]
        PROVE  /\ capnodes' # NoKey
               /\ \/ pc'["best_node"] = "alive" /\ \E k \in 1 .. Len(capnodes') : CompareAt(k)'
                  \/ pc'["best_node"] = "free" /\ BestOf(arb', load', Eligible')
    <3>1. /\ ~mixed["best_node"] /\ save.of = "best_node" /\ save'.of = "best_node"
          /\ save'.freed => save.freed
          /\ \/ /\ save.rest # <<>> /\ tok'["best_node"] = save.rest[1]
                /\ save'.rest = Tail(save.rest)
             \/ (save.rest = <<>> \/ save.freed) /\ tok'["best_node"] = NoToken
      BY <1>2, <2>1, <2>2, StrtokNextIs
    <3>2. PICK k \in 1 .. Len(capnodes) : CompareAt(k) /\ capnodes # NoKey
      BY <1>3, <2>1, <2>2, <3>1 DEF BenchInv, Compares
    <3>3. capnodes \in Seq(Nodes) /\ k \in Nat \ {0} /\ Len(capnodes) \in Nat
      BY <3>2 DEF CsdInv, TypeInv
    <3>4. /\ ~save.freed /\ Len(save.rest) = Len(capnodes) - k
          /\ \A i \in 1 .. Len(save.rest) : save.rest[i] = capnodes[k + i]
      BY <3>1, <3>2 DEF CompareAt, Reached
    <3>5. BestOf(arb, load, Compared(capnodes, k, alive))
      BY <2>1, <3>2 DEF CompareAt
    <3>6. save.rest \in Seq(STRING)
      BY <1>2 DEF StrtokType, Strtok
    <3>7. CASE save.rest = <<>>
      <4>1. tok'["best_node"] = NoToken /\ k = Len(capnodes)
        BY <3>1, <3>3, <3>4, <3>7
      <4>2. Compared(capnodes, k, alive) = Eligible'
        <5>1. {capnodes[i] : i \in 1 .. k} = Range(capnodes)
          BY <3>3, <4>1 DEF Range
        <5>2. QED
          BY <1>1, <3>2, <5>1 DEF Compared, Eligible
      <4>3. QED
        BY <1>1, <2>1, <3>2, <3>5, <4>1, <4>2
    <3>8. CASE save.rest # <<>>
      <4>1. tok'["best_node"] = save.rest[1] /\ save'.rest = Tail(save.rest)
        BY <3>1, <3>4, <3>8
      <4>2. PICK l \in Nat : /\ l = Len(save.rest) /\ l > 0 /\ Len(save'.rest) = l - 1
        BY <3>6, <3>8, <4>1, TailIs
      <4>3. k + 1 \in 1 .. Len(capnodes)
        BY <3>3, <3>4, <4>2
      <4>4. 1 \in 1 .. Len(save.rest)
        BY <4>2
      <4>5. tok'["best_node"] = capnodes[k + 1]
        BY <3>4, <4>1, <4>4
      <4>6. \A i \in 1 .. Len(save'.rest) : save'.rest[i] = capnodes[k + 1 + i]
        <5>1. k \in Nat
          BY <3>3
        <5>2. \A i \in 1 .. Len(save.rest) : save.rest[i] = capnodes[k + i]
          BY <3>4, Zenon
        <5>3. QED
          BY <3>6, <3>8, <4>1, <5>1, <5>2, WordsBehind
      <4>7. Len(save'.rest) = Len(capnodes) - (k + 1)
        BY <3>3, <3>4, <4>2
      <4>8. Reached("best_node", capnodes, k + 1)'
        BY <1>1, <3>1, <3>4, <4>3, <4>5, <4>6, <4>7 DEF Reached
      <4>9. capnodes[k + 1] \in Nodes
        BY <3>3, <4>3
      <4>10. pc'["best_node"] = "alive"
        BY <2>1, <4>5, <4>9, Constants
      <4>11. (k + 1) - 1 = k
        BY <3>3
      <4>12. CompareAt(k + 1)'
        BY <1>1, <2>1, <3>5, <4>8, <4>10, <4>11 DEF CompareAt
      <4>13. QED
        BY <1>1, <3>2, <4>3, <4>10, <4>12
    <3>9. QED
      BY <3>7, <3>8
  <2>3. QED
    BY <1>1, <2>1, <2>2 DEF BenchInv, Compares
<1>11. CASE BnFree
  <2>1. mixed' = mixed /\ arb' = arb /\ pc["best_node"] = "free" /\ pc'["best_node"] = "reply"
    BY <1>11, BnSteps, ArbSteps DEF BnFree, BestNode
  <2>2. Settled' /\ ~mixed'["best_node"] => BestOf(arb', load', Eligible')
    BY <1>1, <1>3, <2>1 DEF BenchInv, Eligible
  <2>3. QED
    BY <1>1, <2>1, <2>2 DEF BenchInv, Compares
<1>12. QED
  BY <1>4, <1>5, <1>6, <1>7, <1>8, <1>9, <1>10, <1>11 DEF BestNode

LEMMA NextBenchInv ==
  ASSUME CsdInv, BenchInv, [Next]_vars
  PROVE  BenchInv'
<1>1. load' \in [Nodes -> [Range(Avgs) -> Loads \cup {NoKey}]]
  BY LoadKept
<1>2. CASE Next /\ (BnReceive \/ BestNode)
  BY <1>2, BenchSteps
<1>3. CASE Update
  BY <1>1, <1>3, UpdateFrame, BenchKept DEF Frame, Parsers
<1>4. CASE Receive \/ Sighup \/ Packets
  BY <1>1, <1>4, PacketFrame, BenchKept DEF Frame, Parsers
<1>5. CASE \/ Hello \/ HelloFails \/ Sigterm \/ (\E t \in Signalled : OnSigterm(t))
           \/ JoinThreads \/ UNCHANGED vars
  BY <1>1, <1>5, QuietKept, BenchKept DEF Parsers
<1>6. QED
  BY <1>2, <1>3, <1>4, <1>5 DEF Next

\* Over a database that does not change and with strtok to itself,
\* csda_best_node_for_app returns an alive capable node with the greatest bench.
THEOREM BestIsBestHolds == Spec => []BestIsBest
<1>1. ASSUME Init PROVE BenchInv
  <2>1. load \in [Nodes -> [Range(Avgs) -> Loads \cup {NoKey}]]
    <3>1. load = [n \in Nodes |-> [a \in Range(Avgs) |-> IF n = Self THEN 0 ELSE NoKey]]
      BY <1>1 DEF Init
    <3>2. 0 \in Loads
      BY CsdAssumption
    <3>3. QED
      BY <3>1, <3>2
  <2>2. still = FALSE
    BY <1>1 DEF Init
  <2>3. QED
    BY <2>1, <2>2 DEF BenchInv, Settled
<1>2. CsdInv /\ BenchInv /\ [Next]_vars => BenchInv'
  BY NextBenchInv
<1>3. ASSUME BenchInv PROVE BestIsBest
  <2>1. SUFFICES ASSUME pc["best_node"] = "reply", still, ~mixed["best_node"],
                        mutex # "best_node"
                 PROVE  IF Eligible = {} THEN arb.best = Self
                        ELSE /\ arb.best \in Eligible
                             /\ \A n \in Eligible : Bench(n) <= Bench(arb.best)
    BY DEF BestIsBest, Eligible
  <2>2. BestOf(arb, load, Eligible)
    BY <1>3, <2>1 DEF BenchInv, Settled
  <2>3. QED
    BY <2>2, BenchIs DEF BestOf, Total
<1>4. QED
  BY <1>1, <1>2, <1>3, CsdInvariance, PTL DEF Spec
===============================================================================
