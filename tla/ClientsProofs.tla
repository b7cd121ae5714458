----------------------------- MODULE ClientsProofs -----------------------------
(***************************************************************************)
(* The two clients of a csd.  The exchange of best nodes with the ikcd,    *)
(* for any number of identifiers, calls, alarms and crashes: a call takes  *)
(* no answer of another one, and the server listens where its clients      *)
(* send.  The commands of csm, for lines, keys and values of any length:   *)
(* what was written is read.                                               *)
(***************************************************************************)
EXTENDS Clients, TLAPS, FiniteSetTheorems, SequenceTheorems, NaturalsInduction, WellFoundedInduction

-------------------------------------------------------------------------------
(* The invariant *)

AnyId == Ids \cup {NoId}
Message == [client : AnyId, call : Nat]
Before == {"idle", "unassigned", "get_client"}
Within == {"send", "sending", "alarm", "receive", "receiving", "out"}

IkcdType == [pc : Before \cup Within, server_id : AnyId, client_id : AnyId, resp : Nat]
CsdaType == [pc : {"start", "rcv", "find", "reply", "check", "down"},
             server_id : AnyId, client_id : AnyId, call : Nat]

BnTypeOK ==
  /\ DOMAIN queues \subseteq Ids
  /\ queues \in [DOMAIN queues -> Seq(Message)]
  /\ idOf \in [{7768, 6877} -> AnyId]
  /\ ikcd \in IkcdType
  /\ csda \in CsdaType
  /\ calls \in Nat

\* What is under a key exists, and is under one key.
Keyed ==
  /\ \A k \in {7768, 6877} : idOf[k] # NoId => idOf[k] \in DOMAIN queues
  /\ idOf[7768] = idOf[6877] => idOf[7768] = NoId

\* The server's queue and the client's are two, also when one is gone already
\* and only its identifier is left.
TwoQueues ==
  /\ csda.server_id # NoId => csda.server_id \notin {idOf[6877], ikcd.client_id}
  /\ ikcd.client_id # NoId => ikcd.client_id # idOf[7768]

\* The client's queue lives for one call, unless the ikcd died.
OneCall ==
  /\ ikcd.client_id # NoId => idOf[6877] \in {ikcd.client_id, NoId}
  /\ ikcd.client_id = NoId /\ ~leftOver => idOf[6877] = NoId
  /\ ikcd.pc \in Before => ikcd.client_id = NoId /\ ikcd.resp = NoAnswer

\* Message m in queue q, or the request the server works at, belongs to the call
\* under way if it has anything to do with its queue.
OfThisCall(q, m) ==
  m.client = ikcd.client_id \/ q = ikcd.client_id => m.call = calls

Mentions ==
  ikcd.client_id # NoId /\ ~leftOver =>
    /\ csda.client_id = ikcd.client_id => csda.call = calls
    /\ \A q \in DOMAIN queues : \A i \in 1 .. Len(queues[q]) : OfThisCall(q, queues[q][i])

Answered == ikcd.resp # NoAnswer => ikcd.pc = "out" /\ (ikcd.resp = calls \/ leftOver)

Listens ==
  csda.pc \in {"rcv", "find", "reply", "check"} =>
    stray \/ (csda.server_id \in DOMAIN queues /\ idOf[7768] = csda.server_id)

BnInv == BnTypeOK /\ Keyed /\ TwoQueues /\ OneCall /\ Mentions /\ Answered /\ Listens

-------------------------------------------------------------------------------
(* Message queues *)

\* m is in queue q already.
Old(q, m) == q \in DOMAIN queues /\ \E j \in 1 .. Len(queues[q]) : m = queues[q][j]

LEMMA MsgSndIs ==
  ASSUME BnTypeOK, NEW q \in DOMAIN queues, NEW m \in Message, MsgSnd(q, m)
  PROVE  /\ DOMAIN queues' = DOMAIN queues /\ queues' \in [DOMAIN queues -> Seq(Message)]
         /\ \A p \in DOMAIN queues : \A i \in 1 .. Len(queues'[p]) :
              Old(p, queues'[p][i]) \/ (p = q /\ queues'[p][i] = m)
<1>1. /\ queues \in [DOMAIN queues -> Seq(Message)] /\ queues[q] \in Seq(Message)
      /\ queues' = [queues EXCEPT ![q] = Append(queues[q], m)]
  BY DEF BnTypeOK, MsgSnd
<1>2. Append(queues[q], m) \in Seq(Message)
  BY <1>1
<1>3. DOMAIN queues' = DOMAIN queues /\ queues' \in [DOMAIN queues -> Seq(Message)]
  BY <1>1, <1>2
<1>4. ASSUME NEW p \in DOMAIN queues, NEW i \in 1 .. Len(queues'[p])
      PROVE  Old(p, queues'[p][i]) \/ (p = q /\ queues'[p][i] = m)
  <2>1. CASE p # q
    BY <1>1, <1>4, <2>1 DEF Old
  <2>2. CASE p = q
    <3>1. queues'[p] = Append(queues[q], m)
      BY <1>1, <2>2
    <3>2. i \in 1 .. Len(queues[q]) + 1
      BY <1>1, <1>4, <3>1
    <3>3. i \in 1 .. Len(queues[q]) \/ i = Len(queues[q]) + 1
      BY <1>1, <3>2
    <3>4. QED
      BY <1>1, <2>2, <3>1, <3>3 DEF Old
  <2>3. QED
    BY <2>1, <2>2
<1>5. QED
  BY <1>3, <1>4

LEMMA MsgRcvIs ==
  ASSUME BnTypeOK, NEW q \in DOMAIN queues, queues[q] # <<>>, MsgRcv(q)
  PROVE  /\ DOMAIN queues' = DOMAIN queues /\ queues' \in [DOMAIN queues -> Seq(Message)]
         /\ Head(queues[q]) \in Message /\ Old(q, Head(queues[q]))
         /\ \A p \in DOMAIN queues : \A i \in 1 .. Len(queues'[p]) : Old(p, queues'[p][i])
<1>1. /\ queues \in [DOMAIN queues -> Seq(Message)] /\ queues[q] \in Seq(Message)
      /\ queues' = [queues EXCEPT ![q] = Tail(queues[q])]
  BY DEF BnTypeOK, MsgRcv
<1>2. Tail(queues[q]) \in Seq(Message) /\ Len(queues[q]) \in Nat /\ Len(queues[q]) >= 1
      /\ Head(queues[q]) = queues[q][1] /\ queues[q][1] \in Message
      /\ Len(Tail(queues[q])) = Len(queues[q]) - 1
      /\ \A i \in 1 .. Len(queues[q]) - 1 : Tail(queues[q])[i] = queues[q][i + 1]
  BY <1>1
<1>3. DOMAIN queues' = DOMAIN queues /\ queues' \in [DOMAIN queues -> Seq(Message)]
  BY <1>1, <1>2
<1>4. ASSUME NEW p \in DOMAIN queues, NEW i \in 1 .. Len(queues'[p])
      PROVE  Old(p, queues'[p][i])
  <2>1. CASE p # q
    BY <1>1, <1>4, <2>1 DEF Old
  <2>2. CASE p = q
    <3>1. queues'[p] = Tail(queues[q])
      BY <1>1, <2>2
    <3>2. i \in 1 .. Len(queues[q]) - 1 /\ i + 1 \in 1 .. Len(queues[q])
      BY <1>2, <1>4, <3>1
    <3>3. queues'[p][i] = queues[q][i + 1]
      BY <1>2, <3>1, <3>2
    <3>4. QED
      BY <2>2, <3>2, <3>3 DEF Old
  <2>3. QED
    BY <2>1, <2>2
<1>5. Old(q, Head(queues[q]))
  BY <1>2 DEF Old
<1>6. QED
  BY <1>2, <1>3, <1>4, <1>5

LEMMA RmidIs ==
  ASSUME BnTypeOK, NEW id, Rmid(id)
  PROVE  /\ \A p : p \in DOMAIN queues' <=> p \in DOMAIN queues /\ p # id
         /\ queues' \in [DOMAIN queues' -> Seq(Message)]
         /\ \A p \in DOMAIN queues' : \A i \in 1 .. Len(queues'[p]) : Old(p, queues'[p][i])
         /\ idOf' \in [{7768, 6877} -> AnyId]
         /\ \A k \in {7768, 6877} : idOf'[k] = IF idOf[k] = id THEN NoId ELSE idOf[k]
<1>1. /\ queues \in [DOMAIN queues -> Seq(Message)] /\ idOf \in [{7768, 6877} -> AnyId]
      /\ queues' = [q \in DOMAIN queues \ {id} |-> queues[q]]
      /\ idOf' = [k \in {7768, 6877} |-> IF idOf[k] = id THEN NoId ELSE idOf[k]]
  BY DEF BnTypeOK, Rmid
<1>2. QED
  BY <1>1 DEF Old, AnyId

\* A queue that did not exist is new to everyone.
LEMMA MsgGetCreateIs ==
  ASSUME BnTypeOK, NEW k \in {7768, 6877}, NEW id \in Ids, MsgGetCreate(k, id)
  PROVE  /\ queues' \in [DOMAIN queues' -> Seq(Message)] /\ idOf' \in [{7768, 6877} -> AnyId]
         /\ \A p : p \in DOMAIN queues' <=> p \in DOMAIN queues \/ (p = id /\ idOf[k] = NoId)
         /\ idOf'[k] = id /\ \A j \in {7768, 6877} : j # k => idOf'[j] = idOf[j]
         /\ idOf[k] # NoId => id = idOf[k] /\ UNCHANGED <<queues, idOf>>
         /\ idOf[k] = NoId =>
              /\ id \notin DOMAIN queues
              /\ id \notin {ikcd.server_id, ikcd.client_id, csda.server_id, csda.client_id}
              /\ \A p \in DOMAIN queues : \A i \in 1 .. Len(queues[p]) : queues[p][i].client # id
              /\ \A p \in DOMAIN queues' : \A i \in 1 .. Len(queues'[p]) :
                   p # id /\ Old(p, queues'[p][i])
<1>1. queues \in [DOMAIN queues -> Seq(Message)] /\ idOf \in [{7768, 6877} -> AnyId]
  BY DEF BnTypeOK
<1>2. CASE idOf[k] # NoId
  BY <1>1, <1>2 DEF MsgGetCreate
<1>3. CASE idOf[k] = NoId
  <2>1. /\ id \in FreshIds
        /\ queues' = [q \in DOMAIN queues \cup {id} |-> IF q = id THEN <<>> ELSE queues[q]]
        /\ idOf' = [idOf EXCEPT ![k] = id]
    BY <1>3 DEF MsgGetCreate
  <2>2. id \notin Remembered
    BY <2>1 DEF FreshIds
  <2>3. /\ id \notin DOMAIN queues
        /\ id \notin {ikcd.server_id, ikcd.client_id, csda.server_id, csda.client_id}
    BY <2>2 DEF Remembered
  <2>4. ASSUME NEW p \in DOMAIN queues, NEW i \in 1 .. Len(queues[p])
        PROVE  queues[p][i].client # id
    <3>1. queues[p][i].client \in {queues[p][j].client : j \in 1 .. Len(queues[p])}
      BY <2>4
    <3>2. queues[p][i].client \in Remembered
      BY <2>4, <3>1 DEF Remembered
    <3>3. QED
      BY <2>2, <3>2
  <2>5. /\ DOMAIN queues' = DOMAIN queues \cup {id} /\ queues'[id] = <<>>
        /\ \A p \in DOMAIN queues : queues'[p] = queues[p]
    BY <2>1, <2>3
  <2>6. queues' \in [DOMAIN queues' -> Seq(Message)]
    BY <1>1, <2>1, <2>5
  <2>7. ASSUME NEW p \in DOMAIN queues', NEW i \in 1 .. Len(queues'[p])
        PROVE  p # id /\ Old(p, queues'[p][i])
    <3>1. p # id
      BY <2>5, <2>7
    <3>2. QED
      BY <2>5, <2>7, <3>1 DEF Old
  <2>8. idOf' \in [{7768, 6877} -> AnyId] /\ idOf'[k] = id
        /\ \A j \in {7768, 6877} : j # k => idOf'[j] = idOf[j]
    BY <1>1, <2>1 DEF AnyId
  <2>9. QED
    BY <1>3, <2>3, <2>4, <2>5, <2>6, <2>7, <2>8
<1>4. QED
  BY <1>2, <1>3

\* No queue has the identifier NoId; messages that were there before are those
\* of this call still.
LEMMA MentionsKept ==
  ASSUME Mentions, BnTypeOK, ikcd'.client_id = ikcd.client_id, calls' = calls,
         ikcd.client_id # NoId /\ ~leftOver' => ~leftOver,
         ikcd.client_id # NoId /\ ~leftOver' =>
           (csda'.client_id = ikcd.client_id => csda'.call = calls),
         ikcd.client_id # NoId /\ ~leftOver' =>
           \A p \in DOMAIN queues' : \A i \in 1 .. Len(queues'[p]) :
             Old(p, queues'[p][i]) \/ OfThisCall(p, queues'[p][i])
  PROVE  Mentions'
<1>1. SUFFICES ASSUME ikcd.client_id # NoId, ~leftOver',
                      NEW p \in DOMAIN queues', NEW i \in 1 .. Len(queues'[p])
               PROVE  OfThisCall(p, queues'[p][i])
  BY DEF Mentions, OfThisCall
<1>2. CASE Old(p, queues'[p][i])
  <2>1. PICK j \in 1 .. Len(queues[p]) : p \in DOMAIN queues /\ queues'[p][i] = queues[p][j]
    BY <1>2 DEF Old
  <2>2. OfThisCall(p, queues[p][j])
    BY <1>1, <2>1 DEF Mentions
  <2>3. QED
    BY <2>1, <2>2
<1>3. QED
  BY <1>1, <1>2

-------------------------------------------------------------------------------
(* Steps of the ikcd *)

\* A call goes on, no queue is touched.
LEMMA Moves ==
  ASSUME BnInv, ikcd.pc \in Within \ {"out"}, NEW to \in Within,
         ikcd' = [ikcd EXCEPT !.pc = to],
         UNCHANGED <<queues, idOf, csda, calls, leftOver, stray>>
  PROVE  BnInv'
<1>1. BnTypeOK' /\ ikcd'.client_id = ikcd.client_id /\ ikcd'.pc = to /\ ikcd'.resp = ikcd.resp
  <2>1. ikcd \in IkcdType /\ to \in Before \cup Within
    BY DEF BnInv, BnTypeOK
  <2>2. /\ ikcd' \in IkcdType /\ ikcd'.client_id = ikcd.client_id /\ ikcd'.pc = to
        /\ ikcd'.resp = ikcd.resp
    BY <2>1 DEF IkcdType
  <2>3. QED
    BY <2>2 DEF BnInv, BnTypeOK
<1>2. Keyed' /\ TwoQueues' /\ Listens'
  BY <1>1 DEF BnInv, Keyed, TwoQueues, Listens
<1>3. OneCall' /\ Answered'
  BY <1>1 DEF BnInv, OneCall, Answered, Before, Within
<1>4. Mentions'
  BY <1>1 DEF BnInv, Mentions, OfThisCall
<1>5. QED
  BY <1>1, <1>2, <1>3, <1>4 DEF BnInv

LEMMA NoIdIs == NoId \notin Ids /\ NoAnswer \in Nat /\ Within \cap Before = {}
BY BestNodeAssumption DEF NoAnswer, Within, Before

LEMMA GetServerStep ==
  ASSUME BnInv, GetServer
  PROVE  BnInv'
<1>1. /\ calls' = calls + 1 /\ UNCHANGED <<queues, idOf, leftOver, stray, csda>>
      /\ ikcd.pc = "idle"
      /\ \/ ikcd' = [ikcd EXCEPT !.pc = "get_client", !.server_id = idOf[7768]]
         \/ ikcd' = [ikcd EXCEPT !.pc = "unassigned"]
  BY DEF GetServer, Ikcd, csdaVars
<1>2. /\ BnTypeOK' /\ ikcd'.client_id = ikcd.client_id /\ ikcd'.resp = ikcd.resp
      /\ ikcd'.pc \in Before
  <2>1. BnTypeOK /\ ikcd \in IkcdType /\ idOf[7768] \in AnyId
    BY DEF BnInv, BnTypeOK
  <2>2. "get_client" \in Before /\ "unassigned" \in Before
    BY DEF Before
  <2>3. /\ ikcd' \in IkcdType /\ ikcd'.client_id = ikcd.client_id /\ ikcd'.resp = ikcd.resp
        /\ ikcd'.pc \in Before
    <3>1. CASE ikcd' = [ikcd EXCEPT !.pc = "get_client", !.server_id = idOf[7768]]
      <4>1. PICK a : a = [ikcd EXCEPT !.pc = "get_client"]
        OBVIOUS
      <4>2. /\ a \in IkcdType /\ a.pc = "get_client" /\ a.client_id = ikcd.client_id
            /\ a.resp = ikcd.resp
        BY <2>1, <2>2, <4>1 DEF IkcdType
      <4>3. ikcd' = [a EXCEPT !.server_id = idOf[7768]]
        BY <3>1, <4>1
      <4>4. QED
        BY <2>1, <2>2, <4>2, <4>3 DEF IkcdType
    <3>2. CASE ikcd' = [ikcd EXCEPT !.pc = "unassigned"]
      BY <2>1, <2>2, <3>2 DEF IkcdType
    <3>3. QED
      BY <1>1, <3>1, <3>2
  <2>4. QED
    BY <1>1, <2>1, <2>3 DEF BnTypeOK
<1>3. ikcd.client_id = NoId /\ ikcd.resp = NoAnswer
  BY <1>1 DEF BnInv, OneCall, Before
<1>4. Keyed' /\ TwoQueues' /\ Listens' /\ OneCall' /\ Answered' /\ Mentions'
  BY <1>1, <1>2, <1>3 DEF BnInv, Keyed, TwoQueues, Listens, OneCall, Answered, Mentions
<1>5. QED
  BY <1>2, <1>4 DEF BnInv

\* The call ends: its queue, if it has one, is removed.
LEMMA EndStep ==
  ASSUME BnInv, NEW id \in AnyId, Rmid(id), ikcd' = NotCalling,
         UNCHANGED <<calls, csda>>,
         id # NoId => stray' \/ ((stray => stray') /\ id = ikcd.client_id),
         id = NoId => (stray => stray'),
         leftOver' <=> (leftOver /\ ikcd.client_id = NoId),
         ikcd.client_id # NoId => id = ikcd.client_id
  PROVE  BnInv'
<1>1. BnTypeOK /\ Keyed /\ TwoQueues /\ OneCall /\ Listens
  BY DEF BnInv
<1>2. /\ \A p : p \in DOMAIN queues' <=> p \in DOMAIN queues /\ p # id
      /\ queues' \in [DOMAIN queues' -> Seq(Message)]
      /\ idOf' \in [{7768, 6877} -> AnyId]
      /\ \A k \in {7768, 6877} : idOf'[k] = IF idOf[k] = id THEN NoId ELSE idOf[k]
  BY <1>1, RmidIs
<1>3. /\ ikcd'.client_id = NoId /\ ikcd'.pc = "idle" /\ ikcd'.resp = NoAnswer
      /\ ikcd' \in IkcdType
  BY NoIdIs DEF NotCalling, IkcdType, Before, AnyId
<1>4. BnTypeOK'
  BY <1>1, <1>2, <1>3 DEF BnTypeOK
<1>5. Keyed' /\ TwoQueues' /\ Mentions' /\ Answered'
  BY <1>1, <1>2, <1>3 DEF Keyed, TwoQueues, Mentions, Answered
<1>6. OneCall'
  <2>1. ~leftOver' => idOf'[6877] = NoId
    BY <1>1, <1>2 DEF OneCall
  <2>2. QED
    BY <1>3, <2>1 DEF OneCall
<1>7. Listens'
  <2>1. CASE id = NoId
    BY <1>1, <1>2, <2>1, NoIdIs DEF BnTypeOK, Listens
  <2>2. CASE id # NoId /\ stray'
    BY <2>2 DEF Listens
  <2>3. CASE id # NoId /\ (stray => stray') /\ id = ikcd.client_id
    BY <1>1, <1>2, <2>3 DEF TwoQueues, Listens
  <2>4. QED
    BY <2>1, <2>2, <2>3
<1>8. QED
  BY <1>4, <1>5, <1>6, <1>7 DEF BnInv

LEMMA RmidUnassignedStep ==
  ASSUME BnInv, RmidUnassigned
  PROVE  BnInv'
<1>1. ikcd.pc = "unassigned" /\ ikcd' = NotCalling /\ UNCHANGED <<calls, csda>>
      /\ leftOver' = leftOver
  BY DEF RmidUnassigned, Ikcd, csdaVars
<1>2. PICK q \in DOMAIN queues \cup {NoId} : Rmid(q) /\ stray' = (stray \/ q # NoId)
  BY DEF RmidUnassigned
<1>3. q \in AnyId
  BY <1>2 DEF BnInv, BnTypeOK, AnyId
<1>4. ikcd.client_id = NoId
  BY <1>1 DEF BnInv, OneCall, Before
<1>5. (q # NoId => stray') /\ (stray => stray')
  BY <1>2, Zenon
<1>6. leftOver' <=> (leftOver /\ ikcd.client_id = NoId)
  BY <1>1, <1>4, Zenon
<1>7. QED
  BY <1>1, <1>2, <1>3, <1>4, <1>5, <1>6, EndStep

LEMMA OutStep ==
  ASSUME BnInv, Out
  PROVE  BnInv'
<1>1. /\ ikcd' = NotCalling /\ Rmid(ikcd.client_id) /\ UNCHANGED <<calls, csda, stray>>
      /\ leftOver' = (leftOver /\ ikcd.client_id = NoId)
  BY DEF Out, Ikcd, csdaVars
<1>2. ikcd.client_id \in AnyId
  BY DEF BnInv, BnTypeOK, IkcdType
<1>3. (leftOver' <=> (leftOver /\ ikcd.client_id = NoId)) /\ (stray => stray')
  BY <1>1, Zenon
<1>4. PICK id \in AnyId : id = ikcd.client_id
  BY <1>2
<1>5. Rmid(id)
  BY <1>1, <1>4
<1>6. QED
  BY <1>1, <1>3, <1>4, <1>5, EndStep

LEMMA GetClientStep ==
  ASSUME BnInv, GetClient
  PROVE  BnInv'
<1>1. ikcd.pc = "get_client" /\ UNCHANGED <<calls, leftOver, stray, csda>>
  <2>1. UNCHANGED <<calls, leftOver, stray, csda>>
    BY DEF GetClient, csdaVars
  <2>2. ikcd.pc = "get_client"
    <3>1. ASSUME NEW q \in Ids, GotClient(q) PROVE ikcd.pc = "get_client"
      BY <3>1 DEF GotClient, Ikcd
    <3>2. QED
      BY <3>1 DEF GetClient, Ikcd
  <2>3. QED
    BY <2>1, <2>2
<1>2. ikcd.client_id = NoId /\ ikcd.resp = NoAnswer
  BY <1>1 DEF BnInv, OneCall, Before
<1>3. CASE ikcd' = [ikcd EXCEPT !.pc = "out", !.client_id = NoId] /\ UNCHANGED <<queues, idOf>>
  <2>1. /\ BnTypeOK' /\ ikcd'.client_id = NoId /\ ikcd'.pc = "out" /\ ikcd'.resp = ikcd.resp
    <3>1. BnTypeOK /\ ikcd \in IkcdType /\ NoId \in AnyId /\ "out" \in Before \cup Within
      BY DEF BnInv, BnTypeOK, AnyId, Within
    <3>2. /\ ikcd' \in IkcdType /\ ikcd'.client_id = NoId /\ ikcd'.pc = "out"
          /\ ikcd'.resp = ikcd.resp
      BY <1>3, <3>1 DEF IkcdType
    <3>3. QED
      BY <1>1, <1>3, <3>1, <3>2 DEF BnTypeOK
  <2>2. Keyed' /\ TwoQueues' /\ Listens' /\ OneCall' /\ Answered' /\ Mentions'
    BY <1>1, <1>2, <1>3, <2>1
       DEF BnInv, Keyed, TwoQueues, Listens, OneCall, Answered, Mentions, Before
  <2>3. QED
    BY <2>1, <2>2 DEF BnInv
<1>4. ASSUME NEW q \in Ids, GotClient(q) PROVE BnInv'
  <2>0. MsgGetCreate(6877, q) /\ ikcd' = [ikcd EXCEPT !.pc = "send", !.client_id = q]
    BY <1>4 DEF GotClient, Ikcd
  <2>1. BnTypeOK /\ Keyed /\ TwoQueues /\ OneCall /\ Mentions /\ Answered /\ Listens
    BY DEF BnInv
  <2>2. /\ queues' \in [DOMAIN queues' -> Seq(Message)] /\ idOf' \in [{7768, 6877} -> AnyId]
        /\ \A p : p \in DOMAIN queues' <=> p \in DOMAIN queues \/ (p = q /\ idOf[6877] = NoId)
        /\ idOf'[6877] = q /\ idOf'[7768] = idOf[7768]
        /\ idOf[6877] # NoId => q = idOf[6877] /\ UNCHANGED <<queues, idOf>>
        /\ idOf[6877] = NoId =>
             /\ q \notin DOMAIN queues
             /\ q \notin {ikcd.server_id, ikcd.client_id, csda.server_id, csda.client_id}
             /\ \A p \in DOMAIN queues : \A i \in 1 .. Len(queues[p]) : queues[p][i].client # q
             /\ \A p \in DOMAIN queues' : \A i \in 1 .. Len(queues'[p]) :
                  p # q /\ Old(p, queues'[p][i])
    <3>1. MsgGetCreate(6877, q)
      BY <2>0
    <3>2. QED
      BY <2>1, <3>1, MsgGetCreateIs
  <2>3. ikcd'.client_id = q /\ ikcd'.pc = "send" /\ ikcd'.resp = NoAnswer
        /\ ikcd' \in IkcdType
    <3>1. ikcd \in IkcdType /\ q \in AnyId /\ "send" \in Before \cup Within
      BY <1>4, <2>1 DEF BnTypeOK, AnyId, Within
    <3>2. QED
      <4>1. PICK a : a = [ikcd EXCEPT !.pc = "send"]
        OBVIOUS
      <4>2. a \in IkcdType /\ a.pc = "send" /\ a.resp = NoAnswer
        BY <1>2, <3>1, <4>1 DEF IkcdType
      <4>3. ikcd' = [a EXCEPT !.client_id = q]
        BY <2>0, <4>1
      <4>4. QED
        BY <3>1, <4>2, <4>3 DEF IkcdType
  <2>4. BnTypeOK'
    BY <1>1, <2>1, <2>2, <2>3 DEF BnTypeOK
  <2>5. q # NoId /\ idOf[7768] # q
    BY <1>4, <2>1, <2>2, NoIdIs DEF Keyed
  <2>6. Keyed' /\ TwoQueues'
    BY <1>1, <2>1, <2>2, <2>3, <2>5 DEF Keyed, TwoQueues
  <2>7. OneCall' /\ Answered' /\ Listens'
    BY <1>1, <2>1, <2>2, <2>3, <2>5 DEF OneCall, Answered, Listens, Before
  <2>8. Mentions'
    <3>1. SUFFICES ASSUME ~leftOver' PROVE Mentions'
      BY DEF Mentions
    <3>2. idOf[6877] = NoId
      BY <1>1, <1>2, <2>1, <3>1 DEF OneCall
    <3>3. ASSUME NEW p \in DOMAIN queues', NEW i \in 1 .. Len(queues'[p])
          PROVE  p # q /\ queues'[p][i].client # q
      <4>1. p # q /\ Old(p, queues'[p][i])
        BY <2>2, <3>2, <3>3
      <4>2. QED
        BY <2>2, <3>2, <4>1 DEF Old
    <3>4. QED
      BY <1>1, <2>2, <2>3, <3>2, <3>3 DEF Mentions, OfThisCall
  <2>9. QED
    BY <2>4, <2>6, <2>7, <2>8 DEF BnInv
<1>5. CASE /\ Ikcd("get_client", [ikcd EXCEPT !.pc = "out", !.client_id = NoId])
           /\ UNCHANGED <<queues, idOf>>
  BY <1>3, <1>5 DEF Ikcd
<1>6. QED
  BY <1>4, <1>5 DEF GetClient

LEMMA SendStep ==
  ASSUME BnInv, Send
  PROVE  BnInv'
<1>1. UNCHANGED <<idOf, csda, calls, leftOver, stray>> /\ ikcd.pc \in {"send", "sending"}
  BY DEF Send, csdaVars
<1>2. ikcd.pc \in Within \ {"out"} /\ "out" \in Within /\ "sending" \in Within /\ "alarm" \in Within
  BY <1>1 DEF Within
<1>3. CASE ikcd' = [ikcd EXCEPT !.pc = "out"] /\ UNCHANGED queues
  BY <1>1, <1>2, <1>3, Moves
<1>4. CASE ikcd' = [ikcd EXCEPT !.pc = "sending"] /\ UNCHANGED queues
  BY <1>1, <1>2, <1>4, Moves
<1>5. CASE /\ ikcd.server_id \in DOMAIN queues /\ ikcd' = [ikcd EXCEPT !.pc = "alarm"]
           /\ MsgSnd(ikcd.server_id, [client |-> ikcd.client_id, call |-> calls])
  <2>1. BnTypeOK /\ Keyed /\ TwoQueues /\ OneCall /\ Mentions /\ Answered /\ Listens
    BY DEF BnInv
  <2>2. PICK q \in DOMAIN queues, m \in Message :
          q = ikcd.server_id /\ m = [client |-> ikcd.client_id, call |-> calls]
    BY <1>5, <2>1 DEF BnTypeOK, IkcdType, Message
  <2>3. MsgSnd(q, m) /\ m.call = calls
    BY <1>5, <2>2
  <2>4. /\ DOMAIN queues' = DOMAIN queues /\ queues' \in [DOMAIN queues -> Seq(Message)]
        /\ \A p \in DOMAIN queues : \A i \in 1 .. Len(queues'[p]) :
             Old(p, queues'[p][i]) \/ (p = q /\ queues'[p][i] = m)
    BY <2>1, <2>3, MsgSndIs
  <2>5. ikcd' \in IkcdType /\ ikcd'.client_id = ikcd.client_id /\ ikcd'.pc = "alarm"
        /\ ikcd'.resp = ikcd.resp
    <3>1. ikcd \in IkcdType
      BY <2>1 DEF BnTypeOK
    <3>2. QED
      BY <1>2, <1>5, <3>1 DEF IkcdType
  <2>6. BnTypeOK'
    BY <1>1, <2>1, <2>4, <2>5 DEF BnTypeOK
  <2>7. Keyed' /\ TwoQueues' /\ Listens' /\ OneCall'
    BY <1>1, <2>1, <2>4, <2>5 DEF Keyed, TwoQueues, Listens, OneCall, Before
  <2>8. Answered'
    BY <1>1, <2>1, <2>5 DEF Answered
  <2>9. Mentions'
    <3>1. \A p \in DOMAIN queues' : \A i \in 1 .. Len(queues'[p]) :
            Old(p, queues'[p][i]) \/ OfThisCall(p, queues'[p][i])
      BY <2>3, <2>4 DEF OfThisCall
    <3>2. ikcd.client_id # NoId /\ ~leftOver' =>
            ~leftOver /\ (csda'.client_id = ikcd.client_id => csda'.call = calls)
      BY <1>1, <2>1 DEF Mentions
    <3>3. QED
      BY <1>1, <2>1, <2>5, <3>1, <3>2, MentionsKept
  <2>10. QED
    BY <2>6, <2>7, <2>8, <2>9 DEF BnInv
<1>6. QED
  BY <1>3, <1>4, <1>5 DEF Send, Ikcd, Exists

LEMMA SetAlarmStep ==
  ASSUME BnInv, SetAlarm
  PROVE  BnInv'
<1>1. /\ ikcd.pc = "alarm" /\ ikcd' = [ikcd EXCEPT !.pc = "receive"]
      /\ UNCHANGED <<queues, idOf, csda, calls, leftOver, stray>>
  BY DEF SetAlarm, Ikcd, csdaVars
<1>2. ikcd.pc \in Within \ {"out"} /\ "receive" \in Within
  BY <1>1 DEF Within
<1>3. QED
  BY <1>1, <1>2, Moves

\* What it finds in its queue is the answer to this call.
LEMMA ReceiveStep ==
  ASSUME BnInv, Receive
  PROVE  BnInv'
<1>1. UNCHANGED <<idOf, csda, calls, leftOver, stray>> /\ ikcd.pc \in {"receive", "receiving"}
  BY DEF Receive, csdaVars
<1>2. ikcd.pc \in Within \ {"out"} /\ "out" \in Within /\ "receiving" \in Within
  BY <1>1 DEF Within
<1>3. CASE ikcd' = [ikcd EXCEPT !.pc = "out"] /\ UNCHANGED queues
  BY <1>1, <1>2, <1>3, Moves
<1>4. CASE ikcd' = [ikcd EXCEPT !.pc = "receiving"] /\ UNCHANGED queues
  BY <1>1, <1>2, <1>4, Moves
<1>5. CASE /\ ikcd.client_id \in DOMAIN queues /\ queues[ikcd.client_id] # <<>>
           /\ ikcd' = [ikcd EXCEPT !.pc = "out", !.resp = Head(queues[ikcd.client_id]).call]
           /\ MsgRcv(ikcd.client_id)
  <2>1. BnTypeOK /\ Keyed /\ TwoQueues /\ OneCall /\ Mentions /\ Answered /\ Listens
    BY DEF BnInv
  <2>2. PICK q \in DOMAIN queues : q = ikcd.client_id /\ queues[q] # <<>> /\ MsgRcv(q)
    BY <1>5
  <2>3. PICK m : m = Head(queues[q])
    OBVIOUS
  <2>4. /\ DOMAIN queues' = DOMAIN queues /\ queues' \in [DOMAIN queues -> Seq(Message)]
        /\ m \in Message /\ Old(q, m)
        /\ \A p \in DOMAIN queues : \A i \in 1 .. Len(queues'[p]) : Old(p, queues'[p][i])
    BY <2>1, <2>2, <2>3, MsgRcvIs
  <2>5. ikcd' \in IkcdType /\ ikcd'.client_id = ikcd.client_id /\ ikcd'.pc = "out"
        /\ ikcd'.resp = m.call
    <3>1. ikcd \in IkcdType /\ m.call \in Nat
      BY <2>1, <2>4 DEF BnTypeOK, Message
    <3>2. PICK a : a = [ikcd EXCEPT !.pc = "out"]
      OBVIOUS
    <3>3. a \in IkcdType /\ a.pc = "out" /\ a.client_id = ikcd.client_id
      BY <1>2, <3>1, <3>2 DEF IkcdType
    <3>4. ikcd' = [a EXCEPT !.resp = m.call]
      BY <1>5, <2>2, <2>3, <3>2
    <3>5. QED
      BY <3>1, <3>3, <3>4 DEF IkcdType
  <2>6. BnTypeOK'
    BY <1>1, <2>1, <2>4, <2>5 DEF BnTypeOK
  <2>7. Keyed' /\ TwoQueues' /\ Listens' /\ OneCall'
    BY <1>1, <2>1, <2>4, <2>5 DEF Keyed, TwoQueues, Listens, OneCall, Before
  <2>8. Answered'
    <3>1. q # NoId
      BY <2>1, NoIdIs DEF BnTypeOK
    <3>2. ~leftOver => m.call = calls
      BY <2>1, <2>2, <2>4, <3>1 DEF Mentions, OfThisCall, Old
    <3>3. leftOver => leftOver'
      BY <1>1
    <3>4. QED
      BY <1>1, <2>5, <3>2, <3>3 DEF Answered
  <2>9. Mentions'
    <3>1. ikcd.client_id # NoId /\ ~leftOver' =>
            ~leftOver /\ (csda'.client_id = ikcd.client_id => csda'.call = calls)
      BY <1>1, <2>1 DEF Mentions
    <3>2. QED
      BY <1>1, <2>1, <2>4, <2>5, <3>1, MentionsKept
  <2>10. QED
    BY <2>6, <2>7, <2>8, <2>9 DEF BnInv
<1>6. QED
  BY <1>3, <1>4, <1>5 DEF Receive, Ikcd, Exists

\* A signal, the alarm or SIGTERM.
LEMMA SignalSteps ==
  ASSUME BnInv, OnSigalrm \/ OnSigterm
  PROVE  BnInv'
<1>1. Interrupt /\ UNCHANGED <<queues, idOf, csda, calls, leftOver, stray>>
  BY DEF OnSigalrm, OnSigterm, csdaVars
<1>2. CASE ikcd.pc \in {"sending", "receiving"} /\ ikcd' = [ikcd EXCEPT !.pc = "out"]
  <2>1. ikcd.pc \in Within \ {"out"} /\ "out" \in Within
    BY <1>2 DEF Within
  <2>2. QED
    BY <1>1, <1>2, <2>1, Moves
<1>3. CASE UNCHANGED ikcd
  BY <1>1, <1>3 DEF BnInv, BnTypeOK, Keyed, TwoQueues, OneCall, Mentions, Answered, Listens, OfThisCall
<1>4. QED
  BY <1>1, <1>2, <1>3 DEF Interrupt, Ikcd

LEMMA IkcdDiesStep ==
  ASSUME BnInv, IkcdDies
  PROVE  BnInv'
<1>1. /\ ikcd' = NotCalling /\ leftOver' = (leftOver \/ idOf[6877] # NoId)
      /\ UNCHANGED <<queues, idOf, csda, calls, stray>>
  BY DEF IkcdDies, csdaVars
<1>2. /\ ikcd'.client_id = NoId /\ ikcd'.pc = "idle" /\ ikcd'.resp = NoAnswer
      /\ ikcd' \in IkcdType
  BY <1>1, NoIdIs DEF NotCalling, IkcdType, Before, AnyId
<1>3. ~leftOver' => idOf[6877] = NoId
  <2>1. PICK c : c = idOf[6877]
    OBVIOUS
  <2>2. leftOver' = (leftOver \/ c # NoId)
    BY <1>1, <2>1
  <2>3. c # NoId => leftOver'
    BY <2>2, Zenon
  <2>4. QED
    BY <2>1, <2>3
<1>4. BnTypeOK' /\ Keyed' /\ TwoQueues'
  <2>1. BnTypeOK /\ Keyed /\ TwoQueues /\ UNCHANGED <<queues, idOf, csda, calls>>
    BY <1>1 DEF BnInv
  <2>2. QED
    BY <1>2, <2>1 DEF BnTypeOK, Keyed, TwoQueues
<1>5. OneCall' /\ Mentions' /\ Answered'
  BY <1>1, <1>2, <1>3 DEF OneCall, Mentions, Answered
<1>6. Listens'
  <2>1. Listens
    BY DEF BnInv
  <2>2. UNCHANGED <<queues, idOf, csda, stray>>
    BY <1>1
  <2>3. QED
    BY <2>1, <2>2 DEF Listens
<1>7. QED
  BY <1>4, <1>5, <1>6 DEF BnInv

-------------------------------------------------------------------------------
(* Steps of the server *)

\* What a step of the server leaves alone, and what is left to show of it.
LEMMA ServerFrame ==
  ASSUME BnInv, UNCHANGED ikcdVars, DOMAIN queues' \subseteq Ids,
         queues' \in [DOMAIN queues' -> Seq(Message)], idOf' \in [{7768, 6877} -> AnyId],
         csda' \in CsdaType, idOf'[6877] = idOf[6877],
         ikcd.client_id # NoId => ikcd.client_id # idOf'[7768],
         csda'.server_id # NoId => csda'.server_id \notin {idOf[6877], ikcd.client_id},
         Keyed', Mentions', Listens'
  PROVE  BnInv'
<1>1. UNCHANGED <<ikcd, calls, leftOver, stray>>
  BY DEF ikcdVars
<1>2. BnTypeOK' /\ TwoQueues'
  BY <1>1 DEF BnInv, BnTypeOK, TwoQueues
<1>3. OneCall' /\ Answered'
  BY <1>1 DEF BnInv, OneCall, Answered
<1>4. QED
  BY <1>2, <1>3 DEF BnInv

LEMMA ServerStartStep ==
  ASSUME BnInv, ServerStart
  PROVE  BnInv'
<1>1. PICK q \in Ids : GotServer(q)
  BY DEF ServerStart
<1>2. UNCHANGED ikcdVars /\ UNCHANGED <<ikcd, calls, leftOver, stray>>
  BY DEF ServerStart, ikcdVars
<1>3. MsgGetCreate(7768, q) /\ csda' = [csda EXCEPT !.pc = "rcv", !.server_id = q]
  BY <1>1 DEF GotServer, Csda
<1>4. BnTypeOK /\ Keyed /\ TwoQueues /\ OneCall /\ Mentions
  BY DEF BnInv
<1>5. /\ queues' \in [DOMAIN queues' -> Seq(Message)] /\ idOf' \in [{7768, 6877} -> AnyId]
      /\ \A p : p \in DOMAIN queues' <=> p \in DOMAIN queues \/ (p = q /\ idOf[7768] = NoId)
      /\ idOf'[7768] = q /\ idOf'[6877] = idOf[6877]
      /\ idOf[7768] # NoId => q = idOf[7768] /\ UNCHANGED <<queues, idOf>>
      /\ idOf[7768] = NoId =>
           /\ q \notin DOMAIN queues
           /\ q # ikcd.client_id
           /\ \A p \in DOMAIN queues' : \A i \in 1 .. Len(queues'[p]) : Old(p, queues'[p][i])
  <2>1. MsgGetCreate(7768, q)
    BY <1>3
  <2>2. QED
    BY <1>4, <2>1, MsgGetCreateIs
<1>6. /\ csda' \in CsdaType /\ csda'.server_id = q /\ csda'.client_id = csda.client_id
      /\ csda'.call = csda.call
  <2>1. csda \in CsdaType /\ q \in AnyId
    BY <1>4 DEF BnTypeOK, AnyId
  <2>2. PICK a : a = [csda EXCEPT !.pc = "rcv"]
    OBVIOUS
  <2>3. /\ a \in CsdaType /\ a.client_id = csda.client_id /\ a.call = csda.call
    BY <2>1, <2>2 DEF CsdaType
  <2>4. csda' = [a EXCEPT !.server_id = q]
    BY <1>3, <2>2
  <2>5. QED
    BY <2>1, <2>3, <2>4 DEF CsdaType
<1>7. q # NoId /\ q \in DOMAIN queues'
  BY <1>4, <1>5, NoIdIs DEF Keyed
<1>8. q # idOf[6877] /\ q # ikcd.client_id
  <2>1. CASE idOf[7768] # NoId
    BY <1>4, <1>5, <2>1, <1>7 DEF Keyed, TwoQueues
  <2>2. CASE idOf[7768] = NoId
    BY <1>4, <1>5, <2>2, <1>7 DEF Keyed
  <2>3. QED
    BY <2>1, <2>2
<1>9. Keyed' /\ Listens'
  BY <1>4, <1>5, <1>6, <1>7, <1>8 DEF Keyed, Listens
<1>10. \A p \in DOMAIN queues' : \A i \in 1 .. Len(queues'[p]) : Old(p, queues'[p][i])
  BY <1>5 DEF Old
<1>11. Mentions'
  <2>1. ikcd.client_id # NoId /\ ~leftOver' =>
          ~leftOver /\ (csda'.client_id = ikcd.client_id => csda'.call = calls)
    BY <1>2, <1>4, <1>6 DEF Mentions
  <2>2. QED
    BY <1>2, <1>4, <1>10, <2>1, MentionsKept
<1>12. DOMAIN queues' \subseteq Ids
  BY <1>1, <1>4, <1>5 DEF BnTypeOK
<1>13. QED
  BY <1>2, <1>5, <1>6, <1>8, <1>9, <1>11, <1>12, ServerFrame

LEMMA ServerReceiveStep ==
  ASSUME BnInv, ServerReceive
  PROVE  BnInv'
<1>1. /\ csda.server_id \in DOMAIN queues /\ queues[csda.server_id] # <<>>
      /\ MsgRcv(csda.server_id) /\ csda.pc = "rcv"
      /\ UNCHANGED <<idOf, ikcdVars>> /\ UNCHANGED <<ikcd, calls, leftOver, stray>>
  BY DEF ServerReceive, Exists, ikcdVars, Csda
<1>2. PICK m : m = Head(queues[csda.server_id])
  OBVIOUS
<1>3. csda' = [csda EXCEPT !.pc = "find", !.client_id = m.client, !.call = m.call]
  BY <1>2 DEF ServerReceive, Csda
<1>4. BnTypeOK /\ Keyed /\ TwoQueues /\ Mentions /\ Listens
  BY DEF BnInv
<1>5. PICK q \in DOMAIN queues : q = csda.server_id
  BY <1>1
<1>6. /\ DOMAIN queues' = DOMAIN queues /\ queues' \in [DOMAIN queues -> Seq(Message)]
      /\ m \in Message /\ Old(q, m)
      /\ \A p \in DOMAIN queues : \A i \in 1 .. Len(queues'[p]) : Old(p, queues'[p][i])
  <2>1. queues[q] # <<>> /\ MsgRcv(q) /\ m = Head(queues[q])
    BY <1>1, <1>2, <1>5
  <2>2. QED
    BY <1>4, <2>1, MsgRcvIs
<1>7. /\ csda' \in CsdaType /\ csda'.pc = "find" /\ csda'.server_id = csda.server_id
      /\ csda'.client_id = m.client /\ csda'.call = m.call
  <2>1. csda \in CsdaType /\ m.client \in AnyId /\ m.call \in Nat
    BY <1>4, <1>6 DEF BnTypeOK, Message
  <2>2. PICK a : a = [csda EXCEPT !.pc = "find", !.client_id = m.client]
    OBVIOUS
  <2>3. /\ a \in CsdaType /\ a.pc = "find" /\ a.server_id = csda.server_id
        /\ a.client_id = m.client
    BY <2>1, <2>2 DEF CsdaType
  <2>4. csda' = [a EXCEPT !.call = m.call]
    BY <1>3, <2>2
  <2>5. QED
    BY <2>1, <2>3, <2>4 DEF CsdaType
<1>8. Keyed' /\ Listens'
  BY <1>1, <1>4, <1>6, <1>7 DEF Keyed, Listens
<1>9. ~leftOver /\ ikcd.client_id # NoId /\ m.client = ikcd.client_id => m.call = calls
  BY <1>4, <1>6 DEF Mentions, Old, OfThisCall
<1>10. Mentions'
  <2>1. ikcd.client_id # NoId /\ ~leftOver' =>
          ~leftOver /\ (csda'.client_id = ikcd.client_id => csda'.call = calls)
    BY <1>1, <1>7, <1>9
  <2>2. QED
    BY <1>1, <1>4, <1>6, <2>1, MentionsKept
<1>11. DOMAIN queues' \subseteq Ids /\ queues' \in [DOMAIN queues' -> Seq(Message)]
       /\ idOf' \in [{7768, 6877} -> AnyId] /\ idOf'[6877] = idOf[6877]
  BY <1>1, <1>4, <1>6 DEF BnTypeOK
<1>12. /\ ikcd.client_id # NoId => ikcd.client_id # idOf'[7768]
       /\ csda'.server_id # NoId => csda'.server_id \notin {idOf[6877], ikcd.client_id}
  BY <1>1, <1>4, <1>7 DEF TwoQueues
<1>13. QED
  BY <1>1, <1>7, <1>8, <1>10, <1>11, <1>12, ServerFrame

\* The server goes on, no queue is touched.
LEMMA ServerMoves ==
  ASSUME BnInv, UNCHANGED <<queues, idOf, ikcdVars>>, csda' \in CsdaType,
         csda'.server_id = csda.server_id \/ csda'.server_id = NoId,
         (csda'.client_id = csda.client_id /\ csda'.call = csda.call) \/ csda'.client_id = NoId,
         csda'.pc \in {"start", "down"} \/
           (csda.pc \in {"rcv", "find", "reply", "check"} /\ csda'.server_id = csda.server_id)
  PROVE  BnInv'
<1>1. UNCHANGED <<queues, idOf, ikcd, calls, leftOver, stray>>
  BY DEF ikcdVars
<1>2. BnTypeOK /\ Keyed /\ TwoQueues /\ OneCall /\ Mentions /\ Answered /\ Listens
  BY DEF BnInv
<1>3. BnTypeOK' /\ Keyed' /\ TwoQueues' /\ OneCall' /\ Answered'
  BY <1>1, <1>2 DEF BnTypeOK, Keyed, TwoQueues, OneCall, Answered
<1>4. Mentions'
  BY <1>1, <1>2 DEF Mentions, OfThisCall
<1>5. Listens'
  BY <1>1, <1>2 DEF Listens
<1>6. QED
  BY <1>3, <1>4, <1>5 DEF BnInv

LEMMA ServerFoundStep ==
  ASSUME BnInv, ServerFound
  PROVE  BnInv'
<1>1. /\ csda.pc = "find" /\ csda' = [csda EXCEPT !.pc = "reply"]
      /\ UNCHANGED <<queues, idOf, ikcdVars>>
  BY DEF ServerFound, Csda
<1>2. csda \in CsdaType
  BY DEF BnInv, BnTypeOK
<1>3. /\ csda' \in CsdaType /\ csda'.server_id = csda.server_id
      /\ csda'.client_id = csda.client_id /\ csda'.call = csda.call
  BY <1>1, <1>2 DEF CsdaType
<1>4. QED
  BY <1>1, <1>3, ServerMoves

LEMMA ServerReplyStep ==
  ASSUME BnInv, ServerReply
  PROVE  BnInv'
<1>1. /\ csda.pc = "reply" /\ UNCHANGED <<idOf, ikcdVars>>
      /\ UNCHANGED <<ikcd, calls, leftOver, stray>>
      /\ csda' = [csda EXCEPT !.pc = "check", !.client_id = NoId, !.call = NoAnswer]
  BY DEF ServerReply, Csda, ikcdVars
<1>2. BnTypeOK /\ Keyed /\ TwoQueues /\ Mentions /\ Listens /\ csda \in CsdaType
  BY DEF BnInv, BnTypeOK
<1>3. /\ csda' \in CsdaType /\ csda'.pc = "check" /\ csda'.server_id = csda.server_id
      /\ csda'.client_id = NoId
  <2>1. PICK a : a = [csda EXCEPT !.pc = "check", !.client_id = NoId]
    OBVIOUS
  <2>2. /\ a \in CsdaType /\ a.pc = "check" /\ a.server_id = csda.server_id
        /\ a.client_id = NoId
    BY <1>2, <2>1 DEF CsdaType, AnyId
  <2>3. csda' = [a EXCEPT !.call = NoAnswer]
    BY <1>1, <2>1
  <2>4. QED
    BY <2>2, <2>3, NoIdIs DEF CsdaType
<1>4. CASE UNCHANGED queues
  BY <1>1, <1>3, <1>4, ServerMoves
<1>5. CASE /\ csda.client_id \in DOMAIN queues
           /\ MsgSnd(csda.client_id, [client |-> NoId, call |-> csda.call])
  <2>1. PICK q \in DOMAIN queues : q = csda.client_id
    BY <1>5
  <2>2. PICK m : m = [client |-> NoId, call |-> csda.call]
    OBVIOUS
  <2>3. m \in Message /\ m.client = NoId /\ m.call = csda.call
    BY <1>2, <2>2 DEF Message, CsdaType, AnyId
  <2>4. /\ DOMAIN queues' = DOMAIN queues /\ queues' \in [DOMAIN queues -> Seq(Message)]
        /\ \A p \in DOMAIN queues : \A i \in 1 .. Len(queues'[p]) :
             Old(p, queues'[p][i]) \/ (p = q /\ queues'[p][i] = m)
    <3>1. MsgSnd(q, m)
      BY <1>5, <2>1, <2>2
    <3>2. QED
      BY <1>2, <2>3, <3>1, MsgSndIs
  <2>5. Keyed' /\ Listens'
    BY <1>1, <1>2, <1>3, <2>4 DEF Keyed, Listens
  <2>6. ikcd.client_id # NoId /\ ~leftOver' => ~leftOver /\ OfThisCall(q, m)
    BY <1>1, <1>2, <2>1, <2>3 DEF Mentions, OfThisCall
  <2>7. Mentions'
    <3>1. ikcd.client_id # NoId /\ ~leftOver' =>
            \A p \in DOMAIN queues' : \A i \in 1 .. Len(queues'[p]) :
              Old(p, queues'[p][i]) \/ OfThisCall(p, queues'[p][i])
      BY <2>4, <2>6
    <3>2. QED
      BY <1>1, <1>2, <1>3, <2>6, <3>1, MentionsKept
  <2>8. DOMAIN queues' \subseteq Ids /\ queues' \in [DOMAIN queues' -> Seq(Message)]
        /\ idOf' \in [{7768, 6877} -> AnyId] /\ idOf'[6877] = idOf[6877]
    BY <1>1, <1>2, <2>4 DEF BnTypeOK
  <2>9. /\ ikcd.client_id # NoId => ikcd.client_id # idOf'[7768]
        /\ csda'.server_id # NoId => csda'.server_id \notin {idOf[6877], ikcd.client_id}
    BY <1>1, <1>2, <1>3 DEF TwoQueues
  <2>10. QED
    BY <1>1, <1>3, <2>5, <2>7, <2>8, <2>9, ServerFrame
<1>6. QED
  BY <1>4, <1>5 DEF ServerReply, Exists

LEMMA ServerCheckStep ==
  ASSUME BnInv, ServerCheck
  PROVE  BnInv'
<1>1. csda.pc = "check" /\ UNCHANGED ikcdVars /\ UNCHANGED <<ikcd, calls, leftOver, stray>>
  BY DEF ServerCheck, Csda, ikcdVars
<1>2. BnTypeOK /\ Keyed /\ TwoQueues /\ Mentions /\ csda \in CsdaType
  BY DEF BnInv, BnTypeOK
<1>3. CASE csda' = [csda EXCEPT !.pc = "rcv"] /\ UNCHANGED <<queues, idOf>>
  <2>1. /\ csda' \in CsdaType /\ csda'.server_id = csda.server_id
        /\ csda'.client_id = csda.client_id /\ csda'.call = csda.call
    BY <1>2, <1>3 DEF CsdaType
  <2>2. QED
    BY <1>1, <1>3, <2>1, ServerMoves
<1>4. CASE csda' = [csda EXCEPT !.pc = "down", !.server_id = NoId] /\ Rmid(csda.server_id)
  <2>1. /\ csda' \in CsdaType /\ csda'.pc = "down" /\ csda'.server_id = NoId
        /\ csda'.client_id = csda.client_id /\ csda'.call = csda.call
    <3>1. PICK a : a = [csda EXCEPT !.pc = "down"]
      OBVIOUS
    <3>2. /\ a \in CsdaType /\ a.pc = "down" /\ a.client_id = csda.client_id
          /\ a.call = csda.call
      BY <1>2, <3>1 DEF CsdaType
    <3>3. csda' = [a EXCEPT !.server_id = NoId]
      BY <1>4, <3>1
    <3>4. QED
      BY <3>2, <3>3 DEF CsdaType, AnyId
  <2>2. PICK id : id = csda.server_id
    OBVIOUS
  <2>3. /\ \A p : p \in DOMAIN queues' <=> p \in DOMAIN queues /\ p # id
        /\ queues' \in [DOMAIN queues' -> Seq(Message)]
        /\ \A p \in DOMAIN queues' : \A i \in 1 .. Len(queues'[p]) : Old(p, queues'[p][i])
        /\ idOf' \in [{7768, 6877} -> AnyId]
        /\ \A k \in {7768, 6877} : idOf'[k] = IF idOf[k] = id THEN NoId ELSE idOf[k]
    <3>1. Rmid(id)
      BY <1>4, <2>2
    <3>2. QED
      BY <1>2, <3>1, RmidIs
  <2>4. idOf'[6877] = idOf[6877] /\ idOf'[7768] \in {idOf[7768], NoId}
    BY <1>2, <2>2, <2>3 DEF TwoQueues
  <2>5. Keyed' /\ Listens'
    BY <1>2, <2>1, <2>2, <2>3, <2>4 DEF Keyed, Listens
  <2>6. Mentions'
    <3>1. ikcd.client_id # NoId /\ ~leftOver' =>
            ~leftOver /\ (csda'.client_id = ikcd.client_id => csda'.call = calls)
      BY <1>1, <1>2, <2>1 DEF Mentions
    <3>2. QED
      BY <1>1, <1>2, <2>3, <3>1, MentionsKept
  <2>7. DOMAIN queues' \subseteq Ids
    BY <1>2, <2>3 DEF BnTypeOK
  <2>8. ikcd.client_id # NoId => ikcd.client_id # idOf'[7768]
    BY <1>2, <2>4 DEF TwoQueues
  <2>9. QED
    BY <1>1, <2>1, <2>3, <2>4, <2>5, <2>6, <2>7, <2>8, ServerFrame
<1>5. QED
  BY <1>3, <1>4 DEF ServerCheck, Csda

\* The csd is told to stop, dies, or is started again.
LEMMA ServerEndsSteps ==
  ASSUME BnInv, ServerStop \/ ServerDies \/ ServerRestart
  PROVE  BnInv'
<1>1. UNCHANGED <<queues, idOf, ikcdVars>> /\ csda \in CsdaType
  BY DEF ServerStop, ServerDies, ServerRestart, BnInv, BnTypeOK
<1>2. CASE ServerStop
  <2>1. UNCHANGED <<queues, idOf, ikcd, calls, leftOver, stray, csda>>
    BY <1>2 DEF ServerStop, ikcdVars
  <2>2. QED
    BY <2>1 DEF BnInv, BnTypeOK, Keyed, TwoQueues, OneCall, Mentions, Answered, Listens, OfThisCall
<1>3. CASE ServerDies
  <2>1. csda' = [pc |-> "down", server_id |-> NoId, client_id |-> NoId, call |-> NoAnswer]
    BY <1>3 DEF ServerDies
  <2>2. /\ csda' \in CsdaType /\ csda'.pc = "down" /\ csda'.server_id = NoId
        /\ csda'.client_id = NoId
    BY <2>1, NoIdIs DEF CsdaType, AnyId
  <2>3. QED
    BY <1>1, <2>2, ServerMoves
<1>4. CASE ServerRestart
  <2>1. csda' = [csda EXCEPT !.pc = "start"]
    BY <1>4 DEF ServerRestart, Csda
  <2>2. /\ csda' \in CsdaType /\ csda'.pc = "start" /\ csda'.server_id = csda.server_id
        /\ csda'.client_id = csda.client_id /\ csda'.call = csda.call
    BY <1>1, <2>1 DEF CsdaType
  <2>3. QED
    BY <1>1, <2>2, ServerMoves
<1>5. QED
  BY <1>2, <1>3, <1>4

-------------------------------------------------------------------------------
(* The theorems *)

LEMMA BnInitInv == ASSUME BnInit PROVE BnInv
<1>1. ikcd \in IkcdType /\ ikcd.pc = "idle" /\ ikcd.client_id = NoId /\ ikcd.resp = NoAnswer
  BY NoIdIs DEF BnInit, NotCalling, IkcdType, AnyId, Before
<1>2. csda \in CsdaType /\ csda.pc = "start" /\ csda.server_id = NoId /\ csda.client_id = NoId
  BY NoIdIs DEF BnInit, CsdaType, AnyId
<1>3. /\ DOMAIN queues = {} /\ queues = [q \in {} |-> <<>>] /\ calls = 0
      /\ idOf = [k \in {7768, 6877} |-> NoId]
  BY DEF BnInit
<1>4. idOf \in [{7768, 6877} -> AnyId] /\ idOf[7768] = NoId /\ idOf[6877] = NoId
  BY <1>3 DEF AnyId
<1>5. BnTypeOK
  BY <1>1, <1>2, <1>3, <1>4 DEF BnTypeOK
<1>6. Keyed /\ TwoQueues /\ OneCall /\ Mentions /\ Answered /\ Listens
  BY <1>1, <1>2, <1>4 DEF Keyed, TwoQueues, OneCall, Mentions, Answered, Listens, Before
<1>7. QED
  BY <1>5, <1>6 DEF BnInv

LEMMA BnStutters ==
  ASSUME BnInv, UNCHANGED bnVars
  PROVE  BnInv'
<1>1. UNCHANGED <<queues, idOf, ikcd, calls, leftOver, stray, csda>>
  BY DEF bnVars, ikcdVars, csdaVars
<1>2. QED
  BY <1>1 DEF BnInv, BnTypeOK, Keyed, TwoQueues, OneCall, Mentions, Answered, Listens, OfThisCall

LEMMA ClientsStep ==
  ASSUME BnInv, [Next]_vars
  PROVE  BnInv'
<1>1. CASE GetServer
  BY <1>1, GetServerStep
<1>2. CASE Best
  BY <1>2, GetClientStep, RmidUnassignedStep, SendStep, SetAlarmStep, ReceiveStep, OutStep DEF Best
<1>3. CASE Alarm \/ OnSigterm
  BY <1>3, SignalSteps DEF Alarm
<1>4. CASE IkcdDies
  BY <1>4, IkcdDiesStep
<1>5. CASE ServerStart \/ ServerReceive \/ ServerReply \/ ServerCheck
  BY <1>5, ServerStartStep, ServerReceiveStep, ServerReplyStep, ServerCheckStep
<1>6. CASE FindNode
  BY <1>6, ServerFoundStep DEF FindNode
<1>7. CASE ServerStop \/ CsdDies \/ CsdRestart
  BY <1>7, ServerEndsSteps DEF CsdDies, CsdRestart
<1>8. CASE CmOnly \/ UNCHANGED vars
  BY <1>8, BnStutters DEF CmOnly, vars
<1>9. QED
  BY <1>1, <1>2, <1>3, <1>4, <1>5, <1>6, <1>7, <1>8 DEF Next, Answer, Packets, CsdEnds

\* The invariant of the exchange, whatever csm and the packet loop of the csd do
\* meanwhile: two queues under two keys, and no message of an earlier call in
\* sight of the one under way.
THEOREM BnInvariance == Spec => []BnInv
<1>1. Init => BnInv
  BY BnInitInv DEF Init
<1>2. BnInv /\ [Next]_vars => BnInv'
  BY ClientsStep
<1>3. QED
  BY <1>1, <1>2, PTL DEF Spec

\* ikcr_best_node_for_app returns the answer to its own request and never one
\* that came too late for another, unless the ikcd died in a call.
THEOREM AnswerOfThisCallHolds == Spec => []AnswerOfThisCall
<1>1. BnInv => AnswerOfThisCall
  BY DEF BnInv, Answered, AnswerOfThisCall
<1>2. QED
  BY <1>1, BnInvariance, PTL

\* csda_best_node_server_thread waits at the queue that clients find under key
\* 7768, unless an error return of the ikcd removed a queue at random.
THEOREM ServerListensHolds == Spec => []ServerListens
<1>1. BnInv => ServerListens
  BY DEF BnInv, Listens, ServerListens, Exists
<1>2. QED
  BY <1>1, BnInvariance, PTL

-------------------------------------------------------------------------------
(* The parser of keys *)

\* A set of numbers with 0 and the successors of its members has all of them.
LEMMA SetInduction ==
  ASSUME NEW S, 0 \in S, \A m \in Nat : m \in S => m + 1 \in S
  PROVE  Nat \subseteq S
<1> DEFINE LessThan == {ss \in Nat \X Nat : ss[1] < ss[2]}
<1>1. IsWellFoundedOn(LessThan, Nat)
  BY NatLessThanWellFounded, Zenon DEF OpToRel
<1>2. PICK R : R = LessThan
  OBVIOUS
<1>3. SUFFICES ASSUME Nat \ S # {} PROVE FALSE
  OBVIOUS
<1>4. PICK k \in Nat \ S : \A j \in Nat \ S : ~(<<j, k>> \in R)
  <2>1. Nat \ S \subseteq Nat
    OBVIOUS
  <2>2. QED
    BY <1>1, <1>2, <1>3, <2>1, WFMin, Zenon
<1>5. \A j \in Nat \ S : ~(j < k)
  BY <1>2, <1>4
<1>6. k # 0 /\ k - 1 \in Nat /\ k - 1 < k /\ (k - 1) + 1 = k
  BY <1>4
<1>7. QED
  BY <1>4, <1>5, <1>6

\* The loop of csdb_parse_key, pass by pass.
Start == [c |-> 1, begin |-> 1, state |-> 0, keys |-> <<>>]
Passed(key, p) == IF p.c > Len(key) THEN p ELSE ParseStep(key, p)
Pass(key) ==
  CHOOSE f : f = [n \in 0 .. 2 * Len(key) |-> IF n = 0 THEN Start ELSE Passed(key, f[n - 1])]

LEMMA PassIs ==
  ASSUME NEW key \in Seq(Chars)
  PROVE  /\ Pass(key)[0] = Start
         /\ \A n \in 1 .. 2 * Len(key) : Pass(key)[n] = Passed(key, Pass(key)[n - 1])
<1> DEFINE Good(f, m) == f = [n \in 0 .. m |-> IF n = 0 THEN Start ELSE Passed(key, f[n - 1])]
           S == {m \in Nat : \E f : Good(f, m)}
<1>1. 0 \in S
  <2>1. PICK f : f = [n \in 0 .. 0 |-> Start]
    OBVIOUS
  <2>2. f = [n \in 0 .. 0 |-> IF n = 0 THEN Start ELSE Passed(key, f[n - 1])]
    BY <2>1
  <2>3. QED
    BY <2>2
<1>2. ASSUME NEW m \in Nat, m \in S PROVE m + 1 \in S
  <2>1. PICK f : Good(f, m)
    BY <1>2
  <2>2. PICK g : g = [n \in 0 .. m + 1 |-> IF n = m + 1 THEN Passed(key, f[m]) ELSE f[n]]
    OBVIOUS
  <2>3. \A n \in 0 .. m : g[n] = f[n] /\ f[n] = IF n = 0 THEN Start ELSE Passed(key, f[n - 1])
    BY <2>1, <2>2
  <2>4. \A n \in 0 .. m + 1 : g[n] = IF n = 0 THEN Start ELSE Passed(key, g[n - 1])
    <3>1. ASSUME NEW n \in 0 .. m PROVE g[n] = IF n = 0 THEN Start ELSE Passed(key, g[n - 1])
      <4>1. CASE n = 0
        BY <2>3, <3>1, <4>1
      <4>2. CASE n # 0
        <5>1. n - 1 \in 0 .. m
          BY <3>1, <4>2
        <5>2. QED
          BY <2>3, <3>1, <4>2, <5>1
      <4>3. QED
        BY <4>1, <4>2
    <3>2. g[m + 1] = Passed(key, g[m]) /\ m + 1 # 0 /\ (m + 1) - 1 = m
      BY <2>2, <2>3
    <3>3. \A n \in 0 .. m + 1 : n \in 0 .. m \/ n = m + 1
      OBVIOUS
    <3>4. QED
      BY <3>1, <3>2, <3>3
  <2>5. DOMAIN g = 0 .. m + 1 /\ g = [n \in DOMAIN g |-> g[n]]
    BY <2>2
  <2>6. Good(g, m + 1)
    BY <2>4, <2>5
  <2>7. QED
    BY <2>6
<1>3. Len(key) \in Nat /\ 2 * Len(key) \in Nat
  OBVIOUS
<1>4. 2 * Len(key) \in S
  <2>1. Nat \subseteq S
    BY <1>1, <1>2, SetInduction
  <2>2. QED
    BY <1>3, <2>1
<1>5. \E f : Good(f, 2 * Len(key))
  BY <1>4
<1>6. Good(Pass(key), 2 * Len(key))
  BY <1>5, Zenon DEF Pass
<1>7. PICK u : u = Pass(key)
  OBVIOUS
<1>8. u = [n \in 0 .. 2 * Len(key) |-> IF n = 0 THEN Start ELSE Passed(key, u[n - 1])]
  BY <1>6, <1>7, Zenon
<1>9. \A n \in 0 .. 2 * Len(key) : u[n] = IF n = 0 THEN Start ELSE Passed(key, u[n - 1])
  BY <1>8
<1>10. QED
  BY <1>3, <1>7, <1>9

LEMMA ParseIs ==
  ASSUME NEW key, key # <<Dot>>
  PROVE  csdb_parse_key(key) = Pass(key)[2 * Len(key)].keys
BY Zenon DEF csdb_parse_key, Pass, Passed, Start

\* Delimiters are counted from the first one on, and each by its own number.
LEMMA RankIs ==
  ASSUME NEW key \in Seq(Chars), NEW i \in Cuts(key)
  PROVE  /\ i \in 1 .. Len(key) + 1 /\ Rank(key, i) \in Nat
         /\ \A j \in Cuts(key) : i < j => Rank(key, i) < Rank(key, j)
         /\ \A j \in Cuts(key) :
              i < j /\ (\A k \in Cuts(key) : ~(i < k /\ k < j)) => Rank(key, j) = Rank(key, i) + 1
         /\ (\A j \in Cuts(key) : i <= j) => Rank(key, i) = 1
         /\ (\A j \in Cuts(key) : j <= i) => Rank(key, i) = Cardinality(Cuts(key))
<1> DEFINE Upto(x) == {j \in Cuts(key) : j <= x}
<1>1. PICK n \in Nat : n = Len(key)
  OBVIOUS
<1>2. Cuts(key) \subseteq 1 .. n + 1
  BY <1>1 DEF Cuts, Delims
<1>3. IsFiniteSet(Cuts(key))
  <2>1. IsFiniteSet(1 .. n + 1)
    BY FS_Interval
  <2>2. QED
    BY <1>2, <2>1, FS_Subset
<1>4. \A x : IsFiniteSet(Upto(x)) /\ Cardinality(Upto(x)) \in Nat /\ Rank(key, x) = Cardinality(Upto(x))
  <2>1. TAKE x
  <2>2. Upto(x) \in SUBSET Cuts(key)
    OBVIOUS
  <2>3. IsFiniteSet(Upto(x))
    BY <1>3, <2>2, FS_Subset
  <2>4. QED
    BY <2>3, FS_CardinalityType DEF Rank
<1>5. ASSUME NEW j \in Cuts(key), i < j PROVE Rank(key, i) < Rank(key, j)
  <2>1. PICK A, B : A = Upto(i) /\ B = Upto(j)
    OBVIOUS
  <2>2. A \in SUBSET B /\ j \in B /\ j \notin A
    BY <1>2, <1>5, <2>1
  <2>3. IsFiniteSet(B) /\ Cardinality(A) \in Nat /\ Cardinality(B) \in Nat
    BY <1>4, <2>1
  <2>4. Cardinality(A) <= Cardinality(B) /\ Cardinality(A) # Cardinality(B)
    BY <2>2, <2>3, FS_Subset
  <2>5. QED
    BY <1>4, <2>1, <2>3, <2>4
<1>6. ASSUME NEW j \in Cuts(key), i < j, \A k \in Cuts(key) : ~(i < k /\ k < j)
      PROVE  Rank(key, j) = Rank(key, i) + 1
  <2>1. PICK A, B : A = Upto(i) /\ B = Upto(j)
    OBVIOUS
  <2>2. B = A \cup {j} /\ j \notin A
    BY <1>2, <1>6, <2>1
  <2>3. IsFiniteSet(A)
    BY <1>4, <2>1
  <2>4. Cardinality(B) = Cardinality(A) + 1
    BY <2>2, <2>3, FS_AddElement
  <2>5. QED
    BY <1>4, <2>1, <2>4
<1>7. ASSUME \A j \in Cuts(key) : i <= j PROVE Rank(key, i) = 1
  <2>1. Upto(i) = {i}
    BY <1>2, <1>7
  <2>2. QED
    BY <1>4, <2>1, FS_Singleton
<1>8. ASSUME \A j \in Cuts(key) : j <= i PROVE Rank(key, i) = Cardinality(Cuts(key))
  <2>1. Upto(i) = Cuts(key)
    BY <1>8
  <2>2. QED
    BY <1>4, <2>1
<1>9. i \in 1 .. Len(key) + 1 /\ Rank(key, i) \in Nat
  BY <1>1, <1>2, <1>4
<1>10. QED
  BY <1>5, <1>6, <1>7, <1>8, <1>9

LEMMA AtIs ==
  ASSUME NEW key \in Seq(Chars), NEW i \in Cuts(key)
  PROVE  At(key, Rank(key, i)) = i
<1>1. \A j \in Cuts(key) : Rank(key, j) = Rank(key, i) => j = i
  <2>1. TAKE j \in Cuts(key)
  <2>2. /\ i \in Nat /\ j \in Nat /\ Rank(key, i) \in Nat /\ Rank(key, j) \in Nat
        /\ i < j => Rank(key, i) < Rank(key, j)
        /\ j < i => Rank(key, j) < Rank(key, i)
    BY RankIs
  <2>3. QED
    BY <2>2
<1>2. PICK a : a = At(key, Rank(key, i))
  OBVIOUS
<1>3. a \in Cuts(key) /\ Rank(key, a) = Rank(key, i)
  BY <1>2, Zenon DEF At
<1>4. QED
  BY <1>1, <1>2, <1>3

Position == [c : Nat, begin : Nat, state : {0, 1}, keys : Seq(Seq(Chars))]

\* After every pass: outside of a part both pointers are at the next delimiter, or at
\* the end; inside of one, begin is behind the last delimiter and no other is
\* between the two.  What was found are the first parts of the key.
Parsed(key, p) ==
  /\ p \in Position
  /\ p.state = 0 => p.c \in Cuts(key) /\ Rank(key, p.c) = Len(p.keys) + 1 /\ p.begin = p.c
  /\ p.state = 1 => /\ p.begin - 1 \in Cuts(key) /\ Rank(key, p.begin - 1) = Len(p.keys) + 1
                    /\ p.begin <= p.c /\ p.c <= Len(key)
                    /\ \A i \in p.begin .. p.c - 1 : key[i] # Dot
  /\ \A r \in 1 .. Len(p.keys) : /\ p.keys[r] = SubSeq(key, At(key, r) + 1, At(key, r + 1) - 1)
                                 /\ p.keys[r] # <<Dot>>

\* Every pass takes it further.
Progress(p) == 2 * p.c + (1 - p.state)

LEMMA NotInTokenStep ==
  ASSUME NEW key \in Seq(Chars), csdb_is_valid_key(key), key # <<Dot>>,
         NEW p, Parsed(key, p), p.c <= Len(key), p.state = 0
  PROVE  Parsed(key, NotInToken(key, p)) /\ Progress(NotInToken(key, p)) >= Progress(p) + 1
<1>1. /\ p \in Position /\ p.c \in Cuts(key) /\ Rank(key, p.c) = Len(p.keys) + 1 /\ p.begin = p.c
      /\ p.c \in Nat /\ p.keys \in Seq(Seq(Chars)) /\ Len(key) \in Nat
  BY DEF Parsed, Position
<1>2. p.c \in 1 .. Len(key) /\ key[p.c] = Dot
  BY <1>1 DEF Cuts, Delims
<1>3. p.c # Len(key)
  <2>1. SUFFICES ASSUME p.c = Len(key) PROVE FALSE
    OBVIOUS
  <2>2. Len(key) = 1 /\ key[1] = Dot
    BY <1>2, <2>1 DEF csdb_is_valid_key
  <2>3. key = <<Dot>>
    BY <2>2
  <2>4. QED
    BY <2>3
<1>4. PICK q : q = NotInToken(key, p)
  OBVIOUS
<1>5. /\ q \in Position /\ q.c = p.c + 1 /\ q.begin = p.c + 1 /\ q.state = 1 /\ q.keys = p.keys
  <2>1. PICK c1 \in Nat : c1 = p.c + 1
    BY <1>1
  <2>2. q = [p EXCEPT !.c = c1, !.begin = c1, !.state = 1]
    BY <1>1, <1>2, <1>4, <2>1 DEF NotInToken
  <2>3. QED
    BY <1>1, <2>1, <2>2 DEF Position
<1>6. q.begin - 1 = p.c
  BY <1>1, <1>5
<1>7. Parsed(key, q)
  BY <1>1, <1>2, <1>3, <1>5, <1>6 DEF Parsed
<1>8. Progress(q) >= Progress(p) + 1
  BY <1>1, <1>5 DEF Progress
<1>9. QED
  BY <1>4, <1>7, <1>8

LEMMA InTokenStep ==
  ASSUME NEW key \in Seq(Chars), csdb_is_valid_key(key), key # <<Dot>>,
         NEW p, Parsed(key, p), p.c <= Len(key), p.state = 1
  PROVE  Parsed(key, InToken(key, p)) /\ Progress(InToken(key, p)) >= Progress(p) + 1
<1>1. /\ p \in Position /\ p.begin - 1 \in Cuts(key) /\ Rank(key, p.begin - 1) = Len(p.keys) + 1
      /\ p.begin <= p.c /\ p.c <= Len(key) /\ \A i \in p.begin .. p.c - 1 : key[i] # Dot
      /\ p.c \in Nat /\ p.begin \in Nat /\ p.keys \in Seq(Seq(Chars)) /\ Len(key) \in Nat
      /\ \A r \in 1 .. Len(p.keys) : /\ p.keys[r] = SubSeq(key, At(key, r) + 1, At(key, r + 1) - 1)
                                     /\ p.keys[r] # <<Dot>>
  BY DEF Parsed, Position
<1>2. p.begin - 1 \in 1 .. Len(key) + 1 /\ p.c \in 1 .. Len(key)
  BY <1>1, RankIs
<1>3. PICK c : c = IF key[p.c] # Dot THEN p.c + 1 ELSE p.c
  OBVIOUS
<1>4. /\ c \in p.begin .. Len(key) + 1 /\ c \in Nat /\ (c = p.c \/ c = p.c + 1)
      /\ \A i \in p.begin .. c - 1 : key[i] # Dot
  BY <1>1, <1>2, <1>3
<1>5. CASE c > Len(key) \/ key[c] = Dot
  <2>1. c \in Cuts(key)
    BY <1>2, <1>4, <1>5 DEF Cuts, Delims
  <2>2. \A k \in Cuts(key) : ~(p.begin - 1 < k /\ k < c)
    <3>1. SUFFICES ASSUME NEW k \in Cuts(key), p.begin - 1 < k, k < c PROVE FALSE
      OBVIOUS
    <3>2. k \in 1 .. Len(key) + 1 /\ k # Len(key) + 1
      BY <1>4, <3>1, RankIs
    <3>3. key[k] = Dot
      BY <3>1, <3>2 DEF Cuts, Delims
    <3>4. k \in p.begin .. c - 1
      BY <1>1, <1>4, <3>1, <3>2
    <3>5. QED
      BY <1>4, <3>3, <3>4
  <2>3. Rank(key, c) = Len(p.keys) + 2
    <3>1. p.begin - 1 < c
      BY <1>1, <1>4
    <3>2. PICK b \in Cuts(key) : b = p.begin - 1
      BY <1>1
    <3>3. Rank(key, c) = Rank(key, b) + 1
      BY <2>1, <2>2, <3>1, <3>2, RankIs
    <3>4. QED
      BY <1>1, <3>2, <3>3
  <2>4. PICK part : part = SubSeq(key, p.begin, c - 1)
    OBVIOUS
  <2>5. /\ part \in Seq(Chars) /\ Len(part) \in Nat
        /\ Len(part) = (IF p.begin <= c - 1 THEN c - 1 - p.begin + 1 ELSE 0)
        /\ \A i \in 1 .. c - 1 - p.begin + 1 : part[i] = key[p.begin + i - 1]
    <3>1. PICK m \in Int, n \in Int : m = p.begin /\ n = c - 1
      BY <1>1, <1>4
    <3>2. \A i \in m .. n : key[i] \in Chars
      BY <1>1, <1>2, <1>4, <3>1
    <3>3. SubSeq(key, m, n) \in Seq(Chars)
         /\ Len(SubSeq(key, m, n)) = (IF m <= n THEN n - m + 1 ELSE 0)
         /\ \A i \in 1 .. n - m + 1 : SubSeq(key, m, n)[i] = key[m + i - 1]
      BY <3>2, SubSeqProperties
    <3>4. QED
      BY <2>4, <3>1, <3>3
  <2>6. part # <<Dot>>
    <3>1. SUFFICES ASSUME part = <<Dot>> PROVE FALSE
      OBVIOUS
    <3>2. Len(part) = 1 /\ part[1] = Dot
      BY <3>1
    <3>3. p.begin <= c - 1 /\ part[1] = key[p.begin]
      <4>1. p.begin <= c - 1
        <5>1. PICK n \in Nat : n = Len(part)
          BY <2>5
        <5>2. n = (IF p.begin <= c - 1 THEN c - 1 - p.begin + 1 ELSE 0) /\ n = 1
          BY <2>5, <3>2, <5>1
        <5>3. QED
          BY <5>2
      <4>2. 1 \in 1 .. c - 1 - p.begin + 1 /\ p.begin + 1 - 1 = p.begin
        BY <1>1, <1>4, <4>1
      <4>3. part[1] = key[p.begin + 1 - 1]
        BY <2>5, <4>2
      <4>4. QED
        BY <4>1, <4>2, <4>3
    <3>4. p.begin \in p.begin .. c - 1
      BY <1>1, <1>4, <3>3
    <3>5. QED
      BY <1>4, <3>2, <3>3, <3>4
  <2>7. PICK l \in Nat : l = Len(p.keys)
    BY <1>1
  <2>8. At(key, l + 1) = p.begin - 1 /\ At(key, (l + 1) + 1) = c
    <3>1. PICK b \in Cuts(key) : b = p.begin - 1
      BY <1>1
    <3>2. At(key, Rank(key, b)) = b /\ At(key, Rank(key, c)) = c
      BY <2>1, <3>1, AtIs
    <3>3. Rank(key, b) = l + 1 /\ Rank(key, c) = (l + 1) + 1
      BY <1>1, <2>3, <2>7, <3>1
    <3>4. QED
      BY <3>1, <3>2, <3>3
  <2>9. PICK ks : ks = Append(p.keys, part)
    OBVIOUS
  <2>10. /\ ks \in Seq(Seq(Chars)) /\ Len(ks) = l + 1 /\ ks[l + 1] = part
         /\ \A r \in 1 .. l : ks[r] = p.keys[r]
    BY <1>1, <2>5, <2>7, <2>9
  <2>11. \A r \in 1 .. Len(ks) : /\ ks[r] = SubSeq(key, At(key, r) + 1, At(key, r + 1) - 1)
                                 /\ ks[r] # <<Dot>>
    <3>1. TAKE r \in 1 .. Len(ks)
    <3>2. CASE r \in 1 .. l
      BY <1>1, <2>7, <2>10, <3>2
    <3>3. CASE r = l + 1
      <4>1. At(key, r) + 1 = p.begin
        BY <1>1, <2>8, <3>3
      <4>2. ks[r] = part /\ At(key, r + 1) = c
        BY <2>8, <2>10, <3>3
      <4>3. QED
        BY <2>4, <2>6, <4>1, <4>2
    <3>4. QED
      BY <2>10, <3>1, <3>2, <3>3
  <2>12. PICK q : q = [c |-> c, begin |-> c, state |-> 0, keys |-> ks]
    OBVIOUS
  <2>13. q = InToken(key, p)
    BY <1>3, <1>5, <2>4, <2>9, <2>12 DEF InToken
  <2>14. q \in Position /\ q.c = c /\ q.begin = c /\ q.state = 0 /\ q.keys = ks
    BY <1>4, <2>10, <2>12 DEF Position
  <2>15. Rank(key, c) = Len(ks) + 1
    BY <2>3, <2>7, <2>10
  <2>16. Parsed(key, q)
    BY <2>1, <2>11, <2>14, <2>15 DEF Parsed
  <2>17. Progress(q) >= Progress(p) + 1
    BY <1>1, <1>4, <2>14 DEF Progress
  <2>18. QED
    BY <2>13, <2>16, <2>17
<1>6. CASE ~(c > Len(key) \/ key[c] = Dot)
  <2>1. c = p.c + 1 /\ c <= Len(key)
    BY <1>1, <1>3, <1>4, <1>6
  <2>2. PICK q : q = [p EXCEPT !.c = c]
    OBVIOUS
  <2>3. q = InToken(key, p)
    BY <1>3, <1>6, <2>2 DEF InToken
  <2>4. q \in Position /\ q.c = c /\ q.begin = p.begin /\ q.state = 1 /\ q.keys = p.keys
    BY <1>1, <1>4, <2>2 DEF Position
  <2>5. Parsed(key, q)
    BY <1>1, <1>4, <2>1, <2>4 DEF Parsed
  <2>6. Progress(q) >= Progress(p) + 1
    BY <1>1, <2>1, <2>4 DEF Progress
  <2>7. QED
    BY <2>3, <2>5, <2>6
<1>7. QED
  BY <1>5, <1>6

LEMMA StartParsed ==
  ASSUME NEW key \in Seq(Chars), csdb_is_valid_key(key)
  PROVE  Parsed(key, Start) /\ Progress(Start) = 3
<1>1. Len(key) \in Nat /\ 1 \in 1 .. Len(key) /\ key[1] = Dot
  BY DEF csdb_is_valid_key
<1>2. 1 \in Cuts(key)
  BY <1>1 DEF Cuts, Delims
<1>3. Rank(key, 1) = 1
  <2>1. \A j \in Cuts(key) : 1 <= j
    BY RankIs
  <2>2. QED
    BY <1>2, <2>1, RankIs
<1>4. PICK ks : ks = <<>>
  OBVIOUS
<1>5. ks \in Seq(Seq(Chars)) /\ Len(ks) = 0
  BY <1>4
<1>6. PICK q : q = [c |-> 1, begin |-> 1, state |-> 0, keys |-> ks]
  OBVIOUS
<1>7. q \in Position /\ q.c = 1 /\ q.begin = 1 /\ q.state = 0 /\ q.keys = ks
  BY <1>5, <1>6 DEF Position
<1>8. Parsed(key, q)
  BY <1>2, <1>3, <1>5, <1>7 DEF Parsed
<1>9. Progress(q) = 3
  BY <1>7 DEF Progress
<1>10. q = Start
  BY <1>4, <1>6 DEF Start
<1>11. QED
  BY <1>8, <1>9, <1>10

LEMMA PassParsed ==
  ASSUME NEW key \in Seq(Chars), csdb_is_valid_key(key), key # <<Dot>>
  PROVE  /\ Parsed(key, Pass(key)[2 * Len(key)])
         /\ Pass(key)[2 * Len(key)].c > Len(key)
<1> DEFINE u == Pass(key)
           P(n) == Parsed(key, u[n]) /\ (u[n].c > Len(key) \/ Progress(u[n]) >= 3 + n)
           S == {n \in Nat : n <= 2 * Len(key) => P(n)}
<1>1. Len(key) \in Nat
  OBVIOUS
<1>2. 0 \in S
  <2>1. u[0] = Start
    BY PassIs
  <2>2. P(0)
    BY <2>1, StartParsed
  <2>3. QED
    BY <2>2
<1>3. ASSUME NEW m \in Nat, m \in S PROVE m + 1 \in S
  <2>1. SUFFICES ASSUME m + 1 <= 2 * Len(key) PROVE P(m + 1)
    OBVIOUS
  <2>2. PICK p, q : p = u[m] /\ q = u[m + 1]
    OBVIOUS
  <2>3. P(m)
    BY <1>1, <1>3, <2>1
  <2>4. Parsed(key, p) /\ (p.c > Len(key) \/ Progress(p) >= 3 + m)
    BY <2>2, <2>3
  <2>5. q = Passed(key, p)
    <3>1. m + 1 \in 1 .. 2 * Len(key) /\ (m + 1) - 1 = m
      BY <1>1, <2>1
    <3>2. QED
      BY <2>2, <3>1, PassIs
  <2>6. p.c \in Nat /\ p.state \in {0, 1}
    BY <2>4 DEF Parsed, Position
  <2>7. CASE p.c > Len(key)
    BY <2>2, <2>4, <2>5, <2>7 DEF Passed
  <2>8. CASE ~(p.c > Len(key))
    <3>1. p.c <= Len(key) /\ Progress(p) >= 3 + m
      BY <1>1, <2>4, <2>6, <2>8
    <3>2. q = ParseStep(key, p)
      BY <2>5, <2>8 DEF Passed
    <3>3. Parsed(key, q) /\ Progress(q) >= Progress(p) + 1
      <4>1. CASE p.state = 0
        <5>1. q = NotInToken(key, p)
          BY <3>2, <4>1 DEF ParseStep
        <5>2. Parsed(key, NotInToken(key, p)) /\ Progress(NotInToken(key, p)) >= Progress(p) + 1
          BY <2>4, <3>1, <4>1, NotInTokenStep
        <5>3. QED
          BY <5>1, <5>2
      <4>2. CASE p.state = 1
        <5>1. q = InToken(key, p)
          BY <3>2, <4>2 DEF ParseStep
        <5>2. Parsed(key, InToken(key, p)) /\ Progress(InToken(key, p)) >= Progress(p) + 1
          BY <2>4, <3>1, <4>2, InTokenStep
        <5>3. QED
          BY <5>1, <5>2
      <4>3. QED
        BY <2>6, <4>1, <4>2
    <3>4. Progress(q) \in Nat /\ Progress(p) \in Nat
      <4>1. q.c \in Nat /\ q.state \in {0, 1}
        BY <3>3 DEF Parsed, Position
      <4>2. QED
        BY <2>6, <4>1 DEF Progress
    <3>5. Progress(q) >= 3 + (m + 1)
      BY <3>1, <3>3, <3>4
    <3>6. QED
      BY <2>2, <3>3, <3>5
  <2>9. QED
    BY <2>7, <2>8
<1>4. 2 * Len(key) \in S
  <2>1. Nat \subseteq S
    BY <1>2, <1>3, SetInduction
  <2>2. QED
    BY <1>1, <2>1
<1>5. PICK p : p = u[2 * Len(key)]
  OBVIOUS
<1>6. Parsed(key, p) /\ (p.c > Len(key) \/ Progress(p) >= 3 + 2 * Len(key))
  BY <1>1, <1>4, <1>5
<1>7. p.c \in Nat /\ p.state \in {0, 1}
  BY <1>6 DEF Parsed, Position
<1>8. p.c > Len(key)
  BY <1>1, <1>6, <1>7 DEF Progress
<1>9. QED
  BY <1>5, <1>6, <1>8

LEMMA EntryIs ==
  ASSUME NEW key \in Seq(Chars), csdb_is_valid_key(key)
  PROVE  csdb_get_entry(key) = Parts(key) /\ Parts(key) \in Seq(Seq(Chars))
<1>1. key \in Seq(Chars) /\ csdb_is_valid_key(key)
  OBVIOUS
<1>2. PICK ps : ps = csdb_parse_key(key)
  OBVIOUS
<1>3. PICK at : at = {0} \cup {i \in 1 .. Len(ps) : ps[i] = <<Dot>>}
  OBVIOUS
<1>4. PICK l : l = CHOOSE i \in at : \A j \in at : j <= i
  OBVIOUS
<1>5. csdb_get_entry(key) = SubSeq(ps, l + 1, Len(ps))
  BY <1>2, <1>3, <1>4, Zenon DEF csdb_get_entry
<1>6. CASE key = <<Dot>>
  <2>1. ps = <<key>>
    BY <1>2, <1>6, Zenon DEF csdb_parse_key
  <2>2. Len(ps) = 1 /\ ps[1] = <<Dot>>
    BY <1>6, <2>1
  <2>3. at = {0, 1}
    BY <1>3, <2>2
  <2>4. \E i \in at : \A j \in at : j <= i
    BY <2>3
  <2>5. l \in at /\ \A j \in at : j <= l
    BY <1>4, <2>4, Zenon
  <2>6. l = 1
    BY <2>3, <2>5
  <2>7. SubSeq(ps, l + 1, Len(ps)) = <<>>
    BY <2>2, <2>6, SubSeqEmpty
  <2>8. \A e : e = <<>> => e \in Seq(Seq(Chars))
    OBVIOUS
  <2>9. Parts(key) = <<>>
    BY <1>6 DEF Parts
  <2>10. QED
    BY <1>5, <2>7, <2>8, <2>9
<1>7. CASE key # <<Dot>>
  <2>1. PICK p : p = Pass(key)[2 * Len(key)]
    OBVIOUS
  <2>2. ps = p.keys
    BY <1>2, <1>7, <2>1, ParseIs
  <2>3. Parsed(key, p) /\ p.c > Len(key)
    BY <1>1, <1>7, <2>1, PassParsed, Zenon
  <2>4. /\ p.c \in Nat /\ ps \in Seq(Seq(Chars)) /\ Len(ps) \in Nat /\ Len(key) \in Nat
        /\ p.state = 0 /\ p.c \in Cuts(key) /\ Rank(key, p.c) = Len(ps) + 1
        /\ \A r \in 1 .. Len(ps) : /\ ps[r] = SubSeq(key, At(key, r) + 1, At(key, r + 1) - 1)
                                   /\ ps[r] # <<Dot>>
    BY <2>2, <2>3 DEF Parsed, Position
  <2>5. \A j \in Cuts(key) : j <= p.c
    BY <2>3, <2>4, RankIs
  <2>6. Cardinality(Cuts(key)) - 1 = Len(ps)
    <3>1. PICK e \in Cuts(key) : e = p.c
      BY <2>4
    <3>2. Rank(key, e) = Cardinality(Cuts(key)) /\ Rank(key, e) = Len(ps) + 1
      BY <2>4, <2>5, <3>1, RankIs
    <3>3. QED
      BY <2>4, <3>2
  <2>7. ps = [r \in 1 .. Len(ps) |-> SubSeq(key, At(key, r) + 1, At(key, r + 1) - 1)]
    BY <2>4
  <2>8. Parts(key) = ps
    BY <1>7, <2>6, <2>7 DEF Parts
  <2>9. at = {0}
    BY <1>3, <2>4
  <2>10. l = 0
    BY <1>4, <2>9
  <2>11. SubSeq(ps, l + 1, Len(ps)) = ps
    BY <2>4, <2>10, SubSeqFull
  <2>12. QED
    BY <1>5, <2>4, <2>8, <2>11
<1>8. QED
  BY <1>6, <1>7

\* csdb_parse_key finds in a valid key what is between its delimiters, and
\* csdb_get_entry walks along these parts, for keys of any length.
THEOREM KeysParsed ==
  \A key \in Seq(Chars) : csdb_is_valid_key(key) => csdb_get_entry(key) = Parts(key)
BY EntryIs

-------------------------------------------------------------------------------
(* Packets *)

LEMMA Joined ==
  ASSUME NEW U, NEW s \in Seq(U), NEW t \in Seq(U), NEW m, NEW n, m = Len(s), n = Len(t),
         NEW p, p = s \o t
  PROVE  /\ m \in Nat /\ n \in Nat /\ p \in Seq(U) /\ Len(p) = m + n
         /\ \A i \in 1 .. m + n : p[i] = IF i <= m THEN s[i] ELSE t[i - m]
<1>1. /\ s \o t \in Seq(U) /\ Len(s \o t) = Len(s) + Len(t)
      /\ \A i \in 1 .. Len(s) + Len(t) : (s \o t)[i] = IF i <= Len(s) THEN s[i] ELSE t[i - Len(s)]
  BY ConcatProperties, Zenon
<1>2. m \in Nat /\ n \in Nat
  OBVIOUS
<1>3. QED
  BY <1>1, <1>2, Zenon

\* csp_unpack_* finds what csp_pack_dbreq_packet has put into a packet.
LEMMA PacketIs ==
  ASSUME NEW k \in Seq(Chars), NEW v \in Seq(Chars), NEW type \in Commands, NEW p,
         p = csp_pack_dbreq_packet(k, v, type)
  PROVE  /\ p[3] = type
         /\ csp_unpack_key(p) = k
         /\ type = "set" => csp_unpack_value(p) = v
<1>1. PICK U : U = Chars \cup Nat \cup {"ver", "req"} \cup Commands
  OBVIOUS
<1>2. PICK h : h = <<"ver", "req", type, Len(k)>>
  OBVIOUS
<1>3. h \in Seq(U) /\ Len(h) = 4 /\ h[3] = type /\ h[4] = Len(k)
  <2>1. "ver" \in U /\ "req" \in U /\ type \in U /\ Len(k) \in U
    BY <1>1
  <2>2. QED
    BY <1>2, <2>1
<1>4. PICK n \in Nat, m \in Nat : n = Len(k) /\ m = Len(v)
  OBVIOUS
<1>5. k \in Seq(U) /\ v \in Seq(U) /\ n \in U /\ m \in U
  BY <1>1, <1>4
<1>6. PICK l : l = <<m>>
  OBVIOUS
<1>7. l \in Seq(U) /\ Len(l) = 1 /\ l[1] = m
  BY <1>5, <1>6
<1>8. PICK t : t = IF type = "set" /\ v # <<>> THEN l \o v ELSE <<>>
  OBVIOUS
<1>9. /\ t \in Seq(U) /\ Len(t) \in Nat
      /\ Len(t) = (IF type = "set" /\ v # <<>> THEN m + 1 ELSE 0)
      /\ type = "set" /\ v # <<>> => t[1] = m /\ \A i \in 1 .. m : t[i + 1] = v[i]
  <2>1. CASE type = "set" /\ v # <<>>
    <3>1. t = l \o v
      BY <1>8, <2>1
    <3>2. /\ t \in Seq(U) /\ Len(t) = 1 + m
          /\ \A i \in 1 .. 1 + m : t[i] = IF i <= 1 THEN l[i] ELSE v[i - 1]
      <4>1. PICK x \in Nat : x = 1
        OBVIOUS
      <4>2. l \in Seq(U) /\ v \in Seq(U) /\ x = Len(l) /\ m = Len(v) /\ t = l \o v
        BY <1>4, <1>5, <1>7, <3>1, <4>1
      <4>3. /\ t \in Seq(U) /\ Len(t) = x + m
            /\ \A i \in 1 .. x + m : t[i] = IF i <= x THEN l[i] ELSE v[i - x]
        BY <4>2, Joined
      <4>4. QED
        BY <4>1, <4>3
    <3>3. t[1] = m
      BY <1>4, <1>7, <3>2
    <3>4. ASSUME NEW i \in 1 .. m PROVE t[i + 1] = v[i]
      <4>1. i + 1 \in 1 .. 1 + m /\ ~(i + 1 <= 1) /\ (i + 1) - 1 = i
        BY <1>4, <3>4
      <4>2. QED
        BY <3>2, <4>1
    <3>5. QED
      BY <1>4, <2>1, <3>2, <3>3, <3>4
  <2>2. CASE ~(type = "set" /\ v # <<>>)
    BY <1>8, <2>2
  <2>3. QED
    BY <2>1, <2>2
<1>10. PICK s : s = h \o k
  OBVIOUS
<1>11. /\ s \in Seq(U) /\ Len(s) = 4 + n
       /\ \A i \in 1 .. 4 + n : s[i] = IF i <= 4 THEN h[i] ELSE k[i - 4]
  <2>1. PICK x \in Nat : x = 4
    OBVIOUS
  <2>2. h \in Seq(U) /\ k \in Seq(U) /\ x = Len(h) /\ n = Len(k) /\ s = h \o k
    BY <1>3, <1>4, <1>5, <1>10, <2>1
  <2>3. /\ s \in Seq(U) /\ Len(s) = x + n
        /\ \A i \in 1 .. x + n : s[i] = IF i <= x THEN h[i] ELSE k[i - x]
    BY <2>2, Joined
  <2>4. QED
    BY <2>1, <2>3
<1>12. p = s \o t
  BY <1>2, <1>4, <1>6, <1>8, <1>10 DEF csp_pack_dbreq_packet
<1>13. PICK w \in Nat : w = Len(t)
  BY <1>9
<1>14. /\ p \in Seq(U) /\ Len(p) = 4 + n + w
       /\ \A i \in 1 .. 4 + n + w : p[i] = IF i <= 4 + n THEN s[i] ELSE t[i - (4 + n)]
  <2>1. PICK x \in Nat : x = 4 + n
    BY <1>4
  <2>2. x = Len(s)
    BY <1>11, <2>1
  <2>3. /\ p \in Seq(U) /\ Len(p) = x + w
        /\ \A i \in 1 .. x + w : p[i] = IF i <= x THEN s[i] ELSE t[i - x]
    <3>1. s \in Seq(U) /\ t \in Seq(U) /\ x = Len(s) /\ w = Len(t) /\ p = s \o t
      BY <1>9, <1>11, <1>12, <1>13, <2>2
    <3>2. QED
      BY <3>1, Joined
  <2>4. QED
    BY <2>1, <2>3
<1>15. p[3] = type /\ p[4] = n
  <2>1. p[3] = s[3] /\ p[4] = s[4]
    BY <1>4, <1>13, <1>14
  <2>2. s[3] = h[3] /\ s[4] = h[4]
    BY <1>4, <1>11
  <2>3. QED
    BY <1>3, <1>4, <2>1, <2>2
<1>16. csp_unpack_key(p) = k
  <2>1. PICK z : z = SubSeq(p, 5, 4 + n)
    OBVIOUS
  <2>2. \A i \in 5 .. 4 + n : p[i] \in U
    BY <1>4, <1>13, <1>14
  <2>3. PICK a \in Int, b \in Int : a = 5 /\ b = 4 + n
    BY <1>4
  <2>4. /\ SubSeq(p, a, b) \in Seq(U) /\ Len(SubSeq(p, a, b)) = (IF a <= b THEN b - a + 1 ELSE 0)
        /\ \A i \in 1 .. b - a + 1 : SubSeq(p, a, b)[i] = p[a + i - 1]
    BY <2>2, <2>3, SubSeqProperties
  <2>5. z \in Seq(U) /\ Len(z) = n
    BY <1>4, <2>1, <2>3, <2>4
  <2>6. ASSUME NEW i \in 1 .. n PROVE z[i] = k[i]
    <3>1. i \in 1 .. b - a + 1 /\ a + i - 1 = i + 4
      BY <1>4, <2>3, <2>6
    <3>2. z[i] = p[i + 4]
      BY <2>1, <2>3, <2>4, <3>1
    <3>3. i + 4 \in 1 .. 4 + n /\ i + 4 \in 1 .. 4 + n + w /\ i + 4 <= 4 + n /\ ~(i + 4 <= 4)
          /\ (i + 4) - 4 = i
      BY <1>4, <1>13, <2>6
    <3>4. p[i + 4] = s[i + 4] /\ s[i + 4] = k[(i + 4) - 4]
      BY <1>11, <1>14, <3>3
    <3>5. QED
      BY <3>2, <3>3, <3>4
  <2>7. z = k
    BY <1>4, <1>5, <2>5, <2>6, SeqEqual
  <2>8. QED
    BY <1>15, <2>1, <2>7 DEF csp_unpack_key
<1>17. ASSUME type = "set" PROVE csp_unpack_value(p) = v
  <2>1. CASE v = <<>>
    <3>1. w = 0
      BY <1>9, <1>13, <2>1
    <3>2. 5 + p[4] > Len(p)
      BY <1>4, <1>14, <1>15, <3>1
    <3>3. QED
      BY <2>1, <3>2 DEF csp_unpack_value
  <2>2. CASE v # <<>>
    <3>1. w = m + 1 /\ t[1] = m /\ \A i \in 1 .. m : t[i + 1] = v[i]
      BY <1>9, <1>13, <1>17, <2>2
    <3>2. p[5 + n] = m
      <4>1. 5 + n \in 1 .. 4 + n + w /\ ~(5 + n <= 4 + n) /\ (5 + n) - (4 + n) = 1
        BY <1>4, <3>1
      <4>2. QED
        BY <1>14, <3>1, <4>1
    <3>3. ~(p[3] # "set" \/ 5 + p[4] > Len(p))
      BY <1>4, <1>14, <1>15, <1>17, <3>1
    <3>4. PICK z : z = SubSeq(p, 5 + n + 1, 5 + n + m)
      OBVIOUS
    <3>5. csp_unpack_value(p) = z
      BY <1>15, <3>2, <3>3, <3>4 DEF csp_unpack_value
    <3>6. PICK a \in Int, b \in Int : a = 5 + n + 1 /\ b = 5 + n + m
      BY <1>4
    <3>7. \A i \in a .. b : p[i] \in U
      BY <1>4, <1>13, <1>14, <3>1, <3>6
    <3>8. /\ SubSeq(p, a, b) \in Seq(U) /\ Len(SubSeq(p, a, b)) = (IF a <= b THEN b - a + 1 ELSE 0)
          /\ \A i \in 1 .. b - a + 1 : SubSeq(p, a, b)[i] = p[a + i - 1]
      BY <3>7, SubSeqProperties
    <3>9. z \in Seq(U) /\ Len(z) = m
      BY <1>4, <3>4, <3>6, <3>8
    <3>10. ASSUME NEW i \in 1 .. m PROVE z[i] = v[i]
      <4>1. i \in 1 .. b - a + 1 /\ a + i - 1 = 5 + n + i
        BY <1>4, <3>6, <3>10
      <4>2. z[i] = p[5 + n + i]
        BY <3>4, <3>6, <3>8, <4>1
      <4>3. /\ 5 + n + i \in 1 .. 4 + n + w /\ ~(5 + n + i <= 4 + n)
            /\ (5 + n + i) - (4 + n) = i + 1
        BY <1>4, <3>1, <3>10
      <4>4. p[5 + n + i] = t[i + 1]
        BY <1>14, <4>3
      <4>5. QED
        BY <3>1, <4>2, <4>4
    <3>11. z = v
      BY <1>4, <1>5, <3>9, <3>10, SeqEqual
    <3>12. QED
      BY <3>5, <3>11
  <2>3. QED
    BY <2>1, <2>2
<1>18. QED
  BY <1>15, <1>16, <1>17

LEMMA ResponseIs ==
  ASSUME NEW err \in {"succ", "err"}, NEW d
  PROVE  /\ Ndata(err)[2] = "ndata" /\ Ndata(err)[3] = err
         /\ LET r == csp_pack_resp_packet("wdata", err, d)
            IN  r[2] = "wdata" /\ r[3] = err /\ r[4] = d
<1>1. PICK U : U = {"ver", "ndata", "wdata", err, d}
  OBVIOUS
<1>2. PICK h, w, e, l : h = <<"ver", "ndata", err>> /\ w = <<"ver", "wdata", err>>
                        /\ e = <<>> /\ l = <<d>>
  OBVIOUS
<1>3. h \in Seq(U) /\ Len(h) = 3 /\ h[2] = "ndata" /\ h[3] = err
  BY <1>1, <1>2
<1>4. w \in Seq(U) /\ Len(w) = 3 /\ w[2] = "wdata" /\ w[3] = err
  BY <1>1, <1>2
<1>5. e \in Seq(U) /\ Len(e) = 0 /\ l \in Seq(U) /\ Len(l) = 1 /\ l[1] = d
  BY <1>1, <1>2
<1>6. Ndata(err) = h \o e
  BY <1>2 DEF Ndata, csp_pack_resp_packet
<1>7. csp_pack_resp_packet("wdata", err, d) = w \o l
  BY <1>2 DEF csp_pack_resp_packet
<1>8. PICK p, q : p = h \o e /\ q = w \o l
  OBVIOUS
<1>9. PICK m \in Nat, z \in Nat, o \in Nat : m = 3 /\ z = 0 /\ o = 1
  OBVIOUS
<1>10. \A i \in 1 .. m + z : p[i] = IF i <= m THEN h[i] ELSE e[i - m]
  <2>1. h \in Seq(U) /\ e \in Seq(U) /\ m = Len(h) /\ z = Len(e) /\ p = h \o e
    BY <1>3, <1>5, <1>8, <1>9
  <2>2. QED
    BY <2>1, Joined
<1>11. \A i \in 1 .. m + o : q[i] = IF i <= m THEN w[i] ELSE l[i - m]
  <2>1. w \in Seq(U) /\ l \in Seq(U) /\ m = Len(w) /\ o = Len(l) /\ q = w \o l
    BY <1>4, <1>5, <1>8, <1>9
  <2>2. QED
    BY <2>1, Joined
<1>12. p[2] = h[2] /\ p[3] = h[3]
  BY <1>9, <1>10
<1>13. q[2] = w[2] /\ q[3] = w[3] /\ q[4] = l[1]
  BY <1>9, <1>11
<1>14. QED
  BY <1>3, <1>4, <1>5, <1>6, <1>7, <1>8, <1>12, <1>13

-------------------------------------------------------------------------------
(* The command line client *)

\* The directory as csm will know it with answer r, and an answer to a "get"
\* that differs from what it knows.
Known(r) ==
  IF Succeeded(r) /\ Meaningful
  THEN CASE words[1] = "set" -> Put(mine, Path, words[3])
         [] words[1] = "del" -> Without(mine, Path)
         [] OTHER -> mine
  ELSE mine
Differs(r) ==
  /\ words[1] = "get" /\ Meaningful /\ OwnKey
  /\ IF Succeeded(r)
     THEN r[2] # "wdata" \/ ~IsLeaf(mine, Path) \/ r[4] # mine[Path]
     ELSE IsLeaf(mine, Path)

\* Two directories with the same values at all paths that are not at or below
\* one of F.
Agree(d, m, F) ==
  \A q : q \notin F /\ Prefixes(q) \cap F = {} =>
         /\ IsLeaf(d, q) <=> IsLeaf(m, q)
         /\ IsLeaf(d, q) => d[q] = m[q]

\* What csm has sent: what was typed, but for a value that is there by chance.
Sent(p) ==
  \E v \in Seq(Chars) : /\ p = csp_pack_dbreq_packet(words[2], v, words[1])
                        /\ v = words[3] \/ Path \in foreign

CmTypeOK ==
  /\ words[2] \in Keys /\ words[2] \in Seq(Chars) /\ words[3] \in Seq(Chars)
  /\ csm = "wait" => words[1] \in Commands
  /\ again \in Nat

\* Where the command under way is: not yet typed, on its way to the csd, in its
\* buffer, answered or left without an answer.
NoCommand == csm # "wait" /\ request = <<>> /\ response = <<>> /\ serving # "proceed"
             /\ Agree(dir, mine, foreign)
Requested == csm = "wait" /\ response = <<>> /\ serving # "proceed"
             /\ Agree(dir, mine, foreign) /\ \E p : request = <<p>> /\ Sent(p)
Served == csm = "wait" /\ request = <<>> /\ response = <<>> /\ serving = "proceed"
          /\ Sent(packet) /\ Agree(dir, mine, foreign)
Replied == csm = "wait" /\ request = <<>> /\ serving # "proceed"
           /\ \E r : response = <<r>> /\ Agree(dir, Known(r), foreign) /\ ~Differs(r)
Unanswered == csm = "wait" /\ request = <<>> /\ response = <<>> /\ serving # "proceed"

InStep ==
  ~lost /\ again = 0 =>
    /\ ~wrong
    /\ NoCommand \/ Requested \/ Served \/ Replied \/ Unanswered

CmInv == CmTypeOK /\ InStep

\* What a "set" and a "del" do to the value of a path.
LEMMA PutIs ==
  ASSUME NEW d, NEW p, NEW v, NEW q, q # p
  PROVE  /\ IsLeaf(Put(d, p, v), q) <=> IsLeaf(d, q)
         /\ IsLeaf(d, q) => Put(d, p, v)[q] = d[q]
BY DEF IsLeaf, Put

LEMMA PutAt ==
  ASSUME NEW d, NEW p, p \in Prefixes(p), NEW v
  PROVE  p \in DOMAIN Put(d, p, v) /\ Put(d, p, v)[p] = v
BY DEF Put

LEMMA WithoutIs ==
  ASSUME NEW d, NEW p, NEW q
  PROVE  /\ IsLeaf(Without(d, p), q) <=> IsLeaf(d, q) /\ p \notin Prefixes(q)
         /\ IsLeaf(Without(d, p), q) => Without(d, p)[q] = d[q]
BY DEF IsLeaf, Without

LEMMA AgreePut ==
  ASSUME NEW d, NEW m, NEW F, Agree(d, m, F), NEW p, p \in Prefixes(p), NEW v
  PROVE  Agree(Put(d, p, v), Put(m, p, v), F)
<1>1. SUFFICES ASSUME NEW q, q \notin F, Prefixes(q) \cap F = {}
               PROVE  /\ IsLeaf(Put(d, p, v), q) <=> IsLeaf(Put(m, p, v), q)
                      /\ IsLeaf(Put(d, p, v), q) => Put(d, p, v)[q] = Put(m, p, v)[q]
  BY DEF Agree
<1>2. CASE q = p
  BY <1>2, PutAt DEF IsLeaf
<1>3. CASE q # p
  BY <1>1, <1>3, PutIs DEF Agree
<1>4. QED
  BY <1>2, <1>3

LEMMA AgreeWithout ==
  ASSUME NEW d, NEW m, NEW F, Agree(d, m, F), NEW p
  PROVE  Agree(Without(d, p), Without(m, p), F)
BY WithoutIs DEF Agree

\* A write in F changes nothing elsewhere.
LEMMA AgreeForeign ==
  ASSUME NEW d, NEW m, NEW F, Agree(d, m, F), NEW p \in F, NEW v, NEW w
  PROVE  /\ Agree(Put(d, p, v), Put(m, p, w), F)
         /\ Agree(Put(d, p, v), m, F)
         /\ Agree(Without(d, p), m, F)
<1>1. ASSUME NEW q, q \notin F, Prefixes(q) \cap F = {} PROVE q # p /\ p \notin Prefixes(q)
  BY <1>1
<1>2. Agree(Put(d, p, v), Put(m, p, w), F)
  BY <1>1, PutIs DEF Agree
<1>3. Agree(Put(d, p, v), m, F)
  BY <1>1, PutIs DEF Agree
<1>4. Agree(Without(d, p), m, F)
  BY <1>1, WithoutIs DEF Agree
<1>5. QED
  BY <1>2, <1>3, <1>4

LEMMA AgreeMore ==
  ASSUME NEW d, NEW m, NEW F, Agree(d, m, F), NEW G, F \subseteq G
  PROVE  Agree(d, m, G)
BY DEF Agree

\* The path of a valid key is a prefix of itself.
LEMMA PathIs ==
  ASSUME CmTypeOK, Meaningful
  PROVE  Path \in Prefixes(Path)
<1>1. PICK p : p = Parts(words[2])
  OBVIOUS
<1>2. p \in Seq(Seq(Chars)) /\ Path = p
  BY <1>1, EntryIs DEF CmTypeOK, Meaningful, Path, PathOf
<1>3. PICK n : n = Len(p)
  OBVIOUS
<1>4. n \in 0 .. Len(p) /\ SubSeq(p, 1, n) = p
  BY <1>2, <1>3, SubSeqFull
<1>5. QED
  BY <1>2, <1>4 DEF Prefixes

LEMMA CmInitStep == ASSUME CmInit PROVE CmInv
<1>1. PICK v \in {<<>>, Junk} : words = <<"junk", Junk, v>>
  BY DEF CmInit
<1>2. v \in Seq(Chars) /\ Junk \in Seq(Chars)
  <2>1. Junk \in Seq(Chars)
    BY CsmAssumption
  <2>2. \A s : s = <<>> => s \in Seq(Chars)
    OBVIOUS
  <2>3. v = <<>> \/ v = Junk
    BY <1>1, Zenon
  <2>4. QED
    BY <2>1, <2>2, <2>3, Zenon
<1>3. words[2] = Junk /\ words[3] = v /\ Junk \in Keys
  BY <1>1 DEF Keys
<1>4. CmTypeOK
  <2>1. csm = "prompt" /\ again = 0
    BY DEF CmInit
  <2>2. QED
    BY <1>2, <1>3, <2>1 DEF CmTypeOK
<1>5. InStep
  BY DEF CmInit, InStep, NoCommand, Agree
<1>6. QED
  BY <1>4, <1>5 DEF CmInv

LEMMA TypeLineStep ==
  ASSUME CmInv, NEW line \in Lines, TypeLine(line)
  PROVE  CmInv'
<1>1. /\ Len(line) \in 0 .. 3 /\ \A i \in 2 .. Len(line) : line[i] \in Seq(Chars)
  BY CsmAssumption
<1>2. words' = [i \in 1 .. 3 |-> IF i <= Len(line) THEN line[i] ELSE words[i]]
  BY DEF TypeLine
<1>3. /\ words'[2] = (IF 2 <= Len(line) THEN line[2] ELSE words[2])
      /\ words'[3] = (IF 3 <= Len(line) THEN line[3] ELSE words[3])
  BY <1>2
<1>4. words'[2] \in Keys /\ words'[2] \in Seq(Chars) /\ words'[3] \in Seq(Chars)
  <2>1. 2 <= Len(line) => line[2] \in Seq(Chars) /\ line[2] \in Keys
    <3>1. SUFFICES ASSUME 2 <= Len(line) PROVE line[2] \in Seq(Chars) /\ line[2] \in Keys
      OBVIOUS
    <3>2. 2 \in 2 .. Len(line) /\ Len(line) >= 2
      BY <1>1, <3>1
    <3>3. QED
      BY <1>1, <3>2 DEF Keys
  <2>2. 3 <= Len(line) => line[3] \in Seq(Chars)
    <3>1. 3 <= Len(line) => 3 \in 2 .. Len(line)
      BY <1>1
    <3>2. QED
      BY <1>1, <3>1
  <2>3. QED
    BY <1>3, <2>1, <2>2 DEF CmInv, CmTypeOK
<1>5. again' = again /\ lost' = lost /\ serving' = serving /\ dir' = dir /\ mine' = mine
      /\ wrong' = wrong /\ response' = response
  BY DEF TypeLine, serverVars
<1>6. CmTypeOK'
  <2>1. csm' = "wait" => words'[1] \in Commands
    BY DEF TypeLine
  <2>2. QED
    BY <1>4, <1>5, <2>1 DEF CmInv, CmTypeOK
<1>7. InStep'
  <2>1. SUFFICES ASSUME ~lost, again = 0
                 PROVE  ~wrong /\ (NoCommand' \/ Requested')
    BY <1>5 DEF InStep
  <2>2. ~wrong /\ NoCommand
    <3>1. csm # "wait"
      BY DEF TypeLine
    <3>2. QED
      BY <2>1, <3>1 DEF CmInv, InStep, Requested, Served, Replied, Unanswered
  <2>3. CASE words'[1] \in Commands
    <3>1. PICK v \in Packed(words') :
            /\ request' = Append(request, csp_pack_dbreq_packet(words'[2], v, words'[1]))
            /\ foreign' = IF v = words'[3] THEN foreign ELSE foreign \cup {PathOf[words'[2]]}
      BY <2>3 DEF TypeLine
    <3>2. PICK s : s = csp_pack_dbreq_packet(words'[2], v, words'[1])
      OBVIOUS
    <3>3. csm' = "wait" /\ request' = <<s>>
      BY <2>2, <2>3, <3>1, <3>2 DEF TypeLine, NoCommand
    <3>4. v \in Seq(Chars)
      <4>1. v = <<>> \/ v = Junk \/ v = words'[3]
        BY <3>1, Zenon DEF Packed
      <4>2. \A e : e = <<>> => e \in Seq(Chars)
        OBVIOUS
      <4>3. QED
        BY <1>4, <4>1, <4>2, CsmAssumption
    <3>5. v = words'[3] \/ Path' \in foreign'
      BY <3>1 DEF Path
    <3>6. Sent(s)'
      BY <3>2, <3>4, <3>5 DEF Sent
    <3>7. Agree(dir, mine, foreign)'
      <4>1. foreign \subseteq foreign'
        BY <3>1
      <4>2. Agree(dir, mine, foreign')
        BY <2>2, <4>1, AgreeMore DEF NoCommand
      <4>3. QED
        BY <1>5, <4>2 DEF Agree
    <3>8. QED
      BY <1>5, <2>2, <3>3, <3>6, <3>7 DEF NoCommand, Requested
  <2>4. CASE ~(words'[1] \in Commands)
    <3>1. csm' # "wait" /\ request' = request /\ foreign' = foreign
      BY <2>4 DEF TypeLine
    <3>2. Agree(dir, mine, foreign)'
      BY <1>5, <2>2, <3>1 DEF NoCommand, Agree
    <3>3. QED
      BY <1>5, <2>2, <3>1, <3>2 DEF NoCommand
  <2>5. QED
    BY <2>2, <2>3, <2>4
<1>8. QED
  BY <1>6, <1>7 DEF CmInv

LEMMA TakeResponseStep ==
  ASSUME CmInv, TakeResponse
  PROVE  CmInv'
<1>1. /\ words' = words /\ request' = request /\ dir' = dir /\ serving' = serving
      /\ again' = again /\ lost' = lost /\ csm = "wait" /\ response # <<>> /\ foreign' = foreign
  BY DEF TakeResponse, serverVars
<1>2. csm' # "wait"
  BY DEF TakeResponse
<1>3. CmTypeOK'
  BY <1>1, <1>2 DEF CmInv, CmTypeOK
<1>4. ASSUME ~lost, again = 0
      PROVE  ~wrong' /\ NoCommand'
  <2>1. ~wrong /\ Replied
    BY <1>1, <1>4 DEF CmInv, InStep, NoCommand, Requested, Served, Unanswered
  <2>2. PICK r : response = <<r>> /\ Agree(dir, Known(r), foreign) /\ ~Differs(r)
    BY <2>1 DEF Replied
  <2>3. Head(response) = r /\ Tail(response) = <<>>
    BY <2>2
  <2>4. mine' = Known(r)
    BY <2>3, Zenon DEF TakeResponse, Known
  <2>5. wrong' = (wrong \/ Differs(r))
    BY <2>3, Zenon DEF TakeResponse, Differs
  <2>6. response' = <<>>
    BY <2>3 DEF TakeResponse
  <2>7. ~wrong'
    BY <2>1, <2>2, <2>5
  <2>8. Agree(dir, mine, foreign)'
    BY <1>1, <2>2, <2>4 DEF Agree
  <2>9. QED
    BY <1>1, <1>2, <2>1, <2>6, <2>7, <2>8 DEF NoCommand, Replied
<1>5. QED
  BY <1>1, <1>3, <1>4 DEF CmInv, InStep

\* What the csd takes out of the packet is what was typed, and the entry it looks
\* up is the one the key means.
LEMMA ServedIs ==
  ASSUME CmInv, Served
  PROVE  /\ words[1] \in Commands /\ packet[3] = words[1]
         /\ csp_unpack_key(packet) = words[2]
         /\ words[1] = "set" => csp_unpack_value(packet) = words[3] \/ Path \in foreign
         /\ Meaningful => Entry = Path /\ Path \in Prefixes(Path)
<1>1. /\ words[1] \in Commands /\ words[2] \in Keys /\ words[2] \in Seq(Chars)
  BY DEF CmInv, CmTypeOK, Served
<1>2. PICK v \in Seq(Chars) : /\ packet = csp_pack_dbreq_packet(words[2], v, words[1])
                              /\ v = words[3] \/ Path \in foreign
  BY DEF Served, Sent
<1>3. PICK k, type : k = words[2] /\ type = words[1]
  OBVIOUS
<1>4. /\ packet[3] = type /\ csp_unpack_key(packet) = k
      /\ type = "set" => csp_unpack_value(packet) = v
  <2>1. k \in Seq(Chars) /\ type \in Commands /\ packet = csp_pack_dbreq_packet(k, v, type)
    BY <1>1, <1>2, <1>3
  <2>2. QED
    BY <2>1, PacketIs
<1>5. Meaningful => Entry = Path /\ Path \in Prefixes(Path)
  <2>1. SUFFICES ASSUME Meaningful PROVE Entry = Path /\ Path \in Prefixes(Path)
    OBVIOUS
  <2>2. csdb_get_entry(k) = Parts(k)
    BY <1>1, <1>3, <2>1, EntryIs DEF Meaningful
  <2>3. EntryOf[k] = csdb_get_entry(k) /\ PathOf[k] = Parts(k)
    BY <1>1, <1>3 DEF EntryOf, PathOf
  <2>4. Path \in Prefixes(Path)
    BY <2>1, PathIs DEF CmInv
  <2>5. QED
    BY <1>3, <1>4, <2>2, <2>3, <2>4 DEF Entry, Path
<1>6. QED
  BY <1>1, <1>2, <1>3, <1>4, <1>5

\* The request is answered, and the answer is the right one.
LEMMA RepliedStep ==
  ASSUME CmInv, Served, NEW r, Reply(r), Agree(dir', Known(r), foreign), ~Differs(r),
         serving' = "check", UNCHANGED <<csmVars, again, request, lost>>
  PROVE  CmInv'
<1>1. /\ words' = words /\ csm' = csm /\ mine' = mine /\ wrong' = wrong /\ again' = again
      /\ request' = request /\ lost' = lost /\ foreign' = foreign
  BY DEF csmVars
<1>2. CmTypeOK'
  BY <1>1 DEF CmInv, CmTypeOK
<1>3. response' = <<r>>
  BY DEF Reply, Served
<1>4. Known(r)' = Known(r) /\ Differs(r)' = Differs(r)
  BY <1>1 DEF Known, Differs, Succeeded, Meaningful, Path, OwnKey
<1>5. Agree(dir, Known(r), foreign)'
  BY <1>1, <1>4 DEF Agree
<1>6. Replied'
  BY <1>1, <1>3, <1>4, <1>5 DEF Replied, Served
<1>7. QED
  BY <1>1, <1>2, <1>6 DEF CmInv, InStep

LEMMA ServingIs ==
  ASSUME CmInv, serving = "proceed", ~lost, again = 0
  PROVE  Served
BY DEF CmInv, InStep, NoCommand, Requested, Replied, Unanswered, Served

\* With a packet lost or proceeded twice nothing is promised.
LEMMA LooseStep ==
  ASSUME CmInv, words' = words, csm' = csm, again' \in Nat, lost' \/ again' # 0
  PROVE  CmInv'
BY DEF CmInv, CmTypeOK, InStep

LEMMA ProceedSetStep ==
  ASSUME CmInv, ProceedSet
  PROVE  CmInv'
<1>1. /\ serving = "proceed" /\ packet[3] = "set" /\ serving' = "check"
      /\ csdb_is_valid_key(csp_unpack_key(packet)) /\ UNCHANGED <<csmVars, again, request, lost>>
  BY DEF ProceedSet, Handles
<1>2. words' = words /\ csm' = csm /\ again' = again /\ lost' = lost /\ again \in Nat
  BY <1>1 DEF csmVars, CmInv, CmTypeOK
<1>3. CASE lost \/ again # 0
  BY <1>2, <1>3, LooseStep
<1>4. CASE ~lost /\ again = 0
  <2>1. Served
    BY <1>1, <1>4, ServingIs
  <2>2. PICK v : v = csp_unpack_value(packet)
    OBVIOUS
  <2>3. /\ words[1] = "set" /\ Meaningful /\ Entry = Path /\ Path \in Prefixes(Path)
        /\ v = words[3] \/ Path \in foreign
    BY <1>1, <2>1, <2>2, ServedIs DEF Meaningful
  <2>4. \A r : ~Differs(r)
    BY <2>3 DEF Differs
  <2>5. Agree(dir, mine, foreign)
    BY <2>1 DEF Served
  <2>6. CASE v # <<>>
    <3>1. dir' = Put(dir, Path, v) /\ Reply(Ndata("succ"))
      BY <2>2, <2>3, <2>6 DEF ProceedSet
    <3>2. Succeeded(Ndata("succ"))
      BY ResponseIs DEF Succeeded
    <3>3. Known(Ndata("succ")) = Put(mine, Path, words[3])
      BY <2>3, <3>2 DEF Known
    <3>4. Agree(Put(dir, Path, v), Put(mine, Path, words[3]), foreign)
      BY <2>3, <2>5, AgreePut, AgreeForeign
    <3>5. QED
      BY <1>1, <2>1, <2>4, <3>1, <3>3, <3>4, RepliedStep
  <2>7. CASE ~(v # <<>>)
    <3>1. dir' = dir /\ Reply(Ndata("err"))
      BY <2>2, <2>7 DEF ProceedSet
    <3>2. ~Succeeded(Ndata("err"))
      BY ResponseIs DEF Succeeded
    <3>3. Known(Ndata("err")) = mine
      BY <3>2 DEF Known
    <3>4. QED
      BY <1>1, <2>1, <2>4, <2>5, <3>1, <3>3, RepliedStep
  <2>8. QED
    BY <2>6, <2>7
<1>5. QED
  BY <1>3, <1>4

LEMMA ProceedGetStep ==
  ASSUME CmInv, ProceedGet
  PROVE  CmInv'
<1>1. /\ serving = "proceed" /\ packet[3] = "get" /\ serving' = "check" /\ dir' = dir
      /\ csdb_is_valid_key(csp_unpack_key(packet)) /\ UNCHANGED <<csmVars, again, request, lost>>
  BY DEF ProceedGet, Handles
<1>2. words' = words /\ csm' = csm /\ again' = again /\ lost' = lost /\ again \in Nat
  BY <1>1 DEF csmVars, CmInv, CmTypeOK
<1>3. CASE lost \/ again # 0
  BY <1>2, <1>3, LooseStep
<1>4. CASE ~lost /\ again = 0
  <2>1. Served
    BY <1>1, <1>4, ServingIs
  <2>2. words[1] = "get" /\ Meaningful /\ Entry = Path /\ Path \in Prefixes(Path)
    BY <1>1, <2>1, ServedIs DEF Meaningful
  <2>3. Agree(dir, mine, foreign)
    BY <2>1 DEF Served
  <2>4. \A r : Agree(dir', Known(r), foreign)
    BY <1>1, <2>2, <2>3 DEF Known
  <2>5. OwnKey => /\ IsLeaf(dir, Path) <=> IsLeaf(mine, Path)
                  /\ IsLeaf(dir, Path) => dir[Path] = mine[Path]
    BY <2>2, <2>3 DEF OwnKey, Agree
  <2>6. CASE IsLeaf(dir, Path)
    <3>1. PICK r : r = csp_pack_resp_packet("wdata", "succ", dir[Path])
      OBVIOUS
    <3>2. Reply(r)
      BY <2>2, <2>6, <3>1 DEF ProceedGet
    <3>3. r[2] = "wdata" /\ r[3] = "succ" /\ r[4] = dir[Path]
      BY <3>1, ResponseIs
    <3>4. ~Differs(r)
      BY <2>5, <2>6, <3>3 DEF Differs, Succeeded
    <3>5. QED
      BY <1>1, <2>1, <2>4, <3>2, <3>4, RepliedStep
  <2>7. CASE ~IsLeaf(dir, Path)
    <3>1. Reply(Ndata("err"))
      BY <2>2, <2>7 DEF ProceedGet
    <3>2. ~Succeeded(Ndata("err"))
      BY ResponseIs DEF Succeeded
    <3>3. ~Differs(Ndata("err"))
      BY <2>5, <2>7, <3>2 DEF Differs
    <3>4. QED
      BY <1>1, <2>1, <2>4, <3>1, <3>3, RepliedStep
  <2>8. QED
    BY <2>6, <2>7
<1>5. QED
  BY <1>3, <1>4

LEMMA ProceedDelStep ==
  ASSUME CmInv, ProceedDel
  PROVE  CmInv'
<1>1. /\ serving = "proceed" /\ packet[3] = "del" /\ serving' = "check"
      /\ csdb_is_valid_key(csp_unpack_key(packet)) /\ UNCHANGED <<csmVars, again, request, lost>>
  BY DEF ProceedDel, Handles
<1>2. words' = words /\ csm' = csm /\ again' = again /\ lost' = lost /\ again \in Nat
  BY <1>1 DEF csmVars, CmInv, CmTypeOK
<1>3. CASE lost \/ again # 0
  BY <1>2, <1>3, LooseStep
<1>4. CASE ~lost /\ again = 0
  <2>1. Served
    BY <1>1, <1>4, ServingIs
  <2>2. words[1] = "del" /\ Meaningful /\ Entry = Path
    BY <1>1, <2>1, ServedIs DEF Meaningful
  <2>3. \A r : ~Differs(r)
    BY <2>2 DEF Differs
  <2>4. Agree(dir, mine, foreign)
    BY <2>1 DEF Served
  <2>5. CASE Reply(Ndata("err")) /\ dir' = dir
    <3>1. ~Succeeded(Ndata("err"))
      BY ResponseIs DEF Succeeded
    <3>2. Known(Ndata("err")) = mine
      BY <3>1 DEF Known
    <3>3. QED
      BY <1>1, <2>1, <2>3, <2>4, <2>5, <3>2, RepliedStep
  <2>6. CASE Reply(Ndata("succ")) /\ dir' = Without(dir, Entry)
    <3>1. Succeeded(Ndata("succ"))
      BY ResponseIs DEF Succeeded
    <3>2. Known(Ndata("succ")) = Without(mine, Path)
      BY <2>2, <3>1 DEF Known
    <3>3. Agree(Without(dir, Path), Without(mine, Path), foreign)
      BY <2>4, AgreeWithout
    <3>4. QED
      BY <1>1, <2>1, <2>2, <2>3, <2>6, <3>2, <3>3, RepliedStep
  <2>7. QED
    BY <2>5, <2>6 DEF ProceedDel
<1>5. QED
  BY <1>3, <1>4

LEMMA ProceedLsStep ==
  ASSUME CmInv, ProceedLs
  PROVE  CmInv'
<1>1. /\ serving = "proceed" /\ packet[3] = "ls" /\ serving' = "check" /\ dir' = dir
      /\ csdb_is_valid_key(csp_unpack_key(packet)) /\ UNCHANGED <<csmVars, again, request, lost>>
  BY DEF ProceedLs, Handles
<1>2. words' = words /\ csm' = csm /\ again' = again /\ lost' = lost /\ again \in Nat
  BY <1>1 DEF csmVars, CmInv, CmTypeOK
<1>3. CASE lost \/ again # 0
  BY <1>2, <1>3, LooseStep
<1>4. CASE ~lost /\ again = 0
  <2>1. Served
    BY <1>1, <1>4, ServingIs
  <2>2. words[1] = "ls" /\ Agree(dir, mine, foreign)
    BY <1>1, <2>1, ServedIs DEF Served
  <2>3. \A r : Agree(dir', Known(r), foreign) /\ ~Differs(r)
    BY <1>1, <2>2 DEF Known, Differs
  <2>4. PICK r : Reply(r)
    BY DEF ProceedLs
  <2>5. QED
    BY <1>1, <2>1, <2>3, <2>4, RepliedStep
<1>5. QED
  BY <1>3, <1>4

LEMMA ProceedOtherStep ==
  ASSUME CmInv, ProceedOther
  PROVE  CmInv'
<1>1. /\ serving = "proceed" /\ serving' = "check" /\ dir' = dir
      /\ packet[3] = "cap" \/ ~csdb_is_valid_key(csp_unpack_key(packet))
      /\ UNCHANGED <<csmVars, again, request, lost>>
  BY DEF ProceedOther
<1>2. words' = words /\ csm' = csm /\ again' = again /\ lost' = lost /\ again \in Nat /\ wrong' = wrong
      /\ request' = request
  BY <1>1 DEF csmVars, CmInv, CmTypeOK
<1>3. CASE lost \/ again # 0
  BY <1>2, <1>3, LooseStep
<1>4. CASE ~lost /\ again = 0
  <2>1. Served
    BY <1>1, <1>4, ServingIs
  <2>2. (words[1] = "cap" \/ ~Meaningful) /\ Agree(dir, mine, foreign)
    BY <1>1, <2>1, ServedIs DEF Served, Meaningful
  <2>3. \A r : Agree(dir', Known(r), foreign) /\ ~Differs(r)
    BY <1>1, <2>2 DEF Known, Differs
  <2>4. CASE Reply(last)
    BY <1>1, <2>1, <2>3, <2>4, RepliedStep
  <2>5. CASE response' = response
    <3>1. Unanswered'
      BY <1>1, <1>2, <2>1, <2>5 DEF Unanswered, Served
    <3>2. CmTypeOK'
      BY <1>2 DEF CmInv, CmTypeOK
    <3>3. ~wrong
      BY <1>4 DEF CmInv, InStep
    <3>4. QED
      BY <1>2, <3>1, <3>2, <3>3 DEF CmInv, InStep
  <2>6. QED
    BY <2>4, <2>5 DEF ProceedOther
<1>5. QED
  BY <1>3, <1>4

\* Others write, or nobody does.
LEMMA KeptStep ==
  ASSUME CmInv, UNCHANGED <<words, csm, mine, wrong, again, request, response, lost, packet, serving>>,
         foreign \subseteq foreign',
         \A m : Agree(dir, m, foreign) => Agree(dir', m, foreign')
  PROVE  CmInv'
<1>1. /\ words' = words /\ csm' = csm /\ mine' = mine /\ wrong' = wrong /\ again' = again
      /\ request' = request /\ response' = response /\ lost' = lost /\ packet' = packet
      /\ serving' = serving
  OBVIOUS
<1>2. CmTypeOK'
  BY <1>1 DEF CmInv, CmTypeOK
<1>3. \A r : Known(r)' = Known(r)
  BY <1>1 DEF Known, Succeeded, Meaningful, Path
<1>4. \A r : Differs(r)' => Differs(r)
  BY <1>1 DEF Differs, Succeeded, Meaningful, Path, OwnKey
<1>5. \A p : Sent(p) => Sent(p)'
  BY <1>1 DEF Sent, Path
<1>6. Agree(dir, mine, foreign) => Agree(dir, mine, foreign)'
  BY <1>1 DEF Agree
<1>7. \A r : Agree(dir, Known(r), foreign) => Agree(dir, Known(r), foreign)'
  BY <1>3 DEF Agree
<1>8. (NoCommand => NoCommand') /\ (Unanswered => Unanswered')
  BY <1>1, <1>6 DEF NoCommand, Unanswered
<1>9. (Requested => Requested') /\ (Served => Served')
  BY <1>1, <1>5, <1>6 DEF Requested, Served
<1>10. Replied => Replied'
  BY <1>1, <1>4, <1>7 DEF Replied
<1>11. QED
  BY <1>1, <1>2, <1>8, <1>9, <1>10 DEF CmInv, InStep

LEMMA OtherWriterStep ==
  ASSUME CmInv, NEW p \in TheirPaths, OtherWriter(p)
  PROVE  CmInv'
<1>1. /\ UNCHANGED <<words, csm, mine, wrong, again, request, response, lost, packet, serving>>
      /\ foreign' = foreign \cup {p}
      /\ dir' = Put(dir, p, Junk) \/ dir' = Without(dir, p)
  BY DEF OtherWriter
<1>2. ASSUME NEW m, Agree(dir, m, foreign) PROVE Agree(dir', m, foreign')
  <2>1. Agree(dir, m, foreign') /\ p \in foreign'
    BY <1>1, <1>2, AgreeMore
  <2>2. QED
    BY <1>1, <2>1, AgreeForeign
<1>3. QED
  BY <1>1, <1>2, KeptStep

LEMMA PacketReceivedStep ==
  ASSUME CmInv, PacketReceived
  PROVE  CmInv'
<1>1. /\ words' = words /\ csm' = csm /\ mine' = mine /\ wrong' = wrong /\ again' = again
      /\ response' = response /\ lost' = lost /\ dir' = dir /\ foreign' = foreign
      /\ request # <<>> /\ request' = Tail(request) /\ packet' = Head(request)
      /\ serving = "receive" /\ serving' = "proceed"
  BY DEF PacketReceived, csmVars
<1>2. CmTypeOK'
  BY <1>1 DEF CmInv, CmTypeOK
<1>3. ASSUME ~lost, again = 0 PROVE ~wrong /\ Served'
  <2>1. ~wrong /\ Requested
    BY <1>1, <1>3 DEF CmInv, InStep, NoCommand, Served, Replied, Unanswered
  <2>2. PICK s : request = <<s>> /\ Sent(s)
    BY <2>1 DEF Requested
  <2>3. request' = <<>> /\ packet' = s
    BY <1>1, <2>2
  <2>4. Sent(s)'
    BY <1>1, <2>2 DEF Sent, Path
  <2>5. Sent(packet)'
    BY <2>3, <2>4 DEF Sent
  <2>6. Agree(dir, mine, foreign)'
    BY <1>1, <2>1 DEF Requested, Agree
  <2>7. QED
    BY <1>1, <2>1, <2>3, <2>5, <2>6 DEF Requested, Served
<1>4. QED
  BY <1>1, <1>2, <1>3 DEF CmInv, InStep

LEMMA PacketDoneStep ==
  ASSUME CmInv, NEW exit, PacketDone(exit)
  PROVE  CmInv'
<1>1. /\ words' = words /\ csm' = csm /\ mine' = mine /\ wrong' = wrong /\ again' = again
      /\ request' = request /\ response' = response /\ lost' = lost /\ dir' = dir
      /\ serving = "check" /\ serving' # "proceed" /\ foreign' = foreign
  BY DEF PacketDone, csmVars
<1>2. CmTypeOK'
  BY <1>1 DEF CmInv, CmTypeOK
<1>3. \A r : Known(r)' = Known(r) /\ Differs(r)' = Differs(r)
  BY <1>1 DEF Known, Differs, Succeeded, Meaningful, Path, OwnKey
<1>4. Agree(dir, mine, foreign) => Agree(dir, mine, foreign)'
  BY <1>1 DEF Agree
<1>5. \A r : Agree(dir, Known(r), foreign) => Agree(dir, Known(r), foreign)'
  BY <1>1, <1>3 DEF Agree
<1>6. ~Served
  BY <1>1 DEF Served
<1>7. (NoCommand => NoCommand') /\ (Unanswered => Unanswered')
  BY <1>1, <1>4 DEF NoCommand, Unanswered
<1>8. \A p : Sent(p) => Sent(p)'
  BY <1>1 DEF Sent, Path
<1>9. Requested => Requested'
  BY <1>1, <1>4, <1>8 DEF Requested
<1>10. Replied => Replied'
  BY <1>1, <1>3, <1>5 DEF Replied
<1>11. QED
  BY <1>1, <1>2, <1>6, <1>7, <1>9, <1>10 DEF CmInv, InStep

LEMMA CmStep ==
  ASSUME CmInv, [Next]_vars
  PROVE  CmInv'
<1>1. ASSUME UNCHANGED cmVars PROVE CmInv'
  BY <1>1, KeptStep DEF cmVars, csmVars, serverVars
<1>2. ASSUME BnOnly PROVE CmInv'
  BY <1>1, <1>2 DEF BnOnly
<1>3. CASE FindNode
  BY <1>3, KeptStep DEF FindNode, csmVars
<1>4. CASE \E line \in Lines : TypeLine(line)
  BY <1>4, TypeLineStep
<1>5. CASE Answer
  BY <1>5, TakeResponseStep DEF Answer
<1>6. CASE Packets
  BY <1>6, PacketReceivedStep, PacketDoneStep, ProceedSetStep, ProceedGetStep, ProceedDelStep,
     ProceedLsStep, ProceedOtherStep DEF Packets, Proceed
<1>7. CASE RecvInterrupted
  <2>1. words' = words /\ csm' = csm /\ again' = again + 1 /\ again \in Nat
    BY <1>7 DEF RecvInterrupted, csmVars, CmInv, CmTypeOK
  <2>2. QED
    BY <2>1, LooseStep
<1>8. CASE \E p \in TheirPaths : OtherWriter(p)
  BY <1>8, OtherWriterStep
<1>9. CASE Lose \/ PacketsEnd \/ PacketsStart
  <2>1. words' = words /\ csm' = csm /\ again' = again /\ again \in Nat /\ lost'
    BY <1>9 DEF Lose, PacketsEnd, PacketsStart, csmVars, serverVars, CmInv, CmTypeOK
  <2>2. QED
    BY <2>1, LooseStep
<1>10. CASE UNCHANGED vars
  BY <1>1, <1>10 DEF vars
<1>11. QED
  BY <1>2, <1>3, <1>4, <1>5, <1>6, <1>7, <1>8, <1>9, <1>10
     DEF Next, Best, Alarm, CsdDies, CsdEnds, CsdRestart

\* What csm and the csd keep true of the command under way, for lines, keys and values
\* of any length: a request is in one place, and while nothing was lost or proceeded
\* twice its answer is the one to what csm has typed.
THEOREM CommandInvariance == Spec => []CmInv
<1>1. Init => CmInv
  BY CmInitStep DEF Init
<1>2. CmInv /\ [Next]_vars => CmInv'
  BY CmStep
<1>3. QED
  BY <1>1, <1>2, PTL DEF Spec

\* A "get" prints what the last successful "set" of the key has put there, or an
\* error when there is none: the packets, the parser of keys and the answers fit, unless a
\* packet was proceeded twice or lost.
THEOREM ReadsWhatItWroteHolds == Spec => []ReadsWhatItWrote
<1>1. CmInv => ReadsWhatItWrote
  BY DEF CmInv, CmTypeOK, InStep, ReadsWhatItWrote
<1>2. QED
  BY <1>1, CommandInvariance, PTL
===============================================================================
