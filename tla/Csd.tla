---------------------------------- MODULE Csd ----------------------------------
(***************************************************************************)
(* The threads of a csd: update_db, which asks the other nodes for their   *)
(* load and their capabilities, receive_packets, best_node, which answers  *)
(* the ikcd, send_hello, and the main thread with the signal handler for   *)
(* SIGTERM (src/src/csd: csd.c, csc.c, csda.c).  They share the database,  *)
(* its mutex, the flag cs_threads_should_exit and the static pointer in    *)
(* which strtok remembers where it stopped.                                *)
(*                                                                         *)
(* Of the database the model keeps the keys the threads decide by, for one *)
(* registered application (reg_apps.rc has one).  A call of the database   *)
(* is one step, as Csdb shows, that waits until the mutex is free.  A      *)
(* lookup of a key that is not there leaves the mutex locked.  The other   *)
(* nodes and the clients are the environment: a request to another node is *)
(* answered, truly or not, or not answered, packets and requests come at   *)
(* any time, and clients such as csm set and delete keys, those of the     *)
(* configuration too.  A request to this node itself is answered by its    *)
(* own receive_packets.                                                    *)
(***************************************************************************)
EXTENDS Naturals, Sequences, FiniteSets, Functions

CONSTANTS
  Nodes,         \* nodes of the network, by name
  Self,          \* HOSTNAME
  Capable,       \* nodes that have the libraries of the application
  Avgs,          \* load averages csda_calc_bench reads, in order
  Weight,        \* their weights, in tenths
  DefReq,        \* the requests of def_req.rc, in order
  Loads,         \* values of a load average: 0 idle, 1 busy
  Libs,          \* libraries in a capability request, in order
  LocalLibs,     \* libraries this node has
  ClientLists,   \* lists of nodes a client writes to capnodes
  Signalled,     \* threads SIGTERM is sent to
  NoKey,         \* "value" of a key that does not exist
  NoToken,       \* the null pointer as result of strtok
  NoThread,      \* owner of the mutex while it is free
  MaxRounds,     \* bound on the rounds of update_db
  MaxPackets,    \* bound on the packets that come
  MaxRequests    \* bound on the best node requests that come

Threads == {"update", "packets", "best_node", "hello", "main"}
Parsers == {"update", "packets", "best_node"}   \* threads that use strtok

\* Keys the threads look up and only clients change: .config.def_db_req,
\* .app.<name>.lib and the .lib.<name> of the libraries.
Registered == {"def_db_req", "app_lib"}
ConfKeys == Registered \cup Range(Libs)

ASSUME CsdAssumption ==
  /\ Nodes \subseteq STRING /\ Self \in Nodes /\ Capable \subseteq Nodes
  /\ Avgs \in Seq(STRING) /\ DefReq \in Seq(STRING) /\ Libs \in Seq(STRING)
  /\ \A i \in DOMAIN Avgs : Weight[i] \in Nat
  /\ Self \in Capable <=> Range(Libs) \subseteq LocalLibs
  /\ Range(DefReq) = Range(Avgs) /\ DefReq # <<>> /\ Libs # <<>>
  /\ 0 \in Loads /\ Loads \subseteq {0, 1} /\ NoKey \notin Loads /\ NoKey \notin Seq(Nodes)
  /\ NoToken \notin Nodes \cup Range(Avgs) \cup Range(Libs)
  /\ Registered \cap (Nodes \cup Range(Avgs) \cup Range(Libs) \cup LocalLibs) = {}
  /\ \A s \in ClientLists : s \in Seq(Nodes) /\ s # <<>>
  /\ NoThread \notin Threads
  /\ Signalled \subseteq {"main", "packets", "best_node"}

VARIABLES
  alive,      \* children of .alive, the newest first
  load,       \* .node.<name>.load.<avg> of every node
  capnodes,   \* .app.<name>.capnodes
  conf,       \* keys of the configuration and of libraries that are there
  mutex,      \* csdb_root_mutex
  should_exit,   \* cs_threads_should_exit
  save,       \* where strtok stopped: the rest of a string, whose, still there?
  pc,
  tok,        \* what strtok last returned to a thread
  buf,        \* the string a thread takes apart
  nodes,      \* update_db: nodes still to be asked for their load
  arb,        \* best_node: the best node so far, its bench, the bench under way
  packet,     \* receive_packets: the packet in its buffer, and a result or count
  own,        \* the request of update_db to its own node
  crashed,
  rounds, packets, requests,   \* for the bounds
  mixed,      \* history: a thread took words of the string of another one,
              \* or another one took words of its string
  spoilt,     \* history: in this round a capability request went wrong or a
              \* client changed capnodes
  claimed,    \* history: nodes a wrong answer or a client called capable
  still       \* history: no change of the database since best_node took a request

db == <<alive, load, capnodes>>
strtokVars == <<save, tok, mixed, crashed>>
bounds == <<rounds, packets, requests>>
history == <<spoilt, claimed>>
vars == <<db, conf, mutex, should_exit, strtokVars, pc, buf, nodes, arb, packet, own,
          bounds, history, still>>

Kinds == {"none", "hello", "cap", "own", "load", "capnodes", "set", "del", "other"}
Packet(kind, node) == [kind |-> kind, node |-> node, left |-> 0, ok |-> TRUE]
NoSave == [rest |-> <<>>, of |-> NoThread, freed |-> FALSE]
NoArb == [best |-> Self, max |-> 0, sum |-> 0, i |-> 1, found |-> FALSE]

\* main reads the configuration and sets the values of this node before it
\* creates the threads.
Init ==
  /\ alive = <<>>
  /\ load = [n \in Nodes |-> [a \in Range(Avgs) |-> IF n = Self THEN 0 ELSE NoKey]]
  /\ capnodes = NoKey
  /\ conf = Registered \cup LocalLibs
  /\ mutex = NoThread
  /\ should_exit = FALSE
  /\ save = NoSave
  /\ pc = [t \in Threads |-> CASE t = "update" -> "set"
                               [] t = "packets" -> "recv"
                               [] t = "best_node" -> "msgrcv"
                               [] t = "hello" -> "get"
                               [] t = "main" -> "pause"]
  /\ tok = [t \in Parsers |-> NoToken]
  /\ buf = [t \in Parsers |-> <<>>]
  /\ nodes = <<>>
  /\ arb = NoArb
  /\ packet = Packet("none", Self)
  /\ own = "none"
  /\ crashed = FALSE
  /\ rounds = 0 /\ packets = 0 /\ requests = 0
  /\ mixed = [t \in Parsers |-> FALSE]
  /\ spoilt = FALSE /\ claimed = {}
  /\ still = FALSE

-------------------------------------------------------------------------------
Goto(t, from, to) ==
  /\ ~crashed
  /\ pc[t] = from
  /\ pc' = [pc EXCEPT ![t] = to]

\* A call of a database function that releases the mutex again, and a lookup
\* that fails and returns with the mutex locked.
Locked == mutex = NoThread /\ UNCHANGED mutex
FailedLookup(t) == mutex = NoThread /\ mutex' = t
NoCall == UNCHANGED mutex

\* csc_node_not_alive, which removes the child found by its name, and the
\* csdb_set_value_for_key of a hello
WithoutNode(n) ==
  IF n \notin Range(alive) THEN alive
  ELSE LET i == CHOOSE i \in DOMAIN alive : alive[i] = n
       IN  SubSeq(alive, 1, i - 1) \o SubSeq(alive, i + 1, Len(alive))
WithNode(n) == IF n \in Range(alive) THEN alive ELSE <<n>> \o alive

\* strtok(s, delims)
StrtokFirst(t, s) ==
  /\ tok' = [tok EXCEPT ![t] = Head(s)]
  /\ save' = [rest |-> Tail(s), of |-> t, freed |-> FALSE]
  /\ mixed' = [mixed EXCEPT ![t] = FALSE]
  /\ UNCHANGED crashed

\* strtok(NULL, delims) goes on in the string some thread began last.  If that
\* string has been freed its words are still there, or they are overwritten,
\* or the read ends the process.
StrtokNext(t) ==
  /\ \/ /\ save.rest # <<>>
        /\ tok' = [tok EXCEPT ![t] = Head(save.rest)]
        /\ save' = [save EXCEPT !.rest = Tail(@)]
     \/ /\ save.rest = <<>> \/ save.freed
        /\ tok' = [tok EXCEPT ![t] = NoToken]
        /\ save' = [save EXCEPT !.rest = <<>>]
  /\ mixed' = [u \in Parsers |-> mixed[u] \/ (save.of # t /\ u \in {t, save.of})]
  /\ crashed' \in {FALSE, save.freed}

NoStrtok == UNCHANGED strtokVars

\* Threads between strtok and the end of their loop, where the pointer of
\* strtok still matters to them
InLoop == {t \in Parsers : pc[t] \in {"ask", "next", "send", "answer", "exist", "setcap",
                                      "append", "more", "alive", "bench", "lib", "libnext"}}

\* A thread frees the string it took apart.
FreeBuf(t) ==
  /\ buf' = [buf EXCEPT ![t] = <<>>]
  /\ tok' = [tok EXCEPT ![t] = NoToken]
  /\ save' = IF save.of # t THEN save
             ELSE IF InLoop \ {t} = {} THEN NoSave ELSE [save EXCEPT !.freed = TRUE]
  /\ UNCHANGED crashed

-------------------------------------------------------------------------------
\* The thread update_db: cs_update_db, csc_do_def_req_for_alive_nodes and
\* csc_update_cap_nodes_for_app.
others == <<conf, should_exit, arb, packet, packets, requests>>

\* csc_set_dynamic_values sets the load of this node.  Its calls, one for each
\* value, are one step.
SetDynamicValues ==
  /\ Goto("update", "set", "list")
  /\ Locked
  /\ \E l \in [Range(Avgs) -> Loads] : load' = [load EXCEPT ![Self] = l]
  /\ rounds' = rounds + 1
  /\ NoStrtok /\ UNCHANGED <<alive, capnodes, buf, nodes, own, others, history>>

\* The nodes are listed without the mutex.
ListNodes ==
  /\ Goto("update", "list", IF alive = <<>> THEN "libs" ELSE "conf")
  /\ nodes' = alive
  /\ NoCall /\ NoStrtok /\ UNCHANGED <<db, buf, own, others, rounds, history>>

\* A lookup of the configuration, and where it leads when the key is not there.
LookupConf(key, from, found, missing) ==
  \/ key \in conf /\ Goto("update", from, found) /\ Locked
  \/ key \notin conf /\ Goto("update", from, missing) /\ FailedLookup("update")

GetDefReq ==
  /\ LookupConf("def_db_req", "conf", "node", "libs")
  /\ NoStrtok /\ UNCHANGED <<db, buf, nodes, own, others, rounds, history>>

\* The requests are taken apart once more for every node, this one included,
\* which is not asked.
NextNode ==
  /\ nodes # <<>>
  /\ Goto("update", "node", IF Head(nodes) = Self THEN "node" ELSE "ask")
  /\ StrtokFirst("update", DefReq)
  /\ buf' = [buf EXCEPT !["update"] = DefReq]
  /\ nodes' = IF Head(nodes) = Self THEN Tail(nodes) ELSE nodes
  /\ NoCall /\ UNCHANGED <<db, own, others, rounds, history>>

NodesDone ==
  /\ nodes = <<>>
  /\ Goto("update", "node", "libs")
  /\ FreeBuf("update")
  /\ mixed' = [mixed EXCEPT !["update"] = FALSE]
  /\ NoCall /\ UNCHANGED <<db, nodes, own, others, rounds, history>>

\* cs_do_db_request_for_node: the node returns the value, and it is stored.
DbAnswered ==
  /\ Goto("update", "ask", "next")
  /\ tok["update"] \in Range(Avgs)
  /\ Locked
  /\ \E v \in Loads : load' = [load EXCEPT ![Head(nodes)][tok["update"]] = v]
  /\ NoStrtok /\ UNCHANGED <<alive, capnodes, buf, nodes, own, others, rounds, history>>

\* It returns an error, or nothing can be sent.
DbRefused ==
  /\ Goto("update", "ask", "node")
  /\ nodes' = Tail(nodes)
  /\ NoCall /\ NoStrtok /\ UNCHANGED <<db, buf, own, others, rounds, history>>

\* It does not answer in time, or recvfrom fails.
DbTimeout ==
  /\ Goto("update", "ask", "node")
  /\ Locked
  /\ alive' = WithoutNode(Head(nodes))
  /\ nodes' = Tail(nodes)
  /\ NoStrtok /\ UNCHANGED <<load, capnodes, buf, own, others, rounds, history>>

NextRequest ==
  /\ StrtokNext("update")
  /\ Goto("update", "next", IF tok'["update"] = NoToken THEN "node" ELSE "ask")
  /\ nodes' = IF tok'["update"] = NoToken THEN Tail(nodes) ELSE nodes
  /\ NoCall /\ UNCHANGED <<db, buf, own, others, rounds, history>>

\* csc_get_libs_for_app
GetLibs ==
  /\ LookupConf("app_lib", "libs", "listing", "sleep")
  /\ NoStrtok /\ UNCHANGED <<db, buf, nodes, own, others, rounds, history>>

ListAlive ==
  /\ Goto("update", "listing", "clear")
  /\ buf' = [buf EXCEPT !["update"] = alive]
  /\ NoCall /\ NoStrtok /\ UNCHANGED <<db, nodes, own, others, rounds, history>>

ClearCapNodes_Kept ==
  /\ Goto("update", "clear", IF buf["update"] = <<>> THEN "stray" ELSE "tok")
  /\ spoilt' = FALSE
  /\ Locked /\ NoStrtok /\ UNCHANGED <<db, buf, nodes, own, others, rounds, claimed>>

ClearCapNodes ==
  /\ Goto("update", "clear", IF buf["update"] = <<>> THEN "stray" ELSE "tok")
  /\ capnodes' = NoKey
  /\ spoilt' = FALSE
  /\ Locked /\ NoStrtok /\ UNCHANGED <<alive, load, buf, nodes, own, others, rounds, claimed>>

\* With no node alive, alive_nodes is freed without having a value.
FreeStray ==
  /\ Goto("update", "stray", "sleep")
  /\ crashed' \in BOOLEAN
  /\ NoCall /\ UNCHANGED <<db, save, tok, mixed, buf, nodes, own, others, rounds, history>>

FirstAlive ==
  /\ Goto("update", "tok", "send")
  /\ StrtokFirst("update", buf["update"])
  /\ NoCall /\ UNCHANGED <<db, buf, nodes, own, others, rounds, history>>

\* cs_do_cap_request_for_node.  A word that is no node's name, or a failing
\* sendto, ends the loop; a request to this node goes to receive_packets.
CapSend ==
  /\ Goto("update", "send", "answer")
  /\ tok["update"] \in Nodes
  /\ own' = IF tok["update"] = Self THEN "asked" ELSE "none"
  /\ NoCall /\ NoStrtok /\ UNCHANGED <<db, buf, nodes, others, rounds, history>>

CapUnsent ==
  /\ Goto("update", "send", "free")
  /\ spoilt' = TRUE
  /\ NoCall /\ NoStrtok /\ UNCHANGED <<db, buf, nodes, own, others, rounds, claimed>>

CapAnswered_AnyAnswer ==
  /\ Goto("update", "answer", "exist")
  /\ tok["update"] = Self => own \in {"yes", "no"}
  /\ own' = "none"
  /\ spoilt' = (spoilt \/ tok["update"] # Self)
  /\ NoCall /\ NoStrtok /\ UNCHANGED <<db, buf, nodes, others, rounds, claimed>>

\* Another node may answer wrongly: its csd has the same strtok to share, and it
\* may have been asked for the libraries a client put under .app.<name>.lib.
CapAnswered ==
  \E yes \in BOOLEAN :
    /\ Goto("update", "answer", IF yes THEN "exist" ELSE "more")
    /\ tok["update"] = Self => own = (IF yes THEN "yes" ELSE "no")
    /\ own' = "none"
    /\ spoilt' = (spoilt \/ (tok["update"] # Self /\ yes # (tok["update"] \in Capable)))
    /\ claimed' = IF yes /\ tok["update"] \notin Capable
                  THEN claimed \cup {tok["update"]} ELSE claimed
    /\ NoCall /\ NoStrtok /\ UNCHANGED <<db, buf, nodes, others, rounds>>

CapTimeout ==
  /\ Goto("update", "answer", "free")
  /\ own \notin {"yes", "no"}
  /\ Locked
  /\ alive' = WithoutNode(tok["update"])
  /\ own' = "none"
  /\ spoilt' = TRUE
  /\ NoStrtok /\ UNCHANGED <<load, capnodes, buf, nodes, others, rounds, claimed>>

\* csdb_key_exist, then csdb_append_value_for_key or csdb_set_value_for_key
CapKeyExist ==
  /\ Goto("update", "exist", IF capnodes = NoKey THEN "setcap" ELSE "append")
  /\ Locked /\ NoStrtok /\ UNCHANGED <<db, buf, nodes, own, others, rounds, history>>

\* Nothing is appended to a key that has gone since.
CapStore ==
  /\ \/ Goto("update", "setcap", "more") /\ capnodes' = <<tok["update"]>>
     \/ /\ Goto("update", "append", "more")
        /\ capnodes' = IF capnodes = NoKey THEN NoKey ELSE Append(capnodes, tok["update"])
  /\ Locked /\ NoStrtok /\ UNCHANGED <<alive, load, buf, nodes, own, others, rounds, history>>

NextAlive ==
  /\ StrtokNext("update")
  /\ Goto("update", "more", IF tok'["update"] = NoToken THEN "free" ELSE "send")
  /\ NoCall /\ UNCHANGED <<db, buf, nodes, own, others, rounds, history>>

FreeAlive ==
  /\ Goto("update", "free", "sleep")
  /\ FreeBuf("update")
  /\ mixed' = [mixed EXCEPT !["update"] = FALSE]
  /\ spoilt' = FALSE
  /\ NoCall /\ UNCHANGED <<db, nodes, own, others, rounds, claimed>>


UpdateSlept ==
  /\ Goto("update", "sleep", IF should_exit THEN "end" ELSE "set")
  /\ should_exit \/ rounds < MaxRounds
  /\ NoCall /\ NoStrtok /\ UNCHANGED <<db, buf, nodes, own, others, rounds, history>>

Update ==
  \/ SetDynamicValues \/ ListNodes \/ GetDefReq \/ NextNode \/ NodesDone
  \/ DbAnswered \/ DbRefused \/ DbTimeout \/ NextRequest
  \/ GetLibs \/ ListAlive \/ ClearCapNodes \/ FreeStray \/ FirstAlive
  \/ CapSend \/ CapUnsent \/ CapAnswered \/ CapTimeout \/ CapKeyExist \/ CapStore
  \/ NextAlive \/ FreeAlive \/ UpdateSlept

-------------------------------------------------------------------------------
\* The thread best_node: csda_best_node_server_thread, csda_best_node_for_app
\* and csda_calc_bench.
rest == <<conf, should_exit, nodes, packet, own, rounds, packets, history>>

\* A client asks for the registered application.  For any other one the key
\* does not exist either, and the answer is this node.
BnReceive ==
  /\ requests < MaxRequests
  /\ Goto("best_node", "msgrcv", "exist")
  /\ requests' = requests + 1
  /\ NoCall /\ NoStrtok /\ UNCHANGED <<db, buf, arb, rest>>

BnKeyExist ==
  /\ Goto("best_node", "exist", IF capnodes = NoKey THEN "reply" ELSE "get")
  /\ Locked /\ NoStrtok /\ UNCHANGED <<db, buf, arb, requests, rest>>

\* The key can have gone since.
BnGetCapNodes ==
  /\ \/ /\ capnodes # NoKey
        /\ Goto("best_node", "get", "tok")
        /\ buf' = [buf EXCEPT !["best_node"] = capnodes]
        /\ Locked
     \/ /\ capnodes = NoKey
        /\ Goto("best_node", "get", "reply")
        /\ FailedLookup("best_node")
        /\ UNCHANGED buf
  /\ NoStrtok /\ UNCHANGED <<db, arb, requests, rest>>

BnFirst ==
  /\ Goto("best_node", "tok", "alive")
  /\ StrtokFirst("best_node", buf["best_node"])
  /\ NoCall /\ UNCHANGED <<db, buf, arb, requests, rest>>

BnIsAlive_NotTested ==
  /\ Goto("best_node", "alive", IF tok["best_node"] \in Nodes THEN "bench" ELSE "next")
  /\ arb' = [arb EXCEPT !.sum = 0, !.i = 1]
  /\ Locked /\ NoStrtok /\ UNCHANGED <<db, buf, requests, rest>>

BnIsAlive_NoNext ==
  /\ Goto("best_node", "alive", IF tok["best_node"] \in Range(alive) THEN "bench" ELSE "alive")
  /\ arb' = [arb EXCEPT !.sum = 0, !.i = 1]
  /\ Locked /\ NoStrtok /\ UNCHANGED <<db, buf, requests, rest>>

BnIsAlive ==
  /\ Goto("best_node", "alive", IF tok["best_node"] \in Range(alive) THEN "bench" ELSE "next")
  /\ arb' = [arb EXCEPT !.sum = 0, !.i = 1]
  /\ Locked /\ NoStrtok /\ UNCHANGED <<db, buf, requests, rest>>

\* The weighted 1 / (1 + load), times twenty
Part(i, l) == (2 * Weight[i]) \div (1 + l)

\* bench > max_bench, which begins with -1
Better(a, node, bench) ==
  IF ~a.found \/ bench > a.max
  THEN [best |-> node, max |-> bench, sum |-> 0, i |-> 1, found |-> TRUE]
  ELSE [a EXCEPT !.sum = 0, !.i = 1]

\* One lookup of csda_calc_bench; after the last one the nodes are compared.
BnBench ==
  LET node == tok["best_node"]
      l == load[node][Avgs[arb.i]]
  IN  /\ pc["best_node"] = "bench" /\ l # NoKey
      /\ Locked
      /\ \/ /\ arb.i < Len(Avgs)
            /\ Goto("best_node", "bench", "bench")
            /\ arb' = [arb EXCEPT !.sum = @ + Part(arb.i, l), !.i = @ + 1]
         \/ /\ arb.i = Len(Avgs)
            /\ Goto("best_node", "bench", "next")
            /\ arb' = Better(arb, node, arb.sum + Part(arb.i, l))
      /\ NoStrtok /\ UNCHANGED <<db, buf, requests, rest>>

\* Without one of the values the bench is 0.
BnNoBench ==
  /\ Goto("best_node", "bench", "next")
  /\ load[tok["best_node"]][Avgs[arb.i]] = NoKey
  /\ FailedLookup("best_node")
  /\ arb' = Better(arb, tok["best_node"], 0)
  /\ NoStrtok /\ UNCHANGED <<db, buf, requests, rest>>

BnNext ==
  /\ StrtokNext("best_node")
  /\ Goto("best_node", "next", IF tok'["best_node"] = NoToken THEN "free" ELSE "alive")
  /\ NoCall /\ UNCHANGED <<db, buf, arb, requests, rest>>

BnFree ==
  /\ Goto("best_node", "free", "reply")
  /\ FreeBuf("best_node")
  /\ NoCall /\ UNCHANGED <<db, mixed, arb, requests, rest>>

\* msgsnd, and the test of the flag
BnReply ==
  /\ Goto("best_node", "reply", IF should_exit THEN "end" ELSE "msgrcv")
  /\ arb' = NoArb
  /\ mixed' = [mixed EXCEPT !["best_node"] = FALSE]
  /\ NoCall /\ UNCHANGED <<db, save, tok, crashed, buf, requests, rest>>

BestNode ==
  \/ BnKeyExist \/ BnGetCapNodes \/ BnFirst \/ BnIsAlive \/ BnBench \/ BnNoBench
  \/ BnNext \/ BnFree \/ BnReply

-------------------------------------------------------------------------------
\* The thread receive_packets: cs_receive_packets and the functions that
\* proceed a packet.
remain == <<conf, should_exit, nodes, arb, rounds, requests>>

HandlerOf(kind) ==
  CASE kind = "hello" -> "hello"
    [] kind \in {"cap", "own"} -> "libtok"
    [] kind \in {"load", "capnodes"} -> "lookup"
    [] kind \in {"set", "del"} -> "change"
    [] OTHER -> "flag"

\* A packet comes: the hello of a node, a capability request, a request for a
\* load value or for the capable nodes, one that sets or deletes a key, or one
\* that changes nothing (CS_LS, an invalid key, another version).
Receive ==
  /\ packets < MaxPackets
  /\ \E k \in Kinds \ {"none", "own"}, n \in Nodes :
       /\ k # "hello" => n = Self
       /\ Goto("packets", "recv", HandlerOf(k))
       /\ packet' = [Packet(k, n) EXCEPT !.left = IF k = "hello" THEN 3 ELSE 0]
  /\ packets' = packets + 1
  /\ NoCall /\ NoStrtok /\ UNCHANGED <<db, buf, own, history, remain>>

\* The request of update_db arrives.
ReceiveOwn ==
  /\ own = "asked"
  /\ Goto("packets", "recv", "libtok")
  /\ packet' = Packet("own", Self)
  /\ own' = "taken"
  /\ NoCall /\ NoStrtok /\ UNCHANGED <<db, buf, packets, history, remain>>

\* SIGHUP dumps the database and interrupts recvfrom: the packet that is still
\* in the buffer is proceeded once more; one that sets a key has no value left.
Sighup ==
  /\ packets < MaxPackets
  /\ Goto("packets", "recv", IF packet.kind = "set" THEN "flag" ELSE HandlerOf(packet.kind))
  /\ packet' = [packet EXCEPT !.left = IF packet.kind = "hello" THEN 3 ELSE 0, !.ok = TRUE]
  /\ packets' = packets + 1
  /\ Locked /\ NoStrtok /\ UNCHANGED <<db, buf, own, history, remain>>

\* cs_proceed_hello sets three values under the name of the node; what
\* csc_node_is_alive says goes to the log only.
HelloValue ==
  /\ Goto("packets", "hello", IF packet.left = 1 THEN "flag" ELSE "hello")
  /\ alive' = WithNode(packet.node)
  /\ packet' = [packet EXCEPT !.left = @ - 1]
  /\ Locked /\ NoStrtok /\ UNCHANGED <<load, capnodes, buf, own, packets, history, remain>>

\* cs_proceed_db_request for a value.
Lookup ==
  /\ Goto("packets", "lookup", "flag")
  /\ \E value \in IF packet.kind = "capnodes" THEN {capnodes}
                  ELSE {load[n][a] : n \in Nodes, a \in Range(Avgs)} :
       IF value = NoKey THEN FailedLookup("packets") ELSE Locked
  /\ NoStrtok /\ UNCHANGED <<db, buf, packet, own, packets, history, remain>>

\* cs_proceed_db_request for CS_SET and CS_DEL: a client changes the list of
\* alive nodes, a load, the list of capable nodes or the configuration.
untouched == <<buf, packet, own, packets, should_exit, nodes, arb, rounds, requests>>

ClientSet ==
  /\ packet.kind = "set"
  /\ Goto("packets", "change", "flag")
  /\ \/ /\ \E n \in Nodes : alive' = WithNode(n)
        /\ UNCHANGED <<load, capnodes, conf, history>>
     \/ /\ \E n \in Nodes, a \in Range(Avgs), v \in Loads :
             load' = [load EXCEPT ![n][a] = v]
        /\ UNCHANGED <<alive, capnodes, conf, history>>
     \/ /\ \E s \in ClientLists : capnodes' = s /\ claimed' = claimed \cup Range(s)
        /\ spoilt' = TRUE
        /\ UNCHANGED <<alive, load, conf>>
     \/ /\ \E c \in ConfKeys : conf' = conf \cup {c}
        /\ UNCHANGED <<db, history>>
  /\ Locked /\ NoStrtok /\ UNCHANGED untouched

ClientDel ==
  /\ packet.kind = "del"
  /\ Goto("packets", "change", "flag")
  /\ \/ /\ alive' = <<>> \/ \E n \in Nodes : alive' = WithoutNode(n)
        /\ UNCHANGED <<load, capnodes, conf, history>>
     \/ /\ \E n \in Nodes, a \in Range(Avgs) : load' = [load EXCEPT ![n][a] = NoKey]
        /\ UNCHANGED <<alive, capnodes, conf, history>>
     \/ /\ capnodes' = NoKey
        /\ spoilt' = TRUE
        /\ UNCHANGED <<alive, load, conf, claimed>>
     \/ /\ \E c \in ConfKeys : conf' = conf \ {c}
        /\ UNCHANGED <<db, history>>
  /\ Locked /\ NoStrtok /\ UNCHANGED untouched

\* csc_cap_to_exec
LibFirst ==
  /\ Goto("packets", "libtok", "lib")
  /\ StrtokFirst("packets", Libs)
  /\ buf' = [buf EXCEPT !["packets"] = Libs]
  /\ NoCall /\ UNCHANGED <<db, packet, own, packets, history, remain>>

LibExist ==
  /\ Goto("packets", "lib", "libnext")
  /\ packet' = [packet EXCEPT !.ok = tok["packets"] \in conf]
  /\ Locked /\ NoStrtok /\ UNCHANGED <<db, buf, own, packets, history, remain>>

LibNext ==
  /\ StrtokNext("packets")
  /\ Goto("packets", "libnext", IF tok'["packets"] # NoToken /\ packet.ok THEN "lib" ELSE "libfree")
  /\ NoCall /\ UNCHANGED <<db, buf, packet, own, packets, history, remain>>

\* The answer to a request update_db has given up goes nowhere.
CapReply ==
  /\ Goto("packets", "libfree", "flag")
  /\ FreeBuf("packets")
  /\ mixed' = [mixed EXCEPT !["packets"] = FALSE]
  /\ IF packet.kind = "own" /\ own = "taken"
     THEN /\ own' = IF packet.ok THEN "yes" ELSE "no"
          /\ spoilt' = (spoilt \/ mixed["packets"] \/ conf # Registered \cup LocalLibs)
     ELSE UNCHANGED <<own, spoilt>>
  /\ NoCall /\ UNCHANGED <<db, packet, packets, claimed, remain>>

PacketDone ==
  /\ Goto("packets", "flag", IF should_exit THEN "end" ELSE "recv")
  /\ NoCall /\ NoStrtok /\ UNCHANGED <<db, buf, packet, own, packets, history, remain>>

Packets ==
  \/ ReceiveOwn \/ HelloValue \/ Lookup \/ ClientSet \/ ClientDel
  \/ LibFirst \/ LibExist \/ LibNext \/ CapReply \/ PacketDone

-------------------------------------------------------------------------------
\* The threads send_hello and main, and SIGTERM.
quiet == <<db, conf, strtokVars, buf, nodes, arb, packet, own, bounds, history>>

\* A round of cs_send_hello_loop.  The lookups are one step: their values go into
\* the packet only.
Hello ==
  /\ \A a \in Range(Avgs) : load[Self][a] # NoKey
  /\ Goto("hello", "get", IF should_exit THEN "end" ELSE "get")
  /\ Locked /\ UNCHANGED <<should_exit, quiet>>

\* A client has deleted a value: the lookup keeps the mutex, and the next one of
\* this thread waits for it, in this round or the next.
HelloFails ==
  /\ \E a \in Range(Avgs) : load[Self][a] = NoKey
  /\ Goto("hello", "get", IF should_exit THEN "end" ELSE "get") \/ Goto("hello", "get", "get")
  /\ FailedLookup("hello") /\ UNCHANGED <<should_exit, quiet>>

Handler == {"dump", "raise", "join", "exit", "end"}

\* The signal interrupts a thread that does not block it.
Sigterm ==
  /\ ~crashed
  /\ \E t \in Signalled : pc[t] \notin Handler /\ pc' = [pc EXCEPT ![t] = "dump"]
  /\ NoCall /\ UNCHANGED <<should_exit, quiet>>

\* cs_on_sigterm: the dump locks the mutex.
DumpDb(t) ==
  /\ Goto(t, "dump", "raise")
  /\ Locked /\ UNCHANGED <<should_exit, quiet>>

RaiseFlag(t) ==
  /\ Goto(t, "raise", IF t = "main" THEN "join" ELSE "end")
  /\ should_exit' = TRUE
  /\ NoCall /\ UNCHANGED quiet

JoinThreads ==
  /\ \A t \in Threads \ {"main"} : pc[t] = "end"
  /\ Goto("main", "join", "exit")
  /\ NoCall /\ UNCHANGED <<should_exit, quiet>>

OnSigterm(t) == DumpDb(t) \/ RaiseFlag(t)

-------------------------------------------------------------------------------
\* No change of the database since best_node took its request
History ==
  still' = IF pc'["best_node"] \in {"msgrcv", "end"} THEN FALSE
           ELSE (still \/ pc["best_node"] = "msgrcv") /\ db' = db

Next ==
  /\ \/ Update \/ BnReceive \/ BestNode \/ Receive \/ Sighup \/ Packets
     \/ Hello \/ HelloFails \/ Sigterm \/ (\E t \in Signalled : OnSigterm(t)) \/ JoinThreads
  /\ History

\* Every thread gets the processor, and a request to a node ends after five
\* seconds.  Packets, requests and signals come or not.
Spec ==
  /\ Init /\ [][Next]_vars
  /\ WF_vars(Update /\ History)
  /\ WF_vars(BestNode /\ History)
  /\ WF_vars(Packets /\ History)
  /\ WF_vars((Hello \/ HelloFails) /\ History)
  /\ \A t \in {"main", "packets", "best_node"} : WF_vars(OnSigterm(t) /\ History)
  /\ WF_vars(JoinThreads /\ History)

-------------------------------------------------------------------------------
Tokens == Nodes \cup Range(Avgs) \cup Range(Libs) \cup {NoToken}

\* The type of the state; the words strtok returns come from one of the three
\* strings.
CsdTypeOK ==
  /\ Range(alive) \subseteq Nodes
  /\ load \in [Nodes -> [Range(Avgs) -> Loads \cup {NoKey}]]
  /\ capnodes = NoKey \/ Range(capnodes) \subseteq Nodes
  /\ conf \subseteq ConfKeys \cup LocalLibs
  /\ mutex \in {NoThread, "best_node", "packets", "update", "hello"}
  /\ should_exit \in BOOLEAN /\ crashed \in BOOLEAN
  /\ Range(save.rest) \subseteq Tokens /\ save.of \in Parsers \cup {NoThread}
  /\ tok \in [Parsers -> Tokens]
  /\ Range(nodes) \subseteq Nodes
  /\ arb.best \in Nodes /\ arb.i \in 1 .. Len(Avgs)
  /\ packet.kind \in Kinds /\ packet.left \in 0 .. 3
  /\ own \in {"none", "asked", "taken", "yes", "no"}
  /\ mixed \in [Parsers -> BOOLEAN] /\ spoilt \in BOOLEAN /\ still \in BOOLEAN
  /\ claimed \subseteq Nodes

\* The value of capnodes is the capable ones of the first k nodes of a list, in
\* its order.
Found(list, k) ==
  LET capable == {i \in 1 .. k : list[i] \in Capable}
  IN  IF capable = {} THEN capnodes = NoKey
      ELSE /\ capnodes # NoKey
           /\ Range(capnodes) = {list[i] : i \in capable}
           /\ \A a, b \in DOMAIN capnodes : a < b =>
                \E i, j \in capable : i < j /\ list[i] = capnodes[a] /\ list[j] = capnodes[b]

\* csc_update_cap_nodes_for_app finds exactly the capable ones of the nodes it
\* listed, in their order, whatever happens to the alive nodes, the loads and the
\* configuration meanwhile, if every other node answered truly, no client
\* changed the list itself or the libraries of this node, and no other thread
\* used strtok in the midst of it.
CapNodesFound ==
  pc["update"] = "free" /\ ~spoilt /\ ~mixed["update"] =>
    Found(buf["update"], Len(buf["update"]))

\* "search all capable nodes which can execute a given application": the same,
\* whatever the other threads do.
CapNodesFoundAlways ==
  pc["update"] = "free" /\ ~spoilt =>
    \A n \in Range(buf["update"]) \cap Capable : capnodes # NoKey /\ n \in Range(capnodes)

\* The node best_node answers with can execute the application, is this one, or
\* is one that a wrong answer or a client once called capable, however old the
\* list of capable nodes is and whatever update_db makes of the words of others
\* (csda_best_node_for_app).
BestIsCapable ==
  pc["best_node"] = "reply" /\ ~mixed["best_node"] =>
    arb.best \in Capable \cup {Self} \cup claimed

Bench(n) ==
  LET upto[i \in 0 .. Len(Avgs)] ==
        IF i = 0 THEN 0 ELSE upto[i - 1] + Part(i, load[n][Avgs[i]])
  IN  upto[Len(Avgs)]

\* Over a database that did not change meanwhile, csda_best_node_for_app returns
\* an alive capable node of the greatest bench, or this node if there is none.
BestIsBest ==
  pc["best_node"] = "reply" /\ still /\ ~mixed["best_node"] /\ mutex # "best_node" =>
    LET candidates == IF capnodes = NoKey THEN {} ELSE Range(capnodes) \cap Range(alive)
    IN  IF candidates = {} THEN arb.best = Self
        ELSE /\ arb.best \in candidates
             /\ \A n \in candidates : Bench(n) <= Bench(arb.best)

Stuck == crashed \/ mutex # NoThread

\* A best node request is answered, unless the process crashes, a failed lookup
\* has locked the database for good, or the thread is terminated.
RequestServed ==
  pc["best_node"] = "exist" ~> pc["best_node"] \in {"reply"} \cup Handler \/ Stuck


===============================================================================
