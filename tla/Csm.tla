---------------------------------- MODULE Csm ----------------------------------
(***************************************************************************)
(* The command line client csm and the part of the csd that serves it:     *)
(* csd_cli (csm.c), the packets of a database request and its response     *)
(* (csp.c, the same file in csm and csd), the loop of cs_receive_packets   *)
(* and cs_proceed_db_request (csd.c).                                      *)
(*                                                                         *)
(* The database is the directory of module Directory, whose calls take     *)
(* effect at one instant as Csdb shows.  A lookup that fails leaves its    *)
(* mutex locked.  A packet is the sequence of its fields and characters.   *)
(* Hello and capability packets are in Csd.                                *)
(***************************************************************************)
EXTENDS CsdbKey

CONSTANTS
  Chars,        \* characters
  Lines,        \* lines typed: sequences of at most three words
  Junk,         \* what an uninitialised buffer holds
  NoValue,      \* "value" of a key that is no leaf
  TheirPaths    \* where the csd itself writes, and other clients of it

Commands == {"set", "get", "del", "ls", "cap"}

\* The keys that can occur, where the csd looks for them and where they belong.
Keys == {Junk} \cup {line[2] : line \in {l \in Lines : Len(l) >= 2}}
EntryOf == [k \in Keys |-> csdb_get_entry(k)]
PathOf == [k \in Keys |-> Parts(k)]

ASSUME CsmAssumption ==
  /\ \A line \in Lines : /\ Len(line) \in 0 .. 3
                          /\ \A i \in 2 .. Len(line) : line[i] \in Seq(Chars)
  /\ Junk \in Seq(Chars) /\ ~csdb_is_valid_key(Junk)

VARIABLES
  dir,       \* the database: value of every key that exists
  locked,    \* csdb_root_mutex is left locked
  words,     \* csm's buffers: the command's type, its key, its value
  csm,       \* where csm is
  resp_data, \* where csm's resp_data points: nowhere, or into its buffer
  commands,  \* lines typed so far
  request,   \* packets on their way to the csd
  response,  \* packets on their way to csm
  packet,    \* receive_packets: what its buffer holds
  serving,   \* receive_packets: where it is
  last,      \* what the stack of cs_proceed_db_request holds of its last response
  mine,      \* history: the directory as csm knows it from its answers
  foreign,   \* history: where something was written that csm did not type
  wrong,     \* history: an answer to a "get" differs from mine
  again,     \* how often a packet was proceeded again, by signals
  lost       \* history: a packet was lost, or a csd with its database

csmVars == <<words, csm, resp_data, commands, mine, foreign, wrong>>
serverVars == <<dir, locked, packet, serving, last, again>>
cmVars == <<csmVars, serverVars, request, response, lost>>

JunkResponse == <<"junk", "junk", "junk">>
EmptyDir == [p \in {<<>>} |-> NoValue]

CmInit ==
  /\ dir = EmptyDir
  /\ locked = FALSE
  /\ \E v \in {<<>>, Junk} : words = <<"junk", Junk, v>>
  /\ csm = "prompt"
  /\ resp_data = "nowhere"
  /\ commands = 0
  /\ request = <<>> /\ response = <<>>
  /\ packet = <<>>
  /\ serving = "receive"
  /\ last = JunkResponse
  /\ mine = EmptyDir /\ foreign = {}
  /\ wrong = FALSE /\ again = 0 /\ lost = FALSE

-------------------------------------------------------------------------------
(* The directory, as in module Directory *)

Prefixes(p) == {SubSeq(p, 1, i) : i \in 0 .. Len(p)}
IsLeaf(d, p) == p \in DOMAIN d /\ d[p] # NoValue
Put(d, p, v) ==
  [q \in DOMAIN d \cup Prefixes(p) |->
     IF q = p THEN v ELSE IF q \in DOMAIN d THEN d[q] ELSE NoValue]
Without(d, p) == [q \in {q \in DOMAIN d : p \notin Prefixes(q)} |-> d[q]]
HasChildren(d, p) == \E q \in DOMAIN d : Len(q) = Len(p) + 1 /\ p \in Prefixes(q)

-------------------------------------------------------------------------------
(* Packets: version, kind and type; length and characters of the key, and of *)
(* the value if there is one to set.                                         *)

csp_pack_dbreq_packet(k, v, type) ==
  <<"ver", "req", type, Len(k)>> \o k
    \o (IF type = "set" /\ v # <<>> THEN <<Len(v)>> \o v ELSE <<>>)

csp_unpack_key(p) == SubSeq(p, 5, 4 + p[4])

csp_unpack_value_OneShort(p) ==
  LET at == 5 + p[4]
  IN  IF p[3] # "set" \/ at > Len(p) THEN <<>> ELSE SubSeq(p, at + 1, at + p[at] - 1)

\* A packet without a value has zeros there, the length of the value too.
csp_unpack_value(p) ==
  LET at == 5 + p[4]
  IN  IF p[3] # "set" \/ at > Len(p) THEN <<>> ELSE SubSeq(p, at + 1, at + p[at])

\* Unpacking ends the key with a zero, in the buffer: where the length of the
\* value was.
csp_unpacked(p) ==
  IF p[3] = "set" /\ Len(p) > 4 + p[4] THEN [p EXCEPT ![5 + p[4]] = 0] ELSE p

csp_pack_resp_packet(type, err, data) ==
  <<"ver", type, err>> \o (IF type = "wdata" THEN <<data>> ELSE <<>>)

Ndata(err) == csp_pack_resp_packet("ndata", err, <<>>)

-------------------------------------------------------------------------------
(* csd_cli *)

\* What the csd will find for a value.  Where none is packed there is what the
\* packet held before: zeros, but until the first line is done with anything.
Packed(w) ==
  IF w[1] = "set" /\ w[3] = <<>> /\ commands = 0 THEN {<<>>, Junk} ELSE {w[3]}

\* sscanf leaves a buffer alone for which the line has no word.  A line that
\* makes no command is answered by a message.
TypeLine(line) ==
  /\ csm = "prompt"
  /\ commands' = commands + 1
  /\ words' = [i \in 1 .. 3 |-> IF i <= Len(line) THEN line[i] ELSE words[i]]
  /\ IF words'[1] \in Commands
     THEN /\ csm' = "wait"
          /\ \E v \in Packed(words') :
               /\ request' = Append(request, csp_pack_dbreq_packet(words'[2], v, words'[1]))
               /\ foreign' = IF v = words'[3] THEN foreign
                             ELSE foreign \cup {PathOf[words'[2]]}
     ELSE /\ csm' = IF words'[1] = "quit" THEN "ended" ELSE "prompt"
          /\ UNCHANGED <<request, foreign>>
  /\ UNCHANGED <<resp_data, mine, wrong, response, serverVars, lost>>

Path == PathOf[words[2]]
Meaningful == csdb_is_valid_key(words[2])
Succeeded(r) == r[3] = "succ"
\* Nobody else has written or removed the key, or one above it.
OwnKey == Prefixes(Path) \cap foreign = {}

\* recvfrom has no timeout.  After a success csm prints what resp_data points
\* to, even when the response has no data: before the first data, whatever an
\* uninitialised pointer points to.
TakeResponse ==
  /\ csm = "wait" /\ response # <<>>
  /\ LET r == Head(response)
     IN  /\ resp_data' = IF r[2] = "wdata" THEN "buffer" ELSE resp_data
         /\ \/ csm' = "prompt"
            \/ Succeeded(r) /\ resp_data' = "nowhere" /\ csm' = "ended"
         /\ mine' =
              IF Succeeded(r) /\ Meaningful
              THEN CASE words[1] = "set" -> Put(mine, Path, words[3])
                     [] words[1] = "del" -> Without(mine, Path)
                     [] OTHER -> mine
              ELSE mine
         /\ wrong' = (\/ wrong
                      \/ /\ words[1] = "get" /\ Meaningful /\ OwnKey
                         /\ IF Succeeded(r)
                            THEN r[2] # "wdata" \/ ~IsLeaf(mine, Path) \/ r[4] # mine[Path]
                            ELSE IsLeaf(mine, Path))
  /\ response' = Tail(response)
  /\ UNCHANGED <<words, commands, foreign, request, serverVars, lost>>

\* UDP promises nothing.
Lose ==
  /\ \/ request # <<>> /\ request' = Tail(request) /\ UNCHANGED response
     \/ response # <<>> /\ response' = Tail(response) /\ UNCHANGED request
  /\ lost' = TRUE
  /\ UNCHANGED <<csmVars, serverVars>>

-------------------------------------------------------------------------------
(* cs_receive_packets and cs_proceed_db_request *)

PacketReceived ==
  /\ serving = "receive" /\ request # <<>>
  /\ packet' = Head(request)
  /\ request' = Tail(request)
  /\ serving' = "proceed"
  /\ UNCHANGED <<csmVars, dir, locked, last, again, response, lost>>

\* A signal ends recvfrom; what is in the buffer is taken for a packet.
RecvInterrupted ==
  /\ serving = "receive" /\ packet # <<>>
  /\ serving' = "proceed"
  /\ again' = again + 1
  /\ UNCHANGED <<csmVars, dir, locked, packet, last, request, response, lost>>

Reply(r) ==
  /\ last' = r
  /\ response' = Append(response, r)

Handles(type) ==
  /\ serving = "proceed" /\ packet[3] = type
  /\ csdb_is_valid_key(csp_unpack_key(packet))
  /\ serving' = "check"
  /\ packet' = csp_unpacked(packet)
  /\ UNCHANGED <<csmVars, again, request, lost>>

Entry == EntryOf[csp_unpack_key(packet)]

ProceedSet_NoReply ==
  /\ Handles("set")
  /\ LET v == csp_unpack_value(packet)
     IN  IF v # <<>>
         THEN ~locked /\ dir' = Put(dir, Entry, v) /\ Reply(Ndata("succ"))
         ELSE UNCHANGED <<dir, last, response>>
  /\ UNCHANGED locked

ProceedSet ==
  /\ Handles("set")
  /\ LET v == csp_unpack_value(packet)
     IN  IF v # <<>>
         THEN ~locked /\ dir' = Put(dir, Entry, v) /\ Reply(Ndata("succ"))
         ELSE UNCHANGED dir /\ Reply(Ndata("err"))
  /\ UNCHANGED locked

\* csdb_get_value_for_key unlocks the mutex only when it finds a value.
ProceedGet ==
  /\ Handles("get")
  /\ ~locked
  /\ IF IsLeaf(dir, Entry)
     THEN Reply(csp_pack_resp_packet("wdata", "succ", dir[Entry])) /\ UNCHANGED locked
     ELSE Reply(Ndata("err")) /\ locked' = TRUE
  /\ UNCHANGED dir

\* The root stays.
ProceedDel ==
  /\ Handles("del")
  /\ \/ /\ Entry = <<>> \/ (~locked /\ Entry \notin DOMAIN dir)
        /\ Reply(Ndata("err")) /\ UNCHANGED dir
     \/ /\ Entry # <<>> /\ ~locked /\ Entry \in DOMAIN dir
        /\ Reply(Ndata("succ")) /\ dir' = Without(dir, Entry)
  /\ UNCHANGED locked

\* csdb_get_child_names_for_key takes no lock.
ProceedLs ==
  /\ Handles("ls")
  /\ IF Entry \in DOMAIN dir /\ ~IsLeaf(dir, Entry) /\ HasChildren(dir, Entry)
     THEN Reply(csp_pack_resp_packet("wdata", "succ", <<"names">>))
     ELSE Reply(Ndata("err"))
  /\ UNCHANGED <<dir, locked>>

\* For another type, and for a key that is not valid, resp_len has no value:
\* nothing is sent, or what the stack holds.
ProceedOther ==
  /\ serving = "proceed"
  /\ packet[3] = "cap" \/ ~csdb_is_valid_key(csp_unpack_key(packet))
  /\ serving' = "check"
  /\ packet' = csp_unpacked(packet)
  /\ Reply(last) \/ UNCHANGED <<last, response>>
  /\ UNCHANGED <<csmVars, dir, locked, again, request, lost>>

PacketDone(exit) ==
  /\ serving = "check"
  /\ serving' = IF exit THEN "ended" ELSE "receive"
  /\ UNCHANGED <<csmVars, dir, locked, packet, last, again, request, response, lost>>

Proceed == ProceedSet \/ ProceedGet \/ ProceedDel \/ ProceedLs \/ ProceedOther

\* The threads of the csd set and remove keys of their own (loads, nodes that
\* are alive, capable nodes), and other clients do what this one does.
OtherWriter(p) ==
  /\ ~locked
  /\ dir' = Put(dir, p, Junk) \/ (p # <<>> /\ dir' = Without(dir, p))
  /\ foreign' = foreign \cup {p}
  /\ UNCHANGED <<words, csm, resp_data, commands, mine, wrong,
                 locked, packet, serving, last, again, request, response, lost>>

\* The csd ends, and with it the database and what its socket held; a new one
\* begins without them.
PacketsEnd ==
  /\ dir' = EmptyDir /\ locked' = FALSE
  /\ packet' = <<>> /\ serving' = "down" /\ last' = JunkResponse
  /\ request' = <<>>
  /\ lost' = TRUE
  /\ UNCHANGED <<csmVars, again, response>>

\* What was sent meanwhile is lost.
PacketsStart ==
  /\ serving = "down" /\ serving' = "receive"
  /\ request' = <<>>
  /\ lost' = TRUE
  /\ UNCHANGED <<csmVars, dir, locked, packet, last, again, response>>

-------------------------------------------------------------------------------
(* Properties *)

\* A "get" prints the value that the last successful "set" of the same key has
\* put there, and an error when there is none or a "del" above it has succeeded:
\* the csd parses, stores and answers what was typed and csm takes each answer
\* for the right command, unless a packet was proceeded twice or lost.  It is
\* about keys where nobody else has written: no other client, no thread of the
\* csd, and not csm itself what its first packet held by chance.
ReadsWhatItWrote == wrong => again > 0 \/ lost

\* The same without the exception for a signal that the csd gets in recvfrom.
ReadsWhatItWroteAlways == wrong => lost

\* csm comes back to its prompt after a command on a valid key, unless a packet
\* is lost, the mutex of the database is left locked or the csd ends.
CommandReturns ==
  (csm = "wait" /\ Meaningful /\ words[1] # "cap")
    ~> (csm # "wait" \/ locked \/ lost \/ serving = "ended")
===============================================================================
