---------------------------------- MODULE Udp ----------------------------------
(***************************************************************************)
(* The datagrams two ikcd daemons exchange: process creation requests to   *)
(* port IKC_PORT and responses to the socket of the outgoing worker that   *)
(* sent the request.  UDP may deliver a datagram late, out of order, never *)
(* or, when Duplication is TRUE, several times.  A datagram that is never  *)
(* delivered is a lost one, so losing needs no action of its own.          *)
(***************************************************************************)
EXTENDS Naturals

CONSTANTS
  Hosts,        \* nodes that send requests, by host id
  Calls,        \* remote process creations asked for by the kernel
  OutWorkers,   \* outgoing worker threads of a node, by thread id
  SeqMod,       \* sequence numbers on the wire: 2^10 in the code
  Duplication   \* may the network deliver a datagram more than once?

ASSUME UdpAssumption ==
  /\ SeqMod \in Nat \ {0} /\ SeqMod <= 65536
  /\ Duplication \in BOOLEAN

VARIABLES reqNet, respNet   \* datagrams sent and deliverable

netVars == <<reqNet, respNet>>

\* Fields of struct req_argv as DKM_GET_ARGS fills it for PROC_CREAT_REQ.
Strings == {"r_node", "file_name", ""}

\* A PROC_CREAT_REQ packet as the server sees it: the sender's host id and
\* thread id and its sequence number make up the request number; call stands
\* for o_pid and o_node, the process the request is for.
RequestPackets ==
  [host: Hosts, thread: OutWorkers, seq: 0..(SeqMod - 1), call: Calls,
   o_filename: Strings, o_argv: Strings]

\* r_pid of a response: the process created for some call.
ResponsePackets ==
  [host: Hosts, thread: OutWorkers, seq: 0..(SeqMod - 1), r_pid: Calls]

NetInit == reqNet = {} /\ respNet = {}

Send(net, m) == net \cup {m}

\* What a delivery leaves in the network.
Delivered(net, m) == IF Duplication THEN net ELSE net \ {m}
===============================================================================
