----------------------------- MODULE RequestNumber -----------------------------
(***************************************************************************)
(* Request numbers at the width the code gives them (ikcr.c) and the       *)
(* counters of the outgoing workers that feed them (ikcd.c).  The server   *)
(* recognises a repeated request by its number alone, so IkcIn and Ikcd,   *)
(* which write the number as host, thread and sequence number, rest on     *)
(* what is shown here.                                                     *)
(*                                                                         *)
(* The number is an unsigned int: the sender's host id in the upper        *)
(* sixteen bits, the request id (six bits thread, ten bits sequence        *)
(* number) in the lower.  It is written here as its two halves.            *)
(***************************************************************************)
EXTENDS Naturals

CONSTANTS
  Threads,    \* outgoing workers by thread id, an unsigned char: 1, 2, 3
  Address,    \* the sender's IP address as two halves, [hi |-> , lo |-> ]
  MaxIssued   \* bound on the requests of a worker

UShort == {n \in Nat : n < 65536}
Halves == [hi : UShort, lo : UShort]

ASSUME NumberAssumption ==
  /\ Threads \subseteq 0 .. 63
  /\ Address \in Halves
  /\ MaxIssued \in Nat

VARIABLES
  seq_nbr,   \* the worker's counter, an unsigned short
  number,    \* the number of its last request, as the server computes it
  issued     \* history: how many requests it has sent

vars == <<seq_nbr, number, issued>>

-------------------------------------------------------------------------------
ikcr_pack_request_id_NarrowShift(thread_id, seq) ==
  (thread_id * 512 + (seq % 1024)) % 65536

ikcr_pack_request_id_WrongMask(thread_id, seq) ==
  (thread_id * 1024 + 2 * ((seq % 1024) \div 2)) % 65536

\* (thread_id<<10)|(0x03ff & seq_number), cut to an unsigned short
ikcr_pack_request_id(thread_id, seq) ==
  (thread_id * 1024 + (seq % 1024)) % 65536

\* (ntohl(s_addr)<<16)|request_id: the upper half of the address is shifted out
ikcr_pack_request_number(addr, request_id) ==
  [hi |-> addr.lo, lo |-> request_id]

ikcr_unpack_req_id(nbr) == nbr.lo
ikcr_unpack_host_id(nbr) == nbr.hi
ikcr_unpack_thread_id(nbr) == nbr.lo \div 1024
ikcr_unpack_seq_number(nbr) == nbr.lo % 1024

Number(t, seq) ==
  ikcr_pack_request_number(Address, ikcr_pack_request_id(t, seq))

-------------------------------------------------------------------------------
\* seq_nbr = -1
Init ==
  /\ seq_nbr = [t \in Threads |-> 65535]
  /\ number = [t \in Threads |-> Number(t, 0)]
  /\ issued = [t \in Threads |-> 0]

\* The counter is set back after 1024, the sequence number after 1023.
NextSeq(s) == IF s = 1024 THEN 0 ELSE (s + 1) % 65536

\* A worker numbers its next request; sending it again keeps the number.
Issue(t) ==
  /\ issued[t] < MaxIssued
  /\ seq_nbr' = [seq_nbr EXCEPT ![t] = NextSeq(@)]
  /\ number' = [number EXCEPT ![t] = Number(t, NextSeq(seq_nbr[t]))]
  /\ issued' = [issued EXCEPT ![t] = @ + 1]

Next == \E t \in Threads : Issue(t)

Spec == Init /\ [][Next]_vars

-------------------------------------------------------------------------------
\* The counter goes through all of 0..1024 and back: n requests after the
\* start it stands where n - 1 does modulo 1025.
CounterInStep ==
  \A t \in Threads :
    /\ issued[t] \in 0 .. MaxIssued
    /\ seq_nbr[t] = IF issued[t] = 0 THEN 65535 ELSE (issued[t] - 1) % 1025

\* The server gets back from the number what the worker put into it: the host
\* id, the thread id by which the backlog list is searched and, unless it is
\* 1024, the counter.
FieldsSurvive ==
  \A t \in Threads :
    issued[t] > 0 =>
      /\ ikcr_unpack_host_id(number[t]) = Address.lo
      /\ ikcr_unpack_thread_id(number[t]) = t
      /\ ikcr_unpack_seq_number(number[t]) = seq_nbr[t] % 1024

\* No two workers of a host ever use the same number.
WorkersApart ==
  \A t, u \in Threads : number[t] = number[u] => t = u

\* Two requests of a worker that follow each other have different numbers,
\* except where the counter goes from 1024 to 0.
RepeatsOnlyAtWrap ==
  [][\A t \in Threads :
       /\ issued'[t] # issued[t]
       /\ issued[t] > 0
       /\ number'[t] = number[t]
       => seq_nbr[t] = 1024]_vars

\* Every request of a worker has another number than the one before it: the
\* server tells a new request from a repeated one by the other sequence number.
NewRequestNewNumber ==
  [][\A t \in Threads :
       issued'[t] # issued[t] /\ issued[t] > 0 => number'[t] # number[t]]_vars
===============================================================================
