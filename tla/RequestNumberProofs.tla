-------------------------- MODULE RequestNumberProofs --------------------------
(***************************************************************************)
(* What a request number distinguishes, for every address, every six-bit   *)
(* thread id and any number of requests.                                   *)
(***************************************************************************)
EXTENDS RequestNumber, TLAPS

\* A ten-bit and a six-bit field share sixteen bits and can be told apart.
LEMMA TwoFields ==
  ASSUME NEW t \in 0 .. 63, NEW q \in 0 .. 1023
  PROVE  /\ (t * 1024 + q) % 65536 = t * 1024 + q
         /\ (t * 1024 + q) \div 1024 = t
         /\ (t * 1024 + q) % 1024 = q
OBVIOUS

\* The three shifts and masks of ikcr.c undo the two that pack a number.
LEMMA FieldsOfNumber ==
  ASSUME NEW t \in 0 .. 63, NEW s \in UShort
  PROVE  /\ ikcr_unpack_host_id(Number(t, s)) = Address.lo
         /\ ikcr_unpack_thread_id(Number(t, s)) = t
         /\ ikcr_unpack_seq_number(Number(t, s)) = s % 1024
         /\ ikcr_unpack_req_id(Number(t, s)) = ikcr_pack_request_id(t, s)
<1>1. s % 1024 \in 0 .. 1023
  BY DEF UShort
<1>2. PICK q \in 0 .. 1023 : q = s % 1024
  BY <1>1
<1>3. /\ (t * 1024 + q) % 65536 = t * 1024 + q
      /\ (t * 1024 + q) \div 1024 = t
      /\ (t * 1024 + q) % 1024 = q
  BY TwoFields
<1>4. ikcr_pack_request_id(t, s) = t * 1024 + q
  BY <1>2, <1>3 DEF ikcr_pack_request_id
<1>5. QED
  BY <1>2, <1>3, <1>4
  DEF Number, ikcr_pack_request_number, ikcr_unpack_host_id, ikcr_unpack_req_id,
      ikcr_unpack_thread_id, ikcr_unpack_seq_number

\* Two requests of a host have the same number exactly when they come from the
\* same worker and their counters agree modulo 1024.
THEOREM NumberIdentifies ==
  ASSUME NEW t \in 0 .. 63, NEW u \in 0 .. 63, NEW r \in UShort, NEW s \in UShort
  PROVE  Number(t, r) = Number(u, s) <=> t = u /\ r % 1024 = s % 1024
<1>1. ASSUME Number(t, r) = Number(u, s)
      PROVE  t = u /\ r % 1024 = s % 1024
  <2>1. /\ ikcr_unpack_thread_id(Number(t, r)) = t
        /\ ikcr_unpack_seq_number(Number(t, r)) = r % 1024
    BY FieldsOfNumber
  <2>2. /\ ikcr_unpack_thread_id(Number(u, s)) = u
        /\ ikcr_unpack_seq_number(Number(u, s)) = s % 1024
    BY FieldsOfNumber
  <2>3. QED
    BY <1>1, <2>1, <2>2
<1>2. ASSUME t = u, r % 1024 = s % 1024
      PROVE  Number(t, r) = Number(u, s)
  BY <1>2 DEF Number, ikcr_pack_request_number, ikcr_pack_request_id
<1>3. QED
  BY <1>1, <1>2

-------------------------------------------------------------------------------
\* The inductive invariant: the counter is in step with the requests issued,
\* and the number of the last request is the one packed from the counter.
NumberInv ==
  /\ seq_nbr \in [Threads -> UShort]
  /\ issued \in [Threads -> Nat]
  /\ number \in [Threads -> Halves]
  /\ CounterInStep
  /\ \A t \in Threads :
       number[t] = Number(t, IF issued[t] = 0 THEN 0 ELSE seq_nbr[t])

\* The counter of a worker steps from n - 1 to n modulo 1025.
LEMMA NextSeqSteps ==
  ASSUME NEW n \in Nat
  PROVE  /\ NextSeq(65535) = 0
         /\ NextSeq(n % 1025) = (n + 1) % 1025
<1>1. NextSeq(65535) = 0
  BY DEF NextSeq
<1>2. n % 1025 \in 0 .. 1024
  OBVIOUS
<1>3. CASE n % 1025 = 1024
  <2>1. (n + 1) % 1025 = 0
    BY <1>3
  <2>2. QED
    BY <1>1, <1>3, <2>1 DEF NextSeq
<1>4. CASE n % 1025 # 1024
  <2>1. (n + 1) % 1025 = (n % 1025) + 1
    BY <1>2, <1>4
  <2>2. ((n % 1025) + 1) % 65536 = (n % 1025) + 1
    BY <1>2
  <2>3. QED
    BY <1>1, <1>4, <2>1, <2>2 DEF NextSeq
<1>5. QED
  BY <1>3, <1>4

\* What is left of a natural number fits an unsigned short.
LEMMA ModFits ==
  ASSUME NEW n \in Nat
  PROVE  n % 1025 \in UShort /\ n % 65536 \in UShort
<1>1. n % 65536 \in Nat /\ 0 <= n % 65536 /\ n % 65536 <= 65535
  OBVIOUS
<1>2. n % 1025 \in Nat /\ 0 <= n % 1025 /\ n % 1025 <= 1024
  OBVIOUS
<1>3. n % 65536 \in UShort
  BY <1>1 DEF UShort
<1>4. n % 1025 \in UShort
  BY <1>2 DEF UShort
<1>5. QED
  BY <1>3, <1>4

\* A packed number fits its two halves.
LEMMA NumberFits ==
  ASSUME NEW t \in 0 .. 63, NEW s \in UShort
  PROVE  Number(t, s) \in Halves
<1>1. Address \in Halves
  BY NumberAssumption
<1>2. (t * 1024 + (s % 1024)) % 65536 \in UShort
  <2>1. PICK n \in Nat : n = t * 1024 + (s % 1024)
    BY DEF UShort
  <2>2. n % 65536 \in UShort
    BY ModFits
  <2>3. QED
    BY <2>1, <2>2
<1>3. QED
  BY <1>1, <1>2
  DEF Number, ikcr_pack_request_number, ikcr_pack_request_id, Halves

\* NumberInv is inductive.
LEMMA NumberInvariance == Spec => []NumberInv
<1>1. Init => NumberInv
  <2> SUFFICES ASSUME Init PROVE NumberInv
    OBVIOUS
  <2>1. \A t \in Threads : t \in 0 .. 63
    BY NumberAssumption
  <2>2. \A t \in Threads : Number(t, 0) \in Halves
    <3>1. 0 \in UShort
      BY DEF UShort
    <3>2. QED
      BY <2>1, <3>1, NumberFits
  <2>3. number \in [Threads -> Halves]
    BY <2>2 DEF Init
  <2>4. /\ seq_nbr \in [Threads -> UShort]
        /\ issued \in [Threads -> Nat]
        /\ CounterInStep
    BY NumberAssumption DEF Init, CounterInStep, UShort
  <2>5. \A t \in Threads :
          number[t] = Number(t, IF issued[t] = 0 THEN 0 ELSE seq_nbr[t])
    <3> TAKE t \in Threads
    <3>1. issued[t] = 0 /\ number[t] = Number(t, 0)
      BY DEF Init
    <3>2. QED
      BY <3>1
  <2>6. QED
    BY <2>3, <2>4, <2>5 DEF NumberInv
<1>2. NumberInv /\ [Next]_vars => NumberInv'
  <2> SUFFICES ASSUME NumberInv, [Next]_vars PROVE NumberInv'
    OBVIOUS
  <2>1. CASE UNCHANGED vars
    BY <2>1 DEF NumberInv, CounterInStep, vars
  <2>2. ASSUME NEW t \in Threads, Issue(t)
        PROVE  NumberInv'
    <3>1. t \in 0 .. 63
      BY NumberAssumption
    <3>2. /\ seq_nbr \in [Threads -> UShort]
          /\ issued \in [Threads -> Nat]
          /\ number \in [Threads -> Halves]
      BY DEF NumberInv
    <3>3. NextSeq(seq_nbr[t]) = issued[t] % 1025
      <4>1. CASE issued[t] = 0
        <5>1. seq_nbr[t] = 65535
          BY <4>1 DEF NumberInv, CounterInStep
        <5>2. NextSeq(65535) = 0
          BY DEF NextSeq
        <5>3. QED
          BY <4>1, <5>1, <5>2
      <4>2. CASE issued[t] # 0
        <5>1. issued[t] - 1 \in Nat
          BY <3>2, <4>2
        <5>2. seq_nbr[t] = (issued[t] - 1) % 1025
          BY <4>2 DEF NumberInv, CounterInStep
        <5>3. NextSeq((issued[t] - 1) % 1025) = ((issued[t] - 1) + 1) % 1025
          BY <5>1, NextSeqSteps
        <5>4. (issued[t] - 1) + 1 = issued[t]
          BY <3>2
        <5>5. QED
          BY <5>2, <5>3, <5>4
      <4>3. QED
        BY <4>1, <4>2
    <3>4. NextSeq(seq_nbr[t]) \in UShort
      <4>1. issued[t] \in Nat
        BY <3>2
      <4>2. issued[t] % 1025 \in UShort
        BY <4>1, ModFits
      <4>3. QED
        BY <3>3, <4>2
    <3>5. /\ seq_nbr' = [seq_nbr EXCEPT ![t] = NextSeq(seq_nbr[t])]
          /\ number' = [number EXCEPT ![t] = Number(t, NextSeq(seq_nbr[t]))]
          /\ issued' = [issued EXCEPT ![t] = issued[t] + 1]
          /\ issued[t] < MaxIssued
      BY <2>2 DEF Issue
    <3>6. Number(t, NextSeq(seq_nbr[t])) \in Halves
      BY <3>1, <3>4, NumberFits
    <3>7. /\ seq_nbr' \in [Threads -> UShort]
          /\ issued' \in [Threads -> Nat]
          /\ number' \in [Threads -> Halves]
      BY <3>2, <3>4, <3>5, <3>6
    <3>8. CounterInStep'
      <4> SUFFICES ASSUME NEW u \in Threads
                   PROVE  /\ issued'[u] \in 0 .. MaxIssued
                          /\ seq_nbr'[u] = IF issued'[u] = 0 THEN 65535
                                           ELSE (issued'[u] - 1) % 1025
        BY DEF CounterInStep
      <4>1. CASE u = t
        <5>1. issued'[t] = issued[t] + 1 /\ seq_nbr'[t] = issued[t] % 1025
          BY <3>2, <3>3, <3>5
        <5>2. issued[t] \in Nat /\ MaxIssued \in Nat
          BY <3>2, NumberAssumption
        <5>3. (issued[t] + 1) - 1 = issued[t] /\ issued[t] + 1 # 0
          BY <5>2
        <5>4. issued[t] + 1 \in 0 .. MaxIssued
          BY <3>5, <5>2
        <5>5. QED
          BY <4>1, <5>1, <5>3, <5>4
      <4>2. CASE u # t
        <5>1. issued'[u] = issued[u] /\ seq_nbr'[u] = seq_nbr[u]
          BY <3>2, <3>5, <4>2
        <5>2. QED
          BY <5>1 DEF NumberInv, CounterInStep
      <4>3. QED
        BY <4>1, <4>2
    <3>9. \A u \in Threads :
            number'[u] = Number(u, IF issued'[u] = 0 THEN 0 ELSE seq_nbr'[u])
      <4> TAKE u \in Threads
      <4>1. CASE u = t
        <5>1. issued'[t] # 0
          BY <3>2, <3>5
        <5>2. number'[t] = Number(t, NextSeq(seq_nbr[t]))
              /\ seq_nbr'[t] = NextSeq(seq_nbr[t])
          BY <3>2, <3>5
        <5>3. QED
          BY <4>1, <5>1, <5>2
      <4>2. CASE u # t
        <5>1. /\ issued'[u] = issued[u]
              /\ seq_nbr'[u] = seq_nbr[u]
              /\ number'[u] = number[u]
          BY <3>2, <3>5, <4>2
        <5>2. QED
          BY <5>1 DEF NumberInv
      <4>3. QED
        BY <4>1, <4>2
    <3>10. QED
      BY <3>7, <3>8, <3>9 DEF NumberInv, Number
  <2>3. QED
    BY <2>1, <2>2 DEF Next
<1>3. QED
  BY <1>1, <1>2, PTL DEF Spec

\* The counter follows the number of requests for ever, however many there are.
THEOREM CounterStaysInStep == Spec => []CounterInStep
<1>1. NumberInv => CounterInStep
  BY DEF NumberInv
<1>2. QED
  BY <1>1, NumberInvariance, PTL

\* The server always reads off a number the host, the worker and the counter
\* it was made from.
THEOREM FieldsAlwaysSurvive == Spec => []FieldsSurvive
<1>1. NumberInv => FieldsSurvive
  <2> SUFFICES ASSUME NumberInv, NEW t \in Threads, issued[t] > 0
               PROVE  /\ ikcr_unpack_host_id(number[t]) = Address.lo
                      /\ ikcr_unpack_thread_id(number[t]) = t
                      /\ ikcr_unpack_seq_number(number[t]) = seq_nbr[t] % 1024
    BY DEF FieldsSurvive
  <2>1. t \in 0 .. 63 /\ seq_nbr[t] \in UShort /\ issued[t] \in Nat
    BY NumberAssumption DEF NumberInv
  <2>2. number[t] = Number(t, seq_nbr[t])
    <3>1. issued[t] # 0
      BY <2>1
    <3>2. QED
      BY <3>1 DEF NumberInv
  <2>3. QED
    BY <2>1, <2>2, FieldsOfNumber
<1>2. QED
  BY <1>1, NumberInvariance, PTL

\* Whatever the workers of a host have sent, their numbers differ.
THEOREM WorkersStayApart == Spec => []WorkersApart
<1>1. NumberInv => WorkersApart
  <2> SUFFICES ASSUME NumberInv, NEW t \in Threads, NEW u \in Threads,
                      number[t] = number[u]
               PROVE  t = u
    BY DEF WorkersApart
  <2>1. t \in 0 .. 63 /\ u \in 0 .. 63
    BY NumberAssumption
  <2>2. PICK r \in UShort, s \in UShort :
          number[t] = Number(t, r) /\ number[u] = Number(u, s)
    <3>1. 0 \in UShort
      BY DEF UShort
    <3>2. /\ number[t] = Number(t, IF issued[t] = 0 THEN 0 ELSE seq_nbr[t])
          /\ number[u] = Number(u, IF issued[u] = 0 THEN 0 ELSE seq_nbr[u])
      BY DEF NumberInv
    <3>3. seq_nbr[t] \in UShort /\ seq_nbr[u] \in UShort
      BY DEF NumberInv
    <3>4. QED
      BY <3>1, <3>2, <3>3
  <2>3. Number(t, r) = Number(u, s)
    BY <2>2
  <2>4. Number(t, r) = Number(u, s) => t = u
    BY <2>1, NumberIdentifies
  <2>5. QED
    BY <2>3, <2>4
<1>2. QED
  BY <1>1, NumberInvariance, PTL

\* Below 1024 a step of the counter changes the number.
LEMMA NextNumberDiffers ==
  ASSUME NEW t \in 0 .. 63, NEW s \in 0 .. 1023
  PROVE  Number(t, NextSeq(s)) # Number(t, s)
<1>1. s \in UShort /\ s + 1 \in UShort
  BY DEF UShort
<1>2. NextSeq(s) = s + 1
  BY DEF NextSeq
<1>3. (s + 1) % 1024 # s % 1024
  OBVIOUS
<1>4. Number(t, s + 1) = Number(t, s) => (s + 1) % 1024 = s % 1024
  <2>1. PICK r \in UShort : r = s + 1
    BY <1>1
  <2>2. ikcr_unpack_seq_number(Number(t, r)) = r % 1024
    BY FieldsOfNumber
  <2>3. ikcr_unpack_seq_number(Number(t, s)) = s % 1024
    BY <1>1, FieldsOfNumber
  <2>4. QED
    BY <2>1, <2>2, <2>3
<1>5. QED
  BY <1>2, <1>3, <1>4

\* A worker repeats a number in its next request only by setting its counter
\* back from 1024.
THEOREM RepeatedNumbers == Spec => RepeatsOnlyAtWrap
<1> DEFINE Differs ==
      \A t \in Threads :
        /\ issued'[t] # issued[t]
        /\ issued[t] > 0
        /\ number'[t] = number[t]
        => seq_nbr[t] = 1024
<1>1. NumberInv /\ [Next]_vars => [Differs]_vars
  <2> SUFFICES ASSUME NumberInv, NEW u \in Threads, Issue(u), NEW t \in Threads,
                      issued'[t] # issued[t], issued[t] > 0,
                      number'[t] = number[t]
               PROVE  seq_nbr[t] = 1024
    BY DEF Next
  <2>1. /\ t \in 0 .. 63
        /\ seq_nbr \in [Threads -> UShort]
        /\ issued \in [Threads -> Nat]
        /\ number \in [Threads -> Halves]
    BY NumberAssumption DEF NumberInv
  <2>2. t = u
    BY <2>1 DEF Issue
  <2>3. number'[t] = Number(t, NextSeq(seq_nbr[t]))
    BY <2>1, <2>2 DEF Issue
  <2>4. issued[t] # 0
    BY <2>1
  <2>5. number[t] = Number(t, seq_nbr[t])
    BY <2>4 DEF NumberInv
  <2>6. PICK n \in Nat : seq_nbr[t] = n % 1025
    <3>1. issued[t] - 1 \in Nat
      BY <2>1, <2>4
    <3>2. seq_nbr[t] = (issued[t] - 1) % 1025
      BY <2>4 DEF NumberInv, CounterInStep
    <3>3. QED
      BY <3>1, <3>2
  <2>7. seq_nbr[t] \in 0 .. 1024
    BY <2>6
  <2>8. ASSUME seq_nbr[t] # 1024 PROVE FALSE
    <3>1. seq_nbr[t] \in 0 .. 1023
      BY <2>7, <2>8
    <3>2. PICK s \in 0 .. 1023 : s = seq_nbr[t]
      BY <3>1
    <3>3. t \in 0 .. 63
      BY <2>1
    <3>4. Number(t, NextSeq(s)) # Number(t, s)
      BY <3>3, NextNumberDiffers
    <3>5. QED
      BY <2>3, <2>5, <3>2, <3>4
  <2>9. QED
    BY <2>8
<1>2. QED
  BY <1>1, NumberInvariance, PTL DEF Spec, RepeatsOnlyAtWrap
===============================================================================
