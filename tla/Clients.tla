-------------------------------- MODULE Clients --------------------------------
(***************************************************************************)
(* The two clients of a csd together: the ikcd, which asks for best nodes  *)
(* over message queues (BestNode), and csm, which sends database requests  *)
(* over UDP (Csm).  Their servers are two threads of one process, which    *)
(* share the mutex of the database and end together.                       *)
(***************************************************************************)
EXTENDS BestNode, Csm

CONSTANT Sessions   \* bounds on what happens: calls of the ikcd, lines typed,
                    \* crashes, signals in recvfrom, and whether the csd is
                    \* stopped, UDP loses packets and others write as well

ASSUME SessionsAssumption ==
  Sessions \subseteq [calls : Nat, commands : Nat, deaths : Nat, signals : Nat,
                      stop : BOOLEAN, loss : BOOLEAN, others : BOOLEAN]

VARIABLE session    \* the one of Sessions this is

vars == <<bnVars, cmVars, session>>

Init == BnInit /\ CmInit /\ session \in Sessions

\* Reads the database; a lookup that fails keeps the mutex (Csd).
FindNode ==
  /\ ~locked
  /\ ServerFound
  /\ locked' \in BOOLEAN
  /\ UNCHANGED <<csmVars, dir, packet, serving, last, again, request, response, lost,
                 session>>

BnOnly == UNCHANGED <<cmVars, session>>
CmOnly == UNCHANGED <<bnVars, session>>

Best == BnOnly /\ (GetClient \/ RmidUnassigned \/ Send \/ SetAlarm \/ Receive \/ Out)
Alarm == BnOnly /\ OnSigalrm
Packets == CmOnly /\ (PacketReceived \/ Proceed \/ PacketDone(should_exit))
Answer == CmOnly /\ TakeResponse

CsdDies ==
  /\ serving # "down"
  /\ deaths < session.deaths
  /\ ServerDies
  /\ PacketsEnd
  /\ UNCHANGED session

\* The main thread joins the threads, and the process ends.
CsdEnds ==
  /\ csda.pc = "down" /\ serving = "ended"
  /\ PacketsEnd
  /\ CmOnly

CsdRestart ==
  /\ ServerRestart
  /\ PacketsStart
  /\ UNCHANGED session

Next ==
  \/ calls < session.calls /\ GetServer /\ BnOnly
  \/ Best \/ Alarm
  \/ OnSigterm /\ BnOnly
  \/ deaths < session.deaths /\ IkcdDies /\ BnOnly
  \/ BnOnly /\ (ServerStart \/ ServerReceive \/ ServerReply \/ ServerCheck)
  \/ FindNode
  \/ session.stop /\ ServerStop /\ BnOnly
  \/ CmOnly /\ commands < session.commands /\ \E line \in Lines : TypeLine(line)
  \/ Answer \/ Packets
  \/ again < session.signals /\ RecvInterrupted /\ CmOnly
  \/ session.loss /\ Lose /\ CmOnly
  \/ session.others /\ (\E p \in TheirPaths : OtherWriter(p)) /\ CmOnly
  \/ CsdDies \/ CsdEnds \/ CsdRestart

\* The threads of the ikcd, receive_packets and csm run on, and an alarm goes
\* off in the end.  Nothing is promised of the thread that serves best nodes:
\* update_db may have left the mutex locked (Csd).
Fairness ==
  /\ WF_vars(Best) /\ WF_vars(Alarm)
  /\ WF_vars(Packets) /\ WF_vars(Answer)

Spec == Init /\ [][Next]_vars /\ Fairness
===============================================================================
