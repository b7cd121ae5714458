------------------------------- MODULE MCClients -------------------------------
(* Small instances of Clients: keys of up to three characters, one value of   *)
(* two, lines with and without all their words.                               *)
EXTENDS Clients
CONSTANTS a, b, d

A == <<Dot, a>>
Ab == <<Dot, a, Dot, b>>
Empty == <<Dot, Dot, a>>
Root == <<Dot>>
Open == <<Dot, a, Dot>>

SomeLines ==
  {<<"set", A, <<a, b>>>>, <<"set", Ab, <<b>>>>, <<"set", Empty>>, <<"set", A>>,
   <<"get", A>>, <<"get", Ab>>, <<"get", Open>>, <<"del", A>>, <<"del", Root>>,
   <<"ls", Root>>, <<"cap">>, <<"quit">>, <<>>}
JunkWord == <<d>>
SomeChars == {Dot, a, b, d}

TheirPath == {<<<<a>>, <<b>>>>}

Session(calls_, commands_, deaths_, signals_, stop, loss, others) ==
  [calls |-> calls_, commands |-> commands_, deaths |-> deaths_,
   signals |-> signals_, stop |-> stop, loss |-> loss, others |-> others]
\* The ikcd and a csd that dies or stops; csm and a csd that is signalled, or
\* whose threads write too; both clients at once.
SomeSessions ==
  {Session(3, 0, 1, 0, TRUE, FALSE, FALSE), Session(0, 3, 0, 1, FALSE, FALSE, FALSE),
   Session(0, 3, 0, 0, FALSE, FALSE, TRUE), Session(0, 1, 1, 0, TRUE, TRUE, FALSE),
   Session(1, 1, 0, 0, TRUE, FALSE, FALSE)}
===============================================================================
