-------------------------------- MODULE CsdbKey --------------------------------
(***************************************************************************)
(* Keys of the database as they are typed and sent: sequences of           *)
(* characters, of which only the delimiter matters.  csdb_parse_key walks  *)
(* a key with two pointers and a state and returns its parts; the path the *)
(* database looks up is that of csdb_get_entry (csdb.c).                   *)
(***************************************************************************)
EXTENDS Naturals, Sequences, FiniteSets

CONSTANT Dot      \* the character '.'

Delims(key) == {i \in 1 .. Len(key) : key[i] = Dot}

csdb_is_valid_key(key) ==
  /\ key # <<>> /\ key[1] = Dot
  /\ key[Len(key)] = Dot => Len(key) = 1

\* One pass of the loop at a character that is not the terminating one.  c and
\* begin are the positions the two pointers have, keys the parts found so far.
InToken(key, p) ==
  LET c == IF key[p.c] # Dot THEN p.c + 1 ELSE p.c
  IN  IF c > Len(key) \/ key[c] = Dot
      THEN [c |-> c, begin |-> c, state |-> 0,
            keys |-> Append(p.keys, SubSeq(key, p.begin, c - 1))]
      ELSE [p EXCEPT !.c = c]

NotInToken(key, p) ==
  IF key[p.c] = Dot
  THEN [p EXCEPT !.c = @ + 1, !.begin = @ + 1, !.state = 1]
  ELSE p

ParseStep(key, p) == IF p.state = 0 THEN NotInToken(key, p) ELSE InToken(key, p)

\* Every character takes at most two passes.
csdb_parse_key(key) ==
  LET start == [c |-> 1, begin |-> 1, state |-> 0, keys |-> <<>>]
      pass[n \in 0 .. 2 * Len(key)] ==
        IF n = 0 THEN start
        ELSE LET p == pass[n - 1]
             IN  IF p.c > Len(key) THEN p ELSE ParseStep(key, p)
  IN  IF key = <<Dot>> THEN <<key>> ELSE pass[2 * Len(key)].keys

\* The path to the entry that is found: csdb_find_child takes a part "." for the
\* root, from any entry.
csdb_get_entry(key) ==
  LET parts == csdb_parse_key(key)
      atRoot == {0} \cup {i \in 1 .. Len(parts) : parts[i] = <<Dot>>}
      lastRoot == CHOOSE i \in atRoot : \A j \in atRoot : j <= i
  IN  SubSeq(parts, lastRoot + 1, Len(parts))

-------------------------------------------------------------------------------
\* What a valid key means: the characters between one delimiter and the next.
Cuts(key) == Delims(key) \cup {Len(key) + 1}
Rank(key, i) == Cardinality({j \in Cuts(key) : j <= i})
At(key, r) == CHOOSE i \in Cuts(key) : Rank(key, i) = r

Parts(key) ==
  IF key = <<Dot>> THEN <<>>
  ELSE [r \in 1 .. Cardinality(Cuts(key)) - 1 |->
          SubSeq(key, At(key, r) + 1, At(key, r + 1) - 1)]
===============================================================================
