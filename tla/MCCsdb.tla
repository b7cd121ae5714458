--------------------------------- MODULE MCCsdb ---------------------------------
EXTENDS Csdb, TLC

CONSTANTS reader, writer

A == <<"a">>
AA == <<"a", "a">>
AB == <<"a", "b">>

Job(op, paths) == [op : {op}, path : paths]

\* One thread lists and dumps while the other changes the tree.  The three keys
\* need three entries and share a parent that may be a leaf itself.
MCJobs ==
  reader :> Job("dump", {<<>>, A}) \cup Job("list", {A, AB}) \cup Job("get", {AB})
    @@ writer :> Job("set", {A, AA, AB}) \cup Job("append", {A, AA})
                   \cup Job("remove", {<<>>, A, AA, AB})
                   \cup Job("exist", {AB}) \cup Job("get", {A})

Symmetry == Permutations(Entries)
===============================================================================
