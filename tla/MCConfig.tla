----------------------------- MODULE MCConfig -----------------------------
(* Config on a small instance: the names, their types, the documents.      *)
EXTENDS Config, TLC

CONSTANTS l1, l2, c1, c2

Symmetric == Permutations(Loaders) \cup Permutations(Clients)

Port == <<"tcp", "port">>
Size == <<"size">>
MCNames == {Port, Size}
MCTypeOf == [x \in MCNames |-> IF x = Port THEN "int" ELSE "string"]

Entry(p, v) == [path |-> p, val |-> v]

\* Both variables, after a key that is refused with all below it, an unknown
\* name and a text that is refused; and one value set directly (setValue).
\* Values for maps are their text.
MCDocs ==
    { << Entry(<<>>, Junk), Entry(<<"TCP">>, 1), Entry(<<"TCP", "port">>, 1),
         Entry(<<"tcp">>, 1), Entry(Port, Junk),
         Entry(Size, 2), Entry(Port, 2) >>,
      << Entry(Port, 1) >> }
=============================================================================
