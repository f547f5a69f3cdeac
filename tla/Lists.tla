------------------------------- MODULE Lists -------------------------------
(***************************************************************************)
(* The elements of a sequence that pass a test: what the loops that walk a *)
(* list and push some of its elements onto another one compute.  It is a   *)
(* recursive function, so that it can be reasoned about (ListTheorems).    *)
(***************************************************************************)
EXTENDS Naturals, Sequences

\* The elements of s that are in T, in their order.
Only(s, T) ==
    LET kept[i \in 0..Len(s)] ==
          IF i = 0 THEN <<>>
          ELSE IF s[i] \in T THEN Append(kept[i - 1], s[i]) ELSE kept[i - 1]
    IN kept[Len(s)]
=============================================================================
