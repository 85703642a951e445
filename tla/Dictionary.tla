----------------------------- MODULE Dictionary -----------------------------
(***************************************************************************)
(* What lib/cmpsc311_hashtable.h promises: a table from index values to    *)
(* blocks.  ret records the last call and the block it returned.           *)
(***************************************************************************)
CONSTANTS Keys, Blocks, NULL

VARIABLES
  dict,  \* the blocks in the table, by index value
  ret    \* the last call, its index value, and the block it returned

Result(call, k, b) == [call |-> call, index |-> k, block |-> b]

Empty == [k \in {} |-> NULL]

Init == dict = Empty /\ ret = Result("none", NULL, NULL)

Insert(k, b) ==
  /\ k \notin DOMAIN dict
  /\ dict' = [j \in DOMAIN dict \cup {k} |-> IF j = k THEN b ELSE dict[j]]
  /\ ret' = Result("insert", k, NULL)

Lookup(k) == IF k \in DOMAIN dict THEN dict[k] ELSE NULL

Find(k) ==
  /\ ret' = Result("find", k, Lookup(k))
  /\ UNCHANGED dict

Delete(k) ==
  /\ ret' = Result("delete", k, Lookup(k))
  /\ dict' = [j \in DOMAIN dict \ {k} |-> dict[j]]

\* The table is emptied when it is cleaned up.
Clear ==
  /\ dict' = Empty
  /\ ret' = Result("none", NULL, NULL)

\* Walking the table returns blocks that are in it, NULL at the end.
Walk ==
  /\ \E b \in {dict[k] : k \in DOMAIN dict} \cup {NULL} :
       ret' = Result("iterate", NULL, b)
  /\ UNCHANGED dict

Next ==
  \/ \E k \in Keys : Find(k) \/ Delete(k) \/ \E b \in Blocks : Insert(k, b)
  \/ Clear \/ Walk

Spec == Init /\ [][Next]_<<dict, ret>>
=============================================================================
