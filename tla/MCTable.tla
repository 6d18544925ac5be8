------------------------------ MODULE MCTable -------------------------------
(* Table with a few keys in any order, or more of them in ascending or       *)
(* descending order.  Entries 1 to Size are their own keys, and one more     *)
(* entry shares the key of one of them.                                      *)
EXTENDS Table, TLC

CONSTANTS
  Size,  \* number of different keys
  Wide   \* the keys up to this one may come in any order

MCNodes == 0 .. Size
\* Entry 0 has the key of the middle one of the first entries.
MCKey == [n \in MCNodes |-> IF n = 0 THEN Wide \div 2 ELSE n]

InAnyOrder(te) == Members(tree) \cup {te} \subseteq 0 .. Wide

\* Filled from one end.  Entry 0 stays out.
FromOneEnd(te) == te # 0 /\ Members(tree) \in {1 .. te - 1, te + 1 .. Size}

MCNext ==
  \/ Balance
  \/ \E te \in MCNodes :
       \/ (InAnyOrder(te) \/ FromOneEnd(te)) /\ table_add(te)
       \/ table_del(te)
       \/ \E n \in MCNodes : InAnyOrder(n) /\ ks_rb_replace_node(te, n)

MCSpec == Init /\ [][MCNext]_vars

=============================================================================
