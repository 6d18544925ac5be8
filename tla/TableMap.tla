------------------------------ MODULE TableMap ------------------------------
(***************************************************************************)
(* What a table promises its users (table.h): a set of entries, at most    *)
(* one per key.                                                            *)
(***************************************************************************)
EXTENDS Integers

CONSTANTS Nodes, Key

VARIABLES entries, e

mapVars == <<entries, e>>

MapInit == entries = {} /\ e = TRUE

HasKey(k) == \E n \in entries : Key[n] = k

\* table_add: an entry whose key is taken is refused.
Add(te) ==
  /\ te \notin entries
  /\ IF HasKey(Key[te]) THEN e' = FALSE /\ UNCHANGED entries
                        ELSE e' = TRUE /\ entries' = entries \cup {te}

\* table_del
Del(te) == te \in entries /\ entries' = entries \ {te} /\ UNCHANGED e

\* ks_rb_replace_node
Swap(te, n) ==
  /\ te \in entries /\ n \notin entries /\ Key[n] = Key[te]
  /\ entries' = (entries \ {te}) \cup {n} /\ UNCHANGED e

MapNext == \E te \in Nodes : Add(te) \/ Del(te) \/ \E n \in Nodes : Swap(te, n)

MapSpec == MapInit /\ [][MapNext]_mapVars

\* No key is in the table twice, whatever is added, deleted and replaced.
KeysUnique == \A m, n \in entries : Key[m] = Key[n] => m = n

=============================================================================
