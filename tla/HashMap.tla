------------------------------ MODULE HashMap ------------------------------
(***************************************************************************)
(* The class HashMap (libbase/export/yy_algorithm.h): keys are found by    *)
(* their hash value in a table of chains; the nodes come one after the     *)
(* other from an array, and a second list goes through all of them.  Which *)
(* keys have the same hash value is chosen at the beginning.               *)
(***************************************************************************)
EXTENDS Naturals, FiniteSets

CONSTANTS Key,
          VAR_SIZE,     \* the size of the table and of the array of nodes
          Checked       \* assert() is compiled in

HashMapAssumption == VAR_SIZE \in Nat \ {0} /\ Checked \in BOOLEAN

Hash == 0..(VAR_SIZE - 1)
Node == 0..(VAR_SIZE - 1)
NULL == VAR_SIZE        \* no node
NoKey == "none"         \* what an unused node holds

VARIABLES
  generateHashValue,    \* key -> its hash value
  m_table,              \* hash value -> the first node of its chain
  key, hash_next, next, \* the members of the nodes
  m_node_head,          \* the first node of the list of all
  m_node_index,         \* nodes in use
  asked,                \* the keys get() was called with
  outside               \* an assertion has failed or a node was taken past the array

vars == <<generateHashValue, m_table, key, hash_next, next, m_node_head,
          m_node_index, asked, outside>>

Init ==
  /\ generateHashValue \in [Key -> Hash]
  /\ m_table = [h \in Hash |-> NULL]
  /\ key = [n \in Node |-> NoKey]
  /\ hash_next = [n \in Node |-> NULL] /\ next = [n \in Node |-> NULL]
  /\ m_node_head = NULL /\ m_node_index = 0
  /\ asked = {} /\ outside = "no"

(* Deviation: only the first node of a chain is compared. *)
find_First(k) ==
  LET n == m_table[generateHashValue[k]]
  IN IF n # NULL /\ key[n] = k THEN n ELSE NULL

(* Down the chain of the key's hash value. *)
find(k) ==
  LET chain[n \in Node \cup {NULL}] ==
        IF n = NULL \/ key[n] = k THEN n ELSE chain[hash_next[n]]
  IN chain[m_table[generateHashValue[k]]]

isExist(k) == find(k) # NULL

GetPresent(k) ==
  /\ outside = "no" /\ isExist(k)
  /\ asked' = asked \cup {k}
  /\ UNCHANGED <<generateHashValue, m_table, key, hash_next, next, m_node_head,
                 m_node_index, outside>>

(* Deviation: the rest of the chain is dropped. *)
ChainNext_Lost(h) == NULL

ChainNext(h) == m_table[h]

(* Deviation: the head is moved before the new node is linked. *)
ListNext_Late(n) == n

(* Deviation: the list follows the chains. *)
ListNext_Chain(n) == hash_next'[n]

ListNext(n) == m_node_head

(* A key that is not found takes the next node, which becomes the first of *)
(* its chain and of the list of all nodes.                                 *)
GetNew(k) ==
  /\ outside = "no" /\ ~isExist(k) /\ m_node_index < VAR_SIZE
  /\ LET n == m_node_index
         h == generateHashValue[k] IN
       /\ m_node_index' = n + 1
       /\ key' = [key EXCEPT ![n] = k]
       /\ hash_next' = [hash_next EXCEPT ![n] = ChainNext(h)]
       /\ m_table' = [m_table EXCEPT ![h] = n]
       /\ next' = [next EXCEPT ![n] = ListNext(n)]
       /\ m_node_head' = n
  /\ asked' = asked \cup {k}
  /\ UNCHANGED <<generateHashValue, outside>>

(* No node is left: the assertion fails, or, without assertions, the code  *)
(* writes behind the array.                                                *)
GetFull(k) ==
  /\ outside = "no" /\ ~isExist(k) /\ m_node_index = VAR_SIZE
  /\ outside' = IF Checked THEN "assert" ELSE "written"
  /\ UNCHANGED <<generateHashValue, m_table, key, hash_next, next, m_node_head,
                 m_node_index, asked>>

Next == \E k \in Key : GetPresent(k) \/ GetNew(k) \/ GetFull(k)

Spec == Init /\ [][Next]_vars

-----------------------------------------------------------------------------
(* Every variable has its type; the lists lead to older nodes, so that all *)
(* walks end.                                                              *)
TypeOK ==
  /\ generateHashValue \in [Key -> Hash]
  /\ m_table \in [Hash -> Node \cup {NULL}]
  /\ key \in [Node -> Key \cup {NoKey}]
  /\ \A n \in Node : {hash_next[n], next[n]} \subseteq (0..(n - 1)) \cup {NULL}
  /\ m_node_head \in Node \cup {NULL} /\ m_node_index \in 0..VAR_SIZE
  /\ asked \subseteq Key /\ outside \in {"no", "assert", "written"}

Used == 0..(m_node_index - 1)

(* Exactly the keys that were asked for are found, each with one node, and *)
(* the node found has the key: no chain loses a node to a collision.       *)
FindsAsked ==
  /\ \A k \in Key : isExist(k) <=> k \in asked
  /\ \A k \in asked : key[find(k)] = k /\ find(k) \in Used
  /\ Cardinality(Used) = Cardinality(asked)

(* The list of all nodes goes through every node in use. *)
ListIsComplete ==
  LET walk[n \in Node \cup {NULL}] == IF n = NULL THEN {} ELSE {n} \cup walk[next[n]]
  IN walk[m_node_head] = Used

(* Collisions never exhaust the map: it gives up only when as many keys as *)
(* it has nodes are in it.                                                 *)
FullOfKeys == outside # "no" => Cardinality(asked) = VAR_SIZE
=============================================================================
