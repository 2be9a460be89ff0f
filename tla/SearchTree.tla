----------------------------- MODULE SearchTree -----------------------------
(***************************************************************************)
(* The class template CBsTree (libbase/export/yy_bstree.h): a binary tree  *)
(* with the larger keys on the left.  Nodes are numbered in the order in   *)
(* which they are made, so that a child has a larger number than its       *)
(* parent.  One thread uses the tree.  remove() calls a function the class *)
(* does not have, so that no program contains it.                          *)
(***************************************************************************)
EXTENDS Naturals, Sequences

CONSTANTS KEY, VALUE,
          MaxNode       \* bound: nodes

SearchTreeAssumption == KEY \subseteq Nat /\ MaxNode \in Nat

Null == 0
Node == 1..MaxNode
NodeOrNull == Node \cup {Null}

VARIABLES
  m_pRoot,
  key, val,             \* the nodes' keys and values, in the order of insertion
  left, right, parent   \* node -> node

vars == <<m_pRoot, key, val, left, right, parent>>

Init ==
  /\ m_pRoot = Null
  /\ key = <<>> /\ val = <<>>
  /\ left = [n \in Node |-> Null] /\ right = [n \in Node |-> Null]
  /\ parent = [n \in Node |-> Null]

(* Deviation: equal keys go to the left. *)
GoesLeft_Equal(n, k) == key[n] <= k

(* The comparison of insert() and of searchNode(). *)
GoesLeft(n, k) == key[n] < k

Child(n, k) == IF GoesLeft(n, k) THEN left[n] ELSE right[n]

(* Where insert() stops: the node that has no child on the side of k. *)
Place(k) ==
  LET down[n \in Node] == IF Child(n, k) = Null THEN n ELSE down[Child(n, k)]
  IN down[m_pRoot]

(* searchNode(): the first node with the key on the way down. *)
searchNode(k) ==
  LET down[n \in NodeOrNull] ==
        IF n = Null \/ key[n] = k THEN n ELSE down[Child(n, k)]
  IN down[m_pRoot]

(* Deviation: what belongs to the right is hung on the root. *)
Linked_OverRight(k, n) ==
  IF GoesLeft(Place(k), k)
  THEN left' = [left EXCEPT ![Place(k)] = n] /\ UNCHANGED right
  ELSE right' = [right EXCEPT ![m_pRoot] = n] /\ UNCHANGED left

Linked(k, n) ==
  IF GoesLeft(Place(k), k)
  THEN left' = [left EXCEPT ![Place(k)] = n] /\ UNCHANGED right
  ELSE right' = [right EXCEPT ![Place(k)] = n] /\ UNCHANGED left

insert(k, v) ==
  LET n == Len(key) + 1 IN
    /\ Len(key) < MaxNode
    /\ key' = Append(key, k) /\ val' = Append(val, v)
    /\ IF m_pRoot = Null
         THEN m_pRoot' = n /\ UNCHANGED <<left, right, parent>>
         ELSE /\ Linked(k, n)
              /\ parent' = [parent EXCEPT ![n] = Place(k)]
              /\ UNCHANGED m_pRoot

(* get() of a key that is not there inserts a local variable: of a type    *)
(* without a constructor it holds anything.  The reference the caller gets *)
(* is to the dead variable, so that nothing he writes reaches the tree.    *)
GetMissing(k) ==
  /\ searchNode(k) = Null
  /\ \E v \in VALUE : insert(k, v)

(* get() of a key that is there: the caller may write the value. *)
GetPresent(k, v) ==
  /\ searchNode(k) # Null
  /\ val' = [val EXCEPT ![searchNode(k)] = v]
  /\ UNCHANGED <<m_pRoot, key, left, right, parent>>

Next ==
  \E k \in KEY :
    \/ GetMissing(k)
    \/ \E v \in VALUE : insert(k, v) \/ GetPresent(k, v)

Spec == Init /\ [][Next]_vars

-----------------------------------------------------------------------------
Used == 1..Len(key)

(* Every variable has its type; children are younger than their parents.   *)
TypeOK ==
  /\ m_pRoot \in NodeOrNull
  /\ key \in Seq(KEY) /\ val \in Seq(VALUE) /\ Len(val) = Len(key)
  /\ \A n \in Node : left[n] \in {Null} \cup ((n + 1)..Len(key))
                  /\ right[n] \in {Null} \cup ((n + 1)..Len(key))
  /\ parent \in [Node -> NodeOrNull]

(* The nodes below n, and n. *)
Below ==
  LET tree[n \in NodeOrNull] ==
        IF n = Null THEN {} ELSE {n} \cup tree[left[n]] \cup tree[right[n]]
  IN tree

(* All nodes hang in the tree, each at its parent: larger keys to the left *)
(* of a node, equal and smaller ones to the right.                         *)
IsSearchTree ==
  /\ Below[m_pRoot] = Used
  /\ \A n \in Used :
       /\ \A l \in Below[left[n]] : key[l] > key[n]
       /\ \A r \in Below[right[n]] : key[r] <= key[n]
       /\ n # m_pRoot => n \in {left[parent[n]], right[parent[n]]}

(* A search finds the key if it is there, and of several nodes with the    *)
(* key the one that was inserted first.                                    *)
FindsOldest ==
  \A k \in KEY :
    LET with == {n \in Used : key[n] = k}
    IN IF with = {} THEN searchNode(k) = Null
       ELSE searchNode(k) \in with /\ \A n \in with : searchNode(k) <= n
=============================================================================
