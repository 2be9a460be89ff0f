------------------------------ MODULE FreeList ------------------------------
(***************************************************************************)
(* The class template FreeList (libbase/export/yy_freelist.h): elements    *)
(* that were freed are kept in a linked list and given out again.          *)
(* allocElem() looks at the list before it takes the lock and again after. *)
(* Nodes are numbered in the order in which new makes them; Null ends the  *)
(* list.  The destructor runs when no call is under way.                   *)
(***************************************************************************)
EXTENDS Naturals, FiniteSets

CONSTANTS Thread,
          MaxNode       \* bound: nodes the threads make

FreeListAssumption == MaxNode \in Nat

Null == 0
Node == 1..MaxNode
NodeOrNull == Node \cup {Null}

VARIABLES
  free_list_,           \* the head of the list
  next_node_,           \* node -> the node behind it
  nodes,                \* nodes that were made
  deleted,              \* nodes given back to the heap
  lock_,                \* the owner of the lock, as a set
  pc,                   \* where each thread is
  p,                    \* the pointer in a thread's hands
  owner,                \* node -> the threads that use its element
  ended                 \* "no", "clear" in the destructor, "done", "wild"

vars == <<free_list_, next_node_, nodes, deleted, lock_, pc, p, owner, ended>>

Init ==
  /\ free_list_ = Null
  /\ next_node_ = [n \in Node |-> Null]
  /\ nodes = {} /\ deleted = {}
  /\ lock_ = {}
  /\ pc = [t \in Thread |-> "idle"] /\ p = [t \in Thread |-> Null]
  /\ owner = [n \in Node |-> {}]
  /\ ended = "no"

Goes(t, place) == pc' = [pc EXCEPT ![t] = place]

(* allocElem returns the element of node n to thread t. *)
Gives(t, n) == owner' = [owner EXCEPT ![n] = @ \cup {t}]

-----------------------------------------------------------------------------
(* allocElem() *)

(* The test outside the lock. *)
Look(t) ==
  /\ ended = "no" /\ pc[t] = "idle"
  /\ Goes(t, IF free_list_ # Null THEN "lock" ELSE "new")
  /\ UNCHANGED <<free_list_, next_node_, nodes, deleted, lock_, p, owner, ended>>

Lock(t) ==
  /\ pc[t] = "lock" /\ lock_ = {}
  /\ lock_' = {t} /\ Goes(t, "head")
  /\ UNCHANGED <<free_list_, next_node_, nodes, deleted, p, owner, ended>>

(* Deviation: the head is read before the lock is taken. *)
Lock_HeadBefore(t) ==
  /\ UNCHANGED <<next_node_, nodes, deleted, owner, ended, free_list_>>
  /\ \/ /\ pc[t] = "lock" /\ free_list_ # Null
        /\ p' = [p EXCEPT ![t] = free_list_] /\ Goes(t, "wait") /\ UNCHANGED lock_
     \/ /\ pc[t] = "wait" /\ lock_ = {}
        /\ lock_' = {t} /\ Goes(t, "unlink") /\ UNCHANGED p

(* The test under the lock; another thread may have taken the last node. *)
Head(t) ==
  /\ pc[t] = "head"
  /\ IF free_list_ # Null
       THEN /\ p' = [p EXCEPT ![t] = free_list_] /\ Goes(t, "unlink")
            /\ UNCHANGED lock_
       ELSE /\ lock_' = lock_ \ {t} /\ Goes(t, "new")
            /\ UNCHANGED p
  /\ UNCHANGED <<free_list_, next_node_, nodes, deleted, owner, ended>>

Unlink(t) ==
  /\ pc[t] = "unlink"
  /\ free_list_' = next_node_[p[t]]
  /\ Gives(t, p[t]) /\ lock_' = lock_ \ {t} /\ Goes(t, "idle")
  /\ UNCHANGED <<next_node_, nodes, deleted, p, ended>>

New(t) ==
  /\ pc[t] = "new" /\ Cardinality(nodes) < MaxNode
  /\ LET n == Cardinality(nodes) + 1 IN
       /\ nodes' = nodes \cup {n}
       /\ next_node_' = [next_node_ EXCEPT ![n] = Null]
       /\ Gives(t, n)
  /\ Goes(t, "idle")
  /\ UNCHANGED <<free_list_, deleted, lock_, p, ended>>

-----------------------------------------------------------------------------
(* freeElem(): the caller frees an element it uses, once. *)
Free(t, n) ==
  /\ ended = "no" /\ pc[t] = "idle" /\ t \in owner[n]
  /\ owner' = [owner EXCEPT ![n] = @ \ {t}]
  /\ p' = [p EXCEPT ![t] = n] /\ Goes(t, "free")
  /\ UNCHANGED <<free_list_, next_node_, nodes, deleted, lock_, ended>>

(* Deviation: the list is extended without the lock. *)
FreeLock_Not(t) ==
  /\ pc[t] = "free"
  /\ lock_' = lock_ \cup {t} /\ Goes(t, "point")
  /\ UNCHANGED <<free_list_, next_node_, nodes, deleted, p, owner, ended>>

FreeLock(t) ==
  /\ pc[t] = "free" /\ lock_ = {}
  /\ lock_' = {t} /\ Goes(t, "point")
  /\ UNCHANGED <<free_list_, next_node_, nodes, deleted, p, owner, ended>>

Point(t) ==
  /\ pc[t] = "point"
  /\ next_node_' = [next_node_ EXCEPT ![p[t]] = free_list_] /\ Goes(t, "link")
  /\ UNCHANGED <<free_list_, nodes, deleted, lock_, p, owner, ended>>

Link(t) ==
  /\ pc[t] = "link"
  /\ free_list_' = p[t]
  /\ lock_' = lock_ \ {t} /\ Goes(t, "idle")
  /\ UNCHANGED <<next_node_, nodes, deleted, p, owner, ended>>

-----------------------------------------------------------------------------
(* The nodes of the list: the least set that holds what the head and the   *)
(* links of its nodes point at.                                            *)
Listed ==
  {n \in Node : \A S \in SUBSET Node :
     ({free_list_} \cup {next_node_[m] : m \in S}) \ {Null} \subseteq S => n \in S}

(* clear() steps to the next node and then deletes where it stands.  With  *)
(* one node it deletes NULL; with more it deletes the second and reads its *)
(* link again: anything may follow.                                        *)
Clear ==
  /\ ended = "no" /\ \A t \in Thread : pc[t] = "idle"
  /\ LET second == IF free_list_ = Null THEN Null ELSE next_node_[free_list_] IN
       /\ deleted' = IF second = Null THEN {} ELSE {second}
       /\ ended' = IF second = Null THEN "done" ELSE "wild"
  /\ free_list_' = Null
  /\ UNCHANGED <<next_node_, nodes, lock_, pc, p, owner>>

Alloc(t) == Look(t) \/ Lock(t) \/ Head(t) \/ Unlink(t) \/ New(t)

Next ==
  \/ \E t \in Thread :
       \/ Alloc(t)
       \/ \E n \in Node : Free(t, n)
       \/ FreeLock(t) \/ Point(t) \/ Link(t)
  \/ Clear

Spec == Init /\ [][Next]_vars

-----------------------------------------------------------------------------
(* Every variable has its type. *)
TypeOK ==
  /\ free_list_ \in NodeOrNull
  /\ next_node_ \in [Node -> NodeOrNull]
  /\ nodes \subseteq Node /\ deleted \subseteq Node
  /\ lock_ \in SUBSET Thread
  /\ pc \in [Thread -> {"idle", "lock", "head", "unlink", "new", "free", "point", "link"}]
  /\ p \in [Thread -> NodeOrNull]
  /\ owner \in [Node -> SUBSET Thread]
  /\ ended \in {"no", "done", "wild"}

(* The thread that has a freed node in its hands and not yet in the list. *)
InHand == {p[t] : t \in {u \in Thread : pc[u] \in {"free", "point", "link"}}}

(* No element is given to two callers, and none that is in the list or on  *)
(* its way to it is used.                                                  *)
OneOwner ==
  \A n \in Node :
    /\ Cardinality(owner[n]) <= 1
    /\ owner[n] # {} => n \in nodes \ (Listed \cup InHand)

(* Until the destructor runs no node is lost: each is used, listed or in   *)
(* the hands of a caller.                                                  *)
NoneLost ==
  ended = "no" => \A n \in nodes : owner[n] # {} \/ n \in Listed \cup InHand

(* Together with the types. *)
FreeListInv == TypeOK /\ OneOwner /\ NoneLost
=============================================================================
