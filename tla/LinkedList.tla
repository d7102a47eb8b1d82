----------------------------- MODULE LinkedList -----------------------------
(***************************************************************************)
(* list.c at the level of its pointers.  The heap is a set of addresses;   *)
(* malloc returns any address that is not allocated, free leaves junk in   *)
(* the node.  The program has three kinds of list, used in three ways:     *)
(*   "requests"  page->requests_queue: list_remove is given the head's own *)
(*               data (request_equals compares pointers);                  *)
(*   "readers"   page->current_readers_queue: list_remove by value, and    *)
(*               from the first removal on nothing is added until the list *)
(*               is empty (DSMPages!ReadersDrainFirst);                    *)
(*   "waiters"   dsm_g->sync_barrier_waiters: list_add and list_destroy.   *)
(* (Used otherwise the list breaks: list_remove of the last node leaves    *)
(* tail behind, and a list_add after it is lost.)                          *)
(***************************************************************************)
EXTENDS Integers, Sequences, FiniteSets, FiniteSetsExt

CONSTANTS
    Addr,    \* addresses of list nodes: bounds the length of a list
    Null,    \* NULL
    Elem     \* elements

\* The heap is finite, and there is something to put into a list.
ASSUME HeapAssumption == Null \notin Addr /\ IsFiniteSet(Addr) /\ Elem # {}

Usages == {"requests", "readers", "waiters"}

VARIABLES
    head, tail, length,  \* list_t
    data, next,          \* [address] listNode_t, the memory of freed nodes too
    allocated,           \* addresses malloc has given out
    usage,               \* how this list is used
    draining             \* an element was removed since the list was empty

vars == <<head, tail, length, data, next, allocated, usage, draining>>

Pointer == Addr \cup {Null}

TypeOK ==
    /\ head \in Pointer /\ tail \in Pointer
    /\ length \in Int
    /\ data \in [Addr -> Elem]
    /\ next \in [Addr -> Pointer]
    /\ allocated \subseteq Addr
    /\ usage \in Usages
    /\ draining \in BOOLEAN

list_init ==
    /\ head = Null /\ tail = Null /\ length = 0

Init ==
    /\ list_init
    /\ data = [a \in Addr |-> CHOOSE e \in Elem : TRUE]
    /\ next = [a \in Addr |-> Null]
    /\ allocated = {}
    /\ usage \in Usages
    /\ draining = FALSE

-----------------------------------------------------------------------------
\* The pointers a loop from head meets, NULL included; one more than there are
\* addresses, so that a cycle shows.
Walk ==
    LET w[k \in 0..Cardinality(Addr)] ==
            IF k = 0 THEN head
            ELSE IF w[k - 1] = Null THEN Null ELSE next[w[k - 1]]
    IN  w

Visited == {k \in DOMAIN Walk : Walk[k] # Null}

Contents == [i \in 1..Cardinality(Visited) |-> data[Walk[i - 1]]]

-----------------------------------------------------------------------------
MayAdd == usage = "readers" => ~draining

\* Mutant: the old last node is not linked to the new one when there is only one.
list_add_unlinked(e) ==
    /\ MayAdd
    /\ \E a \in Addr \ allocated :
          /\ allocated' = allocated \cup {a}
          /\ data' = [data EXCEPT ![a] = e]
          /\ next' = [x \in Addr |-> IF length > 1 /\ x = tail THEN a
                                     ELSE IF x = a THEN Null ELSE next[x]]
          /\ head' = IF length = 0 THEN a ELSE head
          /\ tail' = a
    /\ length' = length + 1
    /\ UNCHANGED <<usage, draining>>

\* list_add writes through tail whenever length is not 0, also when tail is the
\* address of a freed node, or of a freed node that malloc has just returned.
list_add(e) ==
    /\ MayAdd
    /\ \E a \in Addr \ allocated :
          /\ allocated' = allocated \cup {a}
          /\ data' = [data EXCEPT ![a] = e]
          /\ next' = [x \in Addr |-> IF length # 0 /\ x = tail THEN a
                                     ELSE IF x = a THEN Null ELSE next[x]]
          /\ head' = IF length = 0 THEN a ELSE head
          /\ tail' = a
    /\ length' = length + 1
    /\ UNCHANGED <<usage, draining>>

\* The nodes equalsFn accepts, for a call that passes the element e.
Matches(e) ==
    CASE usage = "requests" -> {k \in Visited : k = 0 /\ data[Walk[0]] = e}
      [] usage = "waiters" -> {}
      [] usage = "readers" -> {k \in Visited : data[Walk[k]] = e}

\* Mutant: the previous node keeps its pointer to the freed one.
list_remove_no_unlink(e) ==
    /\ Matches(e) # {}
    /\ LET k == Min(Matches(e))
           node == Walk[k]
       IN  /\ allocated' = allocated \ {node}
           /\ next' = next
           /\ head' = IF k = 0 THEN next[node] ELSE head
    /\ length' = length - 1
    /\ draining' = (length # 1)
    /\ UNCHANGED <<tail, data, usage>>

\* list_remove unlinks and frees the first node that matches; tail is not
\* updated.
list_remove(e) ==
    /\ Matches(e) # {}
    /\ LET k == Min(Matches(e))
           node == Walk[k]
       IN  /\ allocated' = allocated \ {node}
           /\ \E junk \in Pointer :
                 next' = [x \in Addr |-> IF x = node THEN junk
                                         ELSE IF k > 0 /\ x = Walk[k - 1]
                                              THEN next[node] ELSE next[x]]
           /\ head' = IF k = 0 THEN next[node] ELSE head
    /\ length' = length - 1
    /\ draining' = (length # 1)
    /\ UNCHANGED <<tail, data, usage>>

list_destroy ==
    /\ head # Null
    /\ allocated' = allocated \ {Walk[k] : k \in Visited}
    /\ length' = length - Cardinality(Visited)
    /\ head' = Null /\ tail' = Null
    /\ draining' = FALSE
    /\ UNCHANGED <<data, next, usage>>

Next == (\E e \in Elem : list_add(e) \/ list_remove(e)) \/ list_destroy

Spec == Init /\ [][Next]_vars

-----------------------------------------------------------------------------
(* Properties.                                                             *)

\* The list owns the memory it reaches: no reachable node has been freed, and
\* no allocated node is out of reach (list_destroy frees everything).
NoLeak == allocated = {Walk[k] : k \in Visited}

\* tail is the last node whenever list_add would write through it.
TailIsLast ==
    length # 0 /\ MayAdd => tail \in allocated /\ next[tail] = Null

Queue == INSTANCE ListQueue WITH items <- Contents, size <- length

\* list.c implements the queue of list.h: list_add appends ("at the end of the
\* list"), list_remove takes the first equal element, and what a loop from head
\* meets is as many nodes as length counts.
ImplementsQueue == Queue!Spec
=============================================================================
