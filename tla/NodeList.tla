-------------------------------- MODULE NodeList --------------------------------
(***************************************************************************)
(* The heap of mark_sweep_3 and of reference_counting_1, which share this  *)
(* code: a list of equal nodes, each holding at most one object.           *)
(*                                                                         *)
(* Node n is the n-th node of the list that starts at head, so head is     *)
(* node 1 and node n's next is n + 1.  The object in a node is identified  *)
(* with the node (gc_alloc places it right behind the node's header).      *)
(* node.size and node.data are left out: they follow from used and are     *)
(* never read but to find the object.                                      *)
(***************************************************************************)
EXTENDS ObjectGraph

CONSTANTS
    MAX_ROOTS, \* the length of _roots, which also caps the heap
    HeapSize   \* the argument of gc_init, in bytes

ASSUME MAX_ROOTSAssumption == MAX_ROOTS \in Nat \ {0}
ASSUME HeapSizeAssumption == HeapSize \in Int

NODE_SIZE == 128 \* bytes
MAX_HEAP_SIZE == MAX_ROOTS * 4 * NODE_SIZE

resolve_heap_size(size) ==
    LET capped == IF size > MAX_HEAP_SIZE THEN MAX_HEAP_SIZE ELSE size
    IN  IF capped < NODE_SIZE THEN NODE_SIZE
        ELSE (capped \div NODE_SIZE) * NODE_SIZE

free_list_size == resolve_heap_size(HeapSize) \div NODE_SIZE

Node == 1..free_list_size

head == 1

\* Mutant: the last node of the list not terminated by NULL.
next_Unterminated(n) == n + 1

\* node.next, which init_free_list sets once and nobody changes.
next(n) == IF n = free_list_size THEN Nil ELSE n + 1

\* Mutant: the loop tests next_free->next instead of next_free.
FirstIdle_SkipsLast(used, n) ==
    IF n..(free_list_size - 1) \subseteq used THEN Nil
    ELSE CHOOSE m \in (n..(free_list_size - 1)) \ used : n..(m - 1) \subseteq used

\* Where a loop of find_idle_node that starts at node n stops.
FirstIdle(used, n) ==
    IF n..free_list_size \subseteq used THEN Nil
    ELSE CHOOSE m \in (n..free_list_size) \ used : n..(m - 1) \subseteq used
================================================================================
