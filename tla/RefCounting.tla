------------------------------ MODULE RefCounting ------------------------------
(***************************************************************************)
(* The collector of reference_counting/reference_counting_1: every object  *)
(* counts the references to it, gc_update_ptr and the two root operations  *)
(* keep the counts, and an object is reclaimed, recursively, the moment    *)
(* its count becomes 0.  There is no gc() to fall back on.                 *)
(*                                                                         *)
(* The program is one thread; a client operation that drops a reference is *)
(* several steps, one for each call of dec_ref_cnt, so that the heap is    *)
(* seen in the middle of the cascade.                                      *)
(***************************************************************************)
EXTENDS NodeList, Sequences, FiniteSets

CONSTANTS
    Class,    \* the num_fields of the client's class descriptors
    MaxRooted \* bound: the times an object may be registered as a root

ASSUME ClassAssumption == Class \in SUBSET Nat
ASSUME MaxRootedAssumption == MaxRooted \in Nat

Pointer == Node \cup {Nil}

\* What a node holds: the reference fields of an object, none when it is idle.
Contents == ObjectOf(Class \cup {0}, Pointer)

\* An active call of dec_ref_cnt on an object whose count became 0.
Frame == [obj : Node, i : Nat \ {0}]

\* The store *ptr = obj that gc_update_ptr does last, or NoStore.
Store == [obj : Node, i : Nat \ {0}, value : Pointer]
NoStore == [obj |-> Nil, i |-> 0, value |-> Nil]

VARIABLES
    used,      \* the nodes whose used flag is TRUE
    field,     \* the reference fields of the object in each node
    ref_cnt,   \* the count of the object in each node
    next_free, \* where gc_alloc tries first
    rooted,    \* for each object, gc_add_root calls not yet undone (the client's)
    pc,        \* "run" (the client), "dec" (an operation is going on) or "abort"
    store,     \* the store pending in gc_update_ptr
    stack      \* the active calls of dec_ref_cnt that found a count of 0

vars == <<used, field, ref_cnt, next_free, rooted, pc, store, stack>>

Init ==
    /\ used = {}
    /\ field = [n \in Node |-> NullFields(0)]
    /\ ref_cnt = [n \in Node |-> 0]
    /\ next_free = head
    /\ rooted = [n \in Node |-> 0]
    /\ pc = "run"
    /\ store = NoStore
    /\ stack = <<>>

Roots == {n \in Node : rooted[n] > 0}

\* The references as they will be when the operation going on has stored.
Stored ==
    IF store = NoStore THEN field
    ELSE [field EXCEPT ![store.obj][store.i] = store.value]

\* Objects no reference has ever been counted for: gc_alloc returned them and
\* the client holds them in local variables.
Fresh == {n \in used : ref_cnt[n] = 0 /\ \A j \in DOMAIN stack : stack[j].obj # n}

\* What a client that registers its roots can use: all that its roots and the
\* objects it has just allocated lead to.
Held == Reachable(Node, Stored, Roots \cup Fresh)

--------------------------------------------------------------------------------
(* Counting.                                                               *)

\* Mutant: gc_add_root and gc_update_ptr do not count.
inc_ref_cnt_Missing(p, counts) == counts

inc_ref_cnt(p, counts) ==
    IF p = Nil THEN counts ELSE [counts EXCEPT ![p] = @ + 1]

\* A call dec_ref_cnt(p) made by the frames fs with the counts given: it returns,
\* or goes on to the references of p, whose last reference is gone.
dec_ref_cnt(p, counts, fs) ==
    IF p = Nil
    THEN ref_cnt' = counts /\ stack' = fs
    ELSE /\ ref_cnt' = [counts EXCEPT ![p] = @ - 1]
         /\ stack' = IF ref_cnt'[p] = 0 THEN Append(fs, [obj |-> p, i |-> 1]) ELSE fs

--------------------------------------------------------------------------------
(* The client's operations.                                                *)

gc_add_root ==
    /\ pc = "run"
    /\ \E p \in Held :
        /\ rooted[p] < MaxRooted
        /\ rooted' = [rooted EXCEPT ![p] = @ + 1]
        /\ ref_cnt' = inc_ref_cnt(p, ref_cnt)
    /\ UNCHANGED <<used, field, next_free, pc, store, stack>>

gc_remove_root ==
    /\ pc = "run"
    /\ \E p \in Roots :
        /\ rooted' = [rooted EXCEPT ![p] = @ - 1]
        /\ dec_ref_cnt(p, ref_cnt, <<>>)
    /\ pc' = "dec"
    /\ UNCHANGED <<used, field, next_free, store>>

\* Mutant: the decrement before the increment, which the comment above
\* gc_update_ptr warns of.
gc_update_ptr_DecFirst ==
    /\ pc = "run"
    /\ \E o \in Held, v \in Held \cup {Nil} : \E i \in DOMAIN field[o] :
        LET old == field[o][i]
            dead == old # Nil /\ ref_cnt[old] = 1
        IN  /\ store' = [obj |-> o, i |-> i, value |-> v]
            /\ ref_cnt' = inc_ref_cnt(v, IF old = Nil THEN ref_cnt
                                         ELSE [ref_cnt EXCEPT ![old] = @ - 1])
            /\ stack' = IF dead THEN <<[obj |-> old, i |-> 1]>> ELSE <<>>
    /\ pc' = "dec"
    /\ UNCHANGED <<used, field, next_free, rooted>>

\* inc_ref_cnt(obj) and the first call of dec_ref_cnt(*ptr); ptr is a field of
\* an object the client can use.
gc_update_ptr ==
    /\ pc = "run"
    /\ \E o \in Held, v \in Held \cup {Nil} : \E i \in DOMAIN field[o] :
        /\ store' = [obj |-> o, i |-> i, value |-> v]
        /\ dec_ref_cnt(field[o][i], inc_ref_cnt(v, ref_cnt), <<>>)
    /\ pc' = "dec"
    /\ UNCHANGED <<used, field, next_free, rooted>>

\* The node gc_alloc finds: next_free, else the first idle one (find_idle_node).
IdleNode ==
    IF next_free # Nil /\ next_free \notin used THEN next_free
    ELSE FirstIdle(used, head)

\* Mutant: gc_alloc tests only !next_free before it searches.
gc_alloc_Unchecked ==
    /\ pc = "run"
    /\ \E k \in Class :
        LET n == IF next_free # Nil THEN next_free ELSE FirstIdle(used, head) IN
        IF n = Nil
        THEN /\ pc' = "abort"
             /\ next_free' = Nil
             /\ UNCHANGED <<used, field, ref_cnt>>
        ELSE /\ used' = used \cup {n}
             /\ field' = [field EXCEPT ![n] = NullFields(k)]
             /\ ref_cnt' = [ref_cnt EXCEPT ![n] = 0]
             /\ next_free' = next(n)
             /\ UNCHANGED pc
    /\ UNCHANGED <<rooted, store, stack>>

gc_alloc ==
    /\ pc = "run"
    /\ \E k \in Class :
        IF IdleNode = Nil
        THEN /\ pc' = "abort"
             /\ next_free' = Nil
             /\ UNCHANGED <<used, field, ref_cnt>>
        ELSE /\ used' = used \cup {IdleNode}
             /\ field' = [field EXCEPT ![IdleNode] = NullFields(k)]
             /\ ref_cnt' = [ref_cnt EXCEPT ![IdleNode] = 0]
             /\ next_free' = next(IdleNode)
             /\ UNCHANGED pc
    /\ UNCHANGED <<rooted, store, stack>>

\* After abort() nothing happens.
Aborted == pc = "abort" /\ UNCHANGED vars

--------------------------------------------------------------------------------
(* The cascade of dec_ref_cnt, and the end of an operation.                *)

Top == stack[Len(stack)]
Callers == SubSeq(stack, 1, Len(stack) - 1)

\* Mutant: the loop over the fields stops one early.
DecField_LastMissed ==
    /\ pc = "dec"
    /\ stack # <<>>
    /\ Top.i \in DOMAIN field[Top.obj]
    /\ LET fs == Append(Callers, [obj |-> Top.obj, i |-> Top.i + 1])
           p == field[Top.obj][Top.i]
       IN  dec_ref_cnt(IF Top.i + 1 \in DOMAIN field[Top.obj] THEN p ELSE Nil,
                       ref_cnt, fs)
    /\ UNCHANGED <<used, field, next_free, rooted, pc, store>>

\* Mutant: the loop over the fields does not advance.
DecField_NotAdvanced ==
    /\ pc = "dec"
    /\ stack # <<>>
    /\ Top.i \in DOMAIN field[Top.obj]
    /\ dec_ref_cnt(field[Top.obj][Top.i], ref_cnt, stack)
    /\ UNCHANGED <<used, field, next_free, rooted, pc, store>>

\* dec_ref_cnt of the next reference of an object that is being reclaimed.
DecField ==
    /\ pc = "dec"
    /\ stack # <<>>
    /\ Top.i \in DOMAIN field[Top.obj]
    /\ dec_ref_cnt(field[Top.obj][Top.i], ref_cnt,
                   Append(Callers, [obj |-> Top.obj, i |-> Top.i + 1]))
    /\ UNCHANGED <<used, field, next_free, rooted, pc, store>>

\* reclaim: memset clears the object, its count included.
reclaim ==
    /\ pc = "dec"
    /\ stack # <<>>
    /\ Top.i \notin DOMAIN field[Top.obj]
    /\ used' = used \ {Top.obj}
    /\ field' = [field EXCEPT ![Top.obj] = NullFields(0)]
    /\ ref_cnt' = [ref_cnt EXCEPT ![Top.obj] = 0]
    /\ next_free' = Top.obj
    /\ stack' = Callers
    /\ UNCHANGED <<rooted, pc, store>>

\* Mutant: gc_update_ptr never stores.
OperationDone_NoStore ==
    /\ pc = "dec"
    /\ stack = <<>>
    /\ store' = NoStore
    /\ pc' = "run"
    /\ UNCHANGED <<used, field, ref_cnt, next_free, rooted, stack>>

\* *ptr = obj in gc_update_ptr, and the return to the client.
OperationDone ==
    /\ pc = "dec"
    /\ stack = <<>>
    /\ field' = Stored
    /\ store' = NoStore
    /\ pc' = "run"
    /\ UNCHANGED <<used, ref_cnt, next_free, rooted, stack>>

--------------------------------------------------------------------------------

Client == gc_add_root \/ gc_remove_root \/ gc_update_ptr \/ gc_alloc
Operation == DecField \/ reclaim \/ OperationDone

Next == Client \/ Operation \/ Aborted

Spec == Init /\ [][Next]_vars

\* An operation runs to its end: it is a recursion of the one thread.
FairSpec == Spec /\ WF_vars(Operation)

--------------------------------------------------------------------------------
(* Properties.                                                             *)

\* Every variable has its type; in particular no count is ever negative.
TypeOK ==
    /\ used \in SUBSET Node
    /\ field \in [Node -> Contents]
    /\ ref_cnt \in [Node -> Nat]
    /\ next_free \in Pointer
    /\ rooted \in [Node -> 0..MaxRooted]
    /\ pc \in {"run", "dec", "abort"}
    /\ store \in Store \cup {NoStore}
    /\ stack \in Seq(Frame)

\* The references to n: fields of objects in use whose reference the cascade has
\* not dropped yet.
References(n) ==
    {r \in UNION {{o} \X DOMAIN Stored[o] : o \in used} :
        /\ Stored[r[1]][r[2]] = n
        /\ \A j \in DOMAIN stack : stack[j].obj = r[1] => stack[j].i <= r[2]}

\* A count is the number of references and roots, at every step of every
\* operation (inc_ref_cnt, dec_ref_cnt, gc_update_ptr).
CountsExact ==
    \A n \in used : ref_cnt[n] = rooted[n] + Cardinality(References(n))

\* No object the client can use is ever reclaimed, not even in the middle of a
\* cascade, and gc_update_ptr never stores into a reclaimed object.
HeldInUse == Held \subseteq used /\ (store # NoStore => store.obj \in used)

\* Between operations, whatever is neither reachable nor just allocated hangs on
\* a cycle: every such object is referred to by another such object.
OnlyCyclesLeak ==
    pc = "run" =>
        \A n \in used \ Held :
            \E o \in used \ Held : \E i \in DOMAIN field[o] : field[o][i] = n

\* Every operation returns to the client.
OperationsReturn == pc = "dec" ~> pc = "run"

\* The client sees no more than the interface promises.
Heap == INSTANCE GCHeap WITH
            Object <- Node, allocated <- used, field <- Stored, roots <- Roots
ImplementsHeap == Heap!Spec
================================================================================
