-------------------------------- MODULE GCHeap ---------------------------------
(***************************************************************************)
(* What a tracing collector promises its client, whatever its algorithm.   *)
(* The client allocates objects, stores references in objects it can use   *)
(* and adds and drops roots.  The collector may at any time take back     *)
(* objects, but only ones no chain of references from a root leads to.     *)
(* The detailed modules implement this one (gc.h of each collector is the  *)
(* same interface: gc_init, gc_alloc, gc, gc_add_root, gc_restore_roots).  *)
(***************************************************************************)
EXTENDS ObjectGraph

CONSTANTS
    Object,    \* the objects the heap can hold at a time
    Class      \* the field counts of the program's classes

VARIABLES
    allocated, \* the objects in use
    field,     \* what the references of each object point to
    roots      \* the objects that roots refer to

vars == <<allocated, field, roots>>

Pointer == Object \cup {Nil}

Live == Reachable(Object, field, roots)

\* The client uses an object only while all the object leads to is in use: a
\* reachable object, or one it holds in a local variable since the last call.
Usable == {o \in allocated : Reachable(Object, field, {o}) \subseteq allocated}

Init ==
    /\ allocated = {}
    /\ field = [o \in Object |-> NullFields(0)]
    /\ roots = {}

Alloc ==
    \E o \in Object \ allocated, k \in Class :
        /\ allocated' = allocated \cup {o}
        /\ field' = [field EXCEPT ![o] = NullFields(k)]
        /\ UNCHANGED roots

Write ==
    \E o \in Usable, p \in Usable \cup {Nil} : \E i \in DOMAIN field[o] :
        /\ field' = [field EXCEPT ![o][i] = p]
        /\ UNCHANGED <<allocated, roots>>

AddRoot ==
    \E p \in Usable :
        /\ roots' = roots \cup {p}
        /\ UNCHANGED <<allocated, field>>

DropRoots ==
    \E R \in SUBSET roots :
        /\ roots' = R
        /\ UNCHANGED <<allocated, field>>

\* The one thing a collector does to the heap.
Reclaim ==
    \E garbage \in SUBSET (allocated \ Live) :
        /\ allocated' = allocated \ garbage
        /\ field' = [o \in Object |->
                        IF o \in garbage THEN NullFields(0) ELSE field[o]]
        /\ UNCHANGED roots

Next == Reclaim \/ Alloc \/ Write \/ AddRoot \/ DropRoots

Spec == Init /\ [][Next]_vars

\* References and roots name objects of the heap.
TypeOK ==
    /\ allocated \in SUBSET Object
    /\ field \in [Object -> ObjectOf(Class \cup {0}, Pointer)]
    /\ roots \in SUBSET Object

\* What the client relies on: nothing it can reach has been taken back.
NoDanglingReference == Live \subseteq allocated
================================================================================
