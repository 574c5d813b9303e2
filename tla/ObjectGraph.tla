------------------------------ MODULE ObjectGraph ------------------------------
(***************************************************************************)
(* The object graph every collector of the repository walks.  An object is *)
(* what the collector reads of it: the sequence of its reference fields,   *)
(* the slots that class_descriptor.field_offsets names.  A class           *)
(* descriptor is therefore represented by its num_fields; names, sizes and *)
(* plain data of the C structures are left out.                            *)
(***************************************************************************)
EXTENDS Integers

\* The C null pointer.  Objects are numbered from 1, so Nil is none of them.
Nil == 0

\* gc_alloc's loop that stores NULL in every reference field of a new object.
NullFields(k) == [i \in 1..k |-> Nil]

\* The field sequences of objects whose class has a field count in Classes.
ObjectOf(Classes, Pointers) == UNION {[1..k -> Pointers] : k \in Classes}

\* S has no reference that leaves it.
Closed(field, S) ==
    \A n \in S : \A i \in DOMAIN field[n] : field[n][i] \in S \cup {Nil}

\* The objects a program can reach from the pointers R: the least set that
\* holds the objects R names and is closed under following a field.
Reachable(Objects, field, R) ==
    {n \in Objects : \A S \in SUBSET Objects :
        (R \subseteq S \cup {Nil} /\ Closed(field, S)) => n \in S}

\* The pointers that a root array holds.
Pointees(roots) == {roots[i] : i \in DOMAIN roots}
================================================================================
