-------------------------------- MODULE Copying --------------------------------
(***************************************************************************)
(* The collector of copying/copying_1: sequential allocation, and gc()     *)
(* copies what the roots lead to into the other half of the heap, depth    *)
(* first, leaving a forwarding pointer in every object it copied.          *)
(*                                                                         *)
(* Memory is the function object, from the addresses at which a header     *)
(* lies, as in MarkCompact.  gc_alloc always allocates from the start of   *)
(* the heap and gc() does not reset next_free_offset, so the objects made  *)
(* after a collection are in the half that the next collection copies to.  *)
(* An object of which any byte has been overwritten is gone from memory.   *)
(* Reading it, copying an object partly onto itself, and copying past the  *)
(* end of the heap are undefined and end the model.                        *)
(***************************************************************************)
EXTENDS ObjectGraph, Sequences, FiniteSetsExt

CONSTANTS
    Class,          \* the client's class descriptors, [size, num_fields]
    MAX_ROOTS,      \* the length of _roots
    MAX_HEAP_SIZE,
    HeapSize,       \* the argument of gc_init
    MaxCollections, \* bound: how often gc() runs
    MaxObjects      \* bound: how many objects one half can hold

HEADER_SIZE == 24 \* sizeof(object)

ASSUME ClassAssumption ==
    \A c \in Class : c.size \in Nat /\ c.size >= HEADER_SIZE /\ c.num_fields \in Nat
ASSUME SizeAssumption ==
    /\ MAX_ROOTS \in Nat \ {0}
    /\ MAX_HEAP_SIZE \in Nat
    /\ HeapSize \in Nat
    /\ MaxCollections \in Nat

resolve_heap_size(size) ==
    ((IF size > MAX_HEAP_SIZE THEN MAX_HEAP_SIZE ELSE size) \div 2) * 2

heap_size == resolve_heap_size(HeapSize)
heap_half_size == heap_size \div 2

ASSUME MaxObjectsAssumption ==
    MaxObjects \in Nat /\ \A c \in Class : heap_half_size < (MaxObjects + 1) * c.size

heap == 1 \* what malloc returned: any address but NULL

\* Ghost: names for objects that stay the same when the object is copied.
Identity == 1..MaxObjects

NoRequest == [size |-> 0, num_fields |-> 0]

VARIABLES
    object,                 \* memory: [clss, field, forwarded, forwarding, id]
    next_free_offset,
    next_forwarding_offset,
    from,                   \* the half in use; to is the other one
    roots,                  \* _roots[0 .. _rp - 1]
    pc,                     \* "run" (the client), where gc() is, or how it ended
    request,                \* the class gc_alloc collects for, or NoRequest
    ri,                     \* copying(): index of the next root
    stack,                  \* the active calls of copy(): object and next field
    p,                      \* adjust_ref(): the offset of the next object
    current,                \* ghost: where the client's objects are
    collections             \* ghost: how often gc() has been called

memory == <<object, next_free_offset, from, roots>>
walk == <<next_forwarding_offset, ri, stack, p>>
vars == <<object, next_free_offset, next_forwarding_offset, from, roots, pc, request,
          ri, stack, p, current, collections>>

Init ==
    /\ object = [a \in {} |-> 0]
    /\ next_free_offset = 0
    /\ next_forwarding_offset = 0
    /\ from = heap
    /\ roots = <<>>
    /\ pc = "run"
    /\ request = NoRequest
    /\ ri = 1
    /\ stack = <<>>
    /\ p = 0
    /\ current = {}
    /\ collections = 0

Objects == DOMAIN object
Size(a) == object[a].clss.size
to == IF from = heap THEN heap + heap_half_size ELSE heap

\* The objects of which writing size bytes at a overwrites none.
Untouched(a, size) == {b \in Objects : b + Size(b) <= a \/ b >= a + size}

--------------------------------------------------------------------------------
(* The client, which uses objects where they are now.                      *)

\* gc_add_root.
AddRoot ==
    /\ pc = "run"
    /\ Len(roots) < MAX_ROOTS
    /\ \E o \in current \cup {Nil} : roots' = Append(roots, o)
    /\ UNCHANGED <<object, next_free_offset, from, pc, request, walk, current, collections>>

\* gc_restore_roots, with an index that gc_save_rp saved earlier.
RestoreRoots ==
    /\ pc = "run"
    /\ \E k \in 0..Len(roots) : roots' = SubSeq(roots, 1, k)
    /\ UNCHANGED <<object, next_free_offset, from, pc, request, walk, current, collections>>

\* An assignment such as emp->dept = dept.
Write ==
    /\ pc = "run"
    /\ \E o \in current, v \in current \cup {Nil} : \E i \in DOMAIN object[o].field :
        object' = [object EXCEPT ![o].field[i] = v]
    /\ UNCHANGED <<next_free_offset, from, roots, pc, request, walk, current, collections>>

\* Entering gc() and copying().
StartGC(clss) ==
    /\ collections < MaxCollections
    /\ collections' = collections + 1
    /\ pc' = "copy"
    /\ request' = clss
    /\ next_forwarding_offset' = 0
    /\ ri' = 1

CollectNow ==
    /\ pc = "run"
    /\ StartGC(NoRequest)
    /\ UNCHANGED <<memory, stack, p, current>>

--------------------------------------------------------------------------------
(* Allocation.                                                             *)

Fits(clss) == next_free_offset + clss.size <= heap_half_size

FreeIdentity == CHOOSE i \in Identity : \A a \in current : object[a].id # i

\* The part of gc_alloc after the checks: at heap, whichever half is from.  The client
\* uses no object that this overwrites.
Place(clss) ==
    LET new_obj == heap + next_free_offset IN
    /\ object' = [a \in Untouched(new_obj, clss.size) \cup {new_obj} |->
                    IF a = new_obj
                    THEN [clss |-> clss, field |-> NullFields(clss.num_fields),
                          forwarded |-> FALSE, forwarding |-> Nil, id |-> FreeIdentity]
                    ELSE object[a]]
    /\ next_free_offset' = next_free_offset + clss.size
    /\ current' = (current \cap Untouched(new_obj, clss.size)) \cup {new_obj}

\* gc_alloc, up to the collection when the object does not fit.
Alloc ==
    /\ pc = "run"
    /\ \E clss \in Class :
        \/ /\ Fits(clss)
           /\ Place(clss)
           /\ UNCHANGED <<pc, request, next_forwarding_offset, ri, collections>>
        \/ /\ ~Fits(clss)
           /\ StartGC(clss)
           /\ UNCHANGED <<object, next_free_offset, current>>
    /\ UNCHANGED <<from, roots, stack, p>>

\* Mutant: gc_alloc does not look whether the collection has made room.
AllocAgain_Unchecked ==
    /\ pc = "alloc"
    /\ Place(request)
    /\ pc' = "run"
    /\ request' = NoRequest
    /\ UNCHANGED <<from, roots, walk, collections>>

\* gc_alloc after the collection.
AllocAgain ==
    /\ pc = "alloc"
    /\ IF Fits(request)
       THEN Place(request) /\ pc' = "run" /\ request' = NoRequest
       ELSE pc' = "abort" /\ UNCHANGED <<object, next_free_offset, request, current>>
    /\ UNCHANGED <<from, roots, walk, collections>>

\* After abort(), and after a step whose outcome C does not define, the model
\* stops.
Ended == pc \in {"abort", "undefined"} /\ UNCHANGED vars

--------------------------------------------------------------------------------
(* copy().                                                                 *)

Top == stack[Len(stack)]
Callers == SubSeq(stack, 1, Len(stack) - 1)

\* Where the next object is copied to.
forwarding == to + next_forwarding_offset

Copied(q) == q \in Objects /\ object[q].forwarded
Copyable(q) ==
    /\ q \in Objects
    /\ ~object[q].forwarded
    /\ forwarding + Size(q) <= heap + heap_size
    /\ q \in Untouched(forwarding, Size(q)) \cup {forwarding}

\* What copy(q) returns.
Result(q) == IF q = Nil THEN Nil ELSE IF Copied(q) THEN object[q].forwarding ELSE forwarding

\* Mutant: the flag and the forwarding pointer are set before the memcpy.
Evacuate_FlagFirst(q) ==
    object' = [a \in Untouched(forwarding, Size(q)) \cup {q, forwarding} |->
                IF a \in {q, forwarding}
                THEN [object[q] EXCEPT !.forwarded = TRUE, !.forwarding = forwarding]
                ELSE object[a]]

\* memcpy, and the forwarding pointer in the original.
Evacuate(q) ==
    object' = [a \in Untouched(forwarding, Size(q)) \cup {q, forwarding} |->
                IF a = q
                THEN [object[q] EXCEPT !.forwarded = TRUE, !.forwarding = forwarding]
                ELSE IF a = forwarding THEN object[q] ELSE object[a]]

\* A call of copy(q) from the active calls fs.
Call(q, fs) ==
    \/ /\ q = Nil \/ Copied(q)
       /\ stack' = fs
       /\ UNCHANGED <<object, next_forwarding_offset>>
    \/ /\ Copyable(q)
       /\ Evacuate(q)
       /\ next_forwarding_offset' = next_forwarding_offset + Size(q)
       /\ stack' = Append(fs, [obj |-> q, i |-> 1])

\* A round of copying()'s loop.  The root is replaced when copy() is called and
\* not when it returns: copy() does not read the roots.
CopyRoot ==
    /\ pc = "copy"
    /\ stack = <<>>
    /\ ri <= Len(roots)
    /\ Call(roots[ri], <<>>)
    /\ roots' = [roots EXCEPT ![ri] = Result(@)]
    /\ ri' = ri + 1
    /\ UNCHANGED <<next_free_offset, from, pc, request, p, current, collections>>

\* Mutant: the loop runs again on the same field.
CopyField_NotAdvanced ==
    /\ pc = "copy"
    /\ stack # <<>>
    /\ Top.obj \in Objects
    /\ Top.i \in DOMAIN object[Top.obj].field
    /\ Call(object[Top.obj].field[Top.i], stack)
    /\ UNCHANGED <<next_free_offset, from, roots, pc, request, ri, p, current, collections>>

\* The loop reads the fields of the original.
CopyField ==
    /\ pc = "copy"
    /\ stack # <<>>
    /\ Top.obj \in Objects
    /\ Top.i \in DOMAIN object[Top.obj].field
    /\ Call(object[Top.obj].field[Top.i],
            Append(Callers, [obj |-> Top.obj, i |-> Top.i + 1]))
    /\ UNCHANGED <<next_free_offset, from, roots, pc, request, ri, p, current, collections>>

\* Mutant: the loop ends one field too early.
CopyReturn_Early ==
    /\ pc = "copy"
    /\ stack # <<>>
    /\ Top.obj \in Objects
    /\ Top.i >= Len(object[Top.obj].field)
    /\ stack' = Callers
    /\ UNCHANGED <<memory, next_forwarding_offset, pc, request, ri, p, current, collections>>

CopyReturn ==
    /\ pc = "copy"
    /\ stack # <<>>
    /\ Top.obj \in Objects
    /\ Top.i \notin DOMAIN object[Top.obj].field
    /\ stack' = Callers
    /\ UNCHANGED <<memory, next_forwarding_offset, pc, request, ri, p, current, collections>>

Unreadable(q) == q # Nil /\ ~Copied(q) /\ ~Copyable(q)

\* copy() reads or writes what C does not define.
CopyUndefined ==
    /\ pc = "copy"
    /\ \/ stack = <<>> /\ ri <= Len(roots) /\ Unreadable(roots[ri])
       \/ stack # <<>> /\ Top.obj \notin Objects
       \/ /\ stack # <<>> /\ Top.obj \in Objects
          /\ Top.i \in DOMAIN object[Top.obj].field
          /\ Unreadable(object[Top.obj].field[Top.i])
    /\ pc' = "undefined"
    /\ UNCHANGED <<memory, request, walk, current, collections>>

CopyDone ==
    /\ pc = "copy"
    /\ stack = <<>>
    /\ ri > Len(roots)
    /\ pc' = "adjust"
    /\ p' = 0
    /\ UNCHANGED <<memory, next_forwarding_offset, request, ri, stack, current, collections>>

--------------------------------------------------------------------------------
(* adjust_ref(), and the end of copying().                                 *)

\* Mutant: the first reference of every object is left as it is.
Adjusted_FirstMissed(field) ==
    [i \in DOMAIN field |->
        IF i > 1 /\ field[i] # Nil /\ object[field[i]].forwarding # Nil
        THEN object[field[i]].forwarding ELSE field[i]]

\* The references of a copy, each replaced by its object's forwarding pointer.
Adjusted(field) ==
    [i \in DOMAIN field |->
        IF field[i] # Nil /\ object[field[i]].forwarding # Nil
        THEN object[field[i]].forwarding ELSE field[i]]

Readable(a) == a \in Objects /\ Pointees(object[a].field) \subseteq Objects \cup {Nil}

\* The loop over the fields of one object is one step.
Adjust ==
    /\ pc = "adjust"
    /\ p < next_forwarding_offset
    /\ Readable(to + p)
    /\ object' = [object EXCEPT ![to + p].field = Adjusted(@)]
    /\ p' = p + Size(to + p)
    /\ UNCHANGED <<next_free_offset, next_forwarding_offset, from, roots, pc, request,
                   ri, stack, current, collections>>

AdjustUndefined ==
    /\ pc = "adjust"
    /\ p < next_forwarding_offset
    /\ ~Readable(to + p)
    /\ pc' = "undefined"
    /\ UNCHANGED <<memory, request, walk, current, collections>>

Copies == {a \in Objects : to <= a /\ a < to + next_forwarding_offset}

\* swap, and the return of gc() to the client or to gc_alloc.  The originals are
\* still in memory, but no pointer leads there: the model forgets them.
AdjustDone ==
    /\ pc = "adjust"
    /\ p >= next_forwarding_offset
    /\ from' = to
    /\ object' = [a \in Copies |-> object[a]]
    /\ current' = Copies
    /\ pc' = IF request = NoRequest THEN "run" ELSE "alloc"
    /\ ri' = 1
    /\ p' = 0
    /\ UNCHANGED <<next_free_offset, next_forwarding_offset, roots, request, stack,
                   collections>>

--------------------------------------------------------------------------------

Client == AddRoot \/ RestoreRoots \/ Write \/ CollectNow \/ Alloc
Copy == CopyRoot \/ CopyField \/ CopyReturn \/ CopyUndefined \/ CopyDone
AdjustRefs == Adjust \/ AdjustUndefined \/ AdjustDone

Next == Client \/ AllocAgain \/ Copy \/ AdjustRefs \/ Ended

Spec == Init /\ [][Next]_vars

\* A call of gc_alloc or gc() runs to its end: its loops are steps of the one
\* thread and wait for nothing.
FairSpec == Spec /\ WF_vars(AllocAgain \/ Copy \/ AdjustRefs)

--------------------------------------------------------------------------------
(* What the heap stands for.                                               *)

Collecting == pc \in {"copy", "adjust"}
Dangling == MaxObjects + 1

\* The object that a pointer designates: an original, or a copy of it.
Designated(q) ==
    IF q = Nil THEN Nil
    ELSE IF q \in current \/ (Collecting /\ q >= to /\ q < forwarding) THEN object[q].id
    ELSE Dangling

allocated == {object[a].id : a \in current}

field ==
    [i \in Identity |->
        IF \A a \in current : object[a].id # i THEN NullFields(0)
        ELSE LET references == object[CHOOSE a \in current : object[a].id = i].field
             IN [k \in DOMAIN references |-> Designated(references[k])]]

root_ids == {Designated(roots[i]) : i \in DOMAIN roots} \ {Nil}

Live == Reachable(Identity, field, root_ids)

--------------------------------------------------------------------------------
(* Properties.                                                             *)

Address == heap..(heap + heap_size)
Pointer == Address \cup {Nil}
Header(a) ==
    /\ object[a].clss \in Class
    /\ object[a].field \in [1..object[a].clss.num_fields -> Pointer]
    /\ object[a].forwarded \in BOOLEAN
    /\ object[a].forwarding \in Pointer
    /\ object[a].id \in Identity

\* Every variable has its type; in particular no object and no pointer is ever
\* outside the heap, and the client's objects are in memory (gc_alloc, copy).
TypeOK ==
    /\ Objects \subseteq Address
    /\ \A a \in Objects : Header(a) /\ a + Size(a) <= heap + heap_size
    /\ next_free_offset \in 0..heap_half_size
    /\ next_forwarding_offset \in 0..heap_size
    /\ from \in {heap, heap + heap_half_size}
    /\ roots \in Seq(Pointer) /\ Len(roots) <= MAX_ROOTS
    /\ pc \in {"run", "copy", "adjust", "alloc", "abort", "undefined"}
    /\ request \in Class \cup {NoRequest}
    /\ ri \in 1..(MAX_ROOTS + 1)
    /\ p \in 0..heap_size
    /\ current \subseteq Address
    /\ collections \in 0..MaxCollections

\* What follows holds up to the second collection.  The objects allocated since
\* the first one are in the half that the second one copies to.
Sane == collections <= 1

\* In the middle of a collection: the copies lie end to end in to; an object that
\* has a forwarding pointer has it to a copy of its class and contents; and an
\* object without one that a copied object refers to is still ahead of one of the
\* active calls of copy().
CopyInvariant ==
    Sane /\ Collecting =>
        /\ \A a \in Copies :
              /\ a + Size(a) \in Copies \cup {to + next_forwarding_offset}
              /\ ~object[a].forwarded
        /\ \A a \in current : object[a].forwarded =>
              /\ object[a].forwarding \in Copies
              /\ object[object[a].forwarding].id = object[a].id
              /\ \A i \in DOMAIN object[a].field :
                    LET q == object[a].field[i] IN
                    \/ q = Nil \/ object[q].forwarded
                    \/ \E j \in DOMAIN stack : stack[j].obj = a /\ stack[j].i <= i

\* A collection copies exactly the reachable objects, and the copies are ready to
\* be copied again: no flag and no forwarding pointer is left in them.
CollectionExact ==
    [][Sane /\ Collecting /\ pc' \in {"run", "alloc"} =>
        /\ allocated' = Live
        /\ \A a \in current' : ~object'[a].forwarded /\ object'[a].forwarding = Nil]_vars

\* A call of gc() or gc_alloc returns to the client or ends the program.  The first
\* collection reads nothing that has been overwritten.
CallsReturn ==
    pc # "run" ~> pc \in {"run", "abort"} \/ (pc = "undefined" /\ ~Sane)

\* The program gives up only when the reachable objects leave no room for the
\* request in one half of the heap: gc_alloc collects before it aborts.
AbortOnlyWhenFull == pc = "abort" => MapThenSumSet(Size, current) + request.size > heap_half_size

\* The client sees no more than the interface promises, although its objects
\* move to the other half and every reference is rewritten.
Heap == INSTANCE GCHeap WITH
            Object <- Identity, Class <- {c.num_fields : c \in Class}, roots <- root_ids
ImplementsHeap ==
    Heap!Init /\ [][Sane' => UNCHANGED Heap!vars \/ Heap!Next]_vars
================================================================================
