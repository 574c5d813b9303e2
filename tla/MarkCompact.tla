------------------------------ MODULE MarkCompact ------------------------------
(***************************************************************************)
(* The collector of mark_compact/mark_compact_1: sequential allocation in  *)
(* one space, and Lisp2 compaction: mark(), then three walks over the heap *)
(* (set_forwarding, adjust_ref, move_obj) that slide the marked objects    *)
(* down to the start of the heap.                                          *)
(*                                                                         *)
(* Memory is the function object: an address in its domain holds the       *)
(* header of an object, which a walk reads to find the next one.  Sizes    *)
(* and addresses are bytes, because an object may be moved to where it     *)
(* partly lies already.  The program is one thread and pc says which loop  *)
(* of it is running.                                                       *)
(***************************************************************************)
EXTENDS ObjectGraph, Sequences, FiniteSets

CONSTANTS
    Class,         \* the client's class descriptors, [size, num_fields]
    MAX_ROOTS,     \* the length of _roots
    MAX_HEAP_SIZE,
    HeapSize,      \* the argument of gc_init
    MaxObjects     \* bound: how many objects the heap can hold at a time

HEADER_SIZE == 24 \* sizeof(object)

ASSUME ClassAssumption ==
    \A c \in Class : c.size \in Nat /\ c.size >= HEADER_SIZE /\ c.num_fields \in Nat
ASSUME SizeAssumption ==
    MAX_ROOTS \in Nat \ {0} /\ MAX_HEAP_SIZE \in Nat /\ HeapSize \in Nat

resolve_heap_size(size) == IF size > MAX_HEAP_SIZE THEN MAX_HEAP_SIZE ELSE size

heap_size == resolve_heap_size(HeapSize)

heap == 1 \* what malloc returned: any address but NULL

ASSUME MaxObjectsAssumption ==
    MaxObjects \in Nat /\ \A c \in Class : heap_size < (MaxObjects + 1) * c.size

\* Ghost: names for objects that stay the same when the object moves.
Identity == 1..MaxObjects

NoRequest == [size |-> 0, num_fields |-> 0]

VARIABLES
    object,           \* the objects in memory: [clss, field, marked, forwarding, id]
    next_free_offset,
    roots,            \* _roots[0 .. _rp - 1]
    pc,               \* "run" (the client), the loop of gc(), or how the program ended
    request,          \* the class gc_alloc collects for, or NoRequest
    ri,               \* index of the next root to mark or to adjust
    stack,            \* the active calls of mark(): object and next field to follow
    scan,             \* where the walk over the heap is
    new_address       \* where the next live object goes (new_next_free_offset)

memory == <<object, next_free_offset, roots>>
walk == <<ri, stack, scan, new_address>>
vars == <<object, next_free_offset, roots, pc, request, ri, stack, scan, new_address>>

Init ==
    /\ object = [a \in {} |-> 0]
    /\ next_free_offset = 0
    /\ roots = <<>>
    /\ pc = "run"
    /\ request = NoRequest
    /\ ri = 1
    /\ stack = <<>>
    /\ scan = heap
    /\ new_address = heap

Objects == DOMAIN object
Size(a) == object[a].clss.size
heap_end == heap + next_free_offset

--------------------------------------------------------------------------------
(* The client, which uses objects where they are now.                      *)

\* gc_add_root.  NULL is left out: adjust_ref reads through every root.
AddRoot ==
    /\ pc = "run"
    /\ Len(roots) < MAX_ROOTS
    /\ \E p \in Objects : roots' = Append(roots, p)
    /\ UNCHANGED <<object, next_free_offset, pc, request, walk>>

\* gc_restore_roots, with an index that gc_save_rp saved earlier.
RestoreRoots ==
    /\ pc = "run"
    /\ \E k \in 0..Len(roots) : roots' = SubSeq(roots, 1, k)
    /\ UNCHANGED <<object, next_free_offset, pc, request, walk>>

\* An assignment such as emp->dept = dept.
Write ==
    /\ pc = "run"
    /\ \E o \in Objects, p \in Objects \cup {Nil} : \E i \in DOMAIN object[o].field :
        object' = [object EXCEPT ![o].field[i] = p]
    /\ UNCHANGED <<next_free_offset, roots, pc, request, walk>>

StartGC(clss) ==
    /\ pc' = "mark"
    /\ request' = clss
    /\ ri' = 1

CollectNow ==
    /\ pc = "run"
    /\ StartGC(NoRequest)
    /\ UNCHANGED <<memory, stack, scan, new_address>>

--------------------------------------------------------------------------------
(* Allocation.                                                             *)

\* Mutant: an object that fills the heap exactly does not fit.
Fits_Strict(clss) == next_free_offset + clss.size < heap_size

Fits(clss) == next_free_offset + clss.size <= heap_size

FreeIdentity == CHOOSE i \in Identity : \A a \in Objects : object[a].id # i

\* The part of gc_alloc after the checks.
Place(clss) ==
    /\ object' = [a \in Objects \cup {heap_end} |->
                    IF a = heap_end
                    THEN [clss |-> clss, field |-> NullFields(clss.num_fields),
                          marked |-> FALSE, forwarding |-> Nil, id |-> FreeIdentity]
                    ELSE object[a]]
    /\ next_free_offset' = next_free_offset + clss.size

\* gc_alloc, up to the collection when the object does not fit.
Alloc ==
    /\ pc = "run"
    /\ \E clss \in Class :
        \/ Fits(clss) /\ Place(clss) /\ UNCHANGED <<pc, request, ri>>
        \/ ~Fits(clss) /\ StartGC(clss) /\ UNCHANGED <<object, next_free_offset>>
    /\ UNCHANGED <<roots, stack, scan, new_address>>

\* Mutant: gc_alloc does not look whether the collection has made room.
AllocAgain_Unchecked ==
    /\ pc = "alloc"
    /\ Place(request)
    /\ pc' = "run"
    /\ request' = NoRequest
    /\ UNCHANGED <<roots, walk>>

\* gc_alloc after the collection.
AllocAgain ==
    /\ pc = "alloc"
    /\ \/ Fits(request) /\ Place(request) /\ pc' = "run" /\ request' = NoRequest
       \/ ~Fits(request) /\ pc' = "abort" /\ UNCHANGED <<object, next_free_offset, request>>
    /\ UNCHANGED <<roots, walk>>

\* After abort(), and after a step whose outcome C does not define, the model
\* stops.
Ended == pc \in {"abort", "undefined"} /\ UNCHANGED vars

--------------------------------------------------------------------------------
(* mark().                                                                 *)

Top == stack[Len(stack)]
Callers == SubSeq(stack, 1, Len(stack) - 1)

Call(p, fs) ==
    IF p = Nil \/ (p \in Objects /\ object[p].marked)
    THEN stack' = fs /\ UNCHANGED object
    ELSE /\ stack' = Append(fs, [obj |-> p, i |-> 1])
         /\ object' = [object EXCEPT ![p].marked = TRUE]

MarkRoot ==
    /\ pc = "mark"
    /\ stack = <<>>
    /\ ri <= Len(roots)
    /\ Call(roots[ri], <<>>)
    /\ ri' = ri + 1
    /\ UNCHANGED <<next_free_offset, roots, pc, request, scan, new_address>>

MarkField ==
    /\ pc = "mark"
    /\ stack # <<>>
    /\ Top.i \in DOMAIN object[Top.obj].field
    /\ Call(object[Top.obj].field[Top.i],
            Append(Callers, [obj |-> Top.obj, i |-> Top.i + 1]))
    /\ UNCHANGED <<next_free_offset, roots, pc, request, ri, scan, new_address>>

MarkReturn ==
    /\ pc = "mark"
    /\ stack # <<>>
    /\ Top.i \notin DOMAIN object[Top.obj].field
    /\ stack' = Callers
    /\ UNCHANGED <<memory, pc, request, ri, scan, new_address>>

MarkDone ==
    /\ pc = "mark"
    /\ stack = <<>>
    /\ ri > Len(roots)
    /\ pc' = "forward"
    /\ scan' = heap
    /\ new_address' = heap
    /\ UNCHANGED <<memory, request, ri, stack>>

--------------------------------------------------------------------------------
(* set_forwarding().                                                       *)

\* Mutant: scan advances past marked objects only.
Forward_DeadStuck ==
    /\ pc = "forward"
    /\ scan < heap_end
    /\ object[scan].marked
    /\ object' = [object EXCEPT ![scan].forwarding = new_address]
    /\ new_address' = new_address + Size(scan)
    /\ scan' = scan + Size(scan)
    /\ UNCHANGED <<next_free_offset, roots, pc, request, ri, stack>>

Forward ==
    /\ pc = "forward"
    /\ scan < heap_end
    /\ IF object[scan].marked
       THEN /\ object' = [object EXCEPT ![scan].forwarding = new_address]
            /\ new_address' = new_address + Size(scan)
       ELSE UNCHANGED <<object, new_address>>
    /\ scan' = scan + Size(scan)
    /\ UNCHANGED <<next_free_offset, roots, pc, request, ri, stack>>

ForwardDone ==
    /\ pc = "forward"
    /\ scan >= heap_end
    /\ pc' = "adjust roots"
    /\ ri' = 1
    /\ UNCHANGED <<memory, request, stack, scan, new_address>>

--------------------------------------------------------------------------------
(* adjust_ref(): the loop over the roots, then the walk over the heap.      *)

AdjustRoot ==
    /\ pc = "adjust roots"
    /\ ri <= Len(roots)
    /\ roots' = [roots EXCEPT ![ri] = object[@].forwarding]
    /\ ri' = ri + 1
    /\ UNCHANGED <<object, next_free_offset, pc, request, stack, scan, new_address>>

AdjustRootsDone ==
    /\ pc = "adjust roots"
    /\ ri > Len(roots)
    /\ pc' = "adjust"
    /\ scan' = heap
    /\ UNCHANGED <<memory, request, ri, stack, new_address>>

\* Mutant: the first reference of every object is left as it is.
Adjusted_FirstMissed(field) ==
    [i \in DOMAIN field |->
        IF i > 1 /\ field[i] # Nil /\ object[field[i]].forwarding # Nil
        THEN object[field[i]].forwarding ELSE field[i]]

\* The references of an object, each replaced by its object's forwarding pointer.
Adjusted(field) ==
    [i \in DOMAIN field |->
        IF field[i] # Nil /\ object[field[i]].forwarding # Nil
        THEN object[field[i]].forwarding ELSE field[i]]

\* The loop over the fields of one object is one step.
Adjust ==
    /\ pc = "adjust"
    /\ scan < heap_end
    /\ object' = IF object[scan].marked
                 THEN [object EXCEPT ![scan].field = Adjusted(@)]
                 ELSE object
    /\ scan' = scan + Size(scan)
    /\ UNCHANGED <<next_free_offset, roots, pc, request, ri, stack, new_address>>

AdjustDone ==
    /\ pc = "adjust"
    /\ scan >= heap_end
    /\ pc' = "move"
    /\ scan' = heap
    /\ new_address' = heap
    /\ UNCHANGED <<memory, request, ri, stack>>

--------------------------------------------------------------------------------
(* move_obj().  In it new_address is heap + new_next_free_offset.          *)

SkipDead ==
    /\ pc = "move"
    /\ scan < heap_end
    /\ ~object[scan].marked
    /\ scan' = scan + Size(scan)
    /\ UNCHANGED <<memory, pc, request, ri, stack, new_address>>

Unmarked == [object[scan] EXCEPT !.marked = FALSE]
Overwritten == object[scan].forwarding .. object[scan].forwarding + Size(scan) - 1

\* Mutant: the flag of a moved object is not reset.
Move_KeepsMark ==
    /\ pc = "move"
    /\ scan < heap_end
    /\ object[scan].marked
    /\ object[scan].forwarding = scan \/ scan \notin Overwritten
    /\ object' = [a \in (Objects \ Overwritten) \cup {object[scan].forwarding} |->
                    IF a = object[scan].forwarding THEN object[scan] ELSE object[a]]
    /\ new_address' = new_address + Size(scan)
    /\ scan' = scan + Size(scan)
    /\ UNCHANGED <<next_free_offset, roots, pc, request, ri, stack>>

\* memcpy to the forwarding pointer.  What lay there is gone; the header at scan
\* is still there to be read for the next step of the walk.
Move ==
    /\ pc = "move"
    /\ scan < heap_end
    /\ object[scan].marked
    /\ object[scan].forwarding = scan \/ scan \notin Overwritten
    /\ object' = [a \in (Objects \ Overwritten) \cup {object[scan].forwarding} |->
                    IF a \in {scan, object[scan].forwarding} THEN Unmarked ELSE object[a]]
    /\ new_address' = new_address + Size(scan)
    /\ scan' = scan + Size(scan)
    /\ UNCHANGED <<next_free_offset, roots, pc, request, ri, stack>>

\* memcpy to a place that overlaps the object itself: it overwrites the header at
\* scan, and the next line reads obj->clss->size from what is there now.
MoveOntoItself ==
    /\ pc = "move"
    /\ scan < heap_end
    /\ object[scan].marked
    /\ object[scan].forwarding # scan
    /\ scan \in Overwritten
    /\ pc' = "undefined"
    /\ UNCHANGED <<memory, request, walk>>

\* Mutant: the free pointer stays where it was.
MoveDone_FreeKept ==
    /\ pc = "move"
    /\ scan >= heap_end
    /\ object' = [a \in {b \in Objects : b < new_address} |-> object[a]]
    /\ pc' = IF request = NoRequest THEN "run" ELSE "alloc"
    /\ ri' = 1
    /\ scan' = heap
    /\ new_address' = heap
    /\ UNCHANGED <<next_free_offset, roots, request, stack>>

\* memset clears what is left behind, and gc() returns to the client or gc_alloc.
MoveDone ==
    /\ pc = "move"
    /\ scan >= heap_end
    /\ object' = [a \in {b \in Objects : b < new_address} |-> object[a]]
    /\ next_free_offset' = new_address - heap
    /\ pc' = IF request = NoRequest THEN "run" ELSE "alloc"
    /\ ri' = 1
    /\ scan' = heap
    /\ new_address' = heap
    /\ UNCHANGED <<roots, request, stack>>

--------------------------------------------------------------------------------

Client == AddRoot \/ RestoreRoots \/ Write \/ CollectNow \/ Alloc
Mark == MarkRoot \/ MarkField \/ MarkReturn \/ MarkDone
Compact ==
    \/ Forward \/ ForwardDone
    \/ AdjustRoot \/ AdjustRootsDone \/ Adjust \/ AdjustDone
    \/ SkipDead \/ Move \/ MoveOntoItself \/ MoveDone

Next == Client \/ AllocAgain \/ Mark \/ Compact \/ Ended

Spec == Init /\ [][Next]_vars

\* A call of gc_alloc or gc() runs to its end: its loops are steps of the one
\* thread and wait for nothing.
FairSpec == Spec /\ WF_vars(AllocAgain \/ Mark \/ Compact)

--------------------------------------------------------------------------------
(* What the heap stands for, in the middle of a compaction too.            *)

Moving == pc \in {"move", "undefined"}

\* Where the objects are: below new_address those already moved, from scan on
\* the live ones still to be moved; what is between is stale.
Present ==
    IF Moving THEN {a \in Objects : a < new_address \/ (scan <= a /\ object[a].marked)}
    ELSE Objects

\* Whether the references in the object at a are forwarding pointers already.
Rewritten(a) == Moving \/ (pc = "adjust" /\ a < scan /\ object[a].marked)
RootRewritten(i) == Moving \/ pc = "adjust" \/ (pc = "adjust roots" /\ i < ri)

Dangling == MaxObjects + 1

\* The object a pointer designates: the one that is, or is going to be, there.
Designated(p, rewritten) ==
    LET there == {a \in Present :
                    IF rewritten THEN object[a].forwarding = p /\ (object[a].marked \/ Moving)
                    ELSE a = p}
    IN  IF p = Nil THEN Nil
        ELSE IF there = {} THEN Dangling
        ELSE object[CHOOSE a \in there : TRUE].id

allocated == {object[a].id : a \in Present}

Home(i) == CHOOSE a \in Present : object[a].id = i

field ==
    [i \in Identity |->
        IF i \in allocated
        THEN LET a == Home(i) IN
             [k \in DOMAIN object[a].field |-> Designated(object[a].field[k], Rewritten(a))]
        ELSE NullFields(0)]

root_ids == {Designated(roots[i], RootRewritten(i)) : i \in DOMAIN roots}

Live == Reachable(Identity, field, root_ids)

--------------------------------------------------------------------------------
(* Properties.                                                             *)

Address == heap..(heap + heap_size)
Pointer == Address \cup {Nil}
Header(a) ==
    /\ object[a].clss \in Class
    /\ object[a].field \in [1..object[a].clss.num_fields -> Pointer]
    /\ object[a].marked \in BOOLEAN
    /\ object[a].forwarding \in Pointer
    /\ object[a].id \in Identity

\* Every variable has its type; in particular no object and no pointer is ever
\* outside the heap, and the walks never leave it (gc_alloc, move_obj).
TypeOK ==
    /\ Objects \subseteq Address
    /\ \A a \in Objects : Header(a) /\ a + Size(a) <= heap + heap_size
    /\ next_free_offset \in 0..heap_size
    /\ roots \in Seq(Pointer) /\ Len(roots) <= MAX_ROOTS
    /\ pc \in {"run", "mark", "forward", "adjust roots", "adjust", "move", "alloc",
               "abort", "undefined"}
    /\ request \in Class \cup {NoRequest}
    /\ ri \in 1..(MAX_ROOTS + 1)
    /\ \A j \in DOMAIN stack : stack[j].obj \in Objects
    /\ scan \in Address
    /\ new_address \in Address

\* From where a walk is, every step that adds an object's size leads to the next
\* header or to the end of the used part: no walk of set_forwarding, adjust_ref or
\* move_obj reads a header where there is none.
WalkIsSound ==
    /\ scan \in Objects \cup {heap_end} \/ pc \notin {"forward", "adjust", "move"}
    /\ \A a \in Objects :
          (~Moving \/ a >= scan) => a + Size(a) \in Objects \cup {heap_end}

\* When a compaction ends, exactly the reachable objects are left, none is
\* marked, and each is where its forwarding pointer said.
CollectionExact ==
    [][pc = "move" /\ pc' \notin {"move", "undefined"} =>
        /\ allocated' = Live
        /\ \A a \in Objects' : ~object'[a].marked /\ object'[a].forwarding = a]_vars

\* The program gives up only when the reachable objects leave no room for the
\* request: gc_alloc collects before it aborts.
AbortOnlyWhenFull ==
    pc = "abort" =>
        next_free_offset + request.size > heap_size /\ allocated \subseteq Live

\* A call of gc() or gc_alloc returns to the client, or ends the program.
CallsReturn == pc # "run" ~> pc \in {"run", "abort", "undefined"}

\* move_obj moves every live object and finds every one of them: it never
\* overwrites a header it has yet to read.
MovesEveryObject == pc # "undefined"

\* The client sees no more than the interface promises, although every object
\* moves and every reference is rewritten under its feet.
Heap == INSTANCE GCHeap WITH
            Object <- Identity, Class <- {c.num_fields : c \in Class}, roots <- root_ids
ImplementsHeap == Heap!Spec
================================================================================
