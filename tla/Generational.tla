------------------------------ MODULE Generational ------------------------------
(***************************************************************************)
(* The collector of generational/generational_1.  New objects go to eden;  *)
(* minor_gc copies what the roots and the remembered set lead to from eden *)
(* and one survivor space to the other, and an object that has been copied *)
(* MAX_AGE times to a cell of the old generation, which major_gc marks and *)
(* sweeps.                                                                 *)
(*                                                                         *)
(* Memory is the function object, from the addresses at which a header     *)
(* lies, as in Copying; what lies elsewhere is cleared memory, or was never*)
(* written.  old_mark and old_sweep run without a call of anything else    *)
(* and are one step, so marked is FALSE in every state and left out.  A    *)
(* cell is used iff an object lies in it.                                  *)
(*                                                                         *)
(* The code goes wrong in several ways that are no event of the interface; *)
(* the ghost mishap names the first of them that happened, and the module  *)
(* says what holds as long as none has.                                    *)
(***************************************************************************)
EXTENDS ObjectGraph, Sequences, FiniteSetsExt, Functions

CONSTANTS
    Class,          \* the client's class descriptors, [size, num_fields]
    MAX_ROOTS,      \* the length of _roots and of _rs
    MAX_AGE,
    MAX_HEAP_SIZE,
    NODE_SIZE,      \* the size of an old cell
    HeapSize,       \* the argument of gc_init
    MaxCollections, \* bound: how often minor_gc() runs
    MaxObjects      \* bound: how many objects are in memory at a time

HEADER_SIZE == 32 \* sizeof(object)
NODE_HEADER == 24 \* sizeof(node)
NEW_RATIO == 2
SURVIVOR_RATIO == 8

\* resolve_heap_size.
requested == IF HeapSize > MAX_HEAP_SIZE THEN MAX_HEAP_SIZE ELSE HeapSize
new_part == (requested \div 10) * NEW_RATIO
eden_size == (new_part \div 10) * SURVIVOR_RATIO
survivor_size == new_part \div 10
new_size == eden_size + survivor_size * 2
free_list_size == (requested - new_size) \div NODE_SIZE

ASSUME SizeAssumption ==
    /\ {MAX_ROOTS, MAX_AGE, NODE_SIZE, free_list_size, MaxObjects} \subseteq Nat \ {0}
    /\ {MAX_HEAP_SIZE, HeapSize, MaxCollections} \subseteq Nat
ASSUME ClassAssumption ==
    \A c \in Class : c.size \in Nat /\ c.size >= HEADER_SIZE /\ c.num_fields \in Nat

\* generational.h:36 asks that a cell is large enough for an object, which matters
\* for one that survives a collection.
ASSUME CellAssumption ==
    \A c \in Class : c.size <= survivor_size => c.size + NODE_HEADER <= NODE_SIZE

heap == 1 \* what malloc returned: any address but NULL
new_eden == heap
survivor1 == new_eden + eden_size
survivor2 == survivor1 + survivor_size
old == heap + new_size

\* The cells, numbered by address from 1.  Each links to the one below it.
Cell == 1..free_list_size
old_head == free_list_size
Data(n) == old + (n - 1) * NODE_SIZE + NODE_HEADER

\* Ghost: names for objects that stay the same when the object is copied.
Identity == 1..MaxObjects

NoRequest == [size |-> 0, num_fields |-> 0]

VARIABLES
    object,                 \* memory: [clss, field, age, forwarded, forwarding,
                            \*          remembered, and the ghosts id and born]
    next_free_offset,
    next_forwarding_offset,
    new_from,               \* a survivor space; new_to is the other one
    old_next_free,          \* a cell, or Nil
    roots,                  \* _roots[0 .. _rp - 1]
    rs,                     \* _rs[0 .. _rsp - 1]; the rest of _rs is NULL
    pc,                     \* "run" (the client), where a collection is, or how it ended
    request,                \* the class gc_alloc collects for, or NoRequest
    ri,                     \* the index in _roots, then in _rs
    fi, has_new_obj,        \* the field of _rs[ri], and whether one was young
    stack,                  \* the active calls of new_copy(): object and next field
    p,                      \* adjust_ref(): the offset of the next object
    collections,            \* ghost: how often minor_gc() has been called
    mishap                  \* ghost: the first thing that went wrong, or "none"

record == <<fi, has_new_obj>>
loops == <<ri, record, stack, p>>
space == <<next_free_offset, new_from>>
call == <<request, collections>>
\* What new_copy() changes, with object.
copying == <<next_forwarding_offset, old_next_free, rs, stack, mishap>>
vars == <<object, space, copying, roots, pc, call, ri, record, p>>

Init ==
    /\ object = [a \in {} |-> 0]
    /\ next_free_offset = 0
    /\ next_forwarding_offset = 0
    /\ new_from = survivor1
    /\ old_next_free = old_head
    /\ roots = <<>>
    /\ rs = <<>>
    /\ pc = "run"
    /\ request = NoRequest
    /\ ri = 1
    /\ fi = 1
    /\ has_new_obj = FALSE
    /\ stack = <<>>
    /\ p = 0
    /\ collections = 0
    /\ mishap = "none"

Objects == DOMAIN object
Size(a) == object[a].clss.size
new_to == IF new_from = survivor1 THEN survivor2 ELSE survivor1
Young == {a \in Objects : a < old}
Old == Objects \ Young
Eden == {a \in Objects : a < survivor1}

\* The comparison that write_barrier and minor_gc take for "is young": NULL,
\* eden, the first survivor space and the first byte of the second one.
TakenForYoung(q) == q <= new_eden + eden_size + survivor_size

\* What is young and not taken for it.
Overlooked(q) == ~TakenForYoung(q) /\ q < old

FirstMishap(happened, what) == IF mishap = "none" /\ happened THEN what ELSE mishap

--------------------------------------------------------------------------------
(* The client.  It uses what its roots lead to and what it has allocated   *)
(* since the last collection.                                              *)

\* Bound: the client makes no call after the first mishap.
ClientRuns == pc = "run" /\ mishap = "none"

Usable ==
    Reachable(Objects,
              [a \in Objects |-> [i \in DOMAIN object[a].field |->
                  IF object[a].field[i] \in Objects THEN object[a].field[i] ELSE Nil]],
              (Pointees(roots) \cap Objects) \cup Eden)

\* gc_add_root.  Bound: the client adds no object that is a root, and no NULL.
AddRoot ==
    /\ ClientRuns
    /\ Len(roots) < MAX_ROOTS
    /\ \E o \in Usable \ Pointees(roots) : roots' = Append(roots, o)
    /\ UNCHANGED <<object, space, copying, pc, call, ri, record, p>>

\* gc_restore_roots, with an index that gc_save_rp saved earlier.
RestoreRoots ==
    /\ ClientRuns
    /\ \E k \in 0..(Len(roots) - 1) : roots' = SubSeq(roots, 1, k)
    /\ UNCHANGED <<object, space, copying, pc, call, ri, record, p>>

\* Mutant: only an object in eden counts as young.
Recorded_EdenOnly(obj, new_obj) ==
    obj >= old /\ new_obj < survivor1 /\ ~object[obj].remembered

Recorded(obj, new_obj) ==
    obj >= old /\ TakenForYoung(new_obj) /\ ~object[obj].remembered

\* gc_update_ptr, which is write_barrier.
gc_update_ptr ==
    /\ ClientRuns
    /\ \E obj \in Usable, new_obj \in Usable \cup {Nil} : \E i \in DOMAIN object[obj].field :
        /\ object' = [object EXCEPT ![obj].field[i] = new_obj]
        /\ IF Recorded(obj, new_obj)
           THEN IF Len(rs) < MAX_ROOTS
                THEN rs' = Append(rs, obj) /\ UNCHANGED <<pc, mishap>>
                ELSE /\ pc' = "undefined"
                     /\ mishap' = FirstMishap(TRUE, "_rs overflows")
                     /\ UNCHANGED rs
           ELSE /\ mishap' = FirstMishap(obj >= old /\ Overlooked(new_obj),
                                         "reference not recorded")
                /\ UNCHANGED <<rs, pc>>
    /\ UNCHANGED <<space, next_forwarding_offset, old_next_free, roots, call, loops>>

\* Entering minor_gc().
StartMinor(clss) ==
    /\ collections < MaxCollections
    /\ collections' = collections + 1
    /\ pc' = "roots"
    /\ request' = clss
    /\ next_forwarding_offset' = 0
    /\ ri' = 1

\* gc().
CollectNow ==
    /\ ClientRuns
    /\ StartMinor(NoRequest)
    /\ UNCHANGED <<object, space, old_next_free, rs, roots, record, stack, p, mishap>>

--------------------------------------------------------------------------------
(* gc_alloc, which is new_malloc.                                          *)

\* Mutant: the test forgets the size of the new object.
Fits_SizeForgotten(clss) == next_free_offset < eden_size

Fits(clss) == next_free_offset + clss.size <= eden_size

FreeIdentity == {i \in Identity : \A a \in Objects : object[a].id # i}

Place(clss) ==
    /\ object' = [a \in Objects \cup {new_eden + next_free_offset} |->
                    IF a \in Objects THEN object[a]
                    ELSE [clss |-> clss, field |-> NullFields(clss.num_fields), age |-> 0,
                          forwarded |-> FALSE, forwarding |-> Nil, remembered |-> FALSE,
                          id |-> Min(FreeIdentity), born |-> collections]]
    /\ next_free_offset' = next_free_offset + clss.size

\* gc_alloc, up to the collection when the object does not fit.  new_malloc does
\* not set remembered, but nothing reads it before the first copy does.
gc_alloc ==
    /\ ClientRuns
    /\ FreeIdentity # {}
    /\ \E clss \in Class :
        \/ /\ Fits(clss)
           /\ Place(clss)
           /\ UNCHANGED <<next_forwarding_offset, pc, call, ri>>
        \/ /\ ~Fits(clss)
           /\ StartMinor(clss)
           /\ UNCHANGED <<object, next_free_offset>>
    /\ UNCHANGED <<new_from, old_next_free, rs, roots, record, stack, p, mishap>>

\* gc_alloc after the collection.
AllocAgain ==
    /\ pc = "alloc"
    /\ request' = NoRequest
    /\ IF Fits(request)
       THEN Place(request) /\ pc' = "run"
       ELSE pc' = "abort" /\ UNCHANGED <<object, next_free_offset>>
    /\ UNCHANGED <<new_from, copying, roots, collections, ri, record, p>>

\* The client may do nothing more.  After abort(), and after a step whose outcome C
\* does not define, the model stops.
Ended == pc \in {"run", "abort", "old full", "undefined"} /\ UNCHANGED vars

--------------------------------------------------------------------------------
(* major_gc().                                                             *)

\* The references that old_mark follows.
OldField ==
    [a \in Old |-> [i \in DOMAIN object[a].field |->
        IF object[a].field[i] \in Old THEN object[a].field[i] ELSE Nil]]

\* Mutant: the roots are marked, and nothing is that they refer to.
Marked_RootsOnly == {q \in Pointees(roots) : q > old} \cap Old

Marked == Reachable(Old, OldField, {q \in Pointees(roots) : q > old} \cap Old)

\* old_mark reads the class of a swept object.
MarkCrashes ==
    \/ \E q \in Pointees(roots) : q > old /\ q \notin Old
    \/ \E a \in Marked : \E q \in Pointees(object[a].field) : q >= old /\ q \notin Old

Swept == Old \ Marked
AfterMajor == [a \in Objects \ Swept |-> object[a]]

\* What old_sweep leaves in old_next_free: the sweep goes down the list.
NextFreeAfterMajor ==
    IF Swept = {} THEN old_next_free ELSE Min({n \in Cell : Data(n) \in Swept})

\* major_gc sweeps what a young object, or a forwarding pointer, leads to.
SweepsNeeded ==
    \E a \in Young : Swept \cap ({object[a].forwarding} \cup Pointees(object[a].field)) # {}

\* major_gc() at the end of gc().
Major ==
    /\ pc = "major"
    /\ IF MarkCrashes
       THEN pc' = "undefined" /\ UNCHANGED <<object, old_next_free, mishap>>
       ELSE /\ object' = AfterMajor
            /\ old_next_free' = NextFreeAfterMajor
            /\ pc' = "run"
            /\ mishap' = IF SweepsNeeded
                         THEN FirstMishap(TRUE, "young reference swept")
                         ELSE FirstMishap(Swept \cap Range(rs) # {}, "remembered object swept")
    /\ UNCHANGED <<space, next_forwarding_offset, rs, roots, call, loops>>

--------------------------------------------------------------------------------
(* new_copy(), with promotion() and old_malloc().                          *)

IsNew(q) == q \in Objects /\ ~object[q].forwarded

\* Mutant: an object is promoted one collection early.
ToSurvivor_Early(q) == IsNew(q) /\ object[q].age + 1 < MAX_AGE

\* new_copy(q) copies q to the survivor space, or else promotes it.
ToSurvivor(q) == IsNew(q) /\ object[q].age < MAX_AGE
ToOld(q) == IsNew(q) /\ ~ToSurvivor(q)

\* The test takes the offset of eden for the one of the survivor space.
NoRoom(q) == next_free_offset + Size(q) > survivor_size

forwarding == new_to + next_forwarding_offset

\* old_malloc looks for a cell, and when there is none after a major_gc().
MustSearch == old_next_free = Nil \/ Data(old_next_free) \in Objects
Idle(memory) == {n \in Cell : Data(n) \notin memory}
MustSweep == MustSearch /\ Idle(Objects) = {}
Kept == IF MustSweep THEN AfterMajor ELSE object

\* The cell that old_malloc uses: the search starts at old_head.
NewCell == IF MustSearch THEN Max(Idle(DOMAIN Kept)) ELSE old_next_free

\* The two ways in which new_copy(q) aborts.
CopyAborts(q) == ToSurvivor(q) /\ NoRoom(q)

\* Mutant: old_malloc gives up without a major_gc().
OldIsFull_NoMajor(q) == ToOld(q) /\ MustSearch /\ Idle(Objects) = {}

OldIsFull(q) == ToOld(q) /\ MustSearch /\ Idle(DOMAIN Kept) = {}

\* new_copy(q) reads the class of cleared memory, or writes behind the survivor
\* space it copies to.
CopyUndefined(q) ==
    \/ q # Nil /\ q \notin Objects
    \/ /\ ToSurvivor(q) /\ ~NoRoom(q)
       /\ next_forwarding_offset + Size(q) > survivor_size
    \/ ToOld(q) /\ MustSweep /\ (MarkCrashes \/ q \in Swept)

\* What new_copy(q) returns.
Result(q) ==
    IF q = Nil THEN Nil
    ELSE IF ToSurvivor(q) THEN forwarding
    ELSE IF ToOld(q) THEN Data(NewCell)
    ELSE object[q].forwarding

\* memcpy to the survivor space, and the forwarding pointer in the original.
Copied(q) ==
    LET older == [object[q] EXCEPT !.age = @ + 1] IN
    [a \in Objects \cup {forwarding} |->
        IF a = q THEN [older EXCEPT !.forwarded = TRUE, !.forwarding = forwarding]
        ELSE IF a = forwarding THEN [older EXCEPT !.remembered = FALSE]
        ELSE object[a]]

\* old_malloc's memcpy, after which it sets every reference to NULL.
Cell0(q) ==
    [object[q] EXCEPT !.forwarded = FALSE, !.field = NullFields(object[q].clss.num_fields)]

\* promotion() looks for references to young objects only now.
RefersToYoung(o) == \E i \in DOMAIN o.field : o.field[i] # Nil /\ o.field[i] <= old

Promoted(q) ==
    [a \in DOMAIN Kept \cup {Data(NewCell)} |->
        IF a = q THEN [object[q] EXCEPT !.forwarded = TRUE, !.forwarding = Data(NewCell)]
        ELSE IF a = Data(NewCell)
        THEN [Cell0(q) EXCEPT !.remembered = @ \/ RefersToYoung(Cell0(q))]
        ELSE object[a]]

CopyMishap(q) ==
    IF q >= old THEN FirstMishap(TRUE, "old object copied")
    ELSE IF IsNew(q) /\ new_to <= q /\ q < forwarding
    THEN FirstMishap(TRUE, "copy copied again")
    ELSE IF ~ToOld(q) THEN mishap
    ELSE IF MustSweep /\ SweepsNeeded THEN FirstMishap(TRUE, "young reference swept")
    ELSE IF MustSweep /\ Swept \cap Range(rs) # {}
    THEN FirstMishap(TRUE, "remembered object swept")
    ELSE FirstMishap(Pointees(object[q].field) # {Nil} /\ object[q].field # <<>>,
                     "references lost")

\* The memory after new_copy(q), without the calls for the fields of q.
After(q) == IF ToSurvivor(q) THEN Copied(q) ELSE IF ToOld(q) THEN Promoted(q) ELSE object

\* A call of new_copy(q) from the active calls fs that does not end the program.
Call(q, fs) ==
    /\ ~CopyAborts(q) /\ ~OldIsFull(q) /\ ~CopyUndefined(q)
    /\ next_forwarding_offset' = next_forwarding_offset + (IF ToSurvivor(q) THEN Size(q) ELSE 0)
    /\ old_next_free' = IF ToOld(q) THEN NewCell - 1 ELSE old_next_free
    /\ rs' = IF ToOld(q) /\ RefersToYoung(Cell0(q)) THEN Append(rs, Data(NewCell)) ELSE rs
    /\ stack' = IF ToSurvivor(q) THEN Append(fs, [obj |-> q, i |-> 1]) ELSE fs
    /\ mishap' = CopyMishap(q)

--------------------------------------------------------------------------------
(* minor_gc().                                                             *)

\* A round of the loop over the roots.  The root is replaced when new_copy() is
\* called and not when it returns, as in Copying: what new_copy() reads of the
\* roots, in a major_gc(), are the old ones.
CopyRoot ==
    /\ pc = "roots" /\ stack = <<>> /\ ri <= Len(roots)
    /\ TakenForYoung(roots[ri])
    /\ Call(roots[ri], <<>>)
    /\ object' = After(roots[ri])
    /\ roots' = [roots EXCEPT ![ri] = Result(@)]
    /\ ri' = ri + 1
    /\ UNCHANGED <<space, pc, call, record, p>>

SkipRoot ==
    /\ pc = "roots" /\ stack = <<>> /\ ri <= Len(roots)
    /\ ~TakenForYoung(roots[ri])
    /\ ri' = ri + 1
    /\ mishap' = FirstMishap(Overlooked(roots[ri]), "root not copied")
    /\ UNCHANGED <<object, space, next_forwarding_offset, old_next_free, rs, roots, pc,
                   call, record, stack, p>>

RootsDone ==
    /\ pc = "roots" /\ stack = <<>> /\ ri > Len(roots)
    /\ pc' = "remembered"
    /\ ri' = 1
    /\ fi' = 1
    /\ has_new_obj' = FALSE
    /\ UNCHANGED <<object, space, copying, roots, call, p>>

Top == stack[Len(stack)]
Callers == SubSeq(stack, 1, Len(stack) - 1)

\* new_copy's loop over the fields, which it reads in the original.
CopyField ==
    /\ stack # <<>>
    /\ Top.i \in DOMAIN object[Top.obj].field
    /\ LET q == object[Top.obj].field[Top.i] IN
        /\ Call(q, Append(Callers, [obj |-> Top.obj, i |-> Top.i + 1]))
        /\ object' = After(q)
    /\ UNCHANGED <<space, roots, pc, call, ri, record, p>>

CopyReturn ==
    /\ stack # <<>>
    /\ Top.i \notin DOMAIN object[Top.obj].field
    /\ stack' = Callers
    /\ UNCHANGED <<object, space, next_forwarding_offset, old_next_free, rs, roots, pc,
                   call, ri, record, p, mishap>>

old_root == rs[ri]
AtRecord == pc = "remembered" /\ stack = <<>> /\ ri <= Len(rs) /\ old_root \in Objects
AtRecordField == AtRecord /\ fi \in DOMAIN object[old_root].field

\* A field of a recorded object.  A NULL in it counts as a young object.
RecordedField ==
    /\ AtRecordField
    /\ LET q == object[old_root].field[fi] IN
        IF q < old
        THEN /\ Call(q, <<>>)
             /\ object' = [After(q) EXCEPT ![old_root].field[fi] = Result(q)]
             /\ has_new_obj' = (has_new_obj \/ Result(q) < old)
        ELSE UNCHANGED <<object, copying, has_new_obj>>
    /\ fi' = fi + 1
    /\ UNCHANGED <<space, roots, pc, call, ri, p>>

\* Mutant: the index does not move past an entry that stays.
NextIndex_Same(stays) == ri

\* The index after an entry: what takes the place of a removed one comes next.
NextIndex(stays) == IF stays THEN ri + 1 ELSE ri

\* The end of the loop over the fields.  An entry with nothing young goes: unless
\* it is the last, what is behind the end of the set takes its place, which is
\* NULL, and the last entry is dropped.
NextRecord ==
    /\ AtRecord
    /\ fi \notin DOMAIN object[old_root].field
    /\ fi' = 1
    /\ has_new_obj' = FALSE
    /\ ri' = NextIndex(has_new_obj)
    /\ IF has_new_obj
       THEN UNCHANGED <<object, rs, mishap>>
       ELSE /\ object' = [object EXCEPT ![old_root].remembered = FALSE]
            /\ rs' = [i \in 1..(Len(rs) - 1) |-> IF i = ri THEN Nil ELSE rs[i]]
            /\ mishap' = FirstMishap(ri < Len(rs), "NULL in the remembered set")
    /\ UNCHANGED <<space, next_forwarding_offset, old_next_free, roots, pc, call, stack, p>>

RecordsDone ==
    /\ pc = "remembered" /\ stack = <<>> /\ ri > Len(rs)
    /\ pc' = "adjust"
    /\ p' = 0
    /\ ri' = 1
    /\ UNCHANGED <<object, space, copying, roots, call, record>>

\* The argument of the call of new_copy() that comes next, if one does.
NextCall ==
    IF stack # <<>>
    THEN IF Top.i \in DOMAIN object[Top.obj].field
         THEN {object[Top.obj].field[Top.i]} ELSE {}
    ELSE IF pc = "roots" /\ ri <= Len(roots)
    THEN {q \in {roots[ri]} : TakenForYoung(q)}
    ELSE IF AtRecordField THEN {q \in {object[old_root].field[fi]} : q < old} ELSE {}

\* abort() in new_copy() or old_find_idle_node(), or what C does not define.
CollectionStops ==
    /\ pc' = IF \E q \in NextCall : CopyAborts(q) THEN "abort"
             ELSE IF \E q \in NextCall : CopyUndefined(q) THEN "undefined"
             ELSE IF \E q \in NextCall : OldIsFull(q) THEN "old full"
             ELSE "undefined"
    /\ \/ \E q \in NextCall : CopyAborts(q) \/ CopyUndefined(q) \/ OldIsFull(q)
       \/ pc = "remembered" /\ stack = <<>> /\ ri <= Len(rs) /\ old_root \notin Objects
    /\ mishap' = FirstMishap(\E q \in NextCall : q \in Objects /\ CopyUndefined(q),
                             "survivor space overflows")
    /\ UNCHANGED <<object, space, next_forwarding_offset, old_next_free, rs, roots, call,
                   loops>>

--------------------------------------------------------------------------------
(* adjust_ref(), and the end of minor_gc().                                *)

\* The references of a copy, each replaced by its object's forwarding pointer,
\* which is NULL in cleared memory.
Adjusted(field) ==
    [i \in DOMAIN field |->
        IF field[i] \in Objects /\ object[field[i]].forwarding # Nil
        THEN object[field[i]].forwarding ELSE field[i]]

\* The loop over the fields of one object is one step.
Adjust ==
    /\ pc = "adjust"
    /\ p < next_forwarding_offset
    /\ object' = [object EXCEPT ![new_to + p].field = Adjusted(@)]
    /\ p' = p + Size(new_to + p)
    /\ UNCHANGED <<space, copying, roots, pc, call, ri, record>>

\* What is cleared: eden and the survivor space that was copied from.
Cleared ==
    {a \in Young : a < survivor1 \/ (new_from <= a /\ a < new_from + survivor_size)}

\* The two memsets, swap, and the return to gc() or to new_malloc().
AdjustDone ==
    /\ pc = "adjust"
    /\ p >= next_forwarding_offset
    /\ object' = [a \in Objects \ Cleared |-> object[a]]
    /\ new_from' = new_to
    /\ next_free_offset' = 0
    /\ pc' = IF request = NoRequest THEN "major" ELSE "alloc"
    /\ p' = 0
    /\ UNCHANGED <<copying, roots, call, ri, record>>

--------------------------------------------------------------------------------

Client == AddRoot \/ RestoreRoots \/ gc_update_ptr \/ CollectNow \/ gc_alloc
Copy == CopyRoot \/ SkipRoot \/ RootsDone \/ CopyField \/ CopyReturn \/ CollectionStops
Remembered == RecordedField \/ NextRecord \/ RecordsDone
AdjustRefs == Adjust \/ AdjustDone

Next == Client \/ AllocAgain \/ Copy \/ Remembered \/ AdjustRefs \/ Major \/ Ended

Spec == Init /\ [][Next]_vars

\* A call of gc_alloc or gc() runs to its end: its loops are steps of the one
\* thread and wait for nothing.
FairSpec == Spec /\ WF_vars(AllocAgain \/ Copy \/ Remembered \/ AdjustRefs \/ Major)

--------------------------------------------------------------------------------
(* What the heap stands for.                                               *)

Dangling == MaxObjects + 1
Designated(q) == IF q = Nil THEN Nil ELSE IF q \in Objects THEN object[q].id ELSE Dangling

allocated == {object[a].id : a \in Objects}

field ==
    [i \in Identity |->
        IF i \notin allocated THEN NullFields(0)
        ELSE LET references == object[CHOOSE a \in Objects : object[a].id = i].field
             IN [k \in DOMAIN references |-> Designated(references[k])]]

root_ids == {Designated(roots[i]) : i \in DOMAIN roots} \ {Nil}

--------------------------------------------------------------------------------
(* Properties.                                                             *)

Address == heap..(old + free_list_size * NODE_SIZE)
Pointer == Address \cup {Nil}
Header(o) ==
    /\ o.clss \in Class
    /\ o.field \in [1..o.clss.num_fields -> Pointer]
    /\ o.age \in 0..MAX_AGE
    /\ {o.forwarded, o.remembered} \subseteq BOOLEAN
    /\ o.forwarding \in Pointer
    /\ o.id \in Identity
    /\ o.born \in 0..MaxCollections

\* Every variable has its type: in particular every object lies inside one of the
\* three young spaces or in a cell, and no space holds more than it can (new_copy,
\* new_malloc, old_malloc).
TypeOK ==
    /\ \A a \in Objects : a \in Address /\ Header(object[a])
    /\ \A a \in Young : \E area \in {<<new_eden, eden_size>>, <<survivor1, survivor_size>>,
                                     <<survivor2, survivor_size>>} :
            area[1] <= a /\ a + Size(a) <= area[1] + area[2]
    /\ Old \subseteq {Data(n) : n \in Cell}
    /\ next_free_offset \in 0..eden_size
    /\ next_forwarding_offset \in 0..survivor_size
    /\ new_from \in {survivor1, survivor2}
    /\ old_next_free \in Cell \cup {Nil}
    /\ roots \in Seq(Pointer) /\ Len(roots) <= MAX_ROOTS
    /\ rs \in Seq(Pointer) /\ Len(rs) <= MAX_ROOTS
    /\ pc \in {"run", "roots", "remembered", "adjust", "major", "alloc", "abort", "old full",
               "undefined"}
    /\ request \in Class \cup {NoRequest}
    /\ ri \in 1..(MAX_ROOTS + 1) /\ fi \in Nat /\ has_new_obj \in BOOLEAN
    /\ p \in 0..survivor_size
    /\ collections \in 0..MaxCollections

Sane == mishap = "none"

\* What the code's comments say: while the client runs, every old object that refers
\* to a young one is in the remembered set (write_barrier, minor_gc).
EveryOldToYoungIsRecorded ==
    pc = "run" =>
        \A a \in Old : Pointees(object[a].field) \cap Young # {} => a \in Range(rs)

\* What holds of it, after any mishap: the references that are missing are the ones
\* that write_barrier overlooks, which were stored since the last collection.
\* minor_gc takes no object out of the set too early, although it moves the young
\* ones and promotes some, and old_sweep leaves no other one with such a reference.
RememberedIsComplete ==
    pc = "run" =>
        \A a \in Old : \A q \in Pointees(object[a].field) \cap Young :
            a \in Range(rs) \/ (mishap = "reference not recorded" /\ Overlooked(q))

\* Whether the client runs or waits for room: an object is in the new generation
\* as long as it has been through at most MAX_AGE collections, whatever way led
\* to it, and in the old one afterwards (new_copy).
PromotedInTime ==
    Sane /\ pc = "run" =>
        \A a \in Objects :
            IF a \in Young
            THEN object[a].age = collections - object[a].born
            ELSE collections - object[a].born > MAX_AGE

\* The old generation is full only when each cell holds an object that a chain of
\* old objects connects to a root: old_malloc has searched twice, with a
\* major_gc() in between.
OldFullOnlyWhenReachable ==
    pc = "old full" => Marked = {Data(n) : n \in Cell}

\* A call of gc() or gc_alloc returns to the client or ends the program, and it
\* reads or writes what it must not only after one of the mishaps.
CallsReturn ==
    pc # "run" ~> pc \in {"run", "abort", "old full"} \/ (pc = "undefined" /\ ~Sane)

\* Until the first mishap a collection does to the client's heap only what the
\* interface allows it: it takes back objects that no root leads to, although the
\* others move between three spaces and to the old generation, some in one
\* collection and some in another.  (The steps of the client are the ones of
\* GCHeap by their definitions.)
Heap == INSTANCE GCHeap WITH
            Object <- Identity, Class <- {c.num_fields : c \in Class}, roots <- root_ids
CollectsOnlyGarbage ==
    [][pc # "run" /\ Sane' => UNCHANGED Heap!vars \/ Heap!Reclaim \/ Heap!Alloc]_vars
================================================================================
