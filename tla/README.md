# A TLA+ model of GCAlgorithm

GCAlgorithm is a set of small garbage collectors in C, each in a directory of its own with its own copy of the
interface `gc_init`, `gc_alloc`, `gc`, `gc_add_root`, `gc_restore_roots`. This directory holds TLA+ models of
them, TLC configurations that check the models on small heaps, and proofs, checked by TLAPS, that hold for
every heap.

The question behind all of it is the one a user of a collector asks: *may it ever take back something I can
still reach, and does it take back everything else?*

## The system

Everything runs in one thread. A *client* (the `*_test.c` files, or any program) calls the collector; the
collector runs inside the client's call of `gc_alloc` or `gc`. Client and collector share the heap, the array
`_roots` with its length `_rp`, and the references inside objects, which the client writes directly
(`emp->dept = dept`) or, in two collectors, through `gc_update_ptr`. minigc looks like `malloc` and `free` to
its client and guesses the roots. There are no threads, files or messages, and only one collector, the one of
CPython kept under `old_projects`, calls its client back. What is hard is of another kind:

- a collection is a long computation on a graph with cycles, whose intermediate states (some marks set, some
  references rewritten, some objects moved) must be consistent at every step;
- it happens between any two calls of the client, with any roots;
- state left over from one collection (marks, forwarding pointers, `next_free`, the remembered set) is there
  in the next;
- a walk goes on over a list or a heap that its own steps change: `gc_sweep` merges blocks, `mini_gc_malloc`
  searches a list across a collection, CPython's lists lose and gain objects in the cascades and callbacks of
  a collection;
- memory runs out, and the boundary cases (an exact fit, one idle node left, the head of the list) decide
  whether the program aborts.

### Components

| component | state | operations | what makes it correct |
|---|---|---|---|
| `mark_sweep/mark_sweep_3` | list of 128-byte nodes with `used` flags, `next_free`, `marked` flags, `_roots` | `gc_init`, `gc_alloc`, `find_idle_node`, `mark`, `sweep`, `gc`, root macros | nothing reachable is reclaimed, everything else is; marks are clean afterwards; `mark()` is bounded; abort only when full |
| `reference_counting/reference_counting_1` | the same list, a count in each object | `gc_alloc`, `gc_add_root`, `gc_remove_root`, `gc_update_ptr`, `dec_ref_cnt`, `reclaim` | count = number of references at every step of a cascade; nothing in use reclaimed; only cycles leak |
| `reference_counting/reference_counting_2_zct` | counts, `is_live` flags, a table of 100 | `increase_ref_count`, `decrease_ref_count`, `collect_garbage` | every dropped object is freed once; nothing referred to is freed |
| `mark_compact/mark_compact_1` | one space, `next_free_offset`, `marked`, `forwarding` | `gc_alloc`, `mark`, `set_forwarding`, `adjust_ref`, `move_obj` | every reference designates the same object before and after; walks read headers only; exactly the reachable objects are left |
| `copying/copying_1` | two half spaces, `next_free_offset`, `next_forwarding_offset`, `forwarded`, `forwarding` | `gc_alloc`, `copy`, `adjust_ref`, `copying`, `swap` | as above; the freed half is really used again |
| `generational/generational_1` | eden, two survivor spaces, an old node list, remembered set `_rs`, ages | `new_malloc`, `old_malloc`, `new_copy`, `promotion`, `write_barrier`, `minor_gc`, `major_gc` | every reference from old to young is in `_rs`; no young object is lost; promotion keeps references |
| `minigc` | heaps from `sbrk`, a circular address-ordered free list with coalescing, conservative roots | `mini_gc_malloc`, `mini_gc_free`, `grow`, `gc_mark`, `gc_sweep` | blocks partition the heaps; the free list is exactly the free blocks; no allocated and reachable block is freed |
| `old_projects/Python-3.0.1/Modules/gcmodule.c` | reference counts, `gc_refs`, generation lists and counts, `unreachable`, `finalizers`, weak references | `collect` and all it calls, `_PyObject_GC_Malloc`, tracking; `Py_DECREF` cascades, weak reference callbacks, `__del__` | exactly the objects that cannot be reached from outside the generation are found; no code of the client ever reaches one that is to be cleared; all of them are freed, but for what an object without `tp_clear` still refers to |
| `mark_sweep_1`, `_2`, `_4` to `_7` | a block list; a threaded free list; two lists; a buddy tree; a bitmap; flags | a few functions each | not modelled, see below |
| `old_projects/mark_sweep` | that of an earlier minigc | `gc_mark`, `gc_sweep`, `gc` | not modelled, see below |
| `Incremental`, `rc_immix` | – | – | readme files only, no code |
| `old_projects/{DalvikVM-froyo,Rubinius-5af42280ab,v8-1.3.13.5}`, the rest of `Python-3.0.1` | – | – | excerpts of other projects, kept for reading |

`PROJECT.json` lists all of these, the hazards of each at the line where they bite, and the definition of the
model for each part of the code.

## Modules

```
ObjectGraph                 objects as sequences of references, Reachable, Closed
 ├─ GCHeap                  abstract: what a collector promises its client
 ├─ NodeList                the list of nodes that two of the collectors share
 │    ├─ MarkSweep          mark_sweep_3            (implements GCHeap)
 │    └─ RefCounting        reference_counting_1    (implements GCHeap)
 ├─ MarkCompact             mark_compact_1          (implements GCHeap)
 │    └─ MCMarkCompact      the structures of mark_compact_test.c
 ├─ Copying                 copying_1               (implements GCHeap up to its second collection)
 │    └─ MCCopying          the structures of copying_test.c
 ├─ Generational            generational_1          (collects what GCHeap allows, up to its first mishap)
 │    └─ MCGenerational     the structures of generational_test.c and one that fills eden
 ├─ MiniGC                  minigc
 └─ CyclicGC                CPython's gcmodule.c
ZeroCountTable              reference_counting_2_zct
MarkSweepProofs, RefCountingProofs, ZeroCountTableProofs, CopyingProofs, MarkCompactProofs,
GenerationalProofs, MiniGCProofs, CyclicGCProofs
```

The facts about the object graph, about least numbers and about stacks that several of the proof modules need are
lemmas at the head of each that cites them.

**ObjectGraph.** A collector reads an object's class only for `num_fields`, `field_offsets` and, where objects
are not all given a node of the same size, `size`. So an object is the sequence of its references, and a class
its `num_fields`. `Reachable` is the least closed set that holds the roots, not a recursion, which keeps it
usable in proofs.

**GCHeap** is the interface as a state machine: the client allocates, writes references, adds and drops roots;
the collector may at any step take back (`Reclaim`) any objects that no root leads to. Objects keep their
identity for ever here, also where the code moves them. Four collectors are checked against it with `INSTANCE
GCHeap WITH ...` and the property `ImplementsHeap`, a fifth, Generational, for the steps of its collections.

**NodeList** is `resolve_heap_size`, `init_free_list` and the loop of `find_idle_node`. Node *n* is the *n*-th
of the list, so `head = 1` and `next(n) = n + 1`. `FirstIdle(used, n)` is where the loop stops that starts at
*n*; the loop reads `used` flags only and is one step.

**MarkSweep.** `used`, `field`, `marked`, `roots` and `next_free` are the state of the C program; `pc`,
`request`, `ri`, `stack` and `cursor` are its program counter and locals. `stack` is the recursion of
`mark()`: a frame for each active call, with the field it is at. One action each:

| action | code |
|---|---|
| `AddRoot`, `RestoreRoots`, `Write` | the macros `gc_add_root` and `gc_restore_roots`; an assignment of the client |
| `AllocNextFree` | `gc_alloc` when `next_free` is idle |
| `FindIdle` | `gc_alloc` otherwise: the first loop of `find_idle_node` and the decision to collect |
| `SearchAgain` | the second loop, and the rest of `gc_alloc` or `abort()` |
| `MarkRoot`, `MarkField`, `MarkReturn`, `MarkDone` | one call of `mark()` from `gc`, one from `mark` itself, one return, the end of the loop over the roots |
| `SweepIdle`, `SweepMarked`, `SweepReclaim`, `SweepDone` | one round of `sweep()`'s loop, and its end |

**RefCounting.** `stack` is the recursion of `dec_ref_cnt`; `store` is the assignment that `gc_update_ptr`
still has to do. `rooted` is the client's: how many `gc_add_root` it has to undo.

**ZeroCountTable.** The objects are addresses, which `malloc` returns again after `free`. Reading freed memory
leads to `pc = "undefined"`. `resurrected` remembers whether the client took a reference to an object of the
table.

**MarkCompact.** `object` is memory: a function from the addresses at which a header lies. Addresses and sizes
are bytes, since whether `move_obj` overwrites something depends on them. Each object has a ghost `id`, its
identity in `GCHeap`. A compaction changes what a pointer means in the middle: `Designated` gives the object
that a pointer stands for, by address where the pointer has not been rewritten and by `forwarding` where it
has, and the refinement mapping says that this never changes. The loop over one object's fields in
`adjust_ref` is one step. When `memcpy` copies an object onto itself, C defines no outcome and the code reads
an overwritten header next, so the model stops (`pc = "undefined"`).

**Copying.** Memory as in MarkCompact, over both halves; `stack` is the recursion of `copy()`. `current` is a
ghost: the addresses at which the client's objects are (the originals until `swap`, the copies after it),
which the code nowhere records. `gc_alloc` allocates at `heap + next_free_offset` also when `from` is the
upper half, so after one collection new objects are in the half that the next one copies to. The model follows
the code there: an object of which a byte is overwritten leaves memory, and reading one, copying one partly
onto itself or copying past the heap's end leads to `pc = "undefined"`; an object that `gc_alloc` overwrites is
no longer one of the client's. In a correct heap a pointer has two
meanings during a collection, the original and the copy, with the same ghost `id`. A root is replaced in the
step that calls `copy()` rather than when it returns; `copy()` does not read the roots. After `swap` the model
forgets the originals.

**Generational.** Memory as in Copying, over eden, the two survivor spaces and the cells of the old
generation; a cell is used iff an object lies in it. The steps of a collection are one call or return of
`new_copy`, one root, one field of an object of the remembered set (or the step to the next), the adjustment
of one object, and `swap`. `old_mark` and `old_sweep` call nothing else, so `major_gc` is one step, which
happens in `gc` or inside `promotion`, when `old_malloc` finds no cell. `born` and `id` are ghosts of an
object. The code breaks its own invariants in several ways. Each of them sets the ghost `mishap`, and `Sane`
(no mishap so far) is a premise of most of what is stated; `TypeOK`, `RememberedIsComplete` and
`OldFullOnlyWhenReachable` have no such premise:

| mishap | line of `generational.c` |
|---|---|
| `reference not recorded`: `write_barrier` takes no object of the second survivor space for young but the first | 366 |
| `_rs overflows`, an object whose reference is NULL is entered again and again | 363–367 |
| `root not copied`, for a root in the second survivor space | 386 |
| `old object copied`, a second promotion of an object that is old already | 301 |
| `copy copied again`, an object entered twice is visited twice | 404 |
| `references lost` in a promotion | 239 |
| `NULL in the remembered set`, after the removal of an entry that is not the last | 422 |
| `young reference swept`, `remembered object swept`, by a `major_gc` | 475, 519 |
| `survivor space overflows`: a copy goes past its end, or over what is still needed | 273 |

Comments say the contrary of two of them (see *Disagreements*): of the first, which the run
`generational_unrecorded` shows, and of `references lost`. For the others no comment or test says otherwise, and
they are listed as hazards only. Reading what is not there leads to `pc = "undefined"`.

**MiniGC.** `header` has the headers at their byte addresses. `free_list` and the links are kept as they are
in the code, also the fact that `mini_gc_free` leaves `free_list` where its search stopped. A search of
`mini_gc_malloc` (`p`, `prevp`) is one step per block, a sweep one step per header; a header that a merge has
swallowed stays readable as "merged" to the end of the call, because the search may still stand on it. The
place at which `mini_gc_free` inserts a block is found in one step (`Hit`), without the loop of its search. A
pointer leads into a block, not only to its start.

The header of a block that is cut off another one is not initialised: `gc.c:75-79` sets its size and *adds*
`FL_ALLOC` to whatever flags the memory holds. What `sbrk` provides is 0, and what is left of other headers has
neither flag; but where the client has had data, `FL_MARK` may be set. `written` are the words that may hold such
data, and `SplitBlock` chooses either way there. `gc_mark` takes a block with such a mark for one it has been to
and does not look into it, so that `gc_sweep` frees what only this block leads to; `premarked` are these blocks,
which the next collection makes ordinary ones.

Four things the code does to its list are beyond what the model follows and end it as "corrupt": a block that
stays in the list although it is given out (the only block, `gc.c:70-72`), one that stays although another one
swallowed it (`gc.c:110-121`), a search that after a collection stands on a swallowed header (`gc.c:86`), and a
split that leaves less than a header (`gc.c:74`).

**CyclicGC.** The objects are a few addresses with a count, `gc_refs` and their references; the generations and
the collector's lists are sequences, in the order of the linked lists. The module has two machines that take
turns in the one thread: `pending` is the work of a cascade of `Py_DECREF`s, and `pc` is where the collector is.
The client runs when no collection does, and inside one in the callback of a weak reference. `move_unreachable`
and `move_finalizer_reachable` are one step per object, `delete_garbage` is three steps and a cascade per
object, a cascade one step per `Py_DECREF`. `__del__` may store its object in a variable (`Resurrect`).
`NoClear` are the objects whose type has no `tp_clear` (tuples, `tupleobject.c:757`), for which `delete_garbage`
does nothing but move them to the old generation (`KeepUncleared`, lines 755-758), or one that leaves their
references alone, as `subtype_clear` leaves an instance's `__dict__` to the `tp_clear` of that
(`typeobject.c:841`). Left out are the callbacks of weak references to what a cascade frees, failures (of
`PyList_Append`, of a callback) and pending exceptions, during which an allocation starts no collection (line
1439), the trashcan, which bounds the depth of a cascade by deferring parts of it, and `gc.get_objects` and the
like, by which Python code can reach every tracked object. A weak reference without a callback, which the code
only clears, is called back like one with a callback that does nothing. `Within` and `Without` (what
`gc_list_move` and `gc_list_remove` leave of a list) are a recursive function, not an operator, so that the
proofs can use them.

### What the client is assumed to do

The C interface leaves rules to its client; the models keep them and say so at the action.

- It uses an object only while it is in use (MarkSweep: in `used`; RefCounting: in `Held`, which roots and
  fresh objects lead to; MarkCompact and Copying: where it is now). In particular it does not use a local
  variable after the collector took the object back. `mark_sweep_test.c:55-58` does not quite keep this rule:
  it holds an object in a local variable only while it allocates another. MiniGC: it frees a block at most
  once, over a pointer to its start, and stores one pointer in a block.
- It adds at most `MAX_ROOTS` roots; `gc_add_root` does not check.
- RefCounting: it stores references with `gc_update_ptr` only and undoes each `gc_add_root` at most once.
- ZeroCountTable: it collects before the table is full.
- MarkCompact: it adds no NULL root; `adjust_ref` dereferences every root.
- Generational: it stores references with `gc_update_ptr`, and makes no further call after a mishap. It adds no
  root twice and no NULL root; this is a bound, for with both the instance has too many states.
- CyclicGC: it stores only tracked objects in objects (an object is tracked when its constructor is done), and
  its Python code runs in its own turn, in callbacks and in `__del__`, with the interpreter lock held
  throughout.

## Runs

| run | instance | states | shows |
|---|---|---|---|
| `mark_sweep` | 3 nodes, 2 roots, classes with 0 and 1 reference | 122 499 | safety, exactness, termination and refinement of mark_sweep_3 |
| `ref_counting` | 3 nodes, classes with 0 and 1 reference, each object rooted at most twice | 134 343 | counts exact in every cascade; nothing held is reclaimed; only cycles leak |
| `zero_count_table` | 3 addresses, a table of 2, at most 2 references per object | 11 757 | every deferred object is freed; sound unless a deferred object is resurrected |
| `zero_count_table_resurrect` | the same | – | **violation**: the table lists an object with a positive count |
| `mark_compact` | heap of 112 bytes, `dept` (32 bytes) and `emp` (40 bytes, one reference), 2 roots | 551 290 | every reference keeps its meaning; exactly the reachable objects survive |
| `mark_compact_overlap` | the same | – | **violation**: an `emp` is copied onto its own header |
| `copying` | halves of 112 bytes, `dept` and `emp`, 2 roots, at most two collections | 413 751 | up to the second collection exactly the reachable objects are copied and every reference follows; every call ends |
| `copying_abort` | the same | – | **violation**: abort after a collection that left nothing |
| `generational` | `emp` (40 bytes, one reference), `dept` (32 bytes) and a block that fills eden but for an `emp`, survivor spaces of 120 bytes, two old cells, 2 roots, 3 collections | 628 217 | whatever goes wrong, the remembered set misses only what `write_barrier` overlooks, and every call ends; until the first mishap promotion is on time and a collection takes back garbage only |
| `generational_unrecorded` | the same | – | **violation**: an old `emp` with a reference to a young `dept` is not in the remembered set |
| `minigc` | two heaps of 120 bytes or more, requests of 10, 40 and 60 bytes (aligned to 16, 40 and 64), 4 allocations | 268 534 | blocks and free list exact in every step; the sweep frees exactly what is unreachable, but for what blocks with a mark from old data lead to; every call ends |
| `cyclic_gc` | 3 objects: one with two references and without `tp_clear`, one with `__del__`, one weak reference; 2 generations | 824 882 | counts, lists and marks agree throughout; nothing to be cleared is ever within reach; all of it is freed, but for what the object without `tp_clear` refers to |

What the properties say:

- `NoDanglingReference`, `HeldInUse`, `Sound`: nothing the client can use is ever in reclaimed memory, in the
  middle of a collection or cascade too.
- `CollectionExact`, `OnlyCyclesLeak`, `NothingLost`, `DeferredIsFreed`: garbage goes. After `gc()` exactly
  the reachable objects are left and no mark; a counting collector may leave cycles and what hangs on them,
  and nothing else. In MiniGC a block is safe unless every chain to it goes over a pointer into the last 24 bytes
  of a heap, which `is_pointer_to_heap` does not recognise, or out of a block that was given out with a mark
  since the last collection; and such a block is kept by the next collection although nothing leads to it.
- `CollectorInvariant`: in MarkSweep the marks, the recursion and the cursor determine the reachable objects
  (see *Proofs*); in CyclicGC it is `RefcountsExact`, `ListsExact` and `ReachabilityExact`, the invariant that
  the comment in `move_unreachable` states.
- `CountsExact`: a count equals roots plus references, where a reference that the cascade has dropped no
  longer counts and one that `gc_update_ptr` is about to store counts already.
- `RecursionBounded`: `mark` is never active twice on an object, on cycles neither.
- `CopyInvariant`: copies lie end to end, forwarding pointers lead to them, and what a copied object refers to
  is copied or still ahead of an active call of `copy()`. `Sane` (at most one collection so far) is a premise
  of what is stated about Copying: the second collection is given objects that lie in the half it copies to
  (`copying.c:98`, against `copying/readme.md:22`), and overwrites them.
- `RememberedIsComplete`: whenever the client runs, after any mishap too, every old object that refers to a
  young one is in the remembered set, but for the reference that `write_barrier` has just overlooked. That there
  is no such exception is what the comments say (`EveryOldToYoungIsRecorded`, violated).
- `PromotedInTime`, `OldFullOnlyWhenReachable`, `CollectsOnlyGarbage`: an object's age is the number of
  collections it has lived through; the old generation is given up only when old objects that a root leads to
  over old objects fill it; and each step of a collection is invisible, `Reclaim` or `Alloc` of `GCHeap`. The
  first and the last hold until the first mishap.
- `BlocksExact`: the blocks of minigc lie end to end, and the free list is every free block, in the order of
  the addresses, none next to another.
- `TrashIsOutOfReach`, `TrashIsFreed`: no callback and no `__del__` can reach an object that CPython is about
  to clear, over weak references neither; and when the collection has ended, each of those is freed, unless an
  object without `tp_clear` that is still there refers to it.
- `WalkIsSound`: the walks over the compacted heap read headers where headers are.
- `AbortOnlyWhenRestIsUsed`, `AbortOnlyWhenFull`: why a program may be aborted. In mark_sweep_3, which does not
  look at `head` again after a collection, `head` may be idle then.
- `CallsReturn`, `OperationsReturn`, the first half of `TrashIsFreed`: no call of the collector runs for ever.
- `ImplementsHeap`: every step is an operation of `GCHeap` or invisible to the client.

**Bounds.** The C constants are `MAX_ROOTS = 100` and heaps of up to 400 nodes or 10 MB. The instances have
`HeapSize = 400` bytes, which also exercises the rounding to three nodes (and `200` and `300`, cut by
`MAX_HEAP_SIZE`, in MarkCompact and Copying, where 225 is also rounded to 224). Three objects are enough for a
chain with garbage before, between and behind it, for self references, for cycles of two and of three, and for
an object shared by two others; two roots for duplicates, for an alias, and for a root that is missed last. A
class with two references is not in the instances (its graphs are several times as many); the proofs of
MarkSweep cover it. In MarkCompact the heap fits three depts, or two emps and a dept (exactly 112 bytes, which
tests the exact fit), so that references are rewritten whose source and target both move. Copying has halves of
the same size and `MaxCollections = 2`: the second collection is the first that meets objects in both halves.
`MaxRooted = 2` is enough for a count that a root and a field share. In ZeroCountTable two entries are enough
for an object listed twice. In Generational eden has 960 bytes and a survivor space 120, which is three emps;
`emp` and `dept` have the sizes of the test, so that objects of two sizes mix in every space, and the block
fills eden, so that a collection is due, and fits no survivor space; `MAX_AGE = 1` lets an object be copied,
promoted and referred to from a cell within three collections, and two cells make the old generation full. In
MiniGC a heap of 120 bytes is split into an exact fit, a rest large enough for a header, and one that is not;
two heaps meet at a border over which nothing may merge, and four allocations suffice for a free between two
blocks in use, between two free ones, and below the lowest. In CyclicGC three objects, one of each kind, are
enough for a cycle of two whose member has `__del__` or a weak reference to it, for a callback that leads to
trash, for an object that `__del__` brings back in the middle of `delete_garbage`, and for trash that stays
alive because the object with two references keeps them; two generations for an object that survives and is
collected with a younger one.

**Fairness.** `FairSpec` adds weak fairness of the steps inside a call of the collector. They are the next
instructions of the one thread, always enabled until the call ends, and wait for nothing. Nothing is assumed
about the client: it need not call anything. In CyclicGC the collector's steps and the cascades are the next
steps of the one thread as well (`WF`). A callback is client code: while it runs, what it does keeps the
collector waiting, so that the collection ends only if the callback returns (`SF` of `Returned`, which any
cascade in the callback disables for a while).

Deadlock is checked in every run. After `abort()`, and after undefined behaviour, the models stutter
explicitly (`Aborted`, `Ended`, `Undefined`).

## Proofs

For every `HeapSize`, every `MAX_ROOTS` and every set of classes, from the assumptions on the constants in
`NodeList`, `MarkSweep` and `RefCounting` (`MAX_ROOTS` a positive natural, `HeapSize` an integer, `Class` a set
of naturals, `MaxRooted` a natural); for `ZeroCountTable`, every set of addresses and every positive `ZCT_SIZE`
and `MaxCount`; for `MarkCompact` and `Copying`, every set of classes whose sizes are at least that of the
header, every heap and root array, and any `MaxObjects` that the sizes do not exceed; for `Generational`, every
heap, root array, number of cells, `MAX_AGE` and set of classes of which those that a survivor space can hold
fit a cell (`CellAssumption`; `generational.h:36` asks for it); for `MiniGC`, every set of positive requests,
every positive `TINY_HEAP_SIZE` that is a multiple of the pointer size, and any number of heaps and of calls;
for `CyclicGC`, every number of objects and of generations, any thresholds, and any choice of the objects that
have two references, have `__del__`, have no `tp_clear` or are weak references (a weak reference is none of the
others):

| theorem | statement |
|---|---|
| `MarkSweepProofs!TypeCorrect` | `Spec => []TypeOK` |
| `MarkSweepProofs!InvariantCorrect` | `Spec => [](TypeOK /\ CollectorInvariant)` |
| `MarkSweepProofs!Safety` | `Spec => []NoDanglingReference` |
| `MarkSweepProofs!Exactness` | `Spec => CollectionExact` |
| `MarkSweepProofs!AbortCorrect` | `Spec => []AbortOnlyWhenRestIsUsed` |
| `MarkSweepProofs!RecursionDepth` | `Spec => []RecursionBounded` |
| `MarkSweepProofs!Refinement` | `Spec => ImplementsHeap` |
| `MarkSweepProofs!HeapSound` | `Heap!Spec => []Heap!NoDanglingReference`, for any collector that follows `GCHeap` |
| `RefCountingProofs!TypeCorrect` | `Spec => []TypeOK` |
| `RefCountingProofs!CountsCorrect` | `Spec => []CountsExact` |
| `RefCountingProofs!HeldSafe` | `Spec => []HeldInUse` |
| `RefCountingProofs!Leaks` | `Spec => []OnlyCyclesLeak` |
| `RefCountingProofs!Refinement` | `Spec => ImplementsHeap` |
| `ZeroCountTableProofs!Soundness` | `Spec => []Sound` |
| `ZeroCountTableProofs!Completeness` | `Spec => []NothingLost` |
| `MarkCompactProofs!TypeCorrect` | `Spec => []TypeOK` |
| `MarkCompactProofs!WalkCorrect` | `Spec => []WalkIsSound` |
| `MarkCompactProofs!Exactness` | `Spec => CollectionExact` |
| `MarkCompactProofs!AbortCorrect` | `Spec => []AbortOnlyWhenFull` |
| `MarkCompactProofs!OneSize` | `Spec => []MovesEveryObject`, if all classes have one size |
| `MarkCompactProofs!Refinement` | `Spec => ImplementsHeap` |
| `CopyingProofs!TypeCorrect` | `Spec => []TypeOK` |
| `CopyingProofs!Defined` | `Spec => [](Sane => pc # "undefined")` |
| `CopyingProofs!CopyCorrect` | `Spec => []CopyInvariant` |
| `CopyingProofs!Exactness` | `Spec => CollectionExact` |
| `CopyingProofs!Refinement` | `Spec => ImplementsHeap` |
| `GenerationalProofs!TypeCorrect` | `Spec => []TypeOK` |
| `GenerationalProofs!RememberedCorrect` | `Spec => []RememberedIsComplete` |
| `GenerationalProofs!PromotionCorrect` | `Spec => []PromotedInTime` |
| `GenerationalProofs!FullCorrect` | `Spec => []OldFullOnlyWhenReachable` |
| `GenerationalProofs!CollectionCorrect` | `Spec => CollectsOnlyGarbage` |
| `MiniGCProofs!BlocksCorrect` | `Spec => []BlocksExact` |
| `MiniGCProofs!CollectionCorrect` | `Spec => CollectionExact` |
| `CyclicGCProofs!CollectorInvariantHolds` | `Spec => []CollectorInvariant` |
| `CyclicGCProofs!TrashStaysOutOfReach` | `Spec => []TrashIsOutOfReach` |
| `CyclicGCProofs!AllTrashIsFreed` | `Spec => FreesAllTrash`, the second half of `TrashIsFreed` |

**MarkSweep.** `NoDanglingReference` is not inductive: that an object is marked says nothing about what its
references lead to while `mark()` is in the middle of it. `CollectorInvariant` adds what is true then.

- `MarksInPlace`: marks are on objects in use, exist during `gc()` only, and `sweep()` leaves none behind its
  cursor.
- `MarkFrontier`: an unmarked object that a marked one refers to is still ahead of one of the active calls of
  `mark()`. When the recursion is empty and the roots are done, the marked set is therefore closed.
- `KeptIsClosed`: the nodes that the sweep will leave in use (`Kept`) hold the roots and have no reference
  that leaves them. While the client runs, `Kept` is `used`.
- `KeptIsLive`: only reachable objects are marked or kept.

From the last two, `Kept` equals `Live` throughout the sweep, which is both safety and exactness.
It rests on a few facts about reachability (`ReachableIsLeast`, `ReachableIsClosed`, and
`GarbageIsIrrelevant`: rewriting unreachable objects does not change what is reachable); the ones about the list
of nodes (`FirstIdleSpec`: where the loop stops) stand at the head of the two
modules that use it. `RecursionDepth`
needs the frames of `mark()` to be of distinct objects, each marked before its call. For `Refinement`,
`SweepReclaim` maps to `Reclaim` of one object, and the steps of `mark()` to stutters.

`HeapSound` is about the abstract heap alone: its steps are those of `GCHeap` over the nodes, with nothing of
the collector. A set of allocated objects that is closed and holds the roots stays around every step
(`HeapSoundStep`): `Write` and `AddRoot` add what the new reference leads to, which is in use because the client
may use only such objects. Together with `Refinement` it says a second time, by a way that knows nothing of
marks, what `Safety` says.

**RefCounting.** `CountsExact` speaks of objects in use only, and is not inductive either. `IInv` adds that
idle nodes and objects that are being reclaimed have count 0, that none is being reclaimed twice (`Exact`),
and what keeps the object that a pending store is for (`Pending`). `Exact` is a predicate on the parts of a
state, with one pointer `p` whose count is one too high: it holds with `p = NULL` between steps, and with the
dropped reference as `p` in the middle of one, after `inc_ref_cnt` and before `dec_ref_cnt`; `DecStep` takes
it from there to the next state for every caller. Counting is `OneReference`: two finite sets of references
that agree but for one element. From exact counts follows `KeptIsClosed`: nothing that is in use and not being
reclaimed refers to anything else, so all that roots and fresh objects lead to is kept (`Kept`). The delicate
object is the target of `gc_update_ptr`: the cascade that the store itself sets off could reach it. `Pending`
says that roots, fresh objects or the value to be stored lead to it over the references as they will be; and
the value is counted for the reference that will be in the target. In `OnlyCyclesLeak` an object that is not
held has a positive count and no root, hence a reference, whose owner is not held either, since what is held
is closed. For `Refinement` the store counts as done when `gc_update_ptr` is called (`field <- Stored`),
`reclaim` is `Reclaim` of one object and the rest of a cascade stutters.

**ZeroCountTable.** `Sound` needs that the entries of the table are distinct objects with count 0 which exist
as long as they have not been looked at (`TableInOrder`); `NothingLost` needs that an object with count 0 is
among the entries not looked at yet (`InTable`), which holds whatever the client does.

**MarkCompact.** One invariant, `Inv`, carries all six theorems. It has to say what memory looks like in each
of the five phases, among them the one in which half of it has been overwritten.

- `InOrder`: the objects that a walk has before it (`Standing`: all of them, in `move_obj()` those from `scan`
  on) lie end to end up to `heap_end`, and the walk is at one of them or at the end. `WalkIsSound` is this.
- `Identities`: no two objects have one identity, and the objects take at least as many bytes as that number of
  objects needs (`RoomFor`), so that an identity is free for the next one.
- `Marks`: the frontier of `mark()`, as in MarkSweep.
- `References`: a reference leads to the header of an object, or, once `adjust_ref()` has rewritten it, to the
  place where that object will be; from what is kept it leads to what is kept.
- `OnlyLive`: only reachable objects are marked, and after `mark()` only they are kept.
- `Places`: the new places lie in the order of the objects, do not overlap, and none is above its object. So
  distinct objects have distinct places (`PlacesDiffer`), and a rewritten reference designates one object.
- `Sliding`: in `move_obj()`, what has been moved lies end to end from `heap` to `new_address`; what has not
  goes on there, and from each such object the next one is found where the last one ends.

The step that matters is one round of `move_obj()` (`NextPlace`, `MovePlace`, `MoveEffect`, `MoveStep`): the
first object still marked has its place at `new_address`, which is not above `scan`, so that the copy destroys
nothing that the walk has still to read but possibly the object's own header, where the model stops. `OnlyLive`
is the one part that looks at the client's graph; it stays true because the other parts (`Base`) imply that no
step of a collection changes what a kept object's references designate. When the move ends, nothing is pending
and what lies in memory is what was kept (`AllMoved`). `OneSize` needs a further invariant: the gap between
`new_address` and `scan` is empty or at least as large as one object. With one size each dead object opens it
by a whole object and each move keeps it; the run `mark_compact_overlap` shows that two sizes break it. For
`Refinement` the collection's one visible step is `AdjustDone`, after which only the marked objects count
(`Reclaim` of the others); `mark()`, `set_forwarding()`, `adjust_ref()` and `move_obj()` stutter.

**Copying.** `TypeOK` holds at all times, also after collections that overwrite objects, until a copy would pass
the heap's end (`copy()` does not look; the model stops there). Its invariant `Typed` needs little of what
memory looks like: that between two calls all objects are the client's, and that no collection makes an
identity, so that one is free wherever `gc_alloc` finds room (`Supply`, `RoomForOneMore`). The rest holds up to
the second collection (`Sane`), like what the runs check; the invariant `IInv` says where everything is while
`copy()` and `adjust_ref()` run.

- `Memory`: no two objects overlap, those of the lower half are in what has been given out, and there are at
  most as many of them as fit there. So where an object fits, an identity is free (`IdentityIsFree`).
- `CopiesInOrder`: the copies lie end to end from `to` on; each is the copy of one forwarded object, whose
  references `adjust_ref()` has replaced if it has passed the copy; and the copies take as many bytes as their
  originals.
- `Originals`: nothing in the lower half has been overwritten; a reference from a copied object to one that is
  not copied is ahead of an active call of `copy()`; only reachable objects are copied; the roots that have
  been visited refer to copies, the others to originals.

The originals are disjoint sets of bytes in half a heap, so the copies and the next object fit in the other
half (`Room`), and behind the copies nothing lies (`CopyGoesBehind`): no byte of an object is overwritten, and
`copy()` and `adjust_ref()` read only what is there (`Defined`). That the client's view does not change while
its objects exist twice is `GraphStep`: a pointer to an original and one to its copy designate the same
object. When the calls have returned, the copied objects are closed under references and hold what the roots
designate, so they are exactly the reachable ones (`CopiesAreLive`); the last step of `gc()` is one `Reclaim`
of all others (`HeapAdjustDone`), and all steps before it stutter.

**Generational.** `IInv` has a part that holds in every state, mishaps and their consequences included, and a
part that holds until the first mishap (`Sane`), which is when `PromotedInTime` and `CollectsOnlyGarbage` speak.

- `Memory`: each object lies inside one of the three young spaces or in a cell (`Placed`), and an object that
  has ever been copied fits a survivor space, one in a cell has been copied at least `MAX_AGE` times, and no flag
  `remembered` is ever set (`Aged`). With `Registers` this is `TypeOK`.
- `Frames`, `StaysBlocked`: the active calls of `new_copy()` are for young objects; where one ended the program,
  its field still says why.
- `CopiesInOrder`: the copies lie end to end from the start of the space copied to, so `adjust_ref()`, which adds
  sizes, is at an object or at the end (`Starts`).
- `Requests`: when `gc_alloc` comes back from a collection there is an identity for its object; a collection
  makes none (`Identified`).
- `InTime`: an object's age is the number of collections since its allocation; during one, that number for a
  copy, and one less for what is neither copied nor promoted yet. Objects in cells are older than `MAX_AGE`
  collections. `PromotedInTime` is read off this.
- `Remembers`: `_rs` holds every object in a cell with a pointer below `old`, also while `minor_gc()` walks it,
  and `has_new_obj` says whether one of the fields already passed still has such a pointer, so that an entry
  that is taken out has none. `CollectsOnlyGarbage` needs it: it is why a collection misses no young object that
  only an old one leads to (`Pending`, below).

`Remembers` is not inductive without the rest, for an entry is taken out only after several steps have
rewritten its fields, with recursions of `new_copy()` between them that promote objects and may run
`major_gc()` and sweep cells (`CopiedMemory`, `PromotedMemory`, `AfterFacts`: the memory after one call;
`AfterTimely`: what the call keeps of the remembered set). A promoted object has only null references
(`promotion()` does not copy them; that one is lost is a mishap), so a new cell owes `_rs` nothing.

`RememberedIsComplete` also speaks of what comes after a mishap, when addresses may lead to nothing. Its
invariant `Owes` therefore counts a field as young by its address alone (`Aims`), and says that one of four
things holds: the entries are complete, for those passed by the loop up to `has_new_obj` (`OldRecorded`, `Seen`);
or the program has ended (`Over`); or the entry that `minor_gc()` has just gone on to is NULL, which ends the
program in its next step, before the client could see what is missing (`NullEntry`); or `write_barrier` has just
overlooked a reference (`OnlyOverlooked`). No call of `new_copy()`, however its cells were swept, gives an old
object an aim that it did not have (`NothingNew`, `CallAddsNothing`), nor does an allocation
(`PlaceAddsNothing`) or `adjust_ref()` (`AdjustAddsNothing`); so only the client's store (`StoreRecorded`) and
the loop itself (`FieldRecorded`, `NextRecorded`) need a look at the set.

`FullCorrect` needs that `major_gc()` leaves a cell in use only if `old_mark()` came to it, and that between its
sweep and the end of the search no cell is given out.

`CollectsOnlyGarbage` needs to know what each pointer stands for while an object exists twice, and that nothing
that is kept leads to what will be cleared. `HInv` is `IInv` and, until the first mishap, `Faithful`:

- `Sound`: every reference leads to an object (`Within`); what an object is forwarded to has its identity, and
  fields that stand for the same objects (`Linked`); and no two other objects have one identity (`Twins`).
- `Parted`, `Apart`: what is forwarded lies in a space that will be cleared, what it is forwarded to does not, and
  copies do not overlap.
- `Exact`, `Explored`: while objects are copied, a copy has the references of its original, and each of these is
  to a forwarded object or still ahead of an active call of `new_copy()`.
- The roots that `copy_root` has passed lead to what stays; so do the references of old objects, but for those
  that `_rs` still has for the loop (`Pending`); in `adjust_ref()`, what is not replaced yet is a reference of a copy
  not reached yet, to a forwarded object (`ToAdjust`).

A call of `new_copy()` keeps a set of objects that holds the roots and is closed, and adds one object that stands
for the one it was called for (`Duplicated`, `DuplicateOutcome`); the sweep in a promotion, and `major_gc()` after
a collection, keep such a set too, for what they would cut off from a young object is a mishap (`SweptShut`,
`RootsKept`). `AdjustDoneHeap` is where the spaces are cleared: by `Pending`, then `ToAdjust`, nothing that is kept
leads into them. Each step of a collection is then `Steady`: it changes no reference of a kept object, and what it
takes away is not in a closed set that holds the roots, so by `ReachableIsLeast` no root leads to it
(`SteadyReclaims`).

**MiniGC.** `BlocksExact` says what the blocks and the list look like, but not enough for `mini_gc_free` to
keep it. The invariant `IInv` is about four things.

- `HeapsInOrder`: `add_heap` lays each heap above the ones before it with a gap between them, so that no block
  ends where a block of another heap begins, and no merge goes over the border.
- `Intact`: every block lies in one heap and ends where the heap or another block does (`Tiled`); the link of a
  free block is to the next free one by address, and that of the last one to the first (`Linked`, `Follows`);
  and a link, of a free block or of a header that a merge has swallowed, leads to such a block or header
  (`LinksLead`).
- `Adjacent` is empty: no free block ends where another begins.
- `Position`: `p` and `prevp` of a search are free blocks or swallowed headers, `prevp` linked to `p`, also while
  a sweep runs inside the call; the cursor of a sweep is at a block or at the end of its heap; between two calls
  no header is "merged".

The step that matters is `mini_gc_free`. Its search finds the block after which the freed one belongs
(`PlaceExists`). `InsertKeeps` puts the block into the list, after which it may be adjacent to the one above, to
the one below or to both. `MergeKeeps` says that swallowing the next free block keeps `Intact` and takes away
that one adjacency; `FreedKeeps` chains it twice, and the list that results has no two adjacent blocks.
`FreedKeeps` serves a block freed by the client and one freed by `gc_sweep` in the middle of a call; a new heap
from `grow()` is above everything, so its block goes behind the last one and merges with nothing (`GrownKeeps`).
`TakenKeeps` and `SplitKeeps` are the two ways in which `mini_gc_malloc` gives out a block. `LinksLead` is what
a search needs that goes on after a collection from where it stood: its `p` may have been swallowed, and
following the old links brings it back to the list or to where the model ends as "corrupt", never to a block in
use. No argument counts blocks: greatest and least ones exist because addresses are bounded naturals
(`GreatestBelow`, `LeastElement`).

`CollectionCorrect` rests on a second invariant, `Marks`, on top of `IInv`: outside a collection just the blocks
of `premarked` are marked, so that `gc_mark` stops exactly there; and during one (`SweepKeeps`) the blocks in use
that the sweep has passed, together with the marked ones ahead of it, are just these and what the client can
reach at that moment (`Safe`). The last part has to hold while `gc_sweep` frees blocks and
merges others around them: a freed block is none that the client reaches, a pointer leads into one
block only (`OneTarget`), so no pointer among what is reachable changes its target (`SafeSurvives`), and the
cursor, which moves by the size that the block has after the merge, passes no block in use (`FreedKeeps`). That
the sweep of one heap leaves none out needs that no block in use has size 0 (`HeapPassed`): `gc_sweep`, like
`is_pointer_to_heap`, takes a heap to end a header earlier than it does.

**CyclicGC.** `CollectorInvariant` is not inductive: that a mark says what a walk has found presupposes that the
walk misses no object of a list that changes under it, and that a count is exact in a cascade presupposes that
the object is not freed twice. `IInv` has, besides the types, `RefcountsExact` and `ListsExact`:

- `Alive`: a tracked object has a positive count, an object with count 0 refers to nothing, and a weak reference
  that leads anywhere is tracked.
- `Stages`: which of the collector's lists are empty at each step, and that the object of a callback, or the one
  that `delete_garbage` clears, is the first of its list as long as it is in it.
- `Copied`: `update_refs` has copied the counts.
- `ReachableWalk`: in `move_unreachable` the objects before `gc` are the ones marked `GC_REACHABLE` (`At`); what
  the outside refers to, and what these objects refer to, is `Found`: neither set aside nor waiting with
  `gc_refs` 0; and an object with a positive `gc_refs` is reachable from outside.
- `FinalizerWalk`: in `move_finalizer_reachable` the objects before `gc` refer to nothing in `unreachable`.
- `Sealed`: from `handle_weakrefs` to the end, nothing refers to what is left of the trash (`Doomed`) but trash
  in `unreachable`, neither a variable, nor an object, nor a weak reference; and no object of the trash has
  `__del__`.

Everything about counts is one lemma: `RefcountsExact` is a sum over the fields of all objects and five other
sorts of reference, and `TotalFields`, `TotalVariables`, `TotalPending` and so on say how the sum changes when one
part does. A cascade takes an object from `pending` and adds what the freed object referred to, which was counted
in its fields before (`DeallocateStep`). `subtract_refsStep` is where counts become reachability: after the
subtraction `gc_refs` is positive just when something outside refers to the object (`Direct`), since the references from
inside are the ones subtracted. One round of `move_unreachable` (`SetAsideStep`, `ReachedStep`)
appends to the list that is being walked, or brings back what had been set aside; `WalkGoesOn` says that the walk
is then at the next object of the list as it is now. At its end, the objects found are closed and hold what the
outside refers to, so they are what can be reached from outside, and none of the others can (`WalkIsExact`).

Before `handle_weakrefs` the client cannot run, so the finalizer walk ends with nothing outside `unreachable`
referring into it. After it `Sealed` is what callbacks and `__del__` keep: the client stores, loads and drops only
what it can reach, which is no trash, and an object that is brought back by `__del__` was not trash
(`ClientSealed`, `ResurrectStep`). `TrashIsOutOfReach` follows, because the set of objects outside the trash is
closed (`TrashIsSealed`). When `delete_garbage` is through, each object of the trash has left `unreachable`; all
that could still refer to it has been cleared or freed, but for what is in `NoClear` and left as well; so if none of
these refers to it, its count is 0 (`NoTrashIsLeft`). An object that `tp_clear` did not free is moved to the old
generation, and freed later by the cascade of another, or kept by an object without `tp_clear`.

Not proved but checked: that a collection ends at all, the first half of `TrashIsFreed`.

Only model-checked: all liveness properties (TLAPS does not treat fairness and `ENABLED`), among them
`CallsReturn` of MarkSweep, MarkCompact, Copying, Generational and MiniGC, `OperationsReturn`,
`DeferredIsFreed` and the first half of `TrashIsFreed`. Every invariant and every action property that a passing
run checks is proved.

## Disagreements between code and comments

1. The zero count table is described as the table of the objects whose count is 0 (`reference_counting.c:49`),
   but an object stays in it when its count rises, and is then freed. Run `zero_count_table_resurrect`.
2. `move_obj` does not move every live object where a small dead object lies below a larger live one
   (`mark_compact.c:158-162`). Run `mark_compact_overlap`. With classes of one size it cannot happen
   (`MarkCompactProofs!OneSize`).
3. `gc_alloc` of copying_1 aborts after every collection, whatever it left, because `next_free_offset` is not
   moved to the new half (`copying.c:145`; `copying/readme.md:9` sets it). `copying_test.c:49` expects memory
   to run out in the third round; it does in the second. Run `copying_abort`.
4. `write_barrier` is to record an old object that is given a reference to a young one
   (`generational.c:361-364`), but takes for young only what lies up to the end of the first survivor space
   (line 366); after an odd number of collections the young objects that were copied are in the second. The
   next `minor_gc()` clears the space under the reference. Run `generational_unrecorded`.

Met on the way, with no run:

- `find_idle_node` of mark_sweep_3 aborts although `head` is idle, for its second loop starts at `head->next`
  (`mark_sweep.c:59`), while the comment at line 61 says that there is no node left. `AbortOnlyWhenRestIsUsed`,
  which is checked and proved, says what holds instead.
- `promotion` of generational_1 is to record a promoted object that still refers to a young one (the comment at
  `generational.c:458`; `generational_test.c:178` expects such an entry), but `old_malloc` has set the references
  to NULL by then (line 239), and they are lost: the mishap `references lost`.
- `generational_test.c:78` expects an object with a root to be promoted after three minor collections. Where
  eden is full, as it is in the test, the first of them aborts (line 273): `new_copy` compares
  `next_free_offset`, which is that of eden, with the size of the survivor space.
- The test of minigc asserts that the flags of new blocks are `FL_ALLOC` (`gc.c:319`). For a block that is cut
  off where the client has had data they may be anything with that flag set; the model has the two values that
  make a difference, in the runs as well as in the proofs.
- `mark_sweep.h:55` says 50MB for 51 200 bytes.
- `mark_compact/readme.md:86` resets `forwarding` after a move and the code does not (harmless: `ImplementsHeap`
  holds with the stale pointers in the model).
- The second collection of copying_1 goes wrong as said under `CopyInvariant`.
- `minigc/gc.h` does not compile as it stands (`root` is an unknown type, `add_roots` is declared twice).

## Not modelled

- `mark_sweep_1`, `mark_sweep_2`: programs of one sequence of calls each, over blocks without references
  between them, or with the free list in the field of the references. There is no operation that a caller
  could interleave with another.
- `mark_sweep_4_mul_linkedlists`, `mark_sweep_5_BiBOP`: allocators without a collector: two free lists of
  which `main()` takes one block, and a buddy tree. Sequential operations that a test reaches.
- `mark_sweep_6_bitmap_table`, `mark_sweep_7_lazy_sweep`: under 30 lines of logic each: a bitmap that is set
  and tested once, a sweep over objects that are all marked.
- `old_projects/mark_sweep`: the marking and sweeping of an earlier minigc, whose allocator and header are not
  in the repository; MiniGC has the later version of both.
- `Incremental`, `rc_immix`: descriptions, no code.
- The rest of `old_projects`, which is most of the repository's lines (V8's `objects.cc` alone has about 8000,
  CPython's `typeobject.c` 6300): third-party code kept for reading. The excerpts lack the headers and the
  callers that would say which states are possible, and large parts (object layouts, type slots, string and
  dictionary operations) have nothing to do with collection. The one piece that is complete in itself is
  `gcmodule.c`. For this reason the share of the lines that the models stand for stays small whatever is
  added; of the repository's own collectors every one that has more than a demonstration in it is modelled.
- Printing and the state dumps, `gc_num_roots`, and the functions that headers declare and nothing defines
  (`gc_done`; `gc_get_state` but for generational_1).

What could be added: the callbacks of weak references in the cascades of CyclicGC.
