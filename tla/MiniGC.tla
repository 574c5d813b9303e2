--------------------------------- MODULE MiniGC ---------------------------------
(***************************************************************************)
(* minigc/gc.c: malloc and free on a circular list of free blocks in heaps *)
(* that sbrk provides, and a conservative mark and sweep that malloc runs  *)
(* when no free block is large enough.                                     *)
(*                                                                         *)
(* header has the headers at their addresses.  A header that a merge has   *)
(* swallowed is no block any more, but mini_gc_malloc may still follow it: *)
(* it is kept, as "merged" (its flags are 0 in the code), to the end of    *)
(* the call.                                                               *)
(*                                                                         *)
(* The header of a block that mini_gc_malloc cuts off another one is not   *)
(* initialized: FL_SET adds FL_ALLOC to what the memory holds.  Memory     *)
(* from sbrk is 0, and what is left of a header has neither bit set (sizes *)
(* and addresses are multiples of 8, and the flags of a free block are 0), *)
(* but where the client has had data FL_MARK may be set.                   *)
(*                                                                         *)
(* gc_mark calls nothing else and is one step.  hit_cache saves a search   *)
(* in gc_heaps and changes no result: it is left out.                      *)
(*                                                                         *)
(* Where the code makes blocks overlap, or puts a block in use or a        *)
(* swallowed one into the free list, the model ends as "corrupt".          *)
(***************************************************************************)
EXTENDS ObjectGraph, Sequences, FiniteSetsExt

CONSTANTS
    Request,        \* the sizes the client asks for
    TINY_HEAP_SIZE,
    HEAP_LIMIT,     \* the length of gc_heaps
    MaxCalls        \* bound: how often the client calls mini_gc_malloc

PTRSIZE == 8
HEADER_SIZE == 24
ALIGN(x, a) == ((x + a - 1) \div a) * a

ASSUME SizeAssumption ==
    /\ {TINY_HEAP_SIZE, HEAP_LIMIT, MaxCalls} \cup Request \subseteq Nat \ {0}
    /\ TINY_HEAP_SIZE % PTRSIZE = 0

VARIABLES
    header,     \* [flags, size, next_free] by address
    gc_heaps,   \* gc_heaps[0 .. gc_heaps_used - 1]
    free_list,
    word,       \* the pointer the client keeps in each block in use, or Nil
    roots,      \* the pointers in registers, on the stack and in the root ranges
    pc,         \* "run" (the client), "search" (mini_gc_malloc), "sweep", or how it ended
    request,    \* the size mini_gc_malloc looks for, or 0
    p, prevp, do_gc, \* its locals
    i, cur,     \* gc_sweep: the heap and the header it is at
    calls,      \* bookkeeping for the bound
    written,    \* the words of memory that may hold what the client has written
    premarked   \* bookkeeping for CollectionExact: the blocks given out with FL_MARK

client == <<word, roots>>
memory == <<written, premarked>>
search == <<request, p, prevp, do_gc>>
sweep == <<i, cur>>
vars == <<header, gc_heaps, free_list, client, pc, search, sweep, calls, memory>>

Init ==
    /\ header = [a \in {} |-> 0]
    /\ gc_heaps = <<>>
    /\ free_list = Nil
    /\ word = [a \in {} |-> Nil]
    /\ roots = {}
    /\ pc = "run"
    /\ request = 0
    /\ p = Nil
    /\ prevp = Nil
    /\ do_gc = FALSE
    /\ i = 1
    /\ cur = Nil
    /\ calls = 0
    /\ written = {}
    /\ premarked = {}

Size(a) == header[a].size
NextFree(a) == header[a].next_free
NEXT_HEADER(a) == a + HEADER_SIZE + Size(a)
Block == {a \in DOMAIN header : header[a].flags # "merged"}
Free == {a \in Block : header[a].flags = "free"}
InUse == Block \ Free

\* The pointer that mini_gc_malloc returns for a block.
Data(a) == a + HEADER_SIZE

\* get_header: the block in use that a pointer leads into.
Target(q) == {a \in InUse : Data(a) <= q /\ q < NEXT_HEADER(a)}

\* The words of an area of the memory.
Words(from, to) == {n \in from..(to - 1) : n % PTRSIZE = 0}

WithoutMerged(h) == [a \in {b \in DOMAIN h : h[b].flags # "merged"} |-> h[a]]

--------------------------------------------------------------------------------
(* mini_gc_free.                                                           *)

\* Where the search for the place of a block stops.
Stops(hit, target) ==
    \/ hit < target /\ target < NextFree(hit)
    \/ hit >= NextFree(hit) /\ (target > hit \/ target < NextFree(hit))

Hit(target) == CHOOSE hit \in Free : Stops(hit, target)

\* Mutant: a freed block is not merged with the one above it.
MergesUp_Never(target) == FALSE

MergesUp(target) == NEXT_HEADER(target) = NextFree(Hit(target))
MergesDown(target) == NEXT_HEADER(Hit(target)) = target

\* The block above target is the only free one: it stays in the list, and in
\* free_list, although target swallows it.
Swallowed(target) == MergesUp(target) /\ NextFree(Hit(target)) = Hit(target)

Freed(target) ==
    LET hit == Hit(target)
        up == NextFree(hit)
        size == IF MergesUp(target) THEN Size(target) + Size(up) + HEADER_SIZE ELSE Size(target)
        next == IF MergesUp(target) THEN NextFree(up) ELSE up
        down == MergesDown(target)
    IN [a \in DOMAIN header |->
            IF a = hit
            THEN [flags |-> "free",
                  size |-> IF down THEN Size(hit) + size + HEADER_SIZE ELSE Size(hit),
                  next_free |-> IF down THEN next ELSE target]
            ELSE IF a = target
            THEN [flags |-> IF down THEN "merged" ELSE "free", size |-> size, next_free |-> next]
            ELSE IF a = up /\ MergesUp(target) THEN [header[a] EXCEPT !.flags = "merged"]
            ELSE header[a]]

\* mini_gc_free, but for where the program goes on.
mini_gc_free(target) ==
    /\ ~Swallowed(target)
    /\ header' = Freed(target)
    /\ free_list' = Hit(target)

--------------------------------------------------------------------------------
(* add_heap and grow.                                                      *)

\* sbrk, which nothing else in the program calls, goes on where it ended.
NewSlot ==
    IF gc_heaps = <<>> THEN PTRSIZE
    ELSE LET last == gc_heaps[Len(gc_heaps)]
         IN ALIGN(last.slot + last.size + PTRSIZE + HEADER_SIZE, PTRSIZE)

HeapSize(req_size) == IF req_size < TINY_HEAP_SIZE THEN TINY_HEAP_SIZE ELSE req_size

NewHeap(req_size) == Append(gc_heaps, [slot |-> NewSlot, size |-> HeapSize(req_size)])

\* grow puts the new heap into the list with mini_gc_free: it is the last one by
\* address and never merges.
GrownHeader(req_size) ==
    LET last == Max(Free) IN
    [a \in DOMAIN header \cup {NewSlot} |->
        IF a = NewSlot
        THEN [flags |-> "free", size |-> HeapSize(req_size), next_free |-> NextFree(last)]
        ELSE IF a = last THEN [header[a] EXCEPT !.next_free = NewSlot]
        ELSE header[a]]

--------------------------------------------------------------------------------
(* The client.                                                             *)

\* What can be reached of Blocks, without the pointers in the blocks of Opaque.
Reached(Blocks, Opaque, Pointers) ==
    Reachable(Blocks,
              [a \in Blocks |-> IF /\ a \notin Opaque
                                   /\ Target(word[a]) \subseteq Blocks /\ Target(word[a]) # {}
                                THEN <<CHOOSE b \in Target(word[a]) : TRUE>> ELSE <<>>],
              Blocks \cap UNION {Target(q) : q \in Pointers})

\* The blocks the client can use.
Usable == Reached(InUse, {}, roots)

\* The client forgets a pointer.
DropRoot ==
    /\ pc = "run"
    /\ \E q \in roots : roots' = roots \ {q}
    /\ UNCHANGED <<header, gc_heaps, free_list, word, pc, search, sweep, calls, memory>>

\* The client stores a pointer in a block, once (a bound).
StoreWord ==
    /\ pc = "run"
    /\ \E a \in {x \in Usable : word[x] = Nil} :
       \E b \in Usable \ {a} : word' = [word EXCEPT ![a] = Data(b)]
    /\ UNCHANGED <<header, gc_heaps, free_list, roots, pc, search, sweep, calls, memory>>

\* It loads one.
LoadWord ==
    /\ pc = "run"
    /\ \E a \in Usable : roots' = roots \cup {Data(a)}
    /\ UNCHANGED <<header, gc_heaps, free_list, word, pc, search, sweep, calls, memory>>

\* mini_gc_free by the client, which forgets the pointer.
ClientFree ==
    /\ pc = "run"
    /\ \E target \in InUse :
        /\ Data(target) \in roots
        /\ IF Swallowed(target)
           THEN pc' = "corrupt" /\ UNCHANGED <<header, free_list, client, premarked>>
           ELSE /\ header' = WithoutMerged(Freed(target))
                /\ free_list' = Hit(target)
                /\ roots' = roots \ {Data(target)}
                /\ word' = [a \in InUse \ {target} |-> word[a]]
                /\ premarked' = premarked \ {target}
                /\ UNCHANGED pc
    /\ UNCHANGED <<gc_heaps, search, sweep, calls, written>>

--------------------------------------------------------------------------------
(* garbage_collect.                                                        *)

\* is_pointer_to_heap, which forgets that a heap is longer than its size by the
\* header at its start.
IsPointerToHeap(q) ==
    \E k \in DOMAIN gc_heaps : gc_heaps[k].slot <= q /\ q < gc_heaps[k].slot + gc_heaps[k].size

\* Mutant: gc_mark does not look into the blocks it marks.
Marked_RootsOnly == UNION {Target(q) : q \in {r \in roots : IsPointerToHeap(r)}}

\* gc_mark, for every root.  It returns at a block that has the mark, as one may
\* that nothing has marked.
Marked ==
    Reached({a \in InUse : IsPointerToHeap(Data(a))},
            {a \in InUse : header[a].flags = "marked"},
            {q \in roots : IsPointerToHeap(q)})

gc_mark ==
    /\ header' = [a \in DOMAIN header |->
                    IF a \in Marked THEN [header[a] EXCEPT !.flags = "marked"] ELSE header[a]]
    /\ i' = 1
    /\ cur' = gc_heaps[1].slot
    /\ pc' = "sweep"

\* garbage_collect called by the client.
CollectNow ==
    /\ pc = "run"
    /\ gc_heaps # <<>>
    /\ gc_mark
    /\ UNCHANGED <<gc_heaps, free_list, client, search, calls, memory>>

InHeap == cur < gc_heaps[i].slot + gc_heaps[i].size

\* Mutant: the mark stays.
Unmarked_Kept(flags) == flags

\* FL_UNSET(p, FL_MARK).
Unmarked(flags) == IF flags = "marked" THEN "alloc" ELSE flags

\* A header that gc_sweep passes.
SweepKept ==
    /\ pc = "sweep" /\ InHeap
    /\ header[cur].flags # "alloc"
    /\ header' = [header EXCEPT ![cur].flags = Unmarked(@)]
    /\ cur' = NEXT_HEADER(cur)
    /\ UNCHANGED <<gc_heaps, free_list, client, pc, search, i, calls, memory>>

\* A block that gc_sweep frees.  The next header is found with the size that the
\* block has after it has been freed.
SweepFree ==
    /\ pc = "sweep" /\ InHeap
    /\ header[cur].flags = "alloc"
    /\ mini_gc_free(cur)
    /\ word' = [a \in InUse \ {cur} |-> word[a]]
    /\ cur' = cur + HEADER_SIZE + header'[cur].size
    /\ UNCHANGED <<gc_heaps, roots, pc, search, i, calls, memory>>

SweepSwallows ==
    /\ pc = "sweep" /\ InHeap
    /\ header[cur].flags = "alloc"
    /\ Swallowed(cur)
    /\ pc' = "corrupt"
    /\ UNCHANGED <<header, gc_heaps, free_list, client, search, sweep, calls, memory>>

SweepNextHeap ==
    /\ pc = "sweep" /\ ~InHeap
    /\ i < Len(gc_heaps)
    /\ i' = i + 1
    /\ cur' = gc_heaps[i + 1].slot
    /\ UNCHANGED <<header, gc_heaps, free_list, client, pc, search, calls, memory>>

\* The return to the client, or to mini_gc_malloc, which goes on where it was.
SweepDone ==
    /\ pc = "sweep" /\ ~InHeap
    /\ i = Len(gc_heaps)
    /\ i' = 1
    /\ cur' = Nil
    /\ IF request = 0
       THEN /\ header' = WithoutMerged(header)
            /\ pc' = "run"
            /\ UNCHANGED search
       ELSE /\ do_gc' = TRUE
            /\ prevp' = p
            /\ p' = NextFree(p)
            /\ pc' = "search"
            /\ UNCHANGED <<header, request>>
    /\ premarked' = {}
    /\ UNCHANGED <<gc_heaps, free_list, client, calls, written>>

--------------------------------------------------------------------------------
(* mini_gc_malloc.                                                         *)

\* Entering it.  sbrk fails or not.
mini_gc_malloc ==
    /\ pc = "run"
    /\ calls < MaxCalls
    /\ calls' = calls + 1
    /\ \E req_size \in Request :
        /\ request' = ALIGN(req_size, PTRSIZE)
        /\ do_gc' = FALSE
        /\ IF free_list # Nil
           THEN /\ prevp' = free_list
                /\ p' = NextFree(free_list)
                /\ UNCHANGED <<header, gc_heaps, free_list>>
           ELSE /\ gc_heaps' = NewHeap(TINY_HEAP_SIZE)
                /\ header' = [a \in {NewSlot} |-> [flags |-> "free", size |-> TINY_HEAP_SIZE,
                                                   next_free |-> NewSlot]]
                /\ free_list' = NewSlot
                /\ prevp' = NewSlot
                /\ p' = NewSlot
    /\ pc' = "search"
    /\ UNCHANGED <<client, sweep, memory>>

\* The end of the call, with the block that the client gets.  It clears the block
\* and holds its pointer.
Return(h, block, flags) ==
    /\ header' = WithoutMerged([h EXCEPT ![block].flags = flags])
    /\ free_list' = prevp
    /\ word' = [a \in InUse \cup {block} |-> IF a = block THEN Nil ELSE word[a]]
    /\ roots' = roots \cup {Data(block)}
    /\ written' = (written \ Words(block, Data(block)))
                    \cup Words(Data(block), Data(block) + h[block].size)
    /\ premarked' = IF flags = "marked" THEN premarked \cup {block} ELSE premarked
    /\ pc' = "run"
    /\ request' = 0
    /\ p' = Nil
    /\ prevp' = Nil
    /\ do_gc' = FALSE

Fits == Size(p) >= request
JustFits == Size(p) = request
OnlyBlock == prevp = p
Followed == {p, prevp} \subseteq Block

TakeBlock ==
    /\ pc = "search"
    /\ JustFits
    /\ ~OnlyBlock /\ Followed
    /\ Return([header EXCEPT ![prevp].next_free = NextFree(p)], p, "alloc")
    /\ UNCHANGED <<gc_heaps, sweep, calls>>

\* The end of a larger block, which needs room for a header.  What becomes of its
\* link, that of the last block of the heap, does not matter while it is in use.
Enough == Size(p) >= request + HEADER_SIZE

\* FL_SET(p, FL_ALLOC) on what the memory holds.
CarvedFlags(block) == {"alloc"} \cup (IF block \in written THEN {"marked"} ELSE {})

SplitBlock ==
    /\ pc = "search"
    /\ ~JustFits /\ Enough
    /\ Followed
    /\ LET rest == Size(p) - (request + HEADER_SIZE)
           block == p + HEADER_SIZE + rest
       IN \E flags \in CarvedFlags(block) :
            Return([a \in DOMAIN header \cup {block} |->
                      IF a = p THEN [header[a] EXCEPT !.size = rest]
                      ELSE IF a = block
                      THEN [flags |-> "free", size |-> request, next_free |-> Nil]
                      ELSE header[a]], block, flags)
    /\ UNCHANGED <<gc_heaps, sweep, calls>>

\* The block given out stays in the free list, or is one that a merge has
\* swallowed, or its new header overlaps the old one (the size wraps around).
TakeCorrupts ==
    /\ pc = "search"
    /\ Fits
    /\ \/ ~Followed
       \/ JustFits /\ OnlyBlock
       \/ ~JustFits /\ ~Enough
    /\ pc' = "corrupt"
    /\ UNCHANGED <<header, gc_heaps, free_list, client, search, sweep, calls, memory>>

\* Mutant: the search starts again and never comes round.
TryNext_FromStart ==
    /\ pc = "search"
    /\ ~Fits /\ p # free_list
    /\ prevp' = free_list
    /\ p' = NextFree(free_list)
    /\ UNCHANGED <<header, gc_heaps, free_list, client, pc, request, do_gc, sweep, calls, memory>>

TryNext ==
    /\ pc = "search"
    /\ ~Fits /\ p # free_list
    /\ prevp' = p
    /\ p' = NextFree(p)
    /\ UNCHANGED <<header, gc_heaps, free_list, client, pc, request, do_gc, sweep, calls, memory>>

\* The search has come round for the first time.
CollectFirst ==
    /\ pc = "search"
    /\ ~Fits /\ p = free_list /\ ~do_gc
    /\ gc_mark
    /\ UNCHANGED <<gc_heaps, free_list, client, search, calls, memory>>

\* It has come round again: grow, and go on behind what grow returns.
Grow ==
    /\ pc = "search"
    /\ ~Fits /\ p = free_list /\ do_gc
    /\ Len(gc_heaps) < HEAP_LIMIT
    /\ gc_heaps' = NewHeap(request)
    /\ header' = GrownHeader(request)
    /\ free_list' = Max(Free)
    /\ prevp' = Max(Free)
    /\ p' = NewSlot
    /\ UNCHANGED <<client, pc, request, do_gc, sweep, calls, memory>>

\* sbrk fails and the call returns NULL, or there is no room in gc_heaps.
GrowFails ==
    /\ pc = "search"
    /\ ~Fits /\ p = free_list /\ do_gc
    /\ pc' = IF Len(gc_heaps) < HEAP_LIMIT THEN "run" ELSE "abort"
    /\ header' = WithoutMerged(header)
    /\ request' = 0
    /\ p' = Nil
    /\ prevp' = Nil
    /\ do_gc' = FALSE
    /\ UNCHANGED <<gc_heaps, free_list, client, sweep, calls, memory>>

--------------------------------------------------------------------------------

\* The client may do nothing more; after abort() and in a corrupt heap the model
\* stops.
Ended == pc \in {"run", "abort", "corrupt"} /\ UNCHANGED vars

Client == DropRoot \/ StoreWord \/ LoadWord \/ ClientFree \/ CollectNow \/ mini_gc_malloc
Search == TakeBlock \/ SplitBlock \/ TakeCorrupts \/ TryNext \/ CollectFirst \/ Grow \/ GrowFails
Sweep == SweepKept \/ SweepFree \/ SweepSwallows \/ SweepNextHeap \/ SweepDone

Next == Client \/ Search \/ Sweep \/ Ended

Spec == Init /\ [][Next]_vars

\* The loops of a call are steps of the one thread and wait for nothing.
FairSpec == Spec /\ WF_vars(Search \/ Sweep)

--------------------------------------------------------------------------------
(* Properties.                                                             *)

HeapEnd(k) == gc_heaps[k].slot + HEADER_SIZE + gc_heaps[k].size

\* The blocks of the heaps lie end to end, in the middle of a call as well, and
\* the free list is what it looks like: every free block and no other, each linked
\* to the next one by address and the last to the first, no two of them adjacent;
\* free_list is one of them (mini_gc_malloc, mini_gc_free, grow).
BlocksExact ==
    /\ \A k \in DOMAIN gc_heaps : gc_heaps[k].slot \in Block
    /\ \A a \in Block :
        \/ NEXT_HEADER(a) \in Block
        \/ \E k \in DOMAIN gc_heaps : NEXT_HEADER(a) = HeapEnd(k)
    /\ \A a, b \in Block : a < b => NEXT_HEADER(a) <= b
    /\ \A a \in Free :
        /\ NEXT_HEADER(a) \notin Free
        /\ NextFree(a) = IF a = Max(Free) THEN Min(Free) ELSE Min({b \in Free : b > a})
    /\ IF free_list = Nil THEN gc_heaps = <<>> ELSE free_list \in Free
    /\ DOMAIN word = InUse

\* What the client can reach without a pointer into the last HEADER_SIZE bytes of
\* a heap, which is_pointer_to_heap takes for none, and without one out of a block
\* that was given out with the mark, in which gc_mark does not look.
Safe ==
    Reached({a \in InUse : IsPointerToHeap(Data(a))}, premarked,
            {q \in roots : IsPointerToHeap(q)})

\* gc_sweep frees no block of those, although it merges blocks under its own feet;
\* and at its end no block is left that the client cannot reach, but for the ones
\* given out with the mark since the last collection (gc_mark, gc_sweep).
CollectionExact ==
    [][pc = "sweep" =>
        /\ Safe \cap Free' = {}
        /\ pc' \in {"run", "search"} => InUse \subseteq Usable \cup premarked]_vars

\* Every call returns, gives up or corrupts the list in one of the ways that the
\* actions name: mini_gc_malloc and gc_sweep do not go round for ever.  (The place
\* of a block in the list is found at once: the loop of mini_gc_free is not here.)
CallsReturn == pc # "run" ~> pc \in {"run", "abort", "corrupt"}
================================================================================
