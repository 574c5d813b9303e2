------------------------------- MODULE MarkSweep -------------------------------
(***************************************************************************)
(* The collector of mark_sweep/mark_sweep_3: gc_alloc walks the list of    *)
(* nodes with next_free and collects when it finds no idle node; gc() marks *)
(* recursively from the roots and sweeps the list.                         *)
(*                                                                         *)
(* The program is one thread.  pc says which loop of it is running, so     *)
(* that the collector is seen between any two steps of its loops and of    *)
(* the recursion of mark().                                                *)
(***************************************************************************)
EXTENDS NodeList, Sequences

CONSTANT Class \* the num_fields of the client's class descriptors

ASSUME ClassAssumption == Class \in SUBSET Nat

Pointer == Node \cup {Nil}

NoRequest == -1

\* What a node holds: the reference fields of an object, none when it is idle.
Contents == ObjectOf(Class \cup {0}, Pointer)

\* An active call of mark(): its object and the next field to follow.
Frame == [obj : Node, i : Nat \ {0}]

VARIABLES
    used,      \* the nodes whose used flag is TRUE
    field,     \* the reference fields of the object in each node
    marked,    \* the nodes whose object has its marked flag set
    roots,     \* _roots[0 .. _rp - 1]
    next_free, \* where gc_alloc tries first
    pc,        \* "run" (the client), "mark", "sweep", "search" or "abort"
    request,   \* the class gc_alloc is looking for a node for, or NoRequest
    ri,        \* gc(): index of the next root to mark
    stack,     \* the active calls of mark(): object and next field to follow
    cursor     \* sweep(): _cur

heap == <<used, field, next_free>>
collector == <<ri, stack, cursor>>
vars == <<used, field, marked, roots, next_free, pc, request, ri, stack, cursor>>

Init ==
    /\ used = {}
    /\ field = [n \in Node |-> NullFields(0)]
    /\ marked = {}
    /\ roots = <<>>
    /\ next_free = head
    /\ pc = "run"
    /\ request = NoRequest
    /\ ri = 1
    /\ stack = <<>>
    /\ cursor = Nil

--------------------------------------------------------------------------------
(* The client.  Between two calls it may hold any object that has not been *)
(* reclaimed, in a local variable the collector knows nothing of.          *)

\* gc_add_root.  The macro does not check _rp: the bound is the client's to keep.
AddRoot ==
    /\ pc = "run"
    /\ Len(roots) < MAX_ROOTS
    /\ \E p \in used \cup {Nil} : roots' = Append(roots, p)
    /\ UNCHANGED <<heap, marked, pc, request, collector>>

\* gc_restore_roots, with an index that gc_save_rp saved earlier.
RestoreRoots ==
    /\ pc = "run"
    /\ \E k \in 0..Len(roots) : roots' = SubSeq(roots, 1, k)
    /\ UNCHANGED <<heap, marked, pc, request, collector>>

\* An assignment such as emp->dept = dept.
Write ==
    /\ pc = "run"
    /\ \E o \in used, p \in used \cup {Nil} : \E i \in DOMAIN field[o] :
        field' = [field EXCEPT ![o][i] = p]
    /\ UNCHANGED <<used, next_free, marked, roots, pc, request, collector>>

\* Entering gc(), to place an object of class k afterwards or not.
StartGC(k) ==
    /\ pc' = "mark"
    /\ request' = k
    /\ ri' = 1

\* The client calls gc() itself.
CollectNow ==
    /\ pc = "run"
    /\ StartGC(NoRequest)
    /\ UNCHANGED <<heap, marked, roots, stack, cursor>>

--------------------------------------------------------------------------------
(* Allocation.                                                             *)

\* The part of gc_alloc after a node has been found.
Place(n, k) ==
    /\ used' = used \cup {n}
    /\ field' = [field EXCEPT ![n] = NullFields(k)]
    /\ marked' = marked \ {n}
    /\ next_free' = next(n)

\* Mutant: gc_alloc tests only !next_free.
AllocNextFree_Unchecked ==
    /\ pc = "run"
    /\ next_free # Nil
    /\ \E k \in Class : Place(next_free, k)
    /\ UNCHANGED <<roots, pc, request, collector>>

\* gc_alloc when next_free is idle.
AllocNextFree ==
    /\ pc = "run"
    /\ next_free # Nil
    /\ next_free \notin used
    /\ \E k \in Class : Place(next_free, k)
    /\ UNCHANGED <<roots, pc, request, collector>>

\* gc_alloc otherwise: the first loop of find_idle_node, which decides whether
\* to collect.
FindIdle ==
    /\ pc = "run"
    /\ next_free = Nil \/ next_free \in used
    /\ next_free' = FirstIdle(used, head)
    /\ \E k \in Class :
        IF next_free' = Nil
        THEN StartGC(k)
        ELSE pc' = "search" /\ request' = k /\ UNCHANGED ri
    /\ UNCHANGED <<used, field, marked, roots, stack, cursor>>

\* The second loop of find_idle_node, which starts at head->next whatever the
\* first one found, and the rest of gc_alloc.
SearchAgain ==
    /\ pc = "search"
    /\ LET n == FirstIdle(used, head + 1) IN
        IF n = Nil
        THEN /\ pc' = "abort"
             /\ next_free' = Nil
             /\ UNCHANGED <<used, field, marked, request>>
        ELSE /\ Place(n, request)
             /\ pc' = "run"
             /\ request' = NoRequest
    /\ UNCHANGED <<roots, collector>>

\* After abort() nothing happens.
Aborted == pc = "abort" /\ UNCHANGED vars

--------------------------------------------------------------------------------
(* mark() and the loop of gc() over the roots.                             *)

Top == stack[Len(stack)]
Callers == SubSeq(stack, 1, Len(stack) - 1)

\* Mutant: mark() does not return on an object that is already marked.
Call_Unchecked(p, fs) ==
    IF p = Nil
    THEN stack' = fs /\ UNCHANGED marked
    ELSE stack' = Append(fs, [obj |-> p, i |-> 1]) /\ marked' = marked \cup {p}

\* A call mark(p), made by the frames fs: it returns at once, or marks p and
\* starts over p's fields.
Call(p, fs) ==
    IF p = Nil \/ p \in marked
    THEN stack' = fs /\ UNCHANGED marked
    ELSE stack' = Append(fs, [obj |-> p, i |-> 1]) /\ marked' = marked \cup {p}

MarkRoot ==
    /\ pc = "mark"
    /\ stack = <<>>
    /\ ri <= Len(roots)
    /\ Call(roots[ri], <<>>)
    /\ ri' = ri + 1
    /\ UNCHANGED <<heap, roots, pc, request, cursor>>

MarkField ==
    /\ pc = "mark"
    /\ stack # <<>>
    /\ Top.i \in DOMAIN field[Top.obj]
    /\ Call(field[Top.obj][Top.i],
            Append(Callers, [obj |-> Top.obj, i |-> Top.i + 1]))
    /\ UNCHANGED <<heap, roots, pc, request, ri, cursor>>

MarkReturn ==
    /\ pc = "mark"
    /\ stack # <<>>
    /\ Top.i \notin DOMAIN field[Top.obj]
    /\ stack' = Callers
    /\ UNCHANGED <<heap, marked, roots, pc, request, ri, cursor>>

\* Mutant: the loop of gc() stops one root early.
MarkDone_RootMissed ==
    /\ pc = "mark"
    /\ stack = <<>>
    /\ ri >= Len(roots)
    /\ pc' = "sweep"
    /\ cursor' = head
    /\ UNCHANGED <<heap, marked, roots, request, ri, stack>>

MarkDone ==
    /\ pc = "mark"
    /\ stack = <<>>
    /\ ri > Len(roots)
    /\ pc' = "sweep"
    /\ cursor' = head
    /\ UNCHANGED <<heap, marked, roots, request, ri, stack>>

--------------------------------------------------------------------------------
(* sweep().                                                                *)

\* Mutant: the loop of sweep() continues without advancing _cur.
SweepIdle_Stuck ==
    /\ pc = "sweep"
    /\ cursor # Nil
    /\ cursor \notin used
    /\ UNCHANGED vars

SweepIdle ==
    /\ pc = "sweep"
    /\ cursor # Nil
    /\ cursor \notin used
    /\ cursor' = next(cursor)
    /\ UNCHANGED <<heap, marked, roots, pc, request, ri, stack>>

\* Mutant: sweep() leaves the mark of a surviving object set.
SweepMarked_KeepsMark ==
    /\ pc = "sweep"
    /\ cursor \in used \cap marked
    /\ cursor' = next(cursor)
    /\ UNCHANGED <<heap, marked, roots, pc, request, ri, stack>>

SweepMarked ==
    /\ pc = "sweep"
    /\ cursor \in used \cap marked
    /\ marked' = marked \ {cursor}
    /\ cursor' = next(cursor)
    /\ UNCHANGED <<heap, roots, pc, request, ri, stack>>

\* memset clears the object, its class pointer included.
SweepReclaim ==
    /\ pc = "sweep"
    /\ cursor \in used \ marked
    /\ used' = used \ {cursor}
    /\ field' = [field EXCEPT ![cursor] = NullFields(0)]
    /\ next_free' = cursor
    /\ cursor' = next(cursor)
    /\ UNCHANGED <<marked, roots, pc, request, ri, stack>>

\* gc() returns to the client or to find_idle_node.
SweepDone ==
    /\ pc = "sweep"
    /\ cursor = Nil
    /\ pc' = IF request = NoRequest THEN "run" ELSE "search"
    /\ ri' = 1
    /\ UNCHANGED <<heap, marked, roots, request, stack, cursor>>

--------------------------------------------------------------------------------

Client == AddRoot \/ RestoreRoots \/ Write \/ CollectNow \/ AllocNextFree \/ FindIdle
Mark == MarkRoot \/ MarkField \/ MarkReturn \/ MarkDone
Sweep == SweepIdle \/ SweepMarked \/ SweepReclaim \/ SweepDone

Next == Client \/ SearchAgain \/ Mark \/ Sweep \/ Aborted

Spec == Init /\ [][Next]_vars

\* A call of gc_alloc or gc() runs to its end: its loops are steps of the one
\* thread and wait for nothing.
FairSpec == Spec /\ WF_vars(Mark \/ Sweep \/ SearchAgain)

--------------------------------------------------------------------------------
(* Properties.                                                             *)

\* Every variable has its type: in particular next_free, the cursor and the
\* frames of mark() only ever name nodes of the list (find_idle_node, sweep).
TypeOK ==
    /\ used \in SUBSET Node
    /\ field \in [Node -> Contents]
    /\ marked \in SUBSET Node
    /\ roots \in Seq(Pointer)
    /\ Len(roots) <= MAX_ROOTS
    /\ next_free \in Pointer
    /\ pc \in {"run", "mark", "sweep", "search", "abort"}
    /\ request \in Class \cup {NoRequest}
    /\ pc = "search" => request # NoRequest
    /\ ri \in Nat \ {0}
    /\ stack \in Seq(Frame)
    /\ cursor \in Pointer

Live == Reachable(Node, field, Pointees(roots))

\* No object that the roots lead to is ever in a reclaimed node, not even in
\* the middle of sweep() or when gc_alloc reuses a node (mark, sweep, gc_alloc).
NoDanglingReference == Live \subseteq used

\* When sweep() ends, exactly the reachable objects are left and no mark is
\* set, so that the next gc() starts clean.
CollectionExact ==
    [][pc = "sweep" /\ pc' # "sweep" => used = Live /\ marked = {}]_vars

\* mark() never has two active calls on one object, whatever cycles the client
\* built, so the recursion is never deeper than the number of nodes.
RecursionBounded ==
    \A i, j \in 1..Len(stack) : stack[i].obj = stack[j].obj => i = j

\* gc_alloc gives up only when every node but head is in use.  (Not every node, as
\* the comment before find_idle_node's abort() says: its second loop starts behind
\* head.)
AbortOnlyWhenRestIsUsed == pc = "abort" => Node \ {head} \subseteq used

\* A call of gc() or gc_alloc returns to the client, or the program aborts.
CallsReturn == pc # "run" ~> pc \in {"run", "abort"}

\* The nodes that sweep() will have left in use when it ends.
Kept ==
    IF pc = "sweep"
    THEN {n \in used : n \in marked \/ cursor = Nil \/ n < cursor}
    ELSE used

\* The flag is set on objects in use only, during gc() only, and sweep() has
\* no flag left behind its cursor.
MarksInPlace ==
    /\ marked \subseteq used
    /\ pc \notin {"mark", "sweep"} => marked = {}
    /\ pc = "sweep" => \A n \in marked : cursor # Nil /\ cursor <= n
    /\ stack # <<>> => pc = "mark"

\* While gc() marks, an unmarked object that a marked one refers to is still to
\* be visited by one of the active calls of mark().
MarkFrontier ==
    pc = "mark" =>
        /\ \A j \in DOMAIN roots : j < ri => roots[j] \in marked \cup {Nil}
        /\ \A j \in DOMAIN stack : stack[j].obj \in marked
        /\ \A n \in marked : \A k \in DOMAIN field[n] :
              \/ field[n][k] \in marked \cup {Nil}
              \/ \E j \in DOMAIN stack : stack[j].obj = n /\ stack[j].i <= k

\* What will be left holds the roots and refers to nothing that will be gone.
KeptIsClosed ==
    /\ Pointees(roots) \subseteq Kept \cup {Nil}
    /\ Closed(field, Kept)

\* Only reachable objects are marked, and only reachable objects are kept.
KeptIsLive ==
    /\ pc = "mark" => marked \subseteq Live
    /\ pc = "sweep" => Kept \subseteq Live

\* The inductive invariant of the collector, from which NoDanglingReference and
\* CollectionExact follow: at every step of mark() and sweep() the marks, the
\* recursion and the cursor together determine the reachable objects.
CollectorInvariant ==
    MarksInPlace /\ MarkFrontier /\ KeptIsClosed /\ KeptIsLive

\* The client sees no more than the interface promises: objects with the fields
\* it stored, taken back only when nothing reachable refers to them.
Heap == INSTANCE GCHeap WITH
            Object <- Node, allocated <- used, roots <- Pointees(roots) \ {Nil}
ImplementsHeap == Heap!Spec
================================================================================
