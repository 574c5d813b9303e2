--------------------------------- MODULE CyclicGC ---------------------------------
(***************************************************************************)
(* CPython's collector of reference cycles, Modules/gcmodule.c, with the   *)
(* reference counts that it helps out.  The collector and the deallocation *)
(* cascades run inside the one thread that holds the interpreter lock; the *)
(* client's Python code runs between them, and in the middle of them in    *)
(* the callbacks of weak references and in __del__.                        *)
(*                                                                         *)
(* An object is a container of one reference, or of two if it is in Pair.  *)
(* One of a class with __del__ is in Finalizer; a weak reference, in       *)
(* Weakref, refers to its callback, which stands for everything the        *)
(* callback can reach.  An object in NoClear has a type whose tp_clear is  *)
(* NULL, like tuple's, or leaves the references alone, like the one of a   *)
(* class without __slots__: subtype_clear leaves the instance's __dict__   *)
(* to the clear of that.  A count of 0 is freed memory.                    *)
(*                                                                         *)
(* Debugging output, DEBUG_SAVEALL, statistics, gc.disable(), the free     *)
(* lists, the trashcan, gc.get_objects() and its relatives, and failures   *)
(* of PyList_Append and of callbacks are left out, and so are the          *)
(* callbacks of weak references to objects that a cascade frees, and all   *)
(* that __del__ does but to bring its object back.  A weak reference       *)
(* without a callback is called back like the others.                      *)
(***************************************************************************)
EXTENDS ObjectGraph, SequencesExt

CONSTANTS
    NumObjects,
    Pair, Finalizer, Weakref,   \* kinds of objects
    NoClear,                    \* the ones whose type leaves their references to them
    NUM_GENERATIONS,
    Threshold0,     \* the threshold of the youngest generation
    ThresholdOld    \* the one of the others

Object == 1..NumObjects

ASSUME KindAssumption ==
    /\ Pair \cup Finalizer \cup Weakref \cup NoClear \subseteq Object
    /\ Weakref \cap (Pair \cup Finalizer \cup NoClear) = {}
ASSUME GenerationAssumption == {NumObjects, NUM_GENERATIONS} \subseteq Nat \ {0}

NoReferences(o) == NullFields(IF o \in Pair THEN 2 ELSE 1)

GC_UNTRACKED == -2
GC_REACHABLE == -3
GC_TENTATIVELY_UNREACHABLE == -4

VARIABLES
    ob_refcnt, gc_refs, field,
    wr_object,      \* what a weak reference refers to, or Nil
    variables,      \* the objects that variables of the client hold
    garbage,        \* gc.garbage
    generations,    \* their lists, the youngest first
    count,          \* and their counts
    unreachable, finalizers, wrcb_to_call, \* the collector's lists
    pc,             \* "python" (the client runs), or what the collector is at
    generation,     \* the one it collects
    gc,             \* the object it is at
    trash,          \* bookkeeping for TrashIsFreed: what delete_garbage was given
    pending         \* the Py_DECREFs that a cascade has still to do

graph == <<field, wr_object>>
holders == <<variables, garbage>>
lists == <<generations, unreachable, finalizers, wrcb_to_call>>
vars == <<ob_refcnt, gc_refs, graph, holders, lists, count, pc, generation, gc, trash, pending>>

Init ==
    /\ ob_refcnt = [o \in Object |-> 0]
    /\ gc_refs = [o \in Object |-> GC_UNTRACKED]
    /\ field = [o \in Object |-> NoReferences(o)]
    /\ wr_object = [o \in Weakref |-> Nil]
    /\ variables = {}
    /\ garbage = {}
    /\ generations = [g \in 1..NUM_GENERATIONS |-> <<>>]
    /\ count = [g \in 1..NUM_GENERATIONS |-> 0]
    /\ unreachable = <<>>
    /\ finalizers = <<>>
    /\ wrcb_to_call = <<>>
    /\ pc = "python"
    /\ generation = 1
    /\ gc = Nil
    /\ trash = {}
    /\ pending = <<>>

threshold(g) == IF g = 1 THEN Threshold0 ELSE ThresholdOld

\* The object that a walk goes to after o, or the first one.
Next_(list, o) ==
    LET later == {k \in 2..Len(list) : list[k - 1] = o}
    IN IF later = {} THEN Nil ELSE list[CHOOSE k \in later : TRUE]
First(list) == IF list = <<>> THEN Nil ELSE Head(list)

\* The objects of list that are in S, or not in S, in the order of the list.
Within(list, S) ==
    LET kept[k \in 0..Len(list)] ==
            IF k = 0 THEN <<>>
            ELSE IF list[k] \in S THEN Append(kept[k - 1], list[k]) ELSE kept[k - 1]
    IN kept[Len(list)]
Without(list, S) == Within(list, Object \ S)

\* What tp_traverse visits, and each object of it once; there are at most two.
References(o) == Within(field[o], Object)
Distinct(list) == IF Len(list) = 2 /\ list[1] = list[2] THEN <<list[1]>> ELSE list
\* How often the objects of S refer to o.
ReferencesTo(o, S) ==
    Cardinality({n \in S : field[n][1] = o}) + Cardinality({n \in S \cap Pair : field[n][2] = o})

--------------------------------------------------------------------------------
(* Py_DECREF and the deallocation of an object.                            *)

Py_INCREF(o) == [ob_refcnt EXCEPT ![o] = @ + 1]

\* _PyObject_GC_UNTRACK.
Untracked(o) ==
    /\ generations' = [g \in DOMAIN generations |-> Without(generations[g], {o})]
    /\ unreachable' = Without(unreachable, {o})
    /\ finalizers' = Without(finalizers, {o})
    /\ wrcb_to_call' = Without(wrcb_to_call, {o})

\* PyObject_ClearWeakRefs.
WeakrefsCleared(o) == [w \in Weakref |-> IF wr_object[w] = o THEN Nil ELSE wr_object[w]]

Decref ==
    /\ pending # <<>>
    /\ LET o == Head(pending) IN
        /\ ob_refcnt[o] > 1
        /\ ob_refcnt' = [ob_refcnt EXCEPT ![o] = @ - 1]
    /\ pending' = Tail(pending)
    /\ UNCHANGED <<gc_refs, graph, holders, lists, count, pc, generation, gc, trash>>

\* The last reference goes: the object is untracked, and what it refers to loses
\* a reference.  __del__, if there is one, leaves no new reference to it.
Deallocate ==
    /\ pending # <<>>
    /\ LET o == Head(pending) IN
        /\ ob_refcnt[o] = 1
        /\ ob_refcnt' = [ob_refcnt EXCEPT ![o] = 0]
        /\ gc_refs' = [gc_refs EXCEPT ![o] = GC_UNTRACKED]
        /\ Untracked(o)
        /\ field' = [field EXCEPT ![o] = NoReferences(o)]
        /\ wr_object' = [w \in Weakref |-> IF w = o THEN Nil ELSE WeakrefsCleared(o)[w]]
        /\ pending' = References(o) \o Tail(pending)
    /\ count' = [count EXCEPT ![1] = IF @ > 0 THEN @ - 1 ELSE 0]
    /\ UNCHANGED <<holders, pc, generation, gc, trash>>

\* __del__ stores the object, which has been tracked again, in a variable.
Resurrect ==
    /\ pending # <<>>
    /\ LET o == Head(pending) IN
        /\ ob_refcnt[o] = 1 /\ o \in Finalizer
        /\ gc_refs' = [gc_refs EXCEPT ![o] = GC_REACHABLE]
        /\ generations' = [g \in DOMAIN generations |->
                            IF g = 1 THEN Append(Without(generations[g], {o}), o)
                            ELSE Without(generations[g], {o})]
        /\ unreachable' = Without(unreachable, {o})
        /\ finalizers' = Without(finalizers, {o})
        /\ wrcb_to_call' = Without(wrcb_to_call, {o})
        /\ wr_object' = WeakrefsCleared(o)
        /\ variables' = variables \cup {o}
    /\ pending' = Tail(pending)
    /\ UNCHANGED <<ob_refcnt, field, garbage, count, pc, generation, gc, trash>>

--------------------------------------------------------------------------------
(* The beginning of a collection.                                          *)

\* collect: the counts, and the younger generations join the one collected.
collect(g) ==
    /\ pc' = "update_refs"
    /\ generation' = g
    /\ generations' = [h \in DOMAIN generations |->
                        IF h < g THEN <<>>
                        ELSE IF h > g THEN generations[h]
                        ELSE generations[g] \o FlattenSeq(SubSeq(generations, 1, g - 1))]

Counted(g) ==
    [h \in DOMAIN count |-> IF h <= g THEN 0 ELSE IF h = g + 1 THEN count[h] + 1 ELSE count[h]]

--------------------------------------------------------------------------------
(* The client: in its own turn, or in a callback that has been called with *)
(* the weak reference gc.                                                  *)

Python == pc \in {"python", "callback"} /\ pending = <<>>

Held ==
    variables \cup garbage
        \cup (IF pc = "callback" THEN {gc} \cup Range(References(gc)) ELSE {})

\* The client gets a new reference to o.
Loaded(o) ==
    /\ o \notin variables
    /\ variables' = variables \cup {o}
    /\ ob_refcnt' = Py_INCREF(o)

\* PyObject_GC_Malloc.  The new object is not tracked before its constructor says
\* so, and the collection takes no notice of it.
PyObject_GC_Malloc ==
    LET counted == [count EXCEPT ![1] = @ + 1]
        exceeded == {g \in DOMAIN count : counted[g] > threshold(g)}
    IN IF counted[1] > Threshold0 /\ Threshold0 # 0 /\ pc = "python"
       THEN /\ collect(Max(exceeded))
            /\ count' = Counted(Max(exceeded))
            /\ UNCHANGED <<unreachable, finalizers, wrcb_to_call>>
       ELSE /\ count' = counted
            /\ UNCHANGED <<lists, pc, generation>>

New ==
    /\ Python
    /\ \E o \in Object \ Weakref :
        /\ ob_refcnt[o] = 0
        /\ ob_refcnt' = Py_INCREF(o)
        /\ variables' = variables \cup {o}
    /\ PyObject_GC_Malloc
    /\ UNCHANGED <<gc_refs, graph, garbage, gc, pending, trash>>

\* PyObject_GC_Track.
Tracked(o) ==
    /\ gc_refs[o] = GC_UNTRACKED
    /\ gc_refs' = [gc_refs EXCEPT ![o] = GC_REACHABLE]
    /\ generations' = [generations EXCEPT ![1] = Append(@, o)]
    /\ UNCHANGED <<unreachable, finalizers, wrcb_to_call>>

Track ==
    /\ Python
    /\ \E o \in variables : Tracked(o)
    /\ UNCHANGED <<ob_refcnt, graph, holders, count, pc, generation, gc, pending, trash>>

\* A new weak reference is filled in and tracked at once; a collection that its
\* allocation starts comes first (New of another object stands for it).
NewWeakref ==
    /\ Python
    /\ \E w \in Weakref, o \in Held \ Weakref, callback \in Held \cup {Nil} :
        /\ ob_refcnt[w] = 0
        /\ \A n \in {o, callback} \ {Nil} : gc_refs[n] # GC_UNTRACKED
        /\ count[1] < Threshold0 \/ pc = "callback"
        /\ ob_refcnt' = [n \in Object |->
                            ob_refcnt[n] + IF n \in {w, callback} THEN 1 ELSE 0]
        /\ field' = [field EXCEPT ![w] = <<callback>>]
        /\ wr_object' = [wr_object EXCEPT ![w] = o]
        /\ variables' = variables \cup {w}
        /\ Tracked(w)
    /\ count' = [count EXCEPT ![1] = @ + 1]
    /\ UNCHANGED <<garbage, pc, generation, gc, pending, trash>>

Store ==
    /\ Python
    /\ \E o \in Held \ Weakref, v \in Held \cup {Nil} : \E i \in DOMAIN field[o] :
        /\ v # field[o][i]
        /\ v # Nil => gc_refs[v] # GC_UNTRACKED
        /\ field' = [field EXCEPT ![o][i] = v]
        /\ ob_refcnt' = IF v = Nil THEN ob_refcnt ELSE Py_INCREF(v)
        /\ pending' = IF field[o][i] = Nil THEN <<>> ELSE <<field[o][i]>>
    /\ UNCHANGED <<gc_refs, wr_object, holders, lists, count, pc, generation, gc, trash>>

Load ==
    /\ Python
    /\ \/ \E o \in Held \ Weakref : \E v \in Range(References(o)) : Loaded(v)
       \/ \E w \in Held \cap Weakref : wr_object[w] # Nil /\ Loaded(wr_object[w])
       \/ \E o \in Held : Loaded(o)
    /\ UNCHANGED <<gc_refs, graph, garbage, lists, count, pc, generation, gc, pending, trash>>

\* A variable goes, or an entry of gc.garbage.
Drop ==
    /\ Python
    /\ \E o \in Held :
        /\ \/ o \in variables /\ variables' = variables \ {o} /\ UNCHANGED garbage
           \/ o \in garbage /\ garbage' = garbage \ {o} /\ UNCHANGED variables
        /\ pending' = <<o>>
    /\ UNCHANGED <<ob_refcnt, gc_refs, graph, lists, count, pc, generation, gc, trash>>

\* gc.collect(), which does nothing in a callback.
PyGC_Collect ==
    /\ Python /\ pc = "python"
    /\ collect(NUM_GENERATIONS)
    /\ count' = Counted(NUM_GENERATIONS)
    /\ UNCHANGED <<ob_refcnt, gc_refs, graph, holders, unreachable, finalizers, wrcb_to_call,
                   gc, pending, trash>>

--------------------------------------------------------------------------------
(* collect: what can be reached from outside the generation.               *)

young == generations[generation]
old == IF generation < NUM_GENERATIONS THEN generation + 1 ELSE generation
Members(list) == Range(list)

update_refs ==
    /\ pc = "update_refs"
    /\ gc_refs' = [o \in Object |-> IF o \in Members(young) THEN ob_refcnt[o] ELSE gc_refs[o]]
    /\ pc' = "subtract_refs"
    /\ UNCHANGED <<ob_refcnt, graph, holders, lists, count, generation, gc, pending, trash>>

\* visit_decref, for what every object of young refers to.
subtract_refs ==
    /\ pc = "subtract_refs"
    /\ gc_refs' = [o \in Object |->
                    IF gc_refs[o] > 0
                    THEN gc_refs[o] - ReferencesTo(o, Members(young))
                    ELSE gc_refs[o]]
    /\ pc' = "move_unreachable"
    /\ gc' = First(young)
    /\ UNCHANGED <<ob_refcnt, graph, holders, lists, count, generation, pending, trash>>

\* Mutant: an object that has been set aside is not brought back.
Visit_NotSetAside(o) == IF gc_refs[o] = 0 THEN 1 ELSE gc_refs[o]

Visit(o) == IF gc_refs[o] \in {0, GC_TENTATIVELY_UNREACHABLE} THEN 1 ELSE gc_refs[o]

\* An object that can be reached from outside, and visit_reachable for what it
\* refers to.
Reached ==
    /\ pc = "move_unreachable" /\ gc # Nil
    /\ gc_refs[gc] # 0
    /\ LET visited == Distinct(References(gc))
           rescued == Within(visited, {o \in Object : gc_refs[o] = GC_TENTATIVELY_UNREACHABLE
                                                      /\ Visit(o) = 1})
       IN /\ gc_refs' = [o \in Object |->
                            IF o = gc THEN GC_REACHABLE
                            ELSE IF o \in Members(visited) THEN Visit(o) ELSE gc_refs[o]]
          /\ unreachable' = Without(unreachable, Members(rescued))
          /\ generations' = [generations EXCEPT ![generation] = @ \o rescued]
          /\ gc' = Next_(generations'[generation], gc)
    /\ UNCHANGED <<ob_refcnt, graph, holders, finalizers, wrcb_to_call, count, pc, generation,
                   pending, trash>>

\* One that seems not to.
SetAside ==
    /\ pc = "move_unreachable" /\ gc # Nil
    /\ gc_refs[gc] = 0
    /\ gc_refs' = [gc_refs EXCEPT ![gc] = GC_TENTATIVELY_UNREACHABLE]
    /\ generations' = [generations EXCEPT ![generation] = Without(@, {gc})]
    /\ unreachable' = Append(unreachable, gc)
    /\ gc' = Next_(young, gc)
    /\ UNCHANGED <<ob_refcnt, graph, holders, finalizers, wrcb_to_call, count, pc, generation,
                   pending, trash>>

Merged(list) ==
    [g \in DOMAIN generations |->
        IF g = old THEN (IF old = generation THEN young ELSE generations[old] \o young) \o list
        ELSE IF g = generation THEN <<>> ELSE generations[g]]

\* The survivors join the next generation; then move_finalizers.
move_finalizers ==
    /\ pc = "move_unreachable" /\ gc = Nil
    /\ generations' = Merged(<<>>)
    /\ finalizers' = Within(unreachable, Finalizer)
    /\ unreachable' = Without(unreachable, Finalizer)
    /\ gc_refs' = [o \in Object |->
                    IF o \in Members(finalizers') THEN GC_REACHABLE ELSE gc_refs[o]]
    /\ gc' = First(finalizers')
    /\ pc' = "move_finalizer_reachable"
    /\ UNCHANGED <<ob_refcnt, graph, holders, wrcb_to_call, count, generation, pending, trash>>

\* Mutant: what __del__ can reach is not spared.
move_finalizer_reachable_None ==
    /\ pc = "move_finalizer_reachable" /\ gc # Nil
    /\ gc' = Next_(finalizers, gc)
    /\ UNCHANGED <<ob_refcnt, gc_refs, graph, holders, lists, count, pc, generation, pending,
                   trash>>

\* visit_move, for what one object refers to.
move_finalizer_reachable ==
    /\ pc = "move_finalizer_reachable" /\ gc # Nil
    /\ LET moved == Within(Distinct(References(gc)),
                          {o \in Object : gc_refs[o] = GC_TENTATIVELY_UNREACHABLE})
       IN /\ gc_refs' = [o \in Object |->
                            IF o \in Members(moved) THEN GC_REACHABLE ELSE gc_refs[o]]
          /\ unreachable' = Without(unreachable, Members(moved))
          /\ finalizers' = finalizers \o moved
    /\ gc' = Next_(finalizers', gc)
    /\ UNCHANGED <<ob_refcnt, graph, holders, generations, wrcb_to_call, count, pc, generation,
                   pending, trash>>

--------------------------------------------------------------------------------
(* handle_weakrefs.                                                        *)

ToTrash(w) == wr_object[w] # Nil /\ wr_object[w] \in Members(unreachable)

\* Mutant: trash calls back as well.
Outlives_Trash(w) == ToTrash(w)

\* The weak references whose callbacks are called: the ones that are no trash
\* themselves.
Outlives(w) == ToTrash(w) /\ gc_refs[w] # GC_TENTATIVELY_UNREACHABLE

ClearWeakrefs ==
    /\ pc = "move_finalizer_reachable" /\ gc = Nil
    /\ wr_object' = [w \in Weakref |-> IF ToTrash(w) THEN Nil ELSE wr_object[w]]
    /\ LET called == {w \in Weakref : Outlives(w)} IN
        /\ ob_refcnt' = [o \in Object |-> ob_refcnt[o] + IF o \in called THEN 1 ELSE 0]
        /\ wrcb_to_call' = SetToSeq(called)
        /\ generations' = [g \in DOMAIN generations |-> Without(generations[g], called)]
        /\ finalizers' = Without(finalizers, called)
        /\ unreachable' = Without(unreachable, called)
    /\ pc' = "handle_weakrefs"
    /\ UNCHANGED <<gc_refs, field, holders, count, generation, gc, pending, trash>>

Callback ==
    /\ pc = "handle_weakrefs" /\ wrcb_to_call # <<>>
    /\ gc' = Head(wrcb_to_call)
    /\ pc' = "callback"
    /\ UNCHANGED <<ob_refcnt, gc_refs, graph, holders, lists, count, generation, pending,
                   trash>>

\* The callback returns, and the weak reference loses the collector's reference.
Returned ==
    /\ pc = "callback" /\ pending = <<>>
    /\ pending' = <<gc>>
    /\ pc' = "called"
    /\ UNCHANGED <<ob_refcnt, gc_refs, graph, holders, lists, count, generation, gc, trash>>

Called ==
    /\ pc = "called" /\ pending = <<>>
    /\ IF First(wrcb_to_call) = gc
       THEN /\ wrcb_to_call' = Tail(wrcb_to_call)
            /\ generations' = [generations EXCEPT ![old] = Append(@, gc)]
       ELSE UNCHANGED <<wrcb_to_call, generations>>
    /\ gc' = Nil
    /\ pc' = "handle_weakrefs"
    /\ UNCHANGED <<ob_refcnt, gc_refs, graph, holders, unreachable, finalizers, count, generation,
                   pending, trash>>

--------------------------------------------------------------------------------
(* delete_garbage and handle_finalizers.                                   *)

WeakrefsHandled ==
    /\ pc = "handle_weakrefs" /\ wrcb_to_call = <<>>
    /\ pc' = "delete_garbage"
    /\ trash' = Members(unreachable)
    /\ UNCHANGED <<ob_refcnt, gc_refs, graph, holders, lists, count, generation, gc, pending>>

Clearable(o) == o \notin NoClear

\* tp_clear of the first object, with a reference of the collector's own to it.
Clear ==
    /\ pc = "delete_garbage" /\ unreachable # <<>>
    /\ Clearable(Head(unreachable))
    /\ gc' = Head(unreachable)
    /\ ob_refcnt' = Py_INCREF(gc')
    /\ field' = [field EXCEPT ![gc'] = NoReferences(gc')]
    /\ wr_object' = [w \in Weakref |-> IF w = gc' THEN Nil ELSE wr_object[w]]
    /\ pending' = References(gc')
    /\ pc' = "clear"
    /\ UNCHANGED <<gc_refs, holders, lists, count, generation, trash>>

\* Mutant: the collector keeps its reference.
Cleared_Kept ==
    /\ pc = "clear" /\ pending = <<>>
    /\ pc' = "cleared"
    /\ UNCHANGED <<ob_refcnt, gc_refs, graph, holders, lists, count, generation, gc, pending,
                   trash>>

Cleared ==
    /\ pc = "clear" /\ pending = <<>>
    /\ pending' = <<gc>>
    /\ pc' = "cleared"
    /\ UNCHANGED <<ob_refcnt, gc_refs, graph, holders, lists, count, generation, gc, trash>>

\* The object may still be alive.
Deleted ==
    /\ pc = "cleared" /\ pending = <<>>
    /\ IF First(unreachable) = gc
       THEN /\ unreachable' = Tail(unreachable)
            /\ generations' = [generations EXCEPT ![old] = Append(@, gc)]
            /\ gc_refs' = [gc_refs EXCEPT ![gc] = GC_REACHABLE]
       ELSE UNCHANGED <<unreachable, generations, gc_refs>>
    /\ gc' = Nil
    /\ pc' = "delete_garbage"
    /\ UNCHANGED <<ob_refcnt, graph, holders, finalizers, wrcb_to_call, count, generation,
                   pending, trash>>

\* The first object keeps its references, and is still alive.
KeepUncleared ==
    /\ pc = "delete_garbage" /\ unreachable # <<>>
    /\ LET o == Head(unreachable) IN
        /\ ~Clearable(o)
        /\ generations' = [generations EXCEPT ![old] = Append(@, o)]
        /\ gc_refs' = [gc_refs EXCEPT ![o] = GC_REACHABLE]
    /\ unreachable' = Tail(unreachable)
    /\ UNCHANGED <<ob_refcnt, graph, holders, finalizers, wrcb_to_call, count, pc, generation, gc,
                   trash, pending>>

\* Objects with __del__ that are left go to gc.garbage; the end of the collection.
handle_finalizers ==
    /\ pc = "delete_garbage" /\ unreachable = <<>>
    /\ LET appended == Members(finalizers) \cap Finalizer IN
        /\ garbage' = garbage \cup appended
        /\ ob_refcnt' = [o \in Object |-> ob_refcnt[o] + IF o \in appended THEN 1 ELSE 0]
    /\ generations' = [generations EXCEPT ![old] = @ \o finalizers]
    /\ finalizers' = <<>>
    /\ generation' = 1
    /\ pc' = "python"
    /\ trash' = {}
    /\ UNCHANGED <<gc_refs, graph, variables, unreachable, wrcb_to_call, count, gc, pending>>

--------------------------------------------------------------------------------

Cascade == Decref \/ Deallocate \/ Resurrect

Client == New \/ Track \/ NewWeakref \/ Store \/ Load \/ Drop \/ PyGC_Collect

Collector ==
    \/ update_refs \/ subtract_refs \/ Reached \/ SetAside
    \/ move_finalizers \/ move_finalizer_reachable
    \/ ClearWeakrefs \/ Callback \/ Returned \/ Called
    \/ WeakrefsHandled \/ Clear \/ Cleared \/ Deleted \/ KeepUncleared \/ handle_finalizers

Next == Client \/ Cascade \/ Collector

Spec == Init /\ [][Next]_vars

\* The one thread goes on as long as it has something to do, a callback returns,
\* and __del__ does not bring its object back every time.
FairSpec == Spec /\ WF_vars(Cascade) /\ WF_vars(Collector) /\ SF_vars(Returned)
--------------------------------------------------------------------------------
(* Properties.                                                             *)

One(condition) == IF condition THEN 1 ELSE 0

\* A reference count is the number of references there are, the ones that a
\* cascade is about to drop and the collector's own included.
RefcountsExact ==
    \A o \in Object :
        ob_refcnt[o] =
            ReferencesTo(o, Object)
            + One(o \in variables) + One(o \in garbage)
            + Cardinality({k \in DOMAIN pending : pending[k] = o})
            + One(o \in Members(wrcb_to_call) /\ ~(pc = "called" /\ o = gc))
            + One(pc = "clear" /\ o = gc)

\* The lists of the generations, and after them the collector's own.
AllLists == generations \o <<unreachable, finalizers, wrcb_to_call>>

\* A tracked object is in one list, once, and its gc_refs says in which.
ListsExact ==
    /\ \A k \in DOMAIN AllLists : IsInjective(AllLists[k])
    /\ \A k, l \in DOMAIN AllLists : k # l => Members(AllLists[k]) \cap Members(AllLists[l]) = {}
    /\ UNION {Members(AllLists[k]) : k \in DOMAIN AllLists} =
            {o \in Object : gc_refs[o] # GC_UNTRACKED}
    /\ Members(unreachable) = {o \in Object : gc_refs[o] = GC_TENTATIVELY_UNREACHABLE}
    /\ \A o \in Object : gc_refs[o] >= 0 =>
        pc \in {"subtract_refs", "move_unreachable"} /\ o \in Members(young)

\* What the references from outside the generation lead to.
FromOutside ==
    LET inside == Members(young) \cup Members(unreachable) IN
    Reachable(Object, field,
              variables \cup garbage \cup UNION {Range(field[n]) : n \in Object \ inside})

\* The invariant that the comment in move_unreachable states: the objects to the
\* left have been found to be reachable, with what they refer to; the others have
\* not been looked at.  At its end exactly the objects that cannot be reached from
\* outside have been set aside.
ReachabilityExact ==
    pc = "move_unreachable" => LET outside == FromOutside IN
        /\ \A o \in Members(young) : gc_refs[o] # 0 => o \in outside
        /\ \A o \in Members(young) : gc_refs[o] = GC_REACHABLE =>
            \A n \in Range(References(o)) :
                n \notin Members(unreachable) /\ (n \in Members(young) => gc_refs[n] # 0)
        /\ gc = Nil => Members(unreachable) \cap outside = {}
                       /\ Members(young) \subseteq outside

\* Counts, lists and marks agree throughout a collection, whatever callbacks,
\* cascades and __del__ do in the middle of it (gcmodule.c).
CollectorInvariant == RefcountsExact /\ ListsExact /\ ReachabilityExact

\* No Python code, neither in the callback of a weak reference nor after __del__
\* has run in the middle of delete_garbage, can reach an object that the collector
\* is about to clear, over references or weak references.
TrashIsOutOfReach ==
    pc \in {"handle_weakrefs", "callback", "called", "delete_garbage", "clear", "cleared"} =>
        Members(unreachable) \cap
            Reachable(Object,
                      [o \in Object |-> IF o \in Weakref THEN <<wr_object[o]>> ELSE field[o]],
                      Held) = {}

\* What a collection has left alive of the trash that delete_garbage was given.
Left == {o \in trash : ob_refcnt[o] > 0}

\* The trash is freed when a collection ends, although no tp_clear frees it by itself;
\* but for knots of objects that keep their references, and what those lead to: every
\* object left alive is referred to by one of them.
FreesAllTrash ==
    [][pc = "delete_garbage" /\ pc' = "python" =>
        \A o \in Left : \E n \in Left \cap NoClear : o \in Range(References(n))]_vars

\* Every collection ends, and has then freed the trash, up to such knots.
TrashIsFreed == (pc # "python" ~> pc = "python") /\ FreesAllTrash
================================================================================
