--------------------------- MODULE MarkCompactProofs ---------------------------
(***************************************************************************)
(* What holds of MarkCompact for every heap size, set of classes and number*)
(* of roots: the walks find every header, exactly the reachable objects    *)
(* slide down, and the client sees nothing of it.                          *)
(***************************************************************************)
EXTENDS MarkCompact, Sequences, FiniteSetTheorems, SequenceTheorems, TLAPS

--------------------------------------------------------------------------------
(* The object graph.                                                       *)

\* What is closed and holds the roots holds everything reachable: this is why
\* a collector that keeps such a set takes back only garbage.
LEMMA ReachableIsLeast ==
    ASSUME NEW Nodes, NEW f, NEW R, NEW S \in SUBSET Nodes,
           R \subseteq S \cup {Nil}, Closed(f, S)
    PROVE  Reachable(Nodes, f, R) \subseteq S
    BY DEF Reachable

\* The roots are reachable.
LEMMA RootsAreReachable ==
    ASSUME NEW Nodes, NEW f, NEW R, R \subseteq Nodes \cup {Nil}
    PROVE  R \subseteq Reachable(Nodes, f, R) \cup {Nil}
    BY DEF Reachable

\* Following a reference from a reachable object leads to a reachable object.
LEMMA ReachableIsClosed ==
    ASSUME NEW Nodes, NEW f, NEW R, Closed(f, Nodes)
    PROVE  Closed(f, Reachable(Nodes, f, R))
    <1> SUFFICES ASSUME NEW n \in Reachable(Nodes, f, R),
                        NEW i \in DOMAIN f[n], f[n][i] # Nil
                 PROVE  f[n][i] \in Reachable(Nodes, f, R)
        BY DEF Closed
    <1>1. n \in Nodes
        BY DEF Reachable
    <1>2. f[n][i] \in Nodes
        BY <1>1 DEF Closed
    <1>3. ASSUME NEW S \in SUBSET Nodes, R \subseteq S \cup {Nil},
                 Closed(f, S)
          PROVE  f[n][i] \in S
        <2>1. n \in S
            BY <1>3, ReachableIsLeast
        <2> QED
            BY <1>3, <2>1 DEF Closed
    <1> QED
        BY <1>2, <1>3 DEF Reachable

\* Clearing or overwriting unreachable objects changes nothing that is reachable:
\* sweeping does not disturb the graph it decides by.
LEMMA GarbageIsIrrelevant ==
    ASSUME NEW Nodes, NEW f, NEW f2, NEW R,
           R \subseteq Nodes \cup {Nil},
           Closed(f, Nodes), Closed(f2, Nodes),
           \A n \in Reachable(Nodes, f, R) : f2[n] = f[n]
    PROVE  Reachable(Nodes, f2, R) = Reachable(Nodes, f, R)
    <1> DEFINE Old == Reachable(Nodes, f, R)
               New == Reachable(Nodes, f2, R)
    <1>1. Old \in SUBSET Nodes /\ New \in SUBSET Nodes
        BY DEF Reachable
    <1>2. R \subseteq Old \cup {Nil} /\ R \subseteq New \cup {Nil}
        BY RootsAreReachable
    <1>3. Closed(f, Old) /\ Closed(f2, New)
        BY ReachableIsClosed
    <1>4. Closed(f2, Old)
        BY <1>3 DEF Closed
    <1>5. New \subseteq Old
        BY <1>1, <1>2, <1>4, ReachableIsLeast
    <1>6. Closed(f, New)
        BY <1>3, <1>5 DEF Closed
    <1>7. Old \subseteq New
        BY <1>1, <1>2, <1>6, ReachableIsLeast
    <1> QED
        BY <1>5, <1>7

--------------------------------------------------------------------------------
Cell == UNION {[clss : {c}, field : [1..c.num_fields -> Pointer], marked : BOOLEAN,
                forwarding : Pointer, id : Identity] : c \in Class}
Frame == [obj : Nat, i : Nat \ {0}]

Dest(a) == object[a].forwarding

Marking == pc = "mark"
Deciding == pc \in {"forward", "adjust roots", "adjust"}
Marked == {a \in Objects : object[a].marked}

\* The objects that the walks have still to find end to end.
Standing == IF Moving THEN {a \in Objects : scan <= a} ELSE Objects

\* In move_obj(): the objects that have been moved, and the ones that will be.
Settled == {a \in Objects : a < new_address}
Pending == {a \in Objects : scan <= a /\ object[a].marked}

\* The objects that the collection keeps, and of them the ones of which
\* set_forwarding() has decided where they go.
Kept == IF Deciding THEN Marked ELSE Present
Forwarded ==
    IF pc = "forward" THEN {a \in Marked : a < scan}
    ELSE IF Deciding \/ Moving THEN Kept ELSE {}

\* How a reference to the object at b looks.
Where(b, rewritten) == IF rewritten THEN Dest(b) ELSE b

Types ==
    /\ Objects \subseteq Address
    /\ \A a \in Objects : object[a] \in Cell /\ a + Size(a) <= heap + heap_size
    /\ next_free_offset \in 0..heap_size
    /\ roots \in Seq(Pointer) /\ Len(roots) <= MAX_ROOTS
    /\ pc \in {"run", "mark", "forward", "adjust roots", "adjust", "move", "alloc",
               "abort", "undefined"}
    /\ request \in Class \cup {NoRequest}
    /\ ri \in 1..(MAX_ROOTS + 1)
    /\ stack \in Seq(Frame) /\ \A j \in DOMAIN stack : stack[j].obj \in Objects
    /\ scan \in Address
    /\ new_address \in Address

\* The objects lie end to end up to heap_end, and a walk is at one of them.
InOrder ==
    /\ (IF Moving THEN scan ELSE heap) \in Standing \cup {heap_end}
    /\ pc \in {"forward", "adjust"} => scan \in Standing \cup {heap_end}
    /\ \A a \in Standing : a + Size(a) \in Standing \cup {heap_end}
    /\ \A a \in Standing : a < heap_end
    /\ \A a, b \in Standing : a < b => a + Size(a) <= b

\* n bytes are enough for as many objects as S has.
RoomFor(S, n) == Cardinality(S) * heap_size <= (MaxObjects + 1) * n

Identities ==
    /\ \A a, b \in Present : object[a].id = object[b].id => a = b
    /\ IF Moving THEN RoomFor(Settled, new_address - heap) ELSE RoomFor(Objects, next_free_offset)

\* Marks exist in gc() only.  A reference from a marked object to one that is not is
\* ahead of an active call of mark().
Marks ==
    /\ pc \in {"run", "alloc", "abort"} => Marked = {}
    /\ ~Marking => stack = <<>>
    /\ pc = "alloc" => request \in Class
    /\ Marking =>
        /\ \A j \in DOMAIN stack : stack[j].obj \in Marked
        /\ \A i \in DOMAIN roots : i < ri => roots[i] \in Marked
        /\ \A a \in Marked : \A i \in DOMAIN object[a].field :
              LET q == object[a].field[i] IN
              \/ q = Nil \/ q \in Marked
              \/ \E j \in DOMAIN stack : stack[j].obj = a /\ stack[j].i <= i

\* References lead to objects; from a kept object, and from a root, to kept ones.
References ==
    /\ \A a \in Present : \A i \in DOMAIN object[a].field :
          \/ object[a].field[i] = Nil
          \/ \E b \in Present : /\ object[a].field[i] = Where(b, Rewritten(a))
                                /\ a \in Kept => b \in Kept
    /\ \A i \in DOMAIN roots : \E b \in Kept : roots[i] = Where(b, RootRewritten(i))

OnlyLive ==
    /\ Marking => \A a \in Marked : object[a].id \in Live
    /\ pc \notin {"run", "mark"} => \A a \in Kept : object[a].id \in Live

\* The new places lie in the order of the objects, none above its object, and, as
\* far as they have been decided, end to end.
Places ==
    /\ \A a \in Forwarded : heap <= Dest(a) /\ Dest(a) <= a
    /\ \A a, b \in Forwarded : a < b => Dest(a) + Size(a) <= Dest(b)
    /\ Deciding =>
        /\ heap \in {Dest(b) : b \in Forwarded} \cup {new_address}
        /\ \A a \in Forwarded : /\ Dest(a) + Size(a) <= new_address
                                /\ Dest(a) + Size(a) \in {Dest(b) : b \in Forwarded} \cup {new_address}
        /\ new_address <= IF pc = "forward" THEN scan ELSE heap_end

\* What has been moved lies end to end from heap to new_address, and what has not
\* goes on there.
Sliding ==
    Moving =>
        /\ new_address <= scan
        /\ heap \in Settled \cup {new_address}
        /\ \A a \in Settled : /\ Dest(a) = a /\ ~object[a].marked
                              /\ a + Size(a) <= new_address
                              /\ a + Size(a) \in Settled \cup {new_address}
        /\ \A a \in Pending : Dest(a) >= new_address
        /\ Pending # {} => \E b \in Pending : Dest(b) = new_address
        /\ \A a, b \in Pending : a < b => \E c \in Pending : Dest(c) = Dest(a) + Size(a)

Inv == Types /\ InOrder /\ Identities /\ Marks /\ References /\ OnlyLive /\ Places /\ Sliding

\* All of it but OnlyLive, the one part that looks at the client's graph.
Base == Types /\ InOrder /\ Identities /\ Marks /\ References /\ Places /\ Sliding

--------------------------------------------------------------------------------
(* Sizes, cells and identities.                                            *)

\* The heap and the classes.
LEMMA HeapFacts ==
    /\ heap = 1 /\ heap_size \in Nat
    /\ \A c \in Class : c.size \in Nat /\ c.size > 0 /\ c.num_fields \in Nat
    /\ \A q \in Address : q \in Nat /\ heap <= q /\ q <= heap + heap_size
    /\ \A q \in Nat : heap <= q /\ q <= heap + heap_size => q \in Address
    /\ Nil = 0 /\ Nil \notin Address /\ Pointer = Address \cup {Nil} /\ Pointer \subseteq Nat
    <1>1. heap_size \in Nat
        BY SizeAssumption DEF heap_size, resolve_heap_size
    <1> QED
        BY <1>1, ClassAssumption DEF heap, HEADER_SIZE, Address, Pointer, Nil

\* What is known of a cell, and what remains of it when a field of it is assigned.
LEMMA CellFields ==
    ASSUME NEW x \in Cell
    PROVE  /\ x.clss \in Class
           /\ x.clss.size \in Nat /\ x.clss.size > 0 /\ x.clss.num_fields \in Nat
           /\ x.field \in [1..x.clss.num_fields -> Pointer]
           /\ DOMAIN x.field = 1..x.clss.num_fields
           /\ \A i \in DOMAIN x.field : i \in Nat \ {0} /\ x.field[i] \in Pointer
           /\ x.marked \in BOOLEAN
           /\ x.forwarding \in Pointer /\ x.forwarding \in Nat
           /\ x.id \in Identity
    <1>1. PICK c \in Class : x \in [clss : {c}, field : [1..c.num_fields -> Pointer],
                                    marked : BOOLEAN, forwarding : Pointer, id : Identity]
        BY DEF Cell
    <1>2. /\ x.clss = c /\ c \in Class /\ x.field \in [1..c.num_fields -> Pointer]
          /\ x.marked \in BOOLEAN /\ x.forwarding \in Pointer /\ x.id \in Identity
        BY <1>1
    <1>3. c.size \in Nat /\ c.size > 0 /\ c.num_fields \in Nat /\ Pointer \subseteq Nat
        BY <1>2, HeapFacts
    <1>4. \A i \in 1..c.num_fields : i \in Nat \ {0} /\ x.field[i] \in Pointer
        BY <1>2, <1>3
    <1> QED
        BY <1>2, <1>3, <1>4

LEMMA CellUpdates ==
    ASSUME NEW x \in Cell
    PROVE  /\ \A b \in BOOLEAN :
                LET y == [x EXCEPT !.marked = b] IN
                /\ y \in Cell /\ y.marked = b /\ y.clss = x.clss /\ y.field = x.field
                /\ y.forwarding = x.forwarding /\ y.id = x.id
           /\ \A q \in Pointer :
                LET y == [x EXCEPT !.forwarding = q] IN
                /\ y \in Cell /\ y.forwarding = q /\ y.clss = x.clss /\ y.field = x.field
                /\ y.marked = x.marked /\ y.id = x.id
           /\ \A f \in [1..x.clss.num_fields -> Pointer] :
                LET y == [x EXCEPT !.field = f] IN
                /\ y \in Cell /\ y.field = f /\ y.clss = x.clss /\ y.marked = x.marked
                /\ y.forwarding = x.forwarding /\ y.id = x.id
    <1>1. PICK c \in Class : x \in [clss : {c}, field : [1..c.num_fields -> Pointer],
                                    marked : BOOLEAN, forwarding : Pointer, id : Identity]
        BY DEF Cell
    <1> QED
        BY <1>1 DEF Cell

LEMMA CellFacts ==
    ASSUME Types, NEW a \in Objects
    PROVE  /\ a \in Nat /\ a \in Address /\ heap <= a /\ a # Nil
           /\ object[a] \in Cell
           /\ object[a].clss \in Class
           /\ Size(a) \in Nat /\ Size(a) > 0 /\ Size(a) = object[a].clss.size
           /\ object[a].clss.num_fields \in Nat
           /\ object[a].field \in [1..object[a].clss.num_fields -> Pointer]
           /\ DOMAIN object[a].field = 1..object[a].clss.num_fields
           /\ \A i \in DOMAIN object[a].field : i \in Nat \ {0} /\ object[a].field[i] \in Pointer
           /\ object[a].marked \in BOOLEAN
           /\ Dest(a) \in Pointer /\ Dest(a) \in Nat /\ Dest(a) = object[a].forwarding
           /\ object[a].id \in Identity
    <1>1. object[a] \in Cell /\ a \in Address
        BY DEF Types
    <1> QED
        BY <1>1, CellFields, HeapFacts DEF Size, Dest

LEMMA EndFacts ==
    ASSUME Types
    PROVE  /\ next_free_offset \in Nat /\ heap_end \in Nat /\ heap_end \in Address /\ heap <= heap_end
           /\ heap_end = heap + next_free_offset
           /\ scan \in Nat /\ heap <= scan
           /\ new_address \in Nat /\ heap <= new_address
           /\ \A i \in DOMAIN roots : i \in Nat \ {0} /\ roots[i] \in Pointer
           /\ Len(roots) \in Nat /\ DOMAIN roots = 1..Len(roots)
    <1>1. next_free_offset \in Nat /\ heap_end \in Nat /\ heap_end \in Address /\ heap <= heap_end
        <2>1. next_free_offset \in 0..heap_size /\ heap = 1 /\ heap_size \in Nat
            BY HeapFacts DEF Types
        <2>2. heap_end = heap + next_free_offset
            BY DEF heap_end
        <2> QED
            BY <2>1, <2>2 DEF Address
    <1>2. scan \in Nat /\ heap <= scan /\ new_address \in Nat /\ heap <= new_address
        BY HeapFacts DEF Types
    <1>3. roots \in Seq(Pointer)
        BY DEF Types
    <1> QED
        BY <1>1, <1>2, <1>3, LenProperties, ElementOfSeq DEF heap_end

LEMMA NotMovingFacts ==
    ASSUME ~Moving
    PROVE  Standing = Objects /\ Present = Objects
    BY DEF Standing, Present

LEMMA MovingFacts ==
    ASSUME Moving
    PROVE  /\ Present = Settled \cup Pending /\ Kept = Present /\ Forwarded = Present
           /\ Standing = {a \in Objects : scan <= a}
           /\ Settled \subseteq Objects /\ Pending \subseteq Standing /\ Standing \subseteq Objects
           /\ ~Deciding /\ pc # "forward"
    BY DEF Present, Settled, Pending, Kept, Forwarded, Deciding, Moving, Standing

--------------------------------------------------------------------------------
(* The client's graph.                                                     *)

\* What references of a form can lead to.
Targets(rewritten) == {b \in Present : rewritten => pc # "forward" /\ b \in Forwarded}

\* Every reference designates the object it leads to.
GraphIsSeen ==
    /\ allocated \in SUBSET Identity
    /\ field = [i \in Identity |-> field[i]]
    /\ \A i \in Identity \ allocated : field[i] = NullFields(0)
    /\ \A a \in Present :
          LET f == field[object[a].id] IN
          /\ f = [k \in DOMAIN object[a].field |-> f[k]]
          /\ \A k \in DOMAIN object[a].field :
                /\ object[a].field[k] = Nil => f[k] = Nil
                /\ \A b \in Targets(Rewritten(a)) :
                      object[a].field[k] = Where(b, Rewritten(a)) => f[k] = object[b].id
    /\ \A i \in DOMAIN roots : \A b \in Targets(RootRewritten(i)) :
          roots[i] = Where(b, RootRewritten(i)) =>
              Designated(roots[i], RootRewritten(i)) = object[b].id

ReferencesLead ==
    /\ \A a \in Present : \A k \in DOMAIN object[a].field :
          \/ object[a].field[k] = Nil
          \/ \E b \in Targets(Rewritten(a)) : object[a].field[k] = Where(b, Rewritten(a))
    /\ \A i \in DOMAIN roots : \E b \in Targets(RootRewritten(i)) :
          roots[i] = Where(b, RootRewritten(i))

\* No two objects are given one place.
LEMMA PlacesDiffer ==
    ASSUME Types, Places, NEW a \in Forwarded, NEW b \in Forwarded, Dest(a) = Dest(b)
    PROVE  a = b
    <1>1. a \in Objects /\ b \in Objects
        BY DEF Forwarded, Kept, Marked, Present
    <1>2. /\ a \in Nat /\ b \in Nat /\ Size(a) \in Nat \ {0} /\ Size(b) \in Nat \ {0}
          /\ Dest(a) \in Nat /\ Dest(b) \in Nat
        BY <1>1, CellFacts
    <1>3. (a < b => Dest(a) + Size(a) <= Dest(b)) /\ (b < a => Dest(b) + Size(b) <= Dest(a))
        BY DEF Places
    <1> QED
        BY <1>2, <1>3

LEMMA TargetIsDesignated ==
    ASSUME Types, Places, NEW rewritten \in BOOLEAN, NEW b \in Targets(rewritten)
    PROVE  /\ Where(b, rewritten) # Nil
           /\ Designated(Where(b, rewritten), rewritten) = object[b].id
    <1> DEFINE q == Where(b, rewritten)
               there == {a \in Present :
                            IF rewritten THEN object[a].forwarding = q /\ (object[a].marked \/ Moving)
                            ELSE a = q}
    <1>1. b \in Present /\ b \in Objects /\ (rewritten => pc # "forward" /\ b \in Forwarded)
        BY DEF Targets, Present
    <1>2. Where(b, rewritten) # Nil
        <2>1. CASE rewritten
            <3>1. heap <= Dest(b)
                BY <1>1, <2>1 DEF Places
            <3> QED
                BY <1>1, <2>1, <3>1, HeapFacts, CellFacts DEF Where
        <2>2. CASE ~rewritten
            BY <1>1, <2>2, CellFacts DEF Where
        <2> QED
            BY <2>1, <2>2
    <1>3. there = {b}
        <2>1. CASE rewritten
            <3>1. pc # "forward" /\ b \in Forwarded /\ q = Dest(b)
                BY <1>1, <2>1 DEF Where
            <3>2. Deciding \/ Moving
                BY <3>1 DEF Forwarded
            <3>3. Forwarded = IF Moving THEN Present ELSE Marked
                BY <3>1, <3>2 DEF Forwarded, Kept, Deciding, Moving
            <3>4. \A a \in there : a \in Forwarded /\ Dest(a) = Dest(b)
                BY <2>1, <3>1, <3>3 DEF Marked, Dest, Present
            <3>5. \A a \in there : a = b
                BY <3>1, <3>4, PlacesDiffer
            <3>6. b \in there
                BY <1>1, <2>1, <3>1, <3>3 DEF Dest, Marked
            <3> QED
                BY <3>5, <3>6
        <2>2. CASE ~rewritten
            BY <1>1, <2>2 DEF Where
        <2> QED
            BY <2>1, <2>2
    <1>4. (CHOOSE a \in there : TRUE) = b
        BY <1>3
    <1> QED
        BY <1>2, <1>3, <1>4 DEF Designated

LEMMA NilIsDesignated == \A rewritten \in BOOLEAN : Designated(Nil, rewritten) = Nil
    BY DEF Designated

LEMMA GraphOf == Types /\ Identities /\ Places => GraphIsSeen
    <1> SUFFICES ASSUME Types, Identities, Places PROVE GraphIsSeen
        OBVIOUS
    <1>1. allocated \in SUBSET Identity
        BY CellFacts DEF allocated, Present
    <1>2. field = [i \in Identity |-> field[i]]
        BY DEF field
    <1>3. \A i \in Identity \ allocated : field[i] = NullFields(0)
        BY DEF field
    <1>4. ASSUME NEW a \in Present
          PROVE  LET f == field[object[a].id] IN
                 /\ f = [k \in DOMAIN object[a].field |-> f[k]]
                 /\ \A k \in DOMAIN object[a].field :
                       /\ object[a].field[k] = Nil => f[k] = Nil
                       /\ \A b \in Targets(Rewritten(a)) :
                             object[a].field[k] = Where(b, Rewritten(a)) => f[k] = object[b].id
        <2>1. Home(object[a].id) = a
            BY <1>4 DEF Home, Identities
        <2>2. object[a].id \in allocated /\ object[a].id \in Identity
            BY <1>1, <1>4 DEF allocated
        <2>3. field[object[a].id] =
                [k \in DOMAIN object[a].field |-> Designated(object[a].field[k], Rewritten(a))]
            BY <2>1, <2>2 DEF field
        <2>4. Rewritten(a) \in BOOLEAN
            <3>1. a \in Objects
                BY <1>4 DEF Present
            <3> QED
                BY <3>1, CellFacts DEF Rewritten, Moving
        <2> QED
            BY <2>3, <2>4, NilIsDesignated, TargetIsDesignated
    <1>5. ASSUME NEW i \in DOMAIN roots, NEW b \in Targets(RootRewritten(i)),
                 roots[i] = Where(b, RootRewritten(i))
          PROVE  Designated(roots[i], RootRewritten(i)) = object[b].id
        <2>1. RootRewritten(i) \in BOOLEAN
            BY DEF RootRewritten, Moving
        <2> QED
            BY <1>5, <2>1, TargetIsDesignated
    <1> QED
        BY <1>1, <1>2, <1>3, <1>4, <1>5 DEF GraphIsSeen

LEMMA GraphOfNext == (Types /\ Identities /\ Places)' => GraphIsSeen'
    BY GraphOf, PTL

LEMMA LeadsOf == Types /\ References => ReferencesLead
    <1> SUFFICES ASSUME Types, References PROVE ReferencesLead
        OBVIOUS
    <1>1. ASSUME NEW a \in Present, NEW k \in DOMAIN object[a].field, object[a].field[k] # Nil
          PROVE  \E b \in Targets(Rewritten(a)) : object[a].field[k] = Where(b, Rewritten(a))
        <2>1. PICK b \in Present : /\ object[a].field[k] = Where(b, Rewritten(a))
                                   /\ a \in Kept => b \in Kept
            BY <1>1 DEF References
        <2>2. ASSUME Rewritten(a) PROVE pc # "forward" /\ b \in Forwarded
            <3>1. pc # "forward" /\ Forwarded = Kept
                BY <2>2 DEF Rewritten, Moving, Forwarded, Deciding
            <3>2. a \in Kept
                BY <2>2 DEF Rewritten, Moving, Kept, Deciding, Present, Marked
            <3> QED
                BY <2>1, <3>1, <3>2
        <2> QED
            BY <2>1, <2>2 DEF Targets
    <1>2. ASSUME NEW i \in DOMAIN roots
          PROVE  \E b \in Targets(RootRewritten(i)) : roots[i] = Where(b, RootRewritten(i))
        <2>1. PICK b \in Kept : roots[i] = Where(b, RootRewritten(i))
            BY DEF References
        <2>2. RootRewritten(i) => pc # "forward" /\ b \in Forwarded
            BY DEF RootRewritten, Moving, Forwarded, Deciding
        <2>3. b \in Present
            BY DEF Kept, Present, Deciding, Marked, Moving
        <2> QED
            BY <2>1, <2>2, <2>3 DEF Targets
    <1> QED
        BY <1>1, <1>2 DEF ReferencesLead

\* A step that moves the object at each a to m[a] and lets every reference follow
\* does nothing to the graph.
LEMMA SameObject ==
    ASSUME GraphIsSeen, GraphIsSeen', NEW m, NEW a \in Present, m[a] \in Present',
           \A b \in Present : object'[m[b]].id = object[b].id,
           DOMAIN object'[m[a]].field = DOMAIN object[a].field,
           \A k \in DOMAIN object[a].field :
              \/ object[a].field[k] = Nil /\ object'[m[a]].field[k] = Nil
              \/ \E b \in Targets(Rewritten(a)) :
                    /\ object[a].field[k] = Where(b, Rewritten(a))
                    /\ m[b] \in Targets(Rewritten(m[a]))'
                    /\ object'[m[a]].field[k] = Where(m[b], Rewritten(m[a]))'
    PROVE  field'[object[a].id] = field[object[a].id]
    <1>1. PICK i : i = object[a].id
        OBVIOUS
    <1>2. object'[m[a]].id = i
        BY <1>1
    <1>3. /\ field[i] = [k \in DOMAIN object[a].field |-> field[i][k]]
          /\ field'[i] = [k \in DOMAIN object'[m[a]].field |-> field'[i][k]]
        <2>1. field[i] = [k \in DOMAIN object[a].field |-> field[i][k]]
            BY <1>1 DEF GraphIsSeen
        <2>2. ASSUME NEW x \in Present', object'[x].id = i
              PROVE  field'[i] = [k \in DOMAIN object'[x].field |-> field'[i][k]]
            BY <2>2 DEF GraphIsSeen
        <2> QED
            BY <1>2, <2>1, <2>2
    <1>4. ASSUME NEW x \in Present', object'[x].id = i, NEW k \in DOMAIN object'[x].field
          PROVE  /\ object'[x].field[k] = Nil => field'[i][k] = Nil
                 /\ \A b \in Targets(Rewritten(x))' :
                      object'[x].field[k] = Where(b, Rewritten(x))' => field'[i][k] = object'[b].id
        BY <1>4 DEF GraphIsSeen
    <1>5. \A k \in DOMAIN object[a].field :
            /\ object[a].field[k] = Nil => field[i][k] = Nil
            /\ \A b \in Targets(Rewritten(a)) :
                  object[a].field[k] = Where(b, Rewritten(a)) => field[i][k] = object[b].id
        BY <1>1 DEF GraphIsSeen
    <1>6. ASSUME NEW k \in DOMAIN object[a].field PROVE field'[i][k] = field[i][k]
        <2>1. k \in DOMAIN object'[m[a]].field
            OBVIOUS
        <2>2. CASE object[a].field[k] = Nil /\ object'[m[a]].field[k] = Nil
            BY <1>2, <1>4, <1>5, <2>1, <2>2
        <2>3. ASSUME NEW b \in Targets(Rewritten(a)),
                     object[a].field[k] = Where(b, Rewritten(a)),
                     m[b] \in Targets(Rewritten(m[a]))',
                     object'[m[a]].field[k] = Where(m[b], Rewritten(m[a]))'
              PROVE  field'[i][k] = field[i][k]
            <3>1. field[i][k] = object[b].id
                BY <1>5, <2>3
            <3>2. field'[i][k] = object'[m[b]].id
                BY <1>2, <1>4, <2>1, <2>3
            <3>3. b \in Present
                BY DEF Targets
            <3> QED
                BY <3>1, <3>2, <3>3
        <2> QED
            BY <2>2, <2>3
    <1> QED
        BY <1>1, <1>3, <1>6

LEMMA SameGraph ==
    ASSUME GraphIsSeen, GraphIsSeen', NEW m,
           Present' = {m[a] : a \in Present},
           \A a \in Present :
              /\ object'[m[a]].id = object[a].id
              /\ DOMAIN object'[m[a]].field = DOMAIN object[a].field
              /\ \A k \in DOMAIN object[a].field :
                    \/ object[a].field[k] = Nil /\ object'[m[a]].field[k] = Nil
                    \/ \E b \in Targets(Rewritten(a)) :
                          /\ object[a].field[k] = Where(b, Rewritten(a))
                          /\ m[b] \in Targets(Rewritten(m[a]))'
                          /\ object'[m[a]].field[k] = Where(m[b], Rewritten(m[a]))'
    PROVE  UNCHANGED <<allocated, field>>
    <1>1. allocated' = allocated
        BY DEF allocated
    <1>2. ASSUME NEW a \in Present PROVE field'[object[a].id] = field[object[a].id]
        <2>1. m[a] \in Present'
            OBVIOUS
        <2> QED
            BY <2>1, SameObject
    <1>3. \A i \in Identity : field'[i] = field[i]
        <2>1. \A i \in Identity \ allocated : field'[i] = field[i]
            BY <1>1 DEF GraphIsSeen
        <2> QED
            BY <1>2, <2>1 DEF allocated
    <1>4. field' = field
        BY <1>3 DEF GraphIsSeen
    <1> QED
        BY <1>1, <1>4

LEMMA SameRoots ==
    ASSUME GraphIsSeen, GraphIsSeen', NEW m, DOMAIN roots' = DOMAIN roots,
           \A a \in Present : object'[m[a]].id = object[a].id,
           \A i \in DOMAIN roots : \E b \in Targets(RootRewritten(i)) :
              /\ roots[i] = Where(b, RootRewritten(i))
              /\ m[b] \in Targets(RootRewritten(i))'
              /\ roots'[i] = Where(m[b], RootRewritten(i))'
    PROVE  root_ids' = root_ids
    <1>1. ASSUME NEW i \in DOMAIN roots
          PROVE  Designated(roots[i], RootRewritten(i))' = Designated(roots[i], RootRewritten(i))
        <2>1. PICK b \in Targets(RootRewritten(i)) :
                /\ roots[i] = Where(b, RootRewritten(i))
                /\ m[b] \in Targets(RootRewritten(i))'
                /\ roots'[i] = Where(m[b], RootRewritten(i))'
            OBVIOUS
        <2>2. Designated(roots[i], RootRewritten(i)) = object[b].id
            BY <2>1 DEF GraphIsSeen
        <2>3. Designated(roots[i], RootRewritten(i))' = object'[m[b]].id
            BY <2>1 DEF GraphIsSeen
        <2>4. b \in Present
            BY DEF Targets
        <2> QED
            BY <2>2, <2>3, <2>4
    <1> QED
        BY <1>1 DEF root_ids

\* The objects are names of the heap, and so is what roots and references designate.
LEMMA GraphFacts ==
    ASSUME GraphIsSeen, ReferencesLead, Types
    PROVE  /\ root_ids \subseteq Identity /\ root_ids \subseteq allocated
           /\ Closed(field, Identity) /\ Closed(field, allocated)
           /\ \A a \in Present : object[a].id \in allocated
    <1>1. \A a \in Present : object[a].id \in allocated
        BY DEF allocated
    <1>2. root_ids \subseteq allocated
        <2>1. ASSUME NEW i \in DOMAIN roots
              PROVE  Designated(roots[i], RootRewritten(i)) \in allocated
            <3>1. PICK b \in Targets(RootRewritten(i)) : roots[i] = Where(b, RootRewritten(i))
                BY DEF ReferencesLead
            <3>2. Designated(roots[i], RootRewritten(i)) = object[b].id
                BY <3>1 DEF GraphIsSeen
            <3> QED
                BY <1>1, <3>2 DEF Targets
        <2> QED
            BY <2>1 DEF root_ids
    <1>3. ASSUME NEW n \in allocated, NEW i \in DOMAIN field[n]
          PROVE  field[n][i] \in allocated \cup {Nil}
        <2>1. PICK a \in Present : n = object[a].id
            BY DEF allocated
        <2>2. i \in DOMAIN object[a].field
            BY <2>1 DEF GraphIsSeen
        <2>3. object[a].field[i] = Nil \/ \E b \in Targets(Rewritten(a)) :
                    object[a].field[i] = Where(b, Rewritten(a))
            BY <2>2 DEF ReferencesLead
        <2>4. /\ object[a].field[i] = Nil => field[n][i] = Nil
              /\ \A b \in Targets(Rewritten(a)) :
                    object[a].field[i] = Where(b, Rewritten(a)) => field[n][i] = object[b].id
            BY <2>1, <2>2 DEF GraphIsSeen
        <2> QED
            BY <1>1, <2>3, <2>4 DEF Targets
    <1>4. ASSUME NEW n \in Identity \ allocated, NEW i \in DOMAIN field[n]
          PROVE  FALSE
        BY DEF GraphIsSeen, NullFields
    <1>5. allocated \in SUBSET Identity
        BY DEF GraphIsSeen
    <1> QED
        BY <1>1, <1>2, <1>3, <1>4, <1>5 DEF Closed

LEMMA GraphFactsNext ==
    (GraphIsSeen /\ ReferencesLead /\ Types)' =>
        /\ root_ids' \subseteq Identity /\ root_ids' \subseteq allocated'
        /\ Closed(field', Identity) /\ Closed(field', allocated')
    <1>1. GraphIsSeen /\ ReferencesLead /\ Types =>
            /\ root_ids \subseteq Identity /\ root_ids \subseteq allocated
            /\ Closed(field, Identity) /\ Closed(field, allocated)
        BY GraphFacts
    <1>2. (GraphIsSeen /\ ReferencesLead /\ Types =>
            /\ root_ids \subseteq Identity /\ root_ids \subseteq allocated
            /\ Closed(field, Identity) /\ Closed(field, allocated))'
        BY <1>1, PTL
    <1> QED
        BY <1>2

\* What a root refers to, and what an object that the client can reach refers to, is
\* reachable.
LEMMA LiveFacts ==
    ASSUME GraphIsSeen, ReferencesLead, Types
    PROVE  /\ \A i \in DOMAIN roots : \A b \in Targets(RootRewritten(i)) :
                 roots[i] = Where(b, RootRewritten(i)) => object[b].id \in Live
           /\ \A a \in Present : object[a].id \in Live =>
                 \A k \in DOMAIN object[a].field : \A b \in Targets(Rewritten(a)) :
                    object[a].field[k] = Where(b, Rewritten(a)) => object[b].id \in Live
           /\ Live \subseteq allocated
    <1>1. root_ids \subseteq Identity \cup {Nil} /\ Closed(field, Identity)
        BY GraphFacts
    <1>2. root_ids \subseteq Live \cup {Nil} /\ Closed(field, Live)
        BY <1>1, RootsAreReachable, ReachableIsClosed DEF Live
    <1>3. \A a \in Objects : object[a].id # Nil
        BY CellFacts DEF Identity, Nil
    <1>4. ASSUME NEW i \in DOMAIN roots, NEW b \in Targets(RootRewritten(i)),
                 roots[i] = Where(b, RootRewritten(i))
          PROVE  object[b].id \in Live
        <2>1. object[b].id \in root_ids
            BY <1>4 DEF GraphIsSeen, root_ids
        <2> QED
            BY <1>2, <1>3, <2>1 DEF Targets, Present
    <1>5. ASSUME NEW a \in Present, object[a].id \in Live,
                 NEW k \in DOMAIN object[a].field, NEW b \in Targets(Rewritten(a)),
                 object[a].field[k] = Where(b, Rewritten(a))
          PROVE  object[b].id \in Live
        <2>1. k \in DOMAIN field[object[a].id] /\ field[object[a].id][k] = object[b].id
            BY <1>5 DEF GraphIsSeen
        <2>2. object[b].id \in Live \cup {Nil}
            BY <1>2, <1>5, <2>1 DEF Closed
        <2> QED
            BY <1>3, <2>2 DEF Targets, Present
    <1>6. Live \subseteq allocated
        <2>1. allocated \in SUBSET Identity /\ root_ids \subseteq allocated \cup {Nil} /\ Closed(field, allocated)
            BY GraphFacts DEF GraphIsSeen
        <2> QED
            BY <2>1, ReachableIsLeast DEF Live
    <1> QED
        BY <1>4, <1>5, <1>6

--------------------------------------------------------------------------------
(* Steps that leave every object where it is.                              *)

\* While the client runs or mark() does, references are the addresses of objects.
Calm == pc \in {"run", "mark", "alloc", "abort"}

PlainReferences ==
    /\ \A a \in Objects : \A i \in DOMAIN object[a].field : object[a].field[i] \in Objects \cup {Nil}
    /\ \A i \in DOMAIN roots : roots[i] \in Objects

CalmShape ==
    /\ ~Moving /\ ~Deciding /\ pc # "forward"
    /\ Present = Objects /\ Kept = Objects /\ Standing = Objects /\ Forwarded = {}
    /\ \A a \in Objects : ~Rewritten(a)
    /\ \A i \in DOMAIN roots : ~RootRewritten(i)
    /\ References <=> PlainReferences
    /\ Places /\ Sliding

LEMMA CalmFacts == Calm => CalmShape
    <1> SUFFICES ASSUME Calm PROVE CalmShape
        OBVIOUS
    <1>1. ~Moving /\ ~Deciding /\ pc # "forward"
        BY DEF Calm, Moving, Deciding
    <1>2. Present = Objects /\ Kept = Objects /\ Standing = Objects /\ Forwarded = {}
        BY <1>1 DEF Present, Kept, Standing, Forwarded
    <1>3. /\ \A a \in Objects : ~Rewritten(a)
          /\ \A i \in DOMAIN roots : ~RootRewritten(i)
        BY <1>1 DEF Rewritten, RootRewritten, Calm
    <1>4. References <=> PlainReferences
        BY <1>2, <1>3 DEF References, PlainReferences, Where
    <1>5. Places /\ Sliding
        BY <1>1, <1>2 DEF Places, Sliding
    <1> QED
        BY <1>1, <1>2, <1>3, <1>4, <1>5 DEF CalmShape

LEMMA CalmFactsNext == Calm' => CalmShape'
    BY CalmFacts, PTL

\* Where a walk over the heap is, there is a header, and behind it the next one.
LEMMA WalkStep ==
    ASSUME Types, InOrder, pc \in {"forward", "adjust", "move"}, scan < heap_end
    PROVE  /\ scan \in Objects /\ scan \in Standing /\ Size(scan) \in Nat /\ Size(scan) > 0
           /\ scan + Size(scan) \in Standing \cup {heap_end}
           /\ scan + Size(scan) \in Address
           /\ \A a \in Standing : a < scan + Size(scan) <=> a < scan \/ a = scan
    <1>1. scan \in Standing
        BY EndFacts DEF InOrder, Moving
    <1>2. Standing \subseteq Objects
        BY DEF Standing
    <1>3. scan \in Objects /\ Size(scan) \in Nat /\ Size(scan) > 0
        BY <1>1, <1>2, CellFacts
    <1>4. scan + Size(scan) \in Standing \cup {heap_end}
        BY <1>1 DEF InOrder
    <1>5. scan + Size(scan) \in Address
        BY <1>2, <1>4, CellFacts, EndFacts
    <1>6. ASSUME NEW a \in Standing PROVE a < scan + Size(scan) <=> a < scan \/ a = scan
        <2>1. scan < a => scan + Size(scan) <= a
            BY <1>1 DEF InOrder
        <2> QED
            BY <1>2, <1>3, <2>1, CellFacts, EndFacts
    <1> QED
        BY <1>1, <1>3, <1>4, <1>5, <1>6

LEMMA SameLayout ==
    ASSUME Types, InOrder, Identities, ~Moving, ~Moving',
           Objects' = Objects, next_free_offset' = next_free_offset,
           \A a \in Objects : /\ object'[a] \in Cell
                              /\ object'[a].clss = object[a].clss
                              /\ object'[a].id = object[a].id,
           roots' \in Seq(Pointer), Len(roots') <= MAX_ROOTS,
           pc' \in {"run", "mark", "forward", "adjust roots", "adjust", "alloc", "abort"},
           request' \in Class \cup {NoRequest}, ri' \in 1..(MAX_ROOTS + 1),
           stack' \in Seq(Frame), \A j \in DOMAIN stack' : stack'[j].obj \in Objects,
           scan' \in Address, new_address' \in Address,
           pc' \in {"forward", "adjust"} => scan' \in Objects \cup {heap_end}
    PROVE  Types' /\ InOrder' /\ Identities' /\ Sliding'
    <1>1. Standing = Objects /\ Present = Objects
        BY NotMovingFacts
    <1>2. Standing' = Objects /\ Present' = Objects
        BY DEF Standing, Present
    <1>3. \A a \in Objects : Size(a)' = Size(a)
        BY DEF Size
    <1>4. Types'
        BY <1>3 DEF Types
    <1>5. heap_end' = heap_end
        BY DEF heap_end
    <1>6. InOrder'
        <2>1. heap \in Objects \cup {heap_end}
            BY <1>1 DEF InOrder
        <2>2. \A a \in Objects : /\ a + Size(a) \in Objects \cup {heap_end}
                                 /\ a < heap_end
                                 /\ \A b \in Objects : a < b => a + Size(a) <= b
            BY <1>1 DEF InOrder
        <2> QED
            BY <1>2, <1>3, <1>5, <2>1, <2>2 DEF InOrder
    <1>7. Identities'
        <2>1. RoomFor(Objects, next_free_offset) /\
              \A a, b \in Objects : object[a].id = object[b].id => a = b
            BY <1>1 DEF Identities
        <2>2. ASSUME NEW a \in Present', NEW b \in Present', object'[a].id = object'[b].id
              PROVE  a = b
            <3>1. object[a].id = object[b].id
                BY <1>2, <2>2
            <3> QED
                BY <1>2, <2>1, <3>1
        <2>3. RoomFor(Objects, next_free_offset)'
            BY <2>1 DEF RoomFor
        <2> QED
            BY <2>2, <2>3 DEF Identities
    <1>8. Sliding'
        BY DEF Sliding
    <1> QED
        BY <1>4, <1>6, <1>7, <1>8

\* Where references are the addresses of objects before and after a step, what they
\* designate stays the same.
LEMMA StillGraph ==
    ASSUME GraphIsSeen, GraphIsSeen', ReferencesLead, ~Moving, ~Moving', Objects' = Objects,
           \A a \in Objects : /\ object'[a].id = object[a].id
                              /\ object'[a].field = object[a].field
                              /\ ~Rewritten(a) /\ ~Rewritten(a)'
    PROVE  UNCHANGED <<allocated, field>>
    <1>0. PICK m : m = [a \in Objects |-> a]
        OBVIOUS
    <1>1. Present = Objects /\ Present' = Objects
        BY DEF Present
    <1>2. Present' = {m[a] : a \in Present} /\ \A a \in Present : m[a] = a
        BY <1>0, <1>1
    <1>3. ASSUME NEW a \in Present, NEW k \in DOMAIN object[a].field, object[a].field[k] # Nil
          PROVE  \E b \in Targets(Rewritten(a)) :
                    /\ object[a].field[k] = Where(b, Rewritten(a))
                    /\ m[b] \in Targets(Rewritten(m[a]))'
                    /\ object'[m[a]].field[k] = Where(m[b], Rewritten(m[a]))'
        <2>1. PICK b \in Targets(Rewritten(a)) : object[a].field[k] = Where(b, Rewritten(a))
            BY <1>3 DEF ReferencesLead
        <2>2. m[a] = a /\ m[b] = b /\ b \in Present
            BY <1>2 DEF Targets
        <2>3. ~Rewritten(a) /\ ~Rewritten(m[a])'
            BY <1>1, <2>2
        <2>4. m[b] \in Targets(Rewritten(m[a]))'
            BY <1>1, <2>2, <2>3 DEF Targets
        <2>5. Where(m[b], Rewritten(m[a]))' = Where(b, Rewritten(a))
            BY <2>2, <2>3 DEF Where
        <2>6. object'[m[a]].field[k] = object[a].field[k]
            BY <1>1, <2>2
        <2> QED
            BY <2>1, <2>4, <2>5, <2>6
    <1>4. \A a \in Present : object'[m[a]].id = object[a].id /\ object'[m[a]].field = object[a].field
        BY <1>1, <1>2
    <1> QED
        BY <1>2, <1>3, <1>4, SameGraph

LEMMA StillRoots ==
    ASSUME GraphIsSeen, GraphIsSeen', ReferencesLead, ~Moving, ~Moving', Objects' = Objects,
           \A a \in Objects : object'[a].id = object[a].id,
           roots' = roots, \A i \in DOMAIN roots : ~RootRewritten(i) /\ ~RootRewritten(i)'
    PROVE  root_ids' = root_ids
    <1>0. PICK m : m = [a \in Objects |-> a]
        OBVIOUS
    <1>1. Present = Objects /\ Present' = Objects
        BY DEF Present
    <1>2. \A a \in Present : m[a] = a
        BY <1>0, <1>1
    <1>3. ASSUME NEW i \in DOMAIN roots
          PROVE  \E b \in Targets(RootRewritten(i)) :
                    /\ roots[i] = Where(b, RootRewritten(i))
                    /\ m[b] \in Targets(RootRewritten(i))'
                    /\ roots'[i] = Where(m[b], RootRewritten(i))'
        <2>1. PICK b \in Targets(RootRewritten(i)) : roots[i] = Where(b, RootRewritten(i))
            BY DEF ReferencesLead
        <2>2. m[b] = b /\ b \in Present
            BY <1>2 DEF Targets
        <2>3. m[b] \in Targets(RootRewritten(i))'
            BY <1>1, <2>2 DEF Targets
        <2>4. Where(m[b], RootRewritten(i))' = Where(b, RootRewritten(i))
            BY <2>2 DEF Where
        <2> QED
            BY <2>1, <2>3, <2>4
    <1>4. \A a \in Present : object'[m[a]].id = object[a].id
        BY <1>1, <1>2
    <1> QED
        BY <1>3, <1>4, SameRoots

--------------------------------------------------------------------------------
(* The client's steps, and allocation.                                     *)

LEMMA InvFacts ==
    ASSUME Inv
    PROVE  Base /\ Types /\ InOrder /\ Identities /\ Marks /\ References /\ OnlyLive
           /\ Places /\ Sliding /\ GraphIsSeen /\ ReferencesLead
    BY GraphOf, LeadsOf DEF Inv, Base

LEMMA BaseNextFacts == Base' => GraphIsSeen' /\ ReferencesLead'
    <1>1. Base => GraphIsSeen /\ ReferencesLead
        BY GraphOf, LeadsOf DEF Base
    <1> QED
        BY <1>1, PTL

\* Between collections nothing is marked and no call of mark() is active.
LEMMA RestFacts ==
    ASSUME Inv, pc \in {"run", "alloc", "abort"}
    PROVE  /\ CalmShape /\ PlainReferences /\ stack = <<>>
           /\ Marked = {} /\ \A a \in Objects : ~object[a].marked
    <1>1. CalmShape
        BY CalmFacts DEF Calm
    <1>2. PlainReferences
        BY <1>1 DEF CalmShape, Inv
    <1>3. stack = <<>> /\ Marked = {}
        BY DEF Inv, Marks, Marking
    <1> QED
        BY <1>1, <1>2, <1>3 DEF Marked

LEMMA RestStep ==
    ASSUME Types', InOrder', Identities', pc' \in {"run", "alloc", "abort"},
           stack' = <<>>, \A a \in Objects' : ~object'[a].marked,
           PlainReferences', pc' = "alloc" => request' \in Class
    PROVE  Base'
    <1>1. Calm' /\ ~Marking'
        BY DEF Calm, Marking
    <1>2. References' /\ Places' /\ Sliding'
        BY <1>1, CalmFactsNext DEF CalmShape
    <1>3. Marks'
        BY <1>1 DEF Marks, Marked
    <1> QED
        BY <1>2, <1>3 DEF Base

LEMMA InvInit == Init => Inv
    <1> SUFFICES ASSUME Init PROVE Inv
        OBVIOUS
    <1>1. Objects = {} /\ Marked = {} /\ pc = "run" /\ stack = <<>> /\ roots = <<>>
        BY DEF Init, Objects, Marked
    <1>2. CalmShape
        BY <1>1, CalmFacts DEF Calm
    <1>3. Types
        <2>1. heap \in Address
            BY HeapFacts
        <2>2. roots \in Seq(Pointer) /\ Len(roots) = 0 /\ stack \in Seq(Frame) /\ DOMAIN stack = {}
            BY <1>1, EmptySeq
        <2> QED
            BY <1>1, <2>1, <2>2, HeapFacts, SizeAssumption DEF Init, Types
    <1>4. InOrder
        BY <1>1, <1>2, HeapFacts DEF CalmShape, InOrder, Init, heap_end
    <1>5. Identities
        <2>1. RoomFor({}, 0)
            BY HeapFacts, FS_EmptySet, MaxObjectsAssumption DEF RoomFor
        <2> QED
            BY <1>1, <1>2, <2>1 DEF Identities, CalmShape, Init
    <1>6. DOMAIN roots = {}
        BY <1>1
    <1>7. References
        BY <1>1, <1>2, <1>6 DEF CalmShape, PlainReferences
    <1>8. Marks /\ OnlyLive
        BY <1>1 DEF Marks, OnlyLive, Marking
    <1> QED
        BY <1>2, <1>3, <1>4, <1>5, <1>7, <1>8 DEF Inv, CalmShape

LEMMA AddRootStep ==
    ASSUME Inv, AddRoot PROVE Inv'
    <1>1. /\ pc = "run" /\ pc' = "run" /\ Len(roots) < MAX_ROOTS
          /\ UNCHANGED <<object, next_free_offset, pc, request, ri, stack, scan, new_address>>
        BY DEF AddRoot, walk
    <1>2. PICK p \in Objects : roots' = Append(roots, p)
        BY DEF AddRoot
    <1>3. Types /\ InOrder /\ Identities /\ CalmShape /\ PlainReferences /\ stack = <<>>
          /\ \A a \in Objects : ~object[a].marked
        BY <1>1, InvFacts, RestFacts
    <1>4. roots \in Seq(Pointer) /\ p \in Pointer /\ Len(roots) \in Nat /\ MAX_ROOTS \in Nat
        BY <1>3, CellFacts, HeapFacts, EndFacts, SizeAssumption DEF Types
    <1>5. /\ roots' \in Seq(Pointer) /\ Len(roots') = Len(roots) + 1
          /\ \A i \in 1..Len(roots) : roots'[i] = roots[i]
          /\ roots'[Len(roots) + 1] = p
        BY <1>2, <1>4, AppendProperties
    <1>6. DOMAIN roots' = 1..(Len(roots) + 1) /\ DOMAIN roots = 1..Len(roots)
        BY <1>4, <1>5, LenProperties
    <1>7. Objects' = Objects /\ ~Moving /\ ~Moving'
        BY <1>1 DEF Objects, Moving
    <1>8. Types' /\ InOrder' /\ Identities'
        <2>1. \A a \in Objects : object'[a] \in Cell /\ object'[a] = object[a]
            BY <1>1, <1>3, CellFacts
        <2>2. Len(roots') <= MAX_ROOTS
            BY <1>1, <1>4, <1>5
        <2>3. /\ request' \in Class \cup {NoRequest} /\ ri' \in 1..(MAX_ROOTS + 1)
              /\ stack' \in Seq(Frame) /\ \A j \in DOMAIN stack' : stack'[j].obj \in Objects
              /\ scan' \in Address /\ new_address' \in Address
            BY <1>1, <1>3 DEF Types
        <2> QED
            BY <1>1, <1>3, <1>5, <1>7, <2>1, <2>2, <2>3, SameLayout
    <1>9. PlainReferences'
        <2>1. \A i \in DOMAIN roots' : roots'[i] \in Objects
            BY <1>3, <1>4, <1>5, <1>6 DEF PlainReferences
        <2> QED
            BY <1>1, <1>3, <1>7, <2>1 DEF PlainReferences
    <1>10. Base'
        BY <1>1, <1>3, <1>7, <1>8, <1>9, RestStep
    <1>11. OnlyLive'
        BY <1>1 DEF OnlyLive, Marking
    <1> QED
        BY <1>10, <1>11 DEF Base, Inv

LEMMA RestoreRootsStep ==
    ASSUME Inv, RestoreRoots PROVE Inv'
    <1>1. /\ pc = "run" /\ pc' = "run"
          /\ UNCHANGED <<object, next_free_offset, pc, request, ri, stack, scan, new_address>>
        BY DEF RestoreRoots, walk
    <1>2. PICK k \in 0..Len(roots) : roots' = SubSeq(roots, 1, k)
        BY DEF RestoreRoots
    <1>3. Types /\ InOrder /\ Identities /\ CalmShape /\ PlainReferences /\ stack = <<>>
          /\ \A a \in Objects : ~object[a].marked
        BY <1>1, InvFacts, RestFacts
    <1>4. roots \in Seq(Pointer) /\ Len(roots) \in Nat /\ MAX_ROOTS \in Nat /\ Len(roots) <= MAX_ROOTS
        BY <1>3, EndFacts, SizeAssumption DEF Types
    <1>5. /\ roots' \in Seq(Pointer) /\ Len(roots') = k
          /\ \A i \in 1..k : roots'[i] = roots[i]
        <2>1. k \in Nat /\ k <= Len(roots) /\ \A j \in 1..k : roots[j] \in Pointer
            BY <1>2, <1>3, <1>4, EndFacts
        <2>2. /\ SubSeq(roots, 1, k) \in Seq(Pointer)
              /\ Len(SubSeq(roots, 1, k)) = (IF 1 <= k THEN k - 1 + 1 ELSE 0)
              /\ \A j \in 1..(k - 1 + 1) : SubSeq(roots, 1, k)[j] = roots[1 + j - 1]
            BY <2>1, SubSeqProperties
        <2> QED
            BY <1>2, <2>1, <2>2
    <1>6. DOMAIN roots' = 1..k /\ DOMAIN roots = 1..Len(roots)
        BY <1>4, <1>5, LenProperties
    <1>7. Objects' = Objects /\ ~Moving /\ ~Moving'
        BY <1>1 DEF Objects, Moving
    <1>8. Types' /\ InOrder' /\ Identities'
        <2>1. \A a \in Objects : object'[a] \in Cell /\ object'[a] = object[a]
            BY <1>1, <1>3, CellFacts
        <2>2. Len(roots') <= MAX_ROOTS
            BY <1>2, <1>4, <1>5
        <2>3. /\ request' \in Class \cup {NoRequest} /\ ri' \in 1..(MAX_ROOTS + 1)
              /\ stack' \in Seq(Frame) /\ \A j \in DOMAIN stack' : stack'[j].obj \in Objects
              /\ scan' \in Address /\ new_address' \in Address
            BY <1>1, <1>3 DEF Types
        <2> QED
            BY <1>1, <1>3, <1>5, <1>7, <2>1, <2>2, <2>3, SameLayout
    <1>9. PlainReferences'
        <2>1. \A i \in DOMAIN roots' : roots'[i] \in Objects
            BY <1>2, <1>3, <1>4, <1>5, <1>6 DEF PlainReferences
        <2> QED
            BY <1>1, <1>3, <1>7, <2>1 DEF PlainReferences
    <1>10. Base'
        BY <1>1, <1>3, <1>7, <1>8, <1>9, RestStep
    <1>11. OnlyLive'
        BY <1>1 DEF OnlyLive, Marking
    <1> QED
        BY <1>10, <1>11 DEF Base, Inv

\* A step that assigns one cell of the memory.
LEMMA CellChange ==
    ASSUME Types, NEW p \in Objects, NEW c \in Cell, c.clss = object[p].clss, c.id = object[p].id,
           Objects' = Objects, object'[p] = c,
           \A a \in Objects \ {p} : object'[a] = object[a]
    PROVE  \A a \in Objects : /\ object'[a] \in Cell
                              /\ object'[a].clss = object[a].clss
                              /\ object'[a].id = object[a].id
    BY CellFacts

LEMMA WriteStep ==
    ASSUME Inv, Write PROVE Inv'
    <1>1. /\ pc = "run" /\ pc' = "run"
          /\ UNCHANGED <<next_free_offset, roots, pc, request, ri, stack, scan, new_address>>
        BY DEF Write, walk
    <1>0. PICK o \in Objects, p \in Objects \cup {Nil} :
            \E i \in DOMAIN object[o].field : object' = [object EXCEPT ![o].field[i] = p]
        BY DEF Write
    <1>2. PICK i \in DOMAIN object[o].field : object' = [object EXCEPT ![o].field[i] = p]
        BY <1>0
    <1>3. Types /\ InOrder /\ Identities /\ CalmShape /\ PlainReferences /\ stack = <<>>
          /\ \A a \in Objects : ~object[a].marked
        BY <1>1, InvFacts, RestFacts
    <1>4. PICK f : f = [object[o].field EXCEPT ![i] = p]
        OBVIOUS
    <1>5. PICK c : c = [object[o] EXCEPT !.field = f]
        OBVIOUS
    <1>6. object' = [object EXCEPT ![o] = c]
        BY <1>2, <1>4, <1>5
    <1>7. /\ c \in Cell /\ c.field = f /\ c.clss = object[o].clss /\ c.marked = object[o].marked
          /\ c.id = object[o].id
        <2>1. p \in Pointer
            BY <1>3, CellFacts, HeapFacts
        <2>2. f \in [1..object[o].clss.num_fields -> Pointer]
            BY <1>3, <1>4, <2>1, CellFacts
        <2>3. object[o] \in Cell
            BY <1>3, CellFacts
        <2> QED
            BY <1>5, <2>2, <2>3, CellUpdates
    <1>8. /\ Objects' = Objects /\ object'[o] = c
          /\ \A a \in Objects \ {o} : object'[a] = object[a]
        BY <1>6 DEF Objects
    <1>9. ~Moving /\ ~Moving'
        BY <1>1 DEF Moving
    <1>10. Types' /\ InOrder' /\ Identities'
        <2>1. \A a \in Objects : /\ object'[a] \in Cell
                                 /\ object'[a].clss = object[a].clss
                                 /\ object'[a].id = object[a].id
            BY <1>3, <1>7, <1>8, CellChange
        <2>2. /\ request' \in Class \cup {NoRequest} /\ ri' \in 1..(MAX_ROOTS + 1)
              /\ stack' \in Seq(Frame) /\ \A j \in DOMAIN stack' : stack'[j].obj \in Objects
              /\ scan' \in Address /\ new_address' \in Address
              /\ roots' \in Seq(Pointer) /\ Len(roots') <= MAX_ROOTS
            BY <1>1, <1>3 DEF Types
        <2> QED
            BY <1>1, <1>3, <1>8, <1>9, <2>1, <2>2, SameLayout
    <1>11. PlainReferences'
        <2>1. \A a \in Objects : \A j \in DOMAIN object[a].field : object[a].field[j] \in Objects \cup {Nil}
            BY <1>3 DEF PlainReferences
        <2>2. \A j \in DOMAIN f : f[j] \in Objects \cup {Nil}
            BY <1>4, <2>1
        <2>3. \A a \in Objects : \A j \in DOMAIN object'[a].field : object'[a].field[j] \in Objects \cup {Nil}
            BY <1>7, <1>8, <2>1, <2>2
        <2> QED
            BY <1>1, <1>3, <1>8, <2>3 DEF PlainReferences
    <1>12. \A a \in Objects' : ~object'[a].marked
        BY <1>3, <1>7, <1>8
    <1>13. Base'
        BY <1>1, <1>3, <1>10, <1>11, <1>12, RestStep
    <1>14. OnlyLive'
        BY <1>1 DEF OnlyLive, Marking
    <1> QED
        BY <1>13, <1>14 DEF Base, Inv

\* gc() begins, with nothing marked.
LEMMA StartStep ==
    ASSUME Inv, pc = "run", NEW clss \in Class \cup {NoRequest}, StartGC(clss),
           UNCHANGED <<object, next_free_offset, roots, stack, scan, new_address>>
    PROVE  Inv'
    <1>1. pc' = "mark" /\ request' = clss /\ ri' = 1
        BY DEF StartGC
    <1>2. Types /\ InOrder /\ Identities /\ CalmShape /\ PlainReferences /\ stack = <<>>
          /\ \A a \in Objects : ~object[a].marked
        BY InvFacts, RestFacts
    <1>3. Objects' = Objects /\ ~Moving /\ ~Moving' /\ Calm'
        BY <1>1 DEF Objects, Moving, Calm
    <1>4. Types' /\ InOrder' /\ Identities'
        <2>1. \A a \in Objects : object'[a] \in Cell /\ object'[a] = object[a]
            BY <1>2, CellFacts
        <2>2. ri' \in 1..(MAX_ROOTS + 1)
            BY <1>1, SizeAssumption
        <2>3. /\ stack' \in Seq(Frame) /\ \A j \in DOMAIN stack' : stack'[j].obj \in Objects
              /\ scan' \in Address /\ new_address' \in Address
              /\ roots' \in Seq(Pointer) /\ Len(roots') <= MAX_ROOTS
            BY <1>2 DEF Types
        <2> QED
            BY <1>1, <1>2, <1>3, <2>1, <2>2, <2>3, SameLayout
    <1>5. References' /\ Places' /\ Sliding'
        <2>1. PlainReferences'
            BY <1>2, <1>3 DEF PlainReferences
        <2> QED
            BY <1>3, <2>1, CalmFactsNext DEF CalmShape
    <1>6. Marked' = {}
        BY <1>2 DEF Marked, Objects
    <1>7. Marks'
        <2>1. \A i \in DOMAIN roots : i >= 1
            BY <1>2, EndFacts
        <2>2. DOMAIN stack' = {}
            BY <1>2
        <2>3. DOMAIN roots' = DOMAIN roots
            OBVIOUS
        <2>4. \A i \in DOMAIN roots' : ~(i < ri')
            BY <1>1, <1>2, <2>3, EndFacts
        <2> QED
            BY <1>1, <1>6, <2>2, <2>4 DEF Marks, Marking
    <1>8. OnlyLive'
        BY <1>1, <1>6 DEF OnlyLive, Marking
    <1> QED
        BY <1>4, <1>5, <1>7, <1>8 DEF Inv

\* The use of sizes and identities: where a new object fits, an identity is free.
LEMMA RoomForOneMore ==
    ASSUME NEW S, IsFiniteSet(S), NEW x, x \notin S, NEW n \in Nat, RoomFor(S, n), NEW c \in Class
    PROVE  RoomFor(S \cup {x}, n + c.size)
    <1> DEFINE k == Cardinality(S)
               h == heap_size
               m == MaxObjects + 1
               s == c.size
    <1>1. k \in Nat /\ Cardinality(S \cup {x}) = k + 1
        BY FS_AddElement, FS_CardinalityType
    <1>2. h \in Nat /\ m \in Nat /\ s \in Nat /\ h < m * s /\ k * h <= m * n
        BY HeapFacts, MaxObjectsAssumption DEF RoomFor
    <1> HIDE DEF k, h, m, s
    <1>3. (k + 1) * h = k * h + h /\ m * (n + s) = m * n + m * s
        BY <1>1, <1>2, Z3
    <1>4. k * h \in Nat /\ m * n \in Nat /\ m * s \in Nat
        BY <1>1, <1>2, Z3
    <1>5. (k + 1) * h <= m * (n + s)
        BY <1>2, <1>3, <1>4
    <1> QED
        BY <1>1, <1>5 DEF RoomFor, k, h, m, s

LEMMA RoomIsBounded ==
    ASSUME NEW S, IsFiniteSet(S), NEW n \in Nat, RoomFor(S, n), NEW c \in Class, n + c.size <= heap_size
    PROVE  Cardinality(S) < MaxObjects
    <1> DEFINE k == Cardinality(S)
               h == heap_size
               m == MaxObjects + 1
               s == c.size
    <1>1. k \in Nat
        BY FS_CardinalityType
    <1>2. h \in Nat /\ m \in Nat /\ s \in Nat /\ h < m * s /\ k * h <= m * n /\ n + s <= h
        BY HeapFacts, MaxObjectsAssumption DEF RoomFor
    <1> HIDE DEF k, h, m, s
    <1>3. (k + 1) * h = k * h + h /\ m * (n + s) = m * n + m * s /\ m * (n + s) <= m * h
        BY <1>1, <1>2, Z3
    <1>4. k * h \in Nat /\ m * n \in Nat /\ m * s \in Nat /\ m * h \in Nat /\ (k + 1) * h \in Nat
        BY <1>1, <1>2, Z3
    <1>5. (k + 1) * h < m * h
        BY <1>2, <1>3, <1>4
    <1>6. SUFFICES ASSUME m <= k + 1 PROVE FALSE
        BY <1>1, MaxObjectsAssumption DEF k, m
    <1>7. m * h <= (k + 1) * h
        BY <1>1, <1>2, <1>6, Z3
    <1> QED
        BY <1>4, <1>5, <1>7

LEMMA ObjectsFinite == Types => IsFiniteSet(Objects)
    <1> SUFFICES ASSUME Types PROVE IsFiniteSet(Objects)
        OBVIOUS
    <1>1. IsFiniteSet(Address)
        BY HeapFacts, FS_Interval DEF Address
    <1> QED
        BY <1>1, FS_Subset DEF Types

LEMMA IdentityIsFree ==
    ASSUME Types, Identities, ~Moving, NEW clss \in Class, Fits(clss)
    PROVE  FreeIdentity \in Identity /\ \A a \in Objects : object[a].id # FreeIdentity
    <1> DEFINE used == {object[a].id : a \in Objects}
    <1>1. Cardinality(Objects) < MaxObjects /\ Cardinality(Objects) \in Nat
        <2>1. RoomFor(Objects, next_free_offset) /\ next_free_offset \in Nat
            BY EndFacts DEF Identities
        <2> QED
            BY <2>1, ObjectsFinite, RoomIsBounded, FS_CardinalityType DEF Fits
    <1>2. IsFiniteSet(used) /\ Cardinality(used) <= Cardinality(Objects)
        <2> DEFINE f == [a \in Objects |-> object[a].id]
        <2>1. f \in [Objects -> used] /\ \A i \in used : \E a \in Objects : f[a] = i
            OBVIOUS
        <2>2. f \in Surjection(Objects, used)
            BY <2>1 DEF Surjection
        <2> QED
            BY <2>2, ObjectsFinite, FS_Surjection
    <1>3. Cardinality(Identity) = MaxObjects /\ IsFiniteSet(Identity)
        BY FS_Interval, MaxObjectsAssumption DEF Identity
    <1>5. used \subseteq Identity
        BY CellFacts
    <1> HIDE DEF used
    <1>4. used # Identity
        BY <1>1, <1>2, <1>3, MaxObjectsAssumption
    <1>6. PICK i \in Identity : i \notin used
        BY <1>4, <1>5
    <1> QED
        BY <1>6 DEF FreeIdentity, used

\* The new object lies behind the others.
LEMMA PlaceMemory ==
    ASSUME Types, InOrder, Identities, ~Moving, NEW clss \in Class, Fits(clss), Place(clss),
           NEW n, n = heap_end
    PROVE  /\ n \in Nat /\ n \in Address /\ n \notin Objects
           /\ n + clss.size \in Nat /\ n + clss.size <= heap + heap_size
           /\ Objects' = Objects \cup {n} /\ heap_end' = n + clss.size
           /\ \A a \in Objects : object'[a] = object[a] /\ a + Size(a) <= n /\ a < n
           /\ object'[n] \in Cell
           /\ object'[n].clss = clss /\ object'[n].field = NullFields(clss.num_fields)
           /\ object'[n].marked = FALSE /\ object'[n].id = FreeIdentity
    <1>1. n \in Nat /\ n \in Address /\ n = heap + next_free_offset /\ next_free_offset \in Nat
        BY EndFacts
    <1>2. n \notin Objects /\ \A a \in Objects : a < n
        <2>1. \A a \in Objects : a < heap_end /\ a \in Nat
            BY CellFacts DEF InOrder, Standing
        <2> QED
            BY <1>1, <2>1
    <1>3. clss.size \in Nat /\ clss.num_fields \in Nat /\ heap = 1 /\ heap_size \in Nat
        BY HeapFacts
    <1>4. n + clss.size \in Nat /\ n + clss.size <= heap + heap_size
        BY <1>1, <1>3 DEF Fits
    <1>5. object' = [a \in Objects \cup {n} |->
                        IF a = n
                        THEN [clss |-> clss, field |-> NullFields(clss.num_fields),
                              marked |-> FALSE, forwarding |-> Nil, id |-> FreeIdentity]
                        ELSE object[a]]
        BY DEF Place
    <1>6. /\ Objects' = Objects \cup {n}
          /\ \A a \in Objects : object'[a] = object[a]
          /\ object'[n] = [clss |-> clss, field |-> NullFields(clss.num_fields),
                           marked |-> FALSE, forwarding |-> Nil, id |-> FreeIdentity]
        BY <1>2, <1>5 DEF Objects
    <1>7. object'[n] \in Cell
        <2>1. NullFields(clss.num_fields) \in [1..clss.num_fields -> Pointer] /\ Nil \in Pointer
            BY HeapFacts DEF NullFields
        <2>2. FreeIdentity \in Identity
            BY IdentityIsFree
        <2>3. object'[n] \in [clss : {clss}, field : [1..clss.num_fields -> Pointer], marked : BOOLEAN,
                              forwarding : Pointer, id : Identity]
            BY <1>6, <2>1, <2>2
        <2> QED
            BY <2>3 DEF Cell
    <1>8. \A a \in Objects : a + Size(a) <= n
        <2>1. \A a \in Objects : a + Size(a) \in Objects \cup {heap_end}
            BY NotMovingFacts DEF InOrder
        <2> QED
            BY <1>1, <1>2, <2>1, CellFacts
    <1>9. heap_end' = n + clss.size
        <2>1. next_free_offset' = next_free_offset + clss.size
            BY DEF Place
        <2> QED
            BY <1>1, <1>3, <2>1 DEF heap_end
    <1> QED
        BY <1>1, <1>2, <1>4, <1>6, <1>7, <1>8, <1>9

LEMMA PlaceStep ==
    ASSUME Inv, pc \in {"run", "alloc"}, NEW clss \in Class, Fits(clss), Place(clss),
           pc' = "run", request' \in Class \cup {NoRequest},
           UNCHANGED <<roots, stack, ri, scan, new_address>>
    PROVE  Inv'
    <1>1. Types /\ InOrder /\ Identities /\ CalmShape /\ PlainReferences /\ stack = <<>>
          /\ \A a \in Objects : ~object[a].marked
        BY InvFacts, RestFacts
    <1>2. ~Moving /\ ~Moving' /\ Standing = Objects /\ Present = Objects
        BY <1>1 DEF Moving, CalmShape
    <1>3. Standing' = Objects' /\ Present' = Objects'
        BY <1>2 DEF Standing, Present
    <1>4. PICK n : n = heap_end
        OBVIOUS
    <1>5. /\ n \in Nat /\ n \in Address /\ n \notin Objects
          /\ n + clss.size \in Nat /\ n + clss.size <= heap + heap_size
          /\ Objects' = Objects \cup {n} /\ heap_end' = n + clss.size
          /\ \A a \in Objects : object'[a] = object[a] /\ a + Size(a) <= n /\ a < n
          /\ object'[n] \in Cell
          /\ object'[n].clss = clss /\ object'[n].field = NullFields(clss.num_fields)
          /\ object'[n].marked = FALSE /\ object'[n].id = FreeIdentity
        BY <1>1, <1>2, <1>4, PlaceMemory
    <1>6. (\A a \in Objects : Size(a)' = Size(a)) /\ Size(n)' = clss.size
        BY <1>5 DEF Size
    <1>7. clss.size \in Nat /\ clss.size > 0 /\ heap = 1 /\ heap_size \in Nat
          /\ next_free_offset \in Nat /\ n = heap + next_free_offset
        BY <1>1, <1>4, HeapFacts, EndFacts
    <1>8. Types'
        <2>1. \A a \in Objects' : object'[a] \in Cell /\ a + Size(a)' <= heap + heap_size
            <3>1. \A a \in Objects : object[a] \in Cell /\ a + Size(a) <= heap + heap_size
                BY <1>1 DEF Types
            <3> QED
                BY <1>5, <1>6, <3>1
        <2>2. Objects' \subseteq Address
            BY <1>1, <1>5 DEF Types
        <2>3. next_free_offset' \in 0..heap_size
            BY <1>7 DEF Place, Fits
        <2>4. \A j \in DOMAIN stack' : stack'[j].obj \in Objects'
            BY <1>1
        <2> QED
            BY <1>1, <2>1, <2>2, <2>3, <2>4 DEF Types
    <1>9. InOrder'
        <2>1. heap \in Objects \cup {n}
            BY <1>1, <1>2, <1>4 DEF InOrder
        <2>2. \A a \in Objects : a + Size(a) \in Objects \cup {n}
            BY <1>1, <1>2, <1>4 DEF InOrder
        <2>3. \A a \in Objects' : a + Size(a)' \in Objects' \cup {heap_end'}
            BY <1>5, <1>6, <2>2
        <2>4. \A a \in Objects' : a < heap_end'
            BY <1>1, <1>5, <1>7, CellFacts
        <2>5. ASSUME NEW a \in Objects', NEW b \in Objects', a < b PROVE a + Size(a)' <= b
            <3>1. CASE a \in Objects /\ b \in Objects
                BY <1>1, <1>2, <1>6, <2>5, <3>1 DEF InOrder
            <3>2. CASE a \in Objects /\ b = n
                BY <1>5, <1>6, <3>2
            <3>3. CASE a = n
                BY <1>1, <1>5, <2>5, <3>3, CellFacts
            <3> QED
                BY <1>5, <3>1, <3>2, <3>3
        <2> QED
            BY <1>2, <1>3, <1>5, <2>1, <2>3, <2>4, <2>5 DEF InOrder
    <1>10. Identities'
        <2>1. RoomFor(Objects \cup {n}, next_free_offset + clss.size)
            BY <1>1, <1>2, <1>5, <1>7, ObjectsFinite, RoomForOneMore DEF Identities
        <2>2. RoomFor(Objects, next_free_offset)'
            BY <1>5, <2>1 DEF Place, RoomFor
        <2>3. \A a \in Objects : object[a].id # FreeIdentity
            BY <1>1, <1>2, IdentityIsFree
        <2>4. ASSUME NEW a \in Objects', NEW b \in Objects', object'[a].id = object'[b].id
              PROVE  a = b
            <3>1. CASE a \in Objects /\ b \in Objects
                BY <1>1, <1>2, <1>5, <2>4, <3>1 DEF Identities
            <3>2. CASE a = n \/ b = n
                BY <1>5, <2>3, <2>4, <3>2
            <3> QED
                BY <1>5, <3>1, <3>2
        <2> QED
            BY <1>2, <1>3, <2>2, <2>4 DEF Identities
    <1>11. PlainReferences'
        <2>1. \A i \in DOMAIN object'[n].field : object'[n].field[i] = Nil
            BY <1>5 DEF NullFields
        <2> QED
            BY <1>1, <1>5, <2>1 DEF PlainReferences
    <1>12. \A a \in Objects' : ~object'[a].marked
        BY <1>1, <1>5
    <1>13. Base'
        BY <1>1, <1>8, <1>9, <1>10, <1>11, <1>12, RestStep
    <1>14. OnlyLive'
        BY DEF OnlyLive, Marking
    <1> QED
        BY <1>13, <1>14 DEF Base, Inv

--------------------------------------------------------------------------------
(* mark().                                                                 *)

\* While the client runs or mark() does, the graph changes with the references only.
LEMMA CalmGraph ==
    ASSUME Inv, Base', Calm, Calm' \/ pc' = "forward", UNCHANGED <<Objects, roots>>,
           \A a \in Objects : object'[a].id = object[a].id /\ object'[a].field = object[a].field
    PROVE  UNCHANGED <<allocated, field, root_ids>>
    <1>1. GraphIsSeen /\ ReferencesLead /\ GraphIsSeen'
        BY InvFacts, BaseNextFacts
    <1>2. /\ ~Moving /\ ~Moving'
          /\ \A a \in Objects : ~Rewritten(a) /\ ~Rewritten(a)'
          /\ \A i \in DOMAIN roots : ~RootRewritten(i) /\ ~RootRewritten(i)'
        BY DEF Calm, Moving, Rewritten, RootRewritten
    <1>3. UNCHANGED <<allocated, field>>
        BY <1>1, <1>2, StillGraph
    <1>4. root_ids' = root_ids
        BY <1>1, <1>2, StillRoots
    <1> QED
        BY <1>3, <1>4

\* The active call, and the ones it returns to.
LEMMA TopFacts ==
    ASSUME Inv, pc = "mark", stack # <<>>
    PROVE  /\ Len(stack) \in Nat \ {0} /\ DOMAIN stack = 1..Len(stack)
           /\ Top = stack[Len(stack)] /\ Top \in Frame
           /\ Top.obj \in Marked /\ Top.obj \in Objects /\ Top.i \in Nat \ {0}
           /\ Callers \in Seq(Frame) /\ DOMAIN Callers = 1..(Len(stack) - 1)
           /\ \A j \in 1..(Len(stack) - 1) : Callers[j] = stack[j]
    <1>1. stack \in Seq(Frame) /\ \A j \in DOMAIN stack : stack[j].obj \in Marked
        BY DEF Inv, Types, Marks, Marking
    <1>2. Len(stack) \in Nat \ {0} /\ DOMAIN stack = 1..Len(stack)
        BY <1>1, EmptySeq, LenProperties
    <1>3. Top = stack[Len(stack)] /\ Top \in Frame
        BY <1>1, <1>2, ElementOfSeq DEF Top
    <1>4. Top.obj \in Marked /\ Top.obj \in Objects /\ Top.i \in Nat \ {0}
        <2>1. Len(stack) \in DOMAIN stack
            BY <1>2
        <2>2. Top.obj \in Marked
            BY <1>1, <1>3, <2>1
        <2>3. Top.i \in Nat \ {0}
            BY <1>3 DEF Frame
        <2> QED
            BY <2>2, <2>3 DEF Marked
    <1>5. /\ Callers \in Seq(Frame) /\ Len(Callers) = Len(stack) - 1
          /\ \A j \in 1..(Len(stack) - 1) : Callers[j] = stack[j]
        <2> DEFINE n == Len(stack) - 1
        <2>1. n \in Nat /\ n <= Len(stack)
            BY <1>2
        <2>2. \A j \in 1..n : stack[j] \in Frame
            BY <1>1, <1>2, <2>1, ElementOfSeq
        <2> HIDE DEF n
        <2>3. /\ SubSeq(stack, 1, n) \in Seq(Frame)
              /\ Len(SubSeq(stack, 1, n)) = (IF 1 <= n THEN n - 1 + 1 ELSE 0)
              /\ \A j \in 1..(n - 1 + 1) : SubSeq(stack, 1, n)[j] = stack[1 + j - 1]
            BY <2>1, <2>2, SubSeqProperties
        <2>4. Len(SubSeq(stack, 1, n)) = n /\ \A j \in 1..n : SubSeq(stack, 1, n)[j] = stack[j]
            BY <2>1, <2>3
        <2> QED
            BY <2>3, <2>4 DEF Callers, n
    <1>6. DOMAIN Callers = 1..(Len(stack) - 1)
        BY <1>5, LenProperties
    <1> QED
        BY <1>2, <1>3, <1>4, <1>5, <1>6

\* The references of marked objects that are not marked are ahead of a call in fs, but
\* for p, the one being followed.
Ahead(p, fs) ==
    /\ \A j \in DOMAIN fs : fs[j].obj \in Marked
    /\ \A a \in Marked : \A i \in DOMAIN object[a].field :
          LET q == object[a].field[i] IN
          \/ q \in Marked \cup {Nil, p}
          \/ \E j \in DOMAIN fs : fs[j].obj = a /\ fs[j].i <= i

\* What a call of mark() does to memory and stack.
LEMMA CallEffect ==
    ASSUME Types, NEW p \in Objects \cup {Nil}, NEW fs \in Seq(Frame), Ahead(p, fs), Call(p, fs)
    PROVE  /\ Objects' = Objects /\ Marked' = Marked \cup ({p} \ {Nil})
           /\ \A a \in Objects : /\ object'[a] \in Cell
                                 /\ object'[a].clss = object[a].clss
                                 /\ object'[a].id = object[a].id
                                 /\ object'[a].field = object[a].field
           /\ stack' \in Seq(Frame) /\ \A j \in DOMAIN stack' : stack'[j].obj \in Marked'
           /\ \A a \in Marked' : \A i \in DOMAIN object[a].field :
                 LET q == object[a].field[i] IN
                 \/ q = Nil \/ q \in Marked'
                 \/ \E j \in DOMAIN stack' : stack'[j].obj = a /\ stack'[j].i <= i
    <1>1. CASE p = Nil \/ (p \in Objects /\ object[p].marked)
        <2>1. object' = object /\ stack' = fs
            BY <1>1 DEF Call
        <2>2. Objects' = Objects /\ Marked' = Marked
            BY <2>1 DEF Objects, Marked
        <2>3. p = Nil \/ p \in Marked
            BY <1>1 DEF Marked
        <2>4. \A a \in Objects : object[a] \in Cell
            BY CellFacts
        <2> QED
            BY <2>1, <2>2, <2>3, <2>4 DEF Ahead
    <1>2. CASE p \in Objects /\ p # Nil /\ ~object[p].marked
        <2>1. PICK fr \in Frame : fr = [obj |-> p, i |-> 1]
            <3>1. p \in Nat
                BY <1>2, CellFacts
            <3>2. [obj |-> p, i |-> 1] \in Frame
                BY <3>1 DEF Frame
            <3> QED
                BY <3>2
        <2>2. PICK c : c = [object[p] EXCEPT !.marked = TRUE]
            OBVIOUS
        <2>3. object' = [object EXCEPT ![p] = c] /\ stack' = Append(fs, fr)
            BY <1>2, <2>1, <2>2 DEF Call
        <2>4. /\ c \in Cell /\ c.marked = TRUE /\ c.clss = object[p].clss
              /\ c.field = object[p].field /\ c.id = object[p].id
            <3>1. object[p] \in Cell
                BY <1>2, CellFacts
            <3> QED
                BY <2>2, <3>1, CellUpdates
        <2>5. /\ Objects' = Objects /\ object'[p] = c
              /\ \A a \in Objects \ {p} : object'[a] = object[a]
            BY <1>2, <2>3 DEF Objects
        <2>6. Marked' = Marked \cup {p}
            BY <1>2, <2>4, <2>5 DEF Marked
        <2>7. \A a \in Objects : /\ object'[a] \in Cell
                                 /\ object'[a].clss = object[a].clss
                                 /\ object'[a].id = object[a].id
                                 /\ object'[a].field = object[a].field
            BY <2>4, <2>5, CellFacts
        <2>8. PICK n \in Nat : n = Len(fs) /\ DOMAIN fs = 1..n
            BY LenProperties
        <2>9. /\ stack' \in Seq(Frame) /\ DOMAIN stack' = 1..(n + 1)
              /\ stack'[n + 1] = fr /\ \A j \in 1..n : stack'[j] = fs[j]
            <3>1. /\ stack' \in Seq(Frame) /\ Len(stack') = n + 1
                  /\ stack'[n + 1] = fr /\ \A j \in 1..n : stack'[j] = fs[j]
                BY <2>3, <2>8, AppendProperties
            <3> QED
                BY <3>1, LenProperties
        <2>10. ASSUME NEW j \in DOMAIN stack' PROVE stack'[j].obj \in Marked'
            <3>1. CASE j \in 1..n
                BY <2>6, <2>8, <2>9, <3>1 DEF Ahead
            <3>2. CASE j = n + 1
                BY <2>1, <2>6, <2>9, <3>2
            <3> QED
                BY <2>8, <2>9, <2>10, <3>1, <3>2
        <2>11. ASSUME NEW a \in Marked', NEW i \in DOMAIN object[a].field
               PROVE  LET q == object[a].field[i] IN
                      \/ q = Nil \/ q \in Marked'
                      \/ \E j \in DOMAIN stack' : stack'[j].obj = a /\ stack'[j].i <= i
            <3>1. CASE a = p
                <4>1. n + 1 \in DOMAIN stack' /\ stack'[n + 1].obj = a /\ stack'[n + 1].i = 1
                    BY <2>1, <2>8, <2>9, <3>1
                <4>2. 1 <= i
                    BY <1>2, <3>1, CellFacts
                <4> QED
                    BY <4>1, <4>2
            <3>2. CASE a \in Marked
                <4>1. \/ object[a].field[i] \in Marked \cup {Nil, p}
                      \/ \E j \in DOMAIN fs : fs[j].obj = a /\ fs[j].i <= i
                    BY <3>2 DEF Ahead
                <4>2. DOMAIN fs \subseteq DOMAIN stack'
                    BY <2>8, <2>9
                <4> QED
                    BY <2>6, <2>8, <2>9, <4>1, <4>2
            <3> QED
                BY <2>6, <3>1, <3>2
        <2>12. Marked' = Marked \cup ({p} \ {Nil})
            BY <1>2, <2>6
        <2> QED
            BY <2>5, <2>7, <2>9, <2>10, <2>11, <2>12
    <1> QED
        BY <1>1, <1>2

LEMMA CallStep ==
    ASSUME Inv, pc = "mark", NEW p \in Objects \cup {Nil}, NEW fs \in Seq(Frame), Ahead(p, fs),
           Call(p, fs), p # Nil => object[p].id \in Live,
           UNCHANGED <<next_free_offset, roots, pc, request, scan, new_address>>,
           ri' \in 1..(MAX_ROOTS + 1), \A i \in DOMAIN roots : i < ri' => roots[i] \in Marked \cup {p}
    PROVE  Inv' /\ UNCHANGED <<allocated, field, root_ids>>
    <1>1. Types /\ InOrder /\ Identities /\ References /\ OnlyLive
        BY InvFacts
    <1>2. Calm /\ Calm' /\ ~Moving /\ ~Moving' /\ pc' = "mark"
        BY DEF Calm, Moving
    <1>3. /\ Objects' = Objects /\ Marked' = Marked \cup ({p} \ {Nil})
          /\ \A a \in Objects : /\ object'[a] \in Cell
                                /\ object'[a].clss = object[a].clss
                                /\ object'[a].id = object[a].id
                                /\ object'[a].field = object[a].field
          /\ stack' \in Seq(Frame) /\ \A j \in DOMAIN stack' : stack'[j].obj \in Marked'
          /\ \A a \in Marked' : \A i \in DOMAIN object[a].field :
                LET q == object[a].field[i] IN
                \/ q = Nil \/ q \in Marked'
                \/ \E j \in DOMAIN stack' : stack'[j].obj = a /\ stack'[j].i <= i
        BY <1>1, CallEffect
    <1>4. Marked' \subseteq Objects
        BY <1>3 DEF Marked
    <1>5. Types' /\ InOrder' /\ Identities' /\ Sliding'
        <2>1. /\ roots' \in Seq(Pointer) /\ Len(roots') <= MAX_ROOTS
              /\ request' \in Class \cup {NoRequest} /\ scan' \in Address /\ new_address' \in Address
            BY <1>1 DEF Types
        <2>2. \A j \in DOMAIN stack' : stack'[j].obj \in Objects
            BY <1>3, <1>4
        <2> QED
            BY <1>1, <1>2, <1>3, <2>1, <2>2, SameLayout
    <1>6. PlainReferences
        BY <1>1, <1>2, CalmFacts DEF CalmShape
    <1>7. References' /\ Places'
        <2>1. PlainReferences'
            BY <1>3, <1>6 DEF PlainReferences
        <2> QED
            BY <1>2, <2>1, CalmFactsNext DEF CalmShape
    <1>8. Marks'
        <2>1. ASSUME NEW i \in DOMAIN roots', i < ri' PROVE roots'[i] \in Marked'
            <3>1. roots[i] \in Marked \cup {p} /\ roots[i] # Nil
                BY <1>1, <1>6, <2>1, CellFacts DEF PlainReferences
            <3> QED
                BY <1>3, <3>1
        <2>2. \A a \in Marked' : \A i \in DOMAIN object'[a].field :
                LET q == object'[a].field[i] IN
                \/ q = Nil \/ q \in Marked'
                \/ \E j \in DOMAIN stack' : stack'[j].obj = a /\ stack'[j].i <= i
            BY <1>3, <1>4
        <2> QED
            BY <1>2, <1>3, <2>1, <2>2 DEF Marks, Marking
    <1>9. Base'
        BY <1>5, <1>7, <1>8 DEF Base
    <1>10. UNCHANGED <<allocated, field, root_ids>>
        BY <1>2, <1>3, <1>9, CalmGraph
    <1>11. OnlyLive'
        <2>1. Live' = Live
            BY <1>10 DEF Live
        <2>2. \A a \in Marked : object[a].id \in Live
            BY <1>1 DEF OnlyLive, Marking
        <2>3. \A a \in Marked' : object'[a].id \in Live'
            BY <1>3, <1>4, <2>1, <2>2
        <2> QED
            BY <1>2, <2>3 DEF OnlyLive, Marking
    <1> QED
        BY <1>9, <1>10, <1>11 DEF Base, Inv

\* References found while marking lead from what is reachable to what is reachable.
LEMMA MarkLive ==
    ASSUME Inv, pc = "mark"
    PROVE  /\ PlainReferences
           /\ \A i \in DOMAIN roots : object[roots[i]].id \in Live
           /\ \A a \in Marked : \A i \in DOMAIN object[a].field :
                 object[a].field[i] # Nil => object[object[a].field[i]].id \in Live
    <1>1. GraphIsSeen /\ ReferencesLead /\ Types /\ OnlyLive
        BY InvFacts
    <1>2. CalmShape /\ PlainReferences
        BY CalmFacts, InvFacts DEF Calm, CalmShape
    <1>3. \A a \in Objects : a \in Targets(FALSE) /\ Where(a, FALSE) = a
        BY <1>2 DEF Targets, Where, CalmShape
    <1>4. ASSUME NEW i \in DOMAIN roots PROVE object[roots[i]].id \in Live
        <2>1. RootRewritten(i) = FALSE /\ roots[i] \in Objects
            <3>1. RootRewritten(i) \in BOOLEAN
                BY DEF RootRewritten, Moving
            <3> QED
                BY <1>2, <3>1 DEF CalmShape, PlainReferences
        <2> QED
            BY <1>1, <1>3, <2>1, LiveFacts
    <1>5. ASSUME NEW a \in Marked, NEW i \in DOMAIN object[a].field, object[a].field[i] # Nil
          PROVE  object[object[a].field[i]].id \in Live
        <2>1. a \in Objects /\ a \in Present /\ object[a].id \in Live
            BY <1>1, <1>2 DEF Marked, CalmShape, OnlyLive, Marking
        <2>2. Rewritten(a) = FALSE
            <3>1. Rewritten(a) \in BOOLEAN
                BY DEF Rewritten, Moving
            <3> QED
                BY <1>2, <2>1, <3>1 DEF CalmShape
        <2>3. object[a].field[i] \in Objects
            BY <1>2, <1>5, <2>1 DEF PlainReferences
        <2>4. \A k \in DOMAIN object[a].field : \A b \in Targets(FALSE) :
                    object[a].field[k] = Where(b, FALSE) => object[b].id \in Live
            BY <1>1, <2>1, <2>2, LiveFacts
        <2> QED
            BY <1>3, <2>3, <2>4
    <1> QED
        BY <1>2, <1>4, <1>5

LEMMA MarkRootStep ==
    ASSUME Inv, MarkRoot PROVE Inv' /\ UNCHANGED <<allocated, field, root_ids>>
    <1>1. /\ pc = "mark" /\ stack = <<>> /\ ri <= Len(roots) /\ Call(roots[ri], <<>>) /\ ri' = ri + 1
          /\ UNCHANGED <<next_free_offset, roots, pc, request, scan, new_address>>
        BY DEF MarkRoot
    <1>2. Types /\ Marks /\ Marking
        BY <1>1, InvFacts DEF Marking
    <1>3. ri \in DOMAIN roots /\ ri \in Nat /\ Len(roots) <= MAX_ROOTS /\ MAX_ROOTS \in Nat /\ Len(roots) \in Nat
          /\ \A i \in DOMAIN roots : i \in Nat
        BY <1>1, <1>2, EndFacts, SizeAssumption DEF Types
    <1>4. roots[ri] \in Objects /\ object[roots[ri]].id \in Live
        BY <1>1, <1>3, MarkLive DEF PlainReferences
    <1>5. <<>> \in Seq(Frame) /\ Ahead(roots[ri], <<>>)
        <2>1. DOMAIN stack = {}
            BY <1>1
        <2>2. \A a \in Marked : \A i \in DOMAIN object[a].field :
                object[a].field[i] \in Marked \cup {Nil}
            BY <1>2, <2>1 DEF Marks
        <2> QED
            BY <2>2, EmptySeq DEF Ahead
    <1>6. ri' \in 1..(MAX_ROOTS + 1)
        BY <1>1, <1>2, <1>3 DEF Types
    <1>7. \A i \in DOMAIN roots : i < ri' => roots[i] \in Marked \cup {roots[ri]}
        <2>1. \A i \in DOMAIN roots : i < ri' => i < ri \/ i = ri
            BY <1>1, <1>3
        <2> QED
            BY <1>2, <2>1 DEF Marks
    <1>8. PICK p \in Objects \cup {Nil} : p = roots[ri]
        BY <1>4
    <1> QED
        BY <1>1, <1>4, <1>5, <1>6, <1>7, <1>8, CallStep

LEMMA MarkFieldStep ==
    ASSUME Inv, MarkField PROVE Inv' /\ UNCHANGED <<allocated, field, root_ids>>
    <1> DEFINE t == Top.obj
               k == Top.i
               q == object[t].field[k]
               fr == [obj |-> t, i |-> k + 1]
               fs == Append(Callers, fr)
               d == Len(stack)
    <1>1. /\ pc = "mark" /\ stack # <<>> /\ k \in DOMAIN object[t].field /\ Call(q, fs)
          /\ UNCHANGED <<next_free_offset, roots, pc, request, ri, scan, new_address>>
        BY DEF MarkField
    <1>2. Types /\ Marks /\ Marking
        BY <1>1, InvFacts DEF Marking
    <1>3. /\ d \in Nat \ {0} /\ DOMAIN stack = 1..d /\ Top = stack[d]
          /\ t \in Marked /\ t \in Objects /\ k \in Nat \ {0}
          /\ Callers \in Seq(Frame) /\ DOMAIN Callers = 1..(d - 1)
          /\ \A j \in 1..(d - 1) : Callers[j] = stack[j]
        BY <1>1, TopFacts
    <1>4. stack[d].obj = t /\ stack[d].i = k
        BY <1>3
    <1>5. q \in Objects \cup {Nil} /\ (q # Nil => object[q].id \in Live)
        BY <1>1, <1>3, MarkLive DEF PlainReferences
    <1> HIDE DEF t, k, d, q
    <1>6. fr \in Frame /\ fr.obj = t /\ fr.i = k + 1
        <2>1. t \in Nat /\ k + 1 \in Nat \ {0}
            BY <1>2, <1>3, CellFacts
        <2> QED
            BY <2>1 DEF Frame
    <1> HIDE DEF fr
    <1>7. /\ fs \in Seq(Frame) /\ DOMAIN fs = 1..d
          /\ fs[d] = fr /\ \A j \in 1..(d - 1) : fs[j] = stack[j]
        <2>1. Len(Callers) = d - 1
            BY <1>3, LenProperties
        <2>2. /\ fs \in Seq(Frame) /\ Len(fs) = d
              /\ fs[d] = fr /\ \A j \in 1..(d - 1) : fs[j] = Callers[j]
            <3>1. Len(Callers) + 1 = d
                BY <1>3, <2>1
            <3> QED
                BY <1>3, <1>6, <2>1, <3>1, AppendProperties
        <2> QED
            BY <1>3, <2>2, LenProperties
    <1> HIDE DEF fs
    <1>8. Ahead(q, fs)
        <2>1. ASSUME NEW j \in DOMAIN fs PROVE fs[j].obj \in Marked
            <3>1. CASE j = d
                BY <1>3, <1>6, <1>7, <3>1
            <3>2. CASE j \in 1..(d - 1)
                <4>1. j \in DOMAIN stack
                    BY <1>3, <3>2
                <4> QED
                    BY <1>2, <1>7, <3>2, <4>1 DEF Marks
            <3> QED
                BY <1>3, <1>7, <3>1, <3>2
        <2>2. ASSUME NEW a \in Marked, NEW i \in DOMAIN object[a].field
              PROVE  \/ object[a].field[i] \in Marked \cup {Nil, q}
                     \/ \E j \in DOMAIN fs : fs[j].obj = a /\ fs[j].i <= i
            <3>1. CASE object[a].field[i] \in Marked \cup {Nil}
                BY <3>1
            <3>2. ASSUME NEW j \in DOMAIN stack, stack[j].obj = a, stack[j].i <= i
                  PROVE  \/ object[a].field[i] \in Marked \cup {Nil, q}
                         \/ \E x \in DOMAIN fs : fs[x].obj = a /\ fs[x].i <= i
                <4>1. CASE j \in 1..(d - 1)
                    <5>1. j \in DOMAIN fs /\ fs[j] = stack[j]
                        BY <1>3, <1>7, <4>1
                    <5> QED
                        BY <3>2, <5>1
                <4>2. CASE j = d /\ i = k
                    BY <1>4, <3>2, <4>2 DEF q
                <4>3. CASE j = d /\ i # k
                    <5>1. a = t /\ k <= i /\ i \in Nat
                        <6>1. a \in Objects
                            BY DEF Marked
                        <6> QED
                            BY <1>2, <1>4, <3>2, <4>3, <6>1, CellFacts
                    <5>2. k + 1 <= i
                        BY <1>3, <4>3, <5>1
                    <5>3. d \in DOMAIN fs /\ fs[d].obj = a /\ fs[d].i <= i
                        BY <1>3, <1>6, <1>7, <5>1, <5>2
                    <5> QED
                        BY <5>3
                <4> QED
                    BY <1>3, <4>1, <4>2, <4>3
            <3>3. \/ object[a].field[i] \in Marked \cup {Nil}
                  \/ \E j \in DOMAIN stack : stack[j].obj = a /\ stack[j].i <= i
                BY <1>2 DEF Marks
            <3> QED
                BY <3>1, <3>2, <3>3
        <2> QED
            BY <2>1, <2>2 DEF Ahead
    <1>9. ri' \in 1..(MAX_ROOTS + 1) /\ \A i \in DOMAIN roots : i < ri' => roots[i] \in Marked \cup {q}
        BY <1>1, <1>2 DEF Types, Marks
    <1>10. Call(q, fs)
        BY <1>1 DEF q, fs, fr, t, k
    <1>11. PICK qq \in Objects \cup {Nil}, ff \in Seq(Frame) : qq = q /\ ff = fs
        BY <1>5, <1>7
    <1> QED
        BY <1>1, <1>5, <1>8, <1>9, <1>10, <1>11, CallStep

LEMMA MarkReturnStep ==
    ASSUME Inv, MarkReturn PROVE Inv' /\ UNCHANGED <<allocated, field, root_ids>>
    <1> DEFINE t == Top.obj
               k == Top.i
               d == Len(stack)
    <1>1. /\ pc = "mark" /\ stack # <<>> /\ k \notin DOMAIN object[t].field /\ stack' = Callers
          /\ UNCHANGED <<object, next_free_offset, roots, pc, request, ri, scan, new_address>>
        BY DEF MarkReturn, memory
    <1>2. Types /\ Marks /\ Marking
        BY <1>1, InvFacts DEF Marking
    <1>3. /\ d \in Nat \ {0} /\ DOMAIN stack = 1..d /\ Top = stack[d]
          /\ t \in Marked /\ t \in Objects /\ k \in Nat \ {0}
          /\ Callers \in Seq(Frame) /\ DOMAIN Callers = 1..(d - 1)
          /\ \A j \in 1..(d - 1) : Callers[j] = stack[j]
        BY <1>1, TopFacts
    <1>4. stack[d].obj = t /\ stack[d].i = k
        BY <1>3
    <1> HIDE DEF t, k, d
    <1>5. \A i \in DOMAIN object[t].field : i < k
        <2>1. DOMAIN object[t].field = 1..object[t].clss.num_fields /\ object[t].clss.num_fields \in Nat
            BY <1>2, <1>3, CellFacts
        <2> QED
            BY <1>1, <1>3, <2>1
    <1>6. Ahead(Nil, Callers)
        <2>1. ASSUME NEW j \in DOMAIN Callers PROVE Callers[j].obj \in Marked
            <3>1. j \in DOMAIN stack /\ Callers[j] = stack[j]
                BY <1>3
            <3> QED
                BY <1>2, <3>1 DEF Marks
        <2>2. ASSUME NEW a \in Marked, NEW i \in DOMAIN object[a].field
              PROVE  \/ object[a].field[i] \in Marked \cup {Nil, Nil}
                     \/ \E j \in DOMAIN Callers : Callers[j].obj = a /\ Callers[j].i <= i
            <3>1. CASE object[a].field[i] \in Marked \cup {Nil}
                BY <3>1
            <3>2. ASSUME NEW j \in DOMAIN stack, stack[j].obj = a, stack[j].i <= i
                  PROVE  \E x \in DOMAIN Callers : Callers[x].obj = a /\ Callers[x].i <= i
                <4>1. j # d
                    <5> SUFFICES ASSUME j = d PROVE FALSE
                        OBVIOUS
                    <5>1. a = t /\ k <= i /\ i < k
                        BY <1>4, <1>5, <3>2
                    <5>2. i \in Nat
                        BY <1>2, <1>3, <5>1, CellFacts
                    <5> QED
                        BY <1>3, <5>1, <5>2
                <4>2. j \in DOMAIN Callers /\ Callers[j] = stack[j]
                    BY <1>3, <4>1
                <4> QED
                    BY <3>2, <4>2
            <3>3. \/ object[a].field[i] \in Marked \cup {Nil}
                  \/ \E j \in DOMAIN stack : stack[j].obj = a /\ stack[j].i <= i
                BY <1>2 DEF Marks
            <3> QED
                BY <3>1, <3>2, <3>3
        <2> QED
            BY <2>1, <2>2 DEF Ahead
    <1>7. ri' \in 1..(MAX_ROOTS + 1) /\ \A i \in DOMAIN roots : i < ri' => roots[i] \in Marked \cup {Nil}
        BY <1>1, <1>2 DEF Types, Marks
    <1>8. Call(Nil, Callers)
        BY <1>1 DEF Call
    <1>9. Nil \in Objects \cup {Nil}
        OBVIOUS
    <1> QED
        BY <1>1, <1>3, <1>6, <1>7, <1>8, <1>9, CallStep

\* mark() has reached everything: what is marked is closed under references.
LEMMA MarkDoneStep ==
    ASSUME Inv, MarkDone PROVE Inv' /\ UNCHANGED <<allocated, field, root_ids>>
    <1>1. /\ pc = "mark" /\ pc' = "forward" /\ stack = <<>> /\ ri > Len(roots)
          /\ scan' = heap /\ new_address' = heap
          /\ UNCHANGED <<object, next_free_offset, roots, request, ri, stack>>
        BY DEF MarkDone, memory
    <1>2. Types /\ InOrder /\ Identities /\ Marks /\ Marking /\ OnlyLive
        BY <1>1, InvFacts DEF Marking
    <1>3. CalmShape /\ PlainReferences
        BY <1>1, CalmFacts, InvFacts DEF Calm, CalmShape
    <1>4. /\ Objects' = Objects /\ Marked' = Marked /\ Calm /\ ~Moving /\ ~Moving'
          /\ Deciding' /\ Present' = Objects /\ Kept' = Marked /\ Forwarded' = {}
          /\ Marked \subseteq Objects
        <2>1. Objects' = Objects /\ Marked' = Marked /\ Calm /\ ~Moving /\ ~Moving' /\ Deciding'
            BY <1>1 DEF Objects, Marked, Calm, Moving, Deciding
        <2>2. Present' = Objects /\ Kept' = Marked /\ Marked \subseteq Objects
            BY <2>1 DEF Present, Kept, Marked
        <2>3. \A a \in Objects : ~(a < heap)
            BY <1>2, CellFacts, HeapFacts
        <2>4. Forwarded' = {a \in Marked : a < heap}
            BY <1>1, <2>1 DEF Forwarded
        <2> QED
            BY <2>1, <2>2, <2>3, <2>4
    <1>5. Types' /\ InOrder' /\ Identities' /\ Sliding'
        <2>1. \A a \in Objects : object'[a] \in Cell /\ object'[a] = object[a]
            BY <1>1, <1>2, CellFacts
        <2>2. heap \in Address /\ heap \in Objects \cup {heap_end}
            BY <1>2, <1>3, HeapFacts DEF InOrder, CalmShape
        <2>3. /\ roots' \in Seq(Pointer) /\ Len(roots') <= MAX_ROOTS
              /\ request' \in Class \cup {NoRequest} /\ ri' \in 1..(MAX_ROOTS + 1)
              /\ stack' \in Seq(Frame) /\ \A j \in DOMAIN stack' : stack'[j].obj \in Objects
            BY <1>1, <1>2 DEF Types
        <2> QED
            BY <1>1, <1>2, <1>4, <2>1, <2>2, <2>3, SameLayout
    <1>6. /\ \A a \in Marked : \A i \in DOMAIN object[a].field : object[a].field[i] \in Marked \cup {Nil}
          /\ \A i \in DOMAIN roots : roots[i] \in Marked
        <2>1. DOMAIN stack = {}
            BY <1>1
        <2>2. \A i \in DOMAIN roots : i < ri
            BY <1>1, <1>2, EndFacts DEF Types
        <2> QED
            BY <1>2, <2>1, <2>2 DEF Marks
    <1>7. References'
        <2>1. (\A a \in Objects : ~Rewritten(a)') /\ \A i \in DOMAIN roots : ~RootRewritten(i)'
            BY <1>1, <1>4 DEF Rewritten, RootRewritten
        <2>2. ASSUME NEW a \in Present', NEW i \in DOMAIN object'[a].field
              PROVE  \/ object'[a].field[i] = Nil
                     \/ \E b \in Present' : /\ object'[a].field[i] = Where(b, Rewritten(a))'
                                            /\ a \in Kept' => b \in Kept'
            <3>1. a \in Objects /\ object'[a] = object[a] /\ ~Rewritten(a)'
                BY <1>1, <1>4, <2>1, <2>2
            <3>2. object[a].field[i] \in Objects \cup {Nil} /\ (a \in Marked => object[a].field[i] \in Marked \cup {Nil})
                BY <1>3, <1>6, <3>1, <2>2 DEF PlainReferences
            <3>3. \A b \in Present' : Where(b, Rewritten(a))' = b
                BY <3>1 DEF Where
            <3> QED
                BY <1>4, <3>1, <3>2, <3>3
        <2>3. ASSUME NEW i \in DOMAIN roots'
              PROVE  \E b \in Kept' : roots'[i] = Where(b, RootRewritten(i))'
            <3>1. roots'[i] \in Kept' /\ ~RootRewritten(i)'
                BY <1>1, <1>4, <1>6, <2>1
            <3> QED
                BY <3>1 DEF Where
        <2> QED
            BY <2>2, <2>3 DEF References
    <1>8. Places'
        BY <1>1, <1>4, HeapFacts DEF Places
    <1>9. Marks'
        BY <1>1 DEF Marks, Marking
    <1>10. Base'
        BY <1>5, <1>7, <1>8, <1>9 DEF Base
    <1>11. UNCHANGED <<allocated, field, root_ids>>
        BY <1>1, <1>4, <1>10, CalmGraph
    <1>12. OnlyLive'
        <2>1. Live' = Live
            BY <1>11 DEF Live
        <2> QED
            BY <1>1, <1>2, <1>4, <2>1 DEF OnlyLive, Marking
    <1> QED
        BY <1>10, <1>11, <1>12 DEF Base, Inv

--------------------------------------------------------------------------------
(* set_forwarding().                                                       *)

\* While it is decided where the objects go, the marked ones are kept.
LEMMA DecidingFacts ==
    ASSUME Inv, Deciding
    PROVE  /\ ~Moving /\ ~Marking /\ ~Calm /\ stack = <<>>
           /\ Present = Objects /\ Standing = Objects /\ Kept = Marked /\ Marked \subseteq Objects
           /\ Forwarded = IF pc = "forward" THEN {a \in Marked : a < scan} ELSE Marked
    <1>1. ~Moving /\ ~Marking /\ ~Calm
        BY DEF Deciding, Moving, Marking, Calm
    <1>2. stack = <<>>
        BY <1>1, InvFacts DEF Marks
    <1>3. Present = Objects /\ Standing = Objects /\ Kept = Marked /\ Marked \subseteq Objects
        BY <1>1 DEF Present, Standing, Kept, Marked
    <1> QED
        BY <1>1, <1>2, <1>3 DEF Forwarded, Deciding

\* While set_forwarding() runs, all references are still the addresses of objects.
LEMMA ForwardReferences ==
    ASSUME Inv, pc = "forward"
    PROVE  /\ \A a \in Objects : ~Rewritten(a)
           /\ \A i \in DOMAIN roots : ~RootRewritten(i) /\ roots[i] \in Marked
           /\ \A a \in Objects : \A i \in DOMAIN object[a].field :
                 /\ object[a].field[i] \in Objects \cup {Nil}
                 /\ a \in Marked => object[a].field[i] \in Marked \cup {Nil}
    <1>1. ~Moving /\ Present = Objects /\ Kept = Marked
        BY DecidingFacts DEF Deciding
    <1>2. (\A a \in Objects : ~Rewritten(a)) /\ \A i \in DOMAIN roots : ~RootRewritten(i)
        BY <1>1 DEF Rewritten, RootRewritten
    <1>3. References
        BY InvFacts
    <1> QED
        BY <1>1, <1>2, <1>3 DEF References, Where

\* The three loops that come before move_obj() assign nothing that a reader of the heap
\* uses to find an object.
LEMMA DecidingStep ==
    ASSUME Inv, Deciding, pc' \in {"forward", "adjust roots", "adjust"},
           UNCHANGED <<Objects, next_free_offset, request, stack>>,
           \A a \in Objects : /\ object'[a] \in Cell
                              /\ object'[a].clss = object[a].clss
                              /\ object'[a].id = object[a].id
                              /\ object'[a].marked = object[a].marked,
           roots' \in Seq(Pointer), Len(roots') = Len(roots), ri' \in 1..(MAX_ROOTS + 1),
           scan' \in Address, new_address' \in Address,
           pc' \in {"forward", "adjust"} => scan' \in Objects \cup {heap_end}
    PROVE  /\ Types' /\ InOrder' /\ Identities' /\ Marks' /\ Sliding'
           /\ ~Moving' /\ Deciding' /\ Present' = Objects /\ Marked' = Marked /\ Kept' = Marked
           /\ \A a \in Objects : Size(a)' = Size(a)
           /\ heap_end' = heap_end
    <1>1. Types /\ InOrder /\ Identities /\ ~Moving /\ stack = <<>>
        BY InvFacts, DecidingFacts
    <1>2. ~Moving' /\ Deciding' /\ ~Marking'
        BY DEF Moving, Deciding, Marking
    <1>3. Types' /\ InOrder' /\ Identities' /\ Sliding'
        <2>1. /\ Len(roots') <= MAX_ROOTS /\ request' \in Class \cup {NoRequest}
              /\ stack' \in Seq(Frame) /\ \A j \in DOMAIN stack' : stack'[j].obj \in Objects
            BY <1>1 DEF Types
        <2> QED
            BY <1>1, <1>2, <2>1, SameLayout
    <1>4. Marked' = Marked
        BY DEF Marked
    <1>5. Marks'
        BY <1>1, <1>2 DEF Marks
    <1>6. Present' = Objects /\ Kept' = Marked
        BY <1>2, <1>4 DEF Present, Kept
    <1> QED
        BY <1>2, <1>3, <1>4, <1>5, <1>6 DEF Size, heap_end

LEMMA ForwardStep ==
    ASSUME Inv, Forward PROVE Inv' /\ UNCHANGED <<allocated, field, root_ids>>
    <1>0. PICK s : s = scan
        OBVIOUS
    <1>1. /\ pc = "forward" /\ pc' = "forward" /\ scan < heap_end /\ scan' = scan + Size(scan)
          /\ UNCHANGED <<next_free_offset, roots, request, ri, stack>>
        BY DEF Forward
    <1>2. Types /\ InOrder /\ References /\ OnlyLive /\ Places /\ Deciding
        BY <1>1, InvFacts DEF Deciding
    <1>3. /\ scan \in Objects /\ Size(scan) \in Nat /\ Size(scan) > 0
          /\ scan + Size(scan) \in Objects \cup {heap_end} /\ scan + Size(scan) \in Address
          /\ \A a \in Objects : a < scan + Size(scan) <=> a < scan \/ a = scan
        <2>1. Standing = Objects
            BY <1>2, DecidingFacts
        <2> QED
            BY <1>1, <1>2, <2>1, WalkStep
    <1>4. /\ new_address \in Nat /\ new_address \in Pointer /\ scan \in Nat /\ heap <= new_address
          /\ heap = 1 /\ heap_end \in Nat /\ new_address \in Address
        BY <1>2, EndFacts, HeapFacts DEF Types
    <1>5. /\ ~Moving /\ Present = Objects /\ Kept = Marked /\ Marked \subseteq Objects
          /\ Forwarded = {a \in Marked : a < scan} /\ new_address <= scan
        BY <1>1, <1>2, DecidingFacts DEF Places
    <1>6. /\ Objects' = Objects
          /\ \A a \in Objects : /\ object'[a] \in Cell
                                /\ object'[a].clss = object[a].clss
                                /\ object'[a].id = object[a].id
                                /\ object'[a].field = object[a].field
                                /\ object'[a].marked = object[a].marked
          /\ \A a \in Objects \ {scan} : Dest(a)' = Dest(a)
          /\ scan \in Marked => Dest(s)' = new_address /\ new_address' = new_address + Size(scan)
          /\ scan \notin Marked => new_address' = new_address
        <2>1. CASE object[scan].marked
            <3>1. PICK c : c = [object[scan] EXCEPT !.forwarding = new_address]
                OBVIOUS
            <3>2. object' = [object EXCEPT ![scan] = c] /\ new_address' = new_address + Size(scan)
                BY <2>1, <3>1 DEF Forward
            <3>3. /\ c \in Cell /\ c.forwarding = new_address /\ c.clss = object[scan].clss
                  /\ c.field = object[scan].field /\ c.marked = object[scan].marked /\ c.id = object[scan].id
                <4>1. object[scan] \in Cell
                    BY <1>2, <1>3, CellFacts
                <4> QED
                    BY <1>4, <3>1, <4>1, CellUpdates
            <3>4. Objects' = Objects /\ object'[scan] = c /\ \A a \in Objects \ {scan} : object'[a] = object[a]
                BY <1>3, <3>2 DEF Objects
            <3>5. scan \in Marked
                BY <1>3, <2>1 DEF Marked
            <3> QED
                BY <1>0, <1>2, <3>2, <3>3, <3>4, <3>5, CellFacts DEF Dest
        <2>2. CASE ~object[scan].marked
            <3>1. object' = object /\ new_address' = new_address
                BY <2>2 DEF Forward
            <3>2. Objects' = Objects /\ scan \notin Marked
                BY <2>2, <3>1 DEF Objects, Marked
            <3> QED
                BY <1>2, <3>1, <3>2, CellFacts DEF Dest
        <2> QED
            BY <2>1, <2>2
    <1>7. new_address' \in Nat /\ new_address' <= scan'
        BY <1>1, <1>3, <1>4, <1>5, <1>6
    <1>8. /\ Types' /\ InOrder' /\ Identities' /\ Marks' /\ Sliding'
          /\ ~Moving' /\ Deciding' /\ Present' = Objects /\ Marked' = Marked /\ Kept' = Marked
          /\ \A a \in Objects : Size(a)' = Size(a)
        <2>1. new_address' \in Address
            <3>1. heap <= new_address' /\ new_address' <= heap + heap_size
                BY <1>1, <1>3, <1>4, <1>6, <1>7, HeapFacts
            <3> QED
                BY <1>7, <3>1, HeapFacts
        <2>2. roots' \in Seq(Pointer) /\ Len(roots') = Len(roots) /\ ri' \in 1..(MAX_ROOTS + 1)
            BY <1>1, <1>2 DEF Types
        <2> QED
            BY <1>1, <1>2, <1>3, <1>6, <2>1, <2>2, DecidingStep
    <1>9. Forwarded' = Forwarded \cup ({scan} \cap Marked)
        <2>1. Forwarded' = {a \in Marked : a < scan'}
            BY <1>1, <1>8 DEF Forwarded
        <2> QED
            BY <1>1, <1>3, <1>5, <2>1
    <1>10. \A a \in Forwarded : a # scan /\ a \in Objects /\ a < scan /\ Dest(a)' = Dest(a) /\ Size(a)' = Size(a)
        BY <1>4, <1>5, <1>6, <1>8
    <1>11. Places'
        <2>1. \A a \in Forwarded : /\ heap <= Dest(a) /\ Dest(a) <= a
                                   /\ Dest(a) + Size(a) <= new_address
                                   /\ Dest(a) \in Nat /\ a \in Nat /\ Size(a) \in Nat
                                   /\ Dest(a) + Size(a) \in {Dest(b) : b \in Forwarded} \cup {new_address}
            BY <1>2, <1>10, CellFacts DEF Places
        <2>2. \A a, b \in Forwarded : a < b => Dest(a) + Size(a) <= Dest(b)
            BY <1>2 DEF Places
        <2>3. heap \in {Dest(b) : b \in Forwarded} \cup {new_address}
            BY <1>2 DEF Places
        <2>4. CASE scan \notin Marked
            <3>1. Forwarded' = Forwarded /\ new_address' = new_address
                BY <1>6, <1>9, <2>4
            <3>2. {Dest(b) : b \in Forwarded}' = {Dest(b) : b \in Forwarded}
                BY <1>10, <3>1
            <3>3. \A a \in Forwarded' : heap <= Dest(a)' /\ Dest(a)' <= a
                BY <1>10, <2>1, <3>1
            <3>4. \A a, b \in Forwarded' : a < b => Dest(a)' + Size(a)' <= Dest(b)'
                BY <1>10, <2>2, <3>1
            <3>5. \A a \in Forwarded' : /\ Dest(a)' + Size(a)' <= new_address'
                                        /\ Dest(a)' + Size(a)' \in {Dest(b) : b \in Forwarded}' \cup {new_address'}
                BY <1>10, <2>1, <3>1, <3>2
            <3> QED
                BY <1>1, <1>7, <2>3, <3>1, <3>2, <3>3, <3>4, <3>5 DEF Places
        <2>5. CASE scan \in Marked
            <3>1. /\ Forwarded' = Forwarded \cup {scan} /\ Dest(s)' = new_address
                  /\ new_address' = new_address + Size(scan) /\ Size(s)' = Size(scan)
                BY <1>0, <1>3, <1>6, <1>8, <1>9, <2>5
            <3>2. {Dest(b) : b \in Forwarded}' = {Dest(b) : b \in Forwarded} \cup {new_address}
                BY <1>0, <1>10, <3>1
            <3>3. \A a \in Forwarded' : heap <= Dest(a)' /\ Dest(a)' <= a
                BY <1>0, <1>4, <1>5, <1>10, <2>1, <3>1
            <3>4. ASSUME NEW a \in Forwarded', NEW b \in Forwarded', a < b
                  PROVE  Dest(a)' + Size(a)' <= Dest(b)'
                <4>1. CASE a \in Forwarded /\ b \in Forwarded
                    BY <1>10, <2>2, <3>4, <4>1
                <4>2. CASE a \in Forwarded /\ b = scan
                    BY <1>0, <1>10, <2>1, <3>1, <4>2
                <4>3. CASE a = scan
                    BY <1>4, <1>10, <2>1, <3>1, <3>4, <4>3
                <4> QED
                    BY <3>1, <4>1, <4>2, <4>3
            <3>5. ASSUME NEW a \in Forwarded'
                  PROVE  /\ Dest(a)' + Size(a)' <= new_address'
                         /\ Dest(a)' + Size(a)' \in {Dest(b) : b \in Forwarded}' \cup {new_address'}
                <4>1. CASE a \in Forwarded
                    BY <1>3, <1>4, <1>10, <2>1, <3>1, <3>2, <4>1
                <4>2. CASE a = scan
                    BY <1>0, <1>3, <1>4, <3>1, <4>2
                <4> QED
                    BY <3>1, <4>1, <4>2
            <3>6. heap \in {Dest(b) : b \in Forwarded}' \cup {new_address'}
                BY <2>3, <3>2
            <3> QED
                BY <1>1, <1>7, <3>3, <3>4, <3>5, <3>6 DEF Places
        <2> QED
            BY <2>4, <2>5
    <1>12. (\A a \in Objects : ~Rewritten(a)') /\ \A i \in DOMAIN roots : ~RootRewritten(i)'
        BY <1>1, <1>8 DEF Rewritten, RootRewritten
    <1>13. References'
        <2>1. ASSUME NEW a \in Present', NEW i \in DOMAIN object'[a].field
              PROVE  \/ object'[a].field[i] = Nil
                     \/ \E b \in Present' : /\ object'[a].field[i] = Where(b, Rewritten(a))'
                                            /\ a \in Kept' => b \in Kept'
            <3>1. a \in Objects /\ object'[a].field = object[a].field /\ ~Rewritten(a)'
                BY <1>6, <1>8, <1>12
            <3>2. \A b \in Present' : Where(b, Rewritten(a))' = b
                BY <3>1 DEF Where
            <3> QED
                BY <1>1, <1>5, <1>8, <2>1, <3>1, <3>2, ForwardReferences
        <2>2. ASSUME NEW i \in DOMAIN roots'
              PROVE  \E b \in Kept' : roots'[i] = Where(b, RootRewritten(i))'
            <3>1. roots'[i] \in Kept' /\ ~RootRewritten(i)'
                BY <1>1, <1>8, <1>12, ForwardReferences
            <3> QED
                BY <3>1 DEF Where
        <2> QED
            BY <2>1, <2>2 DEF References
    <1>14. Base'
        BY <1>8, <1>11, <1>13 DEF Base
    <1>15. UNCHANGED <<allocated, field, root_ids>>
        <2>1. GraphIsSeen /\ GraphIsSeen' /\ ReferencesLead
            BY <1>14, InvFacts, BaseNextFacts
        <2>2. (\A a \in Objects : ~Rewritten(a)) /\ \A i \in DOMAIN roots : ~RootRewritten(i)
            BY <1>1, ForwardReferences
        <2> QED
            BY <1>1, <1>5, <1>6, <1>8, <1>12, <2>1, <2>2, StillGraph, StillRoots
    <1>16. OnlyLive'
        <2>1. Live' = Live
            BY <1>15 DEF Live
        <2>2. \A a \in Marked : object[a].id \in Live
            BY <1>1, <1>2, <1>5 DEF OnlyLive
        <2> QED
            BY <1>1, <1>5, <1>6, <1>8, <2>1, <2>2 DEF OnlyLive, Marking
    <1> QED
        BY <1>14, <1>15, <1>16 DEF Base, Inv

LEMMA SamePlaces ==
    ASSUME Places, Deciding, Deciding', pc' # "forward", Forwarded' = Forwarded,
           \A a \in Forwarded : Dest(a)' = Dest(a) /\ Size(a)' = Size(a),
           new_address' = new_address, new_address <= heap_end'
    PROVE  Places'
    <1>1. {Dest(b) : b \in Forwarded}' = {Dest(b) : b \in Forwarded}
        OBVIOUS
    <1>2. /\ \A a \in Forwarded' : heap <= Dest(a)' /\ Dest(a)' <= a
          /\ \A a, b \in Forwarded' : a < b => Dest(a)' + Size(a)' <= Dest(b)'
        BY DEF Places
    <1>3. /\ heap \in {Dest(b) : b \in Forwarded}' \cup {new_address'}
          /\ \A a \in Forwarded' : /\ Dest(a)' + Size(a)' <= new_address'
                                   /\ Dest(a)' + Size(a)' \in {Dest(b) : b \in Forwarded}' \cup {new_address'}
        BY <1>1 DEF Places
    <1> QED
        BY <1>2, <1>3 DEF Places

\* set_forwarding() has been through the heap: every marked object has its new place.
LEMMA ForwardDoneStep ==
    ASSUME Inv, ForwardDone PROVE Inv' /\ UNCHANGED <<allocated, field, root_ids>>
    <1>1. /\ pc = "forward" /\ pc' = "adjust roots" /\ scan >= heap_end /\ ri' = 1
          /\ UNCHANGED <<object, next_free_offset, roots, request, stack, scan, new_address>>
        BY DEF ForwardDone, memory
    <1>2. Types /\ InOrder /\ References /\ OnlyLive /\ Places /\ Deciding
        BY <1>1, InvFacts DEF Deciding
    <1>3. /\ ~Moving /\ Present = Objects /\ Standing = Objects /\ Kept = Marked /\ Marked \subseteq Objects
          /\ Forwarded = {a \in Marked : a < scan}
        BY <1>1, <1>2, DecidingFacts
    <1>4. scan = heap_end /\ Forwarded = Marked /\ new_address <= heap_end
        <2>1. \A a \in Objects : a < heap_end /\ a \in Nat
            BY <1>2, <1>3, CellFacts DEF InOrder
        <2>2. scan = heap_end
            <3>1. scan \in Objects \cup {heap_end}
                BY <1>1, <1>2, <1>3 DEF InOrder
            <3>2. heap_end \in Nat
                BY <1>2, EndFacts
            <3>3. scan \in Nat
                BY <1>2, EndFacts
            <3>4. scan >= heap_end
                BY <1>1
            <3>5. ~(scan < heap_end)
                BY <3>2, <3>3, <3>4
            <3> QED
                BY <2>1, <3>1, <3>5
        <2> QED
            BY <1>1, <1>2, <1>3, <2>1, <2>2 DEF Places
    <1>5. Objects' = Objects /\ heap_end' = heap_end
        BY <1>1 DEF Objects, heap_end
    <1>6. /\ Types' /\ InOrder' /\ Identities' /\ Marks' /\ Sliding'
          /\ ~Moving' /\ Deciding' /\ Present' = Objects /\ Marked' = Marked /\ Kept' = Marked
          /\ \A a \in Objects : Size(a)' = Size(a)
        <2>1. \A a \in Objects : object'[a] \in Cell /\ object'[a] = object[a]
            BY <1>1, <1>2, CellFacts
        <2>2. ri' \in 1..(MAX_ROOTS + 1)
            <3>1. 1 \in 1..(MAX_ROOTS + 1)
                BY SizeAssumption
            <3> QED
                BY <1>1, <3>1
        <2>3. /\ roots' \in Seq(Pointer) /\ Len(roots') = Len(roots)
              /\ scan' \in Address /\ new_address' \in Address
            BY <1>1, <1>2 DEF Types
        <2> QED
            BY <1>1, <1>2, <1>5, <2>1, <2>2, <2>3, DecidingStep
    <1>7. Places'
        <2>1. Forwarded' = Forwarded
            BY <1>1, <1>4, <1>6 DEF Forwarded
        <2>2. \A a \in Forwarded : Dest(a)' = Dest(a) /\ Size(a)' = Size(a)
            BY <1>1, <1>3, <1>4, <1>6 DEF Dest
        <2> QED
            BY <1>1, <1>2, <1>4, <1>5, <1>6, <2>1, <2>2, SamePlaces
    <1>8. (\A a \in Objects : ~Rewritten(a)') /\ \A i \in DOMAIN roots : ~RootRewritten(i)'
        <2>1. \A i \in DOMAIN roots : ~(i < 1)
            BY <1>2, EndFacts
        <2> QED
            BY <1>1, <1>6, <2>1 DEF Rewritten, RootRewritten
    <1>9. References'
        <2>1. ASSUME NEW a \in Present', NEW i \in DOMAIN object'[a].field
              PROVE  \/ object'[a].field[i] = Nil
                     \/ \E b \in Present' : /\ object'[a].field[i] = Where(b, Rewritten(a))'
                                            /\ a \in Kept' => b \in Kept'
            <3>1. a \in Objects /\ object'[a].field = object[a].field /\ ~Rewritten(a)'
                BY <1>1, <1>6, <1>8
            <3>2. \A b \in Present' : Where(b, Rewritten(a))' = b
                BY <3>1 DEF Where
            <3> QED
                BY <1>1, <1>3, <1>6, <2>1, <3>1, <3>2, ForwardReferences
        <2>2. ASSUME NEW i \in DOMAIN roots'
              PROVE  \E b \in Kept' : roots'[i] = Where(b, RootRewritten(i))'
            <3>1. roots'[i] \in Kept' /\ ~RootRewritten(i)'
                BY <1>1, <1>6, <1>8, ForwardReferences
            <3> QED
                BY <3>1 DEF Where
        <2> QED
            BY <2>1, <2>2 DEF References
    <1>10. Base'
        BY <1>6, <1>7, <1>9 DEF Base
    <1>11. UNCHANGED <<allocated, field, root_ids>>
        <2>1. GraphIsSeen /\ GraphIsSeen' /\ ReferencesLead
            BY <1>10, InvFacts, BaseNextFacts
        <2>2. (\A a \in Objects : ~Rewritten(a)) /\ \A i \in DOMAIN roots : ~RootRewritten(i)
            BY <1>1, ForwardReferences
        <2> QED
            BY <1>1, <1>3, <1>5, <1>6, <1>8, <2>1, <2>2, StillGraph, StillRoots
    <1>12. OnlyLive'
        <2>1. Live' = Live
            BY <1>11 DEF Live
        <2> QED
            BY <1>1, <1>2, <1>3, <1>6, <2>1 DEF OnlyLive, Marking
    <1> QED
        BY <1>10, <1>11, <1>12 DEF Base, Inv

--------------------------------------------------------------------------------
(* adjust_ref().                                                           *)

\* The steps of adjust_ref() change no place and no mark.
LEMMA AdjustingStep ==
    ASSUME Inv, pc \in {"adjust roots", "adjust"}, pc' \in {"adjust roots", "adjust"},
           UNCHANGED <<Objects, next_free_offset, request, stack, new_address>>,
           \A a \in Objects : /\ object'[a] \in Cell
                              /\ object'[a].clss = object[a].clss
                              /\ object'[a].id = object[a].id
                              /\ object'[a].marked = object[a].marked
                              /\ object'[a].forwarding = object[a].forwarding,
           roots' \in Seq(Pointer), Len(roots') = Len(roots), ri' \in 1..(MAX_ROOTS + 1),
           scan' \in Address, pc' = "adjust" => scan' \in Objects \cup {heap_end}
    PROVE  /\ Types' /\ InOrder' /\ Identities' /\ Marks' /\ Sliding' /\ Places'
           /\ ~Moving' /\ Present' = Objects /\ Marked' = Marked /\ Kept' = Marked
           /\ Forwarded' = Marked
    <1>1. Types /\ Places /\ Deciding
        BY InvFacts DEF Deciding
    <1>2. Forwarded = Marked /\ Marked \subseteq Objects
        BY <1>1, DecidingFacts
    <1>3. /\ Types' /\ InOrder' /\ Identities' /\ Marks' /\ Sliding'
          /\ ~Moving' /\ Deciding' /\ Present' = Objects /\ Marked' = Marked /\ Kept' = Marked
          /\ (\A a \in Objects : Size(a)' = Size(a)) /\ heap_end' = heap_end
        <2>1. new_address' \in Address
            BY <1>1 DEF Types
        <2> QED
            BY <1>1, <2>1, DecidingStep
    <1>4. Forwarded' = Marked
        BY <1>3 DEF Forwarded
    <1>5. Places'
        <2>1. \A a \in Forwarded : Dest(a)' = Dest(a) /\ Size(a)' = Size(a)
            BY <1>2, <1>3 DEF Dest
        <2>2. new_address <= heap_end'
            BY <1>1, <1>3 DEF Places
        <2> QED
            BY <1>1, <1>2, <1>3, <1>4, <2>1, <2>2, SamePlaces
    <1> QED
        BY <1>3, <1>4, <1>5

LEMMA AdjustRootStep ==
    ASSUME Inv, AdjustRoot PROVE Inv' /\ UNCHANGED <<allocated, field, root_ids>>
    <1>1. /\ pc = "adjust roots" /\ pc' = "adjust roots" /\ ri <= Len(roots) /\ ri' = ri + 1
          /\ UNCHANGED <<object, next_free_offset, request, stack, scan, new_address>>
        BY DEF AdjustRoot
    <1>2. Types /\ References /\ OnlyLive /\ Deciding
        BY <1>1, InvFacts DEF Deciding
    <1>3. /\ ~Moving /\ Present = Objects /\ Kept = Marked /\ Marked \subseteq Objects /\ Forwarded = Marked
        BY <1>1, <1>2, DecidingFacts
    <1>4. /\ ri \in DOMAIN roots /\ ri \in Nat /\ MAX_ROOTS \in Nat /\ Len(roots) <= MAX_ROOTS
          /\ DOMAIN roots = 1..Len(roots) /\ Len(roots) \in Nat /\ ri \in 1..Len(roots)
        <2>1. ri \in 1..(MAX_ROOTS + 1) /\ Len(roots) <= MAX_ROOTS
            BY <1>2 DEF Types
        <2>2. MAX_ROOTS \in Nat
            BY SizeAssumption
        <2>3. DOMAIN roots = 1..Len(roots) /\ Len(roots) \in Nat
            BY <1>2, EndFacts
        <2>4. ri \in Nat /\ 1 <= ri
            BY <2>1, <2>2
        <2>5. ri <= Len(roots)
            BY <1>1
        <2> QED
            BY <2>1, <2>2, <2>3, <2>4, <2>5
    <1>5. PICK s : s = ri
        OBVIOUS
    <1>6. PICK t \in Marked : roots[s] = t
        <2>1. ~RootRewritten(s)
            <3>1. ~(s < ri)
                BY <1>4, <1>5
            <3> QED
                BY <1>1, <1>3, <3>1 DEF RootRewritten
        <2> QED
            BY <1>2, <1>3, <1>4, <1>5, <2>1 DEF References, Where
    <1>7. /\ roots' = [roots EXCEPT ![s] = Dest(t)] /\ Dest(t) \in Pointer
        BY <1>2, <1>3, <1>5, <1>6, CellFacts DEF AdjustRoot, Dest
    <1>8. /\ roots' \in Seq(Pointer) /\ Len(roots') = Len(roots) /\ DOMAIN roots' = DOMAIN roots
          /\ roots'[s] = Dest(t) /\ \A i \in DOMAIN roots \ {s} : roots'[i] = roots[i]
        <2>1. roots \in Seq(Pointer)
            BY <1>2 DEF Types
        <2> QED
            BY <1>4, <1>5, <1>7, <2>1, ExceptSeq
    <1>9. /\ Types' /\ InOrder' /\ Identities' /\ Marks' /\ Sliding' /\ Places'
          /\ ~Moving' /\ Present' = Objects /\ Marked' = Marked /\ Kept' = Marked
          /\ Forwarded' = Marked /\ Objects' = Objects
        <2>1. Objects' = Objects
            BY <1>1 DEF Objects
        <2>2. \A a \in Objects : object'[a] \in Cell /\ object'[a] = object[a]
            BY <1>1, <1>2, CellFacts
        <2>3. ri' \in 1..(MAX_ROOTS + 1) /\ scan' \in Address
            <3>1. ri + 1 \in 1..(MAX_ROOTS + 1)
                BY <1>4
            <3> QED
                BY <1>1, <1>2, <3>1 DEF Types
        <2> QED
            BY <1>1, <1>8, <2>1, <2>2, <2>3, AdjustingStep
    <1>10. (\A a \in Objects : ~Rewritten(a) /\ ~Rewritten(a)')
        BY <1>1, <1>3, <1>9 DEF Rewritten
    <1>11. \A b \in Objects : Dest(b)' = Dest(b)
        BY <1>1 DEF Dest
    <1>12. ASSUME NEW i \in DOMAIN roots
           PROVE  \E b \in Marked : /\ roots[i] = Where(b, RootRewritten(i))
                                    /\ roots'[i] = Where(b, RootRewritten(i))'
        <2>1. CASE i = s
            <3>1. ~RootRewritten(i) /\ RootRewritten(i)'
                <4>1. ~(i < ri) /\ i < ri + 1
                    BY <1>4, <1>5, <2>1
                <4> QED
                    BY <1>1, <1>3, <4>1 DEF RootRewritten
            <3>2. roots[i] = Where(t, RootRewritten(i)) /\ roots'[i] = Where(t, RootRewritten(i))'
                BY <1>3, <1>6, <1>8, <1>11, <2>1, <3>1 DEF Where
            <3> QED
                BY <3>2
        <2>2. CASE i # s
            <3>1. RootRewritten(i)' = RootRewritten(i)
                <4>1. i < ri + 1 <=> i < ri
                    BY <1>4, <1>5, <2>2
                <4> QED
                    BY <1>1, <1>3, <1>9, <4>1 DEF RootRewritten
            <3>2. PICK b \in Marked : roots[i] = Where(b, RootRewritten(i))
                BY <1>2, <1>3 DEF References
            <3>3. Where(b, RootRewritten(i))' = Where(b, RootRewritten(i))
                BY <1>3, <1>11, <3>1 DEF Where
            <3> QED
                BY <1>8, <2>2, <3>2, <3>3
        <2> QED
            BY <2>1, <2>2
    <1>13. References'
        <2>1. ASSUME NEW a \in Present', NEW i \in DOMAIN object'[a].field
              PROVE  \/ object'[a].field[i] = Nil
                     \/ \E b \in Present' : /\ object'[a].field[i] = Where(b, Rewritten(a))'
                                            /\ a \in Kept' => b \in Kept'
            <3>1. a \in Objects /\ object'[a].field = object[a].field /\ ~Rewritten(a)' /\ ~Rewritten(a)
                BY <1>1, <1>9, <1>10
            <3>2. \A b \in Present' : Where(b, Rewritten(a))' = b /\ Where(b, Rewritten(a)) = b
                BY <3>1 DEF Where
            <3>3. \/ object[a].field[i] = Nil
                  \/ \E b \in Present : /\ object[a].field[i] = Where(b, Rewritten(a))
                                        /\ a \in Kept => b \in Kept
                BY <1>2, <1>3, <2>1, <3>1 DEF References
            <3> QED
                BY <1>3, <1>9, <3>1, <3>2, <3>3
        <2>2. \A i \in DOMAIN roots' : \E b \in Kept' : roots'[i] = Where(b, RootRewritten(i))'
            BY <1>8, <1>9, <1>12
        <2> QED
            BY <2>1, <2>2 DEF References
    <1>14. Base'
        BY <1>9, <1>13 DEF Base
    <1>15. UNCHANGED <<allocated, field, root_ids>>
        <2>1. GraphIsSeen /\ GraphIsSeen' /\ ReferencesLead
            BY <1>14, InvFacts, BaseNextFacts
        <2>2. UNCHANGED <<allocated, field>>
            BY <1>1, <1>3, <1>9, <1>10, <2>1, StillGraph
        <2>3. PICK m : m = [a \in Objects |-> a]
            OBVIOUS
        <2>4. \A b \in Marked : /\ m[b] = b
                                /\ \A r \in BOOLEAN : b \in Targets(r)
            BY <1>1, <1>3, <1>9, <2>3 DEF Targets
        <2>5. \A i \in DOMAIN roots : RootRewritten(i) \in BOOLEAN /\ RootRewritten(i)' \in BOOLEAN
            BY DEF RootRewritten, Moving
        <2>6. ASSUME NEW i \in DOMAIN roots
              PROVE  \E b \in Targets(RootRewritten(i)) :
                        /\ roots[i] = Where(b, RootRewritten(i))
                        /\ m[b] \in Targets(RootRewritten(i))'
                        /\ roots'[i] = Where(m[b], RootRewritten(i))'
            <3>1. PICK b \in Marked : /\ roots[i] = Where(b, RootRewritten(i))
                                      /\ roots'[i] = Where(b, RootRewritten(i))'
                BY <1>12
            <3>2. m[b] = b /\ b \in Targets(RootRewritten(i)) /\ b \in Targets(RootRewritten(i))'
                <4>1. \A r \in BOOLEAN : b \in Targets(r)
                    BY <2>4
                <4>2. b \in Targets(RootRewritten(i))'
                    <5>1. b \in Present' /\ b \in Forwarded' /\ pc' # "forward"
                        BY <1>1, <1>3, <1>9
                    <5> QED
                        BY <5>1 DEF Targets
                <4> QED
                    BY <2>4, <2>5, <4>1, <4>2
            <3> QED
                BY <3>1, <3>2
        <2>7. \A a \in Present : object'[m[a]].id = object[a].id
            BY <1>1, <1>3, <2>3
        <2>8. root_ids' = root_ids
            BY <1>8, <2>1, <2>6, <2>7, SameRoots
        <2> QED
            BY <2>2, <2>8
    <1>16. OnlyLive'
        <2>1. Live' = Live
            BY <1>15 DEF Live
        <2> QED
            BY <1>1, <1>2, <1>3, <1>9, <2>1 DEF OnlyLive, Marking
    <1> QED
        BY <1>14, <1>15, <1>16 DEF Base, Inv

\* A step that leaves the objects where they are: their references, the roots, or
\* neither, get another form, and lead where they led.
LEMMA SameTargets ==
    ASSUME GraphIsSeen, GraphIsSeen', ~Moving, ~Moving', Objects' = Objects,
           \A a \in Objects :
              /\ object'[a].id = object[a].id
              /\ DOMAIN object'[a].field = DOMAIN object[a].field
              /\ \A k \in DOMAIN object[a].field :
                    \/ object[a].field[k] = Nil /\ object'[a].field[k] = Nil
                    \/ \E b \in Targets(Rewritten(a)) :
                          /\ object[a].field[k] = Where(b, Rewritten(a))
                          /\ b \in Targets(Rewritten(a))'
                          /\ object'[a].field[k] = Where(b, Rewritten(a))',
           DOMAIN roots' = DOMAIN roots,
           \A i \in DOMAIN roots : \E b \in Targets(RootRewritten(i)) :
              /\ roots[i] = Where(b, RootRewritten(i))
              /\ b \in Targets(RootRewritten(i))'
              /\ roots'[i] = Where(b, RootRewritten(i))'
    PROVE  UNCHANGED <<allocated, field, root_ids>>
    <1>1. PICK m : m = [a \in Objects |-> a]
        OBVIOUS
    <1>2. Present = Objects /\ Present' = Objects /\ \A a \in Objects : m[a] = a
        BY <1>1 DEF Present
    <1>3. Present' = {m[a] : a \in Present}
        BY <1>2
    <1>4. \A r : Targets(r) \subseteq Objects
        BY <1>2 DEF Targets
    <1>5. ASSUME NEW a \in Present
          PROVE  /\ object'[m[a]].id = object[a].id
                 /\ DOMAIN object'[m[a]].field = DOMAIN object[a].field
                 /\ \A k \in DOMAIN object[a].field :
                       \/ object[a].field[k] = Nil /\ object'[m[a]].field[k] = Nil
                       \/ \E b \in Targets(Rewritten(a)) :
                             /\ object[a].field[k] = Where(b, Rewritten(a))
                             /\ m[b] \in Targets(Rewritten(m[a]))'
                             /\ object'[m[a]].field[k] = Where(m[b], Rewritten(m[a]))'
        <2>1. a \in Objects /\ m[a] = a
            BY <1>2
        <2>2. ASSUME NEW k \in DOMAIN object[a].field, NEW b \in Targets(Rewritten(a)),
                     object[a].field[k] = Where(b, Rewritten(a)),
                     b \in Targets(Rewritten(a))',
                     object'[a].field[k] = Where(b, Rewritten(a))'
              PROVE  /\ m[b] \in Targets(Rewritten(m[a]))'
                     /\ object'[m[a]].field[k] = Where(m[b], Rewritten(m[a]))'
            <3>1. m[b] = b
                BY <1>2, <1>4
            <3> QED
                BY <2>1, <2>2, <3>1
        <2> QED
            BY <2>1, <2>2
    <1>6. UNCHANGED <<allocated, field>>
        BY <1>3, <1>5, SameGraph
    <1>7. ASSUME NEW i \in DOMAIN roots
          PROVE  \E b \in Targets(RootRewritten(i)) :
                    /\ roots[i] = Where(b, RootRewritten(i))
                    /\ m[b] \in Targets(RootRewritten(i))'
                    /\ roots'[i] = Where(m[b], RootRewritten(i))'
        <2>1. PICK b \in Targets(RootRewritten(i)) :
                    /\ roots[i] = Where(b, RootRewritten(i))
                    /\ b \in Targets(RootRewritten(i))'
                    /\ roots'[i] = Where(b, RootRewritten(i))'
            OBVIOUS
        <2>2. m[b] = b
            BY <1>2, <1>4
        <2> QED
            BY <2>1, <2>2
    <1>8. root_ids' = root_ids
        BY <1>5, <1>7, SameRoots
    <1> QED
        BY <1>6, <1>8

\* In adjust_ref(), every reference of a marked object and every root leads to one.
LEMMA AdjustReferences ==
    ASSUME Inv, pc \in {"adjust roots", "adjust"}
    PROVE  /\ \A a \in Objects : \A k \in DOMAIN object[a].field :
                 \/ object[a].field[k] = Nil
                 \/ \E b \in Objects : /\ object[a].field[k] = Where(b, Rewritten(a))
                                       /\ a \in Marked => b \in Marked
           /\ \A i \in DOMAIN roots : \E b \in Marked : roots[i] = Where(b, RootRewritten(i))
           /\ \A a \in Objects : Rewritten(a) <=> pc = "adjust" /\ a < scan /\ a \in Marked
           /\ \A i \in DOMAIN roots : RootRewritten(i) <=> pc = "adjust" \/ i < ri
           /\ \A b \in Objects, r \in BOOLEAN : (r => b \in Marked) => b \in Targets(r)
    <1>1. References /\ Deciding
        BY InvFacts DEF Deciding
    <1>2. /\ ~Moving /\ Present = Objects /\ Kept = Marked /\ Marked \subseteq Objects /\ Forwarded = Marked
        BY <1>1, DecidingFacts
    <1>3. /\ \A a \in Objects : Rewritten(a) <=> pc = "adjust" /\ a < scan /\ a \in Marked
          /\ \A i \in DOMAIN roots : RootRewritten(i) <=> pc = "adjust" \/ i < ri
        BY <1>2 DEF Rewritten, RootRewritten, Marked
    <1>4. \A b \in Objects, r \in BOOLEAN : (r => b \in Marked) => b \in Targets(r)
        BY <1>2 DEF Targets
    <1> QED
        BY <1>1, <1>2, <1>3, <1>4 DEF References

LEMMA AdjustRootsDoneStep ==
    ASSUME Inv, AdjustRootsDone PROVE Inv' /\ UNCHANGED <<allocated, field, root_ids>>
    <1>1. /\ pc = "adjust roots" /\ pc' = "adjust" /\ ri > Len(roots) /\ scan' = heap
          /\ UNCHANGED <<object, next_free_offset, roots, request, ri, stack, new_address>>
        BY DEF AdjustRootsDone, memory
    <1>2. Types /\ InOrder /\ OnlyLive /\ Deciding
        BY <1>1, InvFacts DEF Deciding
    <1>3. /\ ~Moving /\ Present = Objects /\ Standing = Objects /\ Kept = Marked /\ Marked \subseteq Objects
          /\ Forwarded = Marked
        BY <1>1, <1>2, DecidingFacts
    <1>4. \A i \in DOMAIN roots : i < ri
        <2>1. ri \in Nat
            <3>1. ri \in 1..(MAX_ROOTS + 1)
                BY <1>2 DEF Types
            <3> QED
                BY <3>1, SizeAssumption
        <2>2. Len(roots) \in Nat /\ DOMAIN roots = 1..Len(roots) /\ ri > Len(roots)
            BY <1>1, <1>2, EndFacts
        <2> QED
            BY <2>1, <2>2
    <1>5. /\ Types' /\ InOrder' /\ Identities' /\ Marks' /\ Sliding' /\ Places'
          /\ ~Moving' /\ Present' = Objects /\ Marked' = Marked /\ Kept' = Marked
          /\ Forwarded' = Marked /\ Objects' = Objects
        <2>1. Objects' = Objects
            BY <1>1 DEF Objects
        <2>2. \A a \in Objects : object'[a] \in Cell /\ object'[a] = object[a]
            BY <1>1, <1>2, CellFacts
        <2>3. heap \in Address /\ heap \in Objects \cup {heap_end}
            BY <1>2, <1>3, HeapFacts DEF InOrder
        <2>4. ri' \in 1..(MAX_ROOTS + 1) /\ roots' \in Seq(Pointer)
            BY <1>1, <1>2 DEF Types
        <2> QED
            BY <1>1, <2>1, <2>2, <2>3, <2>4, AdjustingStep
    <1>6. \A a \in Objects : ~Rewritten(a) /\ ~Rewritten(a)'
        <2>1. \A a \in Objects : ~(a < heap)
            BY <1>2, CellFacts, HeapFacts
        <2> QED
            BY <1>1, <1>3, <1>5, <2>1 DEF Rewritten
    <1>7. \A i \in DOMAIN roots : RootRewritten(i) /\ RootRewritten(i)'
        BY <1>1, <1>4 DEF RootRewritten
    <1>8. \A b \in Objects : Dest(b)' = Dest(b)
        BY <1>1 DEF Dest
    <1>9. ASSUME NEW a \in Objects, NEW k \in DOMAIN object[a].field, object[a].field[k] # Nil
          PROVE  \E b \in Objects : /\ object[a].field[k] = Where(b, Rewritten(a))
                                    /\ object'[a].field[k] = Where(b, Rewritten(a))'
                                    /\ b \in Targets(Rewritten(a)) /\ b \in Targets(Rewritten(a))'
                                    /\ a \in Marked => b \in Marked
        <2>1. PICK b \in Objects : /\ object[a].field[k] = Where(b, Rewritten(a))
                                   /\ a \in Marked => b \in Marked
            BY <1>1, <1>9, AdjustReferences
        <2>2. Where(b, Rewritten(a)) = b /\ Where(b, Rewritten(a))' = b
            BY <1>6 DEF Where
        <2>3. b \in Targets(Rewritten(a)) /\ b \in Targets(Rewritten(a))'
            BY <1>3, <1>5, <1>6 DEF Targets
        <2> QED
            BY <1>1, <2>1, <2>2, <2>3
    <1>10. ASSUME NEW i \in DOMAIN roots
           PROVE  \E b \in Marked : /\ roots[i] = Where(b, RootRewritten(i))
                                    /\ roots'[i] = Where(b, RootRewritten(i))'
                                    /\ b \in Targets(RootRewritten(i)) /\ b \in Targets(RootRewritten(i))'
        <2>1. PICK b \in Marked : roots[i] = Where(b, RootRewritten(i))
            BY <1>1, AdjustReferences
        <2>2. Where(b, RootRewritten(i)) = Dest(b) /\ Where(b, RootRewritten(i))' = Dest(b)
            BY <1>3, <1>7, <1>8 DEF Where
        <2>3. b \in Targets(RootRewritten(i)) /\ b \in Targets(RootRewritten(i))'
            BY <1>1, <1>3, <1>5 DEF Targets
        <2> QED
            BY <1>1, <2>1, <2>2, <2>3
    <1>11. References'
        <2>1. \A a \in Present' : \A k \in DOMAIN object'[a].field :
                \/ object'[a].field[k] = Nil
                \/ \E b \in Present' : /\ object'[a].field[k] = Where(b, Rewritten(a))'
                                       /\ a \in Kept' => b \in Kept'
            BY <1>1, <1>5, <1>9
        <2>2. \A i \in DOMAIN roots' : \E b \in Kept' : roots'[i] = Where(b, RootRewritten(i))'
            BY <1>1, <1>5, <1>10
        <2> QED
            BY <2>1, <2>2 DEF References
    <1>12. Base'
        BY <1>5, <1>11 DEF Base
    <1>13. UNCHANGED <<allocated, field, root_ids>>
        <2>1. GraphIsSeen /\ GraphIsSeen'
            BY <1>12, InvFacts, BaseNextFacts
        <2>2. \A a \in Objects : \A k \in DOMAIN object[a].field :
                    \/ object[a].field[k] = Nil /\ object'[a].field[k] = Nil
                    \/ \E b \in Targets(Rewritten(a)) :
                          /\ object[a].field[k] = Where(b, Rewritten(a))
                          /\ b \in Targets(Rewritten(a))'
                          /\ object'[a].field[k] = Where(b, Rewritten(a))'
            BY <1>1, <1>9
        <2> QED
            BY <1>1, <1>3, <1>5, <1>10, <2>1, <2>2, SameTargets
    <1>14. OnlyLive'
        <2>1. Live' = Live
            BY <1>13 DEF Live
        <2> QED
            BY <1>1, <1>2, <1>3, <1>5, <2>1 DEF OnlyLive, Marking
    <1> QED
        BY <1>12, <1>13, <1>14 DEF Base, Inv

\* Every reference of a marked object is replaced by the place its object goes to.
LEMMA AdjustedField ==
    ASSUME Inv, pc = "adjust", NEW a \in Marked, ~Rewritten(a)
    PROVE  /\ DOMAIN Adjusted(object[a].field) = DOMAIN object[a].field
           /\ Adjusted(object[a].field) \in [1..object[a].clss.num_fields -> Pointer]
           /\ \A k \in DOMAIN object[a].field :
                 \/ object[a].field[k] = Nil /\ Adjusted(object[a].field)[k] = Nil
                 \/ \E b \in Marked : /\ object[a].field[k] = b
                                      /\ Adjusted(object[a].field)[k] = Dest(b)
    <1>1. Types /\ Places /\ Deciding
        BY InvFacts DEF Deciding
    <1>2. Marked \subseteq Objects /\ Forwarded = Marked
        BY <1>1, DecidingFacts
    <1>3. PICK f : f = object[a].field
        OBVIOUS
    <1>4. ASSUME NEW k \in DOMAIN f
          PROVE  \/ f[k] = Nil /\ Adjusted(f)[k] = Nil
                 \/ \E b \in Marked : f[k] = b /\ Adjusted(f)[k] = Dest(b)
        <2>1. CASE f[k] = Nil
            BY <2>1 DEF Adjusted
        <2>2. CASE f[k] # Nil
            <3>1. PICK b \in Marked : f[k] = b
                BY <1>2, <1>3, <2>2, AdjustReferences DEF Where
            <3>2. Dest(b) # Nil /\ b # Nil
                BY <1>1, <1>2, CellFacts, HeapFacts DEF Places
            <3>3. Adjusted(f)[k] = Dest(b)
                BY <3>1, <3>2 DEF Adjusted, Dest
            <3> QED
                BY <3>1, <3>3
        <2> QED
            BY <2>1, <2>2
    <1>5. Adjusted(f) \in [1..object[a].clss.num_fields -> Pointer]
        <2>1. DOMAIN f = 1..object[a].clss.num_fields
            BY <1>1, <1>2, <1>3, CellFacts
        <2>2. Adjusted(f) = [k \in DOMAIN f |-> Adjusted(f)[k]]
            BY DEF Adjusted
        <2>3. \A k \in DOMAIN f : Adjusted(f)[k] \in Pointer
            BY <1>1, <1>2, <1>4, CellFacts, HeapFacts
        <2> QED
            BY <2>1, <2>2, <2>3
    <1>6. DOMAIN Adjusted(f) = DOMAIN f
        BY DEF Adjusted
    <1> QED
        BY <1>3, <1>4, <1>5, <1>6

LEMMA AdjustStep ==
    ASSUME Inv, Adjust PROVE Inv' /\ UNCHANGED <<allocated, field, root_ids>>
    <1>1. /\ pc = "adjust" /\ pc' = "adjust" /\ scan < heap_end /\ scan' = scan + Size(scan)
          /\ UNCHANGED <<next_free_offset, roots, request, ri, stack, new_address>>
        BY DEF Adjust
    <1>2. Types /\ InOrder /\ OnlyLive /\ Deciding
        BY <1>1, InvFacts DEF Deciding
    <1>3. /\ ~Moving /\ Present = Objects /\ Standing = Objects /\ Kept = Marked /\ Marked \subseteq Objects
          /\ Forwarded = Marked
        BY <1>1, <1>2, DecidingFacts
    <1>4. PICK s : s = scan
        OBVIOUS
    <1>5. /\ s \in Objects /\ s \in Nat /\ scan + Size(scan) \in Objects \cup {heap_end}
          /\ scan + Size(scan) \in Address
          /\ \A a \in Objects : a < scan' <=> a < s \/ a = s
        BY <1>1, <1>2, <1>3, <1>4, WalkStep, CellFacts
    <1>6. /\ \A a \in Objects : Rewritten(a) <=> a < s /\ a \in Marked
          /\ \A i \in DOMAIN roots : RootRewritten(i)
        BY <1>1, <1>4, AdjustReferences
    <1>7. ~Rewritten(s)
        BY <1>5, <1>6
    <1>8. PICK f : f = IF s \in Marked THEN Adjusted(object[s].field) ELSE object[s].field
        OBVIOUS
    <1>9. PICK c : c = [object[s] EXCEPT !.field = f]
        OBVIOUS
    <1>10. /\ c \in Cell /\ c.field = f /\ c.clss = object[s].clss /\ c.marked = object[s].marked
           /\ c.forwarding = object[s].forwarding /\ c.id = object[s].id
        <2>1. f \in [1..object[s].clss.num_fields -> Pointer]
            BY <1>1, <1>2, <1>5, <1>7, <1>8, AdjustedField, CellFacts
        <2>2. object[s] \in Cell
            BY <1>2, <1>5, CellFacts
        <2> QED
            BY <1>9, <2>1, <2>2, CellUpdates
    <1>11. /\ Objects' = Objects /\ \A a \in Objects \ {s} : object'[a] = object[a]
           /\ s \in Marked => object'[s] = c
           /\ s \notin Marked => object'[s] = object[s]
        <2>1. s \in Marked <=> object[s].marked
            BY <1>5 DEF Marked
        <2>2. CASE s \in Marked
            <3>1. object' = [object EXCEPT ![s] = c]
                BY <1>4, <1>8, <1>9, <2>1, <2>2 DEF Adjust
            <3> QED
                BY <1>5, <2>2, <3>1 DEF Objects
        <2>3. CASE s \notin Marked
            <3>1. object' = object
                BY <1>4, <2>1, <2>3 DEF Adjust
            <3> QED
                BY <2>3, <3>1 DEF Objects
        <2> QED
            BY <2>2, <2>3
    <1>12. \A a \in Objects : /\ object'[a] \in Cell
                              /\ object'[a].clss = object[a].clss
                              /\ object'[a].id = object[a].id
                              /\ object'[a].marked = object[a].marked
                              /\ object'[a].forwarding = object[a].forwarding
        BY <1>2, <1>10, <1>11, CellFacts
    <1>13. /\ Types' /\ InOrder' /\ Identities' /\ Marks' /\ Sliding' /\ Places'
           /\ ~Moving' /\ Present' = Objects /\ Marked' = Marked /\ Kept' = Marked
           /\ Forwarded' = Marked
        <2>1. ri' \in 1..(MAX_ROOTS + 1) /\ roots' \in Seq(Pointer)
            BY <1>1, <1>2 DEF Types
        <2>2. scan' \in Address /\ scan' \in Objects \cup {heap_end}
            BY <1>1, <1>5
        <2> QED
            BY <1>1, <1>11, <1>12, <2>1, <2>2, AdjustingStep
    <1>14. /\ \A a \in Objects : Rewritten(a)' <=> (a < s \/ a = s) /\ a \in Marked
           /\ \A i \in DOMAIN roots : RootRewritten(i)'
        <2>1. \A a \in Objects : Rewritten(a)' <=> a < scan' /\ object'[a].marked
            BY <1>1, <1>13 DEF Rewritten
        <2>2. \A a \in Objects : object'[a].marked <=> a \in Marked
            BY <1>12 DEF Marked
        <2> QED
            BY <1>1, <1>5, <2>1, <2>2 DEF RootRewritten
    <1>15. \A b \in Objects : Dest(b)' = Dest(b)
        BY <1>12 DEF Dest
    <1>16. /\ \A b \in Objects, r \in BOOLEAN : (r => b \in Marked) => b \in Targets(r)
           /\ \A b \in Marked : /\ \A a \in Objects : b \in Targets(Rewritten(a))'
                                /\ \A i \in DOMAIN roots : b \in Targets(RootRewritten(i))'
           /\ \A b \in Objects : \A a \in Objects : ~Rewritten(a)' => b \in Targets(Rewritten(a))'
        <2>1. \A b \in Objects, r \in BOOLEAN : (r => b \in Marked) => b \in Targets(r)
            BY <1>1, AdjustReferences
        <2>2. \A b \in Marked : b \in Present' /\ b \in Forwarded' /\ pc' # "forward"
            BY <1>1, <1>3, <1>13
        <2> QED
            BY <1>13, <2>1, <2>2 DEF Targets
    <1>17. ASSUME NEW a \in Objects, NEW k \in DOMAIN object[a].field
           PROVE  \/ object[a].field[k] = Nil /\ object'[a].field[k] = Nil
                  \/ \E b \in Objects : /\ object[a].field[k] = Where(b, Rewritten(a))
                                        /\ object'[a].field[k] = Where(b, Rewritten(a))'
                                        /\ b \in Targets(Rewritten(a)) /\ b \in Targets(Rewritten(a))'
                                        /\ a \in Marked => b \in Marked
        <2>1. Rewritten(a) \in BOOLEAN
            BY <1>2, <1>17, CellFacts DEF Rewritten, Moving
        <2>2. CASE a = s /\ s \in Marked
            <3>1. \/ object[a].field[k] = Nil /\ object'[a].field[k] = Nil
                  \/ \E b \in Marked : object[a].field[k] = b /\ object'[a].field[k] = Dest(b)
                BY <1>1, <1>7, <1>8, <1>10, <1>11, <2>2, AdjustedField
            <3>2. ASSUME NEW b \in Marked
                  PROVE  /\ Where(b, Rewritten(a)) = b /\ Where(b, Rewritten(a))' = Dest(b)
                         /\ b \in Targets(Rewritten(a)) /\ b \in Targets(Rewritten(a))'
                         /\ b \in Objects
                <4>1. ~Rewritten(a) /\ Rewritten(a)'
                    BY <1>7, <1>14, <2>2
                <4>2. b \in Objects
                    BY <1>3
                <4>3. b \in Targets(Rewritten(a))
                    BY <1>16, <2>1, <4>1, <4>2
                <4> QED
                    BY <1>15, <1>16, <4>1, <4>2, <4>3 DEF Where
            <3> QED
                BY <3>1, <3>2
        <2>3. CASE ~(a = s /\ s \in Marked)
            <3>1. object'[a].field = object[a].field
                BY <1>11, <2>3
            <3>2. Rewritten(a)' <=> Rewritten(a)
                BY <1>6, <1>14, <2>3
            <3>3. CASE object[a].field[k] # Nil
                <4>1. PICK b \in Objects : /\ object[a].field[k] = Where(b, Rewritten(a))
                                           /\ a \in Marked => b \in Marked
                    BY <1>1, <3>3, AdjustReferences
                <4>2. Where(b, Rewritten(a))' = Where(b, Rewritten(a))
                    BY <1>15, <3>2 DEF Where
                <4>3. Rewritten(a) => b \in Marked
                    BY <1>6, <4>1
                <4>4. b \in Targets(Rewritten(a)) /\ b \in Targets(Rewritten(a))'
                    BY <1>16, <2>1, <3>2, <4>3
                <4> QED
                    BY <3>1, <4>1, <4>2, <4>4
            <3> QED
                BY <3>1, <3>3
        <2> QED
            BY <2>2, <2>3
    <1>18. ASSUME NEW i \in DOMAIN roots
           PROVE  \E b \in Marked : /\ roots[i] = Where(b, RootRewritten(i))
                                    /\ roots'[i] = Where(b, RootRewritten(i))'
                                    /\ b \in Targets(RootRewritten(i)) /\ b \in Targets(RootRewritten(i))'
        <2>1. PICK b \in Marked : roots[i] = Where(b, RootRewritten(i))
            BY <1>1, AdjustReferences
        <2>2. Where(b, RootRewritten(i)) = Dest(b) /\ Where(b, RootRewritten(i))' = Dest(b)
            BY <1>3, <1>6, <1>14, <1>15 DEF Where
        <2>3. b \in Targets(RootRewritten(i)) /\ b \in Targets(RootRewritten(i))'
            BY <1>1, <1>3, <1>16 DEF Targets
        <2> QED
            BY <1>1, <2>1, <2>2, <2>3
    <1>19. \A a \in Objects : DOMAIN object'[a].field = DOMAIN object[a].field
        BY <1>2, <1>12, CellFacts, CellFields
    <1>20. References'
        <2>1. \A a \in Present' : \A k \in DOMAIN object'[a].field :
                \/ object'[a].field[k] = Nil
                \/ \E b \in Present' : /\ object'[a].field[k] = Where(b, Rewritten(a))'
                                       /\ a \in Kept' => b \in Kept'
            BY <1>13, <1>17, <1>19
        <2>2. \A i \in DOMAIN roots' : \E b \in Kept' : roots'[i] = Where(b, RootRewritten(i))'
            BY <1>1, <1>13, <1>18
        <2> QED
            BY <2>1, <2>2 DEF References
    <1>21. Base'
        BY <1>13, <1>20 DEF Base
    <1>22. UNCHANGED <<allocated, field, root_ids>>
        <2>1. GraphIsSeen /\ GraphIsSeen'
            BY <1>21, InvFacts, BaseNextFacts
        <2>2. \A a \in Objects : \A k \in DOMAIN object[a].field :
                    \/ object[a].field[k] = Nil /\ object'[a].field[k] = Nil
                    \/ \E b \in Targets(Rewritten(a)) :
                          /\ object[a].field[k] = Where(b, Rewritten(a))
                          /\ b \in Targets(Rewritten(a))'
                          /\ object'[a].field[k] = Where(b, Rewritten(a))'
            BY <1>17
        <2>3. DOMAIN roots' = DOMAIN roots
            BY <1>1
        <2>4. \A i \in DOMAIN roots : \E b \in Targets(RootRewritten(i)) :
              /\ roots[i] = Where(b, RootRewritten(i))
              /\ b \in Targets(RootRewritten(i))'
              /\ roots'[i] = Where(b, RootRewritten(i))'
            BY <1>18
        <2> QED
            BY <1>3, <1>11, <1>12, <1>13, <1>19, <2>1, <2>2, <2>3, <2>4, SameTargets
    <1>23. OnlyLive'
        <2>1. Live' = Live
            BY <1>22 DEF Live
        <2> QED
            BY <1>1, <1>2, <1>3, <1>12, <1>13, <2>1 DEF OnlyLive, Marking
    <1> QED
        BY <1>21, <1>22, <1>23 DEF Base, Inv

LEMMA AdjustDoneStep ==
    ASSUME Inv, AdjustDone
    PROVE  /\ Inv' /\ root_ids' = root_ids /\ Live' = Live
           /\ allocated' = Live /\ allocated' \subseteq allocated
           /\ field' = [o \in Identity |-> IF o \in allocated \ allocated' THEN NullFields(0) ELSE field[o]]
    <1>1. /\ pc = "adjust" /\ pc' = "move" /\ scan >= heap_end /\ scan' = heap /\ new_address' = heap
          /\ UNCHANGED <<object, next_free_offset, roots, request, ri, stack>>
        BY DEF AdjustDone, memory
    <1>2. Types /\ InOrder /\ Identities /\ OnlyLive /\ Places /\ Deciding
        BY <1>1, InvFacts DEF Deciding
    <1>3. /\ ~Moving /\ Present = Objects /\ Standing = Objects /\ Kept = Marked /\ Marked \subseteq Objects
          /\ Forwarded = Marked /\ stack = <<>>
        BY <1>1, <1>2, DecidingFacts
    <1>4. /\ Moving' /\ ~Deciding' /\ ~Marking' /\ Objects' = Objects /\ heap_end' = heap_end
          /\ (\A a \in Objects : Size(a)' = Size(a) /\ Dest(a)' = Dest(a))
          /\ \A a \in Objects : heap <= a /\ ~(a < heap) /\ (object[a].marked <=> a \in Marked)
        <2>1. /\ Moving' /\ ~Deciding' /\ ~Marking' /\ Objects' = Objects /\ heap_end' = heap_end
              /\ (\A a \in Objects : Size(a)' = Size(a) /\ Dest(a)' = Dest(a))
            BY <1>1 DEF Moving, Deciding, Marking, Objects, heap_end, Size, Dest
        <2>2. \A a \in Objects : heap <= a /\ ~(a < heap)
            BY <1>2, CellFacts, HeapFacts
        <2> QED
            BY <2>1, <2>2 DEF Marked
    <1>5. /\ Standing' = Objects /\ Present' = Marked /\ Kept' = Marked /\ Forwarded' = Marked
          /\ Settled' = {} /\ Pending' = Marked
        <2>1. Standing' = Objects
            BY <1>1, <1>4 DEF Standing
        <2>2. Present' = Marked
            <3>1. Present' = {a \in Objects : a < heap \/ (heap <= a /\ object[a].marked)}
                BY <1>1, <1>4 DEF Present
            <3> QED
                BY <1>3, <1>4, <3>1
        <2>3. Settled' = {} /\ Pending' = Marked
            <3>1. Settled' = {a \in Objects : a < heap} /\ Pending' = {a \in Objects : heap <= a /\ object[a].marked}
                BY <1>1, <1>4 DEF Settled, Pending
            <3> QED
                BY <1>3, <1>4, <3>1
        <2>4. Kept' = Marked /\ Forwarded' = Marked
            BY <1>1, <1>4, <2>2 DEF Kept, Forwarded
        <2> QED
            BY <2>1, <2>2, <2>3, <2>4
    <1>6. Types'
        <2>1. heap \in Address
            BY HeapFacts
        <2> QED
            BY <1>1, <1>2, <1>4, <2>1 DEF Types
    <1>7. InOrder'
        <2>1. heap \in Objects \cup {heap_end}
            BY <1>2, <1>3 DEF InOrder
        <2>2. \A a \in Objects : a + Size(a) \in Objects \cup {heap_end}
            BY <1>2, <1>3 DEF InOrder
        <2>3. \A a \in Objects : a < heap_end
            BY <1>2, <1>3 DEF InOrder
        <2>4. \A a, b \in Objects : a < b => a + Size(a) <= b
            BY <1>2, <1>3 DEF InOrder
        <2> QED
            BY <1>1, <1>4, <1>5, <2>1, <2>2, <2>3, <2>4 DEF InOrder
    <1>8. Identities'
        <2>1. RoomFor({}, 0)
            BY HeapFacts, FS_EmptySet, MaxObjectsAssumption DEF RoomFor
        <2>2. new_address' - heap = 0
            BY <1>1, HeapFacts
        <2>3. RoomFor(Settled, new_address - heap)'
            BY <1>5, <2>1, <2>2 DEF RoomFor
        <2>4. \A a, b \in Marked : object[a].id = object[b].id => a = b
            BY <1>2, <1>3 DEF Identities
        <2> QED
            BY <1>1, <1>4, <1>5, <2>3, <2>4 DEF Identities
    <1>9. Marks'
        BY <1>1, <1>3, <1>4 DEF Marks
    <1>10. /\ \A a \in Marked : Rewritten(a) /\ Rewritten(a)'
           /\ \A i \in DOMAIN roots : RootRewritten(i) /\ RootRewritten(i)'
           /\ \A r \in BOOLEAN : \A b \in Marked : b \in Targets(r)
           /\ \A b \in Marked : /\ \A a \in Marked : b \in Targets(Rewritten(a))'
                                /\ \A i \in DOMAIN roots : b \in Targets(RootRewritten(i))'
        <2>1. \A a \in Marked : a < scan
            <3>1. \A a \in Marked : a < heap_end /\ a \in Nat
                BY <1>2, <1>3, CellFacts DEF InOrder
            <3>2. scan \in Nat /\ heap_end \in Nat
                BY <1>2, EndFacts
            <3>3. heap_end <= scan
                BY <1>1, <3>2
            <3> QED
                BY <3>1, <3>2, <3>3
        <2>2. \A a \in Marked : Rewritten(a)
            BY <1>1, <1>3, <2>1, AdjustReferences
        <2>3. \A b \in Marked : b \in Present' /\ b \in Forwarded' /\ pc' # "forward"
            BY <1>1, <1>5
        <2> QED
            BY <1>1, <1>3, <1>4, <2>2, <2>3 DEF Targets, Rewritten, RootRewritten
    <1>11. ASSUME NEW a \in Marked, NEW k \in DOMAIN object[a].field, object[a].field[k] # Nil
           PROVE  \E b \in Marked : /\ object[a].field[k] = Where(b, Rewritten(a))
                                    /\ object[a].field[k] = Where(b, Rewritten(a))'
        <2>1. PICK b \in Marked : object[a].field[k] = Where(b, Rewritten(a))
            BY <1>1, <1>3, <1>11, AdjustReferences
        <2>2. Where(b, Rewritten(a)) = Where(b, Rewritten(a))'
            BY <1>3, <1>4, <1>10 DEF Where
        <2> QED
            BY <2>1, <2>2
    <1>12. ASSUME NEW i \in DOMAIN roots
           PROVE  \E b \in Marked : /\ roots[i] = Where(b, RootRewritten(i))
                                    /\ roots[i] = Where(b, RootRewritten(i))'
        <2>1. PICK b \in Marked : roots[i] = Where(b, RootRewritten(i))
            BY <1>1, AdjustReferences
        <2>2. Where(b, RootRewritten(i)) = Where(b, RootRewritten(i))'
            BY <1>3, <1>4, <1>10 DEF Where
        <2> QED
            BY <2>1, <2>2
    <1>13. References'
        <2>1. \A a \in Present' : \A k \in DOMAIN object'[a].field :
                \/ object'[a].field[k] = Nil
                \/ \E b \in Present' : /\ object'[a].field[k] = Where(b, Rewritten(a))'
                                       /\ a \in Kept' => b \in Kept'
            BY <1>1, <1>5, <1>11
        <2>2. \A i \in DOMAIN roots' : \E b \in Kept' : roots'[i] = Where(b, RootRewritten(i))'
            BY <1>1, <1>5, <1>12
        <2> QED
            BY <2>1, <2>2 DEF References
    <1>14. /\ \A a \in Marked : heap <= Dest(a) /\ Dest(a) <= a
           /\ \A a, b \in Marked : a < b => Dest(a) + Size(a) <= Dest(b)
           /\ heap \in {Dest(b) : b \in Marked} \cup {new_address}
           /\ \A a \in Marked : /\ Dest(a) + Size(a) <= new_address
                                /\ Dest(a) + Size(a) \in {Dest(b) : b \in Marked} \cup {new_address}
        BY <1>2, <1>3 DEF Places
    <1>15. Places'
        <2>1. \A a \in Forwarded' : heap <= Dest(a)' /\ Dest(a)' <= a
            BY <1>3, <1>4, <1>5, <1>14
        <2>2. \A a, b \in Forwarded' : a < b => Dest(a)' + Size(a)' <= Dest(b)'
            BY <1>3, <1>4, <1>5, <1>14
        <2> QED
            BY <1>4, <2>1, <2>2 DEF Places
    <1>16. Sliding'
        <2>0. \A a \in Marked : Dest(a) \in Nat /\ Size(a) \in Nat /\ Size(a) > 0
            BY <1>2, <1>3, CellFacts
        <2>1. Pending' # {} => \E b \in Pending' : Dest(b)' = heap
            <3>1. SUFFICES ASSUME NEW a \in Marked PROVE \E b \in Marked : Dest(b) = heap
                BY <1>3, <1>4, <1>5
            <3>2. heap # new_address
                BY <1>14, <2>0, HeapFacts, EndFacts, <1>2
            <3> QED
                BY <1>14, <3>2
        <2>2. ASSUME NEW a \in Pending', NEW b \in Pending', a < b
              PROVE  \E c \in Pending' : Dest(c)' = Dest(a)' + Size(a)'
            <3>1. Dest(a) + Size(a) # new_address
                <4>1. /\ Dest(a) + Size(a) <= Dest(b) /\ Dest(b) + Size(b) <= new_address
                      /\ Size(b) > 0 /\ Dest(b) \in Nat /\ Size(b) \in Nat /\ Dest(a) \in Nat /\ Size(a) \in Nat
                    BY <1>5, <1>14, <2>0, <2>2
                <4>2. new_address \in Nat
                    BY <1>2, EndFacts
                <4> QED
                    BY <4>1, <4>2
            <3>2. PICK c \in Marked : Dest(c) = Dest(a) + Size(a)
                BY <1>5, <1>14, <3>1
            <3> QED
                BY <1>3, <1>4, <1>5, <3>2
        <2>3. \A a \in Pending' : Dest(a)' >= heap
            <3>1. \A a \in Marked : Dest(a) >= heap
                BY <1>14, <2>0, HeapFacts
            <3> QED
                BY <1>3, <1>4, <1>5, <3>1
        <2>4. new_address' <= scan' /\ heap \in Settled' \cup {new_address'}
            BY <1>1, HeapFacts
        <2> QED
            BY <1>1, <1>5, <2>1, <2>2, <2>3, <2>4 DEF Sliding
    <1>17. Base'
        BY <1>6, <1>7, <1>8, <1>9, <1>13, <1>15, <1>16 DEF Base
    <1>18. GraphIsSeen /\ GraphIsSeen' /\ ReferencesLead /\ ReferencesLead'
        BY <1>17, InvFacts, BaseNextFacts
    <1>19. PICK m : m = [a \in Objects |-> a]
        OBVIOUS
    <1>20. \A a \in Objects : m[a] = a
        BY <1>19
    <1>21. root_ids' = root_ids
        <2>1. ASSUME NEW i \in DOMAIN roots
              PROVE  \E b \in Targets(RootRewritten(i)) :
                        /\ roots[i] = Where(b, RootRewritten(i))
                        /\ m[b] \in Targets(RootRewritten(i))'
                        /\ roots'[i] = Where(m[b], RootRewritten(i))'
            <3>1. PICK b \in Marked : /\ roots[i] = Where(b, RootRewritten(i))
                                      /\ roots[i] = Where(b, RootRewritten(i))'
                BY <1>12
            <3>2. RootRewritten(i) \in BOOLEAN
                BY DEF RootRewritten, Moving
            <3>3. b \in Targets(RootRewritten(i)) /\ b \in Targets(RootRewritten(i))' /\ m[b] = b
                BY <1>3, <1>10, <1>20, <3>2
            <3> QED
                BY <1>1, <3>1, <3>3
        <2>2. \A a \in Present : object'[m[a]].id = object[a].id
            BY <1>1, <1>3, <1>20
        <2>3. DOMAIN roots' = DOMAIN roots
            BY <1>1
        <2> QED
            BY <1>18, <2>1, <2>2, <2>3, SameRoots
    <1>22. ASSUME NEW a \in Marked PROVE field'[object[a].id] = field[object[a].id]
        <2>1. a \in Present /\ m[a] \in Present' /\ m[a] = a
            BY <1>3, <1>5, <1>20
        <2>2. \A b \in Present : object'[m[b]].id = object[b].id
            BY <1>1, <1>3, <1>20
        <2>3. DOMAIN object'[m[a]].field = DOMAIN object[a].field
            BY <1>1, <2>1
        <2>4. ASSUME NEW k \in DOMAIN object[a].field, object[a].field[k] # Nil
              PROVE  \E b \in Targets(Rewritten(a)) :
                        /\ object[a].field[k] = Where(b, Rewritten(a))
                        /\ m[b] \in Targets(Rewritten(m[a]))'
                        /\ object'[m[a]].field[k] = Where(m[b], Rewritten(m[a]))'
            <3>1. PICK b \in Marked : /\ object[a].field[k] = Where(b, Rewritten(a))
                                      /\ object[a].field[k] = Where(b, Rewritten(a))'
                BY <1>11, <2>4
            <3>2. Rewritten(a) \in BOOLEAN
                BY <1>2, <1>3, CellFacts DEF Rewritten, Moving
            <3>3. b \in Targets(Rewritten(a)) /\ b \in Targets(Rewritten(a))' /\ m[b] = b
                BY <1>3, <1>10, <1>20, <3>2
            <3> QED
                BY <1>1, <2>1, <3>1, <3>3
        <2> QED
            BY <1>1, <1>18, <2>1, <2>2, <2>3, <2>4, SameObject
    <1>23. allocated' = {object[a].id : a \in Marked} /\ allocated' \subseteq allocated
        BY <1>1, <1>3, <1>5 DEF allocated
    <1>24. allocated' \subseteq Live
        BY <1>1, <1>2, <1>3, <1>23 DEF OnlyLive
    <1>25. Live \subseteq allocated'
        <2>1. ASSUME NEW n \in allocated', NEW i \in DOMAIN field[n]
              PROVE  field[n][i] \in allocated' \cup {Nil}
            <3>1. field[n] = field'[n]
                BY <1>22, <1>23
            <3>2. field'[n][i] \in allocated' \cup {Nil}
                <4>1. Closed(field', allocated')
                    BY <1>6, <1>18, GraphFactsNext
                <4> QED
                    BY <3>1, <4>1 DEF Closed
            <3> QED
                BY <3>1, <3>2
        <2>2. root_ids \subseteq allocated'
            BY <1>6, <1>18, <1>21, GraphFactsNext
        <2>3. allocated' \in SUBSET Identity
            BY <1>18 DEF GraphIsSeen
        <2>4. Closed(field, allocated')
            BY <2>1 DEF Closed
        <2>5. root_ids \subseteq allocated' \cup {Nil}
            BY <2>2
        <2> QED
            BY <2>3, <2>4, <2>5, ReachableIsLeast DEF Live
    <1>26. allocated' = Live
        BY <1>24, <1>25
    <1>27. field' = [o \in Identity |-> IF o \in allocated \ allocated' THEN NullFields(0) ELSE field[o]]
        <2>1. ASSUME NEW o \in Identity
              PROVE  field'[o] = IF o \in allocated \ allocated' THEN NullFields(0) ELSE field[o]
            <3>1. CASE o \in allocated'
                BY <1>22, <1>23, <3>1
            <3>2. CASE o \notin allocated'
                BY <1>18, <3>2 DEF GraphIsSeen
            <3> QED
                BY <3>1, <3>2
        <2>2. field' = [o \in Identity |-> field'[o]]
            BY <1>18 DEF GraphIsSeen
        <2> QED
            BY <2>1, <2>2
    <1>28. Live' = Live
        <2>1. Closed(field, Identity) /\ Closed(field', Identity) /\ root_ids \subseteq Identity \cup {Nil}
            BY <1>2, <1>6, <1>18, GraphFacts, GraphFactsNext
        <2>2. \A n \in Reachable(Identity, field, root_ids) : field'[n] = field[n]
            BY <1>22, <1>23, <1>26 DEF Live
        <2>3. Reachable(Identity, field', root_ids) = Reachable(Identity, field, root_ids)
            BY <2>1, <2>2, GarbageIsIrrelevant
        <2> QED
            BY <1>21, <2>3 DEF Live
    <1>29. OnlyLive'
        BY <1>1, <1>4, <1>5, <1>23, <1>26, <1>28 DEF OnlyLive
    <1> QED
        BY <1>17, <1>21, <1>23, <1>26, <1>27, <1>28, <1>29 DEF Base, Inv

--------------------------------------------------------------------------------
(* move_obj().                                                             *)

\* In move_obj() every reference and every root is a forwarding pointer.
LEMMA MovingReferences ==
    ASSUME Inv, Moving
    PROVE  /\ \A a \in Present : \A k \in DOMAIN object[a].field :
                 object[a].field[k] = Nil \/ \E b \in Present : object[a].field[k] = Dest(b)
           /\ \A i \in DOMAIN roots : \E b \in Present : roots[i] = Dest(b)
           /\ \A b \in Present : /\ \A a \in Present : Where(b, Rewritten(a)) = Dest(b)
                                 /\ \A i \in DOMAIN roots : Where(b, RootRewritten(i)) = Dest(b)
           /\ \A b \in Present : /\ \A a \in Present : b \in Targets(Rewritten(a))
                                 /\ \A i \in DOMAIN roots : b \in Targets(RootRewritten(i))
    <1>1. References /\ Kept = Present /\ Forwarded = Present /\ pc # "forward"
        BY InvFacts, MovingFacts
    <1>2. (\A a : Rewritten(a)) /\ \A i : RootRewritten(i)
        BY DEF Rewritten, RootRewritten
    <1>3. \A b \in Present : /\ \A a \in Present : Where(b, Rewritten(a)) = Dest(b)
                             /\ \A i \in DOMAIN roots : Where(b, RootRewritten(i)) = Dest(b)
        BY <1>2 DEF Where
    <1>4. \A b \in Present : /\ \A a \in Present : b \in Targets(Rewritten(a))
                             /\ \A i \in DOMAIN roots : b \in Targets(RootRewritten(i))
        BY <1>1 DEF Targets
    <1> QED
        BY <1>1, <1>3, <1>4 DEF References

\* A step of move_obj() that moves the object at a to m[a], the place that references
\* to it name, is one that the client does not see.
LEMMA MovingStep ==
    ASSUME Inv, Moving, Moving', NEW m, Present' = {m[a] : a \in Present},
           \A a \in Present : /\ object'[m[a]].id = object[a].id
                              /\ object'[m[a]].field = object[a].field
                              /\ object'[m[a]].forwarding = object[a].forwarding,
           UNCHANGED <<roots, stack>>,
           Types', InOrder', Identities', Places', Sliding'
    PROVE  Inv' /\ UNCHANGED <<allocated, field, root_ids>>
    <1>1. Marks /\ OnlyLive /\ Kept = Present /\ Kept' = Present' /\ ~Marking /\ ~Marking'
        BY InvFacts DEF Kept, Deciding, Moving, Marking
    <1>2. Marks'
        BY <1>1 DEF Marks, Moving
    <1>3. (\A a : Rewritten(a)') /\ (\A i : RootRewritten(i)') /\ Forwarded' = Present' /\ pc' # "forward"
        BY DEF Rewritten, RootRewritten, Forwarded, Kept, Deciding, Moving
    <1>4. ASSUME NEW b \in Present
          PROVE  /\ m[b] \in Present' /\ Dest(m[b])' = Dest(b)
                 /\ \A x : /\ Where(m[b], Rewritten(x))' = Dest(b)
                           /\ Where(m[b], RootRewritten(x))' = Dest(b)
                           /\ m[b] \in Targets(Rewritten(x))'
                           /\ m[b] \in Targets(RootRewritten(x))'
        <2>1. m[b] \in Present'
            OBVIOUS
        <2>2. Dest(m[b])' = Dest(b)
            BY DEF Dest
        <2> QED
            BY <1>3, <2>1, <2>2 DEF Where, Targets
    <1>5. References'
        <2>1. ASSUME NEW x \in Present', NEW k \in DOMAIN object'[x].field
              PROVE  \/ object'[x].field[k] = Nil
                     \/ \E y \in Present' : /\ object'[x].field[k] = Where(y, Rewritten(x))'
                                            /\ x \in Kept' => y \in Kept'
            <3>1. PICK a \in Present : x = m[a]
                OBVIOUS
            <3>2. object'[x].field = object[a].field
                BY <3>1
            <3>3. object[a].field[k] = Nil \/ \E b \in Present : object[a].field[k] = Dest(b)
                BY <2>1, <3>2, MovingReferences
            <3> QED
                BY <1>1, <1>4, <3>2, <3>3
        <2>2. ASSUME NEW i \in DOMAIN roots'
              PROVE  \E y \in Kept' : roots'[i] = Where(y, RootRewritten(i))'
            <3>1. PICK b \in Present : roots[i] = Dest(b)
                BY MovingReferences
            <3> QED
                BY <1>1, <1>4, <3>1
        <2> QED
            BY <2>1, <2>2 DEF References
    <1>6. Base'
        BY <1>2, <1>5 DEF Base
    <1>7. GraphIsSeen /\ GraphIsSeen'
        BY <1>6, InvFacts, BaseNextFacts
    <1>8. UNCHANGED <<allocated, field>>
        <2>1. ASSUME NEW a \in Present, NEW k \in DOMAIN object[a].field, object[a].field[k] # Nil
              PROVE  \E b \in Targets(Rewritten(a)) :
                        /\ object[a].field[k] = Where(b, Rewritten(a))
                        /\ m[b] \in Targets(Rewritten(m[a]))'
                        /\ object'[m[a]].field[k] = Where(m[b], Rewritten(m[a]))'
            <3>1. PICK b \in Present : object[a].field[k] = Dest(b)
                BY <2>1, MovingReferences
            <3>2. b \in Targets(Rewritten(a)) /\ Where(b, Rewritten(a)) = Dest(b)
                BY MovingReferences
            <3> QED
                BY <1>4, <3>1, <3>2
        <2> QED
            BY <1>7, <2>1, SameGraph
    <1>9. root_ids' = root_ids
        <2>1. ASSUME NEW i \in DOMAIN roots
              PROVE  \E b \in Targets(RootRewritten(i)) :
                        /\ roots[i] = Where(b, RootRewritten(i))
                        /\ m[b] \in Targets(RootRewritten(i))'
                        /\ roots'[i] = Where(m[b], RootRewritten(i))'
            <3>1. PICK b \in Present : roots[i] = Dest(b)
                BY MovingReferences
            <3>2. b \in Targets(RootRewritten(i)) /\ Where(b, RootRewritten(i)) = Dest(b)
                BY MovingReferences
            <3> QED
                BY <1>4, <3>1, <3>2
        <2> QED
            BY <1>7, <2>1, SameRoots
    <1>10. OnlyLive'
        <2>1. Live' = Live
            BY <1>8, <1>9 DEF Live
        <2>2. \A a \in Present : object[a].id \in Live
            BY <1>1 DEF OnlyLive, Moving
        <2>3. \A x \in Present' : object'[x].id \in Live'
            BY <2>1, <2>2
        <2> QED
            BY <1>1, <2>3 DEF OnlyLive
    <1> QED
        BY <1>6, <1>8, <1>9, <1>10 DEF Base, Inv

\* The same, of a step after which everything is where it was.
LEMMA StandstillStep ==
    ASSUME Inv, Moving, Moving', UNCHANGED <<memory, request, ri, stack, new_address>>,
           scan' \in Address, new_address <= scan', Pending' = Pending,
           \A a \in Standing' : a \in Standing,
           scan' \in Standing' \cup {heap_end},
           \A a \in Standing' : a + Size(a) \in Standing' \cup {heap_end},
           pc' \in {"move", "undefined"}
    PROVE  Inv' /\ UNCHANGED <<allocated, field, root_ids>>
    <1>1. Types /\ InOrder /\ Identities /\ Places /\ Sliding
        BY InvFacts
    <1>2. UNCHANGED <<object, next_free_offset, roots>>
        BY DEF memory
    <1>3. Objects' = Objects /\ heap_end' = heap_end /\ \A a : Size(a)' = Size(a) /\ Dest(a)' = Dest(a)
        BY <1>2 DEF Objects, heap_end, Size, Dest
    <1>4. Settled' = Settled
        BY <1>3 DEF Settled
    <1>5. Present' = Present /\ Forwarded' = Forwarded /\ Forwarded = Present
        <2>1. Present' = Settled' \cup Pending' /\ Forwarded' = Present'
            BY DEF Present, Settled, Pending, Forwarded, Kept, Deciding, Moving
        <2>2. Present = Settled \cup Pending /\ Forwarded = Present
            BY MovingFacts
        <2> QED
            BY <1>4, <2>1, <2>2
    <1>6. Types'
        BY <1>1, <1>2, <1>3 DEF Types
    <1>7. InOrder'
        <2>1. \A a \in Standing : a < heap_end /\ \A b \in Standing : a < b => a + Size(a) <= b
            BY <1>1 DEF InOrder
        <2>2. \A a, b \in Standing' : a < b => a + Size(a)' <= b
            BY <1>3, <2>1
        <2>3. \A a \in Standing' : a < heap_end' /\ a + Size(a)' \in Standing' \cup {heap_end'}
            BY <1>3, <2>1
        <2>4. pc' \notin {"forward", "adjust"}
            OBVIOUS
        <2>5. scan' \in Standing' \cup {heap_end'}
            BY <1>3
        <2> QED
            BY <2>2, <2>3, <2>4, <2>5 DEF InOrder
    <1>8. Identities'
        <2>1. RoomFor(Settled, new_address - heap)'
            BY <1>1, <1>4 DEF Identities, RoomFor
        <2>2. \A a, b \in Present' : object'[a].id = object'[b].id => a = b
            BY <1>1, <1>2, <1>5 DEF Identities
        <2> QED
            BY <2>1, <2>2 DEF Identities
    <1>9. Places'
        <2>1. \A a \in Forwarded' : heap <= Dest(a)' /\ Dest(a)' <= a
            BY <1>1, <1>3, <1>5 DEF Places
        <2>2. \A a, b \in Forwarded' : a < b => Dest(a)' + Size(a)' <= Dest(b)'
            BY <1>1, <1>3, <1>5 DEF Places
        <2>3. ~Deciding'
            BY DEF Deciding
        <2> QED
            BY <2>1, <2>2, <2>3 DEF Places
    <1>10. Sliding'
        BY <1>1, <1>2, <1>3, <1>4 DEF Sliding
    <1>11. PICK m : m = [a \in Present |-> a]
        OBVIOUS
    <1>12. Present' = {m[a] : a \in Present}
        BY <1>5, <1>11
    <1>13. \A a \in Present : /\ object'[m[a]].id = object[a].id
                              /\ object'[m[a]].field = object[a].field
                              /\ object'[m[a]].forwarding = object[a].forwarding
        BY <1>2, <1>11
    <1> QED
        BY <1>2, <1>6, <1>7, <1>8, <1>9, <1>10, <1>12, <1>13, MovingStep

LEMMA SkipDeadStep ==
    ASSUME Inv, SkipDead PROVE Inv' /\ UNCHANGED <<allocated, field, root_ids>>
    <1>1. /\ pc = "move" /\ pc' = "move" /\ scan < heap_end /\ ~object[scan].marked
          /\ scan' = scan + Size(scan)
          /\ UNCHANGED <<memory, request, ri, stack, new_address>>
        BY DEF SkipDead
    <1>2. Types /\ InOrder /\ Sliding /\ Moving /\ Moving'
        BY <1>1, InvFacts DEF Moving
    <1>3. /\ scan \in Objects /\ scan \in Standing /\ Size(scan) \in Nat /\ Size(scan) > 0
          /\ scan + Size(scan) \in Standing \cup {heap_end} /\ scan + Size(scan) \in Address
          /\ \A a \in Standing : a < scan + Size(scan) <=> a < scan \/ a = scan
        BY <1>1, <1>2, WalkStep
    <1>4. Standing = {a \in Objects : scan <= a} /\ \A a \in Objects : a \in Nat
        BY <1>2, MovingFacts, CellFacts
    <1>5. scan \in Nat /\ heap_end \in Nat /\ new_address \in Nat /\ new_address <= scan
        BY <1>2, EndFacts DEF Sliding
    <1>6. Objects' = Objects
        BY <1>1 DEF Objects, memory
    <1>7. PICK n \in Nat : n = scan + Size(scan)
        BY <1>3, <1>5
    <1>8. \A a \in Objects : n <= a <=> scan <= a /\ a # scan
        BY <1>3, <1>4, <1>5, <1>7
    <1>9. Standing' = {a \in Objects : n <= a}
        BY <1>1, <1>2, <1>6, <1>7 DEF Standing
    <1>10. Pending' = Pending
        <2>1. Pending' = {a \in Objects : n <= a /\ object[a].marked}
            BY <1>1, <1>6, <1>7 DEF Pending, memory
        <2> QED
            BY <1>1, <1>8, <2>1 DEF Pending
    <1>11. \A a \in Standing' : a \in Standing
        BY <1>4, <1>8, <1>9
    <1>12. n \in Standing' \cup {heap_end}
        BY <1>3, <1>4, <1>7, <1>9
    <1>13. \A a \in Standing' : a + Size(a) \in Standing' \cup {heap_end}
        <2>1. ASSUME NEW a \in Standing' PROVE a + Size(a) \in Standing' \cup {heap_end}
            <3>1. a + Size(a) \in Standing \cup {heap_end}
                BY <1>2, <1>11 DEF InOrder
            <3>2. n <= a /\ a \in Objects /\ a \in Nat /\ Size(a) \in Nat
                BY <1>2, <1>9, CellFacts
            <3>3. n <= a + Size(a)
                BY <1>7, <3>2
            <3> QED
                BY <1>4, <1>9, <3>1, <3>3
        <2> QED
            BY <2>1
    <1>14. new_address <= scan' /\ scan' \in Address /\ scan' \in Standing' \cup {heap_end}
        BY <1>1, <1>3, <1>5, <1>7, <1>12
    <1> QED
        BY <1>1, <1>2, <1>10, <1>11, <1>13, <1>14, StandstillStep

LEMMA MoveOntoItselfStep ==
    ASSUME Inv, MoveOntoItself PROVE Inv' /\ UNCHANGED <<allocated, field, root_ids>>
    <1>1. /\ pc = "move" /\ pc' = "undefined"
          /\ UNCHANGED <<memory, request, ri, stack, scan, new_address>>
        BY DEF MoveOntoItself, walk
    <1>2. Types /\ InOrder /\ Sliding /\ Moving /\ Moving'
        BY <1>1, InvFacts DEF Moving
    <1>3. Standing' = Standing /\ Pending' = Pending
        BY <1>1, <1>2 DEF Standing, Pending, Objects, memory
    <1>4. /\ scan' \in Address /\ new_address <= scan' /\ scan' \in Standing' \cup {heap_end}
          /\ \A a \in Standing' : a + Size(a) \in Standing' \cup {heap_end}
        BY <1>1, <1>2, <1>3 DEF Types, Sliding, InOrder
    <1> QED
        BY <1>1, <1>2, <1>3, <1>4, StandstillStep

\* What memcpy is about to do: the object at scan goes where the free part begins.
LEMMA NextPlace ==
    ASSUME Inv, pc = "move", scan < heap_end, object[scan].marked,
           NEW s, s = scan, NEW d, d = Dest(s), NEW k, k = Size(s)
    PROVE  /\ s \in Pending /\ s \in Present /\ s \in Objects /\ s \in Nat
           /\ d = new_address /\ d \in Nat /\ d \in Address /\ d <= s
           /\ k \in Nat /\ k > 0 /\ s + k \in Address
           /\ d + k <= s + k
           /\ s + k \in Standing \cup {heap_end}
           /\ \A a \in Standing : a = s \/ s + k <= a
           /\ \A a \in Settled : a < d
    <1>1. Types /\ InOrder /\ Places /\ Sliding /\ Moving
        BY InvFacts DEF Moving
    <1>2. /\ s \in Objects /\ s \in Standing /\ k \in Nat /\ k > 0
          /\ s + k \in Standing \cup {heap_end} /\ s + k \in Address
          /\ \A a \in Standing : a < s + k <=> a < s \/ a = s
        BY <1>1, WalkStep
    <1>3. /\ s \in Nat /\ d \in Nat /\ new_address \in Nat /\ new_address <= s
          /\ \A a \in Objects : a \in Nat
        BY <1>1, <1>2, EndFacts, CellFacts DEF Sliding
    <1>4. s \in Pending /\ s \in Present /\ Forwarded = Present /\ Pending \subseteq Present
        BY <1>1, <1>2, <1>3, MovingFacts DEF Pending
    <1>5. heap <= d /\ d <= s /\ new_address <= d
        BY <1>1, <1>4 DEF Places, Sliding
    <1>6. d = new_address
        <2>1. PICK b \in Pending : Dest(b) = new_address
            BY <1>1, <1>4 DEF Sliding
        <2>2. CASE b = s
            BY <2>1, <2>2
        <2>3. CASE b # s
            <3>1. s < b
                BY <1>3, <2>3 DEF Pending
            <3>2. d + k <= Dest(b)
                BY <1>1, <1>4, <3>1 DEF Places
            <3> QED
                BY <1>2, <1>3, <1>5, <2>1, <3>2
        <2> QED
            BY <2>2, <2>3
    <1>7. d \in Address
        <2>1. s + k <= heap + heap_size /\ heap_size \in Nat /\ heap \in Nat
            BY <1>2, HeapFacts
        <2> QED
            BY <1>2, <1>3, <1>5, <2>1, HeapFacts
    <1>8. \A a \in Standing : a = s \/ s + k <= a
        <2>1. \A a \in Standing : scan <= a /\ a \in Nat
            BY <1>1, <1>3, MovingFacts
        <2> QED
            BY <1>2, <1>3, <2>1
    <1>9. \A a \in Settled : a < d
        BY <1>6 DEF Settled
    <1> QED
        BY <1>2, <1>3, <1>4, <1>5, <1>6, <1>7, <1>8, <1>9

\* It goes to its present place or wholly below it.
LEMMA MovePlace ==
    ASSUME Inv, Move, NEW s, s = scan, NEW d, d = Dest(s), NEW k, k = Size(s)
    PROVE  /\ s \in Pending /\ s \in Present /\ s \in Objects /\ s \in Nat
           /\ d = new_address /\ d \in Nat /\ d \in Address /\ d <= s
           /\ k \in Nat /\ k > 0 /\ s + k \in Address
           /\ d = s \/ d + k <= s
           /\ d + k <= s + k
           /\ s + k \in Standing \cup {heap_end}
           /\ \A a \in Standing : a = s \/ s + k <= a
           /\ \A a \in Settled : a < d
    <1>1. pc = "move" /\ scan < heap_end /\ object[scan].marked /\ (d = s \/ s \notin d..(d + k - 1))
        BY DEF Move, Overwritten, Dest
    <1>2. /\ s \in Pending /\ s \in Present /\ s \in Objects /\ s \in Nat
          /\ d = new_address /\ d \in Nat /\ d \in Address /\ d <= s
          /\ k \in Nat /\ k > 0 /\ s + k \in Address
          /\ d + k <= s + k
          /\ s + k \in Standing \cup {heap_end}
          /\ \A a \in Standing : a = s \/ s + k <= a
          /\ \A a \in Settled : a < d
        BY <1>1, NextPlace
    <1>3. d = s \/ d + k <= s
        BY <1>1, <1>2
    <1> QED
        BY <1>2, <1>3

\* What memcpy does.
LEMMA MoveEffect ==
    ASSUME Inv, Move, NEW s, s = scan, NEW d, d = Dest(s), NEW k, k = Size(s)
    PROVE  /\ Settled' = Settled \cup {d} /\ d \notin Settled
           /\ Pending' = Pending \ {s} /\ Standing' = Standing \ {s}
           /\ Objects' \subseteq Objects \cup {d}
           /\ \A a \in Settled \cup (Standing \ {s}) : a \in Objects' /\ object'[a] = object[a]
           /\ \A a \in Objects' \ {s, d} : object'[a] = object[a]
           /\ \A a \in Objects' \cap {s, d} :
                 /\ object'[a] \in Cell /\ object'[a].clss = object[s].clss
                 /\ object'[a].field = object[s].field /\ object'[a].id = object[s].id
                 /\ object'[a].forwarding = d /\ ~object'[a].marked
           /\ d \in Objects'
    <1>1. /\ pc = "move" /\ pc' = "move" /\ scan' = s + k /\ new_address' = new_address + k
          /\ object' = [a \in (Objects \ (d..(d + k - 1))) \cup {d} |->
                          IF a \in {s, d} THEN Unmarked ELSE object[a]]
        BY DEF Move, Overwritten, Dest
    <1>2. Types /\ Moving /\ Moving'
        BY <1>1, InvFacts DEF Moving
    <1>3. /\ s \in Pending /\ s \in Present /\ s \in Objects /\ s \in Nat
          /\ d = new_address /\ d \in Nat /\ d <= s /\ k \in Nat /\ k > 0
          /\ d = s \/ d + k <= s
          /\ d + k <= s + k
          /\ \A a \in Standing : a = s \/ s + k <= a
          /\ \A a \in Settled : a < d
        BY MovePlace
    <1>4. \A a \in Objects : a \in Nat
        BY <1>2, CellFacts
    <1>5. Objects' = (Objects \ (d..(d + k - 1))) \cup {d}
        BY <1>1 DEF Objects
    <1>6. /\ Unmarked \in Cell /\ ~Unmarked.marked /\ Unmarked.clss = object[s].clss
          /\ Unmarked.field = object[s].field /\ Unmarked.id = object[s].id
          /\ Unmarked.forwarding = d
        <2>1. object[s] \in Cell /\ object[s].forwarding = d
            BY <1>2, <1>3, CellFacts DEF Dest
        <2>2. Unmarked = [object[s] EXCEPT !.marked = FALSE]
            BY DEF Unmarked
        <2> QED
            BY <2>1, <2>2, CellUpdates
    <1>7. \A a \in Nat : a \in d..(d + k - 1) <=> d <= a /\ a < d + k
        BY <1>3
    <1>8. \A a \in Objects' : object'[a] = IF a \in {s, d} THEN Unmarked ELSE object[a]
        BY <1>1, <1>5
    <1>9. Settled \subseteq Objects /\ Standing = {a \in Objects : s <= a} /\ Pending \subseteq Standing
        BY <1>2, MovingFacts
    <1>10. ASSUME NEW a \in Settled PROVE a \in Objects' /\ a # s /\ a # d
        <2>1. a \in Nat /\ a < d /\ a \in Objects
            BY <1>3, <1>4, <1>9
        <2> QED
            BY <1>3, <1>5, <1>7, <2>1
    <1>11. ASSUME NEW a \in Standing \ {s} PROVE a \in Objects' /\ a # d /\ s + k <= a
        <2>1. a \in Nat /\ s + k <= a /\ a \in Objects
            BY <1>3, <1>4, <1>9
        <2>2. d + k <= a
            BY <1>3, <2>1
        <2> QED
            BY <1>3, <1>5, <1>7, <2>1, <2>2
    <1>12. Settled' = Settled \cup {d}
        <2>1. Settled' = {a \in Objects' : a < d + k}
            BY <1>1, <1>3 DEF Settled
        <2>2. ASSUME NEW a \in Objects', a < d + k PROVE a \in Settled \cup {d}
            <3>1. a = d \/ (a \in Objects /\ a \notin d..(d + k - 1))
                BY <1>5
            <3>2. CASE a \in Objects /\ a \notin d..(d + k - 1)
                <4>1. a \in Nat
                    BY <1>4, <3>2
                <4>2. a < d
                    BY <1>3, <2>2, <3>2, <4>1
                <4> QED
                    BY <1>3, <3>2, <4>2 DEF Settled
            <3> QED
                BY <3>1, <3>2
        <2>3. \A a \in Settled : a < d + k
            BY <1>3, <1>4, <1>9
        <2>4. d < d + k
            BY <1>3
        <2> QED
            BY <1>5, <1>10, <2>1, <2>2, <2>3, <2>4
    <1>13. Standing' = Standing \ {s}
        <2>1. Standing' = {a \in Objects' : s + k <= a}
            BY <1>1, <1>2 DEF Standing
        <2>2. ASSUME NEW a \in Objects', s + k <= a PROVE a \in Standing /\ a # s
            <3>1. a # d /\ a # s
                BY <1>3, <2>2
            <3>2. a \in Objects /\ a \in Nat
                BY <1>4, <1>5, <3>1
            <3> QED
                BY <1>3, <1>9, <2>2, <3>1, <3>2
        <2> QED
            BY <1>11, <2>1, <2>2
    <1>14. Pending' = Pending \ {s}
        <2>1. Pending' = {a \in Standing' : object'[a].marked}
            BY <1>1, <1>2 DEF Pending, Standing
        <2>2. \A a \in Standing \ {s} : object'[a] = object[a]
            BY <1>8, <1>11
        <2>3. Pending = {a \in Standing : object[a].marked}
            BY <1>9 DEF Pending
        <2> QED
            BY <1>13, <2>1, <2>2, <2>3
    <1>15. \A a \in Settled \cup (Standing \ {s}) : a \in Objects' /\ object'[a] = object[a]
        BY <1>8, <1>10, <1>11
    <1> QED
        BY <1>3, <1>5, <1>6, <1>8, <1>12, <1>13, <1>14, <1>15

LEMMA MoveStep ==
    ASSUME Inv, Move PROVE Inv' /\ UNCHANGED <<allocated, field, root_ids>>
    <1>1. PICK s : s = scan
        OBVIOUS
    <1>2. PICK d : d = Dest(s)
        OBVIOUS
    <1>3. PICK k : k = Size(s)
        OBVIOUS
    <1>4. /\ pc = "move" /\ pc' = "move" /\ scan' = s + k /\ new_address' = new_address + k
          /\ UNCHANGED <<next_free_offset, roots, request, ri, stack>>
        BY <1>1, <1>3 DEF Move
    <1>5. /\ Types /\ InOrder /\ Identities /\ Marks /\ Places /\ Sliding /\ Moving /\ Moving'
          /\ ~Deciding' /\ ~Marking
        BY <1>4, InvFacts DEF Moving, Deciding, Marking
    <1>6. /\ s \in Pending /\ s \in Present /\ s \in Objects /\ s \in Nat
          /\ d = new_address /\ d \in Nat /\ d \in Address /\ d <= s
          /\ k \in Nat /\ k > 0 /\ s + k \in Address
          /\ d = s \/ d + k <= s
          /\ d + k <= s + k
          /\ s + k \in Standing \cup {heap_end}
          /\ \A a \in Standing : a = s \/ s + k <= a
          /\ \A a \in Settled : a < d
        BY <1>1, <1>2, <1>3, MovePlace
    <1>7. /\ Settled' = Settled \cup {d} /\ d \notin Settled
          /\ Pending' = Pending \ {s} /\ Standing' = Standing \ {s}
          /\ Objects' \subseteq Objects \cup {d}
          /\ \A a \in Settled \cup (Standing \ {s}) : a \in Objects' /\ object'[a] = object[a]
          /\ \A a \in Objects' \ {s, d} : object'[a] = object[a]
          /\ \A a \in Objects' \cap {s, d} :
                /\ object'[a] \in Cell /\ object'[a].clss = object[s].clss
                /\ object'[a].field = object[s].field /\ object'[a].id = object[s].id
                /\ object'[a].forwarding = d /\ ~object'[a].marked
          /\ d \in Objects'
        BY <1>1, <1>2, <1>3, MoveEffect
    <1>8. /\ Present = Settled \cup Pending /\ Forwarded = Present
          /\ Standing = {a \in Objects : s <= a}
          /\ Settled \subseteq Objects /\ Pending \subseteq Standing
          /\ \A a \in Objects : a \in Nat /\ Size(a) \in Nat /\ Size(a) > 0 /\ Dest(a) \in Nat
        BY <1>1, <1>5, MovingFacts, CellFacts
    <1>9. Present' = Settled' \cup Pending' /\ Forwarded' = Present'
        <2>1. Present' = Settled' \cup Pending'
            BY <1>5 DEF Present, Settled, Pending
        <2> QED
            BY <1>5, <2>1 DEF Forwarded, Kept, Moving, Deciding
    <1>10. \A a \in Settled \cup (Standing \ {s}) : Size(a)' = Size(a) /\ Dest(a)' = Dest(a)
        BY <1>7 DEF Size, Dest
    <1>11. Size(d)' = k /\ Dest(d)' = d
        BY <1>3, <1>7 DEF Size, Dest
    <1>12. s \notin Settled /\ \A a \in Settled : a < s
        BY <1>6, <1>8
    <1>13. PICK m : m = [a \in Present |-> IF a = s THEN d ELSE a]
        OBVIOUS
    <1>14. m[s] = d /\ \A a \in Present \ {s} : m[a] = a /\ a \in Settled \cup (Standing \ {s})
        BY <1>6, <1>8, <1>13
    <1>15. Present' = {m[a] : a \in Present}
        <2>1. \A a \in Present : m[a] \in Present'
            BY <1>7, <1>8, <1>9, <1>14
        <2>2. ASSUME NEW x \in Present' PROVE \E a \in Present : x = m[a]
            <3>1. x = d \/ x \in Present \ {s}
                BY <1>7, <1>8, <1>9, <1>12
            <3> QED
                BY <1>6, <1>14, <3>1
        <2> QED
            BY <2>1, <2>2
    <1>16. \A a \in Present : /\ object'[m[a]].id = object[a].id
                              /\ object'[m[a]].field = object[a].field
                              /\ object'[m[a]].forwarding = object[a].forwarding
        BY <1>2, <1>7, <1>14 DEF Dest
    <1>17. \A a \in Present : Size(m[a])' = Size(a) /\ Dest(m[a])' = Dest(a)
        BY <1>2, <1>3, <1>10, <1>11, <1>14
    <1>18. heap_end' = heap_end /\ heap_end \in Nat
        BY <1>4, <1>5, EndFacts DEF heap_end
    <1>19. Types'
        <2>1. \A a \in Objects' : a \in Address
            BY <1>5, <1>6, <1>7 DEF Types
        <2>2. \A a \in Objects' : object'[a] \in Cell
            BY <1>5, <1>7 DEF Types
        <2>3. ASSUME NEW a \in Objects' PROVE a + Size(a)' <= heap + heap_size
            <3>1. CASE a \notin {s, d}
                <4>1. a \in Objects /\ Size(a)' = Size(a)
                    BY <1>7, <3>1 DEF Size
                <4> QED
                    BY <1>5, <4>1 DEF Types
            <3>2. CASE a \in {s, d}
                <4>1. Size(a)' = k
                    BY <1>3, <1>7, <3>2 DEF Size
                <4>2. s + k <= heap + heap_size /\ a + k <= s + k
                    BY <1>6, <3>2, HeapFacts
                <4>3. heap + heap_size \in Nat
                    BY HeapFacts
                <4> QED
                    BY <1>6, <3>2, <4>1, <4>2, <4>3
            <3> QED
                BY <3>1, <3>2
        <2>4. new_address' \in Address
            <3>1. s + k <= heap + heap_size /\ heap + heap_size \in Nat /\ heap \in Nat /\ heap <= d
                BY <1>6, HeapFacts
            <3>2. d + k \in Nat /\ heap <= d + k /\ d + k <= heap + heap_size
                BY <1>6, <3>1
            <3> QED
                BY <1>4, <1>6, <3>2, HeapFacts
        <2>5. stack = <<>>
            BY <1>5 DEF Marks
        <2>6. \A j \in DOMAIN stack' : stack'[j].obj \in Objects'
            BY <1>4, <2>5
        <2>7. scan' \in Address
            BY <1>4, <1>6
        <2>8. /\ next_free_offset' \in 0..heap_size /\ roots' \in Seq(Pointer) /\ Len(roots') <= MAX_ROOTS
              /\ request' \in Class \cup {NoRequest} /\ ri' \in 1..(MAX_ROOTS + 1) /\ stack' \in Seq(Frame)
            BY <1>4, <1>5 DEF Types
        <2> QED
            BY <1>4, <2>1, <2>2, <2>3, <2>4, <2>6, <2>7, <2>8 DEF Types
    <1>20. InOrder'
        <2>1. scan' \in Standing' \cup {heap_end'}
            BY <1>4, <1>6, <1>7, <1>18
        <2>2. ASSUME NEW a \in Standing' PROVE a + Size(a)' \in Standing' \cup {heap_end'}
            <3>1. a \in Standing /\ a \in Standing \ {s} /\ a \in Nat /\ Size(a) \in Nat /\ Size(a)' = Size(a)
                BY <1>7, <1>8, <1>10
            <3>2. a + Size(a) \in Standing \cup {heap_end}
                BY <1>5, <3>1 DEF InOrder
            <3>3. s + k <= a
                BY <1>6, <3>1
            <3>4. a + Size(a) # s
                BY <1>6, <3>1, <3>3
            <3> QED
                BY <1>7, <1>18, <3>1, <3>2, <3>4
        <2>3. \A a \in Standing' : a < heap_end'
            BY <1>5, <1>7, <1>18 DEF InOrder
        <2>4. ASSUME NEW a \in Standing', NEW b \in Standing', a < b PROVE a + Size(a)' <= b
            <3>1. a \in Standing /\ b \in Standing /\ Size(a)' = Size(a)
                BY <1>7, <1>10
            <3> QED
                BY <1>5, <2>4, <3>1 DEF InOrder
        <2> QED
            BY <1>4, <1>5, <2>1, <2>2, <2>3, <2>4 DEF InOrder
    <1>21. Identities'
        <2>1. ASSUME NEW x \in Present', NEW y \in Present', object'[x].id = object'[y].id
              PROVE  x = y
            <3>1. PICK a \in Present : x = m[a]
                BY <1>15
            <3>2. PICK b \in Present : y = m[b]
                BY <1>15
            <3>3. object[a].id = object[b].id
                BY <1>16, <2>1, <3>1, <3>2
            <3>4. a = b
                BY <1>5, <3>3 DEF Identities
            <3> QED
                BY <3>1, <3>2, <3>4
        <2>2. RoomFor(Settled', new_address' - heap)
            <3>1. RoomFor(Settled, d - heap)
                BY <1>5, <1>6 DEF Identities
            <3>2. d - heap \in Nat /\ (d + k) - heap = (d - heap) + k
                BY <1>6, HeapFacts
            <3>3. IsFiniteSet(Settled)
                BY <1>5, <1>8, ObjectsFinite, FS_Subset
            <3>4. object[s].clss \in Class /\ object[s].clss.size = k
                BY <1>3, <1>5, <1>6, CellFacts
            <3>5. RoomFor(Settled \cup {d}, (d - heap) + k)
                BY <1>7, <3>1, <3>2, <3>3, <3>4, RoomForOneMore
            <3> QED
                BY <1>4, <1>6, <1>7, <3>2, <3>5
        <2>3. RoomFor(Settled, new_address - heap)'
            BY <2>2 DEF RoomFor
        <2> QED
            BY <1>5, <2>1, <2>3 DEF Identities
    <1>22. Places'
        <2>1. ASSUME NEW a \in Present PROVE heap <= Dest(m[a])' /\ Dest(m[a])' <= m[a]
            <3>1. heap <= Dest(a) /\ Dest(a) <= a /\ Dest(m[a])' = Dest(a)
                BY <1>5, <1>8, <1>17 DEF Places
            <3>2. (a = s => Dest(a) = d /\ m[a] = d) /\ (a # s => m[a] = a)
                BY <1>2, <1>14
            <3> QED
                BY <1>6, <3>1, <3>2
        <2>2. ASSUME NEW a \in Present, NEW b \in Present, m[a] < m[b] PROVE a < b
            <3>1. a \in Nat /\ b \in Nat /\ (a = s \/ a < d \/ s + k <= a) /\ (b = s \/ b < d \/ s + k <= b)
                BY <1>6, <1>8
            <3>2. (a = s => m[a] = d) /\ (a # s => m[a] = a) /\ (b = s => m[b] = d) /\ (b # s => m[b] = b)
                BY <1>14
            <3> QED
                BY <1>6, <2>2, <3>1, <3>2
        <2>3. ASSUME NEW a \in Present, NEW b \in Present, m[a] < m[b]
              PROVE  Dest(m[a])' + Size(m[a])' <= Dest(m[b])'
            <3>1. a < b
                BY <2>2, <2>3
            <3>2. Dest(a) + Size(a) <= Dest(b)
                BY <1>5, <1>8, <3>1 DEF Places
            <3> QED
                BY <1>17, <3>2
        <2>4. \A x \in Forwarded' : heap <= Dest(x)' /\ Dest(x)' <= x
            BY <1>9, <1>15, <2>1
        <2>5. \A x, y \in Forwarded' : x < y => Dest(x)' + Size(x)' <= Dest(y)'
            BY <1>9, <1>15, <2>3
        <2> QED
            BY <1>5, <2>4, <2>5 DEF Places
    <1>23. Sliding'
        <2>1. new_address' = d + k /\ new_address' <= scan'
            BY <1>4, <1>6
        <2>2. heap \in Settled' \cup {new_address'}
            BY <1>5, <1>6, <1>7 DEF Sliding
        <2>3. ASSUME NEW a \in Settled'
              PROVE  /\ Dest(a)' = a /\ ~object'[a].marked
                     /\ a + Size(a)' <= new_address'
                     /\ a + Size(a)' \in Settled' \cup {new_address'}
            <3>1. CASE a = d
                BY <1>6, <1>7, <1>11, <2>1, <3>1
            <3>2. CASE a \in Settled
                <4>1. /\ Dest(a) = a /\ ~object[a].marked /\ a + Size(a) <= d
                      /\ a + Size(a) \in Settled \cup {d}
                    BY <1>5, <1>6, <3>2 DEF Sliding
                <4>2. Dest(a)' = Dest(a) /\ Size(a)' = Size(a) /\ object'[a] = object[a]
                    BY <1>7, <1>10, <3>2
                <4>3. a \in Nat /\ Size(a) \in Nat
                    BY <1>8, <3>2
                <4>4. a + Size(a) <= d + k
                    BY <1>6, <4>1, <4>3
                <4> QED
                    BY <1>7, <2>1, <4>1, <4>2, <4>4
            <3> QED
                BY <1>7, <3>1, <3>2
        <2>4. ASSUME NEW a \in Pending'
              PROVE  /\ a \in Pending /\ a # s /\ s < a /\ Dest(a)' = Dest(a) /\ Size(a)' = Size(a)
                     /\ Dest(a) \in Nat /\ Dest(a) >= d + k
            <3>1. a \in Pending /\ a # s /\ a \in Standing /\ a \in Present /\ a \in Objects
                BY <1>7, <1>8
            <3>2. s < a
                BY <1>6, <1>8, <3>1
            <3>3. d + k <= Dest(a)
                BY <1>2, <1>3, <1>5, <1>6, <1>8, <3>1, <3>2 DEF Places
            <3> QED
                BY <1>6, <1>8, <1>10, <3>1, <3>2, <3>3
        <2>5. \A a \in Pending' : Dest(a)' >= new_address'
            BY <2>1, <2>4
        <2>6. ASSUME NEW c \in Pending, Dest(c) >= d + k PROVE c \in Pending' /\ Dest(c)' = Dest(c)
            <3>1. ASSUME c = s PROVE FALSE
                <4>1. d >= d + k
                    BY <1>2, <2>6, <3>1
                <4> QED
                    BY <1>6, <4>1
            <3> QED
                BY <1>7, <1>8, <1>10, <3>1
        <2>7. ASSUME NEW a \in Pending' PROVE \E b \in Pending' : Dest(b)' = new_address'
            <3>1. PICK c \in Pending : Dest(c) = Dest(s) + Size(s)
                BY <1>5, <1>6, <2>4 DEF Sliding
            <3>2. Dest(c) = d + k
                BY <1>2, <1>3, <3>1
            <3>3. d + k >= d + k
                BY <1>6
            <3> QED
                BY <2>1, <2>6, <3>2, <3>3
        <2>8. ASSUME NEW a \in Pending', NEW b \in Pending', a < b
              PROVE  \E c \in Pending' : Dest(c)' = Dest(a)' + Size(a)'
            <3>1. a \in Pending /\ b \in Pending
                BY <2>4
            <3>2. PICK c \in Pending : Dest(c) = Dest(a) + Size(a)
                BY <1>5, <2>8, <3>1 DEF Sliding
            <3>3. Size(a) \in Nat
                BY <1>8, <3>1
            <3>4. Dest(c) >= d + k
                BY <1>6, <2>4, <3>2, <3>3
            <3> QED
                BY <2>4, <2>6, <3>2, <3>4
        <2> QED
            BY <2>1, <2>2, <2>3, <2>5, <2>7, <2>8 DEF Sliding
    <1> QED
        BY <1>4, <1>5, <1>15, <1>16, <1>19, <1>20, <1>21, <1>22, <1>23, MovingStep

\* After move_obj() has gone over the whole heap, what it has moved is all there is.
LEMMA AllMoved ==
    ASSUME Inv, pc = "move", scan >= heap_end
    PROVE  Present = Settled /\ Pending = {}
    <1>1. Types /\ InOrder /\ Moving
        BY InvFacts DEF Moving
    <1>2. Present = Settled \cup Pending /\ Pending \subseteq Standing /\ Standing = {a \in Objects : scan <= a}
        BY <1>1, MovingFacts
    <1>3. \A a \in Standing : a \in Nat /\ scan <= a /\ a < heap_end
        BY <1>1, <1>2, CellFacts DEF InOrder
    <1>4. scan \in Nat /\ heap_end \in Nat
        BY <1>1, EndFacts
    <1>5. Standing = {}
        BY <1>3, <1>4
    <1> QED
        BY <1>2, <1>5

LEMMA MoveDoneStep ==
    ASSUME Inv, MoveDone
    PROVE  /\ Inv' /\ UNCHANGED <<allocated, field, root_ids>> /\ allocated = Live
           /\ \A a \in Objects' : ~object'[a].marked /\ object'[a].forwarding = a
    <1>1. /\ pc = "move" /\ scan >= heap_end
          /\ object' = [a \in {b \in Objects : b < new_address} |-> object[a]]
          /\ next_free_offset' = new_address - heap
          /\ pc' = IF request = NoRequest THEN "run" ELSE "alloc"
          /\ ri' = 1 /\ scan' = heap /\ new_address' = heap
          /\ UNCHANGED <<roots, request, stack>>
        BY DEF MoveDone
    <1>2. /\ Types /\ InOrder /\ Identities /\ Marks /\ Places /\ Sliding /\ OnlyLive
          /\ Moving /\ ~Moving' /\ GraphIsSeen /\ ReferencesLead
        BY <1>1, InvFacts DEF Moving
    <1>3. Present = Settled /\ Kept = Settled /\ Forwarded = Settled /\ Settled \subseteq Objects
        BY <1>1, <1>2, AllMoved, MovingFacts
    <1>4. Objects' = Settled /\ \A a \in Settled : object'[a] = object[a]
        BY <1>1 DEF Objects, Settled
    <1>5. Present' = Settled /\ Standing' = Settled
        BY <1>2, <1>4 DEF Present, Standing
    <1>6. \A a \in Settled : Size(a)' = Size(a) /\ Dest(a)' = Dest(a)
        BY <1>4 DEF Size, Dest
    <1>7. \A a \in Settled : /\ Dest(a) = a /\ ~object[a].marked
                             /\ a + Size(a) \in Settled \cup {new_address}
                             /\ a < new_address
        BY <1>2 DEF Sliding, Settled
    <1>8. heap_end' = new_address
        BY <1>1, <1>2, EndFacts, HeapFacts DEF heap_end
    <1>9. Types'
        <2>1. /\ \A a \in Objects' : a \in Address /\ object'[a] \in Cell
              /\ \A a \in Objects' : a + Size(a)' <= heap + heap_size
            BY <1>2, <1>3, <1>4, <1>6 DEF Types
        <2>2. next_free_offset' \in 0..heap_size
            <3>1. new_address \in Nat /\ heap <= new_address /\ new_address <= heap + heap_size
                BY <1>2, HeapFacts DEF Types
            <3> QED
                BY <1>1, <3>1, HeapFacts
        <2>3. ri' \in 1..(MAX_ROOTS + 1)
            BY <1>1, SizeAssumption
        <2>4. heap \in Address
            BY HeapFacts
        <2>5. stack = <<>>
            BY <1>1, <1>2 DEF Marks, Marking
        <2>6. \A j \in DOMAIN stack' : stack'[j].obj \in Objects'
            BY <1>1, <2>5
        <2>7. /\ roots' \in Seq(Pointer) /\ Len(roots') <= MAX_ROOTS
              /\ request' \in Class \cup {NoRequest} /\ stack' \in Seq(Frame)
            BY <1>1, <1>2 DEF Types
        <2>8. pc' \in {"run", "alloc"}
            BY <1>1
        <2> QED
            BY <1>1, <2>1, <2>2, <2>3, <2>4, <2>6, <2>7, <2>8 DEF Types
    <1>10. InOrder'
        <2>1. heap \in Standing' \cup {heap_end'}
            BY <1>2, <1>5, <1>8 DEF Sliding
        <2>2. \A a \in Standing' : a + Size(a)' \in Standing' \cup {heap_end'} /\ a < heap_end'
            BY <1>5, <1>6, <1>7, <1>8
        <2>3. ASSUME NEW a \in Standing', NEW b \in Standing', a < b PROVE a + Size(a)' <= b
            <3>1. Dest(a) + Size(a) <= Dest(b)
                BY <1>2, <1>3, <1>5, <2>3 DEF Places
            <3> QED
                BY <1>5, <1>6, <1>7, <3>1
        <2>4. pc' \notin {"forward", "adjust"}
            BY <1>1
        <2> QED
            BY <1>2, <2>1, <2>2, <2>3, <2>4 DEF InOrder
    <1>11. Identities'
        <2>1. RoomFor(Settled, new_address - heap)
            BY <1>2 DEF Identities
        <2>2. RoomFor(Objects, next_free_offset)'
            BY <1>1, <1>4, <2>1 DEF RoomFor
        <2>3. \A a, b \in Present' : object'[a].id = object'[b].id => a = b
            BY <1>2, <1>3, <1>4, <1>5 DEF Identities
        <2> QED
            BY <1>2, <2>2, <2>3 DEF Identities
    <1>12. PlainReferences'
        <2>1. ASSUME NEW a \in Settled, NEW k \in DOMAIN object[a].field
              PROVE  object[a].field[k] \in Settled \cup {Nil}
            <3>1. object[a].field[k] = Nil \/ \E b \in Present : object[a].field[k] = Dest(b)
                BY <1>2, <1>3, MovingReferences
            <3> QED
                BY <1>3, <1>7, <3>1
        <2>2. ASSUME NEW i \in DOMAIN roots PROVE roots[i] \in Settled
            <3>1. \E b \in Present : roots[i] = Dest(b)
                BY <1>2, MovingReferences
            <3> QED
                BY <1>3, <1>7, <3>1
        <2> QED
            BY <1>1, <1>4, <2>1, <2>2 DEF PlainReferences
    <1>13. Base'
        <2>1. stack' = <<>>
            BY <1>1, <1>2 DEF Marks, Marking
        <2>2. \A a \in Objects' : ~object'[a].marked
            BY <1>4, <1>7
        <2>3. pc' = "alloc" => request' \in Class
            BY <1>1, <1>2 DEF Types
        <2>4. pc' \in {"run", "alloc", "abort"}
            BY <1>1
        <2> QED
            BY <1>9, <1>10, <1>11, <1>12, <2>1, <2>2, <2>3, <2>4, RestStep
    <1>14. GraphIsSeen'
        BY <1>13, BaseNextFacts
    <1>15. ASSUME NEW b \in Present, NEW x
           PROVE  /\ b \in Targets(Rewritten(x))' /\ Where(b, Rewritten(x))' = b
                  /\ b \in Targets(RootRewritten(x))' /\ Where(b, RootRewritten(x))' = b
        <2>1. ~Rewritten(x)' /\ ~RootRewritten(x)'
            BY <1>1, <1>2 DEF Rewritten, RootRewritten
        <2> QED
            BY <1>3, <1>5, <2>1 DEF Targets, Where
    <1>16. PICK m : m = [a \in Present |-> a]
        OBVIOUS
    <1>17. \A a \in Present : m[a] = a
        BY <1>16
    <1>18. \A a \in Present : object'[m[a]].id = object[a].id
        BY <1>3, <1>4, <1>17
    <1>19. UNCHANGED <<allocated, field>>
        <2>1. Present' = {m[a] : a \in Present}
            BY <1>3, <1>5, <1>17
        <2>2. \A a \in Present : DOMAIN object'[m[a]].field = DOMAIN object[a].field
            BY <1>3, <1>4, <1>17
        <2>3. ASSUME NEW a \in Present, NEW k \in DOMAIN object[a].field
              PROVE  \/ object[a].field[k] = Nil /\ object'[m[a]].field[k] = Nil
                     \/ \E b \in Targets(Rewritten(a)) :
                           /\ object[a].field[k] = Where(b, Rewritten(a))
                           /\ m[b] \in Targets(Rewritten(m[a]))'
                           /\ object'[m[a]].field[k] = Where(m[b], Rewritten(m[a]))'
            <3>1. object'[m[a]].field[k] = object[a].field[k]
                BY <1>3, <1>4, <1>17
            <3>2. CASE object[a].field[k] = Nil
                BY <3>1, <3>2
            <3>3. CASE object[a].field[k] # Nil
                <4>1. PICK b \in Present : object[a].field[k] = Dest(b)
                    BY <1>2, <3>3, MovingReferences
                <4>2. b \in Targets(Rewritten(a)) /\ Where(b, Rewritten(a)) = Dest(b)
                    BY <1>2, MovingReferences
                <4>3. Dest(b) = b
                    BY <1>3, <1>7
                <4> QED
                    BY <1>15, <1>17, <3>1, <4>1, <4>2, <4>3
            <3> QED
                BY <3>2, <3>3
        <2> QED
            BY <1>2, <1>14, <1>18, <2>1, <2>2, <2>3, SameGraph
    <1>20. root_ids' = root_ids
        <2>1. ASSUME NEW i \in DOMAIN roots
              PROVE  \E b \in Targets(RootRewritten(i)) :
                        /\ roots[i] = Where(b, RootRewritten(i))
                        /\ m[b] \in Targets(RootRewritten(i))'
                        /\ roots'[i] = Where(m[b], RootRewritten(i))'
            <3>1. PICK b \in Present : roots[i] = Dest(b)
                BY <1>2, MovingReferences
            <3>2. b \in Targets(RootRewritten(i)) /\ Where(b, RootRewritten(i)) = Dest(b)
                BY <1>2, MovingReferences
            <3>3. Dest(b) = b
                BY <1>3, <1>7
            <3> QED
                BY <1>1, <1>15, <1>17, <3>1, <3>2, <3>3
        <2>2. DOMAIN roots' = DOMAIN roots
            BY <1>1
        <2> QED
            BY <1>2, <1>14, <1>18, <2>1, <2>2, SameRoots
    <1>21. allocated = Live
        <2>1. \A a \in Present : object[a].id \in Live
            BY <1>1, <1>2, <1>3 DEF OnlyLive
        <2>2. Live \subseteq allocated
            BY <1>2, LiveFacts
        <2> QED
            BY <2>1, <2>2 DEF allocated
    <1>22. OnlyLive'
        <2>1. Live' = Live
            BY <1>19, <1>20 DEF Live
        <2>2. Kept' = Settled
            BY <1>1, <1>5 DEF Kept, Deciding
        <2>3. \A a \in Settled : object'[a].id \in Live'
            BY <1>1, <1>2, <1>3, <1>4, <2>1 DEF OnlyLive
        <2>4. ~Marking'
            BY <1>1 DEF Marking
        <2> QED
            BY <2>2, <2>3, <2>4 DEF OnlyLive
    <1>23. \A a \in Objects' : ~object'[a].marked /\ object'[a].forwarding = a
        BY <1>4, <1>7 DEF Dest
    <1> QED
        BY <1>13, <1>19, <1>20, <1>21, <1>22, <1>23 DEF Base, Inv

--------------------------------------------------------------------------------
(* Every step keeps the invariant.                                         *)

LEMMA InvUnchanged == ASSUME Inv, UNCHANGED vars PROVE Inv' /\ UNCHANGED <<allocated, field, root_ids>>
    <1>1. UNCHANGED <<object, next_free_offset, roots, pc, request, ri, stack, scan, new_address>>
        BY DEF vars
    <1>2. UNCHANGED <<Objects, heap_end, Standing, Present, Settled, Pending, Kept, Forwarded, Marked>>
        BY <1>1 DEF Objects, heap_end, Standing, Present, Settled, Pending, Kept, Forwarded, Marked,
                    Moving, Deciding
    <1>3. /\ \A a : Size(a)' = Size(a) /\ Dest(a)' = Dest(a) /\ (Rewritten(a)' <=> Rewritten(a))
          /\ \A i : RootRewritten(i)' <=> RootRewritten(i)
        BY <1>1 DEF Size, Dest, Rewritten, RootRewritten, Moving
    <1>4. Types' /\ InOrder' /\ Places' /\ Sliding'
        <2>1. Types'
            BY <1>1, <1>2, <1>3 DEF Inv, Types
        <2>2. InOrder'
            BY <1>1, <1>2, <1>3 DEF Inv, InOrder, Moving
        <2>3. Places'
            BY <1>1, <1>2, <1>3 DEF Inv, Places, Deciding
        <2>4. Sliding'
            BY <1>1, <1>2, <1>3 DEF Inv, Sliding, Moving
        <2> QED
            BY <2>1, <2>2, <2>3, <2>4
    <1>5. Identities' /\ Marks'
        BY <1>1, <1>2 DEF Inv, Identities, RoomFor, Marks, Marking, Moving
    <1>6. References'
        BY <1>1, <1>2, <1>3 DEF Inv, References, Where
    <1>7. GraphIsSeen /\ ReferencesLead /\ GraphIsSeen'
        BY <1>4, <1>5, <1>6, InvFacts, BaseNextFacts DEF Base
    <1>8. ASSUME NEW b
          PROVE  /\ \A x : b \in Targets(Rewritten(x)) =>
                       b \in Targets(Rewritten(x))' /\ Where(b, Rewritten(x))' = Where(b, Rewritten(x))
                 /\ \A x : b \in Targets(RootRewritten(x)) =>
                       b \in Targets(RootRewritten(x))' /\ Where(b, RootRewritten(x))' = Where(b, RootRewritten(x))
        BY <1>1, <1>2, <1>3 DEF Targets, Where
    <1>9. PICK m : m = [a \in Present |-> a]
        OBVIOUS
    <1>10. UNCHANGED <<allocated, field>>
        <2>1. Present' = {m[a] : a \in Present} /\ \A a \in Present : m[a] = a
            BY <1>2, <1>9
        <2>2. ASSUME NEW a \in Present, NEW k \in DOMAIN object[a].field
              PROVE  \/ object[a].field[k] = Nil /\ object'[m[a]].field[k] = Nil
                     \/ \E b \in Targets(Rewritten(a)) :
                           /\ object[a].field[k] = Where(b, Rewritten(a))
                           /\ m[b] \in Targets(Rewritten(m[a]))'
                           /\ object'[m[a]].field[k] = Where(m[b], Rewritten(m[a]))'
            <3>1. CASE object[a].field[k] = Nil
                BY <1>1, <2>1, <3>1
            <3>2. CASE object[a].field[k] # Nil
                <4>1. PICK b \in Targets(Rewritten(a)) : object[a].field[k] = Where(b, Rewritten(a))
                    BY <1>7, <3>2 DEF ReferencesLead
                <4>2. b \in Present
                    BY <4>1 DEF Targets
                <4> QED
                    BY <1>1, <1>8, <2>1, <4>1, <4>2
            <3> QED
                BY <3>1, <3>2
        <2> QED
            BY <1>1, <1>7, <2>1, <2>2, SameGraph
    <1>11. root_ids' = root_ids
        <2>1. ASSUME NEW i \in DOMAIN roots
              PROVE  \E b \in Targets(RootRewritten(i)) :
                        /\ roots[i] = Where(b, RootRewritten(i))
                        /\ m[b] \in Targets(RootRewritten(i))'
                        /\ roots'[i] = Where(m[b], RootRewritten(i))'
            <3>1. PICK b \in Targets(RootRewritten(i)) : roots[i] = Where(b, RootRewritten(i))
                BY <1>7 DEF ReferencesLead
            <3>2. m[b] = b
                BY <1>9, <3>1 DEF Targets
            <3> QED
                BY <1>1, <1>8, <3>1, <3>2
        <2>2. \A a \in Present : object'[m[a]].id = object[a].id
            BY <1>1, <1>9
        <2>3. DOMAIN roots' = DOMAIN roots
            BY <1>1
        <2> QED
            BY <1>7, <2>1, <2>2, <2>3, SameRoots
    <1>12. OnlyLive'
        <2>1. Live' = Live
            BY <1>10, <1>11 DEF Live
        <2> QED
            BY <1>1, <1>2, <2>1 DEF Inv, OnlyLive, Marking
    <1> QED
        BY <1>4, <1>5, <1>6, <1>10, <1>11, <1>12 DEF Inv

\* gc_alloc finds no room a second time.
LEMMA AbortStep ==
    ASSUME Inv, pc = "alloc", pc' = "abort", UNCHANGED <<object, next_free_offset, request, roots, walk>>
    PROVE  Inv'
    <1>1. /\ pc' \in {"run", "alloc", "abort"} /\ pc' # "alloc"
          /\ UNCHANGED <<object, next_free_offset, request, roots, ri, stack, scan, new_address>>
        BY DEF walk
    <1>2. Types /\ InOrder /\ Identities /\ OnlyLive /\ CalmShape /\ PlainReferences /\ stack = <<>>
          /\ \A a \in Objects : ~object[a].marked
        BY InvFacts, RestFacts
    <1>3. Objects' = Objects /\ ~Moving /\ ~Moving' /\ Calm /\ Calm'
        BY <1>1 DEF Objects, Moving, Calm
    <1>4. Types' /\ InOrder' /\ Identities'
        <2>1. \A a \in Objects : object'[a] \in Cell /\ object'[a] = object[a]
            BY <1>1, <1>2, CellFacts
        <2>2. /\ request' \in Class \cup {NoRequest} /\ ri' \in 1..(MAX_ROOTS + 1)
              /\ stack' \in Seq(Frame) /\ \A j \in DOMAIN stack' : stack'[j].obj \in Objects
              /\ scan' \in Address /\ new_address' \in Address
              /\ roots' \in Seq(Pointer) /\ Len(roots') <= MAX_ROOTS
            BY <1>1, <1>2 DEF Types
        <2> QED
            BY <1>1, <1>2, <1>3, <2>1, <2>2, SameLayout
    <1>5. PlainReferences'
        BY <1>1, <1>2, <1>3 DEF PlainReferences
    <1>6. Base'
        BY <1>1, <1>2, <1>3, <1>4, <1>5, RestStep
    <1>7. UNCHANGED <<allocated, field, root_ids>>
        BY <1>1, <1>3, <1>6, CalmGraph
    <1>8. OnlyLive'
        <2>1. Live' = Live
            BY <1>7 DEF Live
        <2>2. Kept = Objects /\ Kept' = Objects' /\ ~Marking'
            BY <1>2, <1>3, CalmFactsNext DEF CalmShape, Marking
        <2> QED
            BY <1>1, <1>2, <1>3, <2>1, <2>2 DEF OnlyLive
    <1> QED
        BY <1>6, <1>8 DEF Base, Inv

LEMMA InvStep == Inv /\ [Next]_vars => Inv'
    <1> SUFFICES ASSUME Inv, [Next]_vars PROVE Inv'
        OBVIOUS
    <1>1. CASE Client
        <2>1. CASE AddRoot
            BY <2>1, AddRootStep
        <2>2. CASE RestoreRoots
            BY <2>2, RestoreRootsStep
        <2>3. CASE Write
            BY <2>3, WriteStep
        <2>4. CASE CollectNow
            BY <2>4, StartStep DEF CollectNow, memory
        <2>5. CASE Alloc
            <3>1. PICK clss \in Class :
                    \/ Fits(clss) /\ Place(clss) /\ UNCHANGED <<pc, request, ri>>
                    \/ ~Fits(clss) /\ StartGC(clss) /\ UNCHANGED <<object, next_free_offset>>
                BY <2>5 DEF Alloc
            <3>2. pc = "run" /\ UNCHANGED <<roots, stack, scan, new_address>>
                BY <2>5 DEF Alloc
            <3>3. CASE Fits(clss) /\ Place(clss) /\ UNCHANGED <<pc, request, ri>>
                <4>1. request' \in Class \cup {NoRequest}
                    BY <3>3 DEF Inv, Types
                <4> QED
                    BY <3>2, <3>3, <4>1, PlaceStep
            <3>4. CASE ~Fits(clss) /\ StartGC(clss) /\ UNCHANGED <<object, next_free_offset>>
                BY <3>2, <3>4, StartStep
            <3> QED
                BY <3>1, <3>3, <3>4
        <2> QED
            BY <1>1, <2>1, <2>2, <2>3, <2>4, <2>5 DEF Client
    <1>2. CASE AllocAgain
        <2>1. pc = "alloc" /\ request \in Class /\ UNCHANGED <<roots, ri, stack, scan, new_address>>
            BY <1>2 DEF AllocAgain, walk, Inv, Marks
        <2>2. CASE Fits(request) /\ Place(request) /\ pc' = "run" /\ request' = NoRequest
            BY <2>1, <2>2, PlaceStep
        <2>3. CASE pc' = "abort" /\ UNCHANGED <<object, next_free_offset, request>>
            BY <1>2, <2>1, <2>3, AbortStep DEF AllocAgain
        <2> QED
            BY <1>2, <2>2, <2>3 DEF AllocAgain
    <1>3. CASE Mark
        BY <1>3, MarkRootStep, MarkFieldStep, MarkReturnStep, MarkDoneStep DEF Mark
    <1>4. CASE Compact
        BY <1>4, ForwardStep, ForwardDoneStep, AdjustRootStep, AdjustRootsDoneStep, AdjustStep,
           AdjustDoneStep, SkipDeadStep, MoveStep, MoveOntoItselfStep, MoveDoneStep DEF Compact
    <1>5. CASE UNCHANGED vars
        BY <1>5, InvUnchanged
    <1> QED
        BY <1>1, <1>2, <1>3, <1>4, <1>5 DEF Next, Ended

LEMMA InvHolds == Spec => []Inv
    BY InvInit, InvStep, PTL DEF Spec

--------------------------------------------------------------------------------
(* The interface of gc.h.                                                  *)

\* The definitions of GCHeap are those of ObjectGraph and MarkCompact.
LEMMA HeapOperators ==
    /\ Heap!Nil = Nil
    /\ \A k : Heap!NullFields(k) = NullFields(k)
    /\ Heap!Live = Live
    /\ Heap!Usable = {o \in allocated : Reachable(Identity, field, {o}) \subseteq allocated}
    <1>1. Heap!Nil = Nil
        BY DEF Heap!Nil, Nil
    <1>2. \A k : Heap!NullFields(k) = NullFields(k)
        BY <1>1 DEF Heap!NullFields, NullFields
    <1>3. Heap!Live = Live
        BY <1>1 DEF Heap!Live, Live, Heap!Reachable, Reachable, Heap!Closed, Closed
    <1>4. Heap!Usable = {o \in allocated : Reachable(Identity, field, {o}) \subseteq allocated}
        BY <1>1 DEF Heap!Usable, Heap!Reachable, Reachable, Heap!Closed, Closed
    <1> QED
        BY <1>1, <1>2, <1>3, <1>4

\* What the client sees at a pointer, while pointers are where the objects are.
Name(q) == IF q = Nil THEN Nil ELSE object[q].id

CalmView ==
    /\ allocated = {object[a].id : a \in Objects}
    /\ allocated \in SUBSET Identity
    /\ field = [i \in Identity |-> field[i]]
    /\ \A i \in Identity \ allocated : field[i] = NullFields(0)
    /\ \A a \in Objects :
          field[object[a].id] = [k \in DOMAIN object[a].field |-> Name(object[a].field[k])]
    /\ root_ids = {object[roots[i]].id : i \in DOMAIN roots}

LEMMA CalmViewOf == Inv /\ Calm => CalmView
    <1> SUFFICES ASSUME Inv, Calm PROVE CalmView
        OBVIOUS
    <1>1. GraphIsSeen /\ CalmShape /\ PlainReferences /\ Types
        BY InvFacts, CalmFacts DEF CalmShape
    <1>2. Present = Objects /\ (\A a \in Objects : ~Rewritten(a)) /\ \A i \in DOMAIN roots : ~RootRewritten(i)
        BY <1>1 DEF CalmShape
    <1>3. allocated = {object[a].id : a \in Objects}
        BY <1>2 DEF allocated
    <1>4. ASSUME NEW a \in Objects
          PROVE  field[object[a].id] = [k \in DOMAIN object[a].field |-> Name(object[a].field[k])]
        <2>1. PICK f : f = field[object[a].id]
            OBVIOUS
        <2>2. f = [k \in DOMAIN object[a].field |-> f[k]]
            BY <1>1, <1>2, <2>1 DEF GraphIsSeen
        <2>3. ASSUME NEW k \in DOMAIN object[a].field PROVE f[k] = Name(object[a].field[k])
            <3>1. PICK b : b = object[a].field[k]
                OBVIOUS
            <3>2. CASE b = Nil
                BY <1>1, <1>2, <2>1, <3>1, <3>2 DEF GraphIsSeen, Name
            <3>3. CASE b # Nil
                <4>1. b \in Objects
                    BY <1>1, <3>1, <3>3 DEF PlainReferences
                <4>2. b \in Targets(Rewritten(a)) /\ Where(b, Rewritten(a)) = b
                    BY <1>2, <4>1 DEF Targets, Where
                <4>3. f[k] = object[b].id
                    BY <1>1, <1>2, <2>1, <3>1, <4>2 DEF GraphIsSeen
                <4> QED
                    BY <3>1, <3>3, <4>3 DEF Name
            <3> QED
                BY <3>2, <3>3
        <2> QED
            BY <2>1, <2>2, <2>3
    <1>5. root_ids = {object[roots[i]].id : i \in DOMAIN roots}
        <2>1. ASSUME NEW i \in DOMAIN roots PROVE Designated(roots[i], RootRewritten(i)) = object[roots[i]].id
            <3>1. PICK b \in Objects : b = roots[i]
                BY <1>1 DEF PlainReferences
            <3>2. b \in Targets(RootRewritten(i)) /\ Where(b, RootRewritten(i)) = b
                BY <1>2 DEF Targets, Where
            <3> QED
                BY <1>1, <3>1, <3>2 DEF GraphIsSeen
        <2> QED
            BY <2>1 DEF root_ids
    <1> QED
        BY <1>1, <1>3, <1>4, <1>5 DEF CalmView, GraphIsSeen

LEMMA CalmViewOfNext == (Inv /\ Calm)' => CalmView'
    BY CalmViewOf, PTL

\* Between collections the client may use any object.
LEMMA AllUsable ==
    ASSUME Inv, pc \in {"run", "alloc", "abort"}
    PROVE  /\ Heap!Usable = allocated
           /\ \A a \in Objects : object[a].id \in allocated
           /\ \A a \in Objects : DOMAIN field[object[a].id] = DOMAIN object[a].field
    <1>1. CalmView /\ Closed(field, allocated)
        <2>1. Closed(field, allocated)
            BY InvFacts, GraphFacts
        <2> QED
            BY <2>1, CalmViewOf DEF Calm
    <1>2. ASSUME NEW o \in allocated PROVE Reachable(Identity, field, {o}) \subseteq allocated
        BY <1>1, ReachableIsLeast DEF CalmView
    <1>3. Heap!Usable = allocated
        BY <1>2, HeapOperators
    <1>4. \A a \in Objects : DOMAIN field[object[a].id] = DOMAIN object[a].field
        BY <1>1 DEF CalmView
    <1> QED
        BY <1>1, <1>3, <1>4 DEF CalmView

LEMMA HeapInit == Init => Heap!Init
    <1> SUFFICES ASSUME Init PROVE Heap!Init
        OBVIOUS
    <1>1. CalmView
        BY InvInit, CalmViewOf DEF Init, Calm
    <1>2. Objects = {} /\ DOMAIN roots = {}
        BY DEF Init, Objects
    <1>3. allocated = {} /\ root_ids = {}
        BY <1>1, <1>2 DEF CalmView
    <1>4. field = [i \in Identity |-> NullFields(0)]
        BY <1>1, <1>3 DEF CalmView
    <1> QED
        BY <1>3, <1>4, HeapOperators DEF Heap!Init

\* A step of the client that leaves the objects as they are changes roots at most.
LEMMA SameView ==
    ASSUME Inv, Inv', Calm, Calm', object' = object
    PROVE  /\ UNCHANGED <<allocated, field>>
           /\ root_ids = {object[roots[i]].id : i \in DOMAIN roots}
           /\ root_ids' = {object[roots'[i]].id : i \in DOMAIN roots'}
    <1>1. CalmView /\ CalmView' /\ Objects' = Objects
        BY CalmViewOf, CalmViewOfNext DEF Objects
    <1>2. allocated' = allocated
        BY <1>1 DEF CalmView
    <1>3. \A a \in Objects : field'[object[a].id] = field[object[a].id]
        <2> TAKE a \in Objects
        <2>1. \A k \in DOMAIN object[a].field : Name(object[a].field[k])' = Name(object[a].field[k])
            BY DEF Name
        <2>2. field'[object[a].id] = [k \in DOMAIN object[a].field |-> Name(object[a].field[k])']
            BY <1>1 DEF CalmView
        <2>3. field[object[a].id] = [k \in DOMAIN object[a].field |-> Name(object[a].field[k])]
            BY <1>1 DEF CalmView
        <2> QED
            BY <2>1, <2>2, <2>3
    <1>4. \A i \in Identity : field'[i] = field[i]
        BY <1>1, <1>2, <1>3 DEF CalmView
    <1>5. field' = field
        BY <1>1, <1>4 DEF CalmView
    <1>6. root_ids' = {object[roots'[i]].id : i \in DOMAIN roots'}
        BY <1>1 DEF CalmView
    <1> QED
        BY <1>1, <1>2, <1>5, <1>6 DEF CalmView

LEMMA HeapAddRoot ==
    ASSUME Inv, AddRoot PROVE Heap!Next
    <1>1. /\ pc = "run" /\ pc' = "run" /\ object' = object /\ Inv'
        BY AddRootStep DEF AddRoot
    <1>2. PICK p \in Objects : roots' = Append(roots, p)
        BY DEF AddRoot
    <1>3. /\ UNCHANGED <<allocated, field>>
          /\ root_ids = {object[roots[i]].id : i \in DOMAIN roots}
          /\ root_ids' = {object[roots'[i]].id : i \in DOMAIN roots'}
        BY <1>1, SameView DEF Calm
    <1>4. Types
        BY InvFacts
    <1>5. roots \in Seq(Pointer) /\ p \in Pointer /\ Len(roots) \in Nat
        BY <1>2, <1>4, CellFacts, HeapFacts, EndFacts DEF Types
    <1>6. PICK n \in Nat : n = Len(roots) + 1
        BY <1>5
    <1>7. /\ \A i \in DOMAIN roots : i \in DOMAIN roots' /\ roots'[i] = roots[i]
          /\ n \in DOMAIN roots' /\ roots'[n] = p
          /\ \A i \in DOMAIN roots' : i \in DOMAIN roots \/ i = n
        <2>1. /\ roots' \in Seq(Pointer) /\ Len(roots') = n /\ roots'[n] = p
              /\ \A i \in 1..Len(roots) : roots'[i] = roots[i]
            BY <1>2, <1>5, <1>6, AppendProperties
        <2>2. DOMAIN roots' = 1..n /\ DOMAIN roots = 1..Len(roots)
            BY <1>5, <2>1, LenProperties
        <2> QED
            BY <1>5, <1>6, <2>1, <2>2
    <1>8. root_ids' = root_ids \cup {object[p].id}
        BY <1>3, <1>7
    <1>9. object[p].id \in Heap!Usable
        BY <1>1, AllUsable
    <1> QED
        BY <1>3, <1>8, <1>9 DEF Heap!Next, Heap!AddRoot

LEMMA HeapRestoreRoots ==
    ASSUME Inv, RestoreRoots PROVE Heap!Next
    <1>1. /\ pc = "run" /\ pc' = "run" /\ object' = object /\ Inv'
        BY RestoreRootsStep DEF RestoreRoots
    <1>2. PICK k \in 0..Len(roots) : roots' = SubSeq(roots, 1, k)
        BY DEF RestoreRoots
    <1>3. /\ UNCHANGED <<allocated, field>>
          /\ root_ids = {object[roots[i]].id : i \in DOMAIN roots}
          /\ root_ids' = {object[roots'[i]].id : i \in DOMAIN roots'}
        BY <1>1, SameView DEF Calm
    <1>4. /\ roots \in Seq(Pointer) /\ Len(roots) \in Nat /\ DOMAIN roots = 1..Len(roots)
          /\ \A i \in DOMAIN roots : roots[i] \in Pointer
        BY InvFacts, EndFacts DEF Types
    <1>5. \A i \in DOMAIN roots' : i \in DOMAIN roots /\ roots'[i] = roots[i]
        <2>1. k \in Nat /\ k <= Len(roots) /\ \A j \in 1..k : roots[j] \in Pointer
            BY <1>2, <1>4
        <2>2. /\ roots' \in Seq(Pointer) /\ Len(roots') = (IF 1 <= k THEN k - 1 + 1 ELSE 0)
              /\ \A j \in 1..(k - 1 + 1) : roots'[j] = roots[1 + j - 1]
            BY <1>2, <2>1, SubSeqProperties
        <2>3. DOMAIN roots' = 1..Len(roots')
            BY <2>2, LenProperties
        <2> QED
            BY <1>4, <2>1, <2>2, <2>3
    <1>6. root_ids' \in SUBSET root_ids
        BY <1>3, <1>5
    <1> QED
        BY <1>3, <1>6 DEF Heap!Next, Heap!DropRoots

LEMMA HeapWrite ==
    ASSUME Inv, Write PROVE Heap!Next
    <1>1. /\ pc = "run" /\ pc' = "run" /\ roots' = roots /\ Inv'
        BY WriteStep DEF Write
    <1>2. CalmView /\ CalmView' /\ Types /\ PlainReferences
        BY <1>1, InvFacts, RestFacts, CalmViewOf, CalmViewOfNext DEF Calm
    <1>3. PICK o \in Objects, v \in Objects \cup {Nil} :
            \E i \in DOMAIN object[o].field : object' = [object EXCEPT ![o].field[i] = v]
        BY DEF Write
    <1>4. PICK i \in DOMAIN object[o].field : object' = [object EXCEPT ![o].field[i] = v]
        BY <1>3
    <1>5. /\ Objects' = Objects
          /\ \A a \in Objects \ {o} : object'[a] = object[a]
          /\ object'[o].field = [object[o].field EXCEPT ![i] = v]
          /\ object'[o].id = object[o].id
        <2>1. object[o] \in Cell
            BY <1>2, CellFacts
        <2>2. object'[o] = [object[o] EXCEPT !.field = [object[o].field EXCEPT ![i] = v]]
            BY <1>4 DEF Objects
        <2>3. object'[o].field = [object[o].field EXCEPT ![i] = v] /\ object'[o].id = object[o].id
            <3>1. PICK c \in Class : object[o] \in [clss : {c}, field : [1..c.num_fields -> Pointer],
                                                    marked : BOOLEAN, forwarding : Pointer, id : Identity]
                BY <2>1 DEF Cell
            <3> QED
                BY <2>2, <3>1
        <2> QED
            BY <1>4, <2>3 DEF Objects
    <1>6. \A a \in Objects : object'[a].id = object[a].id
        BY <1>5
    <1>7. \A q \in Objects \cup {Nil} : Name(q)' = Name(q)
        BY <1>6 DEF Name
    <1>8. allocated' = allocated
        BY <1>2, <1>5, <1>6 DEF CalmView
    <1>9. root_ids' = root_ids
        <2>1. \A j \in DOMAIN roots : object'[roots[j]].id = object[roots[j]].id
            BY <1>2, <1>6 DEF PlainReferences
        <2> QED
            BY <1>1, <1>2, <2>1 DEF CalmView
    <1>10. ASSUME NEW a \in Objects \ {o} PROVE field'[object[a].id] = field[object[a].id]
        <2>1. field'[object'[a].id] = [k \in DOMAIN object'[a].field |-> Name(object[a].field[k])']
            BY <1>2, <1>5 DEF CalmView
        <2>2. \A k \in DOMAIN object[a].field : Name(object[a].field[k])' = Name(object[a].field[k])
            <3>1. object'[a] = object[a]
                BY <1>5
            <3>2. \A k \in DOMAIN object[a].field : object[a].field[k] \in Objects \cup {Nil}
                BY <1>2 DEF PlainReferences
            <3> QED
                BY <1>7, <3>1, <3>2
        <2>3. field[object[a].id] = [k \in DOMAIN object[a].field |-> Name(object[a].field[k])]
            BY <1>2 DEF CalmView
        <2>4. [k \in DOMAIN object[a].field |-> Name(object[a].field[k])'] =
                [k \in DOMAIN object[a].field |-> Name(object[a].field[k])]
            BY <2>2
        <2> QED
            BY <1>5, <2>1, <2>3, <2>4
    <1>11. field'[object[o].id] = [field[object[o].id] EXCEPT ![i] = Name(v)]
        <2>1. field'[object'[o].id] = [k \in DOMAIN object'[o].field |-> Name(object[o].field[k])']
            BY <1>2, <1>5 DEF CalmView
        <2>2. DOMAIN object'[o].field = DOMAIN object[o].field
            BY <1>5
        <2>3. \A k \in DOMAIN object[o].field : Name(object[o].field[k])' =
                IF k = i THEN Name(v) ELSE Name(object[o].field[k])
            <3>1. \A k \in DOMAIN object[o].field : object'[o].field[k] = IF k = i THEN v ELSE object[o].field[k]
                BY <1>5
            <3>2. \A k \in DOMAIN object[o].field : object[o].field[k] \in Objects \cup {Nil}
                BY <1>2 DEF PlainReferences
            <3> QED
                BY <1>3, <1>7, <3>1, <3>2
        <2>4. field[object[o].id] = [k \in DOMAIN object[o].field |-> Name(object[o].field[k])]
            BY <1>2 DEF CalmView
        <2>5. [k \in DOMAIN object[o].field |-> Name(object[o].field[k])'] =
                [k \in DOMAIN object[o].field |-> IF k = i THEN Name(v) ELSE Name(object[o].field[k])]
            BY <2>3
        <2>6. [field[object[o].id] EXCEPT ![i] = Name(v)] =
                [k \in DOMAIN object[o].field |-> IF k = i THEN Name(v) ELSE Name(object[o].field[k])]
            BY <2>4
        <2> QED
            BY <1>5, <2>1, <2>2, <2>5, <2>6
    <1>12. field' = [field EXCEPT ![object[o].id][i] = Name(v)]
        <2>1. object[o].id \in Identity
            BY <1>2, CellFacts
        <2>2. \A j \in Identity \ {object[o].id} : field'[j] = field[j]
            <3>1. \A j \in Identity \ allocated : field'[j] = field[j]
                BY <1>2, <1>8 DEF CalmView
            <3>2. allocated = {object[a].id : a \in Objects}
                BY <1>2 DEF CalmView
            <3> QED
                BY <1>10, <3>1, <3>2
        <2>3. DOMAIN field = Identity /\ field' = [j \in Identity |-> field'[j]]
            BY <1>2 DEF CalmView
        <2> QED
            BY <1>11, <2>1, <2>2, <2>3
    <1>13. /\ object[o].id \in Heap!Usable /\ Name(v) \in Heap!Usable \cup {Heap!Nil}
           /\ i \in DOMAIN field[object[o].id]
        BY <1>1, <1>3, <1>4, AllUsable, HeapOperators DEF Name
    <1> QED
        BY <1>8, <1>9, <1>12, <1>13 DEF Heap!Next, Heap!Write

LEMMA HeapPlace ==
    ASSUME Inv, Inv', pc \in {"run", "alloc"}, pc' = "run", NEW clss \in Class, Fits(clss), Place(clss),
           roots' = roots
    PROVE  Heap!Next
    <1>1. Types /\ InOrder /\ Identities /\ PlainReferences /\ ~Moving /\ CalmView /\ CalmView'
        BY InvFacts, RestFacts, CalmViewOf, CalmViewOfNext DEF Calm, Moving
    <1>2. PICK n : n = heap_end
        OBVIOUS
    <1>3. PICK new : new = FreeIdentity
        OBVIOUS
    <1>4. /\ n \notin Objects /\ n \in Nat /\ Objects' = Objects \cup {n}
          /\ \A a \in Objects : object'[a] = object[a]
          /\ object'[n].field = NullFields(clss.num_fields) /\ object'[n].id = new
        BY <1>1, <1>2, <1>3, PlaceMemory
    <1>5. new \in Identity /\ new \notin allocated
        BY <1>1, <1>3, IdentityIsFree DEF CalmView
    <1>6. \A q \in Objects \cup {Nil} : Name(q)' = Name(q)
        BY <1>4 DEF Name
    <1>7. allocated' = allocated \cup {new}
        BY <1>1, <1>4 DEF CalmView
    <1>8. root_ids' = root_ids
        <2>1. \A j \in DOMAIN roots : object'[roots[j]].id = object[roots[j]].id
            BY <1>1, <1>4 DEF PlainReferences
        <2> QED
            BY <1>1, <2>1 DEF CalmView
    <1>9. ASSUME NEW a \in Objects PROVE field'[object[a].id] = field[object[a].id]
        <2>1. a \in Objects' /\ object'[a] = object[a]
            BY <1>4
        <2>2. field'[object'[a].id] = [k \in DOMAIN object'[a].field |-> Name(object[a].field[k])']
            BY <1>1, <2>1 DEF CalmView
        <2>3. \A k \in DOMAIN object[a].field : Name(object[a].field[k])' = Name(object[a].field[k])
            <3>1. \A k \in DOMAIN object[a].field : object[a].field[k] \in Objects \cup {Nil}
                BY <1>1 DEF PlainReferences
            <3> QED
                BY <1>6, <2>1, <3>1
        <2>4. field[object[a].id] = [k \in DOMAIN object[a].field |-> Name(object[a].field[k])]
            BY <1>1 DEF CalmView
        <2>5. [k \in DOMAIN object[a].field |-> Name(object[a].field[k])'] =
                [k \in DOMAIN object[a].field |-> Name(object[a].field[k])]
            BY <2>3
        <2> QED
            BY <2>1, <2>2, <2>4, <2>5
    <1>10. field'[new] = NullFields(clss.num_fields)
        <2>1. field'[object'[n].id] = [k \in DOMAIN object'[n].field |-> Name(object[n].field[k])']
            BY <1>1, <1>4 DEF CalmView
        <2>2. \A k \in DOMAIN object'[n].field : Name(object[n].field[k])' = Nil
            <3>1. \A k \in DOMAIN object'[n].field : object'[n].field[k] = Nil
                BY <1>4 DEF NullFields
            <3> QED
                BY <3>1 DEF Name
        <2>3. NullFields(clss.num_fields) = [k \in DOMAIN object'[n].field |-> Nil]
            BY <1>4 DEF NullFields
        <2> QED
            BY <1>4, <2>1, <2>2, <2>3
    <1>11. field' = [field EXCEPT ![new] = NullFields(clss.num_fields)]
        <2>1. \A j \in Identity \ {new} : field'[j] = field[j]
            <3>1. \A j \in Identity \ (allocated \cup {new}) : field'[j] = field[j]
                BY <1>1, <1>7 DEF CalmView
            <3>2. allocated = {object[a].id : a \in Objects}
                BY <1>1 DEF CalmView
            <3> QED
                BY <1>9, <3>1, <3>2
        <2>2. DOMAIN field = Identity /\ field' = [j \in Identity |-> field'[j]]
            BY <1>1 DEF CalmView
        <2> QED
            BY <1>5, <1>10, <2>1, <2>2
    <1>12. clss.num_fields \in {c.num_fields : c \in Class}
        OBVIOUS
    <1>13. field' = [field EXCEPT ![new] = Heap!NullFields(clss.num_fields)]
        BY <1>11, HeapOperators
    <1> QED
        BY <1>5, <1>7, <1>8, <1>12, <1>13 DEF Heap!Next, Heap!Alloc

\* The end of adjust_ref() is where, for the client, what no root leads to is gone.
LEMMA HeapAdjustDone ==
    ASSUME Inv, AdjustDone PROVE Heap!Next
    <1>1. /\ root_ids' = root_ids /\ allocated' = Live /\ allocated' \subseteq allocated
          /\ field' = [o \in Identity |-> IF o \in allocated \ allocated' THEN NullFields(0) ELSE field[o]]
        BY AdjustDoneStep
    <1> DEFINE garbage == allocated \ allocated'
    <1>2. garbage \in SUBSET (allocated \ Heap!Live)
        BY <1>1, HeapOperators
    <1>3. allocated' = allocated \ garbage
        BY <1>1
    <1>4. field' = [o \in Identity |-> IF o \in garbage THEN Heap!NullFields(0) ELSE field[o]]
        BY <1>1, HeapOperators
    <1> HIDE DEF garbage
    <1> QED
        BY <1>1, <1>2, <1>3, <1>4 DEF Heap!Next, Heap!Reclaim

\* Each step is one of the interface's, or none.
LEMMA HeapStep ==
    ASSUME Inv, [Next]_vars PROVE UNCHANGED Heap!vars \/ Heap!Next
    <1>1. Inv'
        BY InvStep
    <1>2. CASE Client
        <2>1. pc = "run"
            BY <1>2 DEF Client, AddRoot, RestoreRoots, Write, CollectNow, Alloc
        <2>2. CASE AddRoot \/ RestoreRoots \/ Write
            BY <2>2, HeapAddRoot, HeapRestoreRoots, HeapWrite
        <2>3. CASE object' = object /\ roots' = roots /\ pc' = "mark"
            <3>1. UNCHANGED <<allocated, field, root_ids>>
                BY <1>1, <2>1, <2>3, SameView DEF Calm
            <3> QED
                BY <3>1 DEF Heap!vars
        <2>4. CASE Alloc
            <3>1. PICK clss \in Class :
                    \/ Fits(clss) /\ Place(clss) /\ UNCHANGED <<pc, request, ri>>
                    \/ ~Fits(clss) /\ StartGC(clss) /\ UNCHANGED <<object, next_free_offset>>
                BY <2>4 DEF Alloc
            <3>2. roots' = roots
                BY <2>4 DEF Alloc
            <3>3. CASE Fits(clss) /\ Place(clss) /\ UNCHANGED <<pc, request, ri>>
                BY <1>1, <2>1, <3>2, <3>3, HeapPlace
            <3> QED
                BY <2>3, <3>1, <3>2, <3>3 DEF StartGC
        <2>5. CASE CollectNow
            BY <2>3, <2>5 DEF CollectNow, StartGC, memory
        <2> QED
            BY <1>2, <2>2, <2>4, <2>5 DEF Client
    <1>3. CASE AllocAgain
        <2>1. pc = "alloc" /\ request \in Class /\ roots' = roots
            BY <1>3 DEF AllocAgain, Inv, Marks
        <2>2. CASE Fits(request) /\ Place(request) /\ pc' = "run"
            BY <1>1, <2>1, <2>2, HeapPlace
        <2>3. CASE pc' = "abort" /\ object' = object
            <3>1. UNCHANGED <<allocated, field, root_ids>>
                BY <1>1, <2>1, <2>3, SameView DEF Calm
            <3> QED
                BY <3>1 DEF Heap!vars
        <2> QED
            BY <1>3, <2>2, <2>3 DEF AllocAgain
    <1>4. CASE Mark
        BY <1>4, MarkRootStep, MarkFieldStep, MarkReturnStep, MarkDoneStep DEF Mark, Heap!vars
    <1>5. CASE AdjustDone
        BY <1>5, HeapAdjustDone
    <1>6. CASE Compact
        BY <1>5, <1>6, ForwardStep, ForwardDoneStep, AdjustRootStep, AdjustRootsDoneStep, AdjustStep,
           SkipDeadStep, MoveStep, MoveOntoItselfStep, MoveDoneStep DEF Compact, Heap!vars
    <1>7. CASE UNCHANGED vars
        BY <1>7, InvUnchanged DEF Heap!vars
    <1> QED
        BY <1>2, <1>3, <1>4, <1>6, <1>7 DEF Next, Ended

--------------------------------------------------------------------------------
(* The properties.                                                         *)

\* In every state each variable has its type: no object, and no pointer, is ever
\* outside the heap (gc_alloc, set_forwarding, adjust_ref, move_obj).
THEOREM TypeCorrect == Spec => []TypeOK
    <1>1. Inv => TypeOK
        <2> SUFFICES ASSUME Inv PROVE TypeOK
            OBVIOUS
        <2>1. Types
            BY InvFacts
        <2>2. \A a \in Objects : Header(a) /\ a + Size(a) <= heap + heap_size
            BY <2>1, CellFacts DEF Header, Types, Dest
        <2> QED
            BY <2>1, <2>2 DEF Types, TypeOK
    <1> QED
        BY <1>1, InvHolds, PTL

\* No walk over the heap reads a header where there is none: the objects that a walk
\* has before it lie end to end up to the end of the used part, also while move_obj()
\* overwrites the ones behind it.
THEOREM WalkCorrect == Spec => []WalkIsSound
    <1>1. Inv => WalkIsSound
        <2> SUFFICES ASSUME Inv PROVE WalkIsSound
            OBVIOUS
        <2>1. InOrder /\ Standing = IF Moving THEN {a \in Objects : scan <= a} ELSE Objects
            BY InvFacts DEF Standing
        <2>2. scan \in Objects \cup {heap_end} \/ pc \notin {"forward", "adjust", "move"}
            BY <2>1 DEF InOrder, Moving
        <2>3. ASSUME NEW a \in Objects, ~Moving \/ a >= scan
              PROVE  a + Size(a) \in Objects \cup {heap_end}
            <3>1. a \in Nat /\ scan \in Nat
                BY InvFacts, CellFacts, EndFacts
            <3>2. a \in Standing
                BY <2>1, <2>3, <3>1
            <3> QED
                BY <2>1, <3>2 DEF InOrder
        <2> QED
            BY <2>2, <2>3 DEF WalkIsSound
    <1> QED
        BY <1>1, InvHolds, PTL

\* When a compaction ends, exactly the reachable objects are left, none is marked,
\* and each is where its forwarding pointer said.
THEOREM Exactness == Spec => CollectionExact
    <1>1. Inv /\ [Next]_vars =>
            [pc = "move" /\ pc' \notin {"move", "undefined"} =>
                /\ allocated' = Live
                /\ \A a \in Objects' : ~object'[a].marked /\ object'[a].forwarding = a]_vars
        <2> SUFFICES ASSUME Inv, Next, pc = "move", pc' \notin {"move", "undefined"}
                     PROVE  /\ allocated' = Live
                            /\ \A a \in Objects' : ~object'[a].marked /\ object'[a].forwarding = a
            OBVIOUS
        <2>1. MoveDone
            BY DEF Next, Client, AddRoot, RestoreRoots, Write, CollectNow, Alloc, AllocAgain, Mark, MarkRoot,
                   MarkField, MarkReturn, MarkDone, Compact, Forward, ForwardDone, AdjustRoot,
                   AdjustRootsDone, Adjust, AdjustDone, SkipDead, Move, MoveOntoItself, Ended
        <2> QED
            BY <2>1, MoveDoneStep
    <1> QED
        BY <1>1, InvHolds, PTL DEF Spec, CollectionExact

\* gc_alloc ends the program only after a collection that has left nothing but
\* reachable objects, and they leave no room for the request.
THEOREM AbortCorrect == Spec => []AbortOnlyWhenFull
    <1> DEFINE NoRoom == pc = "abort" => ~Fits(request)
    <1>1. Init => NoRoom
        BY DEF Init
    <1>2. Inv /\ NoRoom /\ [Next]_vars => NoRoom'
        <2> SUFFICES ASSUME NoRoom, [Next]_vars, pc' = "abort" PROVE (~Fits(request))'
            OBVIOUS
        <2>1. CASE AllocAgain
            BY <2>1 DEF AllocAgain, Fits
        <2>2. CASE UNCHANGED vars
            BY <2>2 DEF vars, Fits
        <2> QED
            BY <2>1, <2>2 DEF Next, Client, AddRoot, RestoreRoots, Write, CollectNow, Alloc, StartGC,
                   Mark, MarkRoot, MarkField, MarkReturn, MarkDone, Compact, Forward, ForwardDone,
                   AdjustRoot, AdjustRootsDone, Adjust, AdjustDone, SkipDead, Move, MoveOntoItself,
                   MoveDone, Ended
    <1>3. Inv /\ NoRoom => AbortOnlyWhenFull
        <2> SUFFICES ASSUME Inv, NoRoom, pc = "abort"
                     PROVE  next_free_offset + request.size > heap_size /\ allocated \subseteq Live
            BY DEF AbortOnlyWhenFull
        <2>1. next_free_offset \in Nat /\ heap_size \in Nat /\ request.size \in Nat
            <3>1. request \in Class \cup {NoRequest}
                BY DEF Inv, Types
            <3> QED
                BY <3>1, InvFacts, EndFacts, HeapFacts DEF NoRequest
        <2>2. next_free_offset + request.size > heap_size
            BY <2>1 DEF Fits
        <2>3. allocated \subseteq Live
            BY InvFacts, RestFacts DEF OnlyLive, CalmShape, allocated
        <2> QED
            BY <2>2, <2>3
    <1> HIDE DEF NoRoom
    <1> QED
        BY <1>1, <1>2, <1>3, InvHolds, PTL DEF Spec

\* Where all objects have one size, move_obj() never copies an object onto its own
\* header: the gap that it moves objects across is empty or holds a whole object.
THEOREM OneSize ==
    ASSUME \A c, d \in Class : c.size = d.size
    PROVE  Spec => []MovesEveryObject
    <1> DEFINE Gap == /\ pc # "undefined"
                      /\ pc = "move" => new_address = scan \/ \A c \in Class : new_address + c.size <= scan
    <1>1. Init => Gap
        BY DEF Init
    <1>2. Inv /\ Gap /\ [Next]_vars => Gap'
        <2> SUFFICES ASSUME Inv, Gap, [Next]_vars PROVE Gap'
            OBVIOUS
        <2>1. CASE pc # "move"
            <3>1. pc' # "undefined" /\ (pc' = "move" => new_address' = scan')
                BY <2>1 DEF Next, Client, AddRoot, RestoreRoots, Write, CollectNow, Alloc, StartGC, AllocAgain,
                       Mark, MarkRoot, MarkField, MarkReturn, MarkDone, Compact, Forward, ForwardDone,
                       AdjustRoot, AdjustRootsDone, Adjust, AdjustDone, SkipDead, Move, MoveOntoItself,
                       MoveDone, Ended, vars
            <3> QED
                BY <3>1
        <2>2. CASE pc = "move"
            <3>1. Types /\ InOrder
                BY InvFacts
            <3>2. scan \in Nat /\ new_address \in Nat /\ \A c \in Class : c.size \in Nat /\ c.size > 0
                BY <3>1, EndFacts, HeapFacts
            <3>3. ASSUME scan < heap_end
                  PROVE  Size(scan) \in Nat /\ Size(scan) > 0 /\ \A c \in Class : c.size = Size(scan)
                <4>1. scan \in Objects
                    BY <2>2, <3>1, <3>3, WalkStep
                <4> QED
                    BY <3>1, <4>1, CellFacts
            <3>4. CASE SkipDead
                <4>1. scan < heap_end /\ scan' = scan + Size(scan) /\ new_address' = new_address /\ pc' = pc
                    BY <3>4 DEF SkipDead
                <4> QED
                    BY <2>2, <3>2, <3>3, <4>1
            <3>5. CASE Move
                <4>1. /\ scan < heap_end /\ scan' = scan + Size(scan)
                      /\ new_address' = new_address + Size(scan) /\ pc' = pc
                    BY <3>5 DEF Move
                <4> QED
                    BY <2>2, <3>2, <3>3, <4>1
            <3>6. CASE MoveOntoItself
                <4>1. /\ scan < heap_end /\ object[scan].marked /\ Dest(scan) # scan
                      /\ scan \in Dest(scan)..(Dest(scan) + Size(scan) - 1)
                    BY <3>6 DEF MoveOntoItself, Overwritten, Dest
                <4>2. Dest(scan) = new_address
                    BY <2>2, <4>1, NextPlace
                <4>3. object[scan].clss \in Class /\ object[scan].clss.size = Size(scan)
                    BY <2>2, <3>1, <4>1, WalkStep, CellFacts
                <4>4. new_address + Size(scan) <= scan
                    BY <2>2, <4>1, <4>2, <4>3
                <4> QED
                    BY <3>2, <3>3, <4>1, <4>2, <4>4
            <3>7. CASE MoveDone
                BY <3>7 DEF MoveDone
            <3>8. CASE UNCHANGED vars
                BY <3>8 DEF vars
            <3> QED
                BY <2>2, <3>4, <3>5, <3>6, <3>7, <3>8
                DEF Next, Client, AddRoot, RestoreRoots, Write, CollectNow, Alloc, AllocAgain, Mark, MarkRoot,
                    MarkField, MarkReturn, MarkDone, Compact, Forward, ForwardDone, AdjustRoot,
                    AdjustRootsDone, Adjust, AdjustDone, Ended
        <2> QED
            BY <2>1, <2>2
    <1>3. Gap => MovesEveryObject
        BY DEF MovesEveryObject
    <1> HIDE DEF Gap
    <1> QED
        BY <1>1, <1>2, <1>3, InvHolds, PTL DEF Spec

\* The collector implements the interface: the client sees no more than that objects
\* nothing leads to are taken back, although every object moves and every reference
\* is rewritten under its feet.
THEOREM Refinement == Spec => ImplementsHeap
    <1>1. Inv /\ [Next]_vars => [Heap!Next]_(Heap!vars)
        BY HeapStep
    <1> QED
        BY <1>1, HeapInit, InvHolds, PTL DEF Spec, ImplementsHeap, Heap!Spec
================================================================================
