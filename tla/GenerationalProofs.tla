------------------------- MODULE GenerationalProofs -------------------------
(***************************************************************************)
(* What holds of Generational for every heap size, number of roots, age of *)
(* promotion and set of classes: the types, the remembered set, when an    *)
(* object is promoted, what it means that the old generation is full, and  *)
(* that a collection takes back only what no root leads to.                *)
(***************************************************************************)
EXTENDS Generational, Sequences, FiniteSetTheorems, SequenceTheorems,
        WellFoundedInduction, TLAPS

--------------------------------------------------------------------------------
(* Searches and stacks.                                                    *)

\* A set of natural numbers that is not empty has a least element.
LEMMA LeastElement ==
    ASSUME NEW T \in SUBSET Nat, T # {}
    PROVE  \E m \in T : \A k \in T : m <= k
    <1> DEFINE R == StrictSubsetOrdering(Nat)
               Up == {0..m : m \in T}
    <1>1. Up \subseteq FiniteSubsetsOf(Nat) /\ Up # {}
        <2>1. ASSUME NEW m \in T
              PROVE  0..m \in SUBSET Nat /\ IsFiniteSet(0..m)
            <3>1. 0 \in Int /\ m \in Int
                OBVIOUS
            <3>2. IsFiniteSet(0..m)
                BY <3>1, FS_Interval, Zenon
            <3> QED
                BY <3>2
        <2> QED
            BY <2>1, Zenon DEF FiniteSubsetsOf
    <1>2. IsWellFoundedOn(R, FiniteSubsetsOf(Nat))
        BY FS_StrictSubsetOrderingWellFounded
    <1>3. PICK x \in Up : \A y \in Up : <<y, x>> \notin R
        BY <1>1, <1>2, WFMin
    <1>4. PICK m \in T : x = 0..m
        BY <1>3
    <1>5. ASSUME NEW k \in T, k < m
          PROVE  FALSE
        <2>1. 0..k \in SUBSET Nat /\ 0..m \in SUBSET Nat
            OBVIOUS
        <2>2. 0..k \subseteq 0..m /\ m \in 0..m /\ m \notin 0..k
            BY <1>5
        <2>3. <<0..k, 0..m>> \in R
            BY <2>1, <2>2 DEF StrictSubsetOrdering
        <2> QED
            BY <1>3, <1>4, <2>3
    <1> QED
        BY <1>5

\* All but the last element of a sequence.
LEMMA FrontProperties ==
    ASSUME NEW S, NEW s \in Seq(S), Len(s) # 0
    PROVE  /\ SubSeq(s, 1, Len(s) - 1) \in Seq(S)
           /\ Len(SubSeq(s, 1, Len(s) - 1)) = Len(s) - 1
           /\ \A j \in 1..(Len(s) - 1) : SubSeq(s, 1, Len(s) - 1)[j] = s[j]
    <1> DEFINE n == Len(s) - 1
    <1>1. n \in Nat /\ n + 1 = Len(s)
        BY LenProperties
    <1> HIDE DEF n
    <1>2. SubSeq(s, 1, n) \in Seq(S)
        BY <1>1, SMT
    <1>3. Len(SubSeq(s, 1, n)) = n
        BY <1>1, SMT
    <1>4. \A j \in 1..n : SubSeq(s, 1, n)[j] = s[j]
        BY <1>1, SMT
    <1> QED
        BY <1>2, <1>3, <1>4 DEF n

--------------------------------------------------------------------------------
(* The inductive invariant.                                                *)

Collecting == pc \in {"roots", "remembered", "adjust"}

\* Where an object lies: inside one of the three young spaces, or in a cell.
Inside(a, size, start, length) == start <= a /\ a + size <= start + length
Placed(a, size) ==
    IF a < old
    THEN \/ Inside(a, size, new_eden, eden_size)
         \/ Inside(a, size, survivor1, survivor_size)
         \/ Inside(a, size, survivor2, survivor_size)
    ELSE \E n \in Cell : a = Data(n)

\* What has been copied fits a survivor space, only what has been copied often
\* enough gets to the old generation, and promotion() finds nothing to remember.
Aged(a, o) ==
    /\ o.age # 0 => o.clss.size <= survivor_size
    /\ a >= old => o.age >= MAX_AGE
    /\ o.remembered = FALSE

\* The objects that Header describes, as records.
Records ==
    [clss : Class, field : UNION {[1..c.num_fields -> Pointer] : c \in Class}, age : 0..MAX_AGE,
     forwarded : BOOLEAN, forwarding : Pointer, remembered : BOOLEAN, id : Identity,
     born : 0..MaxCollections]

Memory(m) ==
    \A a \in DOMAIN m :
        /\ a \in Address /\ m[a] \in Records /\ Header(m[a])
        /\ Placed(a, m[a].clss.size) /\ Aged(a, m[a])

Registers ==
    /\ next_free_offset \in 0..eden_size
    /\ next_forwarding_offset \in 0..survivor_size
    /\ new_from \in {survivor1, survivor2}
    /\ old_next_free \in Cell \cup {Nil}
    /\ roots \in Seq(Pointer) /\ Len(roots) <= MAX_ROOTS
    /\ rs \in Seq(Pointer) /\ Len(rs) <= MAX_ROOTS
    /\ pc \in {"run", "roots", "remembered", "adjust", "major", "alloc", "abort", "old full",
               "undefined"}
    /\ request \in Class \cup {NoRequest}
    /\ ri \in 1..(MAX_ROOTS + 1) /\ fi \in Nat \ {0} /\ has_new_obj \in BOOLEAN
    /\ p \in 0..survivor_size
    /\ collections \in 0..MaxCollections

\* The calls of new_copy() are for young objects, and there are none outside the
\* two loops of minor_gc() that make them.
Frame == [obj : Address, i : Nat \ {0}]
Frames ==
    /\ stack \in Seq(Frame)
    /\ \A k \in DOMAIN stack : stack[k].obj \in Young
    /\ stack # <<>> => pc \notin {"run", "adjust", "major", "alloc"}

\* A call of new_copy() that ended the program is not resumed.
Blocked(q) == CopyAborts(q) \/ CopyUndefined(q) \/ OldIsFull(q)
StaysBlocked ==
    stack # <<>> /\ ~Collecting =>
        /\ Top.i \in DOMAIN object[Top.obj].field
        /\ Blocked(object[Top.obj].field[Top.i])

\* The survivor space that minor_gc() copies to, and the offsets in it at which
\* adjust_ref() may be: the copies lie end to end.
ToSpace(a) == new_to <= a /\ a < new_to + survivor_size
Starts ==
    {x \in 0..next_forwarding_offset : x = next_forwarding_offset \/ new_to + x \in Objects}
CopiesInOrder ==
    /\ \A a \in Young : ToSpace(a) => a < forwarding
    /\ 0 \in Starts
    /\ \A x \in Starts \ {next_forwarding_offset} : x + Size(new_to + x) \in Starts
    /\ pc = "adjust" => p \in Starts

\* When gc_alloc collects there is an identity for the object to come.
Requests ==
    /\ pc \in {"run", "major"} => request = NoRequest
    /\ pc = "alloc" => request # NoRequest
    /\ request # NoRequest => FreeIdentity # {}

Typed ==
    /\ Memory(object) /\ Registers
    /\ Frames /\ StaysBlocked /\ Requests
    /\ Collecting => CopiesInOrder

\* How often an object has been copied.
InTime ==
    /\ \A a \in Old : collections - object[a].born > MAX_AGE
    /\ pc \in {"run", "major", "alloc"} =>
        \A a \in Young : ~ToSpace(a) /\ object[a].age = collections - object[a].born
    /\ Collecting =>
        \A a \in Young :
            IF ToSpace(a) THEN object[a].age = collections - object[a].born
            ELSE object[a].forwarded \/ object[a].age = collections - 1 - object[a].born

\* The remembered set holds every old object with a pointer to what is young, in a
\* collection as well; and has_new_obj tells of the fields looked at.
Remembers ==
    /\ Range(rs) \subseteq Old
    /\ \A a \in Old : \A k \in DOMAIN object[a].field :
        object[a].field[k] # Nil /\ object[a].field[k] < old => a \in Range(rs)
    /\ pc = "remembered" /\ ri <= Len(rs) =>
        \A k \in DOMAIN object[rs[ri]].field :
            k < fi /\ object[rs[ri]].field[k] < old => has_new_obj

IInv ==
    /\ Typed
    /\ Sane => InTime /\ Remembers
    /\ OldFullOnlyWhenReachable

--------------------------------------------------------------------------------
(* The layout of the heap, for every size that gc_init is given.           *)

\* The spaces lie one behind the other (resolve_heap_size, gc_init).
LEMMA Sizes ==
    /\ eden_size \in Nat /\ survivor_size \in Nat /\ free_list_size \in Nat \ {0}
    /\ {MAX_ROOTS, MAX_AGE, NODE_SIZE} \subseteq Nat \ {0} /\ MaxCollections \in Nat
    /\ new_eden = 1 /\ survivor1 = 1 + eden_size
    /\ survivor2 = survivor1 + survivor_size
    /\ old = survivor2 + survivor_size
    /\ survivor1 \in Nat \ {0} /\ survivor2 \in Nat \ {0} /\ old \in Nat \ {0}
    <1>1. requested \in Nat
        BY SizeAssumption DEF requested
    <1>2. \A n \in Nat : n \div 10 \in Nat
        OBVIOUS
    <1>3. new_part \in Nat
        BY <1>1, <1>2 DEF new_part, NEW_RATIO
    <1>4. survivor_size \in Nat /\ eden_size \in Nat
        BY <1>2, <1>3 DEF survivor_size, eden_size, SURVIVOR_RATIO
    <1>5. free_list_size \in Nat \ {0} /\ {MAX_ROOTS, MAX_AGE, NODE_SIZE} \subseteq Nat \ {0}
          /\ MaxCollections \in Nat
        BY SizeAssumption
    <1> QED
        BY <1>4, <1>5 DEF new_eden, heap, survivor1, survivor2, old, new_size

\* A cell lies in the old generation, and inside the heap if its header fits it.
LEMMA CellFacts ==
    ASSUME NEW n \in Cell
    PROVE  /\ n \in Nat \ {0} /\ n - 1 \in Cell \cup {Nil}
           /\ Data(n) \in Nat /\ Data(n) >= old /\ old \in Nat \ {0}
           /\ NODE_HEADER <= NODE_SIZE => Data(n) \in Address
    <1> DEFINE N == free_list_size
               S == NODE_SIZE
    <1>1. N \in Nat /\ S \in Nat /\ n \in 1..N
        BY Sizes DEF Cell
    <1>2. (n - 1) * S \in Nat /\ N * S \in Nat /\ (n - 1) * S + S <= N * S
        <2> HIDE DEF N, S
        <2>1. PICK d \in Nat : N = n + d
            <3>1. N - n \in Nat /\ N = n + (N - n)
                BY <1>1
            <3> QED
                BY <3>1
        <2>2. PICK e \in Nat : n = e + 1
            <3>1. n - 1 \in Nat /\ n = (n - 1) + 1
                BY <1>1
            <3> QED
                BY <3>1
        <2>3. N * S = e * S + S + d * S /\ (n - 1) * S = e * S
            BY <1>1, <2>1, <2>2
        <2>4. e * S \in Nat /\ d * S \in Nat
            BY <1>1
        <2> QED
            BY <1>1, <2>3, <2>4
    <1>3. old \in Nat \ {0}
        BY Sizes
    <1>4. Data(n) = old + (n - 1) * S + 24
        BY DEF Data, NODE_HEADER
    <1>5. Address = 1..(old + N * S)
        BY DEF Address, heap
    <1> HIDE DEF N, S
    <1>6. n \in Nat \ {0} /\ n - 1 \in Cell \cup {Nil}
        BY <1>1 DEF Cell, Nil, N
    <1>7. Data(n) \in Nat /\ Data(n) >= old
        BY <1>2, <1>3, <1>4
    <1>8. NODE_HEADER <= NODE_SIZE => Data(n) \in Address
        BY <1>1, <1>2, <1>3, <1>4, <1>5 DEF NODE_HEADER, S
    <1> QED
        BY <1>3, <1>6, <1>7, <1>8

\* The cell with the lowest and the one with the highest address of some.
LEMMA Extremes ==
    ASSUME NEW T \in SUBSET Cell, T # {}
    PROVE  Min(T) \in T /\ Max(T) \in T
    <1>1. free_list_size \in Nat /\ T \in SUBSET Nat /\ \A c \in T : free_list_size - c \in Nat
        BY Sizes DEF Cell
    <1>2. \E m \in T : \A k \in T : m <= k
        BY <1>1, LeastElement
    <1>3. \E m \in T : \A k \in T : m >= k
        <2> DEFINE U == {free_list_size - c : c \in T}
        <2>1. U \in SUBSET Nat /\ U # {}
            BY <1>1
        <2>2. PICK u \in U : \A v \in U : u <= v
            BY <2>1, LeastElement
        <2>3. PICK c \in T : u = free_list_size - c
            BY <2>2
        <2>4. ASSUME NEW k \in T
              PROVE  c >= k
            <3>1. free_list_size - c <= free_list_size - k
                BY <2>2, <2>3
            <3> QED
                BY <1>1, <3>1
        <2> QED
            BY <2>4
    <1>4. Min(T) \in T
        BY <1>2, Zenon DEF Min
    <1>5. Max(T) \in T
        BY <1>3, Zenon DEF Max
    <1> QED
        BY <1>4, <1>5

\* Memory, with what its conditions say of an object.
LEMMA MemoryFacts ==
    ASSUME NEW m, Memory(m), NEW a \in DOMAIN m
    PROVE  /\ a \in Address /\ a \in Nat \ {0} /\ a # Nil
           /\ m[a] \in Records /\ Header(m[a])
           /\ m[a].clss \in Class /\ m[a].clss.size \in Nat /\ m[a].clss.size >= 32
           /\ m[a].clss.num_fields \in Nat
           /\ m[a].field \in [1..m[a].clss.num_fields -> Pointer]
           /\ m[a].age \in 0..MAX_AGE /\ m[a].born \in 0..MaxCollections
           /\ m[a].forwarding \in Pointer /\ m[a].forwarded \in BOOLEAN
           /\ m[a].remembered = FALSE /\ m[a].id \in Identity
           /\ Placed(a, m[a].clss.size) /\ Aged(a, m[a])
    <1>1. /\ a \in Address /\ m[a] \in Records /\ Header(m[a])
          /\ Placed(a, m[a].clss.size) /\ Aged(a, m[a])
        BY DEF Memory
    <1>2. a \in Nat \ {0} /\ a # Nil
        BY <1>1 DEF Address, heap, Nil
    <1> QED
        BY <1>1, <1>2, ClassAssumption DEF Header, Aged, HEADER_SIZE

\* What follows from Header, of a record.
LEMMA MemoryByHeader ==
    ASSUME NEW m,
           \A a \in DOMAIN m :
                /\ a \in Address /\ m[a] \in Records
                /\ m[a].field \in [1..m[a].clss.num_fields -> Pointer]
                /\ Placed(a, m[a].clss.size) /\ Aged(a, m[a])
    PROVE  Memory(m)
    BY DEF Memory, Header, Records

\* Two memories that differ in the contents of reference fields only.
Like(m, n) ==
    /\ DOMAIN m = DOMAIN n
    /\ \A a \in DOMAIN m :
        \E f \in [1..n[a].clss.num_fields -> Pointer] : m[a] = [n[a] EXCEPT !.field = f]

LEMMA LikeFacts ==
    ASSUME NEW m, NEW n, Memory(n), Like(m, n), NEW a \in DOMAIN m
    PROVE  /\ a \in DOMAIN n
           /\ m[a].clss = n[a].clss /\ m[a].age = n[a].age /\ m[a].born = n[a].born
           /\ m[a].forwarded = n[a].forwarded /\ m[a].forwarding = n[a].forwarding
           /\ m[a].remembered = n[a].remembered /\ m[a].id = n[a].id
           /\ m[a].field \in [1..n[a].clss.num_fields -> Pointer]
           /\ m[a] \in Records
    <1>1. a \in DOMAIN n
        BY DEF Like
    <1>2. n[a] \in Records /\ n[a].clss \in Class
        BY <1>1, MemoryFacts
    <1>3. PICK f \in [1..n[a].clss.num_fields -> Pointer] : m[a] = [n[a] EXCEPT !.field = f]
        BY DEF Like
    <1>4. f \in UNION {[1..c.num_fields -> Pointer] : c \in Class}
        BY <1>2
    <1>5. m[a] \in Records
        BY <1>2, <1>3, <1>4 DEF Records
    <1> QED
        BY <1>1, <1>2, <1>3, <1>5 DEF Records

LEMMA LikeMemory ==
    ASSUME NEW m, NEW n, Memory(n), Like(m, n)
    PROVE  Memory(m)
    <1> SUFFICES ASSUME NEW a \in DOMAIN m
                 PROVE  /\ a \in Address /\ m[a] \in Records
                        /\ m[a].field \in [1..m[a].clss.num_fields -> Pointer]
                        /\ Placed(a, m[a].clss.size) /\ Aged(a, m[a])
        BY MemoryByHeader
    <1>1. /\ a \in DOMAIN n /\ m[a] \in Records
          /\ m[a].clss = n[a].clss /\ m[a].age = n[a].age /\ m[a].remembered = n[a].remembered
          /\ m[a].field \in [1..n[a].clss.num_fields -> Pointer]
        BY LikeFacts
    <1>2. a \in Address /\ Placed(a, n[a].clss.size) /\ Aged(a, n[a])
        BY <1>1, MemoryFacts
    <1>3. Aged(a, m[a])
        BY <1>1, <1>2 DEF Aged
    <1> QED
        BY <1>1, <1>2, <1>3

\* Storing pointers in the fields of an object changes nothing else.
LEMMA StoreLike ==
    ASSUME NEW m, Memory(m), NEW n, DOMAIN n = DOMAIN m, NEW b,
           \A a \in DOMAIN m \ {b} : n[a] = m[a],
           NEW g, b \in DOMAIN m => /\ n[b] = [m[b] EXCEPT !.field = g]
                                    /\ g \in [1..m[b].clss.num_fields -> Pointer]
    PROVE  Like(n, m)
    <1> SUFFICES ASSUME NEW a \in DOMAIN m
                 PROVE  \E f \in [1..m[a].clss.num_fields -> Pointer] :
                            n[a] = [m[a] EXCEPT !.field = f]
        BY DEF Like
    <1>1. CASE a = b
        BY <1>1
    <1>2. CASE a # b
        <2>1. m[a] \in Records /\ m[a].field \in [1..m[a].clss.num_fields -> Pointer]
            BY MemoryFacts
        <2>2. m[a] = [m[a] EXCEPT !.field = m[a].field]
            BY <2>1 DEF Records
        <2> QED
            BY <1>2, <2>1, <2>2
    <1> QED
        BY <1>1, <1>2

\* The store of one pointer is one.
LEMMA StorePointer ==
    ASSUME NEW m, Memory(m), NEW b, NEW i, NEW x \in Pointer
    PROVE  Like([m EXCEPT ![b].field[i] = x], m)
    <1> DEFINE n == [m EXCEPT ![b].field[i] = x]
               g == [m[b].field EXCEPT ![i] = x]
    <1>1. DOMAIN n = DOMAIN m /\ \A a \in DOMAIN m \ {b} : n[a] = m[a]
        OBVIOUS
    <1>2. ASSUME b \in DOMAIN m
          PROVE  n[b] = [m[b] EXCEPT !.field = g] /\ g \in [1..m[b].clss.num_fields -> Pointer]
        <2>1. n[b] = [m[b] EXCEPT !.field[i] = x]
            BY <1>2
        <2>2. m[b].field \in [1..m[b].clss.num_fields -> Pointer] /\ m[b] \in Records
            BY <1>2, MemoryFacts
        <2>3. [m[b] EXCEPT !.field[i] = x] = [m[b] EXCEPT !.field = g]
            BY <2>2 DEF Records
        <2> QED
            BY <2>1, <2>2, <2>3
    <1> HIDE DEF n, g
    <1>3. Like(n, m)
        BY <1>1, <1>2, StoreLike
    <1> QED
        BY <1>3 DEF n

\* The survivor spaces, in whichever order minor_gc() uses them.
LEMMA SpaceFacts ==
    ASSUME Registers
    PROVE  /\ new_to \in Nat /\ new_from \in Nat /\ new_to >= survivor1 /\ new_to >= 1
           /\ new_to + survivor_size <= old /\ old \in Nat \ {0}
           /\ next_forwarding_offset \in Nat /\ next_forwarding_offset <= survivor_size
           /\ forwarding \in Nat /\ forwarding = new_to + next_forwarding_offset
           /\ forwarding >= new_to /\ forwarding <= new_to + survivor_size
           /\ \/ new_to = survivor1 /\ new_from = survivor2
              \/ new_to = survivor2 /\ new_from = survivor1
    <1>1. \/ new_to = survivor1 /\ new_from = survivor2
          \/ new_to = survivor2 /\ new_from = survivor1
        BY DEF new_to, Registers
    <1>2. next_forwarding_offset \in Nat /\ next_forwarding_offset <= survivor_size
        <2>1. next_forwarding_offset \in 0..survivor_size
            BY DEF Registers
        <2> QED
            BY <2>1, Sizes
    <1>3. /\ new_to \in Nat /\ new_from \in Nat /\ new_to >= survivor1 /\ new_to >= 1
          /\ new_to + survivor_size <= old /\ old \in Nat \ {0}
        BY <1>1, Sizes
    <1>4. forwarding = new_to + next_forwarding_offset
        BY DEF forwarding
    <1>5. survivor_size \in Nat
        BY Sizes
    <1> QED
        BY <1>1, <1>2, <1>3, <1>4, <1>5

LEMMA AddressFacts ==
    /\ Address \subseteq Nat \ {0} /\ Pointer = Address \cup {Nil} /\ Nil \notin Address
    /\ \A a \in Nat : 1 <= a /\ a <= old => a \in Address
    <1>1. old \in Nat /\ free_list_size * NODE_SIZE \in Nat
        BY Sizes
    <1> QED
        BY <1>1 DEF Address, Pointer, heap, Nil

LEMMA ObjectFacts ==
    ASSUME Memory(object), NEW a \in Objects
    PROVE  /\ a \in Address /\ a \in Nat \ {0} /\ a # Nil /\ object[a] \in Records
           /\ object[a].clss \in Class /\ object[a].clss.size \in Nat
           /\ object[a].clss.size >= 32 /\ object[a].clss.num_fields \in Nat
           /\ object[a].field \in [1..object[a].clss.num_fields -> Pointer]
           /\ object[a].age \in 0..MAX_AGE /\ object[a].born \in 0..MaxCollections
           /\ object[a].forwarding \in Pointer /\ object[a].forwarded \in BOOLEAN
           /\ object[a].remembered = FALSE /\ object[a].id \in Identity
           /\ Placed(a, object[a].clss.size) /\ Aged(a, object[a])
           /\ Size(a) = object[a].clss.size
           /\ object[a].age # 0 => Size(a) <= survivor_size
           /\ a >= old => object[a].age >= MAX_AGE
           /\ a \in Young <=> a < old
           /\ a \in Old <=> a >= old
    <1>1. a \in DOMAIN object
        BY DEF Objects
    <1>2. a \in Nat /\ old \in Nat
        <2>1. a \in Nat
            BY <1>1, MemoryFacts
        <2> QED
            BY <2>1, Sizes
    <1>3. (a \in Young <=> a < old) /\ (a \in Old <=> a >= old)
        BY <1>2 DEF Young, Old
    <1>4. Aged(a, object[a])
        BY <1>1, MemoryFacts
    <1>5. (object[a].age # 0 => Size(a) <= survivor_size) /\ (a >= old => object[a].age >= MAX_AGE)
        BY <1>4 DEF Aged, Size
    <1> QED
        BY <1>1, <1>3, <1>5, MemoryFacts DEF Size

LEMMA CountFacts ==
    ASSUME Registers
    PROVE  collections \in Nat
    <1>1. collections \in 0..MaxCollections
        BY DEF Registers
    <1> QED
        BY <1>1

LEMMA BornFacts ==
    ASSUME Memory(object), NEW a \in Objects
    PROVE  object[a].born \in Nat
    <1>1. object[a].born \in 0..MaxCollections
        BY ObjectFacts
    <1> QED
        BY <1>1

\* What new_copy() reads.
LEMMA CallArgument ==
    ASSUME Typed, NEW q, ~Blocked(q)
    PROVE  /\ q = Nil \/ q \in Objects
           /\ ToSurvivor(q) =>
                /\ q \in Objects /\ ~object[q].forwarded /\ object[q].age < MAX_AGE /\ q < old
                /\ next_forwarding_offset + Size(q) <= survivor_size
           /\ ToOld(q) =>
                /\ q \in Objects /\ ~object[q].forwarded /\ object[q].age = MAX_AGE
                /\ MustSweep => q \notin Swept
                /\ Idle(DOMAIN Kept) # {} \/ ~MustSearch
    <1> USE DEF Typed
    <1>1. q = Nil \/ q \in Objects
        BY DEF Blocked, CopyUndefined
    <1>2. ASSUME ToSurvivor(q)
          PROVE  /\ q \in Objects /\ ~object[q].forwarded /\ object[q].age < MAX_AGE /\ q < old
                 /\ next_forwarding_offset + Size(q) <= survivor_size
        <2>1. q \in Objects /\ ~object[q].forwarded /\ object[q].age < MAX_AGE
            BY <1>2 DEF ToSurvivor, IsNew
        <2>2. q \in Nat /\ Aged(q, object[q]) /\ object[q].age \in 0..MAX_AGE
              /\ object[q].clss.size \in Nat
            BY <2>1, ObjectFacts
        <2>3. q < old
            BY <2>1, <2>2, Sizes DEF Aged
        <2>4. ~(next_forwarding_offset + Size(q) > survivor_size)
            BY <1>2 DEF Blocked, CopyUndefined, CopyAborts
        <2>5. next_forwarding_offset \in Nat /\ survivor_size \in Nat
            BY Sizes, SpaceFacts
        <2> QED
            BY <2>1, <2>2, <2>3, <2>4, <2>5 DEF Size
    <1>3. ASSUME ToOld(q)
          PROVE  /\ q \in Objects /\ ~object[q].forwarded /\ object[q].age = MAX_AGE
                 /\ MustSweep => q \notin Swept
                 /\ Idle(DOMAIN Kept) # {} \/ ~MustSearch
        <2>1. q \in Objects /\ ~object[q].forwarded /\ ~(object[q].age < MAX_AGE)
            BY <1>3 DEF ToOld, ToSurvivor, IsNew
        <2>2. object[q].age \in 0..MAX_AGE
            BY <2>1, ObjectFacts
        <2>3. MustSweep => q \notin Swept
            BY <1>3 DEF Blocked, CopyUndefined
        <2>4. Idle(DOMAIN Kept) # {} \/ ~MustSearch
            BY <1>3 DEF Blocked, OldIsFull
        <2> QED
            BY <2>1, <2>2, <2>3, <2>4, Sizes
    <1> QED
        BY <1>1, <1>2, <1>3

\* No object of m has an identity that is not in memory yet.
Identified(m) == \A a \in DOMAIN m : \E b \in Objects : m[a].id = object[b].id

\* A copy in a survivor space (new_copy).
LEMMA CopiedMemory ==
    ASSUME Typed, CopiesInOrder, NEW q, ToSurvivor(q), ~Blocked(q)
    PROVE  /\ Memory(Copied(q))
           /\ DOMAIN Copied(q) = Objects \cup {forwarding}
           /\ forwarding \notin Objects /\ forwarding \in Address /\ forwarding < old
           /\ Size(q) \in Nat \ {0}
           /\ forwarding + Size(q) <= new_to + survivor_size
           /\ Copied(q)[forwarding] =
                [object[q] EXCEPT !.age = @ + 1, !.remembered = FALSE]
           /\ Copied(q)[q] = [object[q] EXCEPT !.age = @ + 1, !.forwarded = TRUE,
                                                !.forwarding = forwarding]
           /\ \A a \in Objects \ {q} : Copied(q)[a] = object[a]
           /\ \A a \in Objects : Copied(q)[a].clss = object[a].clss
           /\ Identified(Copied(q))
    <1> DEFINE t == forwarding
               m == Copied(q)
               o == object[q]
               original == [o EXCEPT !.age = @ + 1, !.forwarded = TRUE, !.forwarding = t]
               copy == [o EXCEPT !.age = @ + 1, !.remembered = FALSE]
    <1>1. q \in Objects /\ o.age < MAX_AGE /\ q < old
          /\ next_forwarding_offset + o.clss.size <= survivor_size
        BY CallArgument DEF Size
    <1>2. /\ q \in Address /\ o \in Records /\ Placed(q, o.clss.size) /\ Aged(q, o)
          /\ o.clss.size \in Nat /\ o.clss.size >= 32 /\ o.age \in 0..MAX_AGE
          /\ o.field \in [1..o.clss.num_fields -> Pointer]
        BY <1>1, ObjectFacts DEF Typed
    <1>3. /\ t \in Nat /\ new_to \in Nat /\ t >= new_to /\ t = new_to + next_forwarding_offset
          /\ next_forwarding_offset \in Nat /\ new_to + survivor_size <= old /\ new_to >= 1
          /\ old \in Nat /\ new_to \in {survivor1, survivor2}
        BY SpaceFacts DEF Typed
    <1>4. survivor_size \in Nat /\ MAX_AGE \in Nat
        BY Sizes
    <1>5. t + o.clss.size <= new_to + survivor_size /\ t < new_to + survivor_size /\ t < old
        BY <1>1, <1>2, <1>3, <1>4
    <1>6. t \in Address
        BY <1>3, <1>5, AddressFacts
    <1>7. t \notin Objects
        <2>1. ToSpace(t)
            BY <1>3, <1>5 DEF ToSpace
        <2> QED
            BY <1>3, <1>5, <2>1 DEF CopiesInOrder, Young
    <1>8. DOMAIN m = Objects \cup {t}
        BY DEF Copied
    <1>9. m[q] = original
        <2>1. m[q] = [[o EXCEPT !.age = @ + 1] EXCEPT !.forwarded = TRUE, !.forwarding = t]
            BY <1>1 DEF Copied
        <2> QED
            BY <1>2, <2>1 DEF Records
    <1>10. m[t] = copy
        <2>1. m[t] = [[o EXCEPT !.age = @ + 1] EXCEPT !.remembered = FALSE]
            BY <1>1, <1>7 DEF Copied
        <2> QED
            BY <1>2, <2>1 DEF Records
    <1>11. \A a \in Objects \ {q} : m[a] = object[a]
        BY <1>7 DEF Copied
    <1>12. o.age + 1 \in 0..MAX_AGE
        BY <1>1, <1>2, <1>4
    <1>13. t \in Pointer
        BY <1>6, AddressFacts
    <1>14. original \in Records /\ original.clss = o.clss /\ original.field = o.field
           /\ original.age = o.age + 1 /\ original.id = o.id /\ original.remembered = o.remembered
        BY <1>2, <1>12, <1>13 DEF Records
    <1>15. copy \in Records /\ copy.clss = o.clss /\ copy.field = o.field
           /\ copy.age = o.age + 1 /\ copy.id = o.id /\ copy.remembered = FALSE
        BY <1>2, <1>12 DEF Records
    <1> HIDE DEF original, copy, o, m, t
    <1>16. o.clss.size <= survivor_size
        BY <1>1, <1>2, <1>3, <1>4
    <1>17. Memory(m)
        <2> SUFFICES ASSUME NEW a \in DOMAIN m
                     PROVE  /\ a \in Address /\ m[a] \in Records
                            /\ m[a].field \in [1..m[a].clss.num_fields -> Pointer]
                            /\ Placed(a, m[a].clss.size) /\ Aged(a, m[a])
            BY MemoryByHeader
        <2>1. CASE a = q
            <3>1. Aged(a, original)
                BY <1>1, <1>2, <1>14, <1>16, <1>3, <2>1, AddressFacts DEF Aged
            <3> QED
                BY <1>2, <1>9, <1>14, <2>1, <3>1
        <2>2. CASE a = t
            <3>1. Aged(a, copy)
                BY <1>5, <1>3, <1>15, <1>16, <2>2 DEF Aged
            <3>2. Placed(a, o.clss.size)
                BY <1>5, <1>3, <2>2 DEF Placed, Inside
            <3> QED
                BY <1>2, <1>6, <1>10, <1>15, <2>2, <3>1, <3>2
        <2>3. CASE a \in Objects \ {q}
            BY <1>11, <2>3, ObjectFacts DEF Typed
        <2> QED
            BY <1>8, <2>1, <2>2, <2>3
    <1>18. \A a \in Objects : m[a].clss = object[a].clss
        BY <1>9, <1>11, <1>14 DEF o
    <1>19. Identified(m)
        BY <1>1, <1>8, <1>9, <1>10, <1>11, <1>14, <1>15 DEF o, Identified
    <1>20. o.clss.size \in Nat \ {0} /\ Size(q) = o.clss.size
        BY <1>2 DEF Size, o
    <1> QED
        BY <1>5, <1>6, <1>7, <1>8, <1>9, <1>10, <1>11, <1>17, <1>18, <1>19, <1>20
        DEF m, t, o, original, copy

\* What a major_gc() leaves, if there is one (old_malloc).
LEMMA KeptFacts ==
    ASSUME Memory(object)
    PROVE  /\ Swept \subseteq Old /\ Old \subseteq Objects /\ Young \subseteq Objects
           /\ DOMAIN AfterMajor = Objects \ Swept
           /\ \A a \in DOMAIN AfterMajor : AfterMajor[a] = object[a]
           /\ DOMAIN Kept \subseteq Objects /\ Young \subseteq DOMAIN Kept
           /\ MustSweep => DOMAIN Kept = Objects \ Swept
           /\ ~MustSweep => DOMAIN Kept = Objects
           /\ \A a \in DOMAIN Kept : Kept[a] = object[a]
    <1>1. Swept \subseteq Old /\ Old \subseteq Objects /\ Young \subseteq Objects
        BY DEF Swept, Old, Young
    <1>2. DOMAIN AfterMajor = Objects \ Swept
          /\ \A a \in DOMAIN AfterMajor : AfterMajor[a] = object[a]
        BY DEF AfterMajor
    <1>3. Young \cap Old = {}
        BY DEF Old
    <1>4. MustSweep => Kept = AfterMajor
        BY DEF Kept
    <1>5. ~MustSweep => Kept = object
        BY DEF Kept
    <1>6. DOMAIN object = Objects
        BY DEF Objects
    <1>7. CASE MustSweep
        BY <1>1, <1>2, <1>3, <1>4, <1>7
    <1>8. CASE ~MustSweep
        BY <1>1, <1>2, <1>3, <1>5, <1>6, <1>8
    <1> QED
        BY <1>7, <1>8

\* The cell that old_malloc() returns is idle, and an object that has been copied
\* often enough to be promoted fits it.
LEMMA NewCellFacts ==
    ASSUME Typed, NEW q, ToOld(q), ~Blocked(q)
    PROVE  /\ NewCell \in Cell /\ Data(NewCell) \notin DOMAIN Kept
           /\ Data(NewCell) \in Address /\ Data(NewCell) >= old
           /\ Data(NewCell) \notin Young
    <1>1. q \in Objects /\ object[q].age = MAX_AGE /\ (Idle(DOMAIN Kept) # {} \/ ~MustSearch)
        BY CallArgument
    <1>2. Memory(object) /\ Registers
        BY DEF Typed
    <1>3. NewCell \in Cell /\ Data(NewCell) \notin DOMAIN Kept
        <2>1. CASE MustSearch
            <3>1. Idle(DOMAIN Kept) \subseteq Cell
                BY DEF Idle
            <3>2. Max(Idle(DOMAIN Kept)) \in Idle(DOMAIN Kept)
                BY <1>1, <2>1, <3>1, Extremes
            <3>3. NewCell = Max(Idle(DOMAIN Kept))
                BY <2>1 DEF NewCell
            <3>4. NewCell \in Idle(DOMAIN Kept)
                BY <3>2, <3>3
            <3> QED
                BY <3>4 DEF Idle
        <2>2. CASE ~MustSearch
            <3>1. NewCell = old_next_free /\ old_next_free # Nil
                  /\ Data(old_next_free) \notin Objects
                BY <2>2 DEF NewCell, MustSearch
            <3>2. old_next_free \in Cell \cup {Nil}
                BY <1>2 DEF Registers
            <3> QED
                BY <1>2, <3>1, <3>2, KeptFacts
        <2> QED
            BY <2>1, <2>2
    <1>4. NODE_HEADER <= NODE_SIZE
        <2> DEFINE c == object[q].clss
        <2>1. c \in Class /\ c.size \in Nat /\ c.size >= 32 /\ c.size <= survivor_size
            BY <1>1, <1>2, ObjectFacts, Sizes DEF Size
        <2>2. survivor_size \in Nat /\ NODE_SIZE \in Nat
            BY Sizes
        <2> HIDE DEF c
        <2>3. c.size + NODE_HEADER <= NODE_SIZE
            BY <2>1, CellAssumption
        <2> QED
            BY <2>1, <2>2, <2>3 DEF NODE_HEADER
    <1>5. Data(NewCell) \in Address /\ Data(NewCell) >= old /\ Data(NewCell) \in Nat /\ old \in Nat
        BY <1>3, <1>4, CellFacts
    <1>6. Data(NewCell) \notin Young
        BY <1>5 DEF Young
    <1> QED
        BY <1>3, <1>5, <1>6

\* An object in a cell that old_malloc() found (promotion).
LEMMA PromotedMemory ==
    ASSUME Typed, NEW q, ToOld(q), ~Blocked(q)
    PROVE  /\ Memory(Promoted(q))
           /\ DOMAIN Promoted(q) = DOMAIN Kept \cup {Data(NewCell)}
           /\ q \in DOMAIN Kept
           /\ Promoted(q)[q] = [object[q] EXCEPT !.forwarded = TRUE, !.forwarding = Data(NewCell)]
           /\ Promoted(q)[Data(NewCell)] =
                [object[q] EXCEPT !.forwarded = FALSE,
                                  !.field = NullFields(object[q].clss.num_fields)]
           /\ \A a \in DOMAIN Kept \ {q} : Promoted(q)[a] = object[a]
           /\ \A a \in DOMAIN Kept : Promoted(q)[a].clss = object[a].clss
           /\ Identified(Promoted(q))
           /\ ~RefersToYoung(Cell0(q))
    <1> DEFINE t == Data(NewCell)
               m == Promoted(q)
               o == object[q]
               n == o.clss.num_fields
               original == [o EXCEPT !.forwarded = TRUE, !.forwarding = t]
               cell == [o EXCEPT !.forwarded = FALSE, !.field = NullFields(n)]
    <1>1. q \in Objects /\ o.age = MAX_AGE /\ (MustSweep => q \notin Swept)
        BY CallArgument
    <1>2. Memory(object)
        BY DEF Typed
    <1>3. q \in DOMAIN Kept /\ DOMAIN Kept \subseteq Objects
        BY <1>1, <1>2, KeptFacts
    <1>4. NewCell \in Cell /\ t \notin DOMAIN Kept /\ t \in Address /\ t >= old
        BY NewCellFacts
    <1>5. /\ q \in Address /\ o \in Records /\ Placed(q, o.clss.size) /\ Aged(q, o)
          /\ o.clss \in Class /\ n \in Nat /\ o.age \in 0..MAX_AGE
          /\ o.field \in [1..n -> Pointer] /\ o.remembered = FALSE
        BY <1>1, <1>2, ObjectFacts
    <1>6. NullFields(n) \in [1..n -> Pointer]
          /\ \A i \in DOMAIN NullFields(n) : NullFields(n)[i] = Nil
        BY AddressFacts DEF NullFields
    <1>7. ~RefersToYoung(Cell0(q))
        <2>1. Cell0(q) = cell
            BY DEF Cell0
        <2>2. cell.field = NullFields(n)
            BY <1>5 DEF Records
        <2> QED
            BY <1>6, <2>1, <2>2 DEF RefersToYoung
    <1>8. DOMAIN m = DOMAIN Kept \cup {t}
        BY DEF Promoted
    <1>9. m[q] = original
        BY <1>3 DEF Promoted
    <1>10. \A a \in DOMAIN Kept \ {q} : m[a] = object[a]
        BY <1>4 DEF Promoted
    <1>11. NullFields(n) \in UNION {[1..c.num_fields -> Pointer] : c \in Class}
        BY <1>5, <1>6
    <1>12. cell \in Records /\ cell.clss = o.clss /\ cell.field = NullFields(n)
           /\ cell.age = o.age /\ cell.id = o.id /\ cell.remembered = FALSE
        BY <1>5, <1>11 DEF Records
    <1>13. m[t] = cell
        <2>1. m[t] = [Cell0(q) EXCEPT !.remembered = @ \/ RefersToYoung(Cell0(q))]
            BY <1>3, <1>4 DEF Promoted
        <2>2. Cell0(q) = cell
            BY DEF Cell0
        <2>3. (cell.remembered \/ RefersToYoung(Cell0(q))) = FALSE
            BY <1>7, <1>12, Zenon
        <2>4. m[t] = [cell EXCEPT !.remembered = FALSE]
            BY <2>1, <2>2, <2>3
        <2> HIDE DEF cell, m, t
        <2> QED
            BY <1>12, <2>4 DEF Records
    <1>14. t \in Pointer
        BY <1>4, AddressFacts
    <1>15. original \in Records /\ original.clss = o.clss /\ original.field = o.field
           /\ original.age = o.age /\ original.id = o.id /\ original.remembered = o.remembered
        BY <1>5, <1>14 DEF Records
    <1> HIDE DEF original, cell, o, m, t, n
    <1>16. Memory(m)
        <2> SUFFICES ASSUME NEW a \in DOMAIN m
                     PROVE  /\ a \in Address /\ m[a] \in Records
                            /\ m[a].field \in [1..m[a].clss.num_fields -> Pointer]
                            /\ Placed(a, m[a].clss.size) /\ Aged(a, m[a])
            BY MemoryByHeader
        <2>1. CASE a = q
            <3>1. Aged(a, original)
                BY <1>5, <1>15, <2>1 DEF Aged
            <3> QED
                BY <1>5, <1>9, <1>15, <2>1, <3>1 DEF n
        <2>2. CASE a = t
            <3>1. Aged(a, cell)
                BY <1>1, <1>5, <1>12, Sizes DEF Aged
            <3>2. old \in Nat /\ t \in Nat
                BY <1>4, Sizes, AddressFacts
            <3>3. Placed(a, o.clss.size)
                BY <1>4, <2>2, <3>2 DEF Placed, t
            <3> QED
                BY <1>4, <1>6, <1>12, <1>13, <2>2, <3>1, <3>3 DEF n
        <2>3. CASE a \in DOMAIN Kept \ {q}
            <3>1. a \in Objects /\ m[a] = object[a]
                BY <1>3, <1>10, <2>3
            <3> QED
                BY <1>2, <3>1, ObjectFacts
        <2> QED
            BY <1>8, <2>1, <2>2, <2>3
    <1>17. \A a \in DOMAIN Kept : m[a].clss = object[a].clss
        BY <1>9, <1>10, <1>15 DEF o
    <1>18. Identified(m)
        BY <1>1, <1>3, <1>8, <1>9, <1>10, <1>12, <1>13, <1>15 DEF o, Identified
    <1> QED
        BY <1>3, <1>7, <1>8, <1>9, <1>10, <1>13, <1>16, <1>17, <1>18
        DEF m, t, o, original, cell, n

\* The memory that new_copy() leaves, and what it returns, whatever it does.
LEMMA AfterFacts ==
    ASSUME Typed, CopiesInOrder, NEW q, ~Blocked(q)
    PROVE  /\ Memory(After(q)) /\ Result(q) \in Pointer
           /\ Young \subseteq DOMAIN After(q)
           /\ \A a \in Young : After(q)[a].clss = object[a].clss
           /\ \A a \in DOMAIN After(q) :
                a < old => a \in Young \/ (ToSurvivor(q) /\ a = forwarding)
           /\ Identified(After(q))
    <1>1. Memory(object) /\ Registers
        BY DEF Typed
    <1>2. Young \subseteq Objects /\ \A a \in Objects : a < old => a \in Young
        BY DEF Young
    <1>3. CASE ToSurvivor(q)
        <2>1. After(q) = Copied(q)
            BY <1>3 DEF After
        <2>2. Result(q) = forwarding
            <3>1. q \in Objects /\ q # Nil
                BY <1>1, <1>3, CallArgument, ObjectFacts
            <3> QED
                BY <1>3, <3>1 DEF Result
        <2>3. forwarding \in Address
            BY <1>3, CopiedMemory
        <2>4. Result(q) \in Pointer
            BY <2>2, <2>3, AddressFacts
        <2>5. Memory(Copied(q)) /\ DOMAIN Copied(q) = Objects \cup {forwarding}
            BY <1>3, CopiedMemory
        <2>6. \A a \in Objects : Copied(q)[a].clss = object[a].clss
            BY <1>3, CopiedMemory
        <2>7. Identified(Copied(q))
            BY <1>3, CopiedMemory
        <2> QED
            BY <1>2, <1>3, <2>1, <2>4, <2>5, <2>6, <2>7
    <1>4. CASE ToOld(q)
        <2>1. ~ToSurvivor(q)
            BY <1>4 DEF ToOld
        <2>2. After(q) = Promoted(q)
            BY <1>4, <2>1 DEF After
        <2>3. Result(q) = Data(NewCell)
            <3>1. q \in Objects /\ q # Nil
                BY <1>1, <1>4, CallArgument, ObjectFacts
            <3> QED
                BY <1>4, <2>1, <3>1 DEF Result
        <2>4. Data(NewCell) \in Address /\ Data(NewCell) >= old
            BY <1>4, NewCellFacts
        <2>5. Result(q) \in Pointer
            BY <2>3, <2>4, AddressFacts
        <2>6. /\ Memory(Promoted(q)) /\ DOMAIN Promoted(q) = DOMAIN Kept \cup {Data(NewCell)}
              /\ \A a \in DOMAIN Kept : Promoted(q)[a].clss = object[a].clss
              /\ Identified(Promoted(q))
            BY <1>4, PromotedMemory
        <2>7. Young \subseteq DOMAIN Kept /\ DOMAIN Kept \subseteq Objects
            BY <1>1, KeptFacts
        <2>8. ~(Data(NewCell) < old)
            <3>1. Data(NewCell) \in Nat /\ old \in Nat
                BY <2>4, Sizes, AddressFacts
            <3> QED
                BY <2>4, <3>1
        <2> QED
            BY <1>2, <2>2, <2>5, <2>6, <2>7, <2>8
    <1>5. CASE ~ToSurvivor(q) /\ ~ToOld(q)
        <2>1. After(q) = object
            BY <1>5 DEF After
        <2>2. Result(q) \in Pointer
            <3>1. CASE q = Nil
                BY <3>1, AddressFacts DEF Result
            <3>2. CASE q # Nil
                <4>1. q \in Objects
                    BY <3>2, CallArgument
                <4>2. Result(q) = object[q].forwarding
                    BY <1>5, <3>2 DEF Result
                <4> QED
                    BY <1>1, <4>1, <4>2, ObjectFacts
            <3> QED
                BY <3>1, <3>2
        <2> QED
            BY <1>1, <1>2, <2>1, <2>2 DEF Objects, Identified
    <1> QED
        BY <1>3, <1>4, <1>5

\* Identities do not run out when no new one is taken.
LEMMA IdentitiesStay ==
    ASSUME Requests, \A a \in Objects' : \E b \in Objects : object'[a].id = object[b].id,
           request' = request
    PROVE  request' # NoRequest => FreeIdentity' # {}
    <1>1. FreeIdentity \subseteq FreeIdentity'
        BY DEF FreeIdentity
    <1> QED
        BY <1>1 DEF Requests

\* The copies stay in order, since a call adds one at their end or none.
LEMMA CallInOrder ==
    ASSUME Typed, CopiesInOrder, NEW q, ~Blocked(q), Like(object', After(q)),
           next_forwarding_offset' =
                next_forwarding_offset + (IF ToSurvivor(q) THEN Size(q) ELSE 0),
           new_from' = new_from, pc' # "adjust"
    PROVE  CopiesInOrder' /\ next_forwarding_offset' \in 0..survivor_size
    <1> DEFINE t == new_to
               n == next_forwarding_offset
               nn == next_forwarding_offset'
               g == object'
               S == {x \in 0..nn : x = nn \/ t + x \in DOMAIN g}
    <1>1. Memory(object) /\ Registers
        BY DEF Typed
    <1>2. /\ t \in Nat /\ t + survivor_size <= old /\ n \in Nat /\ n <= survivor_size
          /\ forwarding = t + n /\ old \in Nat /\ survivor_size \in Nat
        BY <1>1, SpaceFacts, Sizes
    <1>3. /\ Memory(After(q)) /\ Young \subseteq DOMAIN g
          /\ \A a \in Young : After(q)[a].clss = object[a].clss
          /\ \A a \in DOMAIN g : a < old => a \in Young \/ (ToSurvivor(q) /\ a = forwarding)
        BY AfterFacts DEF Like
    <1>4. \A a \in DOMAIN g : a \in Nat /\ g[a].clss = After(q)[a].clss
        <2>1. Memory(g)
            BY <1>3, LikeMemory
        <2>2. ASSUME NEW a \in DOMAIN g
              PROVE  a \in Nat
            BY <2>1, <2>2, MemoryFacts
        <2>3. ASSUME NEW a \in DOMAIN g
              PROVE  g[a].clss = After(q)[a].clss
            BY <1>3, <2>3, LikeFacts
        <2> QED
            BY <2>2, <2>3
    <1>5. \A a \in Young : g[a].clss = object[a].clss
        BY <1>3, <1>4
    <1>6. ToSurvivor(q) => /\ Size(q) \in Nat \ {0} /\ n + Size(q) <= survivor_size
                           /\ forwarding \in DOMAIN g /\ g[forwarding].clss = object[q].clss
        <2> SUFFICES ASSUME ToSurvivor(q)
                     PROVE  /\ Size(q) \in Nat \ {0} /\ n + Size(q) <= survivor_size
                            /\ forwarding \in DOMAIN g /\ g[forwarding].clss = object[q].clss
            OBVIOUS
        <2>1. q \in Objects /\ n + Size(q) <= survivor_size
            BY CallArgument
        <2>2. After(q) = Copied(q)
            BY DEF After
        <2>3. Size(q) \in Nat \ {0} /\ forwarding \in DOMAIN Copied(q)
              /\ Copied(q)[forwarding] = [object[q] EXCEPT !.age = @ + 1, !.remembered = FALSE]
            BY CopiedMemory
        <2>4. object[q] \in Records
            BY <1>1, <2>1, ObjectFacts
        <2>5. Copied(q)[forwarding].clss = object[q].clss
            BY <2>3, <2>4 DEF Records
        <2>6. forwarding \in DOMAIN g
            BY <2>2, <2>3 DEF Like
        <2> QED
            BY <1>4, <2>1, <2>2, <2>3, <2>5, <2>6
    <1>7. nn \in Nat /\ nn <= survivor_size /\ nn >= n
          /\ (ToSurvivor(q) => nn = n + Size(q)) /\ (~ToSurvivor(q) => nn = n)
        BY <1>2, <1>6
    <1>8. new_to' = t
        BY DEF new_to
    <1>9. forwarding' = t + nn
        BY <1>8 DEF forwarding
    <1>10. Objects' = DOMAIN g
        BY DEF Objects
    <1>11. Starts' = S
        BY <1>8, <1>10 DEF Starts
    <1>12. Starts \subseteq 0..n /\ 0 \in Starts /\ \A x \in Starts : x = n \/ t + x \in Objects
        BY DEF CopiesInOrder, Starts
    <1>13. \A a \in Young : ToSpace(a) => a < t + n
        BY <1>2 DEF CopiesInOrder
    <1>14. \A x \in Nat : x < n /\ t + x \in Objects => t + x \in Young
        BY <1>2 DEF Young
    <1>15. \A x \in Starts \ {n} : x + object[t + x].clss.size \in Starts
        BY DEF CopiesInOrder, Size
    <1>16. \A a \in DOMAIN g : t <= a /\ a < t + survivor_size =>
                \/ a \in Young /\ a < t + n
                \/ ToSurvivor(q) /\ a = t + n
        BY <1>2, <1>3, <1>4, <1>13 DEF ToSpace
    <1> HIDE DEF t, n, nn, g
    <1>17. Starts \subseteq S
        <2> SUFFICES ASSUME NEW x \in Starts
                     PROVE  x \in S
            OBVIOUS
        <2>1. x \in 0..n /\ (x = n \/ t + x \in Objects)
            BY <1>12
        <2>2. x \in 0..nn
            BY <1>2, <1>7, <2>1
        <2>3. CASE x = n
            BY <1>2, <1>6, <1>7, <2>2, <2>3
        <2>4. CASE x # n
            <3>1. x \in Nat /\ x < n
                BY <1>2, <2>1, <2>4
            <3>2. t + x \in DOMAIN g
                BY <1>3, <1>14, <2>1, <2>4, <3>1
            <3> QED
                BY <2>2, <3>2
        <2> QED
            BY <2>3, <2>4
    <1>18. ASSUME NEW x \in S \ {nn}
           PROVE  x + g[t + x].clss.size \in S
        <2>1. x \in Nat /\ x < nn /\ t + x \in DOMAIN g
            BY <1>7, <1>18
        <2>2. \/ t + x \in Young /\ t + x < t + n
              \/ ToSurvivor(q) /\ t + x = t + n
            BY <1>2, <1>7, <1>16, <2>1
        <2>3. CASE t + x \in Young /\ t + x < t + n
            <3>1. x < n
                BY <1>2, <2>1, <2>3
            <3>2. t + x \in Objects
                BY <2>3 DEF Young
            <3>3. x \in 0..n
                BY <1>2, <2>1, <3>1
            <3>4. x \in Starts \ {n}
                BY <1>2, <2>1, <3>1, <3>2, <3>3 DEF Starts, t, n
            <3> QED
                BY <1>5, <1>15, <1>17, <2>3, <3>4
        <2>4. CASE ToSurvivor(q) /\ t + x = t + n
            <3>1. x = n
                BY <1>2, <2>1, <2>4
            <3>2. g[t + x].clss.size = Size(q)
                BY <1>2, <1>6, <2>4 DEF Size
            <3>3. x + g[t + x].clss.size = nn
                BY <1>7, <2>4, <3>1, <3>2
            <3> QED
                BY <1>7, <3>3
        <2> QED
            BY <2>2, <2>3, <2>4
    <1>19. ASSUME NEW a \in DOMAIN g, t <= a, a < t + survivor_size
           PROVE  a < t + nn
        BY <1>2, <1>4, <1>6, <1>7, <1>16, <1>19
    <1>20. \A a \in Young' : ToSpace(a)' => a < forwarding'
        BY <1>8, <1>9, <1>10, <1>19 DEF Young, ToSpace
    <1>21. \A x \in Starts' \ {next_forwarding_offset'} :
                x + Size(new_to + x)' \in Starts'
        BY <1>8, <1>11, <1>18 DEF Size, g, nn
    <1>22. 0 \in Starts'
        BY <1>11, <1>12, <1>17
    <1> HIDE DEF S
    <1>23. CopiesInOrder'
        BY <1>20, <1>21, <1>22 DEF CopiesInOrder
    <1>24. nn \in 0..survivor_size
        BY <1>2, <1>7
    <1> QED
        BY <1>23, <1>24 DEF nn

--------------------------------------------------------------------------------
(* Types.                                                                  *)

LEMMA CallTyped ==
    ASSUME Typed, pc \in {"roots", "remembered"}, NEW q, NEW fs \in Seq(Frame),
           \A k \in DOMAIN fs : fs[k].obj \in Young,
           Call(q, fs), Like(object', After(q)), UNCHANGED <<space, pc, call, p>>,
           roots' \in Seq(Pointer), Len(roots') <= MAX_ROOTS, ri' \in 1..(MAX_ROOTS + 1),
           fi' \in Nat \ {0}, has_new_obj' \in BOOLEAN
    PROVE  Typed' /\ rs' = rs
    <1>1. Memory(object) /\ Registers /\ CopiesInOrder /\ Requests
        BY DEF Typed, Collecting
    <1>2. ~Blocked(q)
        BY DEF Call, Blocked
    <1>3. next_free_offset' = next_free_offset /\ new_from' = new_from /\ pc' = pc
          /\ request' = request /\ collections' = collections /\ p' = p
        BY DEF space, call
    <1>4. /\ Memory(After(q)) /\ Young \subseteq DOMAIN object'
          /\ \A a \in DOMAIN object' : \E b \in Objects : After(q)[a].id = object[b].id
        BY <1>1, <1>2, AfterFacts DEF Like, Identified
    <1>5. Memory(object')
        BY <1>4, LikeMemory
    <1>6. CopiesInOrder' /\ next_forwarding_offset' \in 0..survivor_size
        <2>1. next_forwarding_offset' =
                next_forwarding_offset + (IF ToSurvivor(q) THEN Size(q) ELSE 0)
            BY DEF Call
        <2>2. pc' # "adjust"
            BY <1>3
        <2> QED
            BY <1>1, <1>2, <1>3, <2>1, <2>2, CallInOrder
    <1>7. old_next_free' \in Cell \cup {Nil} /\ rs' = rs
        <2>1. CASE ToOld(q)
            <3>1. NewCell - 1 \in Cell \cup {Nil}
                BY <1>2, <2>1, NewCellFacts, CellFacts
            <3>2. ~RefersToYoung(Cell0(q))
                BY <1>2, <2>1, PromotedMemory
            <3> QED
                BY <2>1, <3>1, <3>2 DEF Call
        <2>2. CASE ~ToOld(q)
            BY <1>1, <2>2 DEF Call, Registers
        <2> QED
            BY <2>1, <2>2
    <1>8. Registers'
        <2>1. /\ next_free_offset' \in 0..eden_size /\ new_from' \in {survivor1, survivor2}
              /\ request' \in Class \cup {NoRequest} /\ p' \in 0..survivor_size
              /\ collections' \in 0..MaxCollections
              /\ rs' \in Seq(Pointer) /\ Len(rs') <= MAX_ROOTS
              /\ pc' \in {"run", "roots", "remembered", "adjust", "major", "alloc", "abort",
                          "old full", "undefined"}
            BY <1>1, <1>3, <1>7 DEF Registers
        <2> QED
            BY <1>6, <1>7, <2>1 DEF Registers
    <1>9. Frames'
        <2>1. \A a \in Young : a \in Young'
            BY <1>4 DEF Young, Objects
        <2>2. stack' = IF ToSurvivor(q) THEN Append(fs, [obj |-> q, i |-> 1]) ELSE fs
            BY DEF Call
        <2>3. ASSUME ToSurvivor(q)
              PROVE  q \in Young /\ q \in Address
            <3>1. q \in Objects /\ q < old
                BY <1>2, <2>3, CallArgument
            <3> QED
                BY <1>1, <3>1, ObjectFacts
        <2>4. stack' \in Seq(Frame) /\ \A k \in DOMAIN stack' : stack'[k].obj \in Young
            <3>1. CASE ToSurvivor(q)
                <4> DEFINE f == [obj |-> q, i |-> 1]
                <4>1. f \in Frame /\ f.obj \in Young
                    BY <2>3, <3>1 DEF Frame
                <4> HIDE DEF f
                <4>2. stack' = Append(fs, f)
                    BY <2>2, <3>1 DEF f
                <4>3. /\ Append(fs, f) \in Seq(Frame) /\ Len(Append(fs, f)) = Len(fs) + 1
                      /\ \A k \in 1..Len(fs) : Append(fs, f)[k] = fs[k]
                      /\ Append(fs, f)[Len(fs) + 1] = f
                    BY <4>1, AppendProperties
                <4>4. DOMAIN Append(fs, f) = 1..(Len(fs) + 1) /\ DOMAIN fs = 1..Len(fs)
                      /\ Len(fs) \in Nat
                    BY <4>3, LenProperties
                <4>5. ASSUME NEW k \in 1..(Len(fs) + 1)
                      PROVE  Append(fs, f)[k].obj \in Young
                    <5>1. CASE k = Len(fs) + 1
                        BY <4>1, <4>3, <5>1
                    <5>2. CASE k # Len(fs) + 1
                        <6>1. k \in 1..Len(fs)
                            BY <4>4, <5>2
                        <6> QED
                            BY <4>3, <4>4, <6>1
                    <5> QED
                        BY <5>1, <5>2
                <4> QED
                    BY <4>2, <4>3, <4>4, <4>5
            <3>2. CASE ~ToSurvivor(q)
                BY <2>2, <3>2
            <3> QED
                BY <3>1, <3>2
        <2> QED
            BY <1>3, <2>1, <2>4 DEF Frames
    <1>10. Requests'
        <2>1. \A a \in Objects' : \E b \in Objects : object'[a].id = object[b].id
            BY <1>4, LikeFacts DEF Objects
        <2>2. request' # NoRequest => FreeIdentity' # {}
            BY <1>1, <1>3, <2>1, IdentitiesStay
        <2> QED
            BY <1>3, <2>2 DEF Requests
    <1>11. StaysBlocked'
        BY <1>3 DEF StaysBlocked, Collecting
    <1> QED
        BY <1>5, <1>6, <1>7, <1>8, <1>9, <1>10, <1>11 DEF Typed

--------------------------------------------------------------------------------
(* What holds until the first mishap.                                      *)

\* A call of new_copy() that goes well copies nothing old and nothing twice, and a
\* major_gc() in it sweeps nothing that is recorded.
LEMMA CallWell ==
    ASSUME NEW q, CopyMishap(q) = "none"
    PROVE  /\ Sane /\ ~(q >= old)
           /\ ~(IsNew(q) /\ new_to <= q /\ q < forwarding)
           /\ ToOld(q) /\ MustSweep => Swept \cap Range(rs) = {}
    <1>1. mishap = "none"
        BY DEF CopyMishap, FirstMishap
    <1>2. ~(q >= old)
        BY <1>1 DEF CopyMishap, FirstMishap
    <1>3. ~(IsNew(q) /\ new_to <= q /\ q < forwarding)
        BY <1>1, <1>2 DEF CopyMishap, FirstMishap
    <1>4. ToOld(q) /\ MustSweep => Swept \cap Range(rs) = {}
        BY <1>1, <1>2, <1>3 DEF CopyMishap, FirstMishap
    <1> QED
        BY <1>1, <1>2, <1>3, <1>4 DEF Sane

\* What is copied has been through all collections but this one.
LEMMA AgeOfArgument ==
    ASSUME Typed, CopiesInOrder, InTime, Collecting, NEW q, ~Blocked(q), CopyMishap(q) = "none",
           ToSurvivor(q) \/ ToOld(q)
    PROVE  q \in Young /\ ~ToSpace(q) /\ object[q].age = collections - 1 - object[q].born
    <1>1. Memory(object) /\ Registers
        BY DEF Typed
    <1>2. q \in Objects /\ ~object[q].forwarded
        BY CallArgument
    <1>3. q \in Nat /\ old \in Nat
        BY <1>1, <1>2, ObjectFacts, Sizes
    <1>4. ~(q >= old) /\ ~(IsNew(q) /\ new_to <= q /\ q < forwarding)
        BY CallWell
    <1>5. q \in Young
        BY <1>2, <1>3, <1>4 DEF Young
    <1>6. ~ToSpace(q)
        <2>1. IsNew(q)
            BY <1>2 DEF IsNew
        <2> QED
            BY <1>4, <1>5, <2>1 DEF CopiesInOrder, ToSpace
    <1> QED
        BY <1>2, <1>5, <1>6 DEF InTime

\* Ages, and pointers to what is young, after a call of new_copy().
TimelyIn(m) ==
    \A a \in DOMAIN m :
        IF a >= old THEN collections - m[a].born > MAX_AGE
        ELSE IF ToSpace(a) THEN m[a].age = collections - m[a].born
        ELSE m[a].forwarded \/ m[a].age = collections - 1 - m[a].born

RememberedIn(m) ==
    \A a \in DOMAIN m : a >= old =>
        \A k \in DOMAIN m[a].field :
            m[a].field[k] # Nil /\ m[a].field[k] < old => a \in Range(rs)

LEMMA CopiedTimely ==
    ASSUME Typed, CopiesInOrder, InTime, Remembers, Collecting, NEW q, ~Blocked(q),
           CopyMishap(q) = "none", ToSurvivor(q)
    PROVE  /\ TimelyIn(Copied(q)) /\ RememberedIn(Copied(q))
           /\ \A a \in Range(rs) : a \in DOMAIN Copied(q) /\ Copied(q)[a] = object[a]
    <1> DEFINE t == forwarding
               m == Copied(q)
    <1>1. Memory(object) /\ Registers
        BY DEF Typed
    <1>2. q \in Objects /\ q \in Young /\ ~ToSpace(q) /\ object[q] \in Records
          /\ object[q].age = collections - 1 - object[q].born
        BY <1>1, AgeOfArgument, CallArgument, ObjectFacts
    <1>3. /\ DOMAIN m = Objects \cup {t} /\ t \notin Objects /\ t < old /\ t \in Address
          /\ Size(q) \in Nat \ {0} /\ t + Size(q) <= new_to + survivor_size
          /\ m[t] = [object[q] EXCEPT !.age = @ + 1, !.remembered = FALSE]
          /\ m[q] = [object[q] EXCEPT !.age = @ + 1, !.forwarded = TRUE, !.forwarding = t]
          /\ \A a \in Objects \ {q} : m[a] = object[a]
        BY CopiedMemory
    <1>4. m[t].age = object[q].age + 1 /\ m[t].born = object[q].born
        BY <1>2, <1>3 DEF Records
    <1>5. m[q].forwarded = TRUE
        BY <1>2, <1>3 DEF Records
    <1>6. /\ t \in Nat /\ new_to \in Nat /\ t >= new_to /\ survivor_size \in Nat /\ old \in Nat
        BY <1>1, SpaceFacts, Sizes
    <1>7. ToSpace(t) /\ ~(t >= old)
        BY <1>3, <1>6 DEF ToSpace
    <1>8. \A a \in Objects : a \in Nat /\ (a \in Old <=> a >= old) /\ (a \in Young <=> a < old)
        BY <1>1, ObjectFacts
    <1>9. Range(rs) \subseteq Old /\ Old \subseteq Objects /\ q \notin Old
        BY <1>2 DEF Remembers, Old
    <1>10. m[t].age = collections - m[t].born
        <2>1. collections \in Nat
            BY <1>1, CountFacts, Sizes
        <2>2. object[q].born \in Nat
            BY <1>1, <1>2, BornFacts
        <2> QED
            BY <1>2, <1>4, <2>1, <2>2
    <1> HIDE DEF m, t
    <1>11. TimelyIn(m)
        <2> SUFFICES ASSUME NEW a \in DOMAIN m
                     PROVE  IF a >= old THEN collections - m[a].born > MAX_AGE
                            ELSE IF ToSpace(a) THEN m[a].age = collections - m[a].born
                            ELSE m[a].forwarded \/ m[a].age = collections - 1 - m[a].born
            BY DEF TimelyIn
        <2>1. CASE a = t
            BY <1>7, <1>10, <2>1
        <2>2. CASE a = q
            BY <1>2, <1>5, <1>8, <1>9, <2>2
        <2>3. CASE a \in Objects \ {q}
            <3>1. CASE a >= old
                BY <1>3, <1>8, <2>3, <3>1 DEF InTime
            <3>2. CASE ~(a >= old)
                <4>1. a \in Young
                    BY <1>8, <2>3, <3>2 DEF Old
                <4> QED
                    BY <1>3, <2>3, <3>2, <4>1 DEF InTime
            <3> QED
                BY <3>1, <3>2
        <2> QED
            BY <1>3, <2>1, <2>2, <2>3
    <1>12. \A a \in DOMAIN m : a >= old => a \in Old /\ m[a] = object[a]
        BY <1>2, <1>3, <1>7, <1>8, <1>9
    <1>13. RememberedIn(m)
        BY <1>12 DEF RememberedIn, Remembers
    <1>14. \A a \in Range(rs) : a \in DOMAIN m /\ m[a] = object[a]
        BY <1>3, <1>9
    <1> QED
        BY <1>11, <1>13, <1>14 DEF m

LEMMA PromotedTimely ==
    ASSUME Typed, CopiesInOrder, InTime, Remembers, Collecting, NEW q, ~Blocked(q),
           CopyMishap(q) = "none", ToOld(q)
    PROVE  /\ TimelyIn(Promoted(q)) /\ RememberedIn(Promoted(q))
           /\ \A a \in Range(rs) : a \in DOMAIN Promoted(q) /\ Promoted(q)[a] = object[a]
    <1> DEFINE t == Data(NewCell)
               m == Promoted(q)
               K == DOMAIN Kept
    <1>1. Memory(object) /\ Registers
        BY DEF Typed
    <1>2. q \in Objects /\ q \in Young /\ ~ToSpace(q) /\ object[q].age = MAX_AGE
          /\ object[q].age = collections - 1 - object[q].born
        BY AgeOfArgument, CallArgument
    <1>3. object[q] \in Records /\ object[q].clss.num_fields \in Nat
        BY <1>1, <1>2, ObjectFacts
    <1>4. t \notin K /\ t >= old
        BY NewCellFacts
    <1>5. /\ DOMAIN m = K \cup {t} /\ q \in K
          /\ m[q] = [object[q] EXCEPT !.forwarded = TRUE, !.forwarding = t]
          /\ m[t] = [object[q] EXCEPT !.forwarded = FALSE,
                                       !.field = NullFields(object[q].clss.num_fields)]
          /\ \A a \in K \ {q} : m[a] = object[a]
        BY PromotedMemory
    <1>6. m[q].forwarded = TRUE
        BY <1>3, <1>5 DEF Records
    <1>7. m[t].born = object[q].born /\ m[t].field = NullFields(object[q].clss.num_fields)
        BY <1>3, <1>5 DEF Records
    <1>8. \A a \in Objects : (a \in Old <=> a >= old) /\ (a \in Young <=> a < old)
        BY <1>1, ObjectFacts
    <1>9. K \subseteq Objects /\ (MustSweep => K = Objects \ Swept)
          /\ (~MustSweep => K = Objects)
        BY <1>1, KeptFacts
    <1>10. Range(rs) \subseteq Old /\ Old \subseteq Objects /\ q \notin Old
        BY <1>2 DEF Remembers, Old
    <1>11. Range(rs) \subseteq K
        <2>1. MustSweep => Swept \cap Range(rs) = {}
            BY CallWell
        <2> QED
            BY <1>9, <1>10, <2>1
    <1>12. collections - m[t].born > MAX_AGE
        <2>1. collections \in Nat /\ MAX_AGE \in Nat
            BY <1>1, CountFacts, Sizes
        <2>2. object[q].born \in Nat
            BY <1>1, <1>2, BornFacts
        <2> QED
            BY <1>2, <1>7, <2>1, <2>2
    <1>13. \A k \in DOMAIN m[t].field : m[t].field[k] = Nil
        BY <1>7 DEF NullFields
    <1> HIDE DEF m, t, K
    <1>14. TimelyIn(m)
        <2> SUFFICES ASSUME NEW a \in DOMAIN m
                     PROVE  IF a >= old THEN collections - m[a].born > MAX_AGE
                            ELSE IF ToSpace(a) THEN m[a].age = collections - m[a].born
                            ELSE m[a].forwarded \/ m[a].age = collections - 1 - m[a].born
            BY DEF TimelyIn
        <2>1. CASE a = t
            BY <1>4, <1>12, <2>1
        <2>2. CASE a = q
            BY <1>2, <1>6, <1>8, <1>10, <2>2
        <2>3. CASE a \in K \ {q}
            <3>1. a \in Objects /\ m[a] = object[a]
                BY <1>5, <1>9, <2>3
            <3>2. CASE a >= old
                BY <1>8, <3>1, <3>2 DEF InTime
            <3>3. CASE ~(a >= old)
                <4>1. a \in Young
                    BY <1>8, <3>1, <3>3 DEF Old
                <4> QED
                    BY <3>1, <3>3, <4>1 DEF InTime
            <3> QED
                BY <3>2, <3>3
        <2> QED
            BY <1>5, <2>1, <2>2, <2>3
    <1>15. \A a \in DOMAIN m : a >= old /\ a # t => a \in Old /\ m[a] = object[a]
        BY <1>2, <1>5, <1>8, <1>9, <1>10
    <1>16. RememberedIn(m)
        BY <1>13, <1>15 DEF RememberedIn, Remembers
    <1>17. \A a \in Range(rs) : a \in DOMAIN m /\ m[a] = object[a]
        BY <1>5, <1>10, <1>11
    <1> QED
        BY <1>14, <1>16, <1>17 DEF m

\* A call of new_copy() leaves the ages and the remembered set right.
LEMMA AfterTimely ==
    ASSUME Typed, CopiesInOrder, InTime, Remembers, Collecting, NEW q, ~Blocked(q),
           CopyMishap(q) = "none"
    PROVE  /\ TimelyIn(After(q)) /\ RememberedIn(After(q))
           /\ \A a \in Range(rs) : a \in DOMAIN After(q) /\ After(q)[a] = object[a]
    <1>1. CASE ToSurvivor(q)
        BY <1>1, CopiedTimely DEF After
    <1>2. CASE ToOld(q)
        BY <1>2, PromotedTimely DEF After, ToOld
    <1>3. CASE ~ToSurvivor(q) /\ ~ToOld(q)
        <2>1. After(q) = object /\ DOMAIN object = Objects
            BY <1>3 DEF After, Objects
        <2>2. \A a \in Objects : (a \in Old <=> a >= old) /\ (a \in Young <=> a < old)
                                 /\ (a \in Old \/ a \in Young)
            BY ObjectFacts DEF Typed, Old
        <2>3. TimelyIn(object)
            BY <2>1, <2>2 DEF TimelyIn, InTime
        <2>4. RememberedIn(object)
            BY <2>1, <2>2 DEF RememberedIn, Remembers
        <2>5. \A a \in Range(rs) : a \in Objects
            BY DEF Remembers, Old
        <2> QED
            BY <2>1, <2>3, <2>4, <2>5
    <1> QED
        BY <1>1, <1>2, <1>3

\* The same of the state after the step.
LEMMA CallTimely ==
    ASSUME Typed, pc \in {"roots", "remembered"}, InTime, Remembers, NEW q, NEW fs, Call(q, fs),
           mishap' = "none", Like(object', After(q)), UNCHANGED <<space, pc, call>>
    PROVE  InTime'
    <1>1. Collecting /\ CopiesInOrder
        BY DEF Typed, Collecting
    <1>2. ~Blocked(q) /\ CopyMishap(q) = "none"
        BY DEF Call, Blocked
    <1>3. new_to' = new_to /\ pc' = pc /\ collections' = collections
        BY DEF space, call, new_to
    <1>4. Memory(After(q))
        BY <1>1, <1>2, AfterFacts
    <1>5. TimelyIn(After(q))
        BY <1>1, <1>2, AfterTimely
    <1>6. Objects' = DOMAIN object' /\ Memory(object')
        BY <1>4, LikeMemory DEF Objects
    <1>7. ASSUME NEW a \in DOMAIN object'
          PROVE  /\ a \in DOMAIN After(q) /\ a \in Nat
                 /\ object'[a].age = After(q)[a].age /\ object'[a].born = After(q)[a].born
                 /\ object'[a].forwarded = After(q)[a].forwarded
        <2>1. a \in Nat
            BY <1>6, <1>7, MemoryFacts
        <2> QED
            BY <1>4, <1>7, <2>1, LikeFacts
    <1>8. old \in Nat
        BY Sizes
    <1>9. \A a \in Old' : a \in DOMAIN object' /\ a >= old
        BY <1>6, <1>7, <1>8 DEF Old, Young
    <1>10. \A a \in Young' : a \in DOMAIN object' /\ ~(a >= old)
        BY <1>6, <1>7, <1>8 DEF Young
    <1>11. \A a \in Old' : collections' - object'[a].born > MAX_AGE
        BY <1>3, <1>5, <1>7, <1>9 DEF TimelyIn
    <1>12. ASSUME NEW a \in Young'
           PROVE  IF ToSpace(a) THEN object'[a].age = collections' - object'[a].born
                  ELSE object'[a].forwarded \/ object'[a].age = collections' - 1 - object'[a].born
        BY <1>3, <1>5, <1>7, <1>10, <1>12 DEF TimelyIn
    <1>13. \A a : ToSpace(a)' <=> ToSpace(a)
        BY <1>3 DEF ToSpace
    <1>14. pc' \notin {"run", "major", "alloc"}
        BY <1>3
    <1> QED
        BY <1>11, <1>12, <1>13, <1>14 DEF InTime

--------------------------------------------------------------------------------
(* The client.                                                             *)

\* What the client uses is an object.
LEMMA UsableFacts ==
    ASSUME Typed
    PROVE  Usable \subseteq Objects /\ Usable \cup {Nil} \subseteq Pointer
    <1>1. Usable \subseteq Objects
        BY DEF Usable, Reachable
    <1>2. Objects \subseteq Address
        BY ObjectFacts DEF Typed
    <1> QED
        BY <1>1, <1>2, AddressFacts

LEMMA RangeOfAppend ==
    ASSUME NEW S, NEW s \in Seq(S), NEW x \in S
    PROVE  Range(Append(s, x)) = Range(s) \cup {x}
    <1> DEFINE u == Append(s, x)
               n == Len(s)
    <1>1. n \in Nat /\ DOMAIN s = 1..n /\ DOMAIN u = 1..(n + 1)
          /\ (\A k \in 1..n : u[k] = s[k]) /\ u[n + 1] = x
        BY AppendProperties, LenProperties
    <1> HIDE DEF u, n
    <1>2. ASSUME NEW k \in DOMAIN u
          PROVE  u[k] \in Range(s) \cup {x}
        <2>1. CASE k = n + 1
            BY <1>1, <2>1
        <2>2. CASE k \in 1..n
            BY <1>1, <2>2 DEF Range
        <2> QED
            BY <1>1, <1>2, <2>1, <2>2
    <1>3. Range(u) \subseteq Range(s) \cup {x}
        BY <1>2 DEF Range
    <1>4. ASSUME NEW k \in DOMAIN s
          PROVE  s[k] \in Range(u)
        <2>1. k \in DOMAIN u /\ u[k] = s[k]
            BY <1>1, <1>4
        <2> QED
            BY <2>1, Zenon DEF Range
    <1>5. Range(s) \subseteq Range(u)
        BY <1>4 DEF Range
    <1>6. n + 1 \in DOMAIN u
        BY <1>1
    <1>7. x \in Range(u)
        BY <1>1, <1>6, Zenon DEF Range
    <1> QED
        BY <1>3, <1>5, <1>7 DEF u

\* Definitions that depend on the memory, and on no other variable.
LEMMA SameMemory ==
    ASSUME object' = object
    PROVE  /\ Objects' = Objects /\ Young' = Young /\ Old' = Old /\ FreeIdentity' = FreeIdentity
           /\ \A a \in Objects : Size(a)' = Size(a)
    BY DEF Objects, Young, Old, FreeIdentity, Size

\* While the client runs there is no call of new_copy() and no request.
LEMMA ClientFacts ==
    ASSUME Typed, ClientRuns
    PROVE  pc = "run" /\ ~Collecting /\ Sane /\ stack = <<>> /\ request = NoRequest
    BY DEF Typed, ClientRuns, Frames, Requests, Collecting, Sane

\* The client's steps on the root table change neither the heap nor the calls.
LEMMA RootTableKeeps ==
    ASSUME IInv, ClientRuns, roots' \in Seq(Pointer), Len(roots') <= MAX_ROOTS,
           UNCHANGED <<object, space, copying, pc, call, ri, record, p>>
    PROVE  IInv'
    <1>1. Typed /\ pc = "run" /\ Sane /\ stack = <<>> /\ InTime /\ Remembers
        BY ClientFacts DEF IInv
    <1>2. /\ next_free_offset' = next_free_offset /\ new_from' = new_from
          /\ next_forwarding_offset' = next_forwarding_offset
          /\ old_next_free' = old_next_free /\ rs' = rs /\ stack' = stack /\ mishap' = mishap
          /\ pc' = pc /\ request' = request /\ collections' = collections /\ ri' = ri
          /\ fi' = fi /\ has_new_obj' = has_new_obj /\ p' = p /\ object' = object
        BY DEF space, copying, call, record
    <1>3. Registers'
        BY <1>1, <1>2 DEF Typed, Registers
    <1>4. Frames'
        BY <1>1, <1>2, SameMemory DEF Typed, Frames
    <1>5. StaysBlocked' /\ ~Collecting'
        BY <1>1, <1>2 DEF StaysBlocked, Collecting
    <1>6. Requests'
        BY <1>1, <1>2, SameMemory DEF Typed, Requests
    <1>7. Typed'
        BY <1>1, <1>2, <1>3, <1>4, <1>5, <1>6 DEF Typed
    <1>8. new_to' = new_to
        BY <1>2 DEF new_to
    <1>9. InTime'
        BY <1>1, <1>2, <1>5, <1>8, SameMemory DEF InTime, ToSpace
    <1>10. Remembers'
        BY <1>1, <1>2, SameMemory DEF Remembers
    <1>11. OldFullOnlyWhenReachable'
        BY <1>1, <1>2 DEF OldFullOnlyWhenReachable
    <1> QED
        BY <1>7, <1>9, <1>10, <1>11 DEF IInv

LEMMA AddRootKeeps ==
    ASSUME IInv, AddRoot
    PROVE  IInv'
    <1>1. PICK o \in Usable : roots' = Append(roots, o)
        BY DEF AddRoot
    <1>2. o \in Pointer
        BY UsableFacts DEF IInv
    <1>3. roots \in Seq(Pointer) /\ Len(roots) < MAX_ROOTS
        BY DEF IInv, Typed, Registers, AddRoot
    <1>4. roots' \in Seq(Pointer) /\ Len(roots') = Len(roots) + 1
        BY <1>1, <1>2, <1>3, AppendProperties
    <1>5. Len(roots) \in Nat /\ MAX_ROOTS \in Nat
        BY <1>3, LenProperties, Sizes
    <1>6. Len(roots') <= MAX_ROOTS
        BY <1>3, <1>4, <1>5
    <1>7. ClientRuns /\ UNCHANGED <<object, space, copying, pc, call, ri, record, p>>
        BY DEF AddRoot
    <1> QED
        BY <1>4, <1>6, <1>7, RootTableKeeps

LEMMA RestoreRootsKeeps ==
    ASSUME IInv, RestoreRoots
    PROVE  IInv'
    <1>1. PICK k \in 0..(Len(roots) - 1) : roots' = SubSeq(roots, 1, k)
        BY DEF RestoreRoots
    <1>2. roots \in Seq(Pointer) /\ Len(roots) <= MAX_ROOTS
        BY DEF IInv, Typed, Registers
    <1>3. Len(roots) \in Nat /\ MAX_ROOTS \in Nat
        BY <1>2, LenProperties, Sizes
    <1>4. k \in Nat /\ k <= Len(roots)
        BY <1>1, <1>3
    <1>5. SubSeq(roots, 1, k) \in Seq(Pointer) /\ Len(SubSeq(roots, 1, k)) = k
        BY <1>2, <1>3, <1>4, SMT
    <1>6. roots' \in Seq(Pointer) /\ Len(roots') <= MAX_ROOTS
        BY <1>1, <1>2, <1>3, <1>4, <1>5
    <1>7. ClientRuns /\ UNCHANGED <<object, space, copying, pc, call, ri, record, p>>
        BY DEF RestoreRoots
    <1> QED
        BY <1>6, <1>7, RootTableKeeps

\* A store keeps the types and the ages: only the remembered set needs attention.
LEMMA StoreKeeps ==
    ASSUME IInv, gc_update_ptr
    PROVE  IInv'
    <1>1. Typed /\ ClientRuns /\ pc = "run" /\ Sane /\ stack = <<>> /\ request = NoRequest
          /\ InTime /\ Remembers
        BY ClientFacts DEF IInv, gc_update_ptr
    <1>2. PICK obj \in Usable, new_obj \in Usable \cup {Nil} : \E i \in DOMAIN object[obj].field :
            /\ object' = [object EXCEPT ![obj].field[i] = new_obj]
            /\ IF Recorded(obj, new_obj)
               THEN IF Len(rs) < MAX_ROOTS
                    THEN rs' = Append(rs, obj) /\ UNCHANGED <<pc, mishap>>
                    ELSE /\ pc' = "undefined"
                         /\ mishap' = FirstMishap(TRUE, "_rs overflows")
                         /\ UNCHANGED rs
               ELSE /\ mishap' = FirstMishap(obj >= old /\ Overlooked(new_obj),
                                             "reference not recorded")
                    /\ UNCHANGED <<rs, pc>>
        BY DEF gc_update_ptr
    <1>3. PICK i \in DOMAIN object[obj].field :
            object' = [object EXCEPT ![obj].field[i] = new_obj]
        BY <1>2
    <1>4. /\ next_free_offset' = next_free_offset /\ new_from' = new_from
          /\ next_forwarding_offset' = next_forwarding_offset
          /\ old_next_free' = old_next_free /\ stack' = stack /\ roots' = roots
          /\ request' = request /\ collections' = collections /\ ri' = ri
          /\ fi' = fi /\ has_new_obj' = has_new_obj /\ p' = p
        BY DEF gc_update_ptr, space, call, loops, record
    <1>5. Memory(object) /\ Registers
        BY <1>1 DEF Typed
    <1>6. obj \in Objects /\ obj \in Address /\ new_obj \in Pointer
        BY <1>1, UsableFacts, ObjectFacts DEF Typed
    <1>7. Like(object', object)
        BY <1>3, <1>5, <1>6, StorePointer
    <1>8. Memory(object')
        BY <1>5, <1>7, LikeMemory
    <1>9. Objects' = Objects /\ DOMAIN object = Objects /\ DOMAIN object' = Objects
        BY <1>7 DEF Like, Objects
    <1>10. Young' = Young /\ Old' = Old
        BY <1>9 DEF Young, Old
    <1>11. \A a \in Objects : /\ object'[a].age = object[a].age
                              /\ object'[a].born = object[a].born
                              /\ object'[a].id = object[a].id
        BY <1>5, <1>7, <1>9, LikeFacts
    <1>12. \/ /\ Recorded(obj, new_obj) /\ Len(rs) < MAX_ROOTS
              /\ rs' = Append(rs, obj) /\ pc' = pc /\ mishap' = mishap
           \/ /\ Recorded(obj, new_obj) /\ rs' = rs /\ pc' = "undefined"
              /\ mishap' = FirstMishap(TRUE, "_rs overflows")
           \/ /\ ~Recorded(obj, new_obj) /\ rs' = rs /\ pc' = pc
              /\ mishap' = FirstMishap(obj >= old /\ Overlooked(new_obj),
                                       "reference not recorded")
        BY <1>2
    <1>13. pc' \in {"run", "undefined"}
        BY <1>1, <1>12
    <1>14. rs' \in Seq(Pointer) /\ Len(rs') <= MAX_ROOTS
        <2>1. rs \in Seq(Pointer) /\ Len(rs) <= MAX_ROOTS /\ obj \in Pointer
            BY <1>5, <1>6, AddressFacts DEF Registers
        <2>2. Len(rs) \in Nat /\ MAX_ROOTS \in Nat
            BY <2>1, LenProperties, Sizes
        <2>3. Append(rs, obj) \in Seq(Pointer) /\ Len(Append(rs, obj)) = Len(rs) + 1
            BY <2>1, AppendProperties
        <2>4. Len(rs) < MAX_ROOTS => Len(Append(rs, obj)) <= MAX_ROOTS
            BY <2>2, <2>3
        <2> QED
            BY <1>12, <2>1, <2>3, <2>4
    <1>15. Registers'
        BY <1>4, <1>5, <1>13, <1>14 DEF Registers
    <1>16. Frames'
        BY <1>1, <1>4, <1>10 DEF Typed, Frames
    <1>17. StaysBlocked' /\ ~Collecting'
        BY <1>1, <1>4, <1>13 DEF StaysBlocked, Collecting
    <1>18. Requests'
        BY <1>1, <1>4, <1>13 DEF Requests
    <1>19. Typed'
        BY <1>8, <1>15, <1>16, <1>17, <1>18 DEF Typed
    <1>20. new_to' = new_to
        BY <1>4 DEF new_to
    <1>21. InTime'
        <2>1. Old \subseteq Objects /\ Young \subseteq Objects
            BY DEF Old, Young
        <2> QED
            BY <1>1, <1>4, <1>10, <1>11, <1>13, <1>17, <1>20, <2>1 DEF InTime, ToSpace
    <1>22. ASSUME Sane'
           PROVE  Remembers'
        <2>1. CASE Recorded(obj, new_obj)
            <3>1. rs' = Append(rs, obj) /\ pc' = "run" /\ Len(rs) \in Nat
                  /\ rs \in Seq(Pointer) /\ obj \in Pointer
                <4>1. mishap' = mishap => Sane
                    BY <1>22 DEF Sane
                <4>2. mishap = "none"
                    BY <1>1 DEF Sane
                <4>3. rs' = Append(rs, obj) /\ pc' = "run"
                    BY <1>1, <1>12, <1>22, <2>1, <4>2 DEF FirstMishap, Sane
                <4>4. rs \in Seq(Pointer) /\ obj \in Pointer
                    BY <1>5, <1>6, AddressFacts DEF Registers
                <4> QED
                    BY <4>3, <4>4, LenProperties
            <3>2. Range(rs') = Range(rs) \cup {obj}
                BY <3>1, RangeOfAppend
            <3>3. obj \in Old
                BY <1>5, <1>6, <2>1, ObjectFacts DEF Recorded
            <3>4. \A a \in Old : a # obj => object'[a] = object[a]
                BY <1>3, <1>9 DEF Old
            <3> QED
                BY <1>1, <1>10, <3>1, <3>2, <3>3, <3>4 DEF Remembers
        <2>2. CASE ~Recorded(obj, new_obj)
            <3>1. rs' = rs /\ pc' = "run" /\ ~(obj >= old /\ Overlooked(new_obj))
                BY <1>1, <1>12, <1>22, <2>2 DEF FirstMishap, Sane
            <3>2. object[obj].remembered = FALSE
                BY <1>5, <1>6, ObjectFacts
            <3>3. obj >= old => new_obj >= old
                <4>1. old \in Nat /\ new_obj \in Nat
                    BY <1>6, Sizes, AddressFacts DEF Nil
                <4>2. obj >= old => ~(new_obj < old)
                    BY <2>2, <3>1, <3>2 DEF Recorded, Overlooked
                <4> QED
                    BY <4>1, <4>2
            <3>4. \A a \in Old : a # obj => object'[a] = object[a]
                BY <1>3, <1>9 DEF Old
            <3>5. \A k \in DOMAIN object'[obj].field :
                    /\ k \in DOMAIN object[obj].field
                    /\ k = i => object'[obj].field[k] = new_obj
                    /\ k # i => object'[obj].field[k] = object[obj].field[k]
                <4>1. object[obj] \in Records
                    BY <1>5, <1>6, ObjectFacts
                <4>2. object'[obj] = [object[obj] EXCEPT !.field[i] = new_obj]
                    BY <1>3, <1>6, <1>9
                <4>3. object'[obj].field = [object[obj].field EXCEPT ![i] = new_obj]
                    BY <4>1, <4>2 DEF Records
                <4> QED
                    BY <4>3
            <3>6. ASSUME obj \in Old, NEW k \in DOMAIN object'[obj].field,
                         object'[obj].field[k] # Nil, object'[obj].field[k] < old
                  PROVE  obj \in Range(rs)
                <4>1. obj >= old
                    BY <1>5, <1>6, <3>6, ObjectFacts
                <4>2. k # i
                    <5>1. new_obj \in Nat /\ old \in Nat /\ new_obj >= old
                        BY <1>6, <3>3, <4>1, Sizes, AddressFacts DEF Nil
                    <5> QED
                        BY <3>5, <3>6, <5>1
                <4> QED
                    BY <1>1, <3>5, <3>6, <4>2 DEF Remembers
            <3> QED
                BY <1>1, <1>10, <3>1, <3>4, <3>6 DEF Remembers
        <2> QED
            BY <2>1, <2>2
    <1>23. OldFullOnlyWhenReachable'
        BY <1>13 DEF OldFullOnlyWhenReachable
    <1> QED
        BY <1>19, <1>21, <1>22, <1>23 DEF IInv

\* minor_gc() begins with nothing in the space that it copies to.
LEMMA StartMinorKeeps ==
    ASSUME IInv, ClientRuns, NEW clss \in Class \cup {NoRequest},
           clss # NoRequest => FreeIdentity # {}, StartMinor(clss),
           UNCHANGED <<object, space, old_next_free, rs, roots, record, stack, p, mishap>>
    PROVE  IInv'
    <1>1. Typed /\ pc = "run" /\ Sane /\ stack = <<>> /\ InTime /\ Remembers
        BY ClientFacts DEF IInv
    <1>2. Memory(object) /\ Registers
        BY <1>1 DEF Typed
    <1>3. /\ next_free_offset' = next_free_offset /\ new_from' = new_from
          /\ old_next_free' = old_next_free /\ rs' = rs /\ stack' = stack /\ mishap' = mishap
          /\ fi' = fi /\ has_new_obj' = has_new_obj /\ p' = p /\ object' = object
          /\ roots' = roots
        BY DEF space, record
    <1>4. /\ collections < MaxCollections /\ collections' = collections + 1 /\ pc' = "roots"
          /\ request' = clss /\ next_forwarding_offset' = 0 /\ ri' = 1
        BY DEF StartMinor
    <1>5. new_to' = new_to
        BY <1>3 DEF new_to
    <1>6. collections \in Nat
        BY <1>2, CountFacts
    <1>7. Registers'
        <2>1. collections' \in 0..MaxCollections
            BY <1>4, <1>6, Sizes
        <2>2. next_forwarding_offset' \in 0..survivor_size /\ ri' \in 1..(MAX_ROOTS + 1)
            BY <1>4, Sizes
        <2> QED
            BY <1>2, <1>3, <1>4, <2>1, <2>2 DEF Registers
    <1>8. CopiesInOrder'
        <2>1. Starts' = {0}
            BY <1>4 DEF Starts
        <2>2. \A a \in Young' : ~ToSpace(a)'
            BY <1>1, <1>3, <1>5, SameMemory DEF InTime, ToSpace
        <2> QED
            BY <1>4, <2>1, <2>2 DEF CopiesInOrder
    <1>9. Frames'
        BY <1>1, <1>3, SameMemory DEF Typed, Frames
    <1>10. StaysBlocked' /\ Requests'
        BY <1>1, <1>3, <1>4, SameMemory DEF StaysBlocked, Requests
    <1>11. Typed'
        BY <1>2, <1>3, <1>7, <1>8, <1>9, <1>10 DEF Typed
    <1>12. InTime'
        <2>1. \A a \in Objects : object[a].born \in Nat
            BY <1>2, BornFacts
        <2>2. Old \subseteq Objects /\ Young \subseteq Objects /\ MAX_AGE \in Nat
            BY Sizes DEF Old, Young
        <2>3. ASSUME NEW a \in Old
              PROVE  collections' - object[a].born > MAX_AGE
            <3>1. collections - object[a].born > MAX_AGE
                BY <1>1, <2>3 DEF InTime
            <3>2. object[a].born \in Nat
                BY <2>1, <2>2, <2>3
            <3> QED
                BY <1>4, <1>6, <2>2, <3>1, <3>2
        <2>4. ASSUME NEW a \in Young
              PROVE  ~ToSpace(a) /\ object[a].age = collections' - 1 - object[a].born
            <3>1. ~ToSpace(a) /\ object[a].age = collections - object[a].born
                BY <1>1, <2>4 DEF InTime
            <3> QED
                BY <1>4, <1>6, <3>1
        <2> QED
            BY <1>3, <1>4, <1>5, <2>3, <2>4, SameMemory DEF InTime, ToSpace
    <1>13. Remembers'
        BY <1>1, <1>3, <1>4, SameMemory DEF Remembers
    <1>14. OldFullOnlyWhenReachable'
        BY <1>4 DEF OldFullOnlyWhenReachable
    <1> QED
        BY <1>11, <1>12, <1>13, <1>14 DEF IInv

\* A new object lies in eden, behind what is there, and has been through no
\* collection.
LEMMA PlaceKeeps ==
    ASSUME IInv, pc \in {"run", "alloc"}, NEW clss \in Class, Fits(clss), FreeIdentity # {},
           Place(clss), pc' = "run", request' = NoRequest,
           UNCHANGED <<new_from, copying, roots, collections, ri, record, p>>
    PROVE  IInv'
    <1> DEFINE t == new_eden + next_free_offset
               i == Min(FreeIdentity)
               n == clss.num_fields
               o == [clss |-> clss, field |-> NullFields(n), age |-> 0, forwarded |-> FALSE,
                     forwarding |-> Nil, remembered |-> FALSE, id |-> i, born |-> collections]
    <1>1. Typed /\ stack = <<>> /\ ~Collecting
        BY DEF IInv, Typed, Frames, Collecting
    <1>2. Memory(object) /\ Registers
        BY <1>1 DEF Typed
    <1>3. /\ new_from' = new_from /\ next_forwarding_offset' = next_forwarding_offset
          /\ old_next_free' = old_next_free /\ rs' = rs /\ stack' = stack /\ mishap' = mishap
          /\ fi' = fi /\ has_new_obj' = has_new_obj /\ p' = p /\ roots' = roots
          /\ collections' = collections /\ ri' = ri
        BY DEF copying, record
    <1>4. object' = [a \in Objects \cup {t} |-> IF a \in Objects THEN object[a] ELSE o]
          /\ next_free_offset' = next_free_offset + clss.size
        BY DEF Place
    <1>5. next_free_offset \in Nat /\ clss.size \in Nat /\ clss.size >= 32 /\ n \in Nat
          /\ next_free_offset + clss.size <= eden_size
        <2>1. next_free_offset \in 0..eden_size
            BY <1>2 DEF Registers
        <2> QED
            BY <2>1, ClassAssumption DEF HEADER_SIZE, Fits
    <1>6. i \in Identity
        <2>1. FreeIdentity \subseteq Identity /\ Identity \subseteq Nat
            BY SizeAssumption DEF FreeIdentity, Identity
        <2>2. \E x \in FreeIdentity : \A y \in FreeIdentity : x <= y
            BY <2>1, LeastElement
        <2>3. i \in FreeIdentity
            BY <2>2, Zenon DEF Min
        <2> QED
            BY <2>1, <2>3
    <1>7. o \in Records /\ o.clss = clss /\ o.age = 0 /\ o.born = collections
          /\ o.remembered = FALSE /\ o.field \in [1..n -> Pointer]
        <2>1. NullFields(n) \in [1..n -> Pointer]
            BY AddressFacts DEF NullFields
        <2>2. NullFields(n) \in UNION {[1..c.num_fields -> Pointer] : c \in Class}
            BY <2>1
        <2>3. 0 \in 0..MAX_AGE /\ collections \in 0..MaxCollections /\ Nil \in Pointer
            <3>1. collections \in 0..MaxCollections
                BY <1>2 DEF Registers
            <3>2. 0 \in 0..MAX_AGE
                BY Sizes
            <3> QED
                BY <3>1, <3>2, AddressFacts
        <2> HIDE DEF n, i
        <2> QED
            BY <1>6, <2>1, <2>2, <2>3 DEF Records
    <1>8. t \in Nat /\ t >= 1 /\ t + clss.size <= survivor1 /\ t < survivor1 /\ t < old
          /\ old \in Nat /\ survivor1 \in Nat
        BY <1>5, Sizes
    <1>9. t \in Address
        BY <1>8, AddressFacts
    <1>10. Placed(t, clss.size) /\ Aged(t, o)
        <2>1. Inside(t, clss.size, new_eden, eden_size)
            BY <1>5, Sizes DEF Inside
        <2>2. Placed(t, clss.size)
            BY <1>8, <2>1 DEF Placed
        <2>3. Aged(t, o)
            <3> HIDE DEF o, t
            <3> QED
                BY <1>7, <1>8 DEF Aged
        <2> QED
            BY <2>2, <2>3
    <1> HIDE DEF o, t, i
    <1>11. DOMAIN object' = Objects \cup {t}
           /\ \A a \in DOMAIN object' :
                \/ a \in Objects /\ object'[a] = object[a]
                \/ a = t /\ a \notin Objects /\ object'[a] = o
        BY <1>4
    <1>12. Memory(object')
        <2> SUFFICES ASSUME NEW a \in DOMAIN object'
                     PROVE  /\ a \in Address /\ object'[a] \in Records
                            /\ object'[a].field \in [1..object'[a].clss.num_fields -> Pointer]
                            /\ Placed(a, object'[a].clss.size) /\ Aged(a, object'[a])
            BY MemoryByHeader
        <2>1. CASE a \in Objects /\ object'[a] = object[a]
            BY <1>2, <2>1, ObjectFacts
        <2>2. CASE a = t /\ object'[a] = o
            BY <1>7, <1>9, <1>10, <2>2
        <2> QED
            BY <1>11, <2>1, <2>2
    <1>13. Registers'
        <2>1. next_free_offset' \in 0..eden_size
            BY <1>4, <1>5, Sizes
        <2> QED
            BY <1>2, <1>3, <2>1 DEF Registers
    <1>14. StaysBlocked' /\ ~Collecting' /\ Requests'
        BY <1>1, <1>3 DEF StaysBlocked, Requests, Collecting
    <1>15. stack' \in Seq(Frame) /\ DOMAIN stack' = {}
        BY <1>1, <1>3, EmptySeq
    <1>16. Frames'
        BY <1>1, <1>3, <1>15 DEF Frames
    <1>17. Typed'
        BY <1>12, <1>13, <1>14, <1>16 DEF Typed
    <1>18. Objects' = Objects \cup {t}
        BY <1>11 DEF Objects
    <1>19. \A a \in Old' : a \in Old /\ object'[a] = object[a]
        BY <1>8, <1>11, <1>18 DEF Old, Young
    <1>20. Old \subseteq Old'
        <2>1. ASSUME NEW a \in Old
              PROVE  a \in Old'
            <3>1. a \in Objects /\ ~(a < old)
                BY <2>1 DEF Old, Young
            <3> QED
                BY <1>18, <3>1 DEF Old, Young
        <2> QED
            BY <2>1
    <1>21. \A a \in Young' : \/ a \in Young /\ object'[a] = object[a]
                             \/ a = t /\ object'[a] = o
        BY <1>11, <1>18 DEF Young
    <1>22. ASSUME Sane
           PROVE  InTime' /\ Remembers'
        <2>1. InTime /\ Remembers
            BY <1>22 DEF IInv
        <2>2. new_to' = new_to /\ new_to \in Nat /\ new_to >= survivor1
            BY <1>2, <1>3, SpaceFacts DEF new_to
        <2>3. ~ToSpace(t)
            BY <1>8, <2>2 DEF ToSpace
        <2>4. o.age = collections - o.born
            <3>1. collections \in Nat
                BY <1>2, CountFacts
            <3> QED
                BY <1>7, <3>1
        <2>5. \A a : ToSpace(a)' <=> ToSpace(a)
            BY <2>2 DEF ToSpace
        <2>6. InTime'
            BY <1>3, <1>14, <1>19, <1>21, <2>1, <2>3, <2>4, <2>5 DEF InTime
        <2>7. Remembers'
            BY <1>3, <1>19, <1>20, <2>1 DEF Remembers
        <2> QED
            BY <2>6, <2>7
    <1>23. OldFullOnlyWhenReachable'
        BY DEF OldFullOnlyWhenReachable
    <1> QED
        BY <1>3, <1>17, <1>22, <1>23 DEF IInv, Sane

LEMMA CollectNowKeeps ==
    ASSUME IInv, CollectNow
    PROVE  IInv'
    <1>1. NoRequest \in Class \cup {NoRequest}
        OBVIOUS
    <1> QED
        BY <1>1, StartMinorKeeps DEF CollectNow

LEMMA AllocKeeps ==
    ASSUME IInv, gc_alloc
    PROVE  IInv'
    <1>1. ClientRuns /\ FreeIdentity # {}
        BY DEF gc_alloc
    <1>2. pc = "run" /\ request = NoRequest
        BY <1>1, ClientFacts DEF IInv
    <1>3. UNCHANGED <<new_from, old_next_free, rs, roots, record, stack, p, mishap>>
        BY DEF gc_alloc
    <1>4. PICK clss \in Class :
            \/ /\ Fits(clss)
               /\ Place(clss)
               /\ UNCHANGED <<next_forwarding_offset, pc, call, ri>>
            \/ /\ ~Fits(clss)
               /\ StartMinor(clss)
               /\ UNCHANGED <<object, next_free_offset>>
        BY DEF gc_alloc
    <1>5. CASE Fits(clss) /\ Place(clss) /\ UNCHANGED <<next_forwarding_offset, pc, call, ri>>
        <2>1. pc' = "run" /\ request' = NoRequest /\ collections' = collections
            BY <1>2, <1>5 DEF call
        <2>2. UNCHANGED <<new_from, copying, roots, collections, ri, record, p>>
            BY <1>3, <1>5, <2>1 DEF copying
        <2> QED
            BY <1>1, <1>2, <1>5, <2>1, <2>2, PlaceKeeps
    <1>6. CASE StartMinor(clss) /\ UNCHANGED <<object, next_free_offset>>
        <2>1. UNCHANGED <<object, space, old_next_free, rs, roots, record, stack, p, mishap>>
            BY <1>3, <1>6 DEF space
        <2> QED
            BY <1>1, <1>6, <2>1, StartMinorKeeps
    <1> QED
        BY <1>4, <1>5, <1>6

LEMMA AllocAgainKeeps ==
    ASSUME IInv, AllocAgain
    PROVE  IInv'
    <1>1. pc = "alloc" /\ request' = NoRequest
          /\ UNCHANGED <<new_from, copying, roots, collections, ri, record, p>>
        BY DEF AllocAgain
    <1>2. request \in Class /\ FreeIdentity # {}
        BY <1>1 DEF IInv, Typed, Registers, Requests
    <1>3. CASE Fits(request)
        BY <1>1, <1>2, <1>3, PlaceKeeps DEF AllocAgain
    <1>4. CASE ~Fits(request)
        <2>1. pc' = "abort" /\ object' = object /\ next_free_offset' = next_free_offset
            BY <1>4 DEF AllocAgain
        <2>2. /\ new_from' = new_from /\ next_forwarding_offset' = next_forwarding_offset
              /\ old_next_free' = old_next_free /\ rs' = rs /\ stack' = stack
              /\ mishap' = mishap /\ fi' = fi /\ has_new_obj' = has_new_obj /\ p' = p
              /\ roots' = roots /\ collections' = collections /\ ri' = ri
            BY <1>1 DEF copying, record
        <2>3. Typed /\ stack = <<>>
            BY <1>1 DEF IInv, Typed, Frames
        <2>4. Registers'
            BY <1>1, <2>1, <2>2, <2>3 DEF Typed, Registers
        <2>5. Frames'
            BY <2>2, <2>3, <2>1, SameMemory DEF Typed, Frames
        <2>6. StaysBlocked' /\ ~Collecting' /\ Requests'
            BY <1>1, <2>1, <2>2, <2>3 DEF StaysBlocked, Requests, Collecting
        <2>7. Typed'
            BY <2>1, <2>3, <2>4, <2>5, <2>6 DEF Typed
        <2>8. InTime => InTime'
            BY <2>1, <2>2, <2>6, SameMemory DEF InTime
        <2>9. Remembers => Remembers'
            BY <1>1, <2>1, <2>2, SameMemory DEF Remembers
        <2>10. OldFullOnlyWhenReachable'
            BY <2>1 DEF OldFullOnlyWhenReachable
        <2> QED
            BY <2>2, <2>7, <2>8, <2>9, <2>10 DEF IInv, Sane
    <1> QED
        BY <1>3, <1>4

--------------------------------------------------------------------------------
(* minor_gc().                                                             *)

LEMMA LikeSelf ==
    ASSUME NEW m, Memory(m)
    PROVE  Like(m, m)
    <1> SUFFICES ASSUME NEW a \in DOMAIN m
                 PROVE  \E f \in [1..m[a].clss.num_fields -> Pointer] :
                            m[a] = [m[a] EXCEPT !.field = f]
        BY DEF Like
    <1>1. m[a] \in Records /\ m[a].field \in [1..m[a].clss.num_fields -> Pointer]
        BY MemoryFacts
    <1>2. m[a] = [m[a] EXCEPT !.field = m[a].field]
        BY <1>1 DEF Records
    <1> QED
        BY <1>1, <1>2

LEMMA IndexFacts ==
    ASSUME Registers
    PROVE  ri \in Nat \ {0} /\ fi \in Nat \ {0} /\ rs \in Seq(Pointer) /\ Len(rs) \in Nat
    <1>1. ri \in 1..(MAX_ROOTS + 1) /\ fi \in Nat \ {0} /\ rs \in Seq(Pointer)
        BY DEF Registers
    <1>2. Len(rs) \in Nat
        BY <1>1, LenProperties
    <1> QED
        BY <1>1, <1>2

\* A call of new_copy() keeps the remembered set complete; what is recorded does
\* not change.
LEMMA CallRemembers ==
    ASSUME Typed, pc \in {"roots", "remembered"}, InTime, Remembers, NEW q, NEW fs, Call(q, fs),
           mishap' = "none", object' = After(q), rs' = rs,
           pc' = "remembered" => UNCHANGED <<pc, ri, record>>
    PROVE  Remembers'
    <1>1. Collecting /\ CopiesInOrder
        BY DEF Typed, Collecting
    <1>2. ~Blocked(q) /\ CopyMishap(q) = "none"
        BY DEF Call, Blocked
    <1>3. RememberedIn(object') /\ \A a \in Range(rs) : a \in DOMAIN object' /\ object'[a] = object[a]
        BY <1>1, <1>2, AfterTimely
    <1>4. Memory(object') /\ Objects' = DOMAIN object' /\ DOMAIN object' = Objects'
        BY <1>1, <1>2, AfterFacts DEF Objects
    <1>5. \A a \in Objects' : (a \in Old' <=> a >= old) /\ (a \in Old' => a \in DOMAIN object')
        <2>1. old \in Nat /\ \A a \in Objects' : a \in Nat
            BY <1>4, MemoryFacts, Sizes
        <2> QED
            BY <1>4, <2>1 DEF Old, Young
    <1>6. \A a \in Old' : a \in DOMAIN object' /\ a >= old
        BY <1>4, <1>5 DEF Old
    <1>7. Range(rs') \subseteq Old'
        <2> SUFFICES ASSUME NEW a \in Range(rs)
                     PROVE  a \in Old'
            OBVIOUS
        <2>1. a \in Old /\ a \in Objects
            BY DEF Remembers, Old
        <2>2. a >= old
            BY <2>1, ObjectFacts DEF Typed
        <2> QED
            BY <1>3, <1>4, <1>5, <2>2
    <1>8. \A a \in Old' : \A k \in DOMAIN object'[a].field :
            object'[a].field[k] # Nil /\ object'[a].field[k] < old => a \in Range(rs')
        BY <1>3, <1>6 DEF RememberedIn
    <1>9. ASSUME pc' = "remembered", ri' <= Len(rs')
          PROVE  \A k \in DOMAIN object'[rs'[ri']].field :
                    k < fi' /\ object'[rs'[ri']].field[k] < old => has_new_obj'
        <2>1. pc = "remembered" /\ ri' = ri /\ fi' = fi /\ has_new_obj' = has_new_obj
              /\ ri <= Len(rs)
            BY <1>9 DEF record
        <2>2. ri \in Nat \ {0} /\ rs \in Seq(Pointer)
            BY IndexFacts DEF Typed
        <2>3. ri \in DOMAIN rs
            BY <2>1, <2>2, LenProperties
        <2>4. rs[ri] \in Range(rs)
            BY <2>3, Zenon DEF Range
        <2>5. object'[rs[ri]] = object[rs[ri]]
            BY <1>3, <2>4
        <2> QED
            BY <2>1, <2>5 DEF Remembers
    <1> QED
        BY <1>7, <1>8, <1>9 DEF Remembers

\* The rounds of the loop over the roots.
LEMMA RootFacts ==
    ASSUME Typed, ri <= Len(roots)
    PROVE  /\ ri \in DOMAIN roots /\ roots[ri] \in Pointer /\ ri + 1 \in 1..(MAX_ROOTS + 1)
           /\ \A x \in Pointer : /\ [roots EXCEPT ![ri] = x] \in Seq(Pointer)
                                 /\ Len([roots EXCEPT ![ri] = x]) <= MAX_ROOTS
    <1>1. roots \in Seq(Pointer) /\ Len(roots) <= MAX_ROOTS /\ ri \in 1..(MAX_ROOTS + 1)
        BY DEF Typed, Registers
    <1>2. Len(roots) \in Nat /\ DOMAIN roots = 1..Len(roots) /\ MAX_ROOTS \in Nat
        BY <1>1, LenProperties, Sizes
    <1>3. ri \in 1..Len(roots) /\ ri + 1 \in 1..(MAX_ROOTS + 1)
        BY <1>1, <1>2
    <1>4. roots[ri] \in Pointer
        BY <1>1, <1>3, ElementOfSeq
    <1>5. ASSUME NEW x \in Pointer
          PROVE  [roots EXCEPT ![ri] = x] \in Seq(Pointer)
                 /\ Len([roots EXCEPT ![ri] = x]) = Len(roots)
        BY <1>1, <1>3, ExceptSeq
    <1> QED
        BY <1>1, <1>2, <1>3, <1>4, <1>5

LEMMA CopyRootKeeps ==
    ASSUME IInv, CopyRoot
    PROVE  IInv'
    <1>1. /\ pc = "roots" /\ stack = <<>> /\ ri <= Len(roots)
          /\ UNCHANGED <<space, pc, call, record, p>> /\ ri' = ri + 1
        BY DEF CopyRoot
    <1>2. PICK q : /\ q = roots[ri] /\ Call(q, <<>>) /\ object' = After(q)
                   /\ roots' = [roots EXCEPT ![ri] = Result(q)]
        BY <1>1, RootFacts DEF CopyRoot, IInv
    <1>3. Typed /\ CopiesInOrder /\ ~Blocked(q)
        BY <1>1, <1>2 DEF IInv, Typed, Collecting, Call, Blocked
    <1>4. Result(q) \in Pointer /\ Memory(After(q))
        BY <1>3, AfterFacts
    <1>5. Like(object', After(q))
        BY <1>2, <1>4, LikeSelf
    <1>6. roots' \in Seq(Pointer) /\ Len(roots') <= MAX_ROOTS /\ ri' \in 1..(MAX_ROOTS + 1)
        BY <1>1, <1>2, <1>3, <1>4, RootFacts
    <1>7. fi' \in Nat \ {0} /\ has_new_obj' \in BOOLEAN
        BY <1>1, <1>3 DEF Typed, Registers, record
    <1>8. <<>> \in Seq(Frame) /\ \A k \in DOMAIN <<>> : <<>>[k].obj \in Young
        BY EmptySeq
    <1>9. Typed' /\ rs' = rs
        BY <1>1, <1>2, <1>3, <1>5, <1>6, <1>7, <1>8, CallTyped
    <1>10. ASSUME Sane'
           PROVE  InTime' /\ Remembers'
        <2>1. mishap' = "none" /\ CopyMishap(q) = "none"
            BY <1>2, <1>10 DEF Call, Sane
        <2>2. Sane
            BY <2>1, CallWell
        <2>3. InTime /\ Remembers
            BY <2>2 DEF IInv
        <2>4. InTime'
            BY <1>1, <1>2, <1>3, <1>5, <2>1, <2>3, CallTimely
        <2>5. pc' # "remembered"
            BY <1>1
        <2>6. Remembers'
            BY <1>1, <1>2, <1>3, <1>9, <2>1, <2>3, <2>5, CallRemembers
        <2> QED
            BY <2>4, <2>6
    <1>11. OldFullOnlyWhenReachable'
        BY <1>1 DEF OldFullOnlyWhenReachable
    <1> QED
        BY <1>9, <1>10, <1>11 DEF IInv

\* Definitions that do not depend on what the reference fields hold.
LEMMA LikeState ==
    ASSUME Memory(object), Like(object', object)
    PROVE  /\ Memory(object') /\ DOMAIN object' = Objects
           /\ Objects' = Objects /\ Young' = Young /\ Old' = Old
           /\ FreeIdentity' = FreeIdentity
           /\ \A a \in Objects : /\ object'[a].clss = object[a].clss
                                 /\ object'[a].age = object[a].age
                                 /\ object'[a].born = object[a].born
                                 /\ object'[a].forwarded = object[a].forwarded
    <1>1. Memory(object')
        BY LikeMemory
    <1>2. DOMAIN object' = Objects /\ Objects' = Objects
        BY DEF Like, Objects
    <1>3. \A a \in Objects : /\ object'[a].clss = object[a].clss /\ object'[a].age = object[a].age
                             /\ object'[a].born = object[a].born
                             /\ object'[a].forwarded = object[a].forwarded
                             /\ object'[a].id = object[a].id
        BY <1>2, LikeFacts
    <1>4. Young' = Young /\ Old' = Old
        BY <1>2 DEF Young, Old
    <1>5. FreeIdentity' = FreeIdentity
        BY <1>2, <1>3 DEF FreeIdentity
    <1> QED
        BY <1>1, <1>2, <1>3, <1>4, <1>5

\* Steps that move through the loops of a collection, and change of the heap the
\* contents of reference fields only.
LEMMA WalkKeeps ==
    ASSUME IInv, Collecting, stack = <<>> \/ pc' = pc,
           pc' \in {"roots", "remembered", "adjust"}, Like(object', object),
           UNCHANGED <<space, next_forwarding_offset, old_next_free, roots, call, stack>>,
           rs' \in Seq(Pointer), Len(rs') <= MAX_ROOTS,
           ri' \in 1..(MAX_ROOTS + 1), fi' \in Nat \ {0}, has_new_obj' \in BOOLEAN,
           p' \in 0..survivor_size, pc' = "adjust" => p' \in Starts, Sane' => Sane,
           Sane' /\ Remembers => Remembers'
    PROVE  IInv'
    <1>1. Typed /\ Memory(object) /\ Registers /\ CopiesInOrder
        BY DEF IInv, Typed
    <1>2. /\ next_free_offset' = next_free_offset /\ new_from' = new_from
          /\ next_forwarding_offset' = next_forwarding_offset
          /\ old_next_free' = old_next_free /\ stack' = stack
          /\ roots' = roots /\ request' = request /\ collections' = collections
        BY DEF space, call
    <1>3. new_to' = new_to /\ forwarding' = forwarding
        BY <1>2 DEF new_to, forwarding
    <1>4. Registers'
        BY <1>1, <1>2 DEF Registers
    <1>5. /\ Memory(object') /\ Objects' = Objects /\ Young' = Young /\ Old' = Old
          /\ FreeIdentity' = FreeIdentity
        BY <1>1, LikeState
    <1>6. Starts' = Starts
        BY <1>2, <1>3, <1>5 DEF Starts
    <1>7. CopiesInOrder'
        <2>1. \A a \in Young' : ToSpace(a)' => a < forwarding'
            BY <1>1, <1>3, <1>5 DEF CopiesInOrder, ToSpace
        <2>2. ASSUME NEW x \in Starts \ {next_forwarding_offset}
              PROVE  x + object'[new_to + x].clss.size \in Starts
            <3>1. new_to + x \in Objects
                BY <2>2 DEF Starts
            <3>2. object'[new_to + x].clss = object[new_to + x].clss
                BY <1>1, <3>1, LikeState
            <3> QED
                BY <1>1, <2>2, <3>2 DEF CopiesInOrder, Size
        <2>3. \A x \in Starts' \ {next_forwarding_offset'} : x + Size(new_to + x)' \in Starts'
            BY <1>2, <1>3, <1>6, <2>2 DEF Size
        <2> QED
            BY <1>1, <1>6, <2>1, <2>3 DEF CopiesInOrder
    <1>8. Frames'
        BY <1>1, <1>2, <1>5 DEF Typed, Frames
    <1>9. StaysBlocked' /\ Requests'
        BY <1>1, <1>2, <1>5 DEF Typed, StaysBlocked, Requests, Collecting
    <1>10. Typed'
        BY <1>4, <1>5, <1>7, <1>8, <1>9 DEF Typed
    <1>11. InTime => InTime'
        <2>1. \A a : ToSpace(a)' <=> ToSpace(a)
            BY <1>3 DEF ToSpace
        <2>2. Old \subseteq Objects /\ Young \subseteq Objects
            BY DEF Old, Young
        <2>3. \A a \in Objects : /\ object'[a].age = object[a].age
                                 /\ object'[a].born = object[a].born
                                 /\ object'[a].forwarded = object[a].forwarded
            BY <1>1, LikeState
        <2> QED
            BY <1>2, <1>5, <2>1, <2>2, <2>3 DEF InTime, Collecting
    <1>12. OldFullOnlyWhenReachable'
        BY DEF OldFullOnlyWhenReachable
    <1> QED
        BY <1>10, <1>11, <1>12 DEF IInv

\* The field at which the loop over the remembered set begins is the first.
LEMMA FirstFieldRemembers ==
    ASSUME Memory(object), Remembers, object' = object, rs' = rs, fi' = 1,
           rs \in Seq(Pointer), ri' \in Nat \ {0}
    PROVE  Remembers'
    <1>1. ASSUME ri' <= Len(rs)
          PROVE  \A k \in DOMAIN object[rs[ri']].field : ~(k < 1)
        <2>1. ri' \in DOMAIN rs
            BY <1>1, LenProperties
        <2>2. PICK b : b = rs[ri']
            OBVIOUS
        <2>3. b \in Range(rs)
            BY <2>1, <2>2, Zenon DEF Range
        <2>4. b \in Objects
            BY <2>3 DEF Remembers, Old
        <2>5. DOMAIN object[b].field = 1..object[b].clss.num_fields
              /\ object[b].clss.num_fields \in Nat
            BY <2>4, ObjectFacts
        <2>6. ASSUME NEW k \in 1..object[b].clss.num_fields
              PROVE  ~(k < 1)
            BY <2>5
        <2> QED
            BY <2>2, <2>5, <2>6
    <1> QED
        BY <1>1, SameMemory DEF Remembers

LEMMA SkipRootKeeps ==
    ASSUME IInv, SkipRoot
    PROVE  IInv'
    <1>1. /\ pc = "roots" /\ pc' = pc /\ stack = <<>> /\ ri' = ri + 1 /\ ri <= Len(roots)
          /\ fi' = fi /\ has_new_obj' = has_new_obj /\ p' = p /\ object' = object /\ rs' = rs
          /\ UNCHANGED <<space, next_forwarding_offset, old_next_free, roots, call, stack>>
        BY DEF SkipRoot, record
    <1>2. Typed /\ Collecting /\ Like(object', object)
        BY <1>1, LikeSelf DEF IInv, Typed, Collecting
    <1>3. ri' \in 1..(MAX_ROOTS + 1)
        BY <1>1, <1>2, RootFacts
    <1>4. /\ fi' \in Nat \ {0} /\ has_new_obj' \in BOOLEAN /\ p' \in 0..survivor_size
          /\ rs' \in Seq(Pointer) /\ Len(rs') <= MAX_ROOTS
        BY <1>1, <1>2 DEF Typed, Registers
    <1>5. Sane' => Sane
        BY DEF SkipRoot, FirstMishap, Sane
    <1>6. Remembers => Remembers'
        BY <1>1, SameMemory DEF Remembers
    <1> QED
        BY <1>1, <1>2, <1>3, <1>4, <1>5, <1>6, WalkKeeps

LEMMA RootsDoneKeeps ==
    ASSUME IInv, RootsDone
    PROVE  IInv'
    <1>1. /\ pc = "roots" /\ pc' = "remembered" /\ stack = <<>> /\ ri' = 1
          /\ fi' = 1 /\ has_new_obj' = FALSE /\ p' = p /\ mishap' = mishap
          /\ object' = object /\ rs' = rs
          /\ UNCHANGED <<space, next_forwarding_offset, old_next_free, roots, call, stack>>
        BY DEF RootsDone, copying
    <1>2. Typed /\ Memory(object) /\ Collecting /\ Like(object', object)
        BY <1>1, LikeSelf DEF IInv, Typed, Collecting
    <1>3. ri' \in 1..(MAX_ROOTS + 1)
        BY <1>1, Sizes
    <1>4. /\ p' \in 0..survivor_size /\ rs' \in Seq(Pointer) /\ Len(rs') <= MAX_ROOTS
        BY <1>1, <1>2 DEF Typed, Registers
    <1>5. Sane' => Sane
        BY <1>1 DEF Sane
    <1>6. fi' \in Nat \ {0} /\ ri' \in Nat \ {0} /\ pc' \in {"roots", "remembered", "adjust"}
          /\ pc' # "adjust"
        BY <1>1
    <1>7. has_new_obj' \in BOOLEAN
        BY <1>1, Zenon
    <1>8. Remembers => Remembers'
        BY <1>1, <1>2, <1>4, <1>6, FirstFieldRemembers
    <1> QED
        BY <1>1, <1>2, <1>3, <1>4, <1>5, <1>6, <1>7, <1>8, WalkKeeps

LEMMA RecordsDoneKeeps ==
    ASSUME IInv, RecordsDone
    PROVE  IInv'
    <1>1. /\ pc = "remembered" /\ pc' = "adjust" /\ stack = <<>> /\ ri' = 1
          /\ fi' = fi /\ has_new_obj' = has_new_obj /\ p' = 0 /\ mishap' = mishap
          /\ object' = object /\ rs' = rs
          /\ UNCHANGED <<space, next_forwarding_offset, old_next_free, roots, call, stack>>
        BY DEF RecordsDone, copying, record
    <1>2. Typed /\ Memory(object) /\ Collecting /\ Like(object', object)
        BY <1>1, LikeSelf DEF IInv, Typed, Collecting
    <1>3. ri' \in 1..(MAX_ROOTS + 1) /\ p' \in 0..survivor_size
        BY <1>1, Sizes
    <1>4. /\ fi' \in Nat \ {0} /\ has_new_obj' \in BOOLEAN
          /\ rs' \in Seq(Pointer) /\ Len(rs') <= MAX_ROOTS
        BY <1>1, <1>2 DEF Typed, Registers
    <1>5. Sane' => Sane
        BY <1>1 DEF Sane
    <1>6. p' \in Starts
        BY <1>1, <1>2 DEF Typed, CopiesInOrder
    <1>7. Remembers => Remembers'
        BY <1>1, SameMemory DEF Remembers
    <1> QED
        BY <1>1, <1>2, <1>3, <1>4, <1>5, <1>6, <1>7, WalkKeeps

\* The call on top of the stack: only a collection that goes on takes it up.
LEMMA TopFacts ==
    ASSUME Typed, stack # <<>>
    PROVE  /\ Top \in Frame /\ Top.obj \in Young /\ Callers \in Seq(Frame)
           /\ \A k \in DOMAIN Callers : Callers[k].obj \in Young
           /\ pc \notin {"run", "adjust", "major", "alloc"}
    <1>1. stack \in Seq(Frame) /\ \A k \in DOMAIN stack : stack[k].obj \in Young
        BY DEF Typed, Frames
    <1>2. Len(stack) \in Nat /\ Len(stack) # 0 /\ DOMAIN stack = 1..Len(stack)
        BY <1>1, LenProperties, EmptySeq
    <1>3. Len(stack) \in DOMAIN stack
        BY <1>2
    <1>4. Top \in Frame /\ Top.obj \in Young
        BY <1>1, <1>2, <1>3, ElementOfSeq DEF Top
    <1>5. /\ Callers \in Seq(Frame) /\ Len(Callers) = Len(stack) - 1
          /\ \A k \in 1..(Len(stack) - 1) : Callers[k] = stack[k]
        BY <1>1, <1>2, FrontProperties DEF Callers
    <1>6. DOMAIN Callers = 1..(Len(stack) - 1)
        BY <1>5, LenProperties
    <1>7. \A k \in 1..(Len(stack) - 1) : k \in DOMAIN stack
        BY <1>2
    <1>8. \A k \in DOMAIN Callers : Callers[k].obj \in Young
        BY <1>1, <1>5, <1>6, <1>7
    <1>9. pc \notin {"run", "adjust", "major", "alloc"}
        BY DEF Typed, Frames
    <1> QED
        BY <1>4, <1>5, <1>8, <1>9

LEMMA CopyFieldKeeps ==
    ASSUME IInv, CopyField
    PROVE  IInv'
    <1>1. stack # <<>> /\ Top.i \in DOMAIN object[Top.obj].field
          /\ UNCHANGED <<space, roots, pc, call, ri, record, p>>
        BY DEF CopyField
    <1> DEFINE fs == Append(Callers, [obj |-> Top.obj, i |-> Top.i + 1])
    <1>2. PICK q : q = object[Top.obj].field[Top.i] /\ Call(q, fs) /\ object' = After(q)
        BY DEF CopyField
    <1>3. Typed
        BY DEF IInv
    <1>4. Memory(object) /\ Registers /\ ~Blocked(q)
        BY <1>2, <1>3 DEF Typed, Call, Blocked
    <1>5. Collecting
        BY <1>1, <1>2, <1>3, <1>4 DEF Typed, StaysBlocked
    <1>6. pc \in {"roots", "remembered"} /\ CopiesInOrder
        BY <1>1, <1>3, <1>5, TopFacts DEF Collecting, Typed
    <1>7. Memory(After(q))
        BY <1>3, <1>4, <1>6, AfterFacts
    <1>8. Like(object', After(q))
        BY <1>2, <1>7, LikeSelf
    <1>9. fs \in Seq(Frame) /\ \A k \in DOMAIN fs : fs[k].obj \in Young
        <2> DEFINE f == [obj |-> Top.obj, i |-> Top.i + 1]
        <2>1. /\ Top \in Frame /\ Top.obj \in Young /\ Callers \in Seq(Frame)
              /\ \A k \in DOMAIN Callers : Callers[k].obj \in Young
            BY <1>1, <1>3, TopFacts
        <2>2. f \in Frame /\ f.obj \in Young
            BY <2>1 DEF Frame
        <2> HIDE DEF f
        <2>3. /\ Append(Callers, f) \in Seq(Frame) /\ Len(Append(Callers, f)) = Len(Callers) + 1
              /\ \A k \in 1..Len(Callers) : Append(Callers, f)[k] = Callers[k]
              /\ Append(Callers, f)[Len(Callers) + 1] = f
            BY <2>1, <2>2, AppendProperties
        <2>4. DOMAIN Append(Callers, f) = 1..(Len(Callers) + 1)
              /\ DOMAIN Callers = 1..Len(Callers) /\ Len(Callers) \in Nat
            BY <2>1, <2>3, LenProperties
        <2>5. \A k \in 1..(Len(Callers) + 1) : k = Len(Callers) + 1 \/ k \in 1..Len(Callers)
            BY <2>4
        <2>6. \A k \in DOMAIN Append(Callers, f) : Append(Callers, f)[k].obj \in Young
            BY <2>1, <2>2, <2>3, <2>4, <2>5
        <2> QED
            BY <2>3, <2>6 DEF f
    <1> HIDE DEF fs
    <1>10. /\ roots' \in Seq(Pointer) /\ Len(roots') <= MAX_ROOTS /\ ri' \in 1..(MAX_ROOTS + 1)
           /\ fi' \in Nat \ {0} /\ has_new_obj' \in BOOLEAN
        BY <1>1, <1>4 DEF Registers, record
    <1>11. UNCHANGED <<space, pc, call, p>>
        BY <1>1
    <1>12. Typed' /\ rs' = rs
        BY <1>2, <1>3, <1>6, <1>8, <1>9, <1>10, <1>11, CallTyped
    <1>13. ASSUME Sane'
           PROVE  InTime' /\ Remembers'
        <2>1. mishap' = "none" /\ CopyMishap(q) = "none"
            BY <1>2, <1>13 DEF Call, Sane
        <2>2. Sane
            BY <2>1, CallWell
        <2>3. InTime /\ Remembers
            BY <2>2 DEF IInv
        <2>4. UNCHANGED <<space, pc, call>> /\ UNCHANGED <<pc, ri, record>>
            BY <1>1
        <2>5. InTime'
            BY <1>2, <1>3, <1>6, <1>8, <2>1, <2>3, <2>4, CallTimely
        <2>6. Remembers'
            BY <1>2, <1>3, <1>6, <1>12, <2>1, <2>3, <2>4, CallRemembers
        <2> QED
            BY <2>5, <2>6
    <1>14. OldFullOnlyWhenReachable'
        BY <1>1, <1>6 DEF OldFullOnlyWhenReachable
    <1> QED
        BY <1>12, <1>13, <1>14 DEF IInv

LEMMA CopyReturnKeeps ==
    ASSUME IInv, CopyReturn
    PROVE  IInv'
    <1>1. /\ stack # <<>> /\ Top.i \notin DOMAIN object[Top.obj].field /\ stack' = Callers
          /\ next_free_offset' = next_free_offset /\ new_from' = new_from
          /\ next_forwarding_offset' = next_forwarding_offset
          /\ old_next_free' = old_next_free /\ rs' = rs /\ roots' = roots
          /\ object' = object /\ pc' = pc /\ request' = request
          /\ collections' = collections /\ ri' = ri /\ fi' = fi
          /\ has_new_obj' = has_new_obj /\ p' = p /\ mishap' = mishap
        BY DEF CopyReturn, space, call, record
    <1>2. Typed /\ Memory(object) /\ Registers
        BY DEF IInv, Typed
    <1>3. Collecting /\ CopiesInOrder /\ pc \in {"roots", "remembered"}
        BY <1>1, <1>2, TopFacts DEF Typed, StaysBlocked, Collecting
    <1>4. Registers'
        BY <1>1, <1>2 DEF Registers
    <1>5. new_to' = new_to /\ forwarding' = forwarding
        BY <1>1 DEF new_to, forwarding
    <1>6. Starts' = Starts
        BY <1>1, <1>5, SameMemory DEF Starts
    <1>7. CopiesInOrder'
        BY <1>1, <1>3, <1>5, <1>6, SameMemory DEF CopiesInOrder, ToSpace, Size
    <1>8. Frames'
        BY <1>1, <1>2, <1>3, TopFacts, SameMemory DEF Frames
    <1>9. StaysBlocked' /\ Requests'
        BY <1>1, <1>2, <1>3, SameMemory DEF Typed, StaysBlocked, Requests, Collecting
    <1>10. Typed'
        BY <1>1, <1>2, <1>4, <1>7, <1>8, <1>9 DEF Typed
    <1>11. InTime => InTime'
        BY <1>1, <1>5, SameMemory DEF InTime, Collecting, ToSpace
    <1>12. Remembers => Remembers'
        BY <1>1, SameMemory DEF Remembers
    <1>13. OldFullOnlyWhenReachable'
        BY <1>1, <1>3 DEF OldFullOnlyWhenReachable
    <1> QED
        BY <1>1, <1>10, <1>11, <1>12, <1>13 DEF IInv, Sane

\* A field of a recorded object that leads to the new generation.
LEMMA CopyRecordedFieldKeeps ==
    ASSUME IInv, AtRecordField, NEW b, b = old_root, NEW q, q = object[b].field[fi],
           Call(q, <<>>), object' = [After(q) EXCEPT ![b].field[fi] = Result(q)],
           has_new_obj' = (has_new_obj \/ Result(q) < old), fi' = fi + 1,
           UNCHANGED <<space, roots, pc, call, ri, p>>
    PROVE  IInv'
    <1>1. /\ pc = "remembered" /\ stack = <<>> /\ ri <= Len(rs) /\ b \in Objects /\ b = rs[ri]
          /\ fi \in DOMAIN object[b].field
        BY DEF AtRecordField, AtRecord, old_root
    <1>2. Typed /\ Memory(object) /\ Registers /\ CopiesInOrder /\ Collecting /\ ~Blocked(q)
        BY <1>1 DEF IInv, Typed, Collecting, Call, Blocked
    <1>3. Result(q) \in Pointer /\ Memory(After(q))
        BY <1>2, AfterFacts
    <1>4. Like(object', After(q))
        BY <1>3, StorePointer
    <1>5. pc' = pc /\ ri' = ri /\ ri \in Nat \ {0} /\ fi \in Nat \ {0} /\ rs \in Seq(Pointer)
        BY <1>2, IndexFacts
    <1>6. roots' \in Seq(Pointer) /\ Len(roots') <= MAX_ROOTS /\ ri' \in 1..(MAX_ROOTS + 1)
        BY <1>2 DEF Registers
    <1>7. fi' \in Nat \ {0}
        BY <1>5
    <1>8. has_new_obj' \in BOOLEAN
        BY Zenon
    <1>9. <<>> \in Seq(Frame) /\ \A k \in DOMAIN <<>> : <<>>[k].obj \in Young
        BY EmptySeq
    <1>10. Typed' /\ rs' = rs
        BY <1>1, <1>2, <1>4, <1>6, <1>7, <1>8, <1>9, CallTyped
    <1>11. ASSUME Sane'
           PROVE  InTime' /\ Remembers'
        <2>1. mishap' = "none" /\ CopyMishap(q) = "none"
            BY <1>11 DEF Call, Sane
        <2>2. Sane
            BY <2>1, CallWell
        <2>3. InTime /\ Remembers
            BY <2>2 DEF IInv
        <2>4. InTime'
            BY <1>1, <1>2, <1>4, <2>1, <2>3, CallTimely
        <2>5. RememberedIn(After(q))
              /\ \A a \in Range(rs) : a \in DOMAIN After(q) /\ After(q)[a] = object[a]
            BY <1>2, <2>1, <2>3, AfterTimely
        <2>6. ri \in DOMAIN rs
            <3>1. DOMAIN rs = 1..Len(rs) /\ Len(rs) \in Nat
                BY <1>5, LenProperties
            <3>2. ri <= Len(rs) /\ ri \in Nat \ {0}
                BY <1>1, <1>5
            <3> QED
                BY <3>1, <3>2
        <2>7. b \in Range(rs)
            BY <1>1, <2>6, Zenon DEF Range
        <2>8. Memory(object')
            BY <1>3, <1>4, LikeMemory
        <2>9. DOMAIN object' = DOMAIN After(q) /\ Objects' = DOMAIN object'
            BY <1>4 DEF Like, Objects
        <2>10. \A a \in Objects' : a \in Nat
            BY <2>8, <2>9, MemoryFacts
        <2>11. \A a \in DOMAIN object' : a \in Old' <=> a >= old
            <3> SUFFICES ASSUME NEW a \in DOMAIN object'
                         PROVE  a \in Old' <=> a >= old
                OBVIOUS
            <3>1. a \in Objects' /\ a \in Nat /\ old \in Nat
                BY <2>9, <2>10, Sizes
            <3>2. a \in Old' <=> ~(a < old)
                BY <3>1 DEF Old, Young
            <3> QED
                BY <3>1, <3>2
        <2>12. Range(rs') \subseteq Old'
            <3> SUFFICES ASSUME NEW a \in Range(rs)
                         PROVE  a \in Old'
                BY <1>10
            <3>1. a \in Old /\ a \in Objects
                BY <2>3 DEF Remembers, Old
            <3>2. a >= old
                BY <1>2, <3>1, ObjectFacts
            <3> QED
                BY <2>5, <2>9, <2>11, <3>2
        <2>13. \A a \in DOMAIN After(q) \ {b} : object'[a] = After(q)[a]
            OBVIOUS
        <2>14. ASSUME NEW a \in Old', NEW k \in DOMAIN object'[a].field,
                      object'[a].field[k] # Nil, object'[a].field[k] < old
               PROVE  a \in Range(rs')
            <3>1. a \in DOMAIN After(q) /\ a >= old
                BY <2>9, <2>11, <2>14 DEF Old
            <3>2. CASE a = b
                BY <1>10, <2>7, <3>2
            <3>3. CASE a # b
                BY <1>10, <2>5, <2>13, <2>14, <3>1, <3>3 DEF RememberedIn
            <3> QED
                BY <3>2, <3>3
        <2>15. object'[b].field = [object[b].field EXCEPT ![fi] = Result(q)]
            <3>1. object'[b] = [After(q)[b] EXCEPT !.field[fi] = Result(q)]
                BY <2>5, <2>7
            <3>2. After(q)[b] = object[b] /\ object[b] \in Records
                BY <1>1, <1>2, <2>5, <2>7, ObjectFacts
            <3> QED
                BY <3>1, <3>2 DEF Records
        <2>16. ASSUME NEW k \in DOMAIN object'[b].field, k < fi', object'[b].field[k] < old
               PROVE  has_new_obj'
            <3>1. k \in DOMAIN object[b].field
                BY <2>15
            <3>2. DOMAIN object[b].field = 1..object[b].clss.num_fields
                BY <1>1, <1>2, ObjectFacts
            <3>3. k \in Int
                BY <3>1, <3>2
            <3>4. CASE k = fi
                <4>1. object'[b].field[k] = Result(q)
                    BY <1>1, <2>15, <3>4
                <4> QED
                    BY <2>16, <4>1
            <3>5. CASE k # fi
                <4>1. object'[b].field[k] = object[b].field[k]
                    BY <2>15, <3>1, <3>5
                <4>2. k < fi
                    BY <1>5, <2>16, <3>3, <3>5
                <4>3. has_new_obj
                    BY <1>1, <2>3, <2>16, <3>1, <4>1, <4>2 DEF Remembers
                <4> QED
                    BY <4>3
            <3> QED
                BY <3>4, <3>5
        <2>17. pc' = "remembered" /\ ri' <= Len(rs') =>
                    \A k \in DOMAIN object'[rs'[ri']].field :
                        k < fi' /\ object'[rs'[ri']].field[k] < old => has_new_obj'
            <3>1. rs'[ri'] = b
                BY <1>1, <1>5, <1>10
            <3> QED
                BY <2>16, <3>1
        <2>18. Remembers'
            BY <2>12, <2>14, <2>17 DEF Remembers
        <2> QED
            BY <2>4, <2>18
    <1>12. OldFullOnlyWhenReachable'
        BY <1>1, <1>5 DEF OldFullOnlyWhenReachable
    <1> QED
        BY <1>10, <1>11, <1>12 DEF IInv

LEMMA RecordedFieldKeeps ==
    ASSUME IInv, RecordedField
    PROVE  IInv'
    <1>1. /\ pc = "remembered" /\ stack = <<>> /\ ri <= Len(rs) /\ old_root \in Objects
          /\ AtRecordField /\ fi \in DOMAIN object[old_root].field /\ fi' = fi + 1
          /\ UNCHANGED <<space, roots, pc, call, ri, p>>
        BY DEF RecordedField, AtRecordField, AtRecord
    <1>2. PICK b : b = old_root
        OBVIOUS
    <1>3. PICK q : q = object[b].field[fi]
        OBVIOUS
    <1>4. IF q < old
          THEN /\ Call(q, <<>>)
               /\ object' = [After(q) EXCEPT ![b].field[fi] = Result(q)]
               /\ has_new_obj' = (has_new_obj \/ Result(q) < old)
          ELSE UNCHANGED <<object, copying, has_new_obj>>
        BY <1>2, <1>3 DEF RecordedField
    <1>5. CASE q < old
        BY <1>1, <1>2, <1>3, <1>4, <1>5, CopyRecordedFieldKeeps
    <1>6. CASE ~(q < old)
        <2>1. /\ object' = object /\ rs' = rs /\ has_new_obj' = has_new_obj /\ mishap' = mishap
              /\ UNCHANGED <<space, next_forwarding_offset, old_next_free, roots, call, stack>>
              /\ pc' = pc /\ ri' = ri /\ p' = p /\ fi' = fi + 1
            BY <1>1, <1>4, <1>6 DEF copying
        <2>2. Typed /\ Collecting /\ Memory(object) /\ Registers /\ Like(object', object)
            BY <1>1, <2>1, LikeSelf DEF IInv, Typed, Collecting
        <2>3. fi \in Nat \ {0}
            BY <2>2, IndexFacts
        <2>4. fi' \in Nat \ {0}
            BY <2>1, <2>3
        <2>5. /\ rs' \in Seq(Pointer) /\ Len(rs') <= MAX_ROOTS /\ ri' \in 1..(MAX_ROOTS + 1)
              /\ has_new_obj' \in BOOLEAN /\ p' \in 0..survivor_size
            BY <2>1, <2>2 DEF Registers
        <2>6. ASSUME Remembers
              PROVE  Remembers'
            <3>1. rs[ri] = b
                BY <1>2 DEF old_root
            <3>2. DOMAIN object[b].field = 1..object[b].clss.num_fields
                BY <1>1, <1>2, <2>2, ObjectFacts
            <3>3. ASSUME NEW k \in DOMAIN object[b].field, k < fi', object[b].field[k] < old
                  PROVE  has_new_obj
                <4>1. k # fi
                    BY <1>3, <1>6, <3>3
                <4>2. k < fi
                    BY <2>1, <2>3, <3>2, <3>3, <4>1
                <4> QED
                    BY <1>1, <2>6, <3>1, <3>3, <4>2 DEF Remembers
            <3> QED
                BY <2>1, <2>6, <3>1, <3>3, SameMemory DEF Remembers
        <2>7. Sane' => Sane
            BY <2>1 DEF Sane
        <2>8. pc' = "remembered"
            BY <1>1, <2>1
        <2> QED
            BY <1>1, <2>1, <2>2, <2>4, <2>5, <2>6, <2>7, <2>8, WalkKeeps
    <1> QED
        BY <1>5, <1>6

LEMMA NextRecordKeeps ==
    ASSUME IInv, NextRecord
    PROVE  IInv'
    <1>1. /\ pc = "remembered" /\ pc' = pc /\ stack = <<>> /\ ri <= Len(rs)
          /\ old_root \in Objects /\ fi \notin DOMAIN object[old_root].field
          /\ fi' = 1 /\ has_new_obj' = FALSE /\ ri' = NextIndex(has_new_obj) /\ p' = p
          /\ UNCHANGED <<space, next_forwarding_offset, old_next_free, roots, call, stack>>
        BY DEF NextRecord, AtRecord
    <1>2. Typed /\ Memory(object) /\ Registers /\ Collecting
        BY <1>1 DEF IInv, Typed, Collecting
    <1>3. /\ ri \in Nat \ {0} /\ fi \in Nat \ {0} /\ rs \in Seq(Pointer) /\ Len(rs) \in Nat
          /\ Len(rs) <= MAX_ROOTS /\ MAX_ROOTS \in Nat
        BY <1>2, IndexFacts, Sizes DEF Registers
    <1>4. ri \in DOMAIN rs /\ DOMAIN rs = 1..Len(rs) /\ ri \in 1..Len(rs)
        <2>1. ri <= Len(rs)
            BY <1>1
        <2>2. DOMAIN rs = 1..Len(rs)
            BY <1>3, LenProperties
        <2> QED
            BY <1>3, <2>1, <2>2
    <1>5. fi' \in Nat \ {0} /\ pc' \in {"roots", "remembered", "adjust"} /\ pc' # "adjust"
        BY <1>1
    <1>6. has_new_obj' \in BOOLEAN
        BY <1>1, Zenon
    <1>7. p' \in 0..survivor_size
        BY <1>1, <1>2 DEF Registers
    <1>8. CASE has_new_obj
        <2>1. object' = object /\ rs' = rs /\ mishap' = mishap /\ ri' = ri + 1
            BY <1>1, <1>8 DEF NextRecord, NextIndex
        <2>2. Like(object', object)
            BY <1>2, <2>1, LikeSelf
        <2>3. ri' \in 1..(MAX_ROOTS + 1) /\ ri' \in Nat \ {0}
            BY <1>3, <1>4, <2>1
        <2>4. Remembers => Remembers'
            BY <1>1, <1>2, <1>3, <2>1, <2>3, FirstFieldRemembers
        <2>5. (Sane' => Sane) /\ rs' \in Seq(Pointer) /\ Len(rs') <= MAX_ROOTS
            BY <1>3, <2>1 DEF Sane
        <2> QED
            BY <1>1, <1>2, <1>5, <1>6, <1>7, <2>2, <2>3, <2>4, <2>5, WalkKeeps
    <1>9. CASE ~has_new_obj
        <2>1. PICK b : b = old_root
            OBVIOUS
        <2>2. /\ object' = [object EXCEPT ![b].remembered = FALSE]
              /\ rs' = [i \in 1..(Len(rs) - 1) |-> IF i = ri THEN Nil ELSE rs[i]]
              /\ mishap' = FirstMishap(ri < Len(rs), "NULL in the remembered set")
              /\ ri' = ri
            BY <1>1, <1>9, <2>1 DEF NextRecord, NextIndex
        <2>3. b \in Objects /\ fi \notin DOMAIN object[b].field /\ b = rs[ri]
            BY <1>1, <2>1 DEF old_root
        <2>4. object[b] \in Records /\ object[b].remembered = FALSE
              /\ object[b].field \in [1..object[b].clss.num_fields -> Pointer]
              /\ object[b].clss.num_fields \in Nat
            BY <1>2, <2>3, ObjectFacts
        <2>5. object'[b] = [object[b] EXCEPT !.field = object[b].field]
            <3>1. object'[b] = [object[b] EXCEPT !.remembered = FALSE]
                BY <2>2, <2>3 DEF Objects
            <3> QED
                BY <2>4, <3>1 DEF Records
        <2>6. DOMAIN object' = DOMAIN object /\ \A a \in DOMAIN object \ {b} : object'[a] = object[a]
            BY <2>2
        <2>7. Like(object', object)
            BY <1>2, <2>4, <2>5, <2>6, StoreLike
        <2>8. PICK n \in Nat : Len(rs) = n + 1 /\ Len(rs) - 1 = n
            <3>1. Len(rs) - 1 \in Nat /\ Len(rs) = (Len(rs) - 1) + 1
                BY <1>3, <1>4
            <3> QED
                BY <3>1
        <2>9. rs' \in Seq(Pointer) /\ Len(rs') = n /\ DOMAIN rs' = 1..n
            <3>1. rs' = [i \in 1..n |-> IF i = ri THEN Nil ELSE rs[i]]
                BY <2>2, <2>8, Zenon
            <3>2. ASSUME NEW i \in 1..n
                  PROVE  (IF i = ri THEN Nil ELSE rs[i]) \in Pointer
                <4>1. i \in 1..Len(rs)
                    BY <2>8
                <4>2. rs[i] \in Pointer
                    BY <1>3, <4>1, ElementOfSeq
                <4> QED
                    BY <4>2, AddressFacts
            <3>3. rs' \in [1..n -> Pointer]
                BY <3>1, <3>2
            <3>4. rs' \in Seq(Pointer)
                BY <2>8, <3>3, IsASeq
            <3>5. DOMAIN rs' = 1..n
                BY <3>3
            <3> QED
                BY <2>8, <3>4, <3>5, LenProperties
        <2>10. Len(rs') <= MAX_ROOTS /\ ri' \in 1..(MAX_ROOTS + 1)
            <3>1. Len(rs') = n /\ n + 1 <= MAX_ROOTS
                BY <1>3, <2>8, <2>9
            <3>2. ri' = ri /\ ri \in 1..(MAX_ROOTS + 1)
                BY <1>2, <2>2 DEF Registers
            <3> QED
                BY <1>3, <3>1, <3>2
        <2>11. Sane' => Sane /\ ~(ri < Len(rs))
            BY <2>2 DEF Sane, FirstMishap
        <2>12. ASSUME Sane', Remembers
               PROVE  Remembers'
            <3>1. ri = n + 1
                BY <1>3, <1>4, <2>8, <2>11, <2>12
            <3>2. \A i \in 1..n : i \in DOMAIN rs /\ rs'[i] = rs[i]
                <4>1. rs' = [i \in 1..n |-> IF i = ri THEN Nil ELSE rs[i]]
                    BY <2>2, <2>8, Zenon
                <4>2. \A i \in 1..n : i # n + 1 /\ i \in 1..(n + 1)
                    OBVIOUS
                <4> QED
                    BY <1>4, <2>8, <3>1, <4>1, <4>2
            <3>3. Range(rs') \subseteq Range(rs)
                BY <2>9, <3>2 DEF Range
            <3>4. Old' = Old /\ Old \subseteq Objects
                BY <1>2, <2>7, LikeState DEF Old
            <3>5. \A a \in Objects : object'[a].field = object[a].field
                <4>1. object'[b].field = object[b].field
                    BY <2>4, <2>5 DEF Records
                <4> QED
                    BY <2>6, <4>1 DEF Objects
            <3>6. ASSUME NEW k \in DOMAIN object[b].field
                  PROVE  ~(object[b].field[k] < old)
                <4>1. k \in 1..object[b].clss.num_fields /\ fi \notin 1..object[b].clss.num_fields
                    BY <2>3, <2>4
                <4>2. k < fi
                    BY <1>3, <2>4, <4>1
                <4> QED
                    BY <1>1, <1>9, <2>3, <2>12, <4>2 DEF Remembers
            <3>7. ASSUME NEW a \in Range(rs), a # b
                  PROVE  a \in Range(rs')
                <4>1. PICK i \in DOMAIN rs : a = rs[i]
                    BY DEF Range
                <4>2. i \in 1..n
                    <5>1. i # n + 1
                        BY <2>3, <3>1, <3>7, <4>1
                    <5> QED
                        BY <1>4, <2>8, <4>1, <5>1
                <4>3. i \in DOMAIN rs' /\ rs'[i] = a
                    BY <2>9, <3>2, <4>1, <4>2
                <4> QED
                    BY <4>3, Zenon DEF Range
            <3>8. ASSUME NEW a \in Old', NEW k \in DOMAIN object'[a].field,
                         object'[a].field[k] # Nil, object'[a].field[k] < old
                  PROVE  a \in Range(rs')
                <4>1. a \in Old /\ a \in Objects /\ object'[a].field = object[a].field
                    BY <3>4, <3>5, <3>8
                <4>2. a \in Range(rs)
                    BY <2>12, <3>8, <4>1 DEF Remembers
                <4>3. a # b
                    BY <3>6, <3>8, <4>1
                <4> QED
                    BY <3>7, <4>2, <4>3
            <3>9. ~(ri' <= Len(rs'))
                <4>1. ri' = n + 1 /\ Len(rs') = n
                    BY <2>2, <2>9, <3>1
                <4> QED
                    BY <4>1
            <3>10. Range(rs') \subseteq Old'
                BY <2>12, <3>3, <3>4 DEF Remembers
            <3> QED
                BY <3>8, <3>9, <3>10 DEF Remembers
        <2> QED
            BY <1>1, <1>2, <1>5, <1>6, <1>7, <2>7, <2>9, <2>10, <2>11, <2>12, WalkKeeps
    <1> QED
        BY <1>8, <1>9

--------------------------------------------------------------------------------
(* adjust_ref(), and the end of a collection.                              *)

LEMMA AdjustKeeps ==
    ASSUME IInv, Adjust
    PROVE  IInv'
    <1>1. PICK a : a = new_to + p
        OBVIOUS
    <1>2. /\ pc = "adjust" /\ pc' = pc /\ p < next_forwarding_offset
          /\ object' = [object EXCEPT ![a].field = Adjusted(@)]
          /\ p' = p + Size(a) /\ rs' = rs /\ ri' = ri /\ fi' = fi /\ has_new_obj' = has_new_obj
          /\ mishap' = mishap
          /\ UNCHANGED <<space, next_forwarding_offset, old_next_free, roots, call, stack>>
        BY <1>1 DEF Adjust, copying, record
    <1>3. Typed /\ Memory(object) /\ Registers /\ Collecting /\ CopiesInOrder
        BY <1>2 DEF IInv, Typed, Collecting
    <1>4. stack = <<>>
        BY <1>2, <1>3 DEF Typed, Frames
    <1>5. p \in Starts /\ p # next_forwarding_offset
        <2>1. p \in Starts
            BY <1>2, <1>3 DEF CopiesInOrder
        <2>2. p \in 0..next_forwarding_offset /\ next_forwarding_offset \in Nat
            BY <1>3, <2>1, SpaceFacts DEF Starts
        <2> QED
            BY <1>2, <2>1, <2>2
    <1>6. a \in Objects
        BY <1>1, <1>5 DEF Starts
    <1>7. a < old
        <2>1. new_to \in Nat /\ new_to + survivor_size <= old /\ old \in Nat
              /\ next_forwarding_offset \in Nat /\ next_forwarding_offset <= survivor_size
              /\ survivor_size \in Nat
            BY <1>3, SpaceFacts, Sizes
        <2>2. p \in Nat
            <3>1. p \in 0..survivor_size
                BY <1>3 DEF Registers
            <3> QED
                BY <3>1
        <2> QED
            BY <1>1, <1>2, <2>1, <2>2
    <1>8. p' \in Starts
        BY <1>1, <1>2, <1>3, <1>5 DEF CopiesInOrder
    <1>9. p' \in 0..survivor_size
        <2>1. p' \in 0..next_forwarding_offset
            BY <1>8 DEF Starts
        <2>2. next_forwarding_offset \in Nat /\ next_forwarding_offset <= survivor_size
              /\ survivor_size \in Nat
            BY <1>3, SpaceFacts, Sizes
        <2> QED
            BY <2>1, <2>2
    <1>10. Like(object', object)
        <2> DEFINE g == Adjusted(object[a].field)
        <2>1. object[a] \in Records
              /\ object[a].field \in [1..object[a].clss.num_fields -> Pointer]
            BY <1>3, <1>6, ObjectFacts
        <2>2. \A q \in Objects : object[q].forwarding \in Pointer
            BY <1>3, ObjectFacts
        <2>3. g \in [1..object[a].clss.num_fields -> Pointer]
            BY <2>1, <2>2 DEF Adjusted
        <2>4. object'[a] = [object[a] EXCEPT !.field = g]
            BY <1>2, <1>6 DEF Objects
        <2>5. DOMAIN object' = DOMAIN object
              /\ \A x \in DOMAIN object \ {a} : object'[x] = object[x]
            BY <1>2
        <2> HIDE DEF g
        <2> QED
            BY <1>3, <2>3, <2>4, <2>5, StoreLike
    <1>11. Remembers => Remembers'
        <2>1. \A x \in Old : x \in Objects /\ x # a /\ object'[x] = object[x]
            BY <1>2, <1>7 DEF Old, Young, Objects
        <2>2. Old' = Old
            BY <1>3, <1>10, LikeState
        <2> QED
            BY <1>2, <2>1, <2>2 DEF Remembers
    <1>12. /\ rs' \in Seq(Pointer) /\ Len(rs') <= MAX_ROOTS /\ ri' \in 1..(MAX_ROOTS + 1)
           /\ fi' \in Nat \ {0} /\ has_new_obj' \in BOOLEAN
        BY <1>2, <1>3 DEF Registers
    <1>13. pc' \in {"roots", "remembered", "adjust"} /\ (Sane' => Sane)
        BY <1>2 DEF Sane
    <1> QED
        BY <1>2, <1>3, <1>4, <1>8, <1>9, <1>10, <1>11, <1>12, <1>13, WalkKeeps

LEMMA AdjustDoneKeeps ==
    ASSUME IInv, AdjustDone
    PROVE  IInv'
    <1>1. /\ pc = "adjust" /\ object' = [a \in Objects \ Cleared |-> object[a]]
          /\ new_from' = new_to /\ next_free_offset' = 0 /\ p' = 0
          /\ pc' = IF request = NoRequest THEN "major" ELSE "alloc"
          /\ next_forwarding_offset' = next_forwarding_offset
          /\ old_next_free' = old_next_free /\ rs' = rs /\ stack' = stack /\ mishap' = mishap
          /\ fi' = fi /\ has_new_obj' = has_new_obj /\ roots' = roots
          /\ request' = request /\ collections' = collections /\ ri' = ri
        BY DEF AdjustDone, copying, call, record
    <1>2. Typed /\ Memory(object) /\ Registers /\ Requests
        BY DEF IInv, Typed
    <1>3. stack = <<>> /\ DOMAIN stack = {} /\ stack \in Seq(Frame)
        <2>1. stack = <<>>
            BY <1>1, <1>2 DEF Typed, Frames
        <2> QED
            BY <2>1, EmptySeq
    <1>4. pc' \in {"major", "alloc"}
        BY <1>1
    <1>5. /\ DOMAIN object' = Objects \ Cleared /\ Objects' = Objects \ Cleared
          /\ \A a \in Objects' : a \in Objects /\ object'[a] = object[a]
        BY <1>1 DEF Objects
    <1>6. Memory(object')
        <2> SUFFICES ASSUME NEW a \in DOMAIN object'
                     PROVE  /\ a \in Address /\ object'[a] \in Records
                            /\ object'[a].field \in [1..object'[a].clss.num_fields -> Pointer]
                            /\ Placed(a, object'[a].clss.size) /\ Aged(a, object'[a])
            BY MemoryByHeader
        <2>1. a \in Objects /\ object'[a] = object[a]
            BY <1>5
        <2> QED
            BY <1>2, <2>1, ObjectFacts
    <1>7. new_to \in {survivor1, survivor2} /\ 0 \in 0..eden_size /\ 0 \in 0..survivor_size
        BY Sizes DEF new_to
    <1>8. Registers'
        BY <1>1, <1>2, <1>4, <1>7 DEF Registers
    <1>9. Frames' /\ StaysBlocked' /\ ~Collecting'
        BY <1>1, <1>3, <1>4 DEF Frames, StaysBlocked, Collecting
    <1>10. Requests'
        <2>1. request' # NoRequest => FreeIdentity' # {}
            BY <1>1, <1>2, <1>5, IdentitiesStay
        <2> QED
            BY <1>1, <2>1 DEF Requests
    <1>11. Typed'
        BY <1>6, <1>8, <1>9, <1>10 DEF Typed
    <1>12. \A a \in Old' : a \in Old /\ object'[a] = object[a]
        BY <1>5 DEF Old, Young
    <1>13. Old \subseteq Old'
        <2> SUFFICES ASSUME NEW a \in Old
                     PROVE  a \in Old'
            OBVIOUS
        <2>1. a \in Objects /\ a \notin Young
            BY DEF Old
        <2>2. a \notin Cleared
            BY <2>1 DEF Cleared
        <2>3. a \in Objects'
            BY <1>5, <2>1, <2>2
        <2> QED
            BY <2>1, <2>3 DEF Old, Young
    <1>14. new_to' = new_from
        BY <1>1, <1>2, SpaceFacts DEF new_to, Registers
    <1>15. ASSUME NEW a \in Young'
           PROVE  /\ a \in Young /\ object'[a] = object[a] /\ ToSpace(a)
                  /\ ~(new_from <= a /\ a < new_from + survivor_size)
        <2>1. a \in Objects' /\ a < old
            BY <1>15 DEF Young
        <2>2. a \in Objects /\ a \in Young /\ a \notin Cleared /\ object'[a] = object[a]
            BY <1>5, <2>1 DEF Young
        <2>3. ~(a < survivor1) /\ ~(new_from <= a /\ a < new_from + survivor_size)
            BY <2>2 DEF Cleared
        <2>4. a \in Nat /\ Placed(a, object[a].clss.size) /\ object[a].clss.size \in Nat
              /\ object[a].clss.size >= 32
            BY <1>2, <2>2, ObjectFacts
        <2> DEFINE z == object[a].clss.size
        <2>5. \/ Inside(a, z, new_eden, eden_size)
              \/ Inside(a, z, survivor1, survivor_size)
              \/ Inside(a, z, survivor2, survivor_size)
            BY <2>1, <2>4 DEF Placed
        <2>6. z \in Nat /\ z >= 32
            BY <2>4
        <2>7. a \in Nat
            BY <2>4
        <2> HIDE DEF z
        <2>8. ~Inside(a, z, new_eden, eden_size)
            BY <2>3, <2>6, <2>7, Sizes DEF Inside
        <2>9. ~Inside(a, z, new_from, survivor_size)
            <3>1. new_from \in Nat /\ survivor_size \in Nat
                BY <1>2, SpaceFacts, Sizes
            <3> QED
                BY <2>3, <2>6, <2>7, <3>1 DEF Inside
        <2>10. Inside(a, z, new_to, survivor_size)
            BY <1>2, <2>5, <2>8, <2>9, SpaceFacts
        <2>11. ToSpace(a)
            <3>1. new_to \in Nat /\ survivor_size \in Nat
                BY <1>2, SpaceFacts, Sizes
            <3> QED
                BY <2>6, <2>7, <2>10, <3>1 DEF Inside, ToSpace
        <2> QED
            BY <2>2, <2>3, <2>11
    <1>16. InTime => InTime'
        <2>1. \A a : ToSpace(a)' <=> new_from <= a /\ a < new_from + survivor_size
            BY <1>14 DEF ToSpace
        <2>2. Collecting
            BY <1>1 DEF Collecting
        <2> QED
            BY <1>1, <1>9, <1>12, <1>15, <2>1, <2>2 DEF InTime
    <1>17. Remembers => Remembers'
        BY <1>1, <1>4, <1>12, <1>13 DEF Remembers
    <1>18. OldFullOnlyWhenReachable'
        BY <1>4 DEF OldFullOnlyWhenReachable
    <1> QED
        BY <1>1, <1>11, <1>16, <1>17, <1>18 DEF IInv, Sane

\* major_gc() keeps all that it marks, and what it takes back without a mishap
\* nothing young and nothing recorded leads to.
LEMMA MajorKeeps ==
    ASSUME IInv, Major
    PROVE  IInv'
    <1>1. /\ pc = "major" /\ next_free_offset' = next_free_offset /\ new_from' = new_from
          /\ next_forwarding_offset' = next_forwarding_offset /\ rs' = rs /\ stack' = stack
          /\ fi' = fi /\ has_new_obj' = has_new_obj /\ p' = p /\ roots' = roots
          /\ request' = request /\ collections' = collections /\ ri' = ri
        BY DEF Major, space, call, loops, record
    <1>2. Typed /\ Memory(object) /\ Registers /\ request = NoRequest
        BY <1>1 DEF IInv, Typed, Requests
    <1>3. stack = <<>> /\ DOMAIN stack = {} /\ stack \in Seq(Frame)
        <2>1. stack = <<>>
            BY <1>1, <1>2 DEF Typed, Frames
        <2> QED
            BY <2>1, EmptySeq
    <1>4. \/ /\ pc' = "undefined" /\ object' = object /\ old_next_free' = old_next_free
             /\ mishap' = mishap
          \/ /\ pc' = "run" /\ object' = AfterMajor /\ old_next_free' = NextFreeAfterMajor
             /\ mishap' = IF SweepsNeeded
                          THEN FirstMishap(TRUE, "young reference swept")
                          ELSE FirstMishap(Swept \cap Range(rs) # {}, "remembered object swept")
        BY DEF Major
    <1>5. pc' \in {"run", "undefined"}
        BY <1>4
    <1>6. /\ Swept \subseteq Old /\ Old \subseteq Objects /\ Young \subseteq Objects
          /\ DOMAIN AfterMajor = Objects \ Swept
          /\ \A a \in DOMAIN AfterMajor : AfterMajor[a] = object[a]
        BY <1>2, KeptFacts
    <1>7. /\ DOMAIN object' = Objects' /\ Objects' \subseteq Objects
          /\ \A a \in Objects' : object'[a] = object[a]
          /\ Objects' = Objects \/ Objects' = Objects \ Swept
        BY <1>4, <1>6 DEF Objects
    <1>8. Memory(object')
        <2> SUFFICES ASSUME NEW a \in DOMAIN object'
                     PROVE  /\ a \in Address /\ object'[a] \in Records
                            /\ object'[a].field \in [1..object'[a].clss.num_fields -> Pointer]
                            /\ Placed(a, object'[a].clss.size) /\ Aged(a, object'[a])
            BY MemoryByHeader
        <2>1. a \in Objects /\ object'[a] = object[a]
            BY <1>7
        <2> QED
            BY <1>2, <2>1, ObjectFacts
    <1>9. old_next_free' \in Cell \cup {Nil}
        <2>1. old_next_free \in Cell \cup {Nil}
            BY <1>2 DEF Registers
        <2>2. ASSUME Swept # {}
              PROVE  Min({n \in Cell : Data(n) \in Swept}) \in Cell
            <3> DEFINE T == {n \in Cell : Data(n) \in Swept}
            <3>1. PICK a \in Swept : TRUE
                BY <2>2
            <3>2. a \in Objects /\ a >= old
                BY <1>2, <1>6, <3>1, ObjectFacts
            <3>3. PICK n \in Cell : a = Data(n)
                <4>1. Placed(a, object[a].clss.size) /\ a \in Nat /\ old \in Nat
                    BY <1>2, <3>2, ObjectFacts, Sizes
                <4>2. ~(a < old)
                    BY <3>2, <4>1
                <4> QED
                    BY <4>1, <4>2 DEF Placed
            <3>4. T \in SUBSET Cell /\ T # {}
                BY <3>1, <3>3
            <3>5. Min(T) \in T
                BY <3>4, Extremes
            <3> QED
                BY <3>5
        <2> QED
            BY <1>4, <2>1, <2>2 DEF NextFreeAfterMajor
    <1>10. Registers'
        BY <1>1, <1>2, <1>5, <1>9 DEF Registers
    <1>11. Frames' /\ StaysBlocked' /\ ~Collecting' /\ Requests'
        BY <1>1, <1>2, <1>3, <1>5 DEF Frames, StaysBlocked, Collecting, Requests
    <1>12. Typed'
        BY <1>8, <1>10, <1>11 DEF Typed
    <1>13. /\ \A a \in Old' : a \in Old /\ object'[a] = object[a]
           /\ \A a \in Young' : a \in Young /\ object'[a] = object[a]
        BY <1>7 DEF Old, Young
    <1>14. ASSUME Sane'
           PROVE  InTime' /\ Remembers'
        <2>1. Sane /\ (pc' = "run" => Swept \cap Range(rs) = {})
            BY <1>4, <1>14 DEF Sane, FirstMishap
        <2>2. InTime /\ Remembers
            BY <2>1 DEF IInv
        <2>3. \A a : ToSpace(a)' <=> ToSpace(a)
            BY <1>1 DEF ToSpace, new_to
        <2>4. InTime'
            BY <1>1, <1>11, <1>13, <2>2, <2>3 DEF InTime
        <2>5. Range(rs) \subseteq Old'
            <3> SUFFICES ASSUME NEW a \in Range(rs)
                         PROVE  a \in Old'
                OBVIOUS
            <3>1. a \in Old
                BY <2>2 DEF Remembers
            <3>2. a \in Objects'
                <4>1. a \in Objects
                    BY <1>6, <3>1
                <4>2. CASE pc' = "run"
                    BY <1>7, <2>1, <4>1, <4>2
                <4>3. CASE pc' = "undefined"
                    BY <1>4, <4>1, <4>3 DEF Objects
                <4> QED
                    BY <1>5, <4>2, <4>3
            <3> QED
                BY <3>1, <3>2 DEF Old, Young
        <2>6. Remembers'
            BY <1>1, <1>5, <1>13, <2>2, <2>5 DEF Remembers
        <2> QED
            BY <2>4, <2>6
    <1>15. OldFullOnlyWhenReachable'
        BY <1>5 DEF OldFullOnlyWhenReachable
    <1> QED
        BY <1>12, <1>14, <1>15 DEF IInv

\* Whether a call of new_copy() can go on depends on what it does not change before.
LEMMA SameCall ==
    ASSUME UNCHANGED <<object, space, next_forwarding_offset, old_next_free, roots>>
    PROVE  Marked' = Marked /\ \A q : Blocked(q)' <=> Blocked(q)
    <1>1. /\ object' = object /\ next_free_offset' = next_free_offset /\ new_from' = new_from
          /\ next_forwarding_offset' = next_forwarding_offset
          /\ old_next_free' = old_next_free /\ roots' = roots
        BY DEF space
    <1>2. Objects' = Objects /\ Old' = Old
        BY <1>1, SameMemory
    <1>3. OldField' = OldField
        BY <1>1, <1>2 DEF OldField
    <1>4. Marked' = Marked
        BY <1>1, <1>2, <1>3 DEF Marked
    <1>5. Swept' = Swept /\ AfterMajor' = AfterMajor
        BY <1>1, <1>2, <1>4 DEF Swept, AfterMajor
    <1>6. MarkCrashes' <=> MarkCrashes
        BY <1>1, <1>2, <1>4 DEF MarkCrashes
    <1>7. (MustSearch' <=> MustSearch) /\ (MustSweep' <=> MustSweep)
        BY <1>1, <1>2 DEF MustSearch, MustSweep, Idle
    <1>8. Kept' = Kept
        BY <1>1, <1>5, <1>7 DEF Kept
    <1>9. ASSUME NEW q
          PROVE  Blocked(q)' <=> Blocked(q)
        <2>1. (ToSurvivor(q)' <=> ToSurvivor(q)) /\ (ToOld(q)' <=> ToOld(q))
            BY <1>1, <1>2 DEF ToSurvivor, ToOld, IsNew
        <2>2. (CopyAborts(q)' <=> CopyAborts(q)) /\ (NoRoom(q)' <=> NoRoom(q))
            BY <1>1, <2>1 DEF CopyAborts, NoRoom, Size
        <2>3. CopyUndefined(q)' <=> CopyUndefined(q)
            BY <1>1, <1>2, <1>5, <1>6, <1>7, <2>1, <2>2 DEF CopyUndefined, Size
        <2>4. OldIsFull(q)' <=> OldIsFull(q)
            BY <1>7, <1>8, <2>1 DEF OldIsFull, Idle
        <2> QED
            BY <2>2, <2>3, <2>4 DEF Blocked
    <1> QED
        BY <1>4, <1>9

\* When old_malloc() gives up, the mark phase has reached the object of each cell.
LEMMA FullIsMarked ==
    ASSUME Memory(object), NEW q, OldIsFull(q)
    PROVE  Marked = {Data(n) : n \in Cell}
    <1>1. MustSearch /\ Idle(DOMAIN Kept) = {}
        BY DEF OldIsFull
    <1>2. MustSweep
        <2>1. CASE ~MustSweep
            <3>1. DOMAIN Kept = Objects
                BY <2>1, KeptFacts
            <3> QED
                BY <1>1, <3>1 DEF MustSweep
        <2> QED
            BY <2>1
    <1>3. DOMAIN Kept = Objects \ Swept
        BY <1>2, KeptFacts
    <1>4. ASSUME NEW n \in Cell
          PROVE  Data(n) \in Marked
        <2>1. Data(n) \in Objects /\ Data(n) \notin Swept
            BY <1>1, <1>3 DEF Idle
        <2>2. Data(n) >= old
            BY CellFacts
        <2>3. Data(n) \in Old
            BY <2>1, <2>2, ObjectFacts
        <2> QED
            BY <2>1, <2>3 DEF Swept
    <1>5. ASSUME NEW a \in Marked
          PROVE  \E n \in Cell : a = Data(n)
        <2>1. a \in Objects /\ a \in Old
            BY DEF Marked, Reachable, Old
        <2>2. Placed(a, object[a].clss.size) /\ a \in Nat /\ a >= old
            BY <2>1, ObjectFacts
        <2>3. ~(a < old)
            BY <2>2, Sizes
        <2> QED
            BY <2>2, <2>3 DEF Placed
    <1> QED
        BY <1>4, <1>5

\* The end of the program in a collection, and the end of a run: nothing moves.
LEMMA StopKeeps ==
    ASSUME IInv,
           UNCHANGED <<object, space, next_forwarding_offset, old_next_free, rs, roots, call,
                       loops>>,
           \/ pc' = pc
           \/ /\ pc' \in {"abort", "undefined", "old full"}
              /\ stack # <<>> => /\ Top.i \in DOMAIN object[Top.obj].field
                                 /\ Blocked(object[Top.obj].field[Top.i])
              /\ pc' = "old full" => Marked = {Data(n) : n \in Cell},
           Sane' => Sane
    PROVE  IInv'
    <1>1. /\ next_free_offset' = next_free_offset /\ new_from' = new_from
          /\ next_forwarding_offset' = next_forwarding_offset
          /\ old_next_free' = old_next_free /\ rs' = rs /\ stack' = stack
          /\ object' = object /\ roots' = roots /\ request' = request
          /\ collections' = collections /\ ri' = ri /\ fi' = fi
          /\ has_new_obj' = has_new_obj /\ p' = p
        BY DEF space, call, loops, record
    <1>2. Typed /\ Memory(object) /\ Registers
        BY DEF IInv, Typed
    <1>3. Registers'
        BY <1>1, <1>2 DEF Registers
    <1>4. Frames'
        BY <1>1, <1>2, SameMemory DEF Typed, Frames
    <1>5. Marked' = Marked /\ \A q : Blocked(q)' <=> Blocked(q)
        BY SameCall
    <1>6. Requests'
        BY <1>1, <1>2, SameMemory DEF Typed, Requests
    <1>7. new_to' = new_to /\ forwarding' = forwarding
        BY <1>1 DEF new_to, forwarding
    <1>8. Starts' = Starts /\ \A a : ToSpace(a)' <=> ToSpace(a)
        BY <1>1, <1>7, SameMemory DEF Starts, ToSpace
    <1>9. CopiesInOrder /\ pc' = pc => CopiesInOrder'
        BY <1>1, <1>7, <1>8, SameMemory DEF CopiesInOrder, Size
    <1>10. StaysBlocked'
        <2>1. ASSUME stack # <<>>, ~Collecting'
              PROVE  /\ Top.i \in DOMAIN object[Top.obj].field
                     /\ Blocked(object[Top.obj].field[Top.i])
            BY <1>2, <2>1 DEF Typed, StaysBlocked, Collecting
        <2>2. Top' = Top
            BY <1>1 DEF Top
        <2>3. PICK t : t = Top
            OBVIOUS
        <2>4. PICK q : q = object[t.obj].field[t.i]
            OBVIOUS
        <2>5. stack' # <<>> /\ ~Collecting' => t.i \in DOMAIN object[t.obj].field /\ Blocked(q)
            BY <1>1, <2>1, <2>3, <2>4
        <2>6. Blocked(q)' <=> Blocked(q)
            BY <1>5
        <2> QED
            BY <1>1, <2>2, <2>3, <2>4, <2>5, <2>6 DEF StaysBlocked
    <1>11. Typed'
        BY <1>1, <1>2, <1>3, <1>4, <1>6, <1>9, <1>10 DEF Typed, Collecting
    <1>12. InTime => InTime'
        BY <1>1, <1>8, SameMemory DEF InTime, Collecting
    <1>13. Remembers => Remembers'
        BY <1>1, SameMemory DEF Remembers
    <1>14. OldFullOnlyWhenReachable'
        BY <1>5 DEF OldFullOnlyWhenReachable, IInv
    <1> QED
        BY <1>11, <1>12, <1>13, <1>14 DEF IInv

LEMMA CollectionStopsKeeps ==
    ASSUME IInv, CollectionStops
    PROVE  IInv'
    <1>1. UNCHANGED <<object, space, next_forwarding_offset, old_next_free, rs, roots, call, loops>>
        BY DEF CollectionStops
    <1>2. pc' \in {"abort", "undefined", "old full"}
        BY DEF CollectionStops
    <1>3. ASSUME stack # <<>>
          PROVE  Top.i \in DOMAIN object[Top.obj].field /\ Blocked(object[Top.obj].field[Top.i])
        <2>1. \E q \in NextCall : Blocked(q)
            BY <1>3 DEF CollectionStops, Blocked
        <2> QED
            BY <1>3, <2>1 DEF NextCall
    <1>4. ASSUME pc' = "old full"
          PROVE  Marked = {Data(n) : n \in Cell}
        <2>1. \E q \in NextCall : OldIsFull(q)
            BY <1>4 DEF CollectionStops
        <2> QED
            BY <2>1, FullIsMarked DEF IInv, Typed
    <1>5. Sane' => Sane
        BY DEF CollectionStops, FirstMishap, Sane
    <1> QED
        BY <1>1, <1>2, <1>3, <1>4, <1>5, StopKeeps

\* A step that changes nothing.
LEMMA StutterKeeps ==
    ASSUME IInv, UNCHANGED vars
    PROVE  IInv'
    <1>1. UNCHANGED <<object, space, next_forwarding_offset, old_next_free, rs, roots, call, loops>>
        BY DEF vars, copying, loops
    <1>2. pc' = pc /\ mishap' = mishap
        BY DEF vars, copying
    <1> QED
        BY <1>1, <1>2, StopKeeps DEF Sane

--------------------------------------------------------------------------------
(* The theorems on types, the remembered set and promotion.                *)

LEMMA IInvInit == Init => IInv
    <1> SUFFICES ASSUME Init PROVE IInv
        OBVIOUS
    <1>1. Objects = {} /\ DOMAIN object = {} /\ Young = {} /\ Old = {}
        BY DEF Init, Objects, Young, Old
    <1>2. pc = "run" /\ stack = <<>> /\ rs = <<>> /\ roots = <<>> /\ request = NoRequest
        BY DEF Init
    <1>3. <<>> \in Seq(Pointer) /\ Len(<<>>) = 0 /\ <<>> \in Seq(Frame) /\ DOMAIN <<>> = {}
        BY EmptySeq
    <1>4. Memory(object)
        BY <1>1 DEF Memory
    <1>5. Registers
        <2>1. 0 \in 0..eden_size /\ 0 \in 0..survivor_size /\ 0 \in 0..MaxCollections
              /\ 1 \in 1..(MAX_ROOTS + 1) /\ 0 <= MAX_ROOTS /\ free_list_size \in Cell
            BY Sizes DEF Cell
        <2>2. FALSE \in BOOLEAN
            OBVIOUS
        <2>3. /\ next_free_offset = 0 /\ next_forwarding_offset = 0 /\ p = 0 /\ ri = 1
              /\ fi = 1 /\ collections = 0 /\ old_next_free = free_list_size
              /\ new_from = survivor1
            BY DEF Init, old_head
        <2>4. has_new_obj = FALSE
            BY DEF Init
        <2>5. has_new_obj \in BOOLEAN
            BY <2>2, <2>4, Zenon
        <2>6. /\ roots \in Seq(Pointer) /\ Len(roots) <= MAX_ROOTS
              /\ rs \in Seq(Pointer) /\ Len(rs) <= MAX_ROOTS
            BY <1>2, <1>3, <2>1
        <2>7. fi \in Nat \ {0} /\ old_next_free \in Cell \cup {Nil}
            BY <2>1, <2>3
        <2> QED
            BY <1>2, <2>1, <2>3, <2>5, <2>6, <2>7 DEF Registers
    <1>6. Frames /\ StaysBlocked /\ Requests /\ ~Collecting
        BY <1>2, <1>3 DEF Frames, StaysBlocked, Requests, Collecting
    <1>7. InTime /\ Remembers /\ OldFullOnlyWhenReachable
        <2>1. Range(rs) = {}
            BY <1>2, <1>3 DEF Range
        <2> QED
            BY <1>1, <1>2, <1>6, <2>1 DEF InTime, Remembers, OldFullOnlyWhenReachable
    <1> QED
        BY <1>4, <1>5, <1>6, <1>7 DEF IInv, Typed

LEMMA IInvStep == IInv /\ [Next]_vars => IInv'
    <1> SUFFICES ASSUME IInv, [Next]_vars
                 PROVE  IInv'
        OBVIOUS
    <1>1. CASE Client
        BY <1>1, AddRootKeeps, RestoreRootsKeeps, StoreKeeps, CollectNowKeeps, AllocKeeps
        DEF Client
    <1>2. CASE AllocAgain
        BY <1>2, AllocAgainKeeps
    <1>3. CASE Copy
        BY <1>3, CopyRootKeeps, SkipRootKeeps, RootsDoneKeeps, CopyFieldKeeps, CopyReturnKeeps,
           CollectionStopsKeeps DEF Copy
    <1>4. CASE Remembered
        BY <1>4, RecordedFieldKeeps, NextRecordKeeps, RecordsDoneKeeps DEF Remembered
    <1>5. CASE AdjustRefs
        BY <1>5, AdjustKeeps, AdjustDoneKeeps DEF AdjustRefs
    <1>6. CASE Major
        BY <1>6, MajorKeeps
    <1>7. CASE Ended
        BY <1>7, StutterKeeps DEF Ended
    <1>8. CASE UNCHANGED vars
        BY <1>8, StutterKeeps
    <1> QED
        BY <1>1, <1>2, <1>3, <1>4, <1>5, <1>6, <1>7, <1>8 DEF Next

LEMMA Invariance == Spec => []IInv
    BY IInvInit, IInvStep, PTL DEF Spec

\* Every variable has its type: no object lies across two of the spaces or outside
\* a cell, however the copies, the promotions and the sweeps of the old generation
\* mix, and no loop runs over the end of its table.
THEOREM TypeCorrect == Spec => []TypeOK
    <1>1. ASSUME IInv
          PROVE  TypeOK
        <2>1. Memory(object) /\ Registers
            BY <1>1 DEF IInv, Typed
        <2>2. \A a \in Objects : a \in Address /\ Header(object[a])
            BY <2>1 DEF Memory, Objects
        <2>3. ASSUME NEW a \in Young
              PROVE  \E area \in {<<new_eden, eden_size>>, <<survivor1, survivor_size>>,
                                  <<survivor2, survivor_size>>} :
                        area[1] <= a /\ a + Size(a) <= area[1] + area[2]
            <3>1. a \in Objects /\ a < old
                BY DEF Young
            <3>2. \/ Inside(a, Size(a), new_eden, eden_size)
                  \/ Inside(a, Size(a), survivor1, survivor_size)
                  \/ Inside(a, Size(a), survivor2, survivor_size)
                BY <2>1, <3>1, ObjectFacts DEF Placed
            <3> QED
                BY <3>2 DEF Inside
        <2>4. Old \subseteq {Data(n) : n \in Cell}
            <3> SUFFICES ASSUME NEW a \in Old
                         PROVE  \E n \in Cell : a = Data(n)
                OBVIOUS
            <3>1. a \in Objects /\ ~(a < old)
                BY DEF Old, Young
            <3> QED
                BY <2>1, <3>1, ObjectFacts DEF Placed
        <2>5. fi \in Nat
            BY <2>1 DEF Registers
        <2> QED
            BY <2>1, <2>2, <2>3, <2>4, <2>5 DEF TypeOK, Registers
    <1> QED
        BY <1>1, Invariance, PTL

\* Until something goes wrong an object is promoted by the first collection after it
\* has been copied MAX_AGE times, by no earlier and by no later one.
THEOREM PromotionCorrect == Spec => []PromotedInTime
    <1>1. ASSUME IInv
          PROVE  PromotedInTime
        <2>1. \A a \in Objects : a \notin Young => a \in Old
            BY DEF Old
        <2> QED
            BY <1>1, <2>1 DEF PromotedInTime, IInv, InTime
    <1> QED
        BY <1>1, Invariance, PTL

\* "old full" is not said too early: new_copy() gives up only when a chain of old
\* objects leads from a root to the object in each cell.
THEOREM FullCorrect == Spec => []OldFullOnlyWhenReachable
    BY Invariance, PTL DEF IInv

--------------------------------------------------------------------------------
(* The remembered set after a mishap.                                      *)

\* The fields of o that hold the address of something young, live or not.
Aims(o) == {k \in DOMAIN o.field : o.field[k] # Nil /\ o.field[k] < old}

OldRecorded == \A a \in Objects : a >= old /\ Aims(object[a]) # {} => a \in Range(rs)

\* What has_new_obj tells of the entry minor_gc() is at.
Seen ==
    pc = "remembered" /\ ri <= Len(rs) /\ rs[ri] \in Objects /\ rs[ri] >= old =>
        \A k \in Aims(object[rs[ri]]) : k < fi => has_new_obj

\* The ways in which an entry may be missing: the NULL that ends the program, and
\* write_barrier's.
NullEntry == pc = "remembered" /\ stack = <<>> /\ ri <= Len(rs) /\ rs[ri] = Nil
OnlyOverlooked ==
    /\ pc = "run" /\ mishap = "reference not recorded"
    /\ \A a \in Objects :
        a >= old => a \in Range(rs) \/ \A k \in Aims(object[a]) : Overlooked(object[a].field[k])

\* How the program may have ended.
Over == pc \in {"abort", "old full", "undefined"}

Owes == Over \/ NullEntry \/ OnlyOverlooked \/ (OldRecorded /\ Seen)

\* No old object of n refers to something young in a field in which it does not in m.
NothingNew(n, m) ==
    \A a \in DOMAIN n :
        a >= old => Aims(n[a]) = {} \/ (a \in DOMAIN m /\ Aims(n[a]) \subseteq Aims(m[a]))

LEMMA NothingNewIfSame ==
    ASSUME NEW m, NEW n, DOMAIN n \subseteq DOMAIN m,
           \A a \in DOMAIN n : a >= old => n[a].field = m[a].field
    PROVE  NothingNew(n, m)
    BY DEF NothingNew, Aims

\* The set stays complete in a step that adds nothing to record and drops no record,
\* and that goes on with the entry it is at or starts with another one.
LEMMA StaysRecorded ==
    ASSUME Typed', OldRecorded, Seen, NothingNew(object', object), rs' = rs,
           pc' = "remembered" => fi' = 1 \/ UNCHANGED <<pc, ri, fi, has_new_obj>>
    PROVE  Owes'
    <1>1. Objects = DOMAIN object /\ Objects' = DOMAIN object'
        BY DEF Objects
    <1>2. OldRecorded'
        <2> SUFFICES ASSUME NEW a \in DOMAIN object', a >= old, Aims(object'[a]) # {}
                     PROVE  a \in Range(rs)
            BY <1>1 DEF OldRecorded
        <2>1. a \in Objects /\ Aims(object[a]) # {}
            BY <1>1 DEF NothingNew
        <2> QED
            BY <2>1 DEF OldRecorded
    <1>3. Seen'
        <2> SUFFICES ASSUME pc' = "remembered", ri' <= Len(rs), rs[ri'] \in DOMAIN object',
                            rs[ri'] >= old, NEW k \in Aims(object'[rs[ri']]), k < fi'
                     PROVE  has_new_obj'
            BY <1>1 DEF Seen
        <2>1. CASE fi' = 1
            <3>1. object'[rs[ri']].field \in [1..object'[rs[ri']].clss.num_fields -> Pointer]
                  /\ object'[rs[ri']].clss.num_fields \in Nat
                BY MemoryFacts DEF Typed
            <3>2. k \in 1..object'[rs[ri']].clss.num_fields
                BY <3>1 DEF Aims
            <3> QED
                BY <2>1, <3>1, <3>2
        <2>2. CASE UNCHANGED <<pc, ri, fi, has_new_obj>>
            <3>1. rs[ri'] \in Objects /\ k \in Aims(object[rs[ri']])
                BY <1>1 DEF NothingNew
            <3> QED
                BY <2>2, <3>1 DEF Seen
        <2> QED
            BY <2>1, <2>2
    <1> QED
        BY <1>2, <1>3 DEF Owes

\* A call of new_copy() changes no field of an old object: what it promotes gets
\* NULL in all of them (old_malloc).
LEMMA CallAddsNothing ==
    ASSUME Typed, CopiesInOrder, NEW q, NEW fs, Call(q, fs)
    PROVE  NothingNew(After(q), object) /\ rs' = rs
    <1>1. ~Blocked(q) /\ Memory(object) /\ Registers
        BY DEF Call, Blocked, Typed
    <1>2. DOMAIN object = Objects
        BY DEF Objects
    <1>3. CASE ToSurvivor(q)
        <2>1. After(q) = Copied(q) /\ rs' = rs
            BY <1>3 DEF After, Call, ToOld
        <2>2. q \in Objects /\ forwarding < old /\ q \in Nat /\ old \in Nat /\ forwarding \in Nat
            <3>1. q \in Objects /\ next_forwarding_offset + Size(q) <= survivor_size
                BY <1>1, <1>3, CallArgument
            <3>2. Size(q) \in Nat /\ Size(q) >= 32 /\ q \in Nat
                BY <1>1, <3>1, ObjectFacts
            <3>3. /\ new_to \in Nat /\ new_to + survivor_size <= old /\ old \in Nat
                  /\ next_forwarding_offset \in Nat /\ forwarding = new_to + next_forwarding_offset
                  /\ survivor_size \in Nat
                BY <1>1, SpaceFacts, Sizes
            <3>4. next_forwarding_offset < survivor_size
                BY <3>1, <3>2, <3>3
            <3> QED
                BY <3>1, <3>2, <3>3, <3>4
        <2>3. DOMAIN Copied(q) = Objects \cup {forwarding}
            BY DEF Copied
        <2>4. ASSUME NEW a \in Objects \cup {forwarding}, a >= old
              PROVE  a \in Objects /\ Copied(q)[a].field = object[a].field
            <3>1. a # forwarding
                BY <2>2, <2>4
            <3>2. a \in Objects /\ object[a] \in Records
                BY <1>1, <2>4, <3>1, ObjectFacts
            <3>3. Copied(q)[a] = IF a = q
                                 THEN [[object[q] EXCEPT !.age = @ + 1] EXCEPT
                                            !.forwarded = TRUE, !.forwarding = forwarding]
                                 ELSE object[a]
                BY <3>1, <3>2 DEF Copied
            <3> QED
                BY <3>2, <3>3 DEF Records
        <2>5. NothingNew(Copied(q), object)
            BY <1>2, <2>3, <2>4 DEF NothingNew, Aims
        <2> QED
            BY <2>1, <2>5
    <1>4. CASE ToOld(q)
        <2> DEFINE c == Data(NewCell)
        <2>1. After(q) = Promoted(q)
            BY <1>4 DEF After, ToOld
        <2>2. /\ DOMAIN Promoted(q) = DOMAIN Kept \cup {c} /\ q \in DOMAIN Kept
              /\ Promoted(q)[q] = [object[q] EXCEPT !.forwarded = TRUE, !.forwarding = c]
              /\ Promoted(q)[c] = [object[q] EXCEPT !.forwarded = FALSE,
                                        !.field = NullFields(object[q].clss.num_fields)]
              /\ \A a \in DOMAIN Kept \ {q} : Promoted(q)[a] = object[a]
              /\ ~RefersToYoung(Cell0(q))
            BY <1>1, <1>4, PromotedMemory
        <2>3. rs' = rs
            BY <2>2 DEF Call
        <2>4. DOMAIN Kept \subseteq Objects
            BY <1>1, KeptFacts
        <2>5. object[q] \in Records
            BY <1>1, <2>2, <2>4, ObjectFacts
        <2>6. Aims(Promoted(q)[c]) = {}
            <3>1. Promoted(q)[c].field = NullFields(object[q].clss.num_fields)
                BY <2>2, <2>5 DEF Records
            <3> QED
                BY <3>1 DEF Aims, NullFields
        <2>7. ASSUME NEW a \in DOMAIN Kept
              PROVE  Promoted(q)[a].field = object[a].field
            <3>1. CASE a = q
                BY <2>2, <2>5, <3>1 DEF Records
            <3>2. CASE a # q
                BY <2>2, <3>2
            <3> QED
                BY <3>1, <3>2
        <2> HIDE DEF c
        <2>8. NothingNew(Promoted(q), object)
            BY <1>2, <2>2, <2>4, <2>6, <2>7 DEF NothingNew, Aims
        <2> QED
            BY <2>1, <2>3, <2>8
    <1>5. CASE ~ToSurvivor(q) /\ ~ToOld(q)
        <2>1. After(q) = object /\ rs' = rs
            BY <1>5 DEF After, Call
        <2>2. NothingNew(object, object)
            BY NothingNewIfSame
        <2> QED
            BY <2>1, <2>2
    <1> QED
        BY <1>3, <1>4, <1>5

\* Once the program has ended it stays so, and a NULL in the set ends it.
LEMMA EndIsFinal ==
    ASSUME Typed, Over \/ NullEntry, Next
    PROVE  Over' \/ UNCHANGED vars
    <1>1. /\ Frames /\ StaysBlocked /\ Registers /\ Memory(object)
          /\ ri \in Nat \ {0} /\ Len(rs) \in Nat
        BY IndexFacts DEF Typed
    <1>2. ASSUME Over
          PROVE  ~CopyField /\ ~CopyReturn
        <2>1. ~Collecting
            BY <1>2 DEF Over, Collecting
        <2> QED
            BY <1>1, <2>1 DEF StaysBlocked, CopyField, CopyReturn, Call, Blocked
    <1>3. ASSUME NullEntry
          PROVE  ~AtRecord /\ stack = <<>> /\ ~RecordsDone
        <2>1. old_root \notin Objects
            BY <1>1, <1>3, ObjectFacts DEF NullEntry, old_root
        <2> QED
            BY <1>1, <1>3, <2>1 DEF NullEntry, AtRecord, RecordsDone
    <1>4. ~CopyField /\ ~CopyReturn /\ ~RecordedField /\ ~NextRecord /\ ~RecordsDone
        BY <1>2, <1>3 DEF Over, CopyField, CopyReturn, RecordedField, NextRecord, AtRecordField,
           AtRecord, RecordsDone
    <1>5. pc \in {"abort", "old full", "undefined", "remembered"}
        BY DEF Over, NullEntry
    <1>6. CollectionStops \/ Ended
        BY <1>4, <1>5 DEF Next, Client, AddRoot, RestoreRoots, gc_update_ptr, CollectNow, gc_alloc,
           ClientRuns, AllocAgain, Copy, CopyRoot, SkipRoot, RootsDone, Remembered, AdjustRefs,
           Adjust, AdjustDone, Major
    <1> QED
        BY <1>6 DEF CollectionStops, Ended, Over

\* The client makes no call after a reference that is not recorded.
LEMMA OverlookedIsFinal ==
    ASSUME Typed, OnlyOverlooked, Next
    PROVE  UNCHANGED vars
    <1>1. pc = "run" /\ ~ClientRuns /\ stack = <<>>
        BY DEF OnlyOverlooked, ClientRuns, Typed, Frames
    <1>2. NextCall = {}
        BY <1>1 DEF NextCall, AtRecordField, AtRecord
    <1> QED
        BY <1>1, <1>2 DEF Next, Client, AddRoot, RestoreRoots, gc_update_ptr, CollectNow, gc_alloc,
           AllocAgain, Copy, CopyRoot, SkipRoot, RootsDone, CopyField, CopyReturn, CollectionStops,
           Remembered, RecordedField, NextRecord, AtRecordField, AtRecord, RecordsDone,
           AdjustRefs, Adjust, AdjustDone, Major, Ended

\* write_barrier records the object, or overlooks the reference.
LEMMA StoreRecorded ==
    ASSUME Typed, Typed', OldRecorded, gc_update_ptr
    PROVE  Owes'
    <1>1. pc = "run" /\ mishap = "none" /\ Memory(object) /\ Registers
        BY DEF gc_update_ptr, ClientRuns, Typed
    <1>2. PICK obj \in Usable, new_obj \in Usable \cup {Nil} : \E i \in DOMAIN object[obj].field :
            /\ object' = [object EXCEPT ![obj].field[i] = new_obj]
            /\ IF Recorded(obj, new_obj)
               THEN IF Len(rs) < MAX_ROOTS
                    THEN rs' = Append(rs, obj) /\ UNCHANGED <<pc, mishap>>
                    ELSE /\ pc' = "undefined"
                         /\ mishap' = FirstMishap(TRUE, "_rs overflows")
                         /\ UNCHANGED rs
               ELSE /\ mishap' = FirstMishap(obj >= old /\ Overlooked(new_obj),
                                             "reference not recorded")
                    /\ UNCHANGED <<rs, pc>>
        BY DEF gc_update_ptr
    <1>3. PICK i \in DOMAIN object[obj].field :
            object' = [object EXCEPT ![obj].field[i] = new_obj]
        BY <1>2
    <1>4. \/ Recorded(obj, new_obj) /\ rs' = Append(rs, obj) /\ pc' = "run"
          \/ pc' = "undefined"
          \/ /\ ~Recorded(obj, new_obj) /\ rs' = rs /\ pc' = "run"
             /\ obj >= old /\ Overlooked(new_obj) => mishap' = "reference not recorded"
        BY <1>1, <1>2 DEF FirstMishap
    <1>5. obj \in Objects /\ new_obj \in Pointer /\ object[obj] \in Records
          /\ object[obj].remembered = FALSE
        BY <1>1, UsableFacts, ObjectFacts DEF Typed
    <1>6. DOMAIN object = Objects /\ DOMAIN object' = Objects /\ Objects' = Objects
        BY <1>3 DEF Objects
    <1>7. \A a \in Objects \ {obj} : object'[a] = object[a]
        BY <1>3, <1>6
    <1>8. \A k \in Aims(object'[obj]) :
            \/ k \in Aims(object[obj])
            \/ object'[obj].field[k] = new_obj /\ new_obj # Nil /\ new_obj < old
        <2>1. object'[obj] = [object[obj] EXCEPT !.field[i] = new_obj]
            BY <1>3, <1>5, <1>6
        <2>2. object'[obj].field = [object[obj].field EXCEPT ![i] = new_obj]
            BY <1>5, <2>1 DEF Records
        <2> QED
            BY <2>2 DEF Aims
    <1>9. Seen' \/ Over'
        BY <1>4 DEF Seen, Over
    <1>10. CASE Recorded(obj, new_obj) /\ rs' = Append(rs, obj)
        <2>1. rs \in Seq(Pointer) /\ obj \in Pointer
            BY <1>1, <1>5, ObjectFacts, AddressFacts DEF Registers
        <2>2. Range(rs') = Range(rs) \cup {obj}
            BY <1>10, <2>1, RangeOfAppend
        <2>3. OldRecorded'
            BY <1>6, <1>7, <2>2 DEF OldRecorded
        <2> QED
            BY <1>9, <2>3 DEF Owes
    <1>11. CASE /\ ~Recorded(obj, new_obj) /\ rs' = rs /\ pc' = "run"
                /\ obj >= old /\ Overlooked(new_obj) => mishap' = "reference not recorded"
        <2>1. CASE obj >= old /\ Overlooked(new_obj)
            <3>1. \A k \in Aims(object'[obj]) :
                    k \in Aims(object[obj]) \/ object'[obj].field[k] = new_obj
                BY <1>8
            <3>2. OnlyOverlooked'
                BY <1>5, <1>6, <1>7, <1>11, <2>1, <3>1 DEF OnlyOverlooked, OldRecorded,
                   Overlooked, TakenForYoung
            <3> QED
                BY <3>2 DEF Owes
        <2>2. CASE ~(obj >= old /\ Overlooked(new_obj))
            <3>1. obj >= old => ~(new_obj < old)
                BY <1>5, <1>11, <2>2 DEF Recorded, Overlooked
            <3>2. obj >= old => Aims(object'[obj]) \subseteq Aims(object[obj])
                BY <1>8, <3>1
            <3>3. OldRecorded'
                BY <1>5, <1>6, <1>7, <1>11, <3>2 DEF OldRecorded
            <3> QED
                BY <1>9, <3>3 DEF Owes
        <2> QED
            BY <2>1, <2>2
    <1> QED
        BY <1>4, <1>10, <1>11 DEF Owes, Over

\* A new object is young, and so is one whose references are adjusted.
LEMMA PlaceAddsNothing ==
    ASSUME Typed, NEW clss \in Class, Fits(clss), Place(clss)
    PROVE  NothingNew(object', object)
    <1>1. clss.size \in Nat /\ clss.size >= 32
        BY ClassAssumption DEF HEADER_SIZE
    <1>2. next_free_offset \in Nat /\ next_free_offset + clss.size <= eden_size
        <2>1. next_free_offset \in 0..eden_size
            BY DEF Typed, Registers
        <2> QED
            BY <2>1, Sizes DEF Fits
    <1>3. ~(new_eden + next_free_offset >= old)
        <2>1. new_eden = 1 /\ eden_size \in Nat /\ old \in Nat /\ 1 + eden_size <= old
            BY Sizes
        <2> QED
            BY <1>1, <1>2, <2>1
    <1>4. DOMAIN object = Objects
        BY DEF Objects
    <1>5. /\ DOMAIN object' = Objects \cup {new_eden + next_free_offset}
          /\ \A a \in Objects : object'[a] = object[a]
        BY DEF Place
    <1> QED
        BY <1>3, <1>4, <1>5 DEF NothingNew

LEMMA AdjustAddsNothing ==
    ASSUME Typed, Adjust
    PROVE  NothingNew(object', object)
    <1>1. PICK a : a = new_to + p
        OBVIOUS
    <1>2. p < next_forwarding_offset /\ object' = [object EXCEPT ![a].field = Adjusted(@)]
        BY <1>1 DEF Adjust
    <1>3. p \in Nat /\ Registers
        <2>1. Registers /\ p \in 0..survivor_size
            BY DEF Typed, Registers
        <2> QED
            BY <2>1, Sizes
    <1>4. ~(a >= old)
        <2>1. /\ new_to \in Nat /\ new_to + survivor_size <= old /\ old \in Nat
              /\ next_forwarding_offset \in Nat /\ next_forwarding_offset <= survivor_size
              /\ survivor_size \in Nat
            BY <1>3, SpaceFacts, Sizes
        <2> QED
            BY <1>1, <1>2, <1>3, <2>1
    <1>5. DOMAIN object' = DOMAIN object /\ \A b \in DOMAIN object : b # a => object'[b] = object[b]
        BY <1>2
    <1> QED
        BY <1>4, <1>5 DEF NothingNew

\* A field of a recorded object: only its own fields change.
LEMMA FieldRecorded ==
    ASSUME Typed, Typed', OldRecorded, Seen, RecordedField
    PROVE  Owes'
    <1>1. /\ AtRecordField /\ pc = "remembered" /\ pc' = pc /\ ri' = ri /\ fi' = fi + 1
          /\ ri <= Len(rs) /\ rs[ri] \in Objects
        BY DEF RecordedField, AtRecordField, AtRecord, old_root
    <1>2. PICK b : b = rs[ri]
        OBVIOUS
    <1>3. PICK q : q = object[b].field[fi]
        OBVIOUS
    <1>4. \/ /\ q < old /\ Call(q, <<>>) /\ has_new_obj' = (has_new_obj \/ Result(q) < old)
             /\ object' = [After(q) EXCEPT ![b].field[fi] = Result(q)]
          \/ ~(q < old) /\ object' = object /\ rs' = rs /\ has_new_obj' = has_new_obj
        BY <1>2, <1>3 DEF RecordedField, old_root, copying
    <1>5. CopiesInOrder /\ Registers /\ Memory(object) /\ Memory(object')
        BY <1>1 DEF Typed, Collecting
    <1>6. ri \in DOMAIN rs /\ fi \in Nat \ {0}
        <2>1. ri \in Nat \ {0} /\ Len(rs) \in Nat /\ DOMAIN rs = 1..Len(rs) /\ fi \in Nat \ {0}
            BY <1>5, IndexFacts, LenProperties
        <2> QED
            BY <1>1, <2>1
    <1>7. b \in Range(rs) /\ b \in Objects
        BY <1>1, <1>2, <1>6, Zenon DEF Range
    <1>8. PICK m : /\ m = IF q < old THEN After(q) ELSE object
                   /\ NothingNew(m, object) /\ rs' = rs
        <2>1. CASE q < old
            BY <1>4, <1>5, <2>1, CallAddsNothing
        <2>2. CASE ~(q < old)
            BY <1>4, <2>2, NothingNewIfSame
        <2> QED
            BY <2>1, <2>2
    <1>9. DOMAIN object' = DOMAIN m /\ \A a \in DOMAIN m \ {b} : object'[a] = m[a]
        <2>1. CASE q < old
            BY <1>4, <1>8, <2>1
        <2>2. CASE ~(q < old)
            BY <1>4, <1>8, <2>2
        <2> QED
            BY <2>1, <2>2
    <1>10. OldRecorded'
        <2> SUFFICES ASSUME NEW a \in DOMAIN object', a >= old, Aims(object'[a]) # {}, a # b
                     PROVE  a \in Range(rs)
            BY <1>7, <1>8 DEF OldRecorded, Objects
        <2>1. a \in Objects /\ Aims(object[a]) # {}
            BY <1>8, <1>9 DEF NothingNew, Objects
        <2> QED
            BY <2>1 DEF OldRecorded
    <1>11. Seen'
        <2> SUFFICES ASSUME b \in DOMAIN object', b >= old, NEW k \in Aims(object'[b]), k < fi + 1
                     PROVE  has_new_obj'
            BY <1>1, <1>2, <1>8 DEF Seen, Objects
        <2>1. /\ object'[b].field \in [1..object'[b].clss.num_fields -> Pointer]
              /\ object'[b].clss.num_fields \in Nat
            BY <1>5, MemoryFacts
        <2>2. k \in Int /\ k \in DOMAIN object'[b].field /\ object'[b].field[k] < old
            BY <2>1 DEF Aims
        <2>3. CASE k = fi
            <3>1. CASE q < old
                <4>1. /\ object' = [m EXCEPT ![b].field[fi] = Result(q)] /\ b \in DOMAIN m
                      /\ has_new_obj' = (has_new_obj \/ Result(q) < old)
                    BY <1>4, <1>8, <1>9, <3>1
                <4>2. object'[b].field[k] = Result(q)
                    <5>1. Memory(m)
                        BY <1>4, <1>5, <1>8, <3>1, AfterFacts DEF Call, Blocked
                    <5>2. m[b] \in Records /\ object'[b] = [m[b] EXCEPT !.field[fi] = Result(q)]
                        BY <4>1, <5>1, MemoryFacts
                    <5>3. object'[b].field = [m[b].field EXCEPT ![fi] = Result(q)]
                        BY <5>2 DEF Records
                    <5> QED
                        BY <2>2, <2>3, <5>3
                <4> QED
                    BY <2>2, <4>1, <4>2
            <3>2. CASE ~(q < old)
                BY <1>3, <1>4, <2>2, <2>3, <3>2
            <3> QED
                BY <3>1, <3>2
        <2>4. CASE k # fi
            <3>1. k \in Aims(m[b])
                <4>1. CASE q < old
                    <5>1. Memory(m) /\ object' = [m EXCEPT ![b].field[fi] = Result(q)]
                          /\ b \in DOMAIN m
                        BY <1>4, <1>5, <1>8, <1>9, <4>1, AfterFacts DEF Call, Blocked
                    <5>2. m[b] \in Records /\ object'[b] = [m[b] EXCEPT !.field[fi] = Result(q)]
                        BY <5>1, MemoryFacts
                    <5>3. object'[b].field = [m[b].field EXCEPT ![fi] = Result(q)]
                        BY <5>2 DEF Records
                    <5> QED
                        BY <2>4, <5>3 DEF Aims
                <4>2. CASE ~(q < old)
                    BY <1>4, <1>8, <4>2
                <4> QED
                    BY <4>1, <4>2
            <3>2. k \in Aims(object[b]) /\ k < fi
                BY <1>6, <1>8, <1>9, <2>2, <2>4, <3>1 DEF NothingNew
            <3>3. has_new_obj
                BY <1>1, <1>2, <1>7, <3>2 DEF Seen
            <3> QED
                BY <1>4, <3>3
        <2> QED
            BY <2>3, <2>4
    <1> QED
        BY <1>10, <1>11 DEF Owes

\* An entry that goes has nothing young; another goes with it only for a NULL.
LEMMA NextRecorded ==
    ASSUME Typed, Typed', OldRecorded, Seen, NextRecord
    PROVE  Owes'
    <1>1. PICK b : b = rs[ri]
        OBVIOUS
    <1>2. /\ pc = "remembered" /\ pc' = pc /\ stack = <<>> /\ stack' = <<>> /\ ri <= Len(rs)
          /\ b \in Objects /\ fi \notin DOMAIN object[b].field /\ fi' = 1
          /\ ri' = NextIndex(has_new_obj)
          /\ IF has_new_obj
             THEN object' = object /\ rs' = rs
             ELSE /\ object' = [object EXCEPT ![b].remembered = FALSE]
                  /\ rs' = [i \in 1..(Len(rs) - 1) |-> IF i = ri THEN Nil ELSE rs[i]]
        BY <1>1 DEF NextRecord, AtRecord, old_root
    <1>3. Memory(object) /\ Registers
        BY DEF Typed
    <1>4. /\ ri \in Nat \ {0} /\ fi \in Nat \ {0} /\ rs \in Seq(Pointer) /\ Len(rs) \in Nat
          /\ DOMAIN rs = 1..Len(rs)
        BY <1>3, IndexFacts, LenProperties
    <1>5. DOMAIN object = Objects
        BY DEF Objects
    <1>6. CASE has_new_obj
        <2>1. NothingNew(object', object)
            BY <1>2, <1>6, NothingNewIfSame
        <2> QED
            BY <1>2, <1>6, <2>1, StaysRecorded
    <1>7. CASE ~has_new_obj
        <2>1. PICK n \in Nat : Len(rs) = n + 1 /\ Len(rs) - 1 = n
            <3>1. Len(rs) - 1 \in Nat /\ Len(rs) = (Len(rs) - 1) + 1
                BY <1>2, <1>4
            <3> QED
                BY <3>1
        <2>2. rs' = [i \in 1..n |-> IF i = ri THEN Nil ELSE rs[i]] /\ ri' = ri
            BY <1>2, <1>7, <2>1, Zenon DEF NextIndex
        <2>3. rs' \in Seq(Pointer) /\ Len(rs') = n
            <3>1. rs' \in Seq(Pointer)
                BY DEF Typed, Registers
            <3>2. DOMAIN rs' = 1..n /\ DOMAIN rs' = 1..Len(rs') /\ Len(rs') \in Nat
                BY <2>2, <3>1, LenProperties
            <3> QED
                BY <3>1, <3>2
        <2>4. CASE ri <= n
            <3>1. rs'[ri'] = Nil
                BY <1>4, <2>1, <2>2, <2>4
            <3> QED
                BY <1>2, <2>2, <2>3, <2>4, <3>1 DEF NullEntry, Owes
        <2>5. CASE ~(ri <= n)
            <3>1. ri = n + 1
                BY <1>2, <1>4, <2>1, <2>5
            <3>2. \A i \in 1..n : rs'[i] = rs[i]
                BY <2>2, <3>1
            <3>3. Objects' = Objects /\ \A a \in Objects : object'[a].field = object[a].field
                <4>1. object' = [object EXCEPT ![b].remembered = FALSE] /\ object[b] \in Records
                    BY <1>2, <1>3, <1>7, ObjectFacts
                <4> QED
                    BY <1>5, <4>1 DEF Objects, Records
            <3>4. b >= old => Aims(object[b]) = {}
                <4> SUFFICES ASSUME b >= old, NEW k \in Aims(object[b])
                             PROVE  FALSE
                    OBVIOUS
                <4>1. /\ object[b].field \in [1..object[b].clss.num_fields -> Pointer]
                      /\ object[b].clss.num_fields \in Nat
                    BY <1>2, <1>3, ObjectFacts
                <4>2. k \in 1..object[b].clss.num_fields /\ fi \notin 1..object[b].clss.num_fields
                    BY <1>2, <4>1 DEF Aims
                <4>3. k < fi
                    BY <1>4, <4>1, <4>2
                <4> QED
                    BY <1>1, <1>2, <1>7, <4>3 DEF Seen
            <3>5. ASSUME NEW a \in Range(rs), a # b
                  PROVE  a \in Range(rs')
                <4>1. PICK i \in DOMAIN rs : a = rs[i]
                    BY DEF Range
                <4>2. i \in 1..n
                    <5>1. i # n + 1
                        BY <1>1, <3>1, <3>5, <4>1
                    <5> QED
                        BY <1>4, <2>1, <4>1, <5>1
                <4>3. i \in DOMAIN rs' /\ rs'[i] = a
                    BY <2>2, <3>2, <4>1, <4>2
                <4> QED
                    BY <4>3, Zenon DEF Range
            <3>6. OldRecorded'
                BY <3>3, <3>4, <3>5 DEF OldRecorded, Aims
            <3>7. ~(ri' <= Len(rs'))
                BY <2>2, <2>3, <2>5
            <3>8. Seen'
                BY <3>7 DEF Seen
            <3> QED
                BY <3>6, <3>8 DEF Owes
        <2> QED
            BY <2>4, <2>5
    <1> QED
        BY <1>6, <1>7

LEMMA OwesStep == Typed /\ Typed' /\ Owes /\ [Next]_vars => Owes'
    <1> SUFFICES ASSUME Typed, Typed', Owes, [Next]_vars
                 PROVE  Owes'
        OBVIOUS
    <1>1. CASE UNCHANGED vars
        <2>1. /\ object' = object /\ rs' = rs /\ pc' = pc /\ ri' = ri /\ fi' = fi
              /\ has_new_obj' = has_new_obj /\ stack' = stack /\ mishap' = mishap
            BY <1>1 DEF vars, copying, record
        <2>2. Objects' = Objects
            BY <2>1 DEF Objects
        <2> QED
            BY <2>1, <2>2 DEF Owes, Over, NullEntry, OnlyOverlooked, OldRecorded, Seen, Overlooked,
               TakenForYoung
    <1>2. CASE Next /\ (Over \/ NullEntry)
        BY <1>1, <1>2, EndIsFinal DEF Owes
    <1>3. CASE Next /\ OnlyOverlooked
        BY <1>1, <1>3, OverlookedIsFinal
    <1>4. CASE Next /\ OldRecorded /\ Seen
        <2>1. OldRecorded /\ Seen
            BY <1>4
        <2>2. ASSUME object' = object
              PROVE  NothingNew(object', object)
            BY <2>2, NothingNewIfSame
        <2>3. ASSUME DOMAIN object' \subseteq Objects, \A a \in DOMAIN object' : object'[a] = object[a]
              PROVE  NothingNew(object', object)
            BY <2>3, NothingNewIfSame DEF Objects
        <2>4. CASE AddRoot \/ RestoreRoots
            <3>1. object' = object /\ rs' = rs /\ pc' = "run"
                BY <2>4 DEF AddRoot, RestoreRoots, ClientRuns, copying
            <3> QED
                BY <2>1, <2>2, <3>1, StaysRecorded
        <2>5. CASE gc_update_ptr
            BY <2>1, <2>5, StoreRecorded
        <2>6. CASE CollectNow
            <3>1. object' = object /\ rs' = rs /\ pc' = "roots"
                BY <2>6 DEF CollectNow, StartMinor
            <3> QED
                BY <2>1, <2>2, <3>1, StaysRecorded
        <2>7. CASE gc_alloc
            <3>1. PICK clss \in Class :
                    \/ /\ Fits(clss)
                       /\ Place(clss)
                       /\ UNCHANGED <<next_forwarding_offset, pc, call, ri>>
                    \/ /\ ~Fits(clss)
                       /\ StartMinor(clss)
                       /\ UNCHANGED <<object, next_free_offset>>
                BY <2>7, Zenon DEF gc_alloc
            <3>2. rs' = rs /\ pc = "run"
                BY <2>7 DEF gc_alloc, ClientRuns
            <3>3. NothingNew(object', object)
                BY <2>2, <3>1, PlaceAddsNothing
            <3>4. pc' # "remembered"
                BY <3>1, <3>2 DEF StartMinor
            <3> QED
                BY <2>1, <3>2, <3>3, <3>4, StaysRecorded
        <2>8. CASE AllocAgain
            <3>1. rs' = rs /\ pc' # "remembered"
                BY <2>8 DEF AllocAgain, copying
            <3>2. \/ Fits(request) /\ Place(request) /\ request \in Class
                  \/ object' = object
                <4>1. request # NoRequest /\ request \in Class \cup {NoRequest}
                    BY <2>8 DEF AllocAgain, Typed, Requests, Registers
                <4> QED
                    BY <2>8, <4>1 DEF AllocAgain
            <3>3. NothingNew(object', object)
                BY <2>2, <3>2, PlaceAddsNothing
            <3> QED
                BY <2>1, <3>1, <3>3, StaysRecorded
        <2>9. CASE CopyRoot
            <3>1. PICK q : Call(q, <<>>) /\ object' = After(q)
                BY <2>9 DEF CopyRoot
            <3>2. pc = "roots" /\ pc' = pc /\ CopiesInOrder
                BY <2>9 DEF CopyRoot, Typed, Collecting
            <3> QED
                BY <2>1, <3>1, <3>2, CallAddsNothing, StaysRecorded
        <2>10. CASE SkipRoot \/ RootsDone
            <3>1. object' = object /\ rs' = rs /\ (pc' = "remembered" => fi' = 1)
                BY <2>10 DEF SkipRoot, RootsDone, copying
            <3> QED
                BY <2>1, <2>2, <3>1, StaysRecorded
        <2>11. CASE CopyField
            <3>1. PICK q, fs : Call(q, fs) /\ object' = After(q)
                BY <2>11 DEF CopyField
            <3>2. /\ stack # <<>> /\ UNCHANGED <<pc, ri, fi, has_new_obj>>
                BY <2>11 DEF CopyField, record
            <3>3. CopiesInOrder
                <4>1. Collecting
                    <5>1. StaysBlocked
                        BY DEF Typed
                    <5> QED
                        BY <2>11, <5>1 DEF StaysBlocked, CopyField, Call, Blocked
                <4> QED
                    BY <4>1 DEF Typed
            <3> QED
                BY <2>1, <3>1, <3>2, <3>3, CallAddsNothing, StaysRecorded
        <2>12. CASE CopyReturn
            <3>1. object' = object /\ rs' = rs /\ UNCHANGED <<pc, ri, fi, has_new_obj>>
                BY <2>12 DEF CopyReturn, record
            <3> QED
                BY <2>1, <2>2, <3>1, StaysRecorded
        <2>13. CASE CollectionStops
            BY <2>13 DEF CollectionStops, Over, Owes
        <2>14. CASE RecordedField
            BY <2>1, <2>14, FieldRecorded
        <2>15. CASE NextRecord
            BY <2>1, <2>15, NextRecorded
        <2>16. CASE RecordsDone
            <3>1. object' = object /\ rs' = rs /\ pc' = "adjust"
                BY <2>16 DEF RecordsDone, copying
            <3> QED
                BY <2>1, <2>2, <3>1, StaysRecorded
        <2>17. CASE Adjust
            <3>1. rs' = rs /\ pc' # "remembered"
                BY <2>17 DEF Adjust, copying
            <3> QED
                BY <2>1, <2>17, <3>1, AdjustAddsNothing, StaysRecorded
        <2>18. CASE AdjustDone
            <3>1. rs' = rs /\ pc' # "remembered" /\ object' = [a \in Objects \ Cleared |-> object[a]]
                BY <2>18 DEF AdjustDone, copying
            <3> QED
                BY <2>1, <2>3, <3>1, StaysRecorded
        <2>19. CASE Major
            <3>1. rs' = rs /\ pc' # "remembered" /\ (object' = object \/ object' = AfterMajor)
                BY <2>19 DEF Major
            <3>2. NothingNew(object', object)
                BY <2>2, <2>3, <3>1 DEF AfterMajor
            <3> QED
                BY <2>1, <3>1, <3>2, StaysRecorded
        <2>20. CASE Ended
            BY <1>1, <2>20 DEF Ended
        <2> QED
            BY <1>4, <2>4, <2>5, <2>6, <2>7, <2>8, <2>9, <2>10, <2>11, <2>12, <2>13, <2>14, <2>15,
               <2>16, <2>17, <2>18, <2>19, <2>20
            DEF Next, Client, Copy, Remembered, AdjustRefs
    <1> QED
        BY <1>1, <1>2, <1>3, <1>4 DEF Owes

\* While the client runs, every old object that refers to a young one is in the
\* remembered set, but for a reference that write_barrier has just overlooked, and
\* whatever else went wrong in the collections before: minor_gc() may take entries
\* out in the order it finds them, and move or promote what they refer to.
THEOREM RememberedCorrect == Spec => []RememberedIsComplete
    <1>1. Init => Owes
        <2> SUFFICES ASSUME Init
                     PROVE  Owes
            OBVIOUS
        <2>1. Objects = {} /\ pc = "run"
            BY DEF Init, Objects
        <2> QED
            BY <2>1 DEF Owes, OldRecorded, Seen
    <1>2. ASSUME IInv, Owes
          PROVE  RememberedIsComplete
        <2> SUFFICES ASSUME pc = "run", NEW a \in Old, NEW k \in DOMAIN object[a].field,
                            object[a].field[k] \in Young
                     PROVE  \/ a \in Range(rs)
                            \/ /\ mishap = "reference not recorded"
                               /\ Overlooked(object[a].field[k])
            BY DEF RememberedIsComplete, Pointees
        <2>1. Memory(object)
            BY <1>2 DEF IInv, Typed
        <2>2. a \in Objects /\ a >= old
            BY <2>1, ObjectFacts DEF Old
        <2>3. k \in Aims(object[a])
            <3>1. PICK y : y = object[a].field[k]
                OBVIOUS
            <3>2. y \in Objects /\ y < old
                BY <3>1 DEF Young
            <3>3. y # Nil
                BY <2>1, <3>2, ObjectFacts
            <3> QED
                BY <3>1, <3>2, <3>3 DEF Aims
        <2>4. OnlyOverlooked \/ OldRecorded
            BY <1>2 DEF Owes, Over, NullEntry
        <2> QED
            BY <2>2, <2>3, <2>4 DEF OnlyOverlooked, OldRecorded
    <1>3. IInv => Typed
        BY DEF IInv
    <1> QED
        BY <1>1, <1>2, <1>3, OwesStep, Invariance, PTL DEF Spec

--------------------------------------------------------------------------------
(* Reachable objects.                                                      *)

\* What is closed and holds the roots holds everything reachable: this is why
\* a collector that keeps such a set takes back only garbage.
LEMMA ReachableIsLeast ==
    ASSUME NEW Nodes, NEW f, NEW R, NEW S \in SUBSET Nodes,
           R \subseteq S \cup {Nil}, Closed(f, S)
    PROVE  Reachable(Nodes, f, R) \subseteq S
    BY DEF Reachable

\* The roots are reachable.
LEMMA RootsAreReachable ==
    ASSUME NEW Nodes, NEW f, NEW R, R \subseteq Nodes \cup {Nil}
    PROVE  R \subseteq Reachable(Nodes, f, R) \cup {Nil}
    BY DEF Reachable

\* Following a reference from a reachable object leads to a reachable object.
LEMMA ReachableIsClosed ==
    ASSUME NEW Nodes, NEW f, NEW R, Closed(f, Nodes)
    PROVE  Closed(f, Reachable(Nodes, f, R))
    <1> SUFFICES ASSUME NEW n \in Reachable(Nodes, f, R),
                        NEW i \in DOMAIN f[n], f[n][i] # Nil
                 PROVE  f[n][i] \in Reachable(Nodes, f, R)
        BY DEF Closed
    <1>1. n \in Nodes
        BY DEF Reachable
    <1>2. f[n][i] \in Nodes
        BY <1>1 DEF Closed
    <1>3. ASSUME NEW S \in SUBSET Nodes, R \subseteq S \cup {Nil},
                 Closed(f, S)
          PROVE  f[n][i] \in S
        <2>1. n \in S
            BY <1>3, ReachableIsLeast
        <2> QED
            BY <1>3, <2>1 DEF Closed
    <1> QED
        BY <1>2, <1>3 DEF Reachable

--------------------------------------------------------------------------------
(* What the heap stands for: the invariant.                                *)

\* What a reference to q stands for in the memory m, and what the references of
\* the object at a stand for.
Means(m, q) == IF q = Nil THEN Nil ELSE IF q \in DOMAIN m THEN m[q].id ELSE Dangling
Meaning(m, a) == [k \in DOMAIN m[a].field |-> Means(m, m[a].field[k])]

\* Every reference leads to an object; what an object is forwarded to stands for the
\* same as the object, and no two objects do but by forwarding.
Within(m) ==
    \A a \in DOMAIN m : \A k \in DOMAIN m[a].field : m[a].field[k] \in DOMAIN m \cup {Nil}
Linked(m) ==
    \A a \in DOMAIN m :
        IF m[a].forwarded
        THEN /\ m[a].forwarding \in DOMAIN m
             /\ m[m[a].forwarding].id = m[a].id
             /\ Meaning(m, m[a].forwarding) = Meaning(m, a)
        ELSE m[a].forwarding = Nil
Twins(m) ==
    \A a, b \in DOMAIN m : m[a].id = m[b].id =>
        \/ a = b
        \/ m[a].forwarded /\ m[a].forwarding = b
        \/ m[b].forwarded /\ m[b].forwarding = a
Sound(m) == Within(m) /\ Linked(m) /\ Twins(m)

\* What the collection that is going on does not clear.
Fresh(q) == q = Nil \/ q >= old \/ ToSpace(q)

\* What is forwarded is cleared, and what it is forwarded to is not.
Parted(m) ==
    \A a \in DOMAIN m : m[a].forwarded =>
        a < old /\ ~ToSpace(a) /\ m[a].forwarding # Nil /\ Fresh(m[a].forwarding)

\* A copy has the references of its original until adjust_ref() gets to it.
Exact(m) ==
    \A c \in DOMAIN m : ToSpace(c) =>
        \E a \in DOMAIN m : m[a].forwarded /\ m[a].forwarding = c /\ m[a].field = m[c].field

\* What a forwarded object refers to has been copied, or a call is to do it.
Awaited(frames, a, k) == \E j \in DOMAIN frames : frames[j].obj = a /\ frames[j].i <= k
Explored(m, frames) ==
    \A a \in DOMAIN m : m[a].forwarded =>
        \A k \in DOMAIN m[a].field :
            \/ m[a].field[k] = Nil
            \/ m[a].field[k] \in DOMAIN m /\ m[m[a].field[k]].forwarded
            \/ Awaited(frames, a, k)

\* Copies do not overlap.
Apart(m) ==
    \A a, b \in DOMAIN m : ToSpace(a) /\ ToSpace(b) /\ a < b => a + m[a].clss.size <= b

\* An old object's reference to what will be cleared is one that the loop over the
\* remembered set has not replaced yet.
Pending ==
    \A a \in Old : \A k \in DOMAIN object[a].field :
        \/ Fresh(object[a].field[k])
        \/ \E j \in DOMAIN rs : rs[j] = a /\ (j > ri \/ (j = ri /\ k >= fi))

\* What adjust_ref() has not replaced yet has been copied.
ToAdjust ==
    \A a \in Objects : \A k \in DOMAIN object[a].field :
        /\ a >= old => Fresh(object[a].field[k])
        /\ ToSpace(a) =>
            \/ Fresh(object[a].field[k])
            \/ /\ a >= new_to + p
               /\ object[a].field[k] \in Objects /\ object[object[a].field[k]].forwarded

AtRest == pc \in {"run", "major", "alloc"}
Faithful ==
    /\ Sound(object)
    /\ \A j \in DOMAIN roots : roots[j] \in Objects \cup {Nil}
    /\ AtRest => \A a \in Objects : ~object[a].forwarded
    /\ Collecting => Parted(object) /\ Apart(object)
    /\ pc \in {"roots", "remembered"} => Explored(object, stack) /\ Exact(object)
    /\ pc = "roots" => \A j \in DOMAIN roots : j < ri => Fresh(roots[j])
    /\ pc \in {"remembered", "adjust"} => \A j \in DOMAIN roots : Fresh(roots[j])
    /\ pc = "remembered" => Pending
    /\ pc = "adjust" => ToAdjust

HInv == IInv /\ (Sane => Faithful)

--------------------------------------------------------------------------------
(* Memories that stand for the same heap.                                  *)

\* Replacing references by ones that stand for the same object.
LEMMA StoreSound ==
    ASSUME NEW m, NEW n, Memory(m), Like(n, m), Sound(m),
           \A a \in DOMAIN m : \A k \in DOMAIN m[a].field :
                n[a].field[k] \in DOMAIN m \cup {Nil} /\ Means(m, n[a].field[k]) = Means(m, m[a].field[k])
    PROVE  /\ Sound(n)
           /\ \A q : Means(n, q) = Means(m, q)
           /\ \A a \in DOMAIN m : n[a].id = m[a].id /\ Meaning(n, a) = Meaning(m, a)
    <1>1. DOMAIN n = DOMAIN m
        BY DEF Like
    <1>2. ASSUME NEW a \in DOMAIN m
          PROVE  /\ n[a].id = m[a].id /\ n[a].forwarded = m[a].forwarded
                 /\ n[a].forwarding = m[a].forwarding
                 /\ DOMAIN n[a].field = DOMAIN m[a].field
        <2>1. /\ n[a].id = m[a].id /\ n[a].forwarded = m[a].forwarded
              /\ n[a].forwarding = m[a].forwarding
              /\ n[a].field \in [1..m[a].clss.num_fields -> Pointer]
            BY <1>1, LikeFacts
        <2>2. m[a].field \in [1..m[a].clss.num_fields -> Pointer]
            BY MemoryFacts
        <2> QED
            BY <2>1, <2>2
    <1>3. \A q : Means(n, q) = Means(m, q)
        BY <1>1, <1>2 DEF Means
    <1>4. \A a \in DOMAIN m : Meaning(n, a) = Meaning(m, a)
        BY <1>2, <1>3 DEF Meaning
    <1>5. Within(n)
        BY <1>1, <1>2 DEF Within
    <1>6. Linked(n)
        BY <1>1, <1>2, <1>4 DEF Sound, Linked
    <1>7. Twins(n)
        BY <1>1, <1>2 DEF Sound, Twins
    <1> QED
        BY <1>2, <1>3, <1>4, <1>5, <1>6, <1>7 DEF Sound

\* The references and forwarding pointers of the objects at K lead to objects there.
Shut(m, K) ==
    \A a \in K :
        /\ \A k \in DOMAIN m[a].field : m[a].field[k] \in K \cup {Nil}
        /\ m[a].forwarded => m[a].forwarding \in K

\* m has what o has at K, but for the object at q, which it has forwarded to t.
Duplicated(m, o, K, q, t) ==
    /\ K \subseteq DOMAIN o /\ q \in K /\ q # Nil /\ t \notin K /\ t # Nil
    /\ DOMAIN m = K \cup {t}
    /\ ~o[q].forwarded
    /\ m[q].forwarded /\ m[q].forwarding = t /\ m[q].id = o[q].id /\ m[q].field = o[q].field
    /\ ~m[t].forwarded /\ m[t].forwarding = Nil /\ m[t].id = o[q].id /\ m[t].field = o[q].field
    /\ \A a \in K \ {q} : m[a] = o[a]

\* What a pointer stands for when an object of the same meaning is added.
LEMMA DuplicateMeans ==
    ASSUME NEW m, NEW o, NEW K, NEW q, NEW t, Duplicated(m, o, K, q, t), Shut(o, K)
    PROVE  /\ \A x \in K \cup {Nil} : Means(m, x) = Means(o, x)
           /\ \A a \in K : m[a].id = o[a].id /\ m[a].field = o[a].field /\ Meaning(m, a) = Meaning(o, a)
           /\ Means(m, t) = Means(o, q) /\ Meaning(m, t) = Meaning(o, q)
    <1>1. \A a \in K : m[a].id = o[a].id /\ m[a].field = o[a].field
        BY DEF Duplicated
    <1>2. \A x \in K \cup {Nil} : Means(m, x) = Means(o, x)
        BY <1>1 DEF Duplicated, Means
    <1>3. ASSUME NEW a \in K
          PROVE  Meaning(m, a) = Meaning(o, a)
        BY <1>1, <1>2 DEF Meaning, Shut
    <1>4. q \in K /\ m[t].field = o[q].field
        BY DEF Duplicated
    <1>5. Meaning(m, t) = Meaning(o, q)
        BY <1>2, <1>4 DEF Meaning, Shut
    <1>6. Means(m, t) = Means(o, q)
        BY DEF Duplicated, Means
    <1> QED
        BY <1>1, <1>2, <1>3, <1>5, <1>6

\* A copy, with its original forwarded to it, stands for nothing new.
LEMMA DuplicateSound ==
    ASSUME NEW m, NEW o, NEW K, NEW q, NEW t, Duplicated(m, o, K, q, t), Shut(o, K), Sound(o),
           \A a \in DOMAIN o : o[a].forwarded => o[a].forwarding # q
    PROVE  Sound(m)
    <1>1. /\ \A x \in K \cup {Nil} : Means(m, x) = Means(o, x)
          /\ \A a \in K : m[a].id = o[a].id /\ m[a].field = o[a].field /\ Meaning(m, a) = Meaning(o, a)
          /\ Meaning(m, t) = Meaning(o, q)
        BY DuplicateMeans
    <1>2. /\ K \subseteq DOMAIN o /\ q \in K /\ t \notin K /\ DOMAIN m = K \cup {t}
          /\ ~o[q].forwarded
          /\ m[q].forwarded /\ m[q].forwarding = t /\ m[q].id = o[q].id /\ m[q].field = o[q].field
          /\ ~m[t].forwarded /\ m[t].forwarding = Nil /\ m[t].id = o[q].id /\ m[t].field = o[q].field
          /\ \A a \in K \ {q} : m[a] = o[a]
        BY DEF Duplicated
    <1>3. Within(m)
        <2>1. \A k \in DOMAIN m[t].field : m[t].field[k] \in K \cup {Nil}
            BY <1>2 DEF Shut
        <2>2. \A a \in K : \A k \in DOMAIN m[a].field : m[a].field[k] \in K \cup {Nil}
            BY <1>1 DEF Shut
        <2> QED
            BY <1>2, <2>1, <2>2 DEF Within
    <1>4. Linked(m)
        <2> SUFFICES ASSUME NEW a \in DOMAIN m
                     PROVE  IF m[a].forwarded
                            THEN /\ m[a].forwarding \in DOMAIN m
                                 /\ m[m[a].forwarding].id = m[a].id
                                 /\ Meaning(m, m[a].forwarding) = Meaning(m, a)
                            ELSE m[a].forwarding = Nil
            BY DEF Linked
        <2>1. CASE a = t
            BY <1>2, <2>1
        <2>2. CASE a = q
            BY <1>1, <1>2, <2>2
        <2>3. CASE a \in K \ {q}
            <3>1. m[a] = o[a] /\ a \in DOMAIN o
                BY <1>2, <2>3
            <3>2. CASE o[a].forwarded
                <4>1. PICK b : b = o[a].forwarding
                    OBVIOUS
                <4>2. b \in K /\ o[b].id = o[a].id /\ Meaning(o, b) = Meaning(o, a)
                    BY <2>3, <3>1, <3>2, <4>1 DEF Shut, Sound, Linked
                <4> QED
                    BY <1>1, <1>2, <2>3, <3>1, <3>2, <4>1, <4>2
            <3>3. CASE ~o[a].forwarded
                BY <3>1, <3>3 DEF Sound, Linked
            <3> QED
                BY <3>2, <3>3
        <2> QED
            BY <1>2, <2>1, <2>2, <2>3
    <1>5. Twins(m)
        <2>1. ASSUME NEW a \in K, m[a].id = m[t].id
              PROVE  m[a].forwarded /\ m[a].forwarding = t
            <3>1. o[a].id = o[q].id /\ a \in DOMAIN o /\ q \in DOMAIN o
                BY <1>1, <1>2, <2>1
            <3>2. a = q
                BY <1>2, <3>1 DEF Sound, Twins
            <3> QED
                BY <1>2, <3>2
        <2>2. ASSUME NEW a \in K, NEW b \in K, m[a].id = m[b].id
              PROVE  \/ a = b
                     \/ m[a].forwarded /\ m[a].forwarding = b
                     \/ m[b].forwarded /\ m[b].forwarding = a
            <3>1. o[a].id = o[b].id /\ a \in DOMAIN o /\ b \in DOMAIN o
                BY <1>1, <1>2, <2>2
            <3>2. \/ a = b
                  \/ o[a].forwarded /\ o[a].forwarding = b
                  \/ o[b].forwarded /\ o[b].forwarding = a
                BY <3>1 DEF Sound, Twins
            <3>3. o[a].forwarded => m[a] = o[a]
                BY <1>2, <2>2
            <3>4. o[b].forwarded => m[b] = o[b]
                BY <1>2, <2>2
            <3> QED
                BY <3>2, <3>3, <3>4
        <2> QED
            BY <1>2, <2>1, <2>2 DEF Twins
    <1> QED
        BY <1>3, <1>4, <1>5 DEF Sound

\* Leaving out some of the objects.
LEMMA PartSound ==
    ASSUME NEW m, NEW o, Sound(o), DOMAIN m \subseteq DOMAIN o, \A a \in DOMAIN m : m[a] = o[a],
           Shut(o, DOMAIN m)
    PROVE  /\ Sound(m)
           /\ \A x \in DOMAIN m \cup {Nil} : Means(m, x) = Means(o, x)
           /\ \A a \in DOMAIN m : Meaning(m, a) = Meaning(o, a)
    <1>1. \A x \in DOMAIN m \cup {Nil} : Means(m, x) = Means(o, x)
        BY DEF Means
    <1>2. \A a \in DOMAIN m : Meaning(m, a) = Meaning(o, a)
        BY <1>1 DEF Meaning, Shut
    <1>3. Within(m)
        BY DEF Within, Shut
    <1>4. Linked(m)
        <2> SUFFICES ASSUME NEW a \in DOMAIN m
                     PROVE  IF m[a].forwarded
                            THEN /\ m[a].forwarding \in DOMAIN m
                                 /\ m[m[a].forwarding].id = m[a].id
                                 /\ Meaning(m, m[a].forwarding) = Meaning(m, a)
                            ELSE m[a].forwarding = Nil
            BY DEF Linked
        <2>1. m[a] = o[a] /\ a \in DOMAIN o
            OBVIOUS
        <2>2. CASE o[a].forwarded
            <3>1. PICK b : b = o[a].forwarding
                OBVIOUS
            <3>2. b \in DOMAIN m /\ o[b].id = o[a].id /\ Meaning(o, b) = Meaning(o, a)
                BY <2>1, <2>2, <3>1 DEF Shut, Sound, Linked
            <3> QED
                BY <1>2, <2>1, <2>2, <3>1, <3>2
        <2>3. CASE ~o[a].forwarded
            BY <2>1, <2>3 DEF Sound, Linked
        <2> QED
            BY <2>2, <2>3
    <1>5. Twins(m)
        BY DEF Sound, Twins
    <1> QED
        BY <1>1, <1>2, <1>3, <1>4, <1>5 DEF Sound


--------------------------------------------------------------------------------
(* What a call of new_copy() does to the heap.                             *)

\* A pointer to a cell is greater than the address at which the cells begin.
LEMMA CellsAbove ==
    ASSUME Memory(object), NEW a \in Old
    PROVE  a > old
    <1>1. a \in Objects /\ a >= old /\ a \in Nat /\ Placed(a, object[a].clss.size)
        BY ObjectFacts DEF Old
    <1>2. ~(a < old)
        BY <1>1, Sizes
    <1>3. PICK n \in Cell : a = Data(n)
        BY <1>1, <1>2 DEF Placed
    <1>4. n \in Nat \ {0} /\ NODE_SIZE \in Nat /\ old \in Nat
        BY CellFacts, Sizes
    <1>5. PICK x : x = (n - 1) * NODE_SIZE
        OBVIOUS
    <1>6. x \in Nat
        BY <1>4, <1>5
    <1>7. a = old + x + 24
        BY <1>3, <1>5 DEF Data, NODE_HEADER
    <1> QED
        BY <1>4, <1>6, <1>7

\* old_mark() goes from the roots along the references between old objects.
LEMMA MarkedFacts ==
    ASSUME Memory(object)
    PROVE  /\ Marked \subseteq Old
           /\ \A q \in Pointees(roots) : q \in Old => q \in Marked
           /\ \A a \in Marked : \A k \in DOMAIN object[a].field :
                object[a].field[k] \in Old => object[a].field[k] \in Marked
    <1> DEFINE R == {q \in Pointees(roots) : q > old} \cap Old
    <1>1. Marked = Reachable(Old, OldField, R) /\ R \subseteq Old
        BY DEF Marked
    <1>2. Nil \notin Old
        BY ObjectFacts DEF Old
    <1>3. Closed(OldField, Old)
        BY DEF Closed, OldField
    <1>4. Closed(OldField, Marked)
        BY <1>1, <1>3, ReachableIsClosed
    <1>5. Marked \subseteq Old
        BY <1>1 DEF Reachable
    <1>6. R \subseteq Marked \cup {Nil}
        BY <1>1, RootsAreReachable
    <1>7. ASSUME NEW q \in Pointees(roots), q \in Old
          PROVE  q \in Marked
        <2>1. q \in R
            BY <1>7, CellsAbove
        <2> QED
            BY <1>2, <1>6, <1>7, <2>1
    <1>8. ASSUME NEW a \in Marked, NEW k \in DOMAIN object[a].field, object[a].field[k] \in Old
          PROVE  object[a].field[k] \in Marked
        <2>1. a \in Old
            BY <1>5
        <2>2. k \in DOMAIN OldField[a] /\ OldField[a][k] = object[a].field[k]
            BY <1>8, <2>1 DEF OldField
        <2>3. OldField[a][k] \in Marked \cup {Nil}
            BY <1>4, <2>2 DEF Closed
        <2> QED
            BY <1>2, <1>8, <2>2, <2>3
    <1> QED
        BY <1>5, <1>7, <1>8

\* What major_gc() leaves leads to nothing that it sweeps, when no young object does.
LEMMA SweptShut ==
    ASSUME Memory(object), Sound(object), ~SweepsNeeded,
           \A a \in Old : ~object[a].forwarded
    PROVE  Shut(object, Objects \ Swept)
    <1> SUFFICES ASSUME NEW a \in Objects, a \notin Swept
                 PROVE  /\ \A k \in DOMAIN object[a].field :
                                object[a].field[k] \in (Objects \ Swept) \cup {Nil}
                        /\ object[a].forwarded => object[a].forwarding \in Objects \ Swept
        BY DEF Shut
    <1>1. /\ \A k \in DOMAIN object[a].field : object[a].field[k] \in Objects \cup {Nil}
          /\ object[a].forwarded => object[a].forwarding \in Objects
        BY DEF Sound, Within, Linked, Objects
    <1>2. CASE a \in Young
        <2>1. Swept \cap ({object[a].forwarding} \cup Pointees(object[a].field)) = {}
            BY <1>2 DEF SweepsNeeded
        <2>2. \A k \in DOMAIN object[a].field : object[a].field[k] \in Pointees(object[a].field)
            BY DEF Pointees
        <2> QED
            BY <1>1, <2>1, <2>2
    <1>3. CASE a \notin Young
        <2>1. a \in Old /\ a \in Marked
            BY <1>3 DEF Old, Swept
        <2>2. \A k \in DOMAIN object[a].field :
                object[a].field[k] \in Old => object[a].field[k] \in Marked
            BY <2>1, MarkedFacts
        <2> QED
            BY <1>1, <2>1, <2>2 DEF Swept
    <1> QED
        BY <1>2, <1>3

\* What a root designates survives a sweep of the old generation.
LEMMA RootsKept ==
    ASSUME Memory(object), \A j \in DOMAIN roots : roots[j] \in Objects \cup {Nil}
    PROVE  \A j \in DOMAIN roots : roots[j] \in (Objects \ Swept) \cup {Nil}
    <1> SUFFICES ASSUME NEW j \in DOMAIN roots, roots[j] \in Swept
                 PROVE  FALSE
        OBVIOUS
    <1>1. roots[j] \in Pointees(roots)
        BY DEF Pointees
    <1> QED
        BY <1>1, MarkedFacts DEF Swept

\* A promotion that goes well sweeps nothing that is referred to from a young
\* object, and clears no reference.
LEMMA CallLoses ==
    ASSUME NEW q, CopyMishap(q) = "none", ToOld(q)
    PROVE  /\ MustSweep => ~SweepsNeeded
           /\ \A k \in DOMAIN object[q].field : object[q].field[k] = Nil
    <1>1. mishap = "none" /\ ~(q >= old) /\ ~(IsNew(q) /\ new_to <= q /\ q < forwarding)
        BY CallWell DEF Sane
    <1>2. MustSweep => ~SweepsNeeded
        BY <1>1 DEF CopyMishap, FirstMishap
    <1>3. ~(MustSweep /\ Swept \cap Range(rs) # {})
        BY <1>1, CallWell
    <1>4. ~(Pointees(object[q].field) # {Nil} /\ object[q].field # <<>>)
        BY <1>1, <1>2, <1>3 DEF CopyMishap, FirstMishap
    <1>5. CASE Pointees(object[q].field) = {Nil}
        BY <1>2, <1>5 DEF Pointees
    <1>6. CASE object[q].field = <<>>
        BY <1>2, <1>6
    <1> QED
        BY <1>4, <1>5, <1>6

\* What a call of new_copy(q) that returns r makes of memory, and what it keeps.
Outcome(m, K, q, r) ==
    /\ Sound(m) /\ Parted(m) /\ Exact(m) /\ Apart(m)
    /\ K \subseteq Objects /\ K \subseteq DOMAIN m /\ q \in K \cup {Nil}
    /\ \A x \in Objects : x < old => x \in K
    /\ \A j \in DOMAIN roots : roots[j] \in K \cup {Nil}
    /\ \A x \in K \cup {Nil} : Means(m, x) = Means(object, x)
    /\ \A a \in DOMAIN m : \E b \in Objects :
            m[a].id = object[b].id /\ Meaning(m, a) = Meaning(object, b)
    /\ r \in DOMAIN m \cup {Nil} /\ Fresh(r) /\ Means(m, r) = Means(object, q)

\* Of the objects in cells, a promoted one is new and has no references.
OldStays(m, K) ==
    \A a \in DOMAIN m : a >= old =>
        \/ a \in K /\ m[a] = object[a]
        \/ \A k \in DOMAIN m[a].field : m[a].field[k] = Nil

\* A copy or a promoted object that is put into a sound memory leaves it sound.
LEMMA DuplicateOutcome ==
    ASSUME NEW m, NEW K, NEW q \in Nat, NEW t,
           Duplicated(m, object, K, q, t), Shut(object, K),
           Sound(object), Parted(object), Exact(object), Apart(m),
           q < old, ~ToSpace(q), Fresh(t), \A x \in Objects : x < old => x \in K,
           \A j \in DOMAIN roots : roots[j] \in K \cup {Nil},
           t >= old => \A k \in DOMAIN object[q].field : object[q].field[k] = Nil
    PROVE  Outcome(m, K, q, t) /\ OldStays(m, K)
    <1>1. /\ K \subseteq Objects /\ q \in K /\ q # Nil /\ t \notin K /\ t # Nil
          /\ DOMAIN m = K \cup {t} /\ ~object[q].forwarded
          /\ m[q].forwarded /\ m[q].forwarding = t /\ m[q].id = object[q].id
          /\ m[q].field = object[q].field
          /\ ~m[t].forwarded /\ m[t].forwarding = Nil /\ m[t].id = object[q].id
          /\ m[t].field = object[q].field
          /\ \A a \in K \ {q} : m[a] = object[a]
        BY DEF Duplicated, Objects
    <1>2. ~(q >= old)
        BY Sizes
    <1>3. \A a \in DOMAIN object : object[a].forwarded => object[a].forwarding # q
        BY <1>1, <1>2 DEF Parted, Fresh
    <1>4. Sound(m)
        BY <1>3, DuplicateSound
    <1>5. /\ \A x \in K \cup {Nil} : Means(m, x) = Means(object, x)
          /\ \A a \in K : m[a].id = object[a].id /\ Meaning(m, a) = Meaning(object, a)
          /\ Means(m, t) = Means(object, q) /\ Meaning(m, t) = Meaning(object, q)
        BY DuplicateMeans
    <1>6. Parted(m)
        BY <1>1 DEF Parted, Objects
    <1>7. Exact(m)
        <2> SUFFICES ASSUME NEW c \in DOMAIN m, ToSpace(c)
                     PROVE  \E a \in DOMAIN m :
                                m[a].forwarded /\ m[a].forwarding = c /\ m[a].field = m[c].field
            BY DEF Exact
        <2>1. CASE c = t
            BY <1>1, <2>1
        <2>2. CASE c \in K
            <3>1. c \in Objects /\ m[c] = object[c]
                BY <1>1, <2>2
            <3>2. PICK a \in Objects : /\ object[a].forwarded /\ object[a].forwarding = c
                                       /\ object[a].field = object[c].field
                BY <3>1 DEF Exact, Objects
            <3>3. a \in K /\ a # q
                BY <1>1, <3>2 DEF Parted, Objects
            <3>4. m[a] = object[a] /\ a \in DOMAIN m
                BY <1>1, <3>3
            <3> QED
                BY <3>1, <3>2, <3>4
        <2> QED
            BY <1>1, <2>1, <2>2
    <1>8. \A a \in DOMAIN m : \E b \in Objects :
            m[a].id = object[b].id /\ Meaning(m, a) = Meaning(object, b)
        BY <1>1, <1>5
    <1>9. ASSUME NEW a \in DOMAIN m, a >= old
          PROVE  \/ a \in K /\ m[a] = object[a]
                 \/ \A k \in DOMAIN m[a].field : m[a].field[k] = Nil
        <2>1. CASE a = t
            BY <1>1, <1>9, <2>1
        <2>2. CASE a \in K
            BY <1>1, <1>2, <1>9, <2>2
        <2> QED
            BY <1>1, <2>1, <2>2
    <1> QED
        BY <1>1, <1>4, <1>5, <1>6, <1>7, <1>8, <1>9 DEF Outcome, OldStays

\* What the original refers to is awaited, or there is nothing.
LEMMA DuplicateExplored ==
    ASSUME NEW m, NEW K, NEW q, NEW t, NEW fs, NEW gs,
           Duplicated(m, object, K, q, t), Shut(object, K),
           \A a \in Objects : object[a].forwarded =>
               \A k \in DOMAIN object[a].field :
                    \/ object[a].field[k] = q
                    \/ object[a].field[k] = Nil
                    \/ object[a].field[k] \in Objects /\ object[object[a].field[k]].forwarded
                    \/ Awaited(fs, a, k),
           \A a, k : Awaited(fs, a, k) => Awaited(gs, a, k),
           \A k \in DOMAIN object[q].field : object[q].field[k] = Nil \/ Awaited(gs, q, k)
    PROVE  Explored(m, gs)
    <1>1. /\ K \subseteq Objects /\ q \in K /\ t \notin K
          /\ DOMAIN m = K \cup {t} /\ ~object[q].forwarded
          /\ m[q].forwarded /\ m[q].field = object[q].field /\ ~m[t].forwarded
          /\ \A a \in K \ {q} : m[a] = object[a]
        BY DEF Duplicated, Objects
    <1> SUFFICES ASSUME NEW a \in DOMAIN m, m[a].forwarded, NEW k \in DOMAIN m[a].field
                 PROVE  \/ m[a].field[k] = Nil
                        \/ m[a].field[k] \in DOMAIN m /\ m[m[a].field[k]].forwarded
                        \/ Awaited(gs, a, k)
        BY DEF Explored
    <1>2. CASE a = q
        BY <1>1, <1>2
    <1>3. CASE a \in K \ {q}
        <2>1. m[a] = object[a] /\ a \in Objects
            BY <1>1, <1>3
        <2>2. PICK x : x = object[a].field[k]
            OBVIOUS
        <2>3. x \in K \cup {Nil}
            BY <1>3, <2>1, <2>2 DEF Shut
        <2>4. \/ x = q
              \/ x = Nil
              \/ x \in Objects /\ object[x].forwarded
              \/ Awaited(fs, a, k)
            BY <2>1, <2>2
        <2>5. CASE x = q \/ x = Nil
            BY <1>1, <2>1, <2>2, <2>5
        <2>6. CASE x \in K /\ object[x].forwarded
            <3>1. x # q /\ m[x] = object[x] /\ x \in DOMAIN m
                BY <1>1, <2>6
            <3> QED
                BY <2>1, <2>2, <2>6, <3>1
        <2>7. CASE Awaited(fs, a, k)
            BY <2>7
        <2> QED
            BY <2>3, <2>4, <2>5, <2>6, <2>7
    <1> QED
        BY <1>1, <1>2, <1>3


\* A copy to the survivor space.
LEMMA CopiedOutcome ==
    ASSUME Typed, CopiesInOrder, InTime, Collecting,
           Sound(object), Parted(object), Exact(object), Apart(object),
           \A j \in DOMAIN roots : roots[j] \in Objects \cup {Nil},
           NEW q, ~Blocked(q), CopyMishap(q) = "none", ToSurvivor(q)
    PROVE  /\ Shut(object, Objects) /\ Duplicated(Copied(q), object, Objects, q, forwarding)
           /\ Outcome(Copied(q), Objects, q, forwarding) /\ OldStays(Copied(q), Objects)
    <1> DEFINE t == forwarding
               m == Copied(q)
    <1>1. Memory(object) /\ Registers
        BY DEF Typed
    <1>2. /\ q \in Objects /\ q \in Young /\ ~ToSpace(q) /\ object[q] \in Records
          /\ q \in Nat /\ q # Nil /\ q < old /\ ~object[q].forwarded
        <2>1. q \in Objects /\ ~object[q].forwarded /\ q \in Young /\ ~ToSpace(q)
            BY AgeOfArgument, CallArgument
        <2> QED
            BY <1>1, <2>1, ObjectFacts
    <1>3. /\ DOMAIN m = Objects \cup {t} /\ t \notin Objects /\ t < old /\ t \in Address
          /\ Size(q) \in Nat \ {0} /\ t + Size(q) <= new_to + survivor_size
          /\ m[t] = [object[q] EXCEPT !.age = @ + 1, !.remembered = FALSE]
          /\ m[q] = [object[q] EXCEPT !.age = @ + 1, !.forwarded = TRUE, !.forwarding = t]
          /\ \A a \in Objects \ {q} : m[a] = object[a]
          /\ \A a \in Objects : m[a].clss = object[a].clss
        BY CopiedMemory
    <1>4. t \in Nat /\ new_to \in Nat /\ t >= new_to /\ survivor_size \in Nat /\ old \in Nat
        BY <1>1, SpaceFacts, Sizes
    <1>5. ToSpace(t) /\ t # Nil
        BY <1>3, <1>4, AddressFacts DEF ToSpace
    <1>6. object[q].forwarding = Nil
        BY <1>2 DEF Sound, Linked, Objects
    <1>7. /\ m[q].forwarded /\ m[q].forwarding = t /\ m[q].id = object[q].id
          /\ m[q].field = object[q].field
          /\ ~m[t].forwarded /\ m[t].forwarding = Nil /\ m[t].id = object[q].id
          /\ m[t].field = object[q].field
        BY <1>2, <1>3, <1>6 DEF Records
    <1>8. Shut(object, Objects)
        BY DEF Shut, Sound, Within, Linked, Objects
    <1> HIDE DEF m, t
    <1>9. Duplicated(m, object, Objects, q, t)
        BY <1>2, <1>3, <1>5, <1>7 DEF Duplicated, Objects
    <1>10. ASSUME NEW a \in Objects, ToSpace(a)
           PROVE  a \in Nat /\ a < t /\ a + object[a].clss.size <= t
        <2>1. a \in Nat /\ a \in Young
            <3>1. a \in Nat /\ (a \in Young <=> a < old)
                BY <1>1, ObjectFacts
            <3>2. a < new_to + survivor_size /\ new_to + survivor_size <= old
                BY <1>1, <1>10, SpaceFacts DEF ToSpace
            <3> QED
                BY <1>4, <3>1, <3>2
        <2>2. a < t
            BY <1>10, <2>1 DEF CopiesInOrder, t
        <2>3. PICK x : x = a - new_to
            OBVIOUS
        <2>4. x \in Nat /\ new_to + x = a /\ next_forwarding_offset \in Nat
              /\ t = new_to + next_forwarding_offset
            BY <1>1, <1>4, <1>10, <2>1, <2>3, SpaceFacts DEF ToSpace, t
        <2>5. x \in Starts \ {next_forwarding_offset}
            BY <1>4, <1>10, <2>1, <2>2, <2>4 DEF Starts
        <2>6. x + Size(new_to + x) \in Starts
            BY <2>5 DEF CopiesInOrder
        <2>7. x + Size(a) \in 0..next_forwarding_offset
            BY <2>4, <2>6 DEF Starts
        <2>8. Size(a) = object[a].clss.size /\ object[a].clss.size \in Nat
            BY <1>1, ObjectFacts
        <2> QED
            BY <1>4, <2>1, <2>2, <2>4, <2>7, <2>8
    <1>11. Apart(m)
        <2> SUFFICES ASSUME NEW a \in DOMAIN m, NEW b \in DOMAIN m, ToSpace(a), ToSpace(b), a < b
                     PROVE  a + m[a].clss.size <= b
            BY DEF Apart
        <2>1. a \in Objects
            <3>1. ASSUME a = t
                  PROVE  FALSE
                <4>1. b \in Objects
                    BY <1>3, <1>4, <3>1
                <4>2. b < t /\ b \in Nat
                    BY <1>10, <4>1
                <4> QED
                    BY <1>4, <3>1, <4>2
            <3> QED
                BY <1>3, <3>1
        <2>2. m[a].clss = object[a].clss
            BY <1>3, <2>1
        <2>3. CASE b = t
            BY <1>10, <2>1, <2>2, <2>3
        <2>4. CASE b \in Objects
            BY <2>1, <2>2, <2>4 DEF Apart, Objects
        <2> QED
            BY <1>3, <2>3, <2>4
    <1>12. Fresh(t) /\ ~(t >= old)
        BY <1>3, <1>4, <1>5 DEF Fresh
    <1>13. Outcome(m, Objects, q, t) /\ OldStays(m, Objects)
        BY <1>2, <1>8, <1>9, <1>11, <1>12, DuplicateOutcome
    <1> QED
        BY <1>8, <1>9, <1>13 DEF m, t

\* A promotion.
LEMMA PromotedOutcome ==
    ASSUME Typed, CopiesInOrder, InTime, Collecting,
           Sound(object), Parted(object), Exact(object), Apart(object),
           \A j \in DOMAIN roots : roots[j] \in Objects \cup {Nil},
           NEW q, ~Blocked(q), CopyMishap(q) = "none", ToOld(q)
    PROVE  /\ Shut(object, DOMAIN Kept)
           /\ Duplicated(Promoted(q), object, DOMAIN Kept, q, Data(NewCell))
           /\ Outcome(Promoted(q), DOMAIN Kept, q, Data(NewCell))
           /\ OldStays(Promoted(q), DOMAIN Kept)
    <1> DEFINE t == Data(NewCell)
               m == Promoted(q)
               K == DOMAIN Kept
               n == object[q].clss.num_fields
    <1>1. Memory(object) /\ Registers
        BY DEF Typed
    <1>2. /\ q \in Objects /\ q \in Young /\ ~ToSpace(q) /\ object[q] \in Records
          /\ q \in Nat /\ q # Nil /\ q < old /\ ~object[q].forwarded
          /\ object[q].field \in [1..n -> Pointer] /\ n \in Nat
        <2>1. q \in Objects /\ ~object[q].forwarded /\ q \in Young /\ ~ToSpace(q)
            BY AgeOfArgument, CallArgument
        <2> QED
            BY <1>1, <2>1, ObjectFacts
    <1>3. /\ DOMAIN m = K \cup {t} /\ q \in K
          /\ m[q] = [object[q] EXCEPT !.forwarded = TRUE, !.forwarding = t]
          /\ m[t] = [object[q] EXCEPT !.forwarded = FALSE, !.field = NullFields(n)]
          /\ \A a \in K \ {q} : m[a] = object[a]
          /\ \A a \in K : m[a].clss = object[a].clss
        BY PromotedMemory
    <1>4. t \notin K /\ t >= old /\ t \in Address
        BY NewCellFacts
    <1>5. /\ t \in Nat /\ t # Nil /\ old \in Nat /\ new_to + survivor_size <= old
          /\ new_to \in Nat /\ survivor_size \in Nat
        BY <1>1, <1>4, SpaceFacts, Sizes, AddressFacts
    <1>6. Fresh(t) /\ ~ToSpace(t)
        BY <1>4, <1>5 DEF Fresh, ToSpace
    <1>7. object[q].forwarding = Nil
        BY <1>2 DEF Sound, Linked, Objects
    <1>8. /\ MustSweep => ~SweepsNeeded
          /\ \A k \in DOMAIN object[q].field : object[q].field[k] = Nil
        BY CallLoses
    <1>9. NullFields(n) = object[q].field
        <2>1. object[q].field = [k \in 1..n |-> object[q].field[k]] /\ DOMAIN object[q].field = 1..n
            BY <1>2
        <2> QED
            BY <1>8, <2>1 DEF NullFields
    <1>10. /\ m[q].forwarded /\ m[q].forwarding = t /\ m[q].id = object[q].id
           /\ m[q].field = object[q].field
           /\ ~m[t].forwarded /\ m[t].forwarding = Nil /\ m[t].id = object[q].id
           /\ m[t].field = object[q].field
        BY <1>2, <1>3, <1>7, <1>9 DEF Records
    <1>11. /\ K \subseteq Objects /\ Young \subseteq K /\ (MustSweep => K = Objects \ Swept)
           /\ (~MustSweep => K = Objects)
        BY <1>1, KeptFacts
    <1> HIDE DEF m, t, K, n
    <1>12. Duplicated(m, object, K, q, t)
        BY <1>2, <1>3, <1>4, <1>5, <1>10, <1>11 DEF Duplicated, Objects
    <1>13. Shut(object, K)
        <2>1. CASE MustSweep
            <3>1. \A a \in Old : ~object[a].forwarded
                <4>1. \A a \in Old : a \in Objects /\ ~(a < old)
                    BY DEF Old, Young
                <4> QED
                    BY <4>1 DEF Parted, Objects
            <3> QED
                BY <1>1, <1>8, <1>11, <2>1, <3>1, SweptShut
        <2>2. CASE ~MustSweep
            <3>1. Shut(object, Objects)
                BY DEF Shut, Sound, Within, Linked, Objects
            <3> QED
                BY <1>11, <2>2, <3>1
        <2> QED
            BY <2>1, <2>2
    <1>14. \A j \in DOMAIN roots : roots[j] \in K \cup {Nil}
        BY <1>1, <1>11, RootsKept
    <1>15. Apart(m)
        <2> SUFFICES ASSUME NEW a \in DOMAIN m, NEW b \in DOMAIN m, ToSpace(a), ToSpace(b), a < b
                     PROVE  a + m[a].clss.size <= b
            BY DEF Apart
        <2>1. a \in K /\ b \in K
            BY <1>3, <1>6
        <2>2. m[a].clss = object[a].clss /\ a \in DOMAIN object /\ b \in DOMAIN object
            BY <1>3, <1>11, <2>1 DEF Objects
        <2> QED
            BY <2>2 DEF Apart
    <1>16. \A x \in Objects : x < old => x \in K
        BY <1>11 DEF Young
    <1>17. Outcome(m, K, q, t) /\ OldStays(m, K)
        BY <1>2, <1>6, <1>8, <1>12, <1>13, <1>14, <1>15, <1>16, DuplicateOutcome
    <1> QED
        BY <1>12, <1>13, <1>17 DEF m, t, K

\* Calls of new_copy() that wait below the one on top.
LEMMA AwaitedBelow ==
    ASSUME NEW fs \in Seq(Frame), NEW f \in Frame
    PROVE  /\ \A a, k : Awaited(fs, a, k) => Awaited(Append(fs, f), a, k)
           /\ \A k \in Nat : k >= f.i => Awaited(Append(fs, f), f.obj, k)
    <1>1. /\ Append(fs, f) \in Seq(Frame) /\ Len(Append(fs, f)) = Len(fs) + 1
          /\ \A j \in 1..Len(fs) : Append(fs, f)[j] = fs[j]
          /\ Append(fs, f)[Len(fs) + 1] = f
        BY AppendProperties
    <1>2. DOMAIN Append(fs, f) = 1..(Len(fs) + 1) /\ DOMAIN fs = 1..Len(fs) /\ Len(fs) \in Nat
        BY <1>1, LenProperties
    <1>3. \A j \in DOMAIN fs : j \in DOMAIN Append(fs, f) /\ Append(fs, f)[j] = fs[j]
        BY <1>1, <1>2
    <1>4. Len(fs) + 1 \in DOMAIN Append(fs, f)
        BY <1>2
    <1>5. f.i \in Nat
        BY DEF Frame
    <1>6. \A k \in Nat : k >= f.i => f.i <= k
        BY <1>5
    <1> QED
        BY <1>1, <1>3, <1>4, <1>6 DEF Awaited

\* What holds in a collection, as long as all is well.
InCollection ==
    /\ Typed /\ CopiesInOrder /\ InTime /\ Collecting
    /\ Sound(object) /\ Parted(object) /\ Exact(object) /\ Apart(object)
    /\ \A j \in DOMAIN roots : roots[j] \in Objects \cup {Nil}

\* Any call of new_copy(), where the calls fs await what has not been copied, but
\* for the argument.
LEMMA CallOutcome ==
    ASSUME InCollection, NEW q, ~Blocked(q), CopyMishap(q) = "none", NEW fs \in Seq(Frame), NEW gs,
           gs = IF ToSurvivor(q) THEN Append(fs, [obj |-> q, i |-> 1]) ELSE fs,
           \A a \in Objects : object[a].forwarded =>
               \A k \in DOMAIN object[a].field :
                    \/ object[a].field[k] = q
                    \/ object[a].field[k] = Nil
                    \/ object[a].field[k] \in Objects /\ object[object[a].field[k]].forwarded
                    \/ Awaited(fs, a, k)
    PROVE  /\ Explored(After(q), gs)
           /\ \E K : Outcome(After(q), K, q, Result(q)) /\ OldStays(After(q), K)
    <1>1. Memory(object) /\ Registers
        BY DEF InCollection, Typed
    <1>2. CASE ToSurvivor(q)
        <2>1. /\ Shut(object, Objects) /\ Duplicated(Copied(q), object, Objects, q, forwarding)
              /\ Outcome(Copied(q), Objects, q, forwarding) /\ OldStays(Copied(q), Objects)
            BY <1>2, CopiedOutcome DEF InCollection
        <2>2. q \in Objects /\ q \in Address /\ q # Nil
            BY <1>1, <1>2, CallArgument, ObjectFacts DEF InCollection
        <2>3. After(q) = Copied(q) /\ Result(q) = forwarding
            BY <1>2, <2>2 DEF After, Result
        <2>4. PICK f : f = [obj |-> q, i |-> 1]
            OBVIOUS
        <2>5. f \in Frame /\ f.obj = q /\ f.i = 1
            BY <2>2, <2>4 DEF Frame
        <2>6. gs = Append(fs, f)
            BY <1>2, <2>4
        <2>7. \A a, k : Awaited(fs, a, k) => Awaited(gs, a, k)
            BY <2>5, <2>6, AwaitedBelow
        <2>8. \A k \in DOMAIN object[q].field : Awaited(gs, q, k)
            <3>1. object[q].field \in [1..object[q].clss.num_fields -> Pointer]
                  /\ object[q].clss.num_fields \in Nat
                BY <1>1, <2>2, ObjectFacts
            <3>2. \A k \in DOMAIN object[q].field : k \in Nat /\ k >= 1
                BY <3>1
            <3> QED
                BY <2>5, <2>6, <3>2, AwaitedBelow
        <2>9. Explored(Copied(q), gs)
            BY <2>1, <2>7, <2>8, DuplicateExplored
        <2> QED
            BY <2>1, <2>3, <2>9
    <1>3. CASE ToOld(q)
        <2>1. ~ToSurvivor(q)
            BY <1>3 DEF ToOld
        <2>2. /\ Shut(object, DOMAIN Kept)
              /\ Duplicated(Promoted(q), object, DOMAIN Kept, q, Data(NewCell))
              /\ Outcome(Promoted(q), DOMAIN Kept, q, Data(NewCell))
           /\ OldStays(Promoted(q), DOMAIN Kept)
            BY <1>3, PromotedOutcome DEF InCollection
        <2>3. q \in Objects /\ q # Nil
            BY <1>1, <1>3, CallArgument, ObjectFacts DEF InCollection
        <2>4. After(q) = Promoted(q) /\ Result(q) = Data(NewCell)
            BY <1>3, <2>1, <2>3 DEF After, Result
        <2>5. gs = fs
            BY <2>1
        <2>6. \A k \in DOMAIN object[q].field : object[q].field[k] = Nil
            BY <1>3, CallLoses
        <2>7. Explored(Promoted(q), gs)
            BY <2>2, <2>5, <2>6, DuplicateExplored
        <2> QED
            BY <2>2, <2>4, <2>7
    <1>4. CASE ~ToSurvivor(q) /\ ~ToOld(q)
        <2>1. After(q) = object /\ gs = fs
            BY <1>4 DEF After
        <2>2. q = Nil \/ (q \in Objects /\ object[q].forwarded)
            <3>1. q = Nil \/ q \in Objects
                BY CallArgument DEF InCollection
            <3> QED
                BY <1>4, <3>1 DEF ToOld, IsNew
        <2>3. Explored(object, fs)
            BY <2>2 DEF Explored, Objects
        <2>4. /\ Result(q) \in Objects \cup {Nil} /\ Fresh(Result(q))
              /\ Means(object, Result(q)) = Means(object, q)
            <3>1. CASE q = Nil
                BY <3>1 DEF Result, Fresh
            <3>2. CASE q # Nil
                <4>1. Result(q) = object[q].forwarding /\ q \in Objects /\ object[q].forwarded
                    BY <1>4, <2>2, <3>2 DEF Result
                <4>2. /\ object[q].forwarding \in Objects /\ Fresh(object[q].forwarding)
                      /\ object[object[q].forwarding].id = object[q].id
                      /\ object[q].forwarding # Nil
                    BY <4>1 DEF InCollection, Sound, Linked, Parted, Objects
                <4> QED
                    BY <3>2, <4>1, <4>2 DEF Means, Objects
            <3> QED
                BY <3>1, <3>2
        <2>5. Outcome(object, Objects, q, Result(q)) /\ OldStays(object, Objects)
            BY <2>2, <2>4 DEF Outcome, OldStays, InCollection, Objects
        <2> QED
            BY <2>1, <2>3, <2>5
    <1> QED
        BY <1>2, <1>3, <1>4


--------------------------------------------------------------------------------
(* The steps of the loops that copy.                                       *)

\* A step that leaves each root to the object it stands for, and to each object that
\* remains what it stands for.
Steady ==
    /\ \A a \in DOMAIN object' : \E b \in DOMAIN object :
            object'[a].id = object[b].id /\ Meaning(object', a) = Meaning(object, b)
    /\ DOMAIN roots' = DOMAIN roots
    /\ \A j \in DOMAIN roots : Means(object', roots'[j]) = Means(object, roots[j])

\* Within a collection the spaces do not change.
LEMMA SameSpaces ==
    ASSUME new_from' = new_from
    PROVE  /\ new_to' = new_to
           /\ \A a : ToSpace(a)' <=> ToSpace(a)
           /\ \A q : Fresh(q)' <=> Fresh(q)
    <1>1. new_to' = new_to
        BY DEF new_to
    <1>2. \A a : ToSpace(a)' <=> ToSpace(a)
        BY <1>1 DEF ToSpace
    <1>3. \A q : Fresh(q)' <=> Fresh(q)
        BY <1>2 DEF Fresh
    <1> QED
        BY <1>1, <1>2, <1>3

\* The memory after a step, by what is known of it before.
LEMMA NextMemory ==
    ASSUME new_from' = new_from, NEW m, object' = m
    PROVE  /\ Objects' = DOMAIN m
           /\ Sound(m) => Sound(object)'
           /\ Parted(m) => Parted(object)'
           /\ Exact(m) => Exact(object)'
           /\ Apart(m) => Apart(object)'
           /\ Explored(m, stack') => Explored(object, stack)'
    <1>1. /\ \A a : ToSpace(a)' <=> ToSpace(a)
          /\ \A q : Fresh(q)' <=> Fresh(q)
        BY SameSpaces
    <1>2. Objects' = DOMAIN m
        BY DEF Objects
    <1>3. Sound(m) => Sound(object)'
        BY DEF Sound, Within, Linked, Twins, Meaning, Means
    <1>4. Parted(m) => Parted(object)'
        BY <1>1 DEF Parted
    <1>5. Exact(m) => Exact(object)'
        BY <1>1 DEF Exact
    <1>6. Apart(m) => Apart(object)'
        BY <1>1 DEF Apart
    <1>7. Explored(m, stack') => Explored(object, stack)'
        BY DEF Explored, Awaited
    <1> QED
        BY <1>2, <1>3, <1>4, <1>5, <1>6, <1>7

\* What the invariants say of the state in the middle of a collection.
LEMMA InCollectionFacts ==
    ASSUME HInv, Sane, Collecting
    PROVE  /\ Faithful /\ InTime /\ Remembers /\ Typed /\ CopiesInOrder /\ Memory(object)
           /\ pc \in {"roots", "remembered"} => InCollection
    <1>1. Faithful /\ InTime /\ Remembers /\ Typed /\ CopiesInOrder /\ Memory(object)
        BY DEF HInv, IInv, Typed
    <1>2. Sound(object) /\ Parted(object) /\ Apart(object)
          /\ \A j \in DOMAIN roots : roots[j] \in Objects \cup {Nil}
        BY <1>1 DEF Faithful
    <1>3. pc \in {"roots", "remembered"} => Exact(object)
        BY <1>1 DEF Faithful
    <1> QED
        BY <1>1, <1>2, <1>3 DEF InCollection

\* Where a pointer may lead.
LEMMA PointerFacts ==
    /\ \A x \in Pointer : x \in Nat
    /\ old \in Nat
    <1>1. Address \subseteq Nat \ {0} /\ Pointer = Address \cup {Nil}
        BY AddressFacts
    <1>2. old \in Nat
        BY Sizes
    <1> QED
        BY <1>1, <1>2 DEF Nil

\* A step that moves nothing and stores nothing.
LEMMA StillHeap ==
    ASSUME HInv, Sane, Collecting, pc' \in {"roots", "remembered", "adjust"},
           DOMAIN object' = DOMAIN object, \A a \in DOMAIN object : object'[a] = object[a],
           roots' = roots, new_from' = new_from
    PROVE  /\ Sound(object)' /\ Parted(object)' /\ (Exact(object) => Exact(object)')
           /\ Apart(object)'
           /\ \A j \in DOMAIN roots' : roots'[j] \in Objects' \cup {Nil}
           /\ ~AtRest' /\ Steady
           /\ Objects' = Objects /\ Old' = Old
    <1>1. Faithful
        BY InCollectionFacts
    <1>2. /\ Sound(object) /\ Parted(object) /\ Apart(object)
          /\ \A j \in DOMAIN roots : roots[j] \in Objects \cup {Nil}
        BY <1>1 DEF Faithful
    <1>3. Objects' = Objects
        BY DEF Objects
    <1>4. Shut(object, DOMAIN object)
        BY <1>2 DEF Shut, Sound, Within, Linked
    <1>5. PICK m : m = object'
        OBVIOUS
    <1>6. DOMAIN m = DOMAIN object /\ \A a \in DOMAIN object : m[a] = object[a]
        BY <1>5
    <1>7. /\ Sound(m)
          /\ \A x \in DOMAIN object \cup {Nil} : Means(m, x) = Means(object, x)
          /\ \A a \in DOMAIN object : Meaning(m, a) = Meaning(object, a)
        BY <1>2, <1>4, <1>6, PartSound
    <1>8. /\ Sound(object)' /\ Parted(object)' /\ (Exact(object) => Exact(object)')
          /\ Apart(object)'
        <2>1. Parted(m) /\ (Exact(object) => Exact(m)) /\ Apart(m)
            BY <1>2, <1>6 DEF Parted, Exact, Apart
        <2> QED
            BY <1>5, <1>7, <2>1, NextMemory
    <1>9. \A j \in DOMAIN roots' : roots'[j] \in Objects' \cup {Nil}
        BY <1>2, <1>3
    <1>10. ~AtRest'
        BY DEF AtRest
    <1>11. Steady
        BY <1>2, <1>5, <1>6, <1>7 DEF Steady, Objects
    <1>12. Old' = Old
        BY <1>3 DEF Old, Young
    <1> QED
        BY <1>3, <1>8, <1>9, <1>10, <1>11, <1>12

\* A call of new_copy() adds no pointer to the remembered set.
LEMMA RecordsStay ==
    ASSUME Typed, NEW q, NEW fs, Call(q, fs)
    PROVE  rs' = rs /\ ~Blocked(q)
    <1>1. ~Blocked(q)
        BY DEF Call, Blocked
    <1>2. ToOld(q) => ~RefersToYoung(Cell0(q))
        BY <1>1, PromotedMemory
    <1> QED
        BY <1>1, <1>2 DEF Call

\* A step that leaves memory as a call of new_copy(q) does.
LEMMA CallHeap ==
    ASSUME new_from' = new_from, NEW K, NEW q, NEW r, Outcome(object', K, q, r),
           Explored(object', stack'),
           roots' = roots \/ (roots' = [roots EXCEPT ![ri] = r] /\ roots[ri] = q)
    PROVE  /\ Sound(object)' /\ Parted(object)' /\ Exact(object)' /\ Apart(object)'
           /\ Explored(object, stack)'
           /\ \A j \in DOMAIN roots' : roots'[j] \in Objects' \cup {Nil}
           /\ Steady
    <1>1. PICK m : m = object'
        OBVIOUS
    <1>2. Outcome(m, K, q, r) /\ Explored(m, stack')
        BY <1>1
    <1>3. /\ Sound(m) /\ Parted(m) /\ Exact(m) /\ Apart(m) /\ K \subseteq DOMAIN m
          /\ \A j \in DOMAIN roots : roots[j] \in K \cup {Nil}
          /\ \A x \in K \cup {Nil} : Means(m, x) = Means(object, x)
          /\ \A a \in DOMAIN m : \E b \in DOMAIN object :
                m[a].id = object[b].id /\ Meaning(m, a) = Meaning(object, b)
          /\ r \in DOMAIN m \cup {Nil} /\ Means(m, r) = Means(object, q)
        BY <1>2 DEF Outcome, Objects
    <1>4. /\ Objects' = DOMAIN m
          /\ Sound(object)' /\ Parted(object)' /\ Exact(object)' /\ Apart(object)'
          /\ Explored(object, stack)'
        BY <1>1, <1>2, <1>3, NextMemory
    <1>5. /\ DOMAIN roots' = DOMAIN roots
          /\ \A j \in DOMAIN roots : roots'[j] = roots[j] \/ (roots'[j] = r /\ roots[j] = q)
        OBVIOUS
    <1>6. \A j \in DOMAIN roots : /\ roots'[j] \in DOMAIN m \cup {Nil}
                                  /\ Means(m, roots'[j]) = Means(object, roots[j])
        BY <1>3, <1>5
    <1>7. Steady
        BY <1>1, <1>3, <1>5, <1>6 DEF Steady
    <1> QED
        BY <1>4, <1>5, <1>6, <1>7

\* What has been replaced of the references of old objects stays replaced.
LEMMA PendingStays ==
    ASSUME new_from' = new_from, Memory(object'), UNCHANGED <<rs, ri, record>>, Pending,
           \A a \in DOMAIN object' : a >= old =>
                \/ a \in Old /\ object'[a] = object[a]
                \/ \A k \in DOMAIN object'[a].field : object'[a].field[k] = Nil
    PROVE  Pending'
    <1>1. \A q : Fresh(q)' <=> Fresh(q)
        BY SameSpaces
    <1>2. \A a \in Old' : a \in DOMAIN object' /\ a >= old
        <2>1. \A a \in DOMAIN object' : a \in Nat
            BY MemoryFacts
        <2> QED
            BY <2>1, Sizes DEF Old, Young, Objects
    <1>3. rs' = rs /\ ri' = ri /\ fi' = fi
        BY DEF record
    <1> SUFFICES ASSUME NEW a \in Old', NEW k \in DOMAIN object'[a].field,
                        ~Fresh(object'[a].field[k])
                 PROVE  \E j \in DOMAIN rs : rs[j] = a /\ (j > ri \/ (j = ri /\ k >= fi))
        BY <1>1, <1>3 DEF Pending
    <1>4. a \in Old /\ object'[a] = object[a]
        BY <1>2 DEF Fresh
    <1> QED
        BY <1>4 DEF Pending

\* Redirecting a root to the copy of its object.
LEMMA CopyRootHeap ==
    ASSUME HInv, CopyRoot, Sane'
    PROVE  Faithful' /\ Steady
    <1>1. /\ pc = "roots" /\ stack = <<>> /\ ri <= Len(roots) /\ new_from' = new_from
          /\ UNCHANGED <<space, pc, call, record, p>> /\ ri' = ri + 1
        BY DEF CopyRoot, space
    <1>2. PICK q, r : /\ q = roots[ri] /\ Call(q, <<>>) /\ object' = After(q)
                      /\ r = Result(q) /\ roots' = [roots EXCEPT ![ri] = r]
        BY <1>1, RootFacts DEF CopyRoot, HInv, IInv
    <1>3. CopyMishap(q) = "none" /\ Sane /\ Collecting
        BY <1>1, <1>2, CallWell DEF Call, Sane, Collecting
    <1>4. InCollection /\ Faithful /\ Typed
        BY <1>1, <1>3, InCollectionFacts
    <1>5. ~Blocked(q)
        BY <1>2, <1>4, RecordsStay
    <1>6. PICK gs : gs = IF ToSurvivor(q) THEN Append(<<>>, [obj |-> q, i |-> 1]) ELSE <<>>
        OBVIOUS
    <1>7. stack' = gs
        BY <1>2, <1>6 DEF Call
    <1>8. ASSUME NEW a \in Objects, object[a].forwarded, NEW k \in DOMAIN object[a].field
          PROVE  \/ object[a].field[k] = q
                 \/ object[a].field[k] = Nil
                 \/ object[a].field[k] \in Objects /\ object[object[a].field[k]].forwarded
                 \/ Awaited(<<>>, a, k)
        <2>1. Explored(object, <<>>)
            BY <1>1, <1>4 DEF Faithful
        <2> QED
            BY <1>8, <2>1 DEF Explored, Objects
    <1>9. <<>> \in Seq(Frame)
        BY EmptySeq
    <1>10. Explored(After(q), gs) /\ \E K : Outcome(After(q), K, q, Result(q)) /\ OldStays(After(q), K)
        BY <1>3, <1>4, <1>5, <1>6, <1>8, <1>9, CallOutcome
    <1>11. PICK K : Outcome(object', K, q, r)
        BY <1>2, <1>10
    <1>12. /\ Sound(object)' /\ Parted(object)' /\ Exact(object)' /\ Apart(object)'
           /\ Explored(object, stack)'
           /\ \A j \in DOMAIN roots' : roots'[j] \in Objects' \cup {Nil}
           /\ Steady
        BY <1>1, <1>2, <1>7, <1>10, <1>11, CallHeap
    <1>13. \A j \in DOMAIN roots' : j < ri' => Fresh(roots[j])'
        <2>1. \A x : Fresh(x)' <=> Fresh(x)
            BY <1>1, SameSpaces
        <2>2. Fresh(r) /\ \A j \in DOMAIN roots : j < ri => Fresh(roots[j])
            BY <1>1, <1>4, <1>11 DEF Faithful, Outcome
        <2>3. \A j \in DOMAIN roots : j \in Nat /\ ri \in Nat
            <3>1. roots \in Seq(Pointer) /\ ri \in Nat
                BY <1>4, IndexFacts DEF Typed, Registers
            <3> QED
                BY <3>1, LenProperties
        <2>4. \A j \in DOMAIN roots : j < ri' => j < ri \/ j = ri
            BY <1>1, <2>3
        <2>5. DOMAIN roots' = DOMAIN roots
              /\ \A j \in DOMAIN roots : roots'[j] = IF j = ri THEN r ELSE roots[j]
            BY <1>2
        <2> QED
            BY <2>1, <2>2, <2>4, <2>5
    <1>14. pc' = "roots"
        BY <1>1
    <1> QED
        BY <1>12, <1>13, <1>14 DEF Faithful, AtRest

\* A root that is null or leads to the old generation stays.
LEMMA SkipRootHeap ==
    ASSUME HInv, SkipRoot, Sane'
    PROVE  Faithful' /\ Steady
    <1>1. /\ pc = "roots" /\ pc' = pc /\ ri <= Len(roots)
          /\ object' = object /\ roots' = roots /\ stack' = stack /\ new_from' = new_from
        BY DEF SkipRoot, space
    <1>7. ri' = ri + 1
        BY DEF SkipRoot
    <1>2. Sane /\ ~(roots[ri] < old) /\ Collecting
        <2>1. /\ ~TakenForYoung(roots[ri])
              /\ mishap' = FirstMishap(Overlooked(roots[ri]), "root not copied")
            BY DEF SkipRoot
        <2>2. Sane /\ ~Overlooked(roots[ri])
            BY <2>1 DEF Sane, FirstMishap
        <2> QED
            BY <1>1, <2>1, <2>2 DEF Overlooked, Collecting
    <1>3. Faithful /\ Typed
        BY <1>2, InCollectionFacts
    <1>4. /\ Sound(object)' /\ Parted(object)' /\ (Exact(object) => Exact(object)')
          /\ Apart(object)'
          /\ \A j \in DOMAIN roots' : roots'[j] \in Objects' \cup {Nil}
          /\ ~AtRest' /\ Steady
        BY <1>1, <1>2, StillHeap
    <1>5. Exact(object)' /\ Explored(object, stack)'
        BY <1>1, <1>3, <1>4 DEF Faithful, Explored, Awaited
    <1>6. \A j \in DOMAIN roots' : j < ri' => Fresh(roots[j])'
        <2>1. \A x : Fresh(x)' <=> Fresh(x)
            BY <1>1, SameSpaces
        <2>2. ri \in DOMAIN roots /\ roots[ri] \in Pointer
            BY <1>1, <1>3, RootFacts
        <2>3. roots[ri] \in Nat /\ old \in Nat
            BY <2>2, PointerFacts
        <2>4. Fresh(roots[ri])
            BY <1>2, <2>3 DEF Fresh
        <2>5. \A j \in DOMAIN roots : j < ri => Fresh(roots[j])
            BY <1>1, <1>3 DEF Faithful
        <2>6. \A j \in DOMAIN roots : j \in Nat /\ ri \in Nat
            <3>1. roots \in Seq(Pointer) /\ ri \in Nat
                BY <1>3, IndexFacts DEF Typed, Registers
            <3> QED
                BY <3>1, LenProperties
        <2>7. \A j \in DOMAIN roots : j < ri' => j < ri \/ j = ri
            BY <1>7, <2>6
        <2> QED
            BY <1>1, <2>1, <2>4, <2>5, <2>7
    <1> QED
        BY <1>1, <1>4, <1>5, <1>6 DEF Faithful

\* After the last root no call is active: all that was copied is explored.
LEMMA RootsDoneHeap ==
    ASSUME HInv, RootsDone, Sane'
    PROVE  Faithful' /\ Steady
    <1>1. /\ pc = "roots" /\ pc' = "remembered" /\ ri > Len(roots) /\ ri' = 1 /\ fi' = 1
          /\ object' = object /\ roots' = roots /\ stack' = stack /\ rs' = rs
          /\ new_from' = new_from /\ mishap' = mishap
        BY DEF RootsDone, space, copying
    <1>2. Sane /\ Collecting
        BY <1>1 DEF Sane, Collecting
    <1>3. Faithful /\ Typed /\ Remembers /\ Memory(object)
        BY <1>2, InCollectionFacts
    <1>4. /\ Sound(object)' /\ Parted(object)' /\ (Exact(object) => Exact(object)')
          /\ Apart(object)'
          /\ \A j \in DOMAIN roots' : roots'[j] \in Objects' \cup {Nil}
          /\ ~AtRest' /\ Steady /\ Old' = Old
        BY <1>1, <1>2, StillHeap
    <1>5. Exact(object)' /\ Explored(object, stack)'
        BY <1>1, <1>3, <1>4 DEF Faithful, Explored, Awaited
    <1>6. \A x : Fresh(x)' <=> Fresh(x)
        BY <1>1, SameSpaces
    <1>7. \A j \in DOMAIN roots' : Fresh(roots[j])'
        <2>1. roots \in Seq(Pointer) /\ ri \in Nat
            BY <1>3, IndexFacts DEF Typed, Registers
        <2>2. \A j \in DOMAIN roots : j < ri
            BY <1>1, <2>1, LenProperties
        <2> QED
            BY <1>1, <1>3, <1>6, <2>2 DEF Faithful
    <1>8. Pending'
        <2> SUFFICES ASSUME NEW a \in Old, NEW k \in DOMAIN object[a].field,
                            ~Fresh(object[a].field[k])
                     PROVE  \E j \in DOMAIN rs : rs[j] = a /\ (j > 1 \/ (j = 1 /\ k >= 1))
            BY <1>1, <1>4, <1>6 DEF Pending
        <2>1. a \in Objects /\ object[a].field \in [1..object[a].clss.num_fields -> Pointer]
              /\ object[a].clss.num_fields \in Nat
            BY <1>3, ObjectFacts DEF Old
        <2>2. object[a].field[k] \in Pointer /\ k \in Nat /\ k >= 1
            BY <2>1
        <2>3. object[a].field[k] # Nil /\ object[a].field[k] < old
            <3>1. object[a].field[k] \in Nat /\ old \in Nat
                BY <2>2, PointerFacts
            <3> QED
                BY <3>1 DEF Fresh
        <2>4. a \in Range(rs)
            BY <1>3, <2>3 DEF Remembers
        <2>5. PICK j \in DOMAIN rs : rs[j] = a
            BY <2>4 DEF Range
        <2>6. j \in Nat /\ j >= 1
            <3>1. rs \in Seq(Pointer)
                BY <1>3, IndexFacts DEF Typed
            <3> QED
                BY <3>1, LenProperties
        <2> QED
            BY <2>2, <2>5, <2>6
    <1> QED
        BY <1>1, <1>4, <1>5, <1>7, <1>8 DEF Faithful


\* What the call on top of the stack awaits is its own field, or what is below.
LEMMA AwaitedOnTop ==
    ASSUME Typed, stack # <<>>, NEW a, NEW k, Awaited(stack, a, k)
    PROVE  Awaited(Callers, a, k) \/ (a = Top.obj /\ Top.i <= k)
    <1>1. stack \in Seq(Frame)
        BY DEF Typed, Frames
    <1>2. Len(stack) \in Nat /\ Len(stack) # 0 /\ DOMAIN stack = 1..Len(stack)
        BY <1>1, LenProperties, EmptySeq
    <1>3. /\ Callers \in Seq(Frame) /\ Len(Callers) = Len(stack) - 1
          /\ \A j \in 1..(Len(stack) - 1) : Callers[j] = stack[j]
        BY <1>1, <1>2, FrontProperties DEF Callers
    <1>4. DOMAIN Callers = 1..(Len(stack) - 1)
        BY <1>3, LenProperties
    <1>5. PICK j \in DOMAIN stack : stack[j].obj = a /\ stack[j].i <= k
        BY DEF Awaited
    <1>6. j = Len(stack) \/ j \in 1..(Len(stack) - 1)
        BY <1>2
    <1>7. CASE j = Len(stack)
        BY <1>5, <1>7 DEF Top
    <1>8. CASE j \in 1..(Len(stack) - 1)
        BY <1>3, <1>4, <1>5, <1>8 DEF Awaited
    <1> QED
        BY <1>6, <1>7, <1>8

\* A call on the stack goes on only in the two loops that make calls.
LEMMA TopGoesOn ==
    ASSUME Typed, stack # <<>>,
           Top.i \notin DOMAIN object[Top.obj].field \/ ~Blocked(object[Top.obj].field[Top.i])
    PROVE  Collecting /\ pc \in {"roots", "remembered"}
    <1>1. Collecting
        BY DEF Typed, StaysBlocked
    <1>2. pc \notin {"run", "adjust", "major", "alloc"}
        BY TopFacts
    <1> QED
        BY <1>1, <1>2 DEF Collecting

\* A call for a reference of an object that has been copied.
LEMMA CopyFieldHeap ==
    ASSUME HInv, CopyField, Sane'
    PROVE  Faithful' /\ Steady
    <1>1. /\ stack # <<>> /\ Top.i \in DOMAIN object[Top.obj].field
          /\ roots' = roots /\ pc' = pc /\ ri' = ri /\ new_from' = new_from
          /\ UNCHANGED record
        BY DEF CopyField, space
    <1>2. PICK f : f = [obj |-> Top.obj, i |-> Top.i + 1]
        OBVIOUS
    <1>3. PICK fs : fs = Append(Callers, f)
        OBVIOUS
    <1>4. PICK q, r : /\ q = object[Top.obj].field[Top.i] /\ Call(q, fs) /\ object' = After(q)
                      /\ r = Result(q)
        BY <1>2, <1>3 DEF CopyField
    <1>5. Typed
        BY DEF HInv, IInv
    <1>6. ~Blocked(q) /\ rs' = rs
        BY <1>4, <1>5, RecordsStay
    <1>7. Collecting /\ pc \in {"roots", "remembered"}
        BY <1>1, <1>4, <1>5, <1>6, TopGoesOn
    <1>8. CopyMishap(q) = "none" /\ Sane
        BY <1>4, CallWell DEF Call, Sane
    <1>9. InCollection /\ Faithful /\ CopiesInOrder /\ Memory(object)
        BY <1>7, <1>8, InCollectionFacts
    <1>10. /\ Top \in Frame /\ Callers \in Seq(Frame)
        BY <1>1, <1>5, TopFacts
    <1>11. f \in Frame /\ f.obj = Top.obj /\ f.i = Top.i + 1 /\ Top.i \in Nat
        BY <1>2, <1>10 DEF Frame
    <1>12. fs \in Seq(Frame)
        BY <1>3, <1>10, <1>11, AppendProperties
    <1>13. PICK gs : gs = IF ToSurvivor(q) THEN Append(fs, [obj |-> q, i |-> 1]) ELSE fs
        OBVIOUS
    <1>14. stack' = gs
        BY <1>4, <1>13 DEF Call
    <1>15. ASSUME NEW a \in Objects, object[a].forwarded, NEW k \in DOMAIN object[a].field
           PROVE  \/ object[a].field[k] = q
                  \/ object[a].field[k] = Nil
                  \/ object[a].field[k] \in Objects /\ object[object[a].field[k]].forwarded
                  \/ Awaited(fs, a, k)
        <2>1. Explored(object, stack)
            BY <1>7, <1>9 DEF Faithful
        <2>2. CASE Awaited(stack, a, k)
            <3>1. Awaited(Callers, a, k) => Awaited(fs, a, k)
                BY <1>3, <1>10, <1>11, AwaitedBelow
            <3>2. CASE a = Top.obj /\ Top.i <= k
                <4>1. k \in Nat
                    <5>1. object[a].field \in [1..object[a].clss.num_fields -> Pointer]
                          /\ object[a].clss.num_fields \in Nat
                        BY <1>9, ObjectFacts
                    <5> QED
                        BY <5>1
                <4>2. k = Top.i \/ k >= f.i
                    BY <1>11, <3>2, <4>1
                <4>3. k >= f.i => Awaited(fs, a, k)
                    BY <1>3, <1>10, <1>11, <3>2, <4>1, AwaitedBelow
                <4> QED
                    BY <1>4, <3>2, <4>2, <4>3
            <3> QED
                BY <1>1, <1>5, <2>2, <3>1, <3>2, AwaitedOnTop
        <2>3. CASE ~Awaited(stack, a, k)
            BY <1>15, <2>1, <2>3 DEF Explored, Objects
        <2> QED
            BY <2>2, <2>3
    <1>16. /\ Explored(After(q), gs)
           /\ \E K : Outcome(After(q), K, q, Result(q)) /\ OldStays(After(q), K)
        BY <1>6, <1>8, <1>9, <1>12, <1>13, <1>15, CallOutcome
    <1>17. PICK K : Outcome(object', K, q, r) /\ OldStays(object', K)
        BY <1>4, <1>16
    <1>18. /\ Sound(object)' /\ Parted(object)' /\ Exact(object)' /\ Apart(object)'
           /\ Explored(object, stack)'
           /\ \A j \in DOMAIN roots' : roots'[j] \in Objects' \cup {Nil}
           /\ Steady
        BY <1>1, <1>4, <1>14, <1>16, <1>17, CallHeap
    <1>19. \A x : Fresh(x)' <=> Fresh(x)
        BY <1>1, SameSpaces
    <1>20. pc' = "roots" => \A j \in DOMAIN roots' : j < ri' => Fresh(roots[j])'
        BY <1>1, <1>9, <1>19 DEF Faithful
    <1>21. pc' = "remembered" => \A j \in DOMAIN roots' : Fresh(roots[j])'
        BY <1>1, <1>9, <1>19 DEF Faithful
    <1>22. pc' = "remembered" => Pending'
        <2> SUFFICES ASSUME pc = "remembered" PROVE Pending'
            BY <1>1
        <2>1. Pending
            BY <1>9 DEF Faithful
        <2>2. Memory(object')
            BY <1>4, <1>5, <1>6, <1>9, AfterFacts
        <2>3. \A a \in DOMAIN object' : a >= old =>
                \/ a \in Old /\ object'[a] = object[a]
                \/ \A k \in DOMAIN object'[a].field : object'[a].field[k] = Nil
            <3>1. K \subseteq Objects
                BY <1>17 DEF Outcome
            <3>2. \A a \in K : a >= old => a \in Old
                BY <1>9, <3>1, ObjectFacts
            <3> QED
                BY <1>17, <3>2 DEF OldStays
        <2> QED
            BY <1>1, <1>6, <2>1, <2>2, <2>3, PendingStays
    <1>23. pc' \in {"roots", "remembered"} /\ ~AtRest'
        BY <1>1, <1>7 DEF AtRest
    <1> QED
        BY <1>18, <1>20, <1>21, <1>22, <1>23 DEF Faithful

\* A call returns: all references of its object have been copied.
LEMMA CopyReturnHeap ==
    ASSUME HInv, CopyReturn, Sane'
    PROVE  Faithful' /\ Steady
    <1>1. /\ stack # <<>> /\ Top.i \notin DOMAIN object[Top.obj].field /\ stack' = Callers
          /\ object' = object /\ roots' = roots /\ new_from' = new_from
          /\ pc' = pc /\ mishap' = mishap /\ rs' = rs /\ ri' = ri /\ fi' = fi
        BY DEF CopyReturn, space, record
    <1>2. Typed
        BY DEF HInv, IInv
    <1>3. Collecting /\ pc \in {"roots", "remembered"} /\ Sane
        BY <1>1, <1>2, TopGoesOn DEF Sane
    <1>4. Faithful /\ Memory(object)
        BY <1>3, InCollectionFacts
    <1>5. /\ Sound(object)' /\ Parted(object)' /\ (Exact(object) => Exact(object)')
          /\ Apart(object)'
          /\ \A j \in DOMAIN roots' : roots'[j] \in Objects' \cup {Nil}
          /\ ~AtRest' /\ Steady /\ Old' = Old
        BY <1>1, <1>3, StillHeap
    <1>6. Explored(object, stack)'
        <2>1. Explored(object, stack)
            BY <1>3, <1>4 DEF Faithful
        <2>2. ASSUME NEW a \in Objects, NEW k \in DOMAIN object[a].field, Awaited(stack, a, k)
              PROVE  Awaited(Callers, a, k)
            <3> SUFFICES ASSUME a = Top.obj, Top.i <= k PROVE FALSE
                BY <1>1, <1>2, <2>2, AwaitedOnTop
            <3>1. object[a].field \in [1..object[a].clss.num_fields -> Pointer]
                  /\ object[a].clss.num_fields \in Nat
                BY <1>4, ObjectFacts
            <3>2. Top.i \in Nat \ {0}
                BY <1>1, <1>2, TopFacts DEF Frame
            <3>3. Top.i \notin 1..object[a].clss.num_fields /\ k \in 1..object[a].clss.num_fields
                BY <1>1, <3>1
            <3> QED
                BY <3>1, <3>2, <3>3
        <2>3. \A a, k : Awaited(Callers, a, k) => Awaited(stack, a, k)'
            BY <1>1 DEF Awaited
        <2> QED
            BY <1>1, <2>1, <2>2, <2>3 DEF Explored, Objects
    <1>7. Exact(object)'
        BY <1>3, <1>4, <1>5 DEF Faithful
    <1>8. \A x : Fresh(x)' <=> Fresh(x)
        BY <1>1, SameSpaces
    <1>9. pc' = "roots" => \A j \in DOMAIN roots' : j < ri' => Fresh(roots[j])'
        BY <1>1, <1>4, <1>8 DEF Faithful
    <1>10. pc' = "remembered" => \A j \in DOMAIN roots' : Fresh(roots[j])'
        BY <1>1, <1>4, <1>8 DEF Faithful
    <1>11. pc' = "remembered" => Pending'
        BY <1>1, <1>4, <1>5, <1>8 DEF Faithful, Pending
    <1>12. pc' \in {"roots", "remembered"}
        BY <1>1, <1>3
    <1> QED
        BY <1>5, <1>6, <1>7, <1>9, <1>10, <1>11, <1>12 DEF Faithful

\* The result of a call stored where the argument was, in an old object.
LEMMA StoredHolds ==
    ASSUME Registers, NEW m, Memory(m), NEW K, NEW q, NEW r, Outcome(m, K, q, r),
           NEW b \in DOMAIN m, b >= old, NEW n, Like(n, m),
           \A a \in DOMAIN m \ {b} : n[a] = m[a],
           \A k \in DOMAIN m[b].field :
                n[b].field[k] = m[b].field[k] \/ (n[b].field[k] = r /\ m[b].field[k] = q),
           NEW gs, Explored(m, gs)
    PROVE  Outcome(n, K, q, r) /\ Explored(n, gs)
    <1>1. DOMAIN n = DOMAIN m
        BY DEF Like
    <1>3. b \in Nat /\ ~(b < old)
        <2>1. b \in Nat
            BY MemoryFacts
        <2> QED
            BY <2>1, Sizes
    <1>4. /\ n[b].forwarded = m[b].forwarded /\ DOMAIN n[b].field = DOMAIN m[b].field
          /\ n[b].forwarding = m[b].forwarding /\ n[b].clss = m[b].clss
        <2>1. m[b].field \in [1..m[b].clss.num_fields -> Pointer]
            BY MemoryFacts
        <2>2. /\ n[b].forwarded = m[b].forwarded /\ n[b].forwarding = m[b].forwarding
              /\ n[b].clss = m[b].clss /\ n[b].field \in [1..m[b].clss.num_fields -> Pointer]
            BY <1>1, LikeFacts
        <2> QED
            BY <2>1, <2>2
    <1>5. /\ Sound(m) /\ Parted(m) /\ Exact(m) /\ Apart(m)
          /\ q \in K \cup {Nil} /\ K \subseteq DOMAIN m
          /\ \A x \in K \cup {Nil} : Means(m, x) = Means(object, x)
          /\ r \in DOMAIN m \cup {Nil} /\ Fresh(r) /\ Means(m, r) = Means(object, q)
        BY DEF Outcome
    <1>6. ASSUME NEW a \in DOMAIN m, NEW k \in DOMAIN m[a].field
          PROVE  /\ n[a].field[k] \in DOMAIN m \cup {Nil}
                 /\ Means(m, n[a].field[k]) = Means(m, m[a].field[k])
        <2>1. n[a].field[k] = m[a].field[k] \/ (n[a].field[k] = r /\ m[a].field[k] = q)
            <3>1. CASE a = b
                BY <3>1
            <3>2. CASE a # b
                BY <3>2
            <3> QED
                BY <3>1, <3>2
        <2>2. m[a].field[k] \in DOMAIN m \cup {Nil}
            BY <1>5 DEF Sound, Within
        <2> QED
            BY <1>5, <2>1, <2>2
    <1>7. /\ Sound(n) /\ \A x : Means(n, x) = Means(m, x)
          /\ \A a \in DOMAIN m : n[a].id = m[a].id /\ Meaning(n, a) = Meaning(m, a)
        <2>1. Sound(m)
            BY <1>5
        <2>2. \A a \in DOMAIN m : \A k \in DOMAIN m[a].field :
                n[a].field[k] \in DOMAIN m \cup {Nil} /\ Means(m, n[a].field[k]) = Means(m, m[a].field[k])
            BY <1>6
        <2> QED
            BY <2>1, <2>2, StoreSound
    <1>8. \A a \in DOMAIN m : n[a].forwarded = m[a].forwarded /\ n[a].forwarding = m[a].forwarding
                              /\ n[a].clss = m[a].clss
        BY <1>4
    <1>9. ~m[b].forwarded /\ ~ToSpace(b) /\ \A a \in DOMAIN m : m[a].forwarded => n[a] = m[a]
        <2>1. ~m[b].forwarded
            BY <1>3, <1>5 DEF Parted
        <2>2. ~ToSpace(b)
            <3>1. /\ new_to + survivor_size <= old /\ new_to \in Nat /\ old \in Nat
                  /\ survivor_size \in Nat
                BY SpaceFacts, Sizes
            <3> QED
                BY <1>3, <3>1 DEF ToSpace
        <2> QED
            BY <2>1, <2>2
    <1>10. Parted(n)
        BY <1>1, <1>5, <1>8 DEF Parted
    <1>11. Exact(n)
        <2> SUFFICES ASSUME NEW c \in DOMAIN m, ToSpace(c)
                     PROVE  \E a \in DOMAIN m :
                                n[a].forwarded /\ n[a].forwarding = c /\ n[a].field = n[c].field
            BY <1>1 DEF Exact
        <2>1. n[c] = m[c]
            BY <1>9
        <2>2. PICK a \in DOMAIN m : m[a].forwarded /\ m[a].forwarding = c /\ m[a].field = m[c].field
            BY <1>5 DEF Exact
        <2>3. n[a] = m[a]
            BY <1>9, <2>2
        <2> QED
            BY <2>1, <2>2, <2>3
    <1>12. Apart(n)
        BY <1>1, <1>5, <1>8 DEF Apart
    <1>13. Explored(n, gs)
        BY <1>1, <1>8, <1>9 DEF Explored
    <1>14. Outcome(n, K, q, r)
        <2>1. /\ K \subseteq Objects /\ \A x \in Objects : x < old => x \in K
              /\ \A j \in DOMAIN roots : roots[j] \in K \cup {Nil}
              /\ \A a \in DOMAIN m : \E c \in Objects :
                    m[a].id = object[c].id /\ Meaning(m, a) = Meaning(object, c)
            BY DEF Outcome
        <2>2. \A a \in DOMAIN n : \E c \in Objects :
                n[a].id = object[c].id /\ Meaning(n, a) = Meaning(object, c)
            <3> SUFFICES ASSUME NEW a \in DOMAIN m
                         PROVE  \E c \in Objects :
                                    n[a].id = object[c].id /\ Meaning(n, a) = Meaning(object, c)
                BY <1>1
            <3>1. n[a].id = m[a].id /\ Meaning(n, a) = Meaning(m, a)
                BY <1>7
            <3> QED
                BY <2>1, <3>1
        <2>3. \A x \in K \cup {Nil} : Means(n, x) = Means(object, x)
            BY <1>5, <1>7
        <2>4. Means(n, r) = Means(object, q)
            BY <1>5, <1>7
        <2>5. Sound(n) /\ r \in DOMAIN n \cup {Nil} /\ Fresh(r) /\ q \in K \cup {Nil}
              /\ K \subseteq DOMAIN n
            BY <1>1, <1>5, <1>7
        <2> QED
            BY <1>10, <1>11, <1>12, <2>1, <2>2, <2>3, <2>4, <2>5 DEF Outcome
    <1> QED
        BY <1>13, <1>14

\* The reference that the loop over the remembered set rewrites is rewritten in
\* the memory that the call has left.
LEMMA StoredOutcome ==
    ASSUME Registers, NEW m, Memory(m), NEW K, NEW q, NEW r \in Pointer, Outcome(m, K, q, r),
           NEW b \in DOMAIN m, b >= old, NEW i \in DOMAIN m[b].field, m[b].field[i] = q,
           NEW gs, Explored(m, gs)
    PROVE  /\ Outcome([m EXCEPT ![b].field[i] = r], K, q, r)
           /\ Explored([m EXCEPT ![b].field[i] = r], gs)
    <1>1. PICK n : n = [m EXCEPT ![b].field[i] = r]
        OBVIOUS
    <1>2. Like(n, m)
        BY <1>1, StorePointer
    <1>3. \A a \in DOMAIN m \ {b} : n[a] = m[a]
        BY <1>1
    <1>4. n[b].field = [m[b].field EXCEPT ![i] = r]
        <2>1. m[b] \in Records
            BY MemoryFacts
        <2> QED
            BY <1>1, <2>1 DEF Records
    <1>5. ASSUME NEW k \in DOMAIN m[b].field
          PROVE  n[b].field[k] = m[b].field[k] \/ (n[b].field[k] = r /\ m[b].field[k] = q)
        BY <1>4
    <1>6. Outcome(n, K, q, r) /\ Explored(n, gs)
        BY <1>2, <1>3, <1>5, StoredHolds
    <1> QED
        BY <1>1, <1>6


--------------------------------------------------------------------------------
(* The loop over the remembered set.                                       *)

\* Going on to the next reference of a remembered object: whatever will be cleared
\* is still ahead of the loop.
LEMMA PendingMoves ==
    ASSUME new_from' = new_from, rs' = rs, ri' = ri, fi' = fi + 1,
           \A a \in Old' : \A k \in DOMAIN object'[a].field : ~Fresh(object'[a].field[k]) =>
                \E j \in DOMAIN rs : rs[j] = a /\ (j > ri \/ (j = ri /\ k >= fi + 1))
    PROVE  Pending'
    BY SameSpaces DEF Pending

\* Replacing a reference of a remembered object by the copy it leads to.
LEMMA CopyRecordedFieldHeap ==
    ASSUME HInv, Sane', AtRecordField, NEW b, b = old_root, NEW q, q = object[b].field[fi],
           Call(q, <<>>), object' = [After(q) EXCEPT ![b].field[fi] = Result(q)], fi' = fi + 1,
           UNCHANGED <<space, roots, pc, call, ri, p>>
    PROVE  Faithful' /\ Steady
    <1>1. /\ pc = "remembered" /\ stack = <<>> /\ ri <= Len(rs) /\ b \in Objects /\ b = rs[ri]
          /\ fi \in DOMAIN object[b].field /\ pc' = "remembered" /\ new_from' = new_from
          /\ roots' = roots /\ ri' = ri
        BY DEF AtRecordField, AtRecord, old_root, space
    <1>2. CopyMishap(q) = "none" /\ Sane /\ Collecting
        BY <1>1, CallWell DEF Call, Sane, Collecting
    <1>3. /\ InCollection /\ Faithful /\ Typed /\ InTime /\ Remembers /\ CopiesInOrder
          /\ Memory(object)
        BY <1>1, <1>2, InCollectionFacts
    <1>4. ~Blocked(q) /\ rs' = rs /\ Registers
        BY <1>3, RecordsStay DEF Typed
    <1>5. PICK r : r = Result(q)
        OBVIOUS
    <1>6. PICK gs : gs = IF ToSurvivor(q) THEN Append(<<>>, [obj |-> q, i |-> 1]) ELSE <<>>
        OBVIOUS
    <1>7. stack' = gs
        BY <1>6 DEF Call
    <1>8. ASSUME NEW a \in Objects, object[a].forwarded, NEW k \in DOMAIN object[a].field
          PROVE  \/ object[a].field[k] = q
                 \/ object[a].field[k] = Nil
                 \/ object[a].field[k] \in Objects /\ object[object[a].field[k]].forwarded
                 \/ Awaited(<<>>, a, k)
        <2>1. Explored(object, <<>>)
            BY <1>1, <1>3 DEF Faithful
        <2> QED
            BY <1>8, <2>1 DEF Explored, Objects
    <1>9. <<>> \in Seq(Frame)
        BY EmptySeq
    <1>10. Explored(After(q), gs) /\ \E K : Outcome(After(q), K, q, Result(q)) /\ OldStays(After(q), K)
        BY <1>2, <1>3, <1>4, <1>6, <1>8, <1>9, CallOutcome
    <1>11. PICK m : m = After(q)
        OBVIOUS
    <1>12. PICK K : Outcome(m, K, q, r) /\ OldStays(m, K)
        BY <1>5, <1>10, <1>11
    <1>13. r \in Pointer /\ Memory(m)
        BY <1>1, <1>3, <1>4, <1>5, <1>11, AfterFacts
    <1>14. /\ ri \in DOMAIN rs /\ DOMAIN rs \subseteq Nat /\ ri \in Nat /\ fi \in Nat
           /\ b \in Range(rs)
        <2>1. /\ DOMAIN rs = 1..Len(rs) /\ Len(rs) \in Nat /\ ri \in Nat \ {0} /\ fi \in Nat \ {0}
            BY <1>4, IndexFacts, LenProperties
        <2>2. ri \in DOMAIN rs
            <3>1. ri <= Len(rs)
                BY <1>1
            <3>2. ri \in 1..Len(rs)
                BY <2>1, <3>1
            <3> QED
                BY <2>1, <3>2
        <2>3. b \in Range(rs)
            BY <1>1, <2>2, Zenon DEF Range
        <2> QED
            BY <2>1, <2>2, <2>3
    <1>15. b \in DOMAIN m /\ m[b] = object[b]
        BY <1>2, <1>3, <1>4, <1>11, <1>14, AfterTimely
    <1>16. b >= old
        <2>1. b \in Old
            BY <1>3, <1>14 DEF Remembers
        <2> QED
            BY <1>1, <1>3, <2>1, ObjectFacts
    <1>17. object' = [m EXCEPT ![b].field[fi] = r]
        BY <1>5, <1>11
    <1>18. Outcome(object', K, q, r) /\ Explored(object', gs)
        <2>1. fi \in DOMAIN m[b].field /\ m[b].field[fi] = q /\ Explored(m, gs)
            BY <1>1, <1>10, <1>11, <1>15
        <2>2. /\ Outcome([m EXCEPT ![b].field[fi] = r], K, q, r)
              /\ Explored([m EXCEPT ![b].field[fi] = r], gs)
            BY <1>4, <1>12, <1>13, <1>15, <1>16, <2>1, StoredOutcome
        <2> QED
            BY <1>17, <2>2
    <1>19. /\ Sound(object)' /\ Parted(object)' /\ Exact(object)' /\ Apart(object)'
           /\ Explored(object, stack)'
           /\ \A j \in DOMAIN roots' : roots'[j] \in Objects' \cup {Nil}
           /\ Steady
        BY <1>1, <1>7, <1>18, CallHeap
    <1>20. \A x : Fresh(x)' <=> Fresh(x)
        BY <1>1, SameSpaces
    <1>21. \A j \in DOMAIN roots' : Fresh(roots[j])'
        BY <1>1, <1>3, <1>20 DEF Faithful
    <1>22. Pending'
        <2>1. DOMAIN object' = DOMAIN m /\ \A a \in DOMAIN m \ {b} : object'[a] = m[a]
            BY <1>17
        <2>2. \A a \in Old' : a \in DOMAIN m /\ a >= old
            <3>1. \A a \in DOMAIN m : a \in Nat
                BY <1>13, MemoryFacts
            <3> QED
                BY <2>1, <3>1, Sizes DEF Old, Young, Objects
        <2>3. object'[b].field = [object[b].field EXCEPT ![fi] = r]
            <3>1. m[b] \in Records
                BY <1>13, <1>15, MemoryFacts
            <3> QED
                BY <1>15, <1>17, <3>1 DEF Records
        <2>4. object[b].field \in [1..object[b].clss.num_fields -> Pointer]
              /\ object[b].clss.num_fields \in Nat
            BY <1>1, <1>3, ObjectFacts
        <2>5. Fresh(r) /\ K \subseteq Objects /\ \A a \in K : a >= old => a \in Old
            <3>1. Fresh(r) /\ K \subseteq Objects
                BY <1>12 DEF Outcome
            <3> QED
                BY <1>3, <3>1, ObjectFacts
        <2>6. Pending
            BY <1>1, <1>3 DEF Faithful
        <2> SUFFICES ASSUME NEW a \in Old', NEW k \in DOMAIN object'[a].field,
                            ~Fresh(object'[a].field[k])
                     PROVE  \E j \in DOMAIN rs : rs[j] = a /\ (j > ri \/ (j = ri /\ k >= fi + 1))
            BY <1>1, <1>4, PendingMoves
        <2>7. CASE a = b
            <3>1. k \in DOMAIN object[b].field /\ k \in Nat
                <4>1. DOMAIN object'[b].field = DOMAIN object[b].field
                    BY <2>3
                <4>2. k \in DOMAIN object[b].field
                    BY <2>7, <4>1
                <4>3. PICK n \in Nat : n = object[b].clss.num_fields
                    BY <2>4
                <4>4. DOMAIN object[b].field = 1..n
                    BY <2>4, <4>3
                <4>5. k \in 1..n
                    BY <4>2, <4>4
                <4>6. k \in Nat
                    BY <4>5
                <4> QED
                    BY <4>2, <4>6
            <3>2. k # fi
                BY <1>1, <2>3, <2>5, <2>7
            <3>3. object'[b].field[k] = object[b].field[k]
                BY <2>3, <3>1, <3>2
            <3>4. b \in Old
                BY <1>1, <1>3, <1>16, ObjectFacts
            <3>5. PICK j \in DOMAIN rs : rs[j] = b /\ (j > ri \/ (j = ri /\ k >= fi))
                BY <2>6, <2>7, <3>1, <3>3, <3>4 DEF Pending
            <3>6. k >= fi => k >= fi + 1
                BY <1>14, <3>1, <3>2
            <3> QED
                BY <2>7, <3>5, <3>6
        <2>8. CASE a # b
            <3>1. object'[a] = m[a] /\ a \in DOMAIN m /\ a >= old
                BY <2>1, <2>2, <2>8
            <3>2. a \in K /\ m[a] = object[a]
                BY <1>12, <3>1 DEF OldStays, Fresh
            <3>3. a \in Old /\ object'[a] = object[a]
                BY <2>5, <3>1, <3>2
            <3>4. PICK j \in DOMAIN rs : rs[j] = a /\ (j > ri \/ (j = ri /\ k >= fi))
                BY <2>6, <3>3 DEF Pending
            <3>5. j # ri
                BY <1>1, <2>8, <3>4
            <3> QED
                BY <3>4, <3>5
        <2> QED
            BY <2>7, <2>8
    <1> QED
        BY <1>1, <1>19, <1>21, <1>22 DEF Faithful, AtRest

\* A reference of a remembered object that leads to no young object stays.
LEMMA RecordedFieldHeap ==
    ASSUME HInv, RecordedField, Sane'
    PROVE  Faithful' /\ Steady
    <1>1. /\ pc = "remembered" /\ stack = <<>> /\ ri <= Len(rs) /\ old_root \in Objects
          /\ AtRecordField /\ fi \in DOMAIN object[old_root].field /\ fi' = fi + 1
          /\ UNCHANGED <<space, roots, pc, call, ri, p>>
        BY DEF RecordedField, AtRecordField, AtRecord
    <1>2. PICK b : b = old_root
        OBVIOUS
    <1>3. PICK q : q = object[b].field[fi]
        OBVIOUS
    <1>4. IF q < old
          THEN /\ Call(q, <<>>)
               /\ object' = [After(q) EXCEPT ![b].field[fi] = Result(q)]
               /\ has_new_obj' = (has_new_obj \/ Result(q) < old)
          ELSE UNCHANGED <<object, copying, has_new_obj>>
        BY <1>2, <1>3 DEF RecordedField
    <1>5. CASE q < old
        BY <1>1, <1>2, <1>3, <1>4, <1>5, CopyRecordedFieldHeap
    <1>6. CASE ~(q < old)
        <2>1. /\ object' = object /\ rs' = rs /\ mishap' = mishap /\ stack' = stack
              /\ roots' = roots /\ new_from' = new_from /\ pc' = pc /\ ri' = ri
            BY <1>1, <1>4, <1>6 DEF copying, space
        <2>2. Sane /\ Collecting
            BY <1>1, <2>1 DEF Sane, Collecting
        <2>3. Faithful /\ Memory(object) /\ Typed
            BY <2>2, InCollectionFacts
        <2>4. /\ Sound(object)' /\ Parted(object)' /\ (Exact(object) => Exact(object)')
              /\ Apart(object)'
              /\ \A j \in DOMAIN roots' : roots'[j] \in Objects' \cup {Nil}
              /\ ~AtRest' /\ Steady /\ Old' = Old
            BY <1>1, <2>1, <2>2, StillHeap
        <2>5. Exact(object)' /\ Explored(object, stack)'
            BY <1>1, <2>1, <2>3, <2>4 DEF Faithful, Explored, Awaited
        <2>6. \A x : Fresh(x)' <=> Fresh(x)
            BY <2>1, SameSpaces
        <2>7. \A j \in DOMAIN roots' : Fresh(roots[j])'
            BY <1>1, <2>1, <2>3, <2>6 DEF Faithful
        <2>8. object[b].field \in [1..object[b].clss.num_fields -> Pointer]
              /\ object[b].clss.num_fields \in Nat /\ fi \in Nat
            BY <1>1, <1>2, <2>3, ObjectFacts, IndexFacts DEF Typed
        <2>9. Fresh(q)
            <3>1. q \in Nat /\ old \in Nat
                BY <1>1, <1>2, <1>3, <2>8, PointerFacts
            <3> QED
                BY <1>6, <3>1 DEF Fresh
        <2>10. Pending'
            <3> SUFFICES ASSUME NEW a \in Old, NEW k \in DOMAIN object[a].field,
                                ~Fresh(object[a].field[k])
                         PROVE  \E j \in DOMAIN rs :
                                    rs[j] = a /\ (j > ri \/ (j = ri /\ k >= fi + 1))
                BY <1>1, <2>1, <2>4, <2>6 DEF Pending
            <3>1. Pending
                BY <1>1, <2>3 DEF Faithful
            <3>2. PICK j \in DOMAIN rs : rs[j] = a /\ (j > ri \/ (j = ri /\ k >= fi))
                BY <3>1 DEF Pending
            <3>3. ASSUME j = ri, k >= fi
                  PROVE  k >= fi + 1
                <4>1. a = b
                    BY <1>2, <3>2, <3>3 DEF old_root
                <4>2. k # fi
                    BY <1>3, <2>9, <4>1
                <4>3. k \in Nat
                    BY <2>8, <4>1
                <4> QED
                    BY <2>8, <3>3, <4>2, <4>3
            <3> QED
                BY <3>2, <3>3
        <2> QED
            BY <1>1, <2>1, <2>4, <2>5, <2>7, <2>10 DEF Faithful
    <1> QED
        BY <1>5, <1>6

\* Going on to the next remembered object, and taking out one that has no reference
\* to a young object left.
LEMMA NextRecordHeap ==
    ASSUME HInv, NextRecord, Sane'
    PROVE  Faithful' /\ Steady
    <1>1. /\ pc = "remembered" /\ pc' = pc /\ stack = <<>> /\ ri <= Len(rs)
          /\ old_root \in Objects /\ fi \notin DOMAIN object[old_root].field
          /\ fi' = 1 /\ ri' = NextIndex(has_new_obj) /\ stack' = stack
          /\ roots' = roots /\ new_from' = new_from
        BY DEF NextRecord, AtRecord, space
    <1>2. PICK b : b = old_root
        OBVIOUS
    <1>3. IF has_new_obj
          THEN object' = object /\ rs' = rs /\ mishap' = mishap
          ELSE /\ object' = [object EXCEPT ![b].remembered = FALSE]
               /\ rs' = [i \in 1..(Len(rs) - 1) |-> IF i = ri THEN Nil ELSE rs[i]]
               /\ mishap' = FirstMishap(ri < Len(rs), "NULL in the remembered set")
        BY <1>2 DEF NextRecord
    <1>4. Sane /\ Collecting /\ (~has_new_obj => ~(ri < Len(rs)))
        BY <1>1, <1>3 DEF Sane, FirstMishap, Collecting
    <1>5. Faithful /\ Memory(object) /\ Typed /\ Remembers
        BY <1>4, InCollectionFacts
    <1>6. /\ b \in Objects /\ b = rs[ri] /\ object[b] \in Records /\ object[b].remembered = FALSE
          /\ object[b].field \in [1..object[b].clss.num_fields -> Pointer]
          /\ object[b].clss.num_fields \in Nat
        BY <1>1, <1>2, <1>5, ObjectFacts DEF old_root
    <1>7. DOMAIN object' = DOMAIN object /\ \A a \in DOMAIN object : object'[a] = object[a]
        <2>1. CASE has_new_obj
            BY <1>3, <2>1
        <2>2. CASE ~has_new_obj
            <3>1. object' = [object EXCEPT ![b].remembered = FALSE]
                BY <1>3, <2>2
            <3>2. object'[b] = [object[b] EXCEPT !.remembered = FALSE]
                BY <1>6, <3>1 DEF Objects
            <3>3. object'[b] = object[b]
                <4>1. PICK o : o = object[b]
                    OBVIOUS
                <4>2. o \in Records /\ o.remembered = FALSE
                    BY <1>6, <4>1
                <4>3. [o EXCEPT !.remembered = FALSE] = o
                    BY <4>2 DEF Records
                <4> QED
                    BY <3>2, <4>1, <4>3
            <3> QED
                BY <3>1, <3>3
        <2> QED
            BY <2>1, <2>2
    <1>8. /\ Sound(object)' /\ Parted(object)' /\ (Exact(object) => Exact(object)')
          /\ Apart(object)'
          /\ \A j \in DOMAIN roots' : roots'[j] \in Objects' \cup {Nil}
          /\ ~AtRest' /\ Steady /\ Old' = Old /\ Objects' = Objects
        BY <1>1, <1>4, <1>7, StillHeap
    <1>9. Exact(object)' /\ Explored(object, stack)'
        <2>1. Exact(object) /\ Explored(object, stack)
            BY <1>1, <1>5 DEF Faithful
        <2> QED
            BY <1>1, <1>7, <1>8, <2>1 DEF Explored, Awaited
    <1>10. \A x : Fresh(x)' <=> Fresh(x)
        BY <1>1, SameSpaces
    <1>11. \A j \in DOMAIN roots' : Fresh(roots[j])'
        BY <1>1, <1>5, <1>10 DEF Faithful
    <1>12. /\ rs \in Seq(Pointer) /\ DOMAIN rs = 1..Len(rs) /\ Len(rs) \in Nat /\ ri \in Nat
           /\ fi \in Nat \ {0}
        BY <1>5, IndexFacts, LenProperties DEF Typed
    <1>13. Pending'
        <2> SUFFICES ASSUME NEW a \in Old, NEW k \in DOMAIN object[a].field,
                            ~Fresh(object[a].field[k])
                     PROVE  \E j \in DOMAIN rs' : rs'[j] = a /\ (j > ri' \/ (j = ri' /\ k >= 1))
            BY <1>1, <1>7, <1>8, <1>10 DEF Pending, Old, Objects
        <2>1. Pending
            BY <1>1, <1>5 DEF Faithful
        <2>2. PICK j \in DOMAIN rs : rs[j] = a /\ (j > ri \/ (j = ri /\ k >= fi))
            BY <2>1 DEF Pending
        <2>3. object[a].field \in [1..object[a].clss.num_fields -> Pointer]
              /\ object[a].clss.num_fields \in Nat
            BY <1>5, ObjectFacts DEF Old
        <2>4. k \in Nat \ {0}
            BY <2>3
        <2>5. j > ri
            <3>1. ASSUME j = ri, k >= fi
                  PROVE  FALSE
                <4>1. a = b
                    BY <1>6, <2>2, <3>1
                <4>2. k \in 1..object[b].clss.num_fields /\ fi \notin 1..object[b].clss.num_fields
                    BY <1>1, <1>2, <2>3, <4>1
                <4> QED
                    BY <1>6, <1>12, <2>4, <3>1, <4>2
            <3> QED
                BY <2>2, <3>1
        <2>6. has_new_obj
            BY <1>4, <1>12, <2>5
        <2>7. rs' = rs /\ ri' = ri + 1
            BY <1>1, <1>3, <2>6 DEF NextIndex
        <2>8. j > ri + 1 \/ j = ri + 1
            BY <1>12, <2>5
        <2>9. k >= 1
            BY <2>4
        <2> QED
            BY <2>2, <2>7, <2>8, <2>9
    <1> QED
        BY <1>1, <1>8, <1>9, <1>11, <1>13 DEF Faithful

\* At the end of the loop what is not cleared leads to what is not, but for copies.
LEMMA RecordsDoneHeap ==
    ASSUME HInv, RecordsDone, Sane'
    PROVE  Faithful' /\ Steady
    <1>1. /\ pc = "remembered" /\ pc' = "adjust" /\ stack = <<>> /\ ri > Len(rs) /\ p' = 0
          /\ object' = object /\ roots' = roots /\ new_from' = new_from /\ mishap' = mishap
        BY DEF RecordsDone, copying, space
    <1>2. Sane /\ Collecting
        BY <1>1 DEF Sane, Collecting
    <1>3. Faithful /\ Memory(object) /\ Typed
        BY <1>2, InCollectionFacts
    <1>4. /\ Sound(object)' /\ Parted(object)' /\ (Exact(object) => Exact(object)')
          /\ Apart(object)'
          /\ \A j \in DOMAIN roots' : roots'[j] \in Objects' \cup {Nil}
          /\ ~AtRest' /\ Steady /\ Old' = Old /\ Objects' = Objects
        BY <1>1, <1>2, StillHeap
    <1>5. (\A x : Fresh(x)' <=> Fresh(x)) /\ (\A x : ToSpace(x)' <=> ToSpace(x)) /\ new_to' = new_to
        BY <1>1, SameSpaces
    <1>6. \A j \in DOMAIN roots' : Fresh(roots[j])'
        BY <1>1, <1>3, <1>5 DEF Faithful
    <1>7. Exact(object) /\ Explored(object, <<>>) /\ Pending
        BY <1>1, <1>3 DEF Faithful
    <1>8. ASSUME NEW a \in Objects, NEW k \in DOMAIN object[a].field
          PROVE  /\ a >= old => Fresh(object[a].field[k])
                 /\ ToSpace(a) =>
                    \/ Fresh(object[a].field[k])
                    \/ /\ a >= new_to + 0
                       /\ object[a].field[k] \in Objects /\ object[object[a].field[k]].forwarded
        <2>1. ASSUME a >= old
              PROVE  Fresh(object[a].field[k])
            <3>1. a \in Old
                BY <1>3, <2>1, ObjectFacts
            <3>2. rs \in Seq(Pointer) /\ DOMAIN rs = 1..Len(rs) /\ Len(rs) \in Nat /\ ri \in Nat
                BY <1>3, IndexFacts, LenProperties DEF Typed
            <3>3. \A j \in DOMAIN rs : ~(j > ri) /\ j # ri
                BY <1>1, <3>2
            <3> QED
                BY <1>7, <3>1, <3>3 DEF Pending
        <2>2. ASSUME ToSpace(a)
              PROVE  \/ Fresh(object[a].field[k])
                     \/ /\ a >= new_to + 0
                        /\ object[a].field[k] \in Objects /\ object[object[a].field[k]].forwarded
            <3>1. PICK c \in Objects : object[c].forwarded /\ object[c].field = object[a].field
                BY <1>7, <2>2 DEF Exact, Objects
            <3>2. ~Awaited(<<>>, c, k)
                BY DEF Awaited
            <3>3. \/ object[a].field[k] = Nil
                  \/ object[a].field[k] \in Objects /\ object[object[a].field[k]].forwarded
                BY <1>7, <3>1, <3>2 DEF Explored, Objects
            <3>4. a >= new_to + 0
                BY <1>3, <2>2, SpaceFacts DEF ToSpace, Typed
            <3> QED
                BY <3>3, <3>4 DEF Fresh
        <2> QED
            BY <2>1, <2>2
    <1>9. ToAdjust'
        BY <1>1, <1>4, <1>5, <1>8 DEF ToAdjust
    <1> QED
        BY <1>1, <1>4, <1>6, <1>9 DEF Faithful


--------------------------------------------------------------------------------
(* The end of a collection.                                                *)

\* Where adjust_ref() is: at a copy.
LEMMA AdjustedFacts ==
    ASSUME Typed, CopiesInOrder, pc = "adjust", p < next_forwarding_offset
    PROVE  /\ new_to + p \in Objects /\ ToSpace(new_to + p) /\ new_to + p < old
           /\ p \in Nat /\ new_to \in Nat
    <1>1. p \in Starts /\ Registers
        BY DEF CopiesInOrder, Typed
    <1>2. /\ new_to \in Nat /\ new_to + survivor_size <= old /\ old \in Nat
          /\ next_forwarding_offset \in Nat /\ next_forwarding_offset <= survivor_size
          /\ survivor_size \in Nat
        BY <1>1, SpaceFacts, Sizes
    <1>3. p \in Nat /\ p # next_forwarding_offset /\ new_to + p \in Objects
        BY <1>1, <1>2 DEF Starts
    <1>4. new_to <= new_to + p /\ new_to + p < new_to + survivor_size /\ new_to + p < old
        BY <1>2, <1>3
    <1> QED
        BY <1>2, <1>3, <1>4 DEF ToSpace

\* Replacing the references of one copy.
LEMMA AdjustHeap ==
    ASSUME HInv, Adjust, Sane'
    PROVE  Faithful' /\ Steady
    <1>1. PICK a : a = new_to + p
        OBVIOUS
    <1>2. /\ pc = "adjust" /\ pc' = pc /\ p < next_forwarding_offset
          /\ object' = [object EXCEPT ![a].field = Adjusted(@)]
          /\ p' = p + Size(a) /\ mishap' = mishap /\ roots' = roots /\ new_from' = new_from
        BY <1>1 DEF Adjust, copying, space
    <1>3. Sane /\ Collecting
        BY <1>2 DEF Sane, Collecting
    <1>4. Faithful /\ Memory(object) /\ Typed /\ CopiesInOrder /\ Registers
        BY <1>3, InCollectionFacts DEF Typed
    <1>5. a \in Objects /\ ToSpace(a) /\ a < old /\ p \in Nat /\ new_to \in Nat /\ a \in Nat
        BY <1>1, <1>2, <1>4, AdjustedFacts
    <1>6. /\ Sound(object) /\ Parted(object) /\ Apart(object) /\ ToAdjust
          /\ \A j \in DOMAIN roots : roots[j] \in Objects \cup {Nil} /\ Fresh(roots[j])
        BY <1>2, <1>3, <1>4 DEF Faithful
    <1>7. PICK g : g = Adjusted(object[a].field)
        OBVIOUS
    <1>8. /\ object[a] \in Records /\ DOMAIN g = DOMAIN object[a].field
          /\ object[a].field \in [1..object[a].clss.num_fields -> Pointer]
          /\ g \in [1..object[a].clss.num_fields -> Pointer]
        <2>1. object[a] \in Records /\ object[a].field \in [1..object[a].clss.num_fields -> Pointer]
            BY <1>4, <1>5, ObjectFacts
        <2>2. \A q \in Objects : object[q].forwarding \in Pointer
            BY <1>4, ObjectFacts
        <2> QED
            BY <1>7, <2>1, <2>2 DEF Adjusted
    <1>9. /\ DOMAIN object' = DOMAIN object /\ \A x \in DOMAIN object \ {a} : object'[x] = object[x]
          /\ object'[a] = [object[a] EXCEPT !.field = g]
        BY <1>2, <1>5, <1>7 DEF Objects
    <1>10. PICK m : m = object'
        OBVIOUS
    <1>11. Like(m, object) /\ DOMAIN m = Objects
        BY <1>4, <1>8, <1>9, <1>10, StoreLike DEF Objects
    <1>12. m[a].field = g /\ \A x \in Objects \ {a} : m[x] = object[x]
        BY <1>8, <1>9, <1>10 DEF Records, Objects
    <1>13. \A x \in Objects : /\ m[x].forwarded = object[x].forwarded
                              /\ m[x].forwarding = object[x].forwarding
                              /\ m[x].clss = object[x].clss
        BY <1>4, <1>11, LikeFacts
    <1>14. ASSUME NEW k \in DOMAIN object[a].field
           PROVE  /\ g[k] \in Objects \cup {Nil} /\ Fresh(g[k])
                  /\ Means(object, g[k]) = Means(object, object[a].field[k])
        <2>1. PICK x : x = object[a].field[k]
            OBVIOUS
        <2>2. x \in Objects \cup {Nil} /\ (Fresh(x) \/ (x \in Objects /\ object[x].forwarded))
            BY <1>5, <1>6, <2>1 DEF ToAdjust, Sound, Within, Objects
        <2>3. g[k] = IF x \in Objects /\ object[x].forwarding # Nil THEN object[x].forwarding ELSE x
            BY <1>7, <1>8, <2>1 DEF Adjusted
        <2>4. CASE x \in Objects /\ object[x].forwarded
            <3>1. /\ object[x].forwarding \in Objects /\ object[x].forwarding # Nil
                  /\ Fresh(object[x].forwarding) /\ x # Nil
                  /\ object[object[x].forwarding].id = object[x].id
                BY <1>4, <1>6, <2>4, ObjectFacts DEF Sound, Linked, Parted, Objects
            <3>2. g[k] = object[x].forwarding
                BY <2>3, <2>4, <3>1
            <3> QED
                BY <2>1, <2>4, <3>1, <3>2 DEF Means, Objects
        <2>5. CASE ~(x \in Objects /\ object[x].forwarded)
            <3>1. x \in Objects => object[x].forwarding = Nil
                BY <1>6, <2>5 DEF Sound, Linked, Objects
            <3>2. g[k] = x
                BY <2>3, <3>1
            <3> QED
                BY <2>1, <2>2, <2>5, <3>2
        <2> QED
            BY <2>4, <2>5
    <1>15. /\ Sound(m) /\ \A q : Means(m, q) = Means(object, q)
           /\ \A x \in DOMAIN object : m[x].id = object[x].id /\ Meaning(m, x) = Meaning(object, x)
        <2>1. \A x \in DOMAIN object : \A k \in DOMAIN object[x].field :
                /\ m[x].field[k] \in DOMAIN object \cup {Nil}
                /\ Means(object, m[x].field[k]) = Means(object, object[x].field[k])
            BY <1>6, <1>12, <1>14 DEF Sound, Within, Objects
        <2>2. Sound(object)
            BY <1>6
        <2> QED
            BY <1>4, <1>11, <2>1, <2>2, StoreSound
    <1>16. Parted(m) /\ Apart(m)
        BY <1>6, <1>11, <1>13 DEF Parted, Apart, Objects
    <1>17. /\ Sound(object)' /\ Parted(object)' /\ Apart(object)' /\ Objects' = Objects
        BY <1>2, <1>10, <1>11, <1>15, <1>16, NextMemory
    <1>18. Steady
        BY <1>2, <1>10, <1>11, <1>15 DEF Steady, Objects
    <1>19. (\A x : Fresh(x)' <=> Fresh(x)) /\ (\A x : ToSpace(x)' <=> ToSpace(x)) /\ new_to' = new_to
        BY <1>2, SameSpaces
    <1>20. \A j \in DOMAIN roots' : roots'[j] \in Objects' \cup {Nil} /\ Fresh(roots[j])'
        BY <1>2, <1>6, <1>17, <1>19
    <1>21. ASSUME NEW x \in Objects, NEW k \in DOMAIN m[x].field
           PROVE  /\ x >= old => Fresh(m[x].field[k])
                  /\ ToSpace(x) => \/ Fresh(m[x].field[k])
                                   \/ /\ x >= new_to + p'
                                      /\ m[x].field[k] \in Objects /\ m[m[x].field[k]].forwarded
        <2>1. CASE x = a
            BY <1>8, <1>12, <1>14, <2>1
        <2>2. CASE x # a
            <3>1. m[x] = object[x]
                BY <1>12, <2>2
            <3>2. x >= old => Fresh(m[x].field[k])
                BY <1>6, <3>1 DEF ToAdjust
            <3>3. ASSUME ToSpace(x), ~Fresh(m[x].field[k])
                  PROVE  /\ x >= new_to + p'
                         /\ m[x].field[k] \in Objects /\ m[m[x].field[k]].forwarded
                <4>1. x >= a /\ m[x].field[k] \in Objects /\ object[m[x].field[k]].forwarded
                    BY <1>1, <1>6, <3>1, <3>3 DEF ToAdjust
                <4>2. x \in Nat /\ Size(a) = object[a].clss.size /\ object[a].clss.size \in Nat
                    BY <1>4, <1>5, ObjectFacts
                <4>3. a < x
                    BY <1>5, <2>2, <4>1, <4>2
                <4>4. a + object[a].clss.size <= x
                    BY <1>5, <1>6, <3>3, <4>3 DEF Apart, Objects
                <4>5. new_to + p' = a + object[a].clss.size
                    BY <1>1, <1>2, <1>5, <4>2
                <4>6. x >= new_to + p'
                    BY <1>5, <4>2, <4>4, <4>5
                <4> QED
                    BY <1>13, <4>1, <4>6
            <3> QED
                BY <3>2, <3>3
        <2> QED
            BY <2>1, <2>2
    <1>22. ToAdjust'
        BY <1>10, <1>17, <1>19, <1>21 DEF ToAdjust
    <1> QED
        BY <1>2, <1>17, <1>18, <1>20, <1>22 DEF Faithful, AtRest

\* What the memsets at the end of minor_gc() clear.
LEMMA ClearedFacts ==
    ASSUME Typed, NEW a \in Objects
    PROVE  a \notin Cleared <=> (a >= old \/ ToSpace(a))
    <1>1. /\ a \in Nat /\ object[a].clss.size \in Nat /\ object[a].clss.size >= 32
          /\ Placed(a, object[a].clss.size) /\ (a \in Young <=> a < old) /\ old \in Nat
        BY ObjectFacts, Sizes DEF Typed
    <1>2. /\ new_to \in Nat /\ new_from \in Nat /\ survivor_size \in Nat /\ survivor1 \in Nat
          /\ new_to >= survivor1 /\ new_to + survivor_size <= old
          /\ \/ new_to = survivor1 /\ new_from = survivor2
             \/ new_to = survivor2 /\ new_from = survivor1
          /\ survivor2 = survivor1 + survivor_size
        BY SpaceFacts, Sizes DEF Typed
    <1>3. CASE a >= old
        BY <1>1, <1>3 DEF Cleared
    <1>4. CASE a < old
        <2>1. a \notin Cleared <=>
                ~(a < survivor1) /\ ~(new_from <= a /\ a < new_from + survivor_size)
            BY <1>1, <1>4 DEF Cleared
        <2>2. ASSUME ToSpace(a)
              PROVE  a \notin Cleared
            BY <1>1, <1>2, <2>1, <2>2 DEF ToSpace
        <2>3. ASSUME a \notin Cleared
              PROVE  ToSpace(a)
            <3> DEFINE z == object[a].clss.size
            <3>1. \/ Inside(a, z, new_eden, eden_size)
                  \/ Inside(a, z, survivor1, survivor_size)
                  \/ Inside(a, z, survivor2, survivor_size)
                BY <1>1, <1>4 DEF Placed
            <3>2. z \in Nat /\ z >= 32
                BY <1>1
            <3>3. ~(a < survivor1) /\ ~(new_from <= a /\ a < new_from + survivor_size)
                BY <2>1, <2>3
            <3> HIDE DEF z
            <3>4. ~Inside(a, z, new_eden, eden_size)
                BY <1>1, <3>2, <3>3, Sizes DEF Inside
            <3>5. ~Inside(a, z, new_from, survivor_size)
                BY <1>1, <1>2, <3>2, <3>3 DEF Inside
            <3>6. Inside(a, z, new_to, survivor_size)
                BY <1>2, <3>1, <3>4, <3>5
            <3> QED
                BY <1>1, <1>2, <3>2, <3>6 DEF Inside, ToSpace
        <2> QED
            BY <1>1, <1>4, <2>2, <2>3
    <1> QED
        BY <1>1, <1>3, <1>4

\* The memory after a step, by what is known of it before.
LEMMA NextSound ==
    ASSUME NEW m, object' = m, Sound(m)
    PROVE  Sound(object)'
    BY DEF Sound, Within, Linked, Twins, Meaning, Means

\* A step that leaves of the memory a part that leads nowhere else.
LEMMA PartHeap ==
    ASSUME Sound(object), NEW K, K \subseteq Objects, Shut(object, K), DOMAIN object' = K,
           \A a \in K : object'[a] = object[a],
           roots' = roots, \A j \in DOMAIN roots : roots[j] \in K \cup {Nil}
    PROVE  /\ Sound(object)' /\ Steady /\ Objects' = K
           /\ \A j \in DOMAIN roots' : roots'[j] \in Objects' \cup {Nil}
    <1>1. PICK m : m = object'
        OBVIOUS
    <1>2. DOMAIN m = K /\ (\A a \in K : m[a] = object[a]) /\ K \subseteq DOMAIN object
        BY <1>1 DEF Objects
    <1>3. /\ Sound(m)
          /\ \A x \in K \cup {Nil} : Means(m, x) = Means(object, x)
          /\ \A a \in K : Meaning(m, a) = Meaning(object, a)
        BY <1>2, PartSound
    <1>4. Sound(object)'
        BY <1>1, <1>3, NextSound
    <1>5. Objects' = K
        BY DEF Objects
    <1>6. Steady
        BY <1>1, <1>2, <1>3 DEF Steady
    <1> QED
        BY <1>4, <1>5, <1>6

\* Clearing the spaces that have been copied takes back what no root leads to.
LEMMA AdjustDoneHeap ==
    ASSUME HInv, AdjustDone, Sane'
    PROVE  Faithful' /\ Steady
    <1>1. /\ pc = "adjust" /\ p >= next_forwarding_offset
          /\ object' = [a \in Objects \ Cleared |-> object[a]]
          /\ pc' = IF request = NoRequest THEN "major" ELSE "alloc"
          /\ mishap' = mishap /\ roots' = roots
        BY DEF AdjustDone, copying
    <1>2. Sane /\ Collecting /\ pc' \in {"major", "alloc"}
        BY <1>1 DEF Sane, Collecting
    <1>3. Faithful /\ Memory(object) /\ Typed /\ CopiesInOrder /\ Registers
        BY <1>2, InCollectionFacts DEF Typed
    <1>4. /\ Sound(object) /\ Parted(object) /\ ToAdjust
          /\ \A j \in DOMAIN roots : roots[j] \in Objects \cup {Nil} /\ Fresh(roots[j])
        BY <1>1, <1>2, <1>3 DEF Faithful
    <1>5. PICK K : K = Objects \ Cleared
        OBVIOUS
    <1>6. \A q \in Objects \cup {Nil} : Fresh(q) => q \in K \cup {Nil}
        BY <1>3, <1>5, ClearedFacts DEF Fresh
    <1>7. ASSUME NEW a \in K
          PROVE  /\ \A k \in DOMAIN object[a].field : object[a].field[k] \in K \cup {Nil}
                 /\ ~object[a].forwarded
        <2>1. a \in Objects /\ (a >= old \/ ToSpace(a)) /\ a \in Nat /\ (a \in Young <=> a < old)
            BY <1>3, <1>5, <1>7, ClearedFacts, ObjectFacts
        <2>2. ~object[a].forwarded
            BY <1>4, <2>1, Sizes DEF Parted, Objects
        <2>3. ASSUME ToSpace(a), a >= new_to + p
              PROVE  FALSE
            <3>1. /\ new_to \in Nat /\ new_to + survivor_size <= old /\ old \in Nat
                  /\ survivor_size \in Nat /\ next_forwarding_offset \in Nat
                  /\ forwarding = new_to + next_forwarding_offset
                BY <1>3, SpaceFacts, Sizes
            <3>2. p \in Nat
                <4>1. p \in 0..survivor_size
                    BY <1>3 DEF Registers
                <4> QED
                    BY <3>1, <4>1
            <3>3. a < old
                BY <2>1, <2>3, <3>1 DEF ToSpace
            <3>4. a < forwarding
                BY <1>3, <2>1, <2>3, <3>3 DEF CopiesInOrder
            <3> QED
                BY <1>1, <2>1, <2>3, <3>1, <3>2, <3>4
        <2>4. ASSUME NEW k \in DOMAIN object[a].field
              PROVE  object[a].field[k] \in K \cup {Nil}
            <3>1. Fresh(object[a].field[k])
                BY <1>4, <2>1, <2>3 DEF ToAdjust
            <3>2. object[a].field[k] \in Objects \cup {Nil}
                BY <1>4, <2>1 DEF Sound, Within, Objects
            <3> QED
                BY <1>6, <3>1, <3>2
        <2> QED
            BY <2>2, <2>4
    <1>8. Shut(object, K)
        BY <1>7 DEF Shut
    <1>9. /\ DOMAIN object' = K /\ K \subseteq Objects /\ \A a \in K : object'[a] = object[a]
        BY <1>1, <1>5
    <1>10. \A j \in DOMAIN roots : roots[j] \in K \cup {Nil}
        BY <1>4, <1>6
    <1>11. /\ Sound(object)' /\ Steady /\ Objects' = K
           /\ \A j \in DOMAIN roots' : roots'[j] \in Objects' \cup {Nil}
        BY <1>1, <1>4, <1>8, <1>9, <1>10, PartHeap
    <1>12. \A a \in Objects' : ~object'[a].forwarded
        BY <1>7, <1>9, <1>11
    <1> QED
        BY <1>2, <1>11, <1>12 DEF Faithful, Collecting

\* A major collection outside a minor one.
LEMMA MajorHeap ==
    ASSUME HInv, Major, Sane'
    PROVE  Faithful' /\ Steady
    <1>1. pc = "major" /\ roots' = roots
        BY DEF Major
    <1>2. \/ pc' = "undefined" /\ object' = object /\ mishap' = mishap
          \/ /\ pc' = "run" /\ object' = AfterMajor
             /\ mishap' = IF SweepsNeeded
                          THEN FirstMishap(TRUE, "young reference swept")
                          ELSE FirstMishap(Swept \cap Range(rs) # {}, "remembered object swept")
        BY DEF Major
    <1>3. Sane /\ (pc' = "run" => ~SweepsNeeded)
        BY <1>2 DEF Sane, FirstMishap
    <1>4. Faithful /\ Memory(object)
        BY <1>3 DEF HInv, IInv, Typed
    <1>5. /\ Sound(object) /\ \A a \in Objects : ~object[a].forwarded
          /\ \A j \in DOMAIN roots : roots[j] \in Objects \cup {Nil}
        BY <1>1, <1>4 DEF Faithful, AtRest
    <1>6. CASE pc' = "undefined"
        <2>1. object' = object
            BY <1>2, <1>6
        <2>2. Shut(object, Objects)
            BY <1>5 DEF Shut, Sound, Within, Linked, Objects
        <2>3. /\ Sound(object)' /\ Steady
              /\ \A j \in DOMAIN roots' : roots'[j] \in Objects' \cup {Nil}
            BY <1>1, <1>5, <2>1, <2>2, PartHeap DEF Objects
        <2> QED
            BY <1>6, <2>3 DEF Faithful, Collecting, AtRest
    <1>7. CASE pc' = "run"
        <2>1. /\ object' = AfterMajor /\ Old \subseteq Objects /\ DOMAIN AfterMajor = Objects \ Swept
              /\ \A a \in DOMAIN AfterMajor : AfterMajor[a] = object[a]
            BY <1>2, <1>4, <1>7, KeptFacts
        <2>2. Shut(object, Objects \ Swept)
            BY <1>3, <1>4, <1>5, <1>7, <2>1, SweptShut
        <2>3. \A j \in DOMAIN roots : roots[j] \in (Objects \ Swept) \cup {Nil}
            BY <1>4, <1>5, RootsKept
        <2>4. /\ Sound(object)' /\ Steady /\ Objects' = Objects \ Swept
              /\ \A j \in DOMAIN roots' : roots'[j] \in Objects' \cup {Nil}
            BY <1>1, <1>5, <2>1, <2>2, <2>3, PartHeap
        <2>5. \A a \in Objects' : ~object'[a].forwarded
            BY <1>5, <2>1, <2>4
        <2> QED
            BY <1>7, <2>4, <2>5 DEF Faithful, Collecting
    <1> QED
        BY <1>2, <1>6, <1>7

\* A call that ends the program.
LEMMA StopHeap ==
    ASSUME HInv, CollectionStops, Sane'
    PROVE  Faithful' /\ Steady
    <1>1. object' = object /\ roots' = roots
        BY DEF CollectionStops
    <1>2. pc' \in {"abort", "undefined", "old full"}
        BY DEF CollectionStops
    <1>3. Sane
        BY DEF CollectionStops, FirstMishap, Sane
    <1>4. Sound(object) /\ \A j \in DOMAIN roots : roots[j] \in Objects \cup {Nil}
        BY <1>3 DEF HInv, Faithful
    <1>5. Shut(object, Objects)
        BY <1>4 DEF Shut, Sound, Within, Linked, Objects
    <1>6. /\ Sound(object)' /\ Steady
          /\ \A j \in DOMAIN roots' : roots'[j] \in Objects' \cup {Nil}
        BY <1>1, <1>4, <1>5, PartHeap DEF Objects
    <1> QED
        BY <1>2, <1>6 DEF Faithful, Collecting, AtRest

\* A step that changes nothing.
LEMMA StutterHeap ==
    ASSUME HInv, UNCHANGED vars, Sane'
    PROVE  Faithful'
    <1>1. /\ object' = object /\ roots' = roots /\ pc' = pc /\ mishap' = mishap /\ ri' = ri
          /\ stack' = stack /\ rs' = rs /\ fi' = fi /\ p' = p /\ new_from' = new_from
        BY DEF vars, copying, record, space
    <1>2. Faithful
        BY <1>1 DEF HInv, Sane
    <1>3. (\A x : Fresh(x)' <=> Fresh(x)) /\ (\A x : ToSpace(x)' <=> ToSpace(x)) /\ new_to' = new_to
        BY <1>1, SameSpaces
    <1>4. Objects' = Objects /\ Old' = Old
        BY <1>1, SameMemory
    <1>5. /\ Sound(object) => Sound(object)'
          /\ Parted(object) => Parted(object)'
          /\ Exact(object) => Exact(object)'
          /\ Apart(object) => Apart(object)'
        BY <1>1, NextMemory
    <1>6. Explored(object, stack) => Explored(object, stack)'
        BY <1>1 DEF Explored, Awaited
    <1>7. /\ Pending => Pending'
          /\ ToAdjust => ToAdjust'
        BY <1>1, <1>3, <1>4 DEF Pending, ToAdjust
    <1>8. \A j \in DOMAIN roots' : Fresh(roots[j]) => Fresh(roots[j])'
        BY <1>1, <1>3
    <1> QED
        BY <1>1, <1>2, <1>4, <1>5, <1>6, <1>7, <1>8 DEF Faithful, AtRest, Collecting


--------------------------------------------------------------------------------
(* The steps of the client.                                                *)

\* Without forwarding pointers a memory is sound when its objects refer to its objects,
\* and no two have the same identity.
LEMMA RestSound ==
    ASSUME NEW m,
           \A a \in DOMAIN m :
                /\ ~m[a].forwarded /\ m[a].forwarding = Nil
                /\ \A k \in DOMAIN m[a].field : m[a].field[k] \in DOMAIN m \cup {Nil},
           \A a, b \in DOMAIN m : m[a].id = m[b].id => a = b
    PROVE  Sound(m)
    BY DEF Sound, Within, Linked, Twins

\* Outside a collection no object is forwarded, and all are distinct.
LEMMA AtRestFacts ==
    ASSUME HInv, Sane, AtRest
    PROVE  /\ Faithful /\ Sound(object) /\ Typed /\ Memory(object) /\ Registers /\ InTime
           /\ \A j \in DOMAIN roots : roots[j] \in Objects \cup {Nil}
           /\ \A a \in Objects :
                /\ ~object[a].forwarded /\ object[a].forwarding = Nil
                /\ \A k \in DOMAIN object[a].field : object[a].field[k] \in Objects \cup {Nil}
           /\ \A a, b \in Objects : object[a].id = object[b].id => a = b
    <1>1. Faithful /\ Typed /\ InTime /\ Memory(object) /\ Registers
        BY DEF HInv, IInv, Typed
    <1>2. /\ Sound(object) /\ \A a \in Objects : ~object[a].forwarded
          /\ \A j \in DOMAIN roots : roots[j] \in Objects \cup {Nil}
        BY <1>1 DEF Faithful
    <1>3. \A a \in Objects :
            /\ object[a].forwarding = Nil
            /\ \A k \in DOMAIN object[a].field : object[a].field[k] \in Objects \cup {Nil}
        BY <1>2 DEF Sound, Within, Linked, Objects
    <1>4. \A a, b \in Objects : object[a].id = object[b].id => a = b
        BY <1>2 DEF Sound, Twins, Objects
    <1> QED
        BY <1>1, <1>2, <1>3, <1>4

\* A step to a state in which the client runs.
LEMMA RunHeap ==
    ASSUME pc' = "run", NEW m, object' = m,
           \A a \in DOMAIN m :
                /\ ~m[a].forwarded /\ m[a].forwarding = Nil
                /\ \A k \in DOMAIN m[a].field : m[a].field[k] \in DOMAIN m \cup {Nil},
           \A a, b \in DOMAIN m : m[a].id = m[b].id => a = b,
           \A j \in DOMAIN roots' : roots'[j] \in DOMAIN m \cup {Nil}
    PROVE  Faithful'
    <1>1. Sound(object)'
        BY RestSound, NextSound
    <1>2. Objects' = DOMAIN m
        BY DEF Objects
    <1> QED
        BY <1>1, <1>2 DEF Faithful, Collecting

\* A step that only changes the roots.
LEMMA RootTableHeap ==
    ASSUME HInv, ClientRuns, UNCHANGED <<object, pc>>,
           \A j \in DOMAIN roots' : roots'[j] \in Objects \cup {Nil}
    PROVE  Faithful'
    <1>1. pc = "run" /\ Sane /\ AtRest
        BY DEF ClientRuns, Sane, AtRest
    <1>2. PICK m : m = object
        OBVIOUS
    <1>3. /\ object' = m /\ DOMAIN m = Objects
          /\ \A a \in DOMAIN m :
                /\ ~m[a].forwarded /\ m[a].forwarding = Nil
                /\ \A k \in DOMAIN m[a].field : m[a].field[k] \in DOMAIN m \cup {Nil}
          /\ \A a, b \in DOMAIN m : m[a].id = m[b].id => a = b
        BY <1>1, <1>2, AtRestFacts DEF Objects
    <1> QED
        BY <1>1, <1>3, RunHeap

\* The client adds a root.
LEMMA AddRootHeap ==
    ASSUME HInv, AddRoot
    PROVE  Faithful'
    <1>1. PICK o \in Usable : roots' = Append(roots, o)
        BY DEF AddRoot
    <1>2. ClientRuns /\ UNCHANGED <<object, pc>>
        BY DEF AddRoot
    <1>3. Typed /\ \A j \in DOMAIN roots : roots[j] \in Objects \cup {Nil}
        BY <1>2, AtRestFacts DEF ClientRuns, Sane, AtRest
    <1>4. o \in Objects /\ roots \in Seq(Pointer) /\ o \in Pointer
        BY <1>3, UsableFacts DEF Typed, Registers
    <1>5. /\ DOMAIN roots = 1..Len(roots) /\ DOMAIN roots' = 1..(Len(roots) + 1) /\ Len(roots) \in Nat
          /\ (\A j \in 1..Len(roots) : roots'[j] = roots[j]) /\ roots'[Len(roots) + 1] = o
        BY <1>1, <1>4, AppendProperties, LenProperties
    <1>6. \A j \in DOMAIN roots' : j \in DOMAIN roots \/ j = Len(roots) + 1
        BY <1>5
    <1>7. \A j \in DOMAIN roots' : roots'[j] \in Objects \cup {Nil}
        BY <1>3, <1>4, <1>5, <1>6
    <1> QED
        BY <1>2, <1>7, RootTableHeap

\* The client drops roots.
LEMMA RestoreRootsHeap ==
    ASSUME HInv, RestoreRoots
    PROVE  Faithful'
    <1>1. PICK k \in 0..(Len(roots) - 1) : roots' = SubSeq(roots, 1, k)
        BY DEF RestoreRoots
    <1>2. ClientRuns /\ UNCHANGED <<object, pc>>
        BY DEF RestoreRoots
    <1>3. Typed /\ \A j \in DOMAIN roots : roots[j] \in Objects \cup {Nil}
        BY <1>2, AtRestFacts DEF ClientRuns, Sane, AtRest
    <1>4. roots \in Seq(Pointer) /\ Len(roots) \in Nat /\ DOMAIN roots = 1..Len(roots)
        BY <1>3, LenProperties DEF Typed, Registers
    <1>5. k \in Nat /\ k <= Len(roots)
        BY <1>1, <1>4
    <1>6. DOMAIN roots' = 1..k /\ \A j \in 1..k : roots'[j] = roots[j]
        BY <1>1, <1>4, <1>5, SMT
    <1>7. \A j \in 1..k : j \in DOMAIN roots
        BY <1>4, <1>5
    <1>8. \A j \in DOMAIN roots' : roots'[j] \in Objects \cup {Nil}
        BY <1>3, <1>6, <1>7
    <1> QED
        BY <1>2, <1>8, RootTableHeap

\* The client stores a reference.
LEMMA StoreHeap ==
    ASSUME HInv, gc_update_ptr, Sane'
    PROVE  Faithful'
    <1>1. ClientRuns /\ roots' = roots
        BY DEF gc_update_ptr
    <1>2. PICK obj \in Usable, new_obj \in Usable \cup {Nil} : \E i \in DOMAIN object[obj].field :
            /\ object' = [object EXCEPT ![obj].field[i] = new_obj]
            /\ IF Recorded(obj, new_obj)
               THEN IF Len(rs) < MAX_ROOTS
                    THEN rs' = Append(rs, obj) /\ UNCHANGED <<pc, mishap>>
                    ELSE /\ pc' = "undefined"
                         /\ mishap' = FirstMishap(TRUE, "_rs overflows")
                         /\ UNCHANGED rs
               ELSE /\ mishap' = FirstMishap(obj >= old /\ Overlooked(new_obj),
                                             "reference not recorded")
                    /\ UNCHANGED <<rs, pc>>
        BY DEF gc_update_ptr
    <1>3. PICK i \in DOMAIN object[obj].field :
            object' = [object EXCEPT ![obj].field[i] = new_obj]
        BY <1>2
    <1>4. mishap = "none" /\ pc = "run" /\ Sane /\ AtRest
        BY <1>1 DEF ClientRuns, Sane, AtRest
    <1>5. pc' = "run"
        BY <1>2, <1>4 DEF FirstMishap, Sane
    <1>6. /\ Typed /\ Memory(object)
          /\ \A j \in DOMAIN roots : roots[j] \in Objects \cup {Nil}
          /\ \A a \in Objects :
                /\ ~object[a].forwarded /\ object[a].forwarding = Nil
                /\ \A k \in DOMAIN object[a].field : object[a].field[k] \in Objects \cup {Nil}
          /\ \A a, b \in Objects : object[a].id = object[b].id => a = b
        BY <1>4, AtRestFacts
    <1>7. obj \in Objects /\ new_obj \in Objects \cup {Nil} /\ new_obj \in Pointer
        BY <1>2, <1>6, UsableFacts
    <1>8. PICK m : m = object'
        OBVIOUS
    <1>9. Like(m, object)
        BY <1>3, <1>6, <1>7, <1>8, StorePointer
    <1>10. /\ DOMAIN m = Objects
           /\ \A a \in Objects : /\ m[a].forwarded = object[a].forwarded
                                 /\ m[a].forwarding = object[a].forwarding
                                 /\ m[a].id = object[a].id
        BY <1>6, <1>9, LikeFacts DEF Like, Objects
    <1>11. /\ \A a \in Objects \ {obj} : m[a] = object[a]
           /\ m[obj].field = [object[obj].field EXCEPT ![i] = new_obj]
        <2>1. object[obj] \in Records
            BY <1>6, <1>7, ObjectFacts
        <2> QED
            BY <1>3, <1>7, <1>8, <2>1 DEF Records, Objects
    <1>12. ASSUME NEW a \in Objects, NEW k \in DOMAIN m[a].field
           PROVE  m[a].field[k] \in Objects \cup {Nil}
        <2>1. CASE a = obj
            BY <1>6, <1>7, <1>11, <2>1
        <2>2. CASE a # obj
            BY <1>6, <1>11, <2>2
        <2> QED
            BY <2>1, <2>2
    <1>13. /\ \A a \in DOMAIN m :
                /\ ~m[a].forwarded /\ m[a].forwarding = Nil
                /\ \A k \in DOMAIN m[a].field : m[a].field[k] \in DOMAIN m \cup {Nil}
           /\ \A a, b \in DOMAIN m : m[a].id = m[b].id => a = b
        BY <1>6, <1>10, <1>12
    <1>14. \A j \in DOMAIN roots' : roots'[j] \in DOMAIN m \cup {Nil}
        BY <1>1, <1>6, <1>10
    <1>15. object' = m
        BY <1>8
    <1> HIDE <1>3, <1>2
    <1> QED
        BY <1>5, <1>13, <1>14, <1>15, RunHeap

\* A minor collection starts: nothing is copied yet.
LEMMA StartMinorHeap ==
    ASSUME HInv, ClientRuns, NEW clss, StartMinor(clss), UNCHANGED <<object, new_from, roots, stack>>
    PROVE  Faithful'
    <1>1. Sane /\ AtRest /\ pc = "run" /\ pc' = "roots" /\ ri' = 1
        BY DEF ClientRuns, Sane, AtRest, StartMinor
    <1>2. /\ Sound(object) /\ Typed /\ Memory(object) /\ Registers /\ InTime
          /\ \A j \in DOMAIN roots : roots[j] \in Objects \cup {Nil}
          /\ \A a \in Objects : ~object[a].forwarded
        BY <1>1, AtRestFacts
    <1>3. ASSUME NEW a \in Objects, ToSpace(a)
          PROVE  FALSE
        <2>1. a \in Nat /\ (a \in Young <=> a < old)
            BY <1>2, ObjectFacts
        <2>2. /\ new_to + survivor_size <= old /\ new_to \in Nat /\ old \in Nat
              /\ survivor_size \in Nat
            BY <1>2, SpaceFacts, Sizes
        <2>3. a \in Young
            BY <1>3, <2>1, <2>2 DEF ToSpace
        <2> QED
            BY <1>1, <1>2, <1>3, <2>3 DEF InTime
    <1>4. Parted(object) /\ Exact(object) /\ Apart(object) /\ Explored(object, stack')
        BY <1>2, <1>3 DEF Parted, Exact, Apart, Explored, Objects
    <1>5. PICK m : m = object
        OBVIOUS
    <1>6. /\ Sound(object)' /\ Parted(object)' /\ Exact(object)' /\ Apart(object)'
          /\ Explored(object, stack)' /\ Objects' = Objects
        BY <1>2, <1>4, <1>5, NextMemory DEF Objects
    <1>7. \A j \in DOMAIN roots' : ~(j < ri')
        <2>1. roots \in Seq(Pointer)
            BY <1>2 DEF Registers
        <2>2. DOMAIN roots = 1..Len(roots) /\ Len(roots) \in Nat
            BY <2>1, LenProperties
        <2>3. \A j \in DOMAIN roots : ~(j < 1)
            BY <2>2
        <2> QED
            BY <1>1, <2>3
    <1> QED
        BY <1>1, <1>2, <1>6, <1>7 DEF Faithful, AtRest

\* What a new object changes.
LEMMA PlacedMemory ==
    ASSUME HInv, Sane, AtRest, NEW clss, Place(clss), FreeIdentity # {}
    PROVE  \E t, o :
            /\ DOMAIN object' = Objects \cup {t}
            /\ \A a \in Objects : object'[a] = object[a]
            /\ t \notin Objects => object'[t] = o
            /\ ~o.forwarded /\ o.forwarding = Nil /\ o.field = NullFields(clss.num_fields)
            /\ o.id \in FreeIdentity
    <1> DEFINE t == new_eden + next_free_offset
               o == [clss |-> clss, field |-> NullFields(clss.num_fields), age |-> 0,
                     forwarded |-> FALSE, forwarding |-> Nil, remembered |-> FALSE,
                     id |-> Min(FreeIdentity), born |-> collections]
    <1>1. object' = [a \in Objects \cup {t} |-> IF a \in Objects THEN object[a] ELSE o]
        BY DEF Place
    <1>2. Min(FreeIdentity) \in FreeIdentity
        <2>1. FreeIdentity \subseteq Nat
            BY SizeAssumption DEF FreeIdentity, Identity
        <2>2. \E x \in FreeIdentity : \A y \in FreeIdentity : x <= y
            BY <2>1, LeastElement
        <2> QED
            BY <2>2, Zenon DEF Min
    <1>3. ~o.forwarded /\ o.forwarding = Nil /\ o.field = NullFields(clss.num_fields)
          /\ o.id = Min(FreeIdentity)
        OBVIOUS
    <1> HIDE DEF o, t
    <1>4. /\ DOMAIN object' = Objects \cup {t}
          /\ \A a \in Objects : object'[a] = object[a]
          /\ t \notin Objects => object'[t] = o
        BY <1>1
    <1> QED
        BY <1>2, <1>3, <1>4

\* The object that is allocated has null references and takes the place of no other.
LEMMA PlaceHeap ==
    ASSUME HInv, Sane, AtRest, NEW clss, Place(clss), FreeIdentity # {}, pc' = "run", roots' = roots
    PROVE  Faithful'
    <1>1. PICK t, o :
            /\ DOMAIN object' = Objects \cup {t}
            /\ \A a \in Objects : object'[a] = object[a]
            /\ t \notin Objects => object'[t] = o
            /\ ~o.forwarded /\ o.forwarding = Nil /\ o.field = NullFields(clss.num_fields)
            /\ o.id \in FreeIdentity
        BY PlacedMemory
    <1>2. PICK m : m = object'
        OBVIOUS
    <1>3. /\ \A j \in DOMAIN roots : roots[j] \in Objects \cup {Nil}
          /\ \A a \in Objects :
                /\ ~object[a].forwarded /\ object[a].forwarding = Nil
                /\ \A k \in DOMAIN object[a].field : object[a].field[k] \in Objects \cup {Nil}
          /\ \A a, b \in Objects : object[a].id = object[b].id => a = b
        BY AtRestFacts
    <1>4. \A a \in Objects : object[a].id # o.id
        BY <1>1 DEF FreeIdentity
    <1>5. DOMAIN m = Objects \cup {t} /\ (\A a \in Objects : m[a] = object[a])
          /\ (t \notin Objects => m[t] = o)
        BY <1>1, <1>2
    <1>6. \A k \in DOMAIN o.field : o.field[k] = Nil
        BY <1>1 DEF NullFields
    <1>7. \A a \in DOMAIN m :
            /\ ~m[a].forwarded /\ m[a].forwarding = Nil
            /\ \A k \in DOMAIN m[a].field : m[a].field[k] \in DOMAIN m \cup {Nil}
        <2> SUFFICES ASSUME NEW a \in DOMAIN m
                     PROVE  /\ ~m[a].forwarded /\ m[a].forwarding = Nil
                            /\ \A k \in DOMAIN m[a].field : m[a].field[k] \in DOMAIN m \cup {Nil}
            OBVIOUS
        <2>1. CASE a \in Objects
            BY <1>3, <1>5, <2>1
        <2>2. CASE a \notin Objects
            BY <1>1, <1>5, <1>6, <2>2
        <2> QED
            BY <2>1, <2>2
    <1>8. \A a, b \in DOMAIN m : m[a].id = m[b].id => a = b
        BY <1>3, <1>4, <1>5
    <1>9. \A j \in DOMAIN roots' : roots'[j] \in DOMAIN m \cup {Nil}
        BY <1>3, <1>5
    <1> QED
        BY <1>2, <1>7, <1>8, <1>9, RunHeap

\* The client allocates an object.
LEMMA AllocHeap ==
    ASSUME HInv, gc_alloc, Sane'
    PROVE  Faithful'
    <1>1. ClientRuns /\ FreeIdentity # {} /\ UNCHANGED <<new_from, roots, stack>>
        BY DEF gc_alloc
    <1>2. PICK clss \in Class :
            \/ /\ Fits(clss)
               /\ Place(clss)
               /\ UNCHANGED <<next_forwarding_offset, pc, call, ri>>
            \/ /\ ~Fits(clss)
               /\ StartMinor(clss)
               /\ UNCHANGED <<object, next_free_offset>>
        BY DEF gc_alloc
    <1>3. Sane /\ AtRest /\ pc = "run"
        BY <1>1 DEF ClientRuns, Sane, AtRest
    <1>4. CASE Place(clss) /\ pc' = pc
        BY <1>1, <1>3, <1>4, PlaceHeap
    <1>5. CASE StartMinor(clss) /\ object' = object
        BY <1>1, <1>5, StartMinorHeap
    <1> QED
        BY <1>2, <1>4, <1>5

\* The client starts a collection.
LEMMA CollectNowHeap ==
    ASSUME HInv, CollectNow
    PROVE  Faithful'
    BY StartMinorHeap DEF CollectNow, space

\* gc_alloc tries again after the collection.
LEMMA AllocAgainHeap ==
    ASSUME HInv, AllocAgain, Sane'
    PROVE  Faithful'
    <1>1. pc = "alloc" /\ roots' = roots /\ mishap' = mishap
        BY DEF AllocAgain, copying
    <1>2. Sane /\ AtRest /\ FreeIdentity # {}
        BY <1>1 DEF Sane, AtRest, HInv, IInv, Typed, Requests
    <1>3. CASE Fits(request)
        <2>1. Place(request) /\ pc' = "run"
            BY <1>3 DEF AllocAgain
        <2> QED
            BY <1>1, <1>2, <2>1, PlaceHeap
    <1>4. CASE ~Fits(request)
        <2>1. pc' = "abort" /\ object' = object
            BY <1>4 DEF AllocAgain
        <2>2. Sound(object) /\ \A j \in DOMAIN roots : roots[j] \in Objects \cup {Nil}
            BY <1>2, AtRestFacts
        <2>3. PICK m : m = object
            OBVIOUS
        <2>4. Sound(object)' /\ Objects' = Objects
            BY <2>1, <2>2, <2>3, NextSound DEF Objects
        <2> QED
            BY <1>1, <2>1, <2>2, <2>4 DEF Faithful, AtRest, Collecting
    <1> QED
        BY <1>3, <1>4


--------------------------------------------------------------------------------
(* The invariant of the heap.                                              *)

\* What goes wrong is not forgotten.
LEMMA SaneBefore ==
    ASSUME Next, Sane'
    PROVE  Sane
    <1>1. ASSUME NEW q, NEW fs, Call(q, fs)
          PROVE  Sane
        BY <1>1, CallWell DEF Call, Sane
    <1>2. CASE AddRoot \/ RestoreRoots \/ gc_update_ptr \/ CollectNow \/ gc_alloc
        BY <1>2 DEF AddRoot, RestoreRoots, gc_update_ptr, CollectNow, gc_alloc, ClientRuns, Sane
    <1>3. CASE AllocAgain \/ RootsDone \/ CopyReturn \/ RecordsDone \/ Adjust \/ AdjustDone
        BY <1>3 DEF AllocAgain, RootsDone, CopyReturn, RecordsDone, Adjust, AdjustDone, copying, Sane
    <1>4. CASE CopyRoot
        BY <1>1, <1>4 DEF CopyRoot
    <1>5. CASE CopyField
        BY <1>1, <1>5 DEF CopyField
    <1>6. CASE SkipRoot
        BY <1>6 DEF SkipRoot, FirstMishap, Sane
    <1>7. CASE CollectionStops
        BY <1>7 DEF CollectionStops, FirstMishap, Sane
    <1>8. CASE RecordedField
        <2>1. (\E q : Call(q, <<>>)) \/ UNCHANGED copying
            BY <1>8 DEF RecordedField
        <2> QED
            BY <1>1, <2>1 DEF copying, Sane
    <1>9. CASE NextRecord
        BY <1>9 DEF NextRecord, FirstMishap, Sane
    <1>10. CASE Major
        BY <1>10 DEF Major, FirstMishap, Sane
    <1>11. CASE Ended
        BY <1>11 DEF Ended, vars, copying, Sane
    <1> QED
        BY <1>2, <1>3, <1>4, <1>5, <1>6, <1>7, <1>8, <1>9, <1>10, <1>11
        DEF Next, Client, Copy, Remembered, AdjustRefs

\* At the start there is no object.
LEMMA HInvInit == Init => HInv
    <1> SUFFICES ASSUME Init PROVE HInv
        OBVIOUS
    <1>1. DOMAIN object = {} /\ Objects = {} /\ pc = "run" /\ roots = <<>>
        BY DEF Init, Objects
    <1>2. DOMAIN roots = {}
        BY <1>1, EmptySeq
    <1>3. Sound(object)
        BY <1>1 DEF Sound, Within, Linked, Twins
    <1>4. Faithful
        BY <1>1, <1>2, <1>3 DEF Faithful, Collecting
    <1> QED
        BY <1>4, IInvInit DEF HInv

\* The steps of a collection.
CollectionStep == Copy \/ Remembered \/ AdjustRefs \/ Major

\* Each step of a collection keeps the invariant, and is a steady one.
LEMMA CollectionStepHeap ==
    ASSUME HInv, CollectionStep, Sane'
    PROVE  Faithful' /\ Steady
    <1>1. CASE Copy
        BY <1>1, CopyRootHeap, SkipRootHeap, RootsDoneHeap, CopyFieldHeap, CopyReturnHeap, StopHeap
        DEF Copy
    <1>2. CASE Remembered
        BY <1>2, RecordedFieldHeap, NextRecordHeap, RecordsDoneHeap DEF Remembered
    <1>3. CASE AdjustRefs
        BY <1>3, AdjustHeap, AdjustDoneHeap DEF AdjustRefs
    <1>4. CASE Major
        BY <1>4, MajorHeap
    <1> QED
        BY <1>1, <1>2, <1>3, <1>4 DEF CollectionStep

\* Every step keeps the invariant.
LEMMA HInvStep == HInv /\ [Next]_vars => HInv'
    <1> SUFFICES ASSUME HInv, [Next]_vars
                 PROVE  HInv'
        OBVIOUS
    <1>1. IInv'
        BY IInvStep DEF HInv
    <1>2. ASSUME Sane'
          PROVE  Faithful'
        <2>1. CASE Client
            BY <1>2, <2>1, AddRootHeap, RestoreRootsHeap, StoreHeap, CollectNowHeap, AllocHeap
            DEF Client
        <2>2. CASE AllocAgain
            BY <1>2, <2>2, AllocAgainHeap
        <2>3. CASE CollectionStep
            BY <1>2, <2>3, CollectionStepHeap
        <2>4. CASE UNCHANGED vars
            BY <1>2, <2>4, StutterHeap
        <2> QED
            BY <2>1, <2>2, <2>3, <2>4 DEF Next, Ended, CollectionStep
    <1> QED
        BY <1>1, <1>2 DEF HInv

\* The invariant of the heap holds in every state.
LEMMA HeapInvariance == Spec => []HInv
    BY HInvInit, HInvStep, PTL DEF Spec

--------------------------------------------------------------------------------
(* The steps on the client's heap.                                         *)

\* The instance's graph operators are those of the collector.
LEMMA HeapOperators ==
    /\ Heap!Nil = Nil
    /\ \A k : Heap!NullFields(k) = NullFields(k)
    /\ Heap!Live = Reachable(Identity, field, root_ids)
    <1>1. Heap!Nil = Nil
        BY DEF Heap!Nil, Nil
    <1>2. \A k : Heap!NullFields(k) = NullFields(k)
        BY <1>1 DEF Heap!NullFields, NullFields
    <1>3. Heap!Live = Reachable(Identity, field, root_ids)
        BY <1>1 DEF Heap!Live, Heap!Reachable, Reachable, Heap!Closed, Closed
    <1> QED
        BY <1>1, <1>2, <1>3

\* What the client sees of an object is what any of its copies stands for.
FieldIsMeaning ==
    /\ allocated \subseteq Identity
    /\ field = [i \in Identity |-> field[i]]
    /\ \A i \in Identity \ allocated : field[i] = NullFields(0)
    /\ \A a \in Objects : field[object[a].id] = Meaning(object, a)

\* What the client sees in a field is what its pointer stands for.
LEMMA FieldOf == Memory(object) /\ Sound(object) => FieldIsMeaning
    <1> SUFFICES ASSUME Memory(object), Sound(object)
                 PROVE  FieldIsMeaning
        OBVIOUS
    <1>1. allocated \subseteq Identity
        BY ObjectFacts DEF allocated
    <1>2. field = [i \in Identity |-> field[i]]
        BY DEF field
    <1>3. \A i \in Identity \ allocated : field[i] = NullFields(0)
        BY DEF field
    <1>4. ASSUME NEW a \in Objects
          PROVE  field[object[a].id] = Meaning(object, a)
        <2>1. PICK i : i = object[a].id
            OBVIOUS
        <2>2. i \in Identity /\ i \in allocated
            BY <1>1, <2>1 DEF allocated
        <2>3. PICK c : c = CHOOSE x \in Objects : object[x].id = i
            OBVIOUS
        <2>4. c \in Objects /\ object[c].id = i
            BY <2>1, <2>3, Zenon
        <2>5. Meaning(object, c) = Meaning(object, a)
            BY <2>1, <2>4 DEF Sound, Linked, Twins, Objects
        <2>6. field[i] = [k \in DOMAIN object[c].field |-> Designated(object[c].field[k])]
            BY <2>2, <2>3 DEF field
        <2>7. \A x : Designated(x) = Means(object, x)
            BY DEF Designated, Means, Objects
        <2>8. field[i] = Meaning(object, c)
            BY <2>6, <2>7 DEF Meaning
        <2> QED
            BY <2>1, <2>5, <2>8
    <1> QED
        BY <1>1, <1>2, <1>3, <1>4 DEF FieldIsMeaning

\* The same in the next state.
LEMMA FieldOfNext == (Memory(object) /\ Sound(object))' => FieldIsMeaning'
    BY FieldOf, PTL

\* What the proof of a step uses of the invariant.
LEMMA FaithfulFacts ==
    ASSUME HInv, HInv', Sane, Sane'
    PROVE  /\ Faithful /\ Faithful' /\ Memory(object) /\ Memory(object)'
           /\ FieldIsMeaning /\ FieldIsMeaning'
    <1>1. Faithful /\ Faithful' /\ Memory(object) /\ Memory(object)'
        BY DEF HInv, IInv, Typed
    <1>2. Sound(object) /\ Sound(object)'
        BY <1>1 DEF Faithful
    <1> QED
        BY <1>1, <1>2, FieldOf, FieldOfNext

\* A steady step takes back objects that nothing leads to, and does nothing else.
LEMMA SteadyReclaims ==
    ASSUME HInv, HInv', Sane, Sane', Steady
    PROVE  Heap!Reclaim
    <1>1. /\ Faithful /\ Faithful' /\ Memory(object) /\ Memory(object)'
          /\ FieldIsMeaning /\ FieldIsMeaning'
        BY FaithfulFacts
    <1>2. PICK m, A, F, R : /\ m = object' /\ A = allocated' /\ F = field' /\ R = root_ids'
        OBVIOUS
    <1>3. /\ Sound(m) /\ DOMAIN m = Objects' /\ A = {m[a].id : a \in DOMAIN m}
          /\ \A j \in DOMAIN roots' : roots'[j] \in DOMAIN m \cup {Nil}
        <2>1. Sound(object)' /\ \A j \in DOMAIN roots' : roots'[j] \in Objects' \cup {Nil}
            BY <1>1 DEF Faithful
        <2>2. Sound(object') /\ Objects' = DOMAIN object'
            BY <2>1 DEF Sound, Within, Linked, Twins, Meaning, Means, Objects
        <2>3. allocated' = {object'[a].id : a \in DOMAIN object'}
            BY DEF allocated, Objects
        <2> QED
            BY <1>2, <2>1, <2>2, <2>3
    <1>4. /\ \A a \in DOMAIN m : \E b \in Objects :
                m[a].id = object[b].id /\ Meaning(m, a) = Meaning(object, b)
          /\ DOMAIN roots' = DOMAIN roots
          /\ \A j \in DOMAIN roots : Means(m, roots'[j]) = Means(object, roots[j])
        BY <1>2 DEF Steady, Objects
    <1>5. /\ A \subseteq Identity /\ F = [i \in Identity |-> F[i]]
          /\ \A i \in Identity \ A : F[i] = NullFields(0)
          /\ \A a \in DOMAIN m : F[m[a].id] = Meaning(m, a)
        <2>1. /\ allocated' \subseteq Identity /\ field' = [i \in Identity |-> field'[i]]
              /\ \A i \in Identity \ allocated' : field'[i] = NullFields(0)
              /\ \A a \in Objects' : field'[object'[a].id] = Meaning(object', a)
            BY <1>1 DEF FieldIsMeaning, Meaning, Means
        <2> QED
            BY <1>2, <1>3, <2>1
    <1>6. /\ allocated \subseteq Identity
          /\ \A i \in Identity \ allocated : field[i] = NullFields(0)
          /\ \A a \in Objects : field[object[a].id] = Meaning(object, a)
          /\ allocated = {object[a].id : a \in Objects}
        BY <1>1 DEF FieldIsMeaning, allocated
    <1>7. A \subseteq allocated
        BY <1>3, <1>4, <1>6
    <1>8. ASSUME NEW i \in A
          PROVE  F[i] = field[i]
        <2>1. PICK a \in DOMAIN m : i = m[a].id
            BY <1>3
        <2>2. PICK b \in Objects : m[a].id = object[b].id /\ Meaning(m, a) = Meaning(object, b)
            BY <1>4
        <2> QED
            BY <1>5, <1>6, <2>1, <2>2
    <1>9. R = root_ids
        <2>1. R = {Means(m, roots'[j]) : j \in DOMAIN roots'} \ {Nil}
            <3>1. root_ids' = {Means(object', roots'[j]) : j \in DOMAIN roots'} \ {Nil}
                BY DEF root_ids, Designated, Means, Objects
            <3> QED
                BY <1>2, <3>1
        <2>2. root_ids = {Means(object, roots[j]) : j \in DOMAIN roots} \ {Nil}
            BY DEF root_ids, Designated, Means, Objects
        <2> QED
            BY <1>4, <2>1, <2>2
    <1>10. \A x \in DOMAIN m \cup {Nil} : Means(m, x) \in A \cup {Nil}
        BY <1>3 DEF Means
    <1>11. R \subseteq A \cup {Nil}
        <2>1. R = {Means(m, roots'[j]) : j \in DOMAIN roots'} \ {Nil}
            <3>1. root_ids' = {Means(object', roots'[j]) : j \in DOMAIN roots'} \ {Nil}
                BY DEF root_ids, Designated, Means, Objects
            <3> QED
                BY <1>2, <3>1
        <2> QED
            BY <1>3, <1>10, <2>1
    <1>12. Closed(field, A)
        <2> SUFFICES ASSUME NEW i \in A, NEW k \in DOMAIN field[i]
                     PROVE  field[i][k] \in A \cup {Nil}
            BY DEF Closed
        <2>1. PICK a \in DOMAIN m : i = m[a].id
            BY <1>3
        <2>2. field[i] = Meaning(m, a)
            BY <1>5, <1>8, <2>1
        <2>3. k \in DOMAIN m[a].field /\ field[i][k] = Means(m, m[a].field[k])
            BY <2>2 DEF Meaning
        <2>4. m[a].field[k] \in DOMAIN m \cup {Nil}
            BY <1>3, <2>3 DEF Sound, Within
        <2> QED
            BY <1>10, <2>3, <2>4
    <1>13. Heap!Live \subseteq A
        <2>1. A \in SUBSET Identity /\ root_ids \subseteq A \cup {Nil}
            BY <1>5, <1>9, <1>11
        <2>2. Reachable(Identity, field, root_ids) \subseteq A
            BY <1>12, <2>1, ReachableIsLeast
        <2> QED
            BY <2>2, HeapOperators
    <1>14. PICK G : G = allocated \ A
        OBVIOUS
    <1>15. G \in SUBSET (allocated \ Heap!Live) /\ A = allocated \ G
        BY <1>7, <1>13, <1>14
    <1>16. F = [i \in Identity |-> IF i \in G THEN NullFields(0) ELSE field[i]]
        <2>1. \A i \in Identity : F[i] = IF i \in G THEN NullFields(0) ELSE field[i]
            <3> SUFFICES ASSUME NEW i \in Identity
                         PROVE  F[i] = IF i \in G THEN NullFields(0) ELSE field[i]
                OBVIOUS
            <3>1. CASE i \in A
                BY <1>8, <1>14, <3>1
            <3>2. CASE i \notin A
                BY <1>5, <1>6, <1>14, <3>2
            <3> QED
                BY <3>1, <3>2
        <2> QED
            BY <1>5, <2>1
    <1>17. /\ allocated' = allocated \ G
           /\ field' = [i \in Identity |-> IF i \in G THEN Heap!NullFields(0) ELSE field[i]]
           /\ root_ids' = root_ids
        BY <1>2, <1>9, <1>15, <1>16, HeapOperators
    <1> QED
        BY <1>15, <1>17 DEF Heap!Reclaim

\* gc_alloc() after a collection.
LEMMA AllocAgainOnHeap ==
    ASSUME HInv, HInv', Sane, Sane', AllocAgain
    PROVE  Heap!Alloc \/ Heap!Reclaim
    <1>1. pc = "alloc" /\ roots' = roots
        BY DEF AllocAgain
    <1>2. AtRest /\ FreeIdentity # {} /\ request \in Class
        BY <1>1 DEF AtRest, HInv, IInv, Typed, Requests, Registers
    <1>3. /\ Sound(object) /\ \A j \in DOMAIN roots : roots[j] \in Objects \cup {Nil}
          /\ \A a \in Objects :
                /\ ~object[a].forwarded /\ object[a].forwarding = Nil
                /\ \A k \in DOMAIN object[a].field : object[a].field[k] \in Objects \cup {Nil}
        BY <1>2, AtRestFacts
    <1>4. ASSUME DOMAIN object' = Objects, \A a \in Objects : object'[a] = object[a]
          PROVE  Heap!Reclaim
        <2>1. Shut(object, Objects)
            BY <1>3 DEF Shut
        <2>2. Steady
            BY <1>1, <1>3, <1>4, <2>1, PartHeap
        <2> QED
            BY <2>2, SteadyReclaims
    <1>5. CASE ~Fits(request)
        BY <1>4, <1>5 DEF AllocAgain, Objects
    <1>6. CASE Fits(request)
        <2>1. Place(request)
            BY <1>6 DEF AllocAgain
        <2>2. PICK t, o :
                /\ DOMAIN object' = Objects \cup {t}
                /\ \A a \in Objects : object'[a] = object[a]
                /\ t \notin Objects => object'[t] = o
                /\ ~o.forwarded /\ o.forwarding = Nil /\ o.field = NullFields(request.num_fields)
                /\ o.id \in FreeIdentity
            BY <1>2, <2>1, PlacedMemory
        <2>3. CASE t \in Objects
            <3>1. DOMAIN object' = Objects
                BY <2>2, <2>3
            <3> QED
                BY <1>4, <2>2, <3>1
        <2>4. CASE t \notin Objects
            <3>1. PICK m, A, F, n :
                    m = object' /\ A = allocated' /\ F = field' /\ n = request.num_fields
                OBVIOUS
            <3>2. /\ DOMAIN m = Objects \cup {t} /\ m[t] = o
                  /\ \A a \in Objects : m[a] = object[a]
                BY <2>2, <2>4, <3>1
            <3>3. FieldIsMeaning /\ FieldIsMeaning' /\ Memory(object)
                BY FaithfulFacts
            <3>4. /\ F = [i \in Identity |-> F[i]]
                  /\ \A i \in Identity \ A : F[i] = NullFields(0)
                  /\ \A a \in DOMAIN m : F[m[a].id] = Meaning(m, a)
                  /\ A = {m[a].id : a \in DOMAIN m}
                <4>1. /\ field' = [i \in Identity |-> field'[i]]
                      /\ \A i \in Identity \ allocated' : field'[i] = NullFields(0)
                      /\ \A a \in DOMAIN object' : field'[object'[a].id] = Meaning(object', a)
                    BY <3>3 DEF FieldIsMeaning, Meaning, Means, Objects
                <4>2. allocated' = {object'[a].id : a \in DOMAIN object'}
                    BY DEF allocated, Objects
                <4> QED
                    BY <3>1, <4>1, <4>2
            <3>5. /\ allocated \subseteq Identity /\ field = [i \in Identity |-> field[i]]
                  /\ \A i \in Identity \ allocated : field[i] = NullFields(0)
                  /\ \A a \in Objects : field[object[a].id] = Meaning(object, a)
                  /\ allocated = {object[a].id : a \in Objects}
                BY <3>3 DEF FieldIsMeaning, allocated
            <3>6. \A x \in Objects \cup {Nil} : Means(m, x) = Means(object, x)
                BY <3>2 DEF Means, Objects
            <3>7. \A a \in Objects : Meaning(m, a) = Meaning(object, a)
                BY <1>3, <3>2, <3>6 DEF Meaning
            <3>8. PICK i : i = o.id
                OBVIOUS
            <3>9. i \in Identity \ allocated
                BY <2>2, <3>5, <3>8 DEF FreeIdentity
            <3>10. A = allocated \cup {i}
                BY <3>2, <3>4, <3>5, <3>8
            <3>11. F[i] = NullFields(n)
                <4>1. F[i] = Meaning(m, t)
                    BY <3>2, <3>4, <3>8
                <4>2. m[t].field = NullFields(n)
                    BY <2>2, <3>1, <3>2
                <4> QED
                    BY <4>1, <4>2 DEF Meaning, Means, NullFields
            <3>12. ASSUME NEW x \in Identity, x # i
                   PROVE  F[x] = field[x]
                <4>1. CASE x \in allocated
                    <5>1. PICK a \in Objects : x = object[a].id
                        BY <3>5, <4>1
                    <5>2. a \in DOMAIN m /\ m[a] = object[a]
                        BY <3>2
                    <5>3. F[m[a].id] = Meaning(m, a)
                        BY <3>4, <5>2
                    <5>4. field[x] = Meaning(object, a)
                        BY <3>5, <5>1
                    <5>5. Meaning(m, a) = Meaning(object, a)
                        BY <3>7
                    <5> QED
                        BY <5>1, <5>2, <5>3, <5>4, <5>5
                <4>2. CASE x \notin allocated
                    BY <3>4, <3>5, <3>10, <3>12, <4>2
                <4> QED
                    BY <4>1, <4>2
            <3>13. F = [field EXCEPT ![i] = NullFields(n)]
                <4>1. [field EXCEPT ![i] = NullFields(n)] =
                        [x \in Identity |-> IF x = i THEN NullFields(n) ELSE field[x]]
                    BY <3>5
                <4> QED
                    BY <3>4, <3>11, <3>12, <4>1
            <3>14. root_ids' = root_ids
                <4>1. root_ids' = {Means(object', roots'[j]) : j \in DOMAIN roots'} \ {Nil}
                    BY DEF root_ids, Designated, Means, Objects
                <4>2. root_ids = {Means(object, roots[j]) : j \in DOMAIN roots} \ {Nil}
                    BY DEF root_ids, Designated, Means, Objects
                <4>3. root_ids' = {Means(m, roots[j]) : j \in DOMAIN roots} \ {Nil}
                    BY <1>1, <3>1, <4>1
                <4> QED
                    BY <1>3, <3>6, <4>2, <4>3
            <3>15. i \in Identity \ allocated /\ n \in {c.num_fields : c \in Class}
                BY <1>2, <3>1, <3>9
            <3>16. /\ allocated' = allocated \cup {i}
                   /\ field' = [field EXCEPT ![i] = Heap!NullFields(n)]
                BY <3>1, <3>10, <3>13, HeapOperators
            <3> QED
                BY <3>14, <3>15, <3>16 DEF Heap!Alloc
        <2> QED
            BY <2>3, <2>4
    <1> QED
        BY <1>5, <1>6

\* Until something goes wrong a collection takes back only objects that no root leads
\* to, and changes no reference that the client can see: not when it copies an object
\* to one of the survivor spaces or promotes it, redirects the roots, the remembered
\* objects and the copies to where it is now, clears the spaces or sweeps cells.
THEOREM CollectionCorrect == Spec => CollectsOnlyGarbage
    <1>1. HInv /\ HInv' /\ [Next]_vars =>
            [pc # "run" /\ Sane' => UNCHANGED Heap!vars \/ Heap!Reclaim \/ Heap!Alloc]_vars
        <2> SUFFICES ASSUME HInv, HInv', Next, ~UNCHANGED vars, pc # "run", Sane'
                     PROVE  Heap!Reclaim \/ Heap!Alloc
            OBVIOUS
        <2>1. Sane
            BY SaneBefore
        <2>2. ~Client
            BY DEF Client, AddRoot, RestoreRoots, gc_update_ptr, CollectNow, gc_alloc, ClientRuns
        <2>3. AllocAgain \/ CollectionStep
            BY <2>2 DEF Next, Ended, CollectionStep
        <2>4. CASE AllocAgain
            BY <2>1, <2>4, AllocAgainOnHeap
        <2>5. CASE CollectionStep
            <3>1. Steady
                BY <2>5, CollectionStepHeap
            <3> QED
                BY <2>1, <3>1, SteadyReclaims
        <2> QED
            BY <2>3, <2>4, <2>5
    <1> QED
        BY <1>1, HeapInvariance, PTL DEF Spec, CollectsOnlyGarbage

================================================================================
