----------------------------- MODULE CopyingProofs -----------------------------
(***************************************************************************)
(* What holds of Copying for every heap size, set of classes and number of *)
(* roots.  Up to the second collection nothing that is read has been       *)
(* overwritten, and exactly the reachable objects are copied; at all times *)
(* no object and no pointer is outside the heap.                           *)
(***************************************************************************)
EXTENDS Copying, Sequences, FiniteSetTheorems, SequenceTheorems, TLAPS

--------------------------------------------------------------------------------
(* The object graph.                                                       *)

\* Storing NULL in every reference field makes an object of the class (the
\* loop of gc_alloc), which refers to nothing.
LEMMA NullFieldsType ==
    ASSUME NEW Classes, NEW k \in Classes, NEW Pointers, Nil \in Pointers
    PROVE  /\ NullFields(k) \in ObjectOf(Classes, Pointers)
           /\ DOMAIN NullFields(k) = 1..k
           /\ \A i \in 1..k : NullFields(k)[i] = Nil
    BY DEF NullFields, ObjectOf

\* Storing a pointer in a field of an object leaves an object of its class.
LEMMA StoreType ==
    ASSUME NEW Classes, NEW Pointers, NEW o \in ObjectOf(Classes, Pointers),
           NEW i, NEW pointer \in Pointers
    PROVE  [o EXCEPT ![i] = pointer] \in ObjectOf(Classes, Pointers)
    <1>1. PICK k \in Classes : o \in [1..k -> Pointers]
        BY DEF ObjectOf
    <1>2. [o EXCEPT ![i] = pointer] \in [1..k -> Pointers]
        BY <1>1
    <1> QED
        BY <1>2 DEF ObjectOf

\* The fields of an object are numbered by positive integers.
LEMMA DomainType ==
    ASSUME NEW Classes \in SUBSET Nat, NEW Pointers,
           NEW o \in ObjectOf(Classes, Pointers)
    PROVE  \E k \in Classes : DOMAIN o = 1..k
    BY DEF ObjectOf

\* What is closed and holds the roots holds everything reachable: this is why
\* a collector that keeps such a set takes back only garbage.
LEMMA ReachableIsLeast ==
    ASSUME NEW Nodes, NEW f, NEW R, NEW S \in SUBSET Nodes,
           R \subseteq S \cup {Nil}, Closed(f, S)
    PROVE  Reachable(Nodes, f, R) \subseteq S
    BY DEF Reachable

\* The roots are reachable.
LEMMA RootsAreReachable ==
    ASSUME NEW Nodes, NEW f, NEW R, R \subseteq Nodes \cup {Nil}
    PROVE  R \subseteq Reachable(Nodes, f, R) \cup {Nil}
    BY DEF Reachable

\* Following a reference from a reachable object leads to a reachable object.
LEMMA ReachableIsClosed ==
    ASSUME NEW Nodes, NEW f, NEW R, Closed(f, Nodes)
    PROVE  Closed(f, Reachable(Nodes, f, R))
    <1> SUFFICES ASSUME NEW n \in Reachable(Nodes, f, R),
                        NEW i \in DOMAIN f[n], f[n][i] # Nil
                 PROVE  f[n][i] \in Reachable(Nodes, f, R)
        BY DEF Closed
    <1>1. n \in Nodes
        BY DEF Reachable
    <1>2. f[n][i] \in Nodes
        BY <1>1 DEF Closed
    <1>3. ASSUME NEW S \in SUBSET Nodes, R \subseteq S \cup {Nil},
                 Closed(f, S)
          PROVE  f[n][i] \in S
        <2>1. n \in S
            BY <1>3, ReachableIsLeast
        <2> QED
            BY <1>3, <2>1 DEF Closed
    <1> QED
        BY <1>2, <1>3 DEF Reachable

--------------------------------------------------------------------------------
Cell == [clss : Class, field : ObjectOf(Nat, Nat), forwarded : BOOLEAN,
         forwarding : Nat, id : Identity]
Frame == [obj : Nat, i : Nat \ {0}]

InLower(a) == a < heap + heap_half_size
Lower == {a \in Objects : InLower(a)}
Upper == {a \in Objects : ~InLower(a)}
Forwarded == {a \in current : object[a].forwarded}

Bytes(S) == UNION {a..(a + Size(a) - 1) : a \in S}

Types ==
    /\ Objects \in SUBSET Nat
    /\ \A a \in Objects : object[a] \in Cell
    /\ next_free_offset \in 0..heap_half_size
    /\ roots \in Seq(Nat)
    /\ stack \in Seq(Frame)
    /\ ri \in Nat \ {0}
    /\ request \in Class \cup {NoRequest}
    /\ collections \in Nat

\* Objects do not overlap; those in the lower half are in what has been given out,
\* which has room for each of the identities in use.
Memory ==
    /\ \A a \in Objects : a >= heap
    /\ \A a, b \in Objects : a < b => a + Size(a) <= b
    /\ \A a \in Lower : a + Size(a) <= heap + next_free_offset
    /\ current \subseteq Objects
    /\ \A a, b \in current : object[a].id = object[b].id => a = b
    /\ Cardinality(allocated) * heap_half_size <= (MaxObjects + 1) * next_free_offset

\* While the client runs, and until gc_alloc has placed the object it collected for.
Between ==
    /\ current = Objects
    /\ stack = <<>>
    /\ \A a \in Objects : ~object[a].forwarded /\ object[a].forwarding = Nil
    /\ \A a \in Objects : \A i \in DOMAIN object[a].field : object[a].field[i] \in Objects \cup {Nil}
    /\ \A i \in DOMAIN roots : roots[i] \in Objects \cup {Nil}
    /\ collections = 0 => from = heap /\ Upper = {}
    /\ pc = "alloc" => request \in Class

\* What a reference to q is replaced by.
New(q) == IF q = Nil THEN Nil ELSE object[q].forwarding

Revised(b) == pc = "adjust" /\ b < to + p

\* The copies: they lie end to end, and are those of the forwarded objects.
CopiesInOrder ==
    /\ \A b \in Upper : ~object[b].forwarded /\ object[b].forwarding = Nil
    /\ to \in Upper \cup {forwarding}
    /\ \A b \in Upper : b + Size(b) \in Upper \cup {forwarding}
    /\ \A b \in Upper : b < forwarding
    /\ \A a \in Forwarded :
          LET b == object[a].forwarding IN
          /\ b \in Upper
          /\ object[b].clss = object[a].clss /\ object[b].id = object[a].id
          /\ DOMAIN object[b].field = DOMAIN object[a].field
          /\ \A i \in DOMAIN object[a].field :
                object[b].field[i] = IF Revised(b) THEN New(object[a].field[i])
                                     ELSE object[a].field[i]
    /\ \A b \in Upper : \E a \in Forwarded : object[a].forwarding = b
    /\ next_forwarding_offset \in Nat
    /\ next_forwarding_offset = Cardinality(Bytes(Forwarded))

\* The originals, and how far copy() and adjust_ref() are.
Originals ==
    /\ from = heap /\ collections # 0
    /\ current = Lower
    /\ \A a \in current : ~object[a].forwarded => object[a].forwarding = Nil
    /\ \A a \in current : \A i \in DOMAIN object[a].field : object[a].field[i] \in current \cup {Nil}
    /\ \A a \in Forwarded : \A i \in DOMAIN object[a].field :
          LET q == object[a].field[i] IN
          \/ q = Nil \/ object[q].forwarded
          \/ \E j \in DOMAIN stack : stack[j].obj = a /\ stack[j].i <= i
    /\ \A j \in DOMAIN stack : stack[j].obj \in Forwarded
    /\ \A a \in Forwarded : object[a].id \in Live
    /\ \A i \in DOMAIN roots : roots[i] \in (IF i < ri THEN Upper ELSE current) \cup {Nil}
    /\ pc = "adjust" =>
          /\ stack = <<>> /\ ri > Len(roots)
          /\ p \in Nat /\ to + p \in Upper \cup {forwarding}

Inv ==
    /\ pc \in {"run", "copy", "adjust", "alloc", "abort"}
    /\ Types
    /\ Memory
    /\ pc \in {"run", "alloc", "abort"} => Between
    /\ Collecting => CopiesInOrder /\ Originals

IInv == collections \in Nat /\ (Sane => Inv)

--------------------------------------------------------------------------------
(* Sizes and identities.                                                   *)

\* The two halves, and the classes.
LEMMA Halves ==
    /\ heap_half_size \in Nat /\ heap_size = heap_half_size + heap_half_size
    /\ heap = 1
    /\ \A c \in Class : c.size \in Nat /\ c.size > 0 /\ c.num_fields \in Nat
    BY SizeAssumption, ClassAssumption
    DEF heap_half_size, heap_size, resolve_heap_size, HEADER_SIZE, heap

\* What is known of an object in memory.
LEMMA CellFacts ==
    ASSUME Types, NEW a \in Objects
    PROVE  /\ a \in Nat
           /\ object[a].clss \in Class
           /\ Size(a) \in Nat /\ Size(a) > 0
           /\ object[a].field \in ObjectOf(Nat, Nat)
           /\ \A i \in DOMAIN object[a].field : i \in Nat \ {0}
           /\ object[a].id \in Identity
    <1>1. object[a] \in Cell /\ a \in Nat
        BY DEF Types
    <1>2. object[a].clss \in Class /\ object[a].field \in ObjectOf(Nat, Nat) /\ object[a].id \in Identity
        BY <1>1 DEF Cell
    <1> QED
        BY <1>1, <1>2, Halves, DomainType DEF Size

\* Every identity in use is one of finitely many.
LEMMA IdentityFacts ==
    ASSUME Types, Memory
    PROVE  /\ IsFiniteSet(Identity) /\ Cardinality(Identity) = MaxObjects
           /\ allocated \in SUBSET Identity
           /\ IsFiniteSet(allocated) /\ Cardinality(allocated) \in Nat
    <1>1. IsFiniteSet(Identity) /\ Cardinality(Identity) = MaxObjects
        BY FS_Interval, MaxObjectsAssumption DEF Identity
    <1>2. allocated \in SUBSET Identity
        BY CellFacts DEF allocated, Memory
    <1>3. IsFiniteSet(allocated)
        BY <1>1, <1>2, FS_Subset
    <1> QED
        BY <1>1, <1>2, <1>3, FS_CardinalityType

\* So many identities have room in what has been given out of the lower half.
RoomFor(S) == Cardinality(S) * heap_half_size <= (MaxObjects + 1) * next_free_offset

\* Where an object fits, not all identities are in use: so many objects would be
\* smaller than they can be.
LEMMA RoomForOneMore ==
    ASSUME NEW S \in SUBSET Identity, RoomFor(S), next_free_offset \in Nat,
           NEW clss \in Class, Fits(clss)
    PROVE  /\ S # Identity
           /\ IsFiniteSet(S) /\ Cardinality(S) \in Nat
           /\ (Cardinality(S) + 1) * heap_half_size
                <= (MaxObjects + 1) * (next_free_offset + clss.size)
    <1> DEFINE n == Cardinality(S)
               h == heap_half_size
               m == MaxObjects + 1
               f == next_free_offset
               s == clss.size
    <1>1. IsFiniteSet(S) /\ n \in Nat /\ Cardinality(Identity) = MaxObjects
        <2>1. IsFiniteSet(Identity) /\ Cardinality(Identity) = MaxObjects
            BY FS_Interval, MaxObjectsAssumption DEF Identity
        <2> QED
            BY <2>1, FS_Subset, FS_CardinalityType
    <1>2. n * h <= m * f /\ f + s <= h
        BY DEF RoomFor, Fits
    <1>3. f \in Nat /\ s \in Nat /\ h \in Nat /\ m \in Nat /\ h < m * s
        BY Halves, MaxObjectsAssumption
    <1> HIDE DEF n, h, m, f, s
    <1>4. (n + 1) * h < m * (f + s)
        <2>1. (n + 1) * h = n * h + h /\ m * (f + s) = m * f + m * s
            BY <1>1, <1>3, Z3
        <2>2. n * h \in Nat /\ m * f \in Nat /\ m * s \in Nat
            BY <1>1, <1>3, Z3
        <2> QED
            BY <1>2, <1>3, <2>1, <2>2
    <1>5. n < MaxObjects
        <2>1. m * (f + s) <= m * h
            BY <1>2, <1>3, Z3
        <2>2. (n + 1) * h \in Nat /\ m * (f + s) \in Nat /\ m * h \in Nat
            BY <1>1, <1>3, Z3
        <2>3. (n + 1) * h < m * h
            BY <1>4, <2>1, <2>2
        <2>4. SUFFICES ASSUME m <= n + 1 PROVE FALSE
            BY <1>1, MaxObjectsAssumption DEF m
        <2>5. m * h <= (n + 1) * h
            BY <1>1, <1>3, <2>4, Z3
        <2> QED
            BY <2>2, <2>3, <2>5
    <1>6. S # Identity
        BY <1>1, <1>5, MaxObjectsAssumption DEF n
    <1>7. (n + 1) * h \in Nat /\ m * (f + s) \in Nat
        BY <1>1, <1>3, Z3
    <1> QED
        BY <1>1, <1>4, <1>6, <1>7 DEF n, h, m, f, s

LEMMA IdentityIsFree ==
    ASSUME Types, Memory, NEW clss \in Class, Fits(clss)
    PROVE  /\ FreeIdentity \in Identity \ allocated
           /\ (Cardinality(allocated) + 1) * heap_half_size
                <= (MaxObjects + 1) * (next_free_offset + clss.size)
    <1>1. allocated \in SUBSET Identity /\ RoomFor(allocated) /\ next_free_offset \in Nat
        BY IdentityFacts, Halves DEF Memory, RoomFor, Types
    <1>2. /\ allocated # Identity
          /\ (Cardinality(allocated) + 1) * heap_half_size
                <= (MaxObjects + 1) * (next_free_offset + clss.size)
        BY <1>1, RoomForOneMore
    <1>3. PICK i \in Identity : \A a \in current : object[a].id # i
        BY <1>1, <1>2 DEF allocated
    <1>4. FreeIdentity \in Identity /\ \A a \in current : object[a].id # FreeIdentity
        BY <1>3 DEF FreeIdentity
    <1> QED
        BY <1>2, <1>4 DEF allocated

--------------------------------------------------------------------------------
(* The client's steps, and allocation.                                     *)

LEMMA InvInit == Init => Inv
    <1> SUFFICES ASSUME Init PROVE Inv
        OBVIOUS
    <1>1. Objects = {} /\ current = {} /\ Lower = {} /\ Upper = {} /\ allocated = {}
        BY DEF Init, Objects, Lower, Upper, allocated
    <1>2. Types
        BY <1>1, Halves, EmptySeq DEF Init, Types
    <1>3. Memory
        BY <1>1, FS_EmptySet, Halves, MaxObjectsAssumption DEF Init, Memory
    <1>4. Between
        BY <1>1 DEF Init, Between
    <1> QED
        BY <1>2, <1>3, <1>4 DEF Inv, Init, Collecting

\* Sizes and halves depend on the memory and on from only.
LEMMA SameMemory ==
    ASSUME Types, Memory, UNCHANGED <<object, next_free_offset, from, current>>,
           roots' \in Seq(Nat), stack' \in Seq(Frame), ri' \in Nat \ {0},
           request' \in Class \cup {NoRequest}, collections' \in Nat
    PROVE  Types' /\ Memory'
    <1>1. Types'
        BY DEF Types, Objects
    <1>2. Memory'
        BY DEF Memory, Objects, Size, Lower, InLower, allocated
    <1> QED
        BY <1>1, <1>2

LEMMA AddRootStep ==
    ASSUME Inv, AddRoot PROVE Inv'
    <1>1. pc = "run" /\ pc' = "run" /\ Types /\ Memory /\ Between
        BY DEF Inv, AddRoot
    <1>2. PICK o \in Objects \cup {Nil} : roots' = Append(roots, o)
        BY <1>1 DEF AddRoot, Between
    <1>3. roots \in Seq(Nat) /\ o \in Nat
        BY <1>1 DEF Types, Nil
    <1>4. roots' \in Seq(Nat) /\ \A i \in DOMAIN roots' : roots'[i] \in Objects \cup {Nil}
        <2>1. /\ roots' \in Seq(Nat) /\ Len(roots') = Len(roots) + 1
              /\ \A i \in 1..Len(roots) : roots'[i] = roots[i]
              /\ roots'[Len(roots) + 1] = o
            BY <1>2, <1>3, AppendProperties
        <2>2. DOMAIN roots' = 1..(Len(roots) + 1) /\ DOMAIN roots = 1..Len(roots) /\ Len(roots) \in Nat
            BY <1>3, <2>1, LenProperties
        <2> QED
            BY <1>1, <1>2, <2>1, <2>2 DEF Between
    <1>5. UNCHANGED <<object, next_free_offset, from, current, pc, request, walk, collections>>
        BY DEF AddRoot
    <1>6. Types' /\ Memory'
        BY <1>1, <1>4, <1>5, SameMemory DEF walk, Types
    <1>7. Between'
        BY <1>1, <1>4, <1>5 DEF Between, Objects, Upper, InLower, walk
    <1> QED
        BY <1>1, <1>6, <1>7 DEF Inv, Collecting

LEMMA RestoreRootsStep ==
    ASSUME Inv, RestoreRoots PROVE Inv'
    <1>1. pc = "run" /\ pc' = "run" /\ Types /\ Memory /\ Between
        BY DEF Inv, RestoreRoots
    <1>2. PICK k \in 0..Len(roots) : roots' = SubSeq(roots, 1, k)
        BY DEF RestoreRoots
    <1>3. roots \in Seq(Nat) /\ Len(roots) \in Nat /\ DOMAIN roots = 1..Len(roots)
        BY <1>1, LenProperties DEF Types
    <1>4. roots' \in Seq(Nat) /\ \A i \in DOMAIN roots' : roots'[i] \in Objects \cup {Nil}
        <2>1. \A i \in 1..k : roots[i] \in Nat
            BY <1>2, <1>3, ElementOfSeq
        <2>2. /\ roots' \in Seq(Nat) /\ Len(roots') = (IF 1 <= k THEN k - 1 + 1 ELSE 0)
              /\ \A i \in 1..(k - 1 + 1) : roots'[i] = roots[1 + i - 1]
            BY <1>2, <2>1, SubSeqProperties
        <2>3. DOMAIN roots' = 1..Len(roots')
            BY <2>2, LenProperties
        <2>4. DOMAIN roots' = 1..k /\ \A i \in 1..k : roots'[i] = roots[i]
            BY <1>2, <1>3, <2>2, <2>3
        <2> QED
            BY <1>1, <1>2, <1>3, <2>2, <2>4 DEF Between
    <1>5. UNCHANGED <<object, next_free_offset, from, current, pc, request, walk, collections>>
        BY DEF RestoreRoots
    <1>6. Types' /\ Memory'
        BY <1>1, <1>4, <1>5, SameMemory DEF walk, Types
    <1>7. Between'
        BY <1>1, <1>4, <1>5 DEF Between, Objects, Upper, InLower, walk
    <1> QED
        BY <1>1, <1>6, <1>7 DEF Inv, Collecting

\* Rewriting the references of one object changes nothing else in memory.
LEMMA FieldChange ==
    ASSUME Types, Memory, NEW o \in Objects, NEW f \in ObjectOf(Nat, Nat),
           object' = [object EXCEPT ![o].field = f],
           UNCHANGED <<next_free_offset, from, roots, request, stack, ri, current, collections>>
    PROVE  /\ Types' /\ Memory'
           /\ Objects' = Objects
           /\ object'[o].field = f
           /\ \A a \in Objects \ {o} : object'[a].field = object[a].field
           /\ \A a \in Objects :
                /\ object'[a].clss = object[a].clss /\ object'[a].id = object[a].id
                /\ object'[a].forwarded = object[a].forwarded
                /\ object'[a].forwarding = object[a].forwarding
                /\ Size(a)' = Size(a)
    <1>1. Objects' = Objects /\ \A a \in Objects \ {o} : object'[a] = object[a]
        BY DEF Objects
    <1>2. object[o] \in Cell
        BY DEF Types
    <1>3. object'[o] = [object[o] EXCEPT !.field = f]
        BY DEF Objects
    <1>4. /\ object'[o] \in Cell /\ object'[o].field = f
          /\ object'[o].clss = object[o].clss /\ object'[o].id = object[o].id
          /\ object'[o].forwarded = object[o].forwarded
          /\ object'[o].forwarding = object[o].forwarding
        BY <1>2, <1>3 DEF Cell
    <1>5. \A a \in Objects :
                /\ object'[a].clss = object[a].clss /\ object'[a].id = object[a].id
                /\ object'[a].forwarded = object[a].forwarded
                /\ object'[a].forwarding = object[a].forwarding
                /\ Size(a)' = Size(a)
        BY <1>1, <1>4 DEF Size
    <1>6. Types'
        BY <1>1, <1>4 DEF Types
    <1>7. allocated' = allocated
        BY <1>5 DEF allocated, Memory
    <1>8. Memory'
        BY <1>1, <1>5, <1>7 DEF Memory, Lower, InLower
    <1> QED
        BY <1>1, <1>4, <1>5, <1>6, <1>8

LEMMA WriteStep ==
    ASSUME Inv, Write PROVE Inv'
    <1>1. pc = "run" /\ pc' = "run" /\ Types /\ Memory /\ Between
        BY DEF Inv, Write
    <1>0. PICK o \in Objects, v \in Objects \cup {Nil} :
            \E i \in DOMAIN object[o].field : object' = [object EXCEPT ![o].field[i] = v]
        BY <1>1 DEF Write, Between
    <1>2. PICK i \in DOMAIN object[o].field : object' = [object EXCEPT ![o].field[i] = v]
        BY <1>0
    <1> DEFINE f == [object[o].field EXCEPT ![i] = v]
    <1>3. f \in ObjectOf(Nat, Nat)
        <2>1. v \in Nat /\ object[o].field \in ObjectOf(Nat, Nat)
            BY <1>1, <1>2, CellFacts DEF Types, Nil
        <2> QED
            BY <2>1, StoreType
    <1>4. object' = [object EXCEPT ![o].field = f]
        BY <1>2
    <1>5. UNCHANGED <<next_free_offset, from, roots, pc, request, walk, current, collections>>
        BY DEF Write
    <1>6. \A j \in DOMAIN f : f[j] \in Objects \cup {Nil}
        BY <1>1, <1>2 DEF Between
    <1> HIDE DEF f
    <1>7. /\ Types' /\ Memory' /\ Objects' = Objects
          /\ object'[o].field = f
          /\ \A a \in Objects \ {o} : object'[a].field = object[a].field
          /\ \A a \in Objects :
                /\ object'[a].forwarded = object[a].forwarded
                /\ object'[a].forwarding = object[a].forwarding
        BY <1>1, <1>2, <1>3, <1>4, <1>5, FieldChange DEF walk
    <1>8. Between'
        <2>1. \A a \in Objects' : ~object'[a].forwarded /\ object'[a].forwarding = Nil
            BY <1>1, <1>7 DEF Between
        <2>2. \A a \in Objects' : \A j \in DOMAIN object'[a].field :
                    object'[a].field[j] \in Objects' \cup {Nil}
            BY <1>1, <1>6, <1>7 DEF Between
        <2>3. Upper' = Upper
            BY <1>7 DEF Upper, InLower
        <2> QED
            BY <1>1, <1>5, <1>7, <2>1, <2>2, <2>3 DEF Between, walk
    <1> QED
        BY <1>1, <1>5, <1>7, <1>8 DEF Inv, Collecting

\* The first collection starts with one half that holds everything, and no copies.
LEMMA StartStep ==
    ASSUME Inv, pc = "run", NEW clss \in Class \cup {NoRequest}, StartGC(clss), Sane',
           UNCHANGED <<memory, stack, p, current>>
    PROVE  Inv'
    <1>1. Types /\ Memory /\ Between /\ collections = 0 /\ from = heap /\ Upper = {}
        BY DEF Inv, StartGC, Sane, Between, Types
    <1>2. /\ UNCHANGED <<object, next_free_offset, from, roots, stack, p, current>>
          /\ request' = clss /\ collections' = 1 /\ pc' = "copy" /\ ri' = 1
          /\ next_forwarding_offset' = 0
        BY <1>1 DEF StartGC, memory
    <1>3. Types' /\ Memory'
        BY <1>1, <1>2, SameMemory DEF Types
    <1>4. Objects' = Objects /\ Upper' = {} /\ Lower' = Lower /\ Lower = Objects /\ current' = Objects
        BY <1>1, <1>2 DEF Objects, Upper, Lower, InLower, Between
    <1>5. Forwarded' = {}
        BY <1>1, <1>2 DEF Forwarded, Between
    <1>6. CopiesInOrder'
        <2>1. Bytes(Forwarded)' = {}
            BY <1>5 DEF Bytes
        <2>2. to' = forwarding'
            BY <1>1, <1>2, Halves DEF to, forwarding
        <2> QED
            BY <1>2, <1>4, <1>5, <2>1, <2>2, FS_EmptySet DEF CopiesInOrder
    <1>7. Originals'
        <2>1. \A i \in DOMAIN roots : i \in Nat \ {0}
            BY <1>1, LenProperties DEF Types
        <2> QED
            BY <1>1, <1>2, <1>4, <1>5, <2>1 DEF Originals, Between
    <1> QED
        BY <1>2, <1>3, <1>6, <1>7 DEF Inv

\* A new object lies behind what the lower half has given out, on no other object.
LEMMA PlaceMemory ==
    ASSUME Types, Memory, Between, NEW clss \in Class, Fits(clss), Place(clss)
    PROVE  LET n == heap + next_free_offset IN
           /\ n \notin Objects /\ n \in Nat /\ n # Nil
           /\ n + clss.size <= heap + heap_half_size
           /\ Objects' = Objects \cup {n} /\ current' = Objects'
           /\ \A a \in Objects : object'[a] = object[a]
           /\ object'[n] = [clss |-> clss, field |-> NullFields(clss.num_fields),
                            forwarded |-> FALSE, forwarding |-> Nil, id |-> FreeIdentity]
           /\ object'[n] \in Cell
           /\ \A a \in Objects : a < n => a + Size(a) <= n
           /\ \A a \in Objects : n < a => n + clss.size <= a
    <1> DEFINE n == heap + next_free_offset
    <1>1. /\ next_free_offset \in Nat /\ n \in Nat /\ n # Nil /\ clss.size \in Nat /\ clss.size > 0
          /\ heap_half_size \in Nat /\ n + clss.size <= heap + heap_half_size /\ n >= heap
        BY Halves DEF Types, Fits, Nil
    <1>2. \A a \in Objects : a \in Nat /\ Size(a) \in Nat /\ Size(a) > 0
        BY CellFacts
    <1>3. \A a \in Objects : a + Size(a) <= n \/ a >= n + clss.size
        <2> SUFFICES ASSUME NEW a \in Objects PROVE a + Size(a) <= n \/ a >= n + clss.size
            OBVIOUS
        <2>1. CASE InLower(a)
            BY <2>1 DEF Memory, Lower
        <2>2. CASE ~InLower(a)
            BY <1>1, <1>2, <2>2, Halves DEF InLower
        <2> QED
            BY <2>1, <2>2
    <1>4. Untouched(n, clss.size) = Objects
        BY <1>3 DEF Untouched
    <1>5. n \notin Objects
        BY <1>1, <1>2, <1>3
    <1>6. /\ object' = [a \in Objects \cup {n} |->
                    IF a = n
                    THEN [clss |-> clss, field |-> NullFields(clss.num_fields),
                          forwarded |-> FALSE, forwarding |-> Nil, id |-> FreeIdentity]
                    ELSE object[a]]
          /\ current' = current \cup {n}
        BY <1>4 DEF Place, Between
    <1> HIDE DEF n
    <1>7. Objects' = Objects \cup {n}
        BY <1>6 DEF Objects
    <1>8. current' = Objects'
        BY <1>6, <1>7 DEF Between
    <1>9. /\ \A a \in Objects : object'[a] = object[a]
          /\ object'[n] = [clss |-> clss, field |-> NullFields(clss.num_fields),
                            forwarded |-> FALSE, forwarding |-> Nil, id |-> FreeIdentity]
        BY <1>5, <1>6
    <1>10. object'[n] \in Cell
        <2>1. clss.num_fields \in Nat
            BY Halves
        <2>2. NullFields(clss.num_fields) \in ObjectOf(Nat, Nat)
            BY <2>1, NullFieldsType DEF Nil
        <2>3. FreeIdentity \in Identity
            BY IdentityIsFree
        <2> QED
            BY <1>9, <2>2, <2>3 DEF Cell, Nil
    <1>11. \A a \in Objects : (a < n => a + Size(a) <= n) /\ (n < a => n + clss.size <= a)
        BY <1>1, <1>2, <1>3
    <1> QED
        BY <1>1, <1>5, <1>7, <1>8, <1>9, <1>10, <1>11 DEF n

LEMMA PlaceStep ==
    ASSUME Inv, pc \in {"run", "alloc"}, NEW clss \in Class, Fits(clss), Place(clss),
           pc' = "run", request' \in Class \cup {NoRequest},
           UNCHANGED <<from, roots, stack, ri, collections>>
    PROVE  Inv'
    <1>1. Types /\ Memory /\ Between
        BY DEF Inv
    <1>0. PICK n \in Nat : n = heap + next_free_offset
        BY <1>1, Halves DEF Types
    <1>2. /\ n \notin Objects /\ n \in Nat /\ n # Nil
          /\ n + clss.size <= heap + heap_half_size
          /\ Objects' = Objects \cup {n} /\ current' = Objects'
          /\ \A a \in Objects : object'[a] = object[a]
          /\ object'[n] = [clss |-> clss, field |-> NullFields(clss.num_fields),
                           forwarded |-> FALSE, forwarding |-> Nil, id |-> FreeIdentity]
          /\ object'[n] \in Cell
          /\ \A a \in Objects : a < n => a + Size(a) <= n
          /\ \A a \in Objects : n < a => n + clss.size <= a
        BY <1>0, <1>1, PlaceMemory
    <1>3. clss.size \in Nat /\ clss.size > 0 /\ next_free_offset' = next_free_offset + clss.size
          /\ n = heap + next_free_offset /\ heap_half_size \in Nat /\ heap = 1
          /\ next_free_offset \in Nat
        BY <1>0, <1>1, Halves DEF Place, Types
    <1>4. FreeIdentity \in Identity \ allocated
          /\ (Cardinality(allocated) + 1) * heap_half_size
                <= (MaxObjects + 1) * (next_free_offset + clss.size)
        BY <1>1, IdentityIsFree
    <1>5. /\ object'[n].clss = clss /\ object'[n].field = NullFields(clss.num_fields)
          /\ ~object'[n].forwarded /\ object'[n].forwarding = Nil /\ object'[n].id = FreeIdentity
        BY <1>2
    <1>6. Size(n)' = clss.size /\ \A a \in Objects : Size(a)' = Size(a)
        BY <1>2, <1>5 DEF Size
    <1>7. Types'
        <2>1. next_free_offset' \in 0..heap_half_size
            BY <1>2, <1>3
        <2> QED
            BY <1>1, <1>2, <2>1 DEF Types
    <1>8. Memory'
        <2>1. \A a \in Objects' : a >= heap
            BY <1>1, <1>2, <1>3 DEF Memory
        <2>2. \A a, b \in Objects' : a < b => a + Size(a)' <= b
            <3>1. \A a \in Objects : a \in Nat /\ Size(a) \in Nat
                BY <1>1, CellFacts
            <3> QED
                BY <1>1, <1>2, <1>3, <1>6, <3>1 DEF Memory
        <2>3. \A a \in Lower' : a + Size(a)' <= heap + next_free_offset'
            <3> SUFFICES ASSUME NEW a \in Lower' PROVE a + Size(a)' <= heap + next_free_offset'
                OBVIOUS
            <3>1. CASE a = n
                BY <1>3, <1>6, <3>1
            <3>2. CASE a \in Lower
                <4>1. a + Size(a) <= heap + next_free_offset /\ a \in Objects
                    BY <1>1, <3>2 DEF Memory, Lower
                <4>2. a \in Nat /\ Size(a) \in Nat
                    BY <1>1, <4>1, CellFacts
                <4> QED
                    BY <1>3, <1>6, <4>1, <4>2
            <3> QED
                BY <1>2, <3>1, <3>2 DEF Lower, InLower
        <2>4. \A a, b \in current' : object'[a].id = object'[b].id => a = b
            <3>1. \A a \in Objects : object'[a].id = object[a].id /\ object[a].id # FreeIdentity
                BY <1>1, <1>2, <1>4 DEF allocated, Between
            <3> QED
                BY <1>1, <1>2, <1>5, <3>1 DEF Memory, Between
        <2>5. allocated' = allocated \cup {FreeIdentity}
            BY <1>1, <1>2, <1>5 DEF allocated, Between
        <2>6. Cardinality(allocated') = Cardinality(allocated) + 1
            BY <1>1, <1>4, <2>5, IdentityFacts, FS_AddElement
        <2>7. Cardinality(allocated') * heap_half_size <= (MaxObjects + 1) * next_free_offset'
            BY <1>3, <1>4, <2>6
        <2> QED
            BY <1>2, <2>1, <2>2, <2>3, <2>4, <2>7 DEF Memory
    <1>9. Between'
        <2>1. \A a \in Objects' : ~object'[a].forwarded /\ object'[a].forwarding = Nil
            BY <1>1, <1>2, <1>5 DEF Between
        <2>2. \A a \in Objects' : \A i \in DOMAIN object'[a].field :
                    object'[a].field[i] \in Objects' \cup {Nil}
            <3>1. \A i \in DOMAIN object'[n].field : object'[n].field[i] = Nil
                BY <1>5 DEF NullFields
            <3> QED
                BY <1>1, <1>2, <3>1 DEF Between
        <2>3. InLower(n)
            BY <1>2, <1>3 DEF InLower
        <2>4. Upper = {} => Upper' = {}
            BY <1>2, <2>3 DEF Upper, InLower
        <2> QED
            BY <1>1, <1>2, <2>1, <2>2, <2>4 DEF Between
    <1> QED
        BY <1>7, <1>8, <1>9 DEF Inv, Collecting

--------------------------------------------------------------------------------
(* copy().                                                                 *)

\* In the first collection there is room for every object that is not yet copied:
\* the copies take as many bytes as their originals.
LEMMA Room ==
    ASSUME Types, Memory, CopiesInOrder, Originals,
           NEW q \in current, ~object[q].forwarded
    PROVE  LET b == Bytes(Forwarded) \cup q..(q + Size(q) - 1) IN
           /\ next_forwarding_offset + Size(q) <= heap_half_size
           /\ next_forwarding_offset + Size(q) = Cardinality(b)
    <1> DEFINE F == Bytes(Forwarded)
               Q == q..(q + Size(q) - 1)
               H == heap..(heap + next_free_offset - 1)
    <1>1. \A a \in current : /\ a \in Nat /\ Size(a) \in Nat /\ Size(a) > 0
                             /\ a >= heap /\ a + Size(a) <= heap + next_free_offset
        BY CellFacts DEF Memory, Originals
    <1>2. next_free_offset \in Nat /\ heap = 1 /\ next_free_offset <= heap_half_size
          /\ heap_half_size \in Nat
        BY Halves DEF Types
    <1>3. IsFiniteSet(H) /\ Cardinality(H) = next_free_offset
        BY <1>2, FS_Interval
    <1>4. F \subseteq H
        BY <1>1, <1>2 DEF Bytes, Forwarded
    <1>5. Q \subseteq H
        BY <1>1, <1>2
    <1>6. F \cap Q = {}
        <2> SUFFICES ASSUME NEW a \in Forwarded,
                            NEW x \in a..(a + Size(a) - 1), x \in Q
                     PROVE  FALSE
            BY DEF Bytes
        <2>1. a \in current /\ a # q /\ a \in Objects /\ q \in Objects
            BY DEF Forwarded, Memory
        <2>2. a + Size(a) <= q \/ q + Size(q) <= a
            BY <1>1, <2>1 DEF Memory
        <2> QED
            BY <1>1, <2>1, <2>2
    <1>7. IsFiniteSet(Q) /\ Cardinality(Q) = Size(q)
        <2>1. q \in Int /\ q + Size(q) - 1 \in Int /\ Size(q) \in Nat /\ Size(q) > 0
            BY <1>1
        <2> DEFINE z == q + Size(q) - 1
        <2>2. z \in Int /\ z - q + 1 = Size(q) /\ ~(q > z)
            BY <2>1
        <2> HIDE DEF z
        <2>3. IsFiniteSet(q..z) /\ Cardinality(q..z) = Size(q)
            BY <2>1, <2>2, FS_Interval
        <2> QED
            BY <2>3 DEF z
    <1>8. IsFiniteSet(F) /\ IsFiniteSet(F \cup Q) /\ Cardinality(F \cup Q) <= next_free_offset
          /\ Cardinality(F) \in Nat
        BY <1>3, <1>4, <1>5, FS_Subset, FS_CardinalityType
    <1>9. Cardinality(F \cup Q) = Cardinality(F) + Size(q)
        <2> HIDE DEF F, Q
        <2>1. Cardinality(F \cup Q) = Cardinality(F) + Cardinality(Q) - Cardinality(F \cap Q)
            BY <1>7, <1>8, FS_Union
        <2>2. Cardinality(F \cap Q) = 0 /\ Size(q) \in Nat
            BY <1>1, <1>6, FS_EmptySet
        <2> QED
            BY <1>7, <1>8, <2>1, <2>2
    <1>10. next_forwarding_offset = Cardinality(F)
        BY DEF CopiesInOrder
    <1> HIDE DEF F, Q, H
    <1>11. next_forwarding_offset + Size(q) <= heap_half_size
        BY <1>1, <1>2, <1>8, <1>9, <1>10
    <1> QED
        BY <1>9, <1>10, <1>11 DEF F, Q

\* A copy goes behind everything else in memory.
LEMMA CopyGoesBehind ==
    ASSUME Inv, pc = "copy", NEW q \in current, ~object[q].forwarded
    PROVE  /\ Copyable(q)
           /\ Untouched(forwarding, Size(q)) = Objects
           /\ forwarding \in Nat /\ forwarding >= heap + heap_half_size
           /\ \A a \in Objects : a + Size(a) <= forwarding
    <1>1. Types /\ Memory /\ CopiesInOrder /\ Originals
        BY DEF Inv, Collecting
    <1>2. \A a \in Objects : a \in Nat /\ Size(a) \in Nat /\ Size(a) > 0
        BY <1>1, CellFacts
    <1>3. /\ forwarding = heap + heap_half_size + next_forwarding_offset
          /\ forwarding \in Nat /\ heap_half_size \in Nat
          /\ forwarding >= heap + heap_half_size
          /\ heap_size = heap_half_size + heap_half_size /\ heap = 1
          /\ next_forwarding_offset \in Nat
        BY <1>1, Halves DEF forwarding, to, Originals, CopiesInOrder
    <1>4. q \in Objects
        BY <1>1 DEF Memory
    <1>5. next_forwarding_offset + Size(q) <= heap_half_size
        BY <1>1, Room
    <1>6. \A a \in Objects : a + Size(a) <= forwarding
        <2> SUFFICES ASSUME NEW a \in Objects PROVE a + Size(a) <= forwarding
            OBVIOUS
        <2>1. CASE InLower(a)
            <3>1. a + Size(a) <= heap + next_free_offset
                BY <1>1, <2>1 DEF Memory, Lower
            <3> QED
                BY <1>1, <1>2, <1>3, <3>1 DEF Types
        <2>2. CASE ~InLower(a)
            <3>1. a + Size(a) \in Upper \cup {forwarding} /\ \A b \in Upper : b < forwarding
                BY <1>1, <2>2 DEF CopiesInOrder, Upper
            <3> QED
                BY <1>2, <1>3, <3>1 DEF Upper
        <2> QED
            BY <2>1, <2>2
    <1>7. Untouched(forwarding, Size(q)) = Objects
        BY <1>6 DEF Untouched
    <1>8. forwarding + Size(q) <= heap + heap_size
        BY <1>2, <1>3, <1>4, <1>5
    <1> QED
        BY <1>3, <1>4, <1>6, <1>7, <1>8 DEF Copyable

\* What memcpy and the forwarding pointer change.
LEMMA EvacuateMemory ==
    ASSUME Inv, pc = "copy", NEW q \in current, ~object[q].forwarded,
           NEW f \in Nat, f = forwarding, Evacuate(q)
    PROVE  /\ f \notin Objects /\ q # f /\ q \in Objects
           /\ Objects' = Objects \cup {f}
           /\ \A a \in Objects \ {q} : object'[a] = object[a]
           /\ object'[f] = object[q]
           /\ object'[q] \in Cell
           /\ object'[q].clss = object[q].clss /\ object'[q].field = object[q].field
           /\ object'[q].id = object[q].id
           /\ object'[q].forwarded /\ object'[q].forwarding = f
           /\ \A a \in Objects : Size(a)' = Size(a)
           /\ Size(f)' = Size(q)
    <1>1. Types /\ q \in Objects
        BY DEF Inv, Memory
    <1>2. Untouched(f, Size(q)) = Objects /\ \A a \in Objects : a + Size(a) <= f
        BY CopyGoesBehind
    <1>3. f \notin Objects
        BY <1>1, <1>2, CellFacts
    <1>4. object' = [a \in Objects \cup {f} |->
                IF a = q
                THEN [object[q] EXCEPT !.forwarded = TRUE, !.forwarding = f]
                ELSE IF a = f THEN object[q] ELSE object[a]]
        <2>1. Objects \cup {q, f} = Objects \cup {f}
            BY <1>1
        <2> QED
            BY <1>2, <2>1 DEF Evacuate
    <1>5. /\ Objects' = Objects \cup {f}
          /\ \A a \in Objects \ {q} : object'[a] = object[a]
          /\ object'[f] = object[q]
          /\ object'[q] = [object[q] EXCEPT !.forwarded = TRUE, !.forwarding = f]
        BY <1>1, <1>3, <1>4 DEF Objects
    <1>6. object[q] \in Cell
        BY <1>1 DEF Types
    <1>7. /\ object'[q] \in Cell
          /\ object'[q].clss = object[q].clss /\ object'[q].field = object[q].field
          /\ object'[q].id = object[q].id
          /\ object'[q].forwarded /\ object'[q].forwarding = f
        BY <1>5, <1>6 DEF Cell
    <1> QED
        BY <1>1, <1>3, <1>5, <1>7 DEF Size

\* What a state of a collection must be like for pointers to keep their meaning.
Shape ==
    /\ Collecting
    /\ Types /\ Memory
    /\ from = heap
    /\ current = Lower
    /\ \A b \in Upper : b < forwarding

\* What the client sees: the references of each object in use, and none elsewhere.
GraphIsSeen ==
    /\ DOMAIN field = Identity /\ field = [i \in Identity |-> field[i]]
    /\ \A a \in current : field[object[a].id] =
            [k \in DOMAIN object[a].field |-> Designated(object[a].field[k])]
    /\ \A i \in Identity \ allocated : field[i] = NullFields(0)

\* Pointers designate the object that is there, an original or a copy.
PointersDesignate == \A q \in Objects : q # Nil /\ Designated(q) = object[q].id

LEMMA FieldOf == Types /\ Memory => GraphIsSeen
    <1> SUFFICES ASSUME Types, Memory PROVE GraphIsSeen
        OBVIOUS
    <1>1. DOMAIN field = Identity /\ field = [i \in Identity |-> field[i]]
        BY DEF field
    <1>2. ASSUME NEW a \in current
          PROVE  field[object[a].id] =
                    [k \in DOMAIN object[a].field |-> Designated(object[a].field[k])]
        <2>1. object[a].id \in Identity
            BY <1>2, CellFacts DEF Memory
        <2>2. (CHOOSE c \in current : object[c].id = object[a].id) = a
            BY <1>2 DEF Memory
        <2> QED
            BY <1>2, <2>1, <2>2 DEF field
    <1>3. \A i \in Identity \ allocated : field[i] = NullFields(0)
        BY DEF field, allocated
    <1> QED
        BY <1>1, <1>2, <1>3 DEF GraphIsSeen

LEMMA FieldOfNext == (Types /\ Memory)' => GraphIsSeen'
    BY FieldOf, PTL

\* While a collection runs, pointers to originals and to copies mean something.
LEMMA DesignatedOf == Shape => PointersDesignate
    <1> SUFFICES ASSUME Shape, NEW q \in Objects PROVE q # Nil /\ Designated(q) = object[q].id
        BY DEF PointersDesignate
    <1>1. q \in Nat /\ q >= heap /\ heap = 1
        BY Halves DEF Shape, Types, Memory
    <1>2. CASE q \in current
        BY <1>1, <1>2 DEF Designated, Nil
    <1>3. CASE q \in Upper
        <2>1. q >= to /\ q < forwarding
            BY <1>1, <1>3, Halves DEF Shape, to, Upper, InLower
        <2> QED
            BY <1>1, <2>1 DEF Designated, Nil, Shape
    <1> QED
        BY <1>2, <1>3 DEF Shape, Upper, Lower

LEMMA DesignatedOfNext == Shape' => PointersDesignate'
    BY DesignatedOf, PTL

LEMMA InvShape ==
    ASSUME Inv, Collecting
    PROVE  Shape
    BY DEF Inv, Shape, Originals, CopiesInOrder

\* A step that keeps the originals' references and every identity keeps the graph
\* that the client sees.
LEMMA GraphStep ==
    ASSUME Inv, Collecting, Shape',
           Objects \subseteq Objects', current' = current,
           \A a \in Objects : object'[a].id = object[a].id,
           \A a \in current : object'[a].field = object[a].field
    PROVE  /\ field' = field /\ allocated' = allocated
           /\ \A q \in Objects \cup {Nil} : Designated(q)' = Designated(q)
    <1>1. Shape /\ Types /\ Memory /\ Originals
        BY InvShape DEF Inv
    <1>2. \A q \in Objects \cup {Nil} : Designated(q)' = Designated(q)
        <2>1. Designated(Nil)' = Nil /\ Designated(Nil) = Nil
            BY DEF Designated
        <2>2. \A q \in Objects : Designated(q)' = Designated(q)
            BY <1>1, DesignatedOf, DesignatedOfNext DEF PointersDesignate
        <2> QED
            BY <2>1, <2>2
    <1>3. allocated' = allocated
        BY <1>1 DEF allocated, Memory
    <1>4. ASSUME NEW a \in current PROVE field'[object[a].id] = field[object[a].id]
        <2>1. \A k \in DOMAIN object[a].field : Designated(object[a].field[k])' = Designated(object[a].field[k])
            BY <1>1, <1>2 DEF Originals, Memory
        <2>2. field'[object'[a].id] =
                [k \in DOMAIN object'[a].field |-> Designated(object[a].field[k])']
            BY FieldOfNext DEF Shape, GraphIsSeen
        <2>3. object'[a].id = object[a].id /\ object'[a].field = object[a].field
            BY <1>1 DEF Memory
        <2>4. field[object[a].id] =
                [k \in DOMAIN object[a].field |-> Designated(object[a].field[k])]
            BY <1>1, FieldOf DEF GraphIsSeen
        <2>5. [k \in DOMAIN object[a].field |-> Designated(object[a].field[k])'] =
                [k \in DOMAIN object[a].field |-> Designated(object[a].field[k])]
            BY <2>1
        <2> QED
            BY <2>2, <2>3, <2>4, <2>5
    <1>5. \A i \in Identity : field'[i] = field[i]
        <2>1. \A i \in Identity \ allocated : field'[i] = field[i]
            BY <1>1, <1>3, FieldOf, FieldOfNext DEF Shape, GraphIsSeen
        <2> QED
            BY <1>4, <2>1 DEF allocated
    <1>6. field' = field
        BY <1>1, <1>5, FieldOf, FieldOfNext DEF Shape, GraphIsSeen
    <1> QED
        BY <1>2, <1>3, <1>6

\* Copying one object keeps memory in order.
LEMMA EvacuateStep ==
    ASSUME Inv, pc = "copy", NEW q \in current, ~object[q].forwarded,
           NEW f \in Nat, f = forwarding, Evacuate(q),
           next_forwarding_offset' = next_forwarding_offset + Size(q),
           roots' \in Seq(Nat), stack' \in Seq(Frame), ri' \in Nat \ {0},
           UNCHANGED <<next_free_offset, from, pc, request, p, current, collections>>
    PROVE  /\ Types' /\ Memory' /\ CopiesInOrder' /\ Shape'
           /\ Upper' = Upper \cup {f} /\ Forwarded' = Forwarded \cup {q}
    <1>1. Types /\ Memory /\ CopiesInOrder /\ Originals /\ Shape
        BY InvShape DEF Inv, Collecting
    <1>2. /\ f \notin Objects /\ q # f /\ q \in Objects
          /\ Objects' = Objects \cup {f}
          /\ \A a \in Objects \ {q} : object'[a] = object[a]
          /\ object'[f] = object[q]
          /\ object'[q] \in Cell
          /\ object'[q].clss = object[q].clss /\ object'[q].field = object[q].field
          /\ object'[q].id = object[q].id
          /\ object'[q].forwarded /\ object'[q].forwarding = f
          /\ \A a \in Objects : Size(a)' = Size(a)
          /\ Size(f)' = Size(q)
        BY EvacuateMemory
    <1>3. /\ f >= heap + heap_half_size /\ \A a \in Objects : a + Size(a) <= f
          /\ heap = 1 /\ heap_half_size \in Nat
        BY CopyGoesBehind, Halves
    <1>4. \A a \in Objects : a \in Nat /\ Size(a) \in Nat /\ Size(a) > 0
        BY <1>1, CellFacts
    <1>5. Lower' = Lower /\ Upper' = Upper \cup {f}
        BY <1>2, <1>3 DEF Lower, Upper, InLower
    <1>6. Forwarded' = Forwarded \cup {q}
        <2>1. \A a \in current : a # q => object'[a] = object[a]
            BY <1>1, <1>2 DEF Memory
        <2> QED
            BY <1>2, <2>1 DEF Forwarded
    <1>7. Types'
        BY <1>1, <1>2 DEF Types
    <1>8. Memory'
        <2>1. \A a \in Objects' : a >= heap
            BY <1>1, <1>2, <1>3 DEF Memory
        <2>2. \A a, b \in Objects' : a < b => a + Size(a)' <= b
            BY <1>1, <1>2, <1>3, <1>4 DEF Memory
        <2>3. \A a \in Lower' : a + Size(a)' <= heap + next_free_offset'
            BY <1>1, <1>2, <1>5 DEF Memory, Lower
        <2>4. \A a \in current : object'[a].id = object[a].id /\ a \in Objects'
            BY <1>1, <1>2 DEF Memory
        <2>5. allocated' = allocated
            BY <2>4 DEF allocated
        <2> QED
            BY <1>1, <2>1, <2>2, <2>3, <2>4, <2>5 DEF Memory
    <1>9. to' = to /\ forwarding' = f + Size(q) /\ f = to + next_forwarding_offset
          /\ to = heap + heap_half_size
        <2>1. to' = to /\ to = heap + heap_half_size
            BY <1>1 DEF to, Originals
        <2>2. forwarding = to + next_forwarding_offset
              /\ forwarding' = to + (next_forwarding_offset + Size(q))
            BY <2>1 DEF forwarding
        <2>3. next_forwarding_offset \in Nat /\ Size(q) \in Nat
            BY <1>1, <1>2, <1>4 DEF CopiesInOrder
        <2> QED
            BY <1>3, <2>1, <2>2, <2>3
    <1>10. \A b \in Upper' : b < forwarding'
        BY <1>1, <1>2, <1>4, <1>5, <1>9 DEF CopiesInOrder, Upper
    <1>11. Shape'
        BY <1>1, <1>5, <1>7, <1>8, <1>10 DEF Shape, Collecting
    <1>12. CopiesInOrder'
        <2>1. \A b \in Upper' : ~object'[b].forwarded /\ object'[b].forwarding = Nil
            <3>1. q \notin Upper /\ object[q].forwarding = Nil
                BY <1>1 DEF Originals, Lower, Upper
            <3> QED
                BY <1>1, <1>2, <1>5, <3>1 DEF CopiesInOrder, Upper
        <2>2. to' \in Upper' \cup {forwarding'}
            BY <1>1, <1>5, <1>9 DEF CopiesInOrder
        <2>3. \A b \in Upper' : b + Size(b)' \in Upper' \cup {forwarding'}
            BY <1>1, <1>2, <1>5, <1>9 DEF CopiesInOrder, Upper
        <2>4. \A b : ~Revised(b) /\ ~Revised(b)'
            BY DEF Revised
        <2>5. ASSUME NEW a \in Forwarded'
              PROVE  LET b == object'[a].forwarding IN
                     /\ b \in Upper'
                     /\ object'[b].clss = object'[a].clss /\ object'[b].id = object'[a].id
                     /\ DOMAIN object'[b].field = DOMAIN object'[a].field
                     /\ \A i \in DOMAIN object'[a].field : object'[b].field[i] = object'[a].field[i]
            <3>1. CASE a = q
                BY <1>2, <1>5, <3>1
            <3>2. CASE a # q
                <4>1. a \in Forwarded /\ a \in Objects /\ object'[a] = object[a]
                    BY <1>1, <1>2, <1>6, <2>5, <3>2 DEF Forwarded, Memory
                <4> DEFINE b == object[a].forwarding
                <4>2. /\ b \in Upper
                      /\ object[b].clss = object[a].clss /\ object[b].id = object[a].id
                      /\ DOMAIN object[b].field = DOMAIN object[a].field
                      /\ \A i \in DOMAIN object[a].field : object[b].field[i] = object[a].field[i]
                    BY <1>1, <2>4, <4>1 DEF CopiesInOrder
                <4>3. b # q /\ b \in Objects
                    BY <1>1, <4>2 DEF Originals, Upper, Lower
                <4>4. object'[b] = object[b]
                    BY <1>2, <4>3
                <4> HIDE DEF b
                <4> QED
                    BY <1>5, <4>1, <4>2, <4>4 DEF b
            <3> QED
                BY <3>1, <3>2
        <2>6. \A b \in Upper' : \E a \in Forwarded' : object'[a].forwarding = b
            <3> SUFFICES ASSUME NEW b \in Upper' PROVE \E a \in Forwarded' : object'[a].forwarding = b
                OBVIOUS
            <3>1. CASE b = f
                BY <1>2, <1>6, <3>1
            <3>2. CASE b \in Upper
                <4>1. PICK a \in Forwarded : object[a].forwarding = b
                    BY <1>1, <3>2 DEF CopiesInOrder
                <4>2. a # q /\ a \in Objects
                    BY <1>1, <4>1 DEF Forwarded, Memory
                <4> QED
                    BY <1>2, <1>6, <4>1, <4>2
            <3> QED
                BY <1>5, <3>1, <3>2
        <2>7. /\ next_forwarding_offset' \in Nat
              /\ next_forwarding_offset' = Cardinality(Bytes(Forwarded)')
            <3>1. next_forwarding_offset + Size(q) = Cardinality(Bytes(Forwarded) \cup q..(q + Size(q) - 1))
                BY <1>1, Room
            <3>2. Forwarded' \subseteq Objects
                BY <1>1, <1>2, <1>6 DEF Forwarded, Memory
            <3>3. Bytes(Forwarded)' = UNION {a..(a + Size(a)' - 1) : a \in Forwarded'}
                BY DEF Bytes
            <3>4. Bytes(Forwarded)' = UNION {a..(a + Size(a) - 1) : a \in Forwarded'}
                BY <1>2, <3>2, <3>3
            <3>5. Bytes(Forwarded)' = Bytes(Forwarded) \cup q..(q + Size(q) - 1)
                BY <1>6, <3>4 DEF Bytes
            <3> QED
                BY <1>1, <1>2, <1>4, <3>1, <3>5 DEF CopiesInOrder
        <2> QED
            BY <1>10, <2>1, <2>2, <2>3, <2>4, <2>5, <2>6, <2>7 DEF CopiesInOrder
    <1> QED
        BY <1>5, <1>6, <1>7, <1>8, <1>11, <1>12

\* What a call of copy(q) does, whether or not q is copied already.
LEMMA CallShape ==
    ASSUME Inv, pc = "copy", NEW q \in current \cup {Nil}, NEW fs \in Seq(Frame), Call(q, fs),
           roots' \in Seq(Nat), ri' \in Nat \ {0},
           UNCHANGED <<next_free_offset, from, pc, request, p, current, collections>>
    PROVE  /\ Types' /\ Memory' /\ CopiesInOrder' /\ Shape'
           /\ Upper \subseteq Upper' /\ Forwarded' = Forwarded \cup ({q} \ {Nil})
           /\ Objects \subseteq Objects'
           /\ \A a \in Objects : object'[a].id = object[a].id /\ object'[a].field = object[a].field
           /\ \A a \in current : ~object'[a].forwarded => object'[a].forwarding = Nil
           /\ q = Nil => Result(q) = Nil
           /\ q # Nil => Result(q) \in Upper' /\ object'[Result(q)].id = object[q].id
           /\ \/ stack' = fs
              \/ q # Nil /\ stack' = Append(fs, [obj |-> q, i |-> 1])
    <1>1. Types /\ Memory /\ CopiesInOrder /\ Originals /\ Shape
        BY InvShape DEF Inv, Collecting
    <1>2. \A a \in Objects : a \in Nat /\ a # Nil
        BY <1>1, Halves DEF Types, Memory, Nil
    <1>3. CASE q = Nil \/ q \in Forwarded
        <2>1. UNCHANGED <<object, next_forwarding_offset>> /\ stack' = fs
            BY <1>1, <1>2, <1>3 DEF Call, Forwarded, Memory, Copyable, Nil
        <2>2. Types' /\ Memory'
            BY <1>1, <2>1, SameMemory DEF Types
        <2>3. Upper' = Upper /\ Lower' = Lower /\ Objects' = Objects /\ Forwarded' = Forwarded
            BY <2>1 DEF Upper, Lower, InLower, Objects, Forwarded
        <2>4. to' = to /\ forwarding' = forwarding /\ \A b : Revised(b)' = Revised(b)
            BY <2>1 DEF to, forwarding, Revised
        <2>5. Bytes(Forwarded)' = Bytes(Forwarded) /\ \A b : Size(b)' = Size(b) /\ New(b)' = New(b)
            BY <2>1, <2>3 DEF Bytes, Size, New
        <2>6. CopiesInOrder'
            BY <1>1, <2>1, <2>3, <2>4, <2>5 DEF CopiesInOrder
        <2>7. Shape'
            BY <1>1, <2>2, <2>3, <2>4 DEF Shape, Collecting
        <2>8. Forwarded \cup ({q} \ {Nil}) = Forwarded
            BY <1>3
        <2>9. /\ q = Nil => Result(q) = Nil
              /\ q # Nil => Result(q) \in Upper /\ object[Result(q)].id = object[q].id
            BY <1>1, <1>3 DEF Result, Copied, Forwarded, CopiesInOrder, Memory
        <2> QED
            BY <1>1, <2>1, <2>2, <2>3, <2>6, <2>7, <2>8, <2>9 DEF Originals
    <1>4. CASE ~(q = Nil \/ q \in Forwarded)
        <2>1. q \in current /\ ~object[q].forwarded /\ q \in Objects
            BY <1>1, <1>4 DEF Forwarded, Memory
        <2>2. PICK f \in Nat : f = forwarding
            BY <2>1, CopyGoesBehind
        <2>3. /\ Evacuate(q) /\ next_forwarding_offset' = next_forwarding_offset + Size(q)
              /\ stack' = Append(fs, [obj |-> q, i |-> 1])
            BY <1>4, <2>1 DEF Call, Copied
        <2>4. stack' \in Seq(Frame)
            <3>1. [obj |-> q, i |-> 1] \in Frame
                BY <1>2, <2>1 DEF Frame
            <3> QED
                BY <2>3, <3>1, AppendProperties
        <2>5. /\ Types' /\ Memory' /\ CopiesInOrder' /\ Shape'
              /\ Upper' = Upper \cup {f} /\ Forwarded' = Forwarded \cup {q}
            BY <2>1, <2>2, <2>3, <2>4, EvacuateStep
        <2>6. /\ Objects' = Objects \cup {f} /\ f \notin Objects
              /\ \A a \in Objects \ {q} : object'[a] = object[a]
              /\ object'[f] = object[q]
              /\ object'[q].field = object[q].field /\ object'[q].id = object[q].id
              /\ object'[q].forwarded
            BY <2>1, <2>2, <2>3, EvacuateMemory
        <2>7. \A a \in Objects : object'[a].id = object[a].id /\ object'[a].field = object[a].field
            BY <2>6
        <2>8. \A a \in current : ~object'[a].forwarded => object'[a].forwarding = Nil
            BY <1>1, <2>6 DEF Originals, Memory
        <2>9. Result(q) = f
            BY <1>4, <2>1, <2>2 DEF Result, Copied
        <2> QED
            BY <1>4, <2>3, <2>5, <2>6, <2>7, <2>8, <2>9
    <1> QED
        BY <1>3, <1>4

\* The active calls fs will see to what the copied objects refer to, but for q.
Ahead(q, fs) ==
    /\ fs \in Seq(Frame)
    /\ \A j \in DOMAIN fs : fs[j].obj \in Forwarded
    /\ \A a \in Forwarded : \A i \in DOMAIN object[a].field :
          LET r == object[a].field[i] IN
          \/ r \in {Nil, q} \/ object[r].forwarded
          \/ \E j \in DOMAIN fs : fs[j].obj = a /\ fs[j].i <= i

\* The roots before ri have been replaced.
RootsReplaced ==
    \A i \in DOMAIN roots : roots[i] \in (IF i < ri THEN Upper ELSE current) \cup {Nil}

LEMMA CallStep ==
    ASSUME Inv, pc = "copy", NEW q \in current \cup {Nil}, NEW fs, Ahead(q, fs), Call(q, fs),
           q # Nil => object[q].id \in Live,
           roots' \in Seq(Nat), ri' \in Nat \ {0}, RootsReplaced', Live' = Live,
           UNCHANGED <<next_free_offset, from, pc, request, p, current, collections>>
    PROVE  Inv'
    <1>1. Types /\ Memory /\ CopiesInOrder /\ Originals
        BY DEF Inv, Collecting
    <1>2. /\ Types' /\ Memory' /\ CopiesInOrder' /\ Shape'
          /\ Forwarded' = Forwarded \cup ({q} \ {Nil})
          /\ \A a \in Objects : object'[a].id = object[a].id /\ object'[a].field = object[a].field
          /\ \A a \in current : ~object'[a].forwarded => object'[a].forwarding = Nil
          /\ \/ stack' = fs
             \/ q # Nil /\ stack' = Append(fs, [obj |-> q, i |-> 1])
        BY CallShape DEF Ahead
    <1>3. Forwarded \subseteq current /\ current \subseteq Objects
        BY <1>1 DEF Forwarded, Memory
    <1>4. \A a \in current : \A i \in DOMAIN object'[a].field :
                object'[a].field[i] \in current' \cup {Nil}
        BY <1>1, <1>2, <1>3 DEF Originals
    <1>5. /\ \A j \in DOMAIN stack' : stack'[j].obj \in Forwarded'
          /\ \A j \in DOMAIN fs : j \in DOMAIN stack' /\ stack'[j] = fs[j]
          /\ q # Nil /\ q \notin Forwarded =>
                \E j \in DOMAIN stack' : stack'[j].obj = q /\ stack'[j].i = 1
        <2>1. CASE stack' = fs /\ (q = Nil \/ q \in Forwarded)
            BY <1>2, <2>1 DEF Ahead
        <2>2. CASE q # Nil /\ stack' = Append(fs, [obj |-> q, i |-> 1])
            <3> DEFINE fr == [obj |-> q, i |-> 1]
            <3>1. fr \in Frame /\ fr.obj = q /\ fr.i = 1
                BY <1>1, <1>3, <2>2 DEF Frame, Types
            <3> HIDE DEF fr
            <3>2. /\ stack' \in Seq(Frame) /\ Len(stack') = Len(fs) + 1 /\ Len(fs) \in Nat
                  /\ \A j \in 1..Len(fs) : stack'[j] = fs[j]
                  /\ stack'[Len(fs) + 1] = fr
                  /\ DOMAIN fs = 1..Len(fs)
                BY <2>2, <3>1, AppendProperties, LenProperties DEF Ahead, fr
            <3>3. DOMAIN stack' = 1..(Len(fs) + 1)
                BY <3>2, LenProperties
            <3>4. \A j \in DOMAIN stack' : j \in DOMAIN fs \/ j = Len(fs) + 1
                BY <3>2, <3>3
            <3>5. Len(fs) + 1 \in DOMAIN stack' /\ \A j \in DOMAIN fs : j \in DOMAIN stack'
                BY <3>2, <3>3
            <3> QED
                BY <1>2, <2>2, <3>1, <3>2, <3>4, <3>5 DEF Ahead
        <2>3. CASE stack' = fs /\ ~(q = Nil \/ q \in Forwarded)
            <3>1. fs # Append(fs, [obj |-> q, i |-> 1])
                <4>1. [obj |-> q, i |-> 1] \in Frame
                    BY <1>1, <1>3, <2>3 DEF Frame, Types
                <4> QED
                    BY <4>1, AppendProperties, LenProperties DEF Ahead
            <3>2. stack' = Append(fs, [obj |-> q, i |-> 1])
                BY <1>3, <2>3 DEF Call, Copied, Forwarded
            <3> QED
                BY <2>3, <3>1, <3>2
        <2> QED
            BY <1>2, <2>1, <2>2, <2>3
    <1>6. \A a \in Forwarded' : \A i \in DOMAIN object'[a].field :
            LET r == object'[a].field[i] IN
            \/ r = Nil \/ object'[r].forwarded
            \/ \E j \in DOMAIN stack' : stack'[j].obj = a /\ stack'[j].i <= i
        <2> SUFFICES ASSUME NEW a \in Forwarded', NEW i \in DOMAIN object'[a].field,
                            object'[a].field[i] # Nil, ~object'[object'[a].field[i]].forwarded
                     PROVE  \E j \in DOMAIN stack' : stack'[j].obj = a /\ stack'[j].i <= i
            OBVIOUS
        <2>0. a \in current /\ a \in Objects
            <3>1. q # Nil => q \in current
                OBVIOUS
            <3> QED
                BY <1>2, <1>3, <3>1
        <2>1. /\ a \in current /\ i \in Nat \ {0}
              /\ i \in DOMAIN object[a].field /\ object[a].field[i] # Nil
              /\ ~object'[object[a].field[i]].forwarded
            <3>1. object'[a].field = object[a].field
                BY <1>2, <2>0
            <3> QED
                BY <1>1, <2>0, <3>1, CellFacts
        <2>2. object[a].field[i] # q /\ ~object[object[a].field[i]].forwarded
            <3>1. object[a].field[i] \in current
                BY <1>1, <2>1 DEF Originals
            <3>2. object[a].field[i] \notin Forwarded'
                BY <2>1 DEF Forwarded
            <3>3. object[a].field[i] # q
                BY <1>2, <2>1, <3>2
            <3>4. object[a].field[i] \notin Forwarded
                BY <1>2, <3>2
            <3> QED
                BY <3>1, <3>3, <3>4 DEF Forwarded
        <2>3. CASE a \in Forwarded
            BY <1>5, <2>1, <2>2, <2>3 DEF Ahead
        <2>4. CASE a \notin Forwarded
            BY <1>2, <1>5, <2>1, <2>4
        <2> QED
            BY <2>3, <2>4
    <1>7. \A a \in Forwarded' : object'[a].id \in Live'
        BY <1>1, <1>2, <1>3 DEF Originals
    <1>8. Originals'
        BY <1>1, <1>2, <1>4, <1>5, <1>6, <1>7 DEF Originals, Shape, RootsReplaced
    <1> QED
        BY <1>2, <1>8 DEF Inv, Shape

\* What the client sees holds together: references and roots designate objects in
\* use, and what a reachable object refers to is reachable.
LEMMA LiveIsClosed ==
    ASSUME Inv, Collecting
    PROVE  /\ \A a \in current : object[a].id \in Live =>
                \A i \in DOMAIN object[a].field :
                    object[a].field[i] # Nil => object[object[a].field[i]].id \in Live
           /\ \A i \in DOMAIN roots : roots[i] # Nil => object[roots[i]].id \in Live
           /\ Live \subseteq Identity
           /\ Closed(field, Identity)
           /\ root_ids \subseteq Identity
    <1>1. Types /\ Memory /\ CopiesInOrder /\ Originals /\ Shape /\ GraphIsSeen /\ PointersDesignate
        BY InvShape, FieldOf, DesignatedOf DEF Inv
    <1>2. \A q \in Objects : object[q].id \in Identity /\ object[q].id # Nil
        BY <1>1, CellFacts DEF Identity, Nil
    <1>3. \A a \in current : \A i \in DOMAIN object[a].field :
            /\ object[a].field[i] \in current \cup {Nil}
            /\ Designated(object[a].field[i]) =
                IF object[a].field[i] = Nil THEN Nil ELSE object[object[a].field[i]].id
            /\ i \in DOMAIN field[object[a].id]
            /\ field[object[a].id][i] = Designated(object[a].field[i])
        <2>1. Designated(Nil) = Nil
            BY DEF Designated
        <2>2. ASSUME NEW a \in current, NEW i \in DOMAIN object[a].field
              PROVE  /\ i \in DOMAIN field[object[a].id]
                     /\ field[object[a].id][i] = Designated(object[a].field[i])
            <3>1. field[object[a].id] =
                    [k \in DOMAIN object[a].field |-> Designated(object[a].field[k])]
                BY <1>1 DEF GraphIsSeen
            <3> QED
                BY <3>1
        <2>3. ASSUME NEW a \in current, NEW i \in DOMAIN object[a].field
              PROVE  object[a].field[i] \in current \cup {Nil}
            BY <1>1 DEF Originals
        <2>4. \A r \in current : r # Nil /\ Designated(r) = object[r].id
            BY <1>1 DEF PointersDesignate, Memory
        <2> QED
            BY <2>1, <2>2, <2>3, <2>4
    <1>4. Closed(field, Identity)
        <2> SUFFICES ASSUME NEW n \in Identity, NEW i \in DOMAIN field[n]
                     PROVE  field[n][i] \in Identity \cup {Nil}
            BY DEF Closed
        <2>1. CASE n \in allocated
            <3>1. PICK a \in current : object[a].id = n
                BY <2>1 DEF allocated
            <3>2. i \in DOMAIN object[a].field
                BY <1>1, <3>1 DEF GraphIsSeen
            <3> QED
                BY <1>1, <1>2, <1>3, <3>1, <3>2 DEF Memory
        <2>2. CASE n \notin allocated
            <3>1. field[n] = NullFields(0)
                BY <1>1, <2>2 DEF GraphIsSeen
            <3> QED
                BY <3>1 DEF NullFields
        <2> QED
            BY <2>1, <2>2
    <1>5. \A i \in DOMAIN roots : roots[i] # Nil =>
                roots[i] \in Objects /\ Designated(roots[i]) = object[roots[i]].id
        BY <1>1 DEF Originals, Memory, Upper, PointersDesignate
    <1>6. root_ids \subseteq Identity
        <2>1. Designated(Nil) = Nil
            BY DEF Designated
        <2> QED
            BY <1>2, <1>5, <2>1 DEF root_ids
    <1>7. \A i \in DOMAIN roots : roots[i] # Nil => object[roots[i]].id \in root_ids
        BY <1>2, <1>5 DEF root_ids
    <1>8. root_ids \subseteq Live /\ Closed(field, Live) /\ Live \subseteq Identity
        <2>1. root_ids \subseteq Live \cup {Nil}
            BY <1>6, RootsAreReachable DEF Live
        <2>2. Nil \notin Identity
            BY DEF Nil, Identity
        <2>3. Closed(field, Live)
            BY <1>4, ReachableIsClosed DEF Live
        <2>4. Live \subseteq Identity
            BY DEF Live, Reachable
        <2> QED
            BY <1>6, <2>1, <2>2, <2>3, <2>4
    <1>9. ASSUME NEW a \in current, object[a].id \in Live, NEW i \in DOMAIN object[a].field,
                 object[a].field[i] # Nil
          PROVE  object[object[a].field[i]].id \in Live
        <2>1. object[a].field[i] \in Objects
            BY <1>1, <1>3, <1>9 DEF Memory
        <2> QED
            BY <1>2, <1>3, <1>8, <1>9, <2>1 DEF Closed
    <1> QED
        BY <1>4, <1>6, <1>7, <1>8, <1>9

\* The client sees nothing of copying one object.
LEMMA CopyRootStep ==
    ASSUME Inv, CopyRoot PROVE Inv' /\ UNCHANGED <<allocated, field, root_ids>>
    <1> DEFINE q == roots[ri]
    <1>1. /\ pc = "copy" /\ stack = <<>> /\ ri <= Len(roots) /\ Call(q, <<>>)
          /\ roots' = [roots EXCEPT ![ri] = Result(q)] /\ ri' = ri + 1
          /\ UNCHANGED <<next_free_offset, from, pc, request, p, current, collections>>
        BY DEF CopyRoot
    <1>2. Types /\ Memory /\ CopiesInOrder /\ Originals /\ Collecting
        BY <1>1 DEF Inv, Collecting
    <1>3. /\ roots \in Seq(Nat) /\ Len(roots) \in Nat /\ DOMAIN roots = 1..Len(roots)
          /\ ri \in Nat \ {0} /\ ri \in DOMAIN roots
        BY <1>1, <1>2, LenProperties DEF Types
    <1>4. q \in current \cup {Nil}
        BY <1>2, <1>3 DEF Originals
    <1>5. <<>> \in Seq(Frame) /\ Ahead(q, <<>>)
        BY <1>1, <1>2, EmptySeq DEF Ahead, Originals
    <1>6. q # Nil => object[q].id \in Live
        BY <1>2, <1>3, LiveIsClosed
    <1>7. Result(q) \in Nat
        <2>1. q = Nil \/ q \in Objects
            BY <1>2, <1>4 DEF Memory
        <2>2. q \in Objects => object[q].forwarding \in Nat
            BY <1>2 DEF Types, Cell
        <2>3. forwarding \in Nat
            BY <1>2, Halves DEF forwarding, to, CopiesInOrder, Originals
        <2> QED
            BY <2>1, <2>2, <2>3 DEF Result, Nil
    <1>8. roots' \in Seq(Nat) /\ DOMAIN roots' = DOMAIN roots
        <2>1. roots' \in [1..Len(roots) -> Nat]
            <3>1. roots \in [1..Len(roots) -> Nat]
                BY <1>3, LenProperties
            <3> QED
                BY <1>1, <1>7, <3>1
        <2> QED
            BY <1>3, <2>1
    <1>9. ri' \in Nat \ {0}
        BY <1>1, <1>3
    <1> HIDE DEF q
    <1>10. /\ Types' /\ Memory' /\ CopiesInOrder' /\ Shape'
           /\ Upper \subseteq Upper' /\ Objects \subseteq Objects'
           /\ \A a \in Objects : object'[a].id = object[a].id /\ object'[a].field = object[a].field
           /\ q = Nil => Result(q) = Nil
           /\ q # Nil => Result(q) \in Upper' /\ object'[Result(q)].id = object[q].id
        BY <1>1, <1>4, <1>5, <1>8, <1>9, CallShape
    <1>11. /\ field' = field /\ allocated' = allocated
           /\ \A c \in Objects \cup {Nil} : Designated(c)' = Designated(c)
        BY <1>1, <1>2, <1>10, GraphStep DEF Memory
    <1>12. RootsReplaced'
        <2> SUFFICES ASSUME NEW i \in DOMAIN roots
                     PROVE  roots'[i] \in (IF i < ri + 1 THEN Upper' ELSE current) \cup {Nil}
            BY <1>1, <1>8 DEF RootsReplaced
        <2>1. CASE i = ri
            BY <1>1, <1>3, <1>10, <2>1
        <2>2. CASE i # ri
            BY <1>1, <1>2, <1>3, <1>10, <2>2 DEF Originals
        <2> QED
            BY <2>1, <2>2
    <1>13. root_ids' = root_ids
        <2>1. ASSUME NEW i \in DOMAIN roots
              PROVE  Designated(roots[i])' = Designated(roots[i])
            <3>1. CASE i = ri
                <4>1. PICK r : r = Result(q)
                    OBVIOUS
                <4>2. Designated(r)' = Designated(q)
                    <5>1. CASE q = Nil
                        <6>1. r = Nil
                            BY <1>10, <4>1, <5>1
                        <6> QED
                            BY <5>1, <6>1 DEF Designated
                    <5>2. CASE q # Nil
                        <6>1. r \in Objects' /\ object'[r].id = object[q].id /\ q \in Objects
                            BY <1>2, <1>4, <1>10, <4>1, <5>2 DEF Upper, Memory
                        <6>2. PointersDesignate /\ PointersDesignate'
                            BY <1>2, <1>10, InvShape, DesignatedOf, DesignatedOfNext
                        <6> QED
                            BY <6>1, <6>2 DEF PointersDesignate
                    <5> QED
                        BY <5>1, <5>2
                <4>3. roots'[i] = r /\ roots[i] = q
                    BY <1>1, <3>1, <4>1 DEF q
                <4> QED
                    BY <4>2, <4>3
            <3>2. CASE i # ri
                <4>1. roots'[i] = roots[i] /\ roots[i] \in Objects \cup {Nil}
                    BY <1>1, <1>2, <3>2 DEF Originals, Upper, Memory
                <4> QED
                    BY <1>11, <4>1
            <3> QED
                BY <3>1, <3>2
        <2> QED
            BY <1>8, <2>1 DEF root_ids
    <1>14. Live' = Live
        BY <1>11, <1>13 DEF Live
    <1>15. Inv'
        BY <1>1, <1>4, <1>5, <1>6, <1>8, <1>9, <1>12, <1>14, CallStep
    <1> QED
        BY <1>11, <1>13, <1>15

\* The innermost active call of copy().
LEMMA TopFacts ==
    ASSUME Inv, pc = "copy", stack # <<>>
    PROVE  /\ Len(stack) \in Nat \ {0} /\ DOMAIN stack = 1..Len(stack)
           /\ Top = stack[Len(stack)] /\ Top \in Frame
           /\ Top.obj \in Forwarded /\ Top.obj \in Objects /\ Top.i \in Nat \ {0}
           /\ Callers \in Seq(Frame) /\ DOMAIN Callers = 1..(Len(stack) - 1)
           /\ \A j \in 1..(Len(stack) - 1) : Callers[j] = stack[j]
    <1>1. stack \in Seq(Frame) /\ Memory /\ Originals
        BY DEF Inv, Types, Collecting
    <1>2. Len(stack) \in Nat \ {0} /\ DOMAIN stack = 1..Len(stack)
        BY <1>1, EmptySeq, LenProperties
    <1>3. Top = stack[Len(stack)] /\ Top \in Frame
        BY <1>1, <1>2, ElementOfSeq DEF Top
    <1>4. Top.obj \in Forwarded /\ Top.obj \in Objects /\ Top.i \in Nat \ {0}
        <2>1. \A j \in DOMAIN stack : stack[j].obj \in Forwarded
            BY <1>1 DEF Originals
        <2>2. Len(stack) \in DOMAIN stack
            BY <1>2
        <2>3. Forwarded \subseteq Objects
            BY <1>1 DEF Forwarded, Memory
        <2>4. Top.i \in Nat \ {0}
            BY <1>3 DEF Frame
        <2> QED
            BY <1>3, <2>1, <2>2, <2>3, <2>4
    <1>5. /\ Callers \in Seq(Frame) /\ Len(Callers) = Len(stack) - 1
          /\ \A j \in 1..(Len(stack) - 1) : Callers[j] = stack[j]
        <2> DEFINE n == Len(stack) - 1
        <2>1. n \in Nat /\ n <= Len(stack)
            BY <1>2
        <2>2. \A j \in 1..n : stack[j] \in Frame
            BY <1>1, <1>2, <2>1, ElementOfSeq
        <2> HIDE DEF n
        <2>3. /\ SubSeq(stack, 1, n) \in Seq(Frame)
              /\ Len(SubSeq(stack, 1, n)) = (IF 1 <= n THEN n - 1 + 1 ELSE 0)
              /\ \A j \in 1..(n - 1 + 1) : SubSeq(stack, 1, n)[j] = stack[1 + j - 1]
            BY <2>1, <2>2, SubSeqProperties
        <2>4. Len(SubSeq(stack, 1, n)) = n /\ \A j \in 1..n : SubSeq(stack, 1, n)[j] = stack[j]
            BY <2>1, <2>3
        <2> QED
            BY <2>3, <2>4 DEF Callers, n
    <1>6. DOMAIN Callers = 1..(Len(stack) - 1)
        BY <1>5, LenProperties
    <1> QED
        BY <1>2, <1>3, <1>4, <1>5, <1>6

LEMMA CopyFieldStep ==
    ASSUME Inv, CopyField PROVE Inv' /\ UNCHANGED <<allocated, field, root_ids>>
    <1> DEFINE t == Top.obj
               k == Top.i
               q == object[t].field[k]
               fr == [obj |-> t, i |-> k + 1]
               fs == Append(Callers, fr)
               d == Len(stack)
    <1>1. /\ pc = "copy" /\ stack # <<>> /\ k \in DOMAIN object[t].field /\ Call(q, fs)
          /\ UNCHANGED <<next_free_offset, from, roots, pc, request, ri, p, current, collections>>
        BY DEF CopyField
    <1>2. Types /\ Memory /\ CopiesInOrder /\ Originals /\ Collecting
        BY <1>1 DEF Inv, Collecting
    <1>3. /\ d \in Nat \ {0} /\ DOMAIN stack = 1..d /\ Top = stack[d]
          /\ t \in Forwarded /\ t \in Objects /\ k \in Nat \ {0}
          /\ Callers \in Seq(Frame) /\ DOMAIN Callers = 1..(d - 1)
          /\ \A j \in 1..(d - 1) : Callers[j] = stack[j]
        BY <1>1, TopFacts
    <1>4. q \in current \cup {Nil}
        BY <1>1, <1>2, <1>3 DEF Originals, Forwarded
    <1>6. stack[d].obj = t /\ stack[d].i = k
        BY <1>3
    <1> HIDE DEF t, k, q, d
    <1>5. fr \in Frame /\ fr.obj = t /\ fr.i = k + 1
        BY <1>2, <1>3 DEF Frame, Types
    <1> HIDE DEF fr
    <1>7. /\ fs \in Seq(Frame) /\ DOMAIN fs = 1..d /\ fs[d] = fr
          /\ \A j \in 1..(d - 1) : fs[j] = stack[j]
        <2>1. Len(Callers) = d - 1
            BY <1>3, LenProperties
        <2>2. /\ fs \in Seq(Frame) /\ Len(fs) = d /\ fs[d] = fr
              /\ \A j \in 1..(d - 1) : fs[j] = Callers[j]
            BY <1>3, <1>5, <2>1, AppendProperties
        <2> QED
            BY <1>3, <2>2, LenProperties
    <1> HIDE DEF fs
    <1>8. Ahead(q, fs)
        <2>1. ASSUME NEW a \in Forwarded, NEW i \in DOMAIN object[a].field,
                     object[a].field[i] \notin {Nil, q}, ~object[object[a].field[i]].forwarded
              PROVE  \E j \in DOMAIN fs : fs[j].obj = a /\ fs[j].i <= i
            <3>1. PICK j \in DOMAIN stack : stack[j].obj = a /\ stack[j].i <= i
                BY <1>2, <2>1 DEF Originals
            <3>2. CASE j # d
                BY <1>3, <1>7, <3>1, <3>2
            <3>3. CASE j = d
                <4>1. a = t /\ k <= i /\ i # k
                    BY <1>6, <2>1, <3>1, <3>3 DEF q
                <4>2. i \in Nat
                    BY <1>2, <1>3, <4>1, CellFacts
                <4> QED
                    BY <1>3, <1>5, <1>7, <4>1, <4>2
            <3> QED
                BY <3>2, <3>3
        <2>2. \A j \in DOMAIN fs : fs[j].obj \in Forwarded
            BY <1>2, <1>3, <1>5, <1>7 DEF Originals
        <2> QED
            BY <1>7, <2>1, <2>2 DEF Ahead
    <1>9. q # Nil => object[q].id \in Live
        <2>1. t \in current /\ object[t].id \in Live
            BY <1>2, <1>3 DEF Originals, Forwarded
        <2> QED
            BY <1>1, <1>2, <2>1, LiveIsClosed DEF q
    <1>10. roots' \in Seq(Nat) /\ ri' \in Nat \ {0}
        BY <1>1, <1>2 DEF Types
    <1>11. /\ Types' /\ Memory' /\ CopiesInOrder' /\ Shape'
           /\ Upper \subseteq Upper' /\ Objects \subseteq Objects'
           /\ \A a \in Objects : object'[a].id = object[a].id /\ object'[a].field = object[a].field
        BY <1>1, <1>4, <1>7, <1>10, CallShape
    <1>12. /\ field' = field /\ allocated' = allocated
           /\ \A c \in Objects \cup {Nil} : Designated(c)' = Designated(c)
        BY <1>1, <1>2, <1>11, GraphStep DEF Memory
    <1>13. RootsReplaced'
        BY <1>1, <1>2, <1>11 DEF RootsReplaced, Originals
    <1>14. root_ids' = root_ids
        <2>1. \A i \in DOMAIN roots : roots[i] \in Objects \cup {Nil}
            BY <1>2 DEF Originals, Upper, Memory
        <2>2. ASSUME NEW i \in DOMAIN roots PROVE Designated(roots[i])' = Designated(roots[i])
            BY <1>1, <1>12, <2>1
        <2> QED
            BY <1>1, <2>2 DEF root_ids
    <1>15. Live' = Live
        BY <1>12, <1>14 DEF Live
    <1>16. Inv'
        BY <1>1, <1>4, <1>8, <1>9, <1>10, <1>13, <1>15, CallStep
    <1> QED
        BY <1>12, <1>14, <1>16

\* The state that the meaning of a pointer depends on.
view == <<object, from, current, next_forwarding_offset>>

\* What steps of a collection have in common that leave memory alone.
LEMMA QuietStep ==
    ASSUME Inv, Collecting, Collecting', UNCHANGED view, UNCHANGED <<next_free_offset, roots>>,
           stack' \in Seq(Frame), ri' \in Nat \ {0},
           request' = request, collections' = collections,
           \A b \in Upper : Revised(b)' <=> Revised(b)
    PROVE  /\ Types' /\ Memory' /\ CopiesInOrder'
           /\ UNCHANGED <<allocated, field, root_ids, Live>>
    <1>1. Types /\ Memory /\ CopiesInOrder
        BY DEF Inv
    <1>2. Types' /\ Memory'
        BY <1>1, SameMemory DEF Types, view
    <1>3. /\ Upper' = Upper /\ Lower' = Lower /\ Objects' = Objects /\ Forwarded' = Forwarded
          /\ to' = to /\ forwarding' = forwarding
          /\ Bytes(Forwarded)' = Bytes(Forwarded)
          /\ \A b : Size(b)' = Size(b) /\ New(b)' = New(b) /\ Designated(b)' = Designated(b)
        BY DEF view, Upper, Lower, InLower, Objects, Forwarded, to, forwarding, Size, New,
               Bytes, Designated
    <1>4. CopiesInOrder'
        <2>1. ASSUME NEW a \in Forwarded
              PROVE  LET b == object[a].forwarding IN
                     /\ b \in Upper'
                     /\ object[b].clss = object[a].clss /\ object[b].id = object[a].id
                     /\ DOMAIN object[b].field = DOMAIN object[a].field
                     /\ \A i \in DOMAIN object[a].field :
                            object[b].field[i] = IF Revised(b)' THEN New(object[a].field[i])'
                                                 ELSE object[a].field[i]
            <3>1. PICK b \in Upper : b = object[a].forwarding
                BY <1>1 DEF CopiesInOrder
            <3>2. Revised(b)' <=> Revised(b)
                BY <3>1
            <3>3. object' = object
                BY DEF view
            <3>4. Revised(object[a].forwarding)' <=> Revised(object[a].forwarding)
                BY <3>1, <3>2, <3>3
            <3>5. \A i : New(object[a].field[i])' = New(object[a].field[i])
                BY <3>3 DEF New
            <3> QED
                BY <1>1, <1>3, <3>4, <3>5 DEF CopiesInOrder
        <2>2. /\ \A b \in Upper' : ~object'[b].forwarded /\ object'[b].forwarding = Nil
              /\ to' \in Upper' \cup {forwarding'}
              /\ \A b \in Upper' : b + Size(b)' \in Upper' \cup {forwarding'}
              /\ \A b \in Upper' : b < forwarding'
              /\ \A b \in Upper' : \E a \in Forwarded' : object'[a].forwarding = b
              /\ next_forwarding_offset' \in Nat
              /\ next_forwarding_offset' = Cardinality(Bytes(Forwarded)')
            BY <1>1, <1>3 DEF view, CopiesInOrder
        <2>3. object' = object
            BY DEF view
        <2> QED
            BY <1>3, <2>1, <2>2, <2>3 DEF CopiesInOrder
    <1>5. allocated' = allocated /\ field' = field /\ root_ids' = root_ids
        BY <1>3 DEF view, allocated, field, root_ids
    <1>6. Live' = Live
        BY <1>5 DEF Live
    <1> QED
        BY <1>2, <1>4, <1>5, <1>6

LEMMA CopyReturnStep ==
    ASSUME Inv, CopyReturn PROVE Inv' /\ UNCHANGED <<allocated, field, root_ids>>
    <1>1. /\ pc = "copy" /\ stack # <<>> /\ Top.i \notin DOMAIN object[Top.obj].field
          /\ stack' = Callers
          /\ UNCHANGED <<object, next_free_offset, from, roots, next_forwarding_offset, pc,
                         request, ri, p, current, collections>>
        BY DEF CopyReturn, memory
    <1>2. Types /\ Memory /\ CopiesInOrder /\ Originals /\ Collecting
        BY <1>1 DEF Inv, Collecting
    <1>3. /\ Len(stack) \in Nat \ {0} /\ DOMAIN stack = 1..Len(stack)
          /\ Top = stack[Len(stack)] /\ Top.obj \in Objects /\ Top.i \in Nat \ {0}
          /\ Callers \in Seq(Frame) /\ DOMAIN Callers = 1..(Len(stack) - 1)
          /\ \A j \in 1..(Len(stack) - 1) : Callers[j] = stack[j]
        BY <1>1, TopFacts
    <1>4. /\ Types' /\ Memory' /\ CopiesInOrder'
          /\ UNCHANGED <<allocated, field, root_ids, Live>>
        <2>1. UNCHANGED view
            BY <1>1 DEF view
        <2>2. \A b \in Upper : Revised(b)' <=> Revised(b)
            BY <1>1 DEF Revised
        <2>3. stack' \in Seq(Frame) /\ ri' \in Nat \ {0} /\ Collecting'
            BY <1>1, <1>2, <1>3 DEF Types, Collecting
        <2> QED
            BY <1>1, <1>2, <2>1, <2>2, <2>3, QuietStep
    <1>5. ASSUME NEW i \in DOMAIN object[Top.obj].field PROVE ~(Top.i <= i)
        <2>1. object[Top.obj].field \in ObjectOf(Nat, Nat)
            BY <1>2, <1>3, CellFacts
        <2>2. PICK n \in Nat : DOMAIN object[Top.obj].field = 1..n
            BY <2>1, DomainType
        <2> QED
            BY <1>1, <1>3, <1>5, <2>2
    <1>6. \A a \in Forwarded' : \A i \in DOMAIN object'[a].field :
            LET q == object'[a].field[i] IN
            \/ q = Nil \/ object'[q].forwarded
            \/ \E j \in DOMAIN stack' : stack'[j].obj = a /\ stack'[j].i <= i
        <2> SUFFICES ASSUME NEW a \in Forwarded, NEW i \in DOMAIN object[a].field,
                            object[a].field[i] # Nil, ~object[object[a].field[i]].forwarded
                     PROVE  \E j \in DOMAIN Callers : Callers[j].obj = a /\ Callers[j].i <= i
            BY <1>1 DEF Forwarded
        <2>1. PICK j \in DOMAIN stack : stack[j].obj = a /\ stack[j].i <= i
            BY <1>2 DEF Originals
        <2>2. j # Len(stack)
            BY <1>3, <1>5, <2>1
        <2> QED
            BY <1>3, <2>1, <2>2
    <1>7. \A j \in DOMAIN stack' : stack'[j].obj \in Forwarded'
        BY <1>1, <1>2, <1>3 DEF Originals, Forwarded
    <1>8. Originals'
        <2>1. Upper' = Upper /\ Lower' = Lower /\ Forwarded' = Forwarded /\ Live' = Live
            BY <1>1, <1>4 DEF Upper, Lower, InLower, Objects, Forwarded
        <2> QED
            BY <1>1, <1>2, <1>6, <1>7, <2>1 DEF Originals
    <1> QED
        BY <1>1, <1>4, <1>8 DEF Inv

LEMMA CopyDoneStep ==
    ASSUME Inv, CopyDone PROVE Inv' /\ UNCHANGED <<allocated, field, root_ids>>
    <1>1. /\ pc = "copy" /\ stack = <<>> /\ ri > Len(roots) /\ pc' = "adjust" /\ p' = 0
          /\ UNCHANGED <<object, next_free_offset, from, roots, next_forwarding_offset,
                         request, ri, stack, current, collections>>
        BY DEF CopyDone, memory
    <1>2. Types /\ Memory /\ CopiesInOrder /\ Originals /\ Collecting /\ Collecting'
        BY <1>1 DEF Inv, Collecting
    <1>3. to \in Nat /\ \A b \in Upper : b >= to /\ b \in Nat
        <2>1. to = heap + heap_half_size /\ heap = 1 /\ heap_half_size \in Nat
            BY <1>2, Halves DEF to, Originals
        <2>2. \A b \in Upper : b \in Nat /\ ~(b < heap + heap_half_size)
            BY <1>2 DEF Upper, InLower, Types
        <2> QED
            BY <2>1, <2>2
    <1>4. /\ Types' /\ Memory' /\ CopiesInOrder'
          /\ UNCHANGED <<allocated, field, root_ids, Live>>
        <2>1. UNCHANGED view
            BY <1>1 DEF view
        <2>2. \A b \in Upper : Revised(b)' <=> Revised(b)
            <3>1. to' = to
                BY <1>1 DEF to
            <3> QED
                BY <1>1, <1>3, <3>1 DEF Revised
        <2>3. stack' \in Seq(Frame) /\ ri' \in Nat \ {0}
            BY <1>1, <1>2 DEF Types
        <2> QED
            BY <1>1, <1>2, <2>1, <2>2, <2>3, QuietStep
    <1>5. Originals'
        <2>1. /\ Upper' = Upper /\ Lower' = Lower /\ Forwarded' = Forwarded /\ Live' = Live
              /\ to' = to /\ forwarding' = forwarding
            BY <1>1, <1>4 DEF Upper, Lower, InLower, Objects, Forwarded, to, forwarding
        <2>2. p' \in Nat /\ to' + p' \in Upper' \cup {forwarding'}
            BY <1>1, <1>2, <1>3, <2>1 DEF CopiesInOrder
        <2> QED
            BY <1>1, <1>2, <2>1, <2>2 DEF Originals
    <1> QED
        BY <1>1, <1>4, <1>5 DEF Inv

\* The first collection reads and writes only what C defines.
LEMMA CopyIsDefined ==
    ASSUME Inv PROVE ~CopyUndefined
    <1> SUFFICES ASSUME CopyUndefined PROVE FALSE
        OBVIOUS
    <1>1. pc = "copy" /\ Types /\ Memory /\ Originals
        BY DEF Inv, CopyUndefined, Collecting
    <1>2. ASSUME NEW q \in current \cup {Nil} PROVE ~Unreadable(q)
        <2>1. q \in current => q \in Objects
            BY <1>1 DEF Memory
        <2>2. q \in current /\ ~object[q].forwarded => Copyable(q)
            BY <1>1, CopyGoesBehind
        <2> QED
            BY <2>1, <2>2 DEF Unreadable, Copied
    <1>3. ~(stack = <<>> /\ ri <= Len(roots) /\ Unreadable(roots[ri]))
        <2> SUFFICES ASSUME ri <= Len(roots) PROVE roots[ri] \in current \cup {Nil}
            BY <1>2
        <2>1. ri \in DOMAIN roots /\ ~(ri < ri)
            BY <1>1, LenProperties DEF Types
        <2> QED
            BY <1>1, <2>1 DEF Originals
    <1>4. stack # <<>> => Top.obj \in Forwarded /\ Top.obj \in Objects
        BY <1>1, TopFacts
    <1>5. \A i \in DOMAIN object[Top.obj].field :
            stack # <<>> => object[Top.obj].field[i] \in current \cup {Nil}
        BY <1>1, <1>4 DEF Originals, Forwarded
    <1> QED
        BY <1>2, <1>3, <1>4, <1>5 DEF CopyUndefined

--------------------------------------------------------------------------------
(* adjust_ref() and swap.                                                  *)

\* The walk over the copies is at a copy, whose references still lead to originals,
\* each of which has its forwarding pointer.
LEMMA AtACopy ==
    ASSUME Inv, pc = "adjust", p < next_forwarding_offset
    PROVE  /\ to + p \in Upper /\ ~Revised(to + p)
           /\ \A i \in DOMAIN object[to + p].field :
                LET r == object[to + p].field[i] IN
                r = Nil \/ (r \in Forwarded /\ r \in Objects /\ object[r].forwarding \in Upper)
    <1>1. Types /\ Memory /\ CopiesInOrder /\ Originals
        BY DEF Inv, Collecting
    <1>2. p \in Nat /\ next_forwarding_offset \in Nat /\ to \in Nat /\ stack = <<>>
        BY <1>1, Halves DEF Originals, CopiesInOrder, to
    <1>3. to + p \in Upper
        <2>1. to + p # forwarding
            BY <1>2 DEF forwarding
        <2> QED
            BY <1>1, <2>1 DEF Originals
    <1>4. ~Revised(to + p)
        BY <1>2 DEF Revised
    <1>5. PICK a \in Forwarded : object[a].forwarding = to + p
        BY <1>1, <1>3 DEF CopiesInOrder
    <1>6. /\ DOMAIN object[to + p].field = DOMAIN object[a].field
          /\ \A i \in DOMAIN object[a].field : object[to + p].field[i] = object[a].field[i]
        BY <1>1, <1>4, <1>5 DEF CopiesInOrder
    <1>7. \A i \in DOMAIN object[a].field :
            LET r == object[a].field[i] IN
            r = Nil \/ (r \in current /\ object[r].forwarded)
        <2>1. a \in current
            BY DEF Forwarded
        <2>2. \A i \in DOMAIN object[a].field : object[a].field[i] \in current \cup {Nil}
            BY <1>1, <2>1 DEF Originals
        <2>3. \A i \in DOMAIN object[a].field :
                object[a].field[i] = Nil \/ object[object[a].field[i]].forwarded
            BY <1>1, <1>2 DEF Originals
        <2> QED
            BY <2>2, <2>3
    <1>8. \A r \in Forwarded : r \in Objects /\ object[r].forwarding \in Upper
        BY <1>1 DEF CopiesInOrder, Forwarded, Memory
    <1>9. \A i \in DOMAIN object[a].field :
            LET r == object[a].field[i] IN
            r = Nil \/ (r \in Forwarded /\ r \in Objects /\ object[r].forwarding \in Upper)
        BY <1>7, <1>8 DEF Forwarded
    <1> QED
        BY <1>3, <1>4, <1>6, <1>9

LEMMA AdjustIsDefined ==
    ASSUME Inv PROVE ~AdjustUndefined
    BY AtACopy DEF AdjustUndefined, Readable, Pointees, Upper

LEMMA AdjustStep ==
    ASSUME Inv, Adjust PROVE Inv' /\ UNCHANGED <<allocated, field, root_ids>>
    <1>1. /\ pc = "adjust" /\ p < next_forwarding_offset
          /\ object' = [object EXCEPT ![to + p].field = Adjusted(@)]
          /\ p' = p + Size(to + p)
          /\ UNCHANGED <<next_free_offset, next_forwarding_offset, from, roots, pc, request,
                         ri, stack, current, collections>>
        BY DEF Adjust
    <1>2. Types /\ Memory /\ CopiesInOrder /\ Originals /\ Collecting /\ Collecting'
        BY <1>1 DEF Inv, Collecting
    <1>3. PICK b \in Upper : b = to + p
        BY <1>1, AtACopy
    <1>4. /\ ~Revised(b) /\ b \in Objects /\ b \notin current /\ b \in Nat
          /\ \A i \in DOMAIN object[b].field :
                object[b].field[i] = Nil \/ object[object[b].field[i]].forwarding \in Upper
        BY <1>1, <1>2, <1>3, AtACopy DEF Upper, Originals, Lower, Types
    <1>5. PICK f : f = Adjusted(object[b].field)
        OBVIOUS
    <1>6. /\ DOMAIN f = DOMAIN object[b].field
          /\ \A i \in DOMAIN f : f[i] = New(object[b].field[i])
        <2>1. \A r \in Upper : r # Nil
            BY <1>2, Halves DEF Upper, Memory, Nil
        <2> QED
            BY <1>4, <1>5, <2>1 DEF Adjusted, New
    <1>7. f \in ObjectOf(Nat, Nat)
        <2>1. object[b].field \in ObjectOf(Nat, Nat)
            BY <1>2, <1>4, CellFacts
        <2>2. PICK n \in Nat : object[b].field \in [1..n -> Nat]
            BY <2>1 DEF ObjectOf
        <2>3. \A i \in DOMAIN f : f[i] \in Nat
            <3>1. \A c \in Upper : c \in Nat
                BY <1>2 DEF Upper, Types
            <3>2. Nil \in Nat
                BY DEF Nil
            <3> QED
                BY <1>4, <1>6, <3>1, <3>2 DEF New
        <2>4. f = [i \in DOMAIN object[b].field |-> f[i]]
            BY <1>5 DEF Adjusted
        <2>5. f \in [1..n -> Nat]
            BY <1>6, <2>2, <2>3, <2>4
        <2> QED
            BY <2>5 DEF ObjectOf
    <1>8. object' = [object EXCEPT ![b].field = f]
        BY <1>1, <1>3, <1>4, <1>5 DEF Objects
    <1>9. /\ Types' /\ Memory' /\ Objects' = Objects
          /\ object'[b].field = f
          /\ \A a \in Objects \ {b} : object'[a].field = object[a].field
          /\ \A a \in Objects :
                /\ object'[a].clss = object[a].clss /\ object'[a].id = object[a].id
                /\ object'[a].forwarded = object[a].forwarded
                /\ object'[a].forwarding = object[a].forwarding
                /\ Size(a)' = Size(a)
        BY <1>1, <1>2, <1>4, <1>7, <1>8, FieldChange
    <1>10. /\ Upper' = Upper /\ Lower' = Lower /\ Forwarded' = Forwarded
           /\ to' = to /\ forwarding' = forwarding
        BY <1>1, <1>2, <1>9 DEF Upper, Lower, InLower, Forwarded, Memory, to, forwarding
    <1>11. Shape'
        <2>1. \A c \in Upper' : c < forwarding'
            BY <1>2, <1>10 DEF CopiesInOrder
        <2> QED
            BY <1>1, <1>2, <1>9, <1>10, <2>1 DEF Shape, Originals
    <1>12. /\ field' = field /\ allocated' = allocated
           /\ \A q \in Objects \cup {Nil} : Designated(q)' = Designated(q)
        BY <1>1, <1>2, <1>4, <1>9, <1>11, GraphStep DEF Memory
    <1>13. root_ids' = root_ids
        <2>1. \A i \in DOMAIN roots : roots[i] \in Objects \cup {Nil}
            BY <1>2 DEF Originals, Upper, Memory
        <2>2. ASSUME NEW i \in DOMAIN roots PROVE Designated(roots[i])' = Designated(roots[i])
            BY <1>1, <1>12, <2>1
        <2> QED
            BY <1>1, <2>2 DEF root_ids
    <1>14. Live' = Live
        BY <1>12, <1>13 DEF Live
    <1>15. p \in Nat /\ to \in Nat /\ Size(b) \in Nat /\ Size(b) > 0 /\ p' = p + Size(b)
           /\ to + p' = b + Size(b)
        <2>1. p \in Nat /\ to \in Nat
            BY <1>1, <1>2, Halves DEF Originals, to
        <2>2. Size(b) \in Nat /\ Size(b) > 0
            BY <1>2, <1>4, CellFacts
        <2> QED
            BY <1>1, <1>3, <2>1, <2>2
    <1>16. /\ Revised(b)'
           /\ \A c \in Upper : c # b => (Revised(c)' <=> Revised(c))
        <2>1. Revised(b)'
            BY <1>1, <1>4, <1>10, <1>15 DEF Revised
        <2>2. ASSUME NEW c \in Upper, c # b PROVE c < to + p' <=> c < to + p
            <3>1. c < b => c < b + Size(b)
                BY <1>2, <1>4, <1>15 DEF Upper, Types
            <3>2. c > b => c >= b + Size(b)
                BY <1>2, <1>4 DEF Upper, Memory, Types
            <3>3. c \in Nat
                BY <1>2 DEF Upper, Types
            <3> QED
                BY <1>3, <1>4, <1>15, <2>2, <3>1, <3>2, <3>3
        <2> QED
            BY <1>1, <1>10, <2>1, <2>2 DEF Revised
    <1>17. CopiesInOrder'
        <2>1. \A r \in current \cup {Nil} : New(r)' = New(r)
            BY <1>2, <1>9 DEF New, Memory
        <2>2. ASSUME NEW a \in Forwarded, NEW c, c = object'[a].forwarding
              PROVE  /\ c \in Upper
                     /\ object'[c].clss = object'[a].clss /\ object'[c].id = object'[a].id
                     /\ DOMAIN object'[c].field = DOMAIN object'[a].field
                     /\ object'[a].field = object[a].field
                     /\ \A i \in DOMAIN object[a].field :
                            object'[c].field[i] = IF Revised(c)' THEN New(object[a].field[i])
                                                  ELSE object[a].field[i]
            <3>1. a \in current /\ a \in Objects /\ a # b
                BY <1>2, <1>4 DEF Forwarded, Memory
            <3>2. /\ c \in Upper /\ c \in Objects /\ c = object[a].forwarding
                  /\ object[c].clss = object[a].clss /\ object[c].id = object[a].id
                  /\ DOMAIN object[c].field = DOMAIN object[a].field
                  /\ \A i \in DOMAIN object[a].field :
                        object[c].field[i] = IF Revised(c) THEN New(object[a].field[i])
                                             ELSE object[a].field[i]
                BY <1>2, <1>9, <2>2, <3>1 DEF CopiesInOrder, Upper
            <3>3. object'[a].field = object[a].field
                BY <1>9, <3>1
            <3>4. CASE c = b
                BY <1>4, <1>6, <1>9, <1>16, <3>1, <3>2, <3>3, <3>4
            <3>5. CASE c # b
                BY <1>9, <1>16, <3>1, <3>2, <3>3, <3>5
            <3> QED
                BY <3>4, <3>5
        <2>3. ASSUME NEW a \in Forwarded, NEW i \in DOMAIN object[a].field
              PROVE  New(object[a].field[i])' = New(object[a].field[i])
            <3>1. object[a].field[i] \in current \cup {Nil}
                BY <1>2 DEF Originals, Forwarded
            <3>2. object'[a].field = object[a].field
                BY <2>2
            <3> QED
                BY <2>1, <3>1, <3>2
        <2>4. ASSUME NEW a \in Forwarded
              PROVE  LET c == object'[a].forwarding IN
                     /\ c \in Upper'
                     /\ object'[c].clss = object'[a].clss /\ object'[c].id = object'[a].id
                     /\ DOMAIN object'[c].field = DOMAIN object'[a].field
                     /\ \A i \in DOMAIN object'[a].field :
                            object'[c].field[i] = IF Revised(object[a].forwarding)'
                                                  THEN New(object[a].field[i])'
                                                  ELSE object'[a].field[i]
            <3>1. PICK c : c = object'[a].forwarding
                OBVIOUS
            <3>2. Revised(object[a].forwarding)' <=> Revised(c)'
                BY <3>1
            <3> QED
                BY <1>10, <2>2, <2>3, <3>1, <3>2
        <2>5. /\ \A c \in Upper' : ~object'[c].forwarded /\ object'[c].forwarding = Nil
              /\ to' \in Upper' \cup {forwarding'}
              /\ \A c \in Upper' : c + Size(c)' \in Upper' \cup {forwarding'}
              /\ \A c \in Upper' : c < forwarding'
            BY <1>2, <1>9, <1>10 DEF CopiesInOrder, Upper
        <2>6. \A c \in Upper' : \E a \in Forwarded' : object'[a].forwarding = c
            BY <1>2, <1>9, <1>10 DEF CopiesInOrder, Forwarded, Memory
        <2>7. Bytes(Forwarded)' = Bytes(Forwarded)
            <3>1. Forwarded \subseteq Objects
                BY <1>2 DEF Forwarded, Memory
            <3>2. Bytes(Forwarded)' = UNION {a..(a + Size(a)' - 1) : a \in Forwarded'}
                BY DEF Bytes
            <3> QED
                BY <1>9, <1>10, <3>1, <3>2 DEF Bytes
        <2> QED
            BY <1>1, <1>2, <1>10, <2>4, <2>5, <2>6, <2>7 DEF CopiesInOrder
    <1>18. Originals'
        <2>1. \A a \in current : /\ object'[a].field = object[a].field
                                 /\ object'[a].forwarded = object[a].forwarded
                                 /\ object'[a].forwarding = object[a].forwarding
                                 /\ object'[a].id = object[a].id
            BY <1>2, <1>4, <1>9 DEF Memory
        <2>2. \A a \in current' : ~object'[a].forwarded => object'[a].forwarding = Nil
            BY <1>1, <1>2, <2>1 DEF Originals
        <2>3. \A a \in current' : \A i \in DOMAIN object'[a].field :
                    object'[a].field[i] \in current' \cup {Nil}
            BY <1>1, <1>2, <2>1 DEF Originals
        <2>4. \A a \in Forwarded' : \A i \in DOMAIN object'[a].field :
                LET q == object'[a].field[i] IN q = Nil \/ object'[q].forwarded
            <3>1. \A a \in Forwarded : a \in current
                BY DEF Forwarded
            <3>2. \A a \in Forwarded : \A i \in DOMAIN object[a].field :
                    /\ object[a].field[i] \in current \cup {Nil}
                    /\ object[a].field[i] = Nil \/ object[object[a].field[i]].forwarded
                BY <1>1, <1>2, <3>1 DEF Originals
            <3> QED
                BY <1>10, <2>1, <3>1, <3>2
        <2>5. \A a \in Forwarded' : object'[a].id \in Live'
            BY <1>2, <1>10, <1>14, <2>1 DEF Originals, Forwarded
        <2>6. p' \in Nat /\ to' + p' \in Upper' \cup {forwarding'}
            BY <1>2, <1>10, <1>15 DEF CopiesInOrder
        <2> QED
            BY <1>1, <1>2, <1>10, <2>2, <2>3, <2>4, <2>5, <2>6 DEF Originals
    <1> QED
        BY <1>1, <1>2, <1>9, <1>12, <1>13, <1>17, <1>18 DEF Inv

\* When adjust_ref() is done, every copy has been adjusted, and the copies are what
\* the model keeps of memory.
LEMMA AdjustIsDone ==
    ASSUME Inv, AdjustDone
    PROVE  /\ \A b \in Upper : Revised(b)
           /\ Copies = Upper /\ Objects' = Upper /\ current' = Upper
           /\ \A b \in Upper : object'[b] = object[b]
           /\ from' = heap + heap_half_size
    <1>1. /\ pc = "adjust" /\ p >= next_forwarding_offset
          /\ from' = to /\ object' = [a \in Copies |-> object[a]] /\ current' = Copies
        BY DEF AdjustDone
    <1>2. Types /\ Memory /\ CopiesInOrder /\ Originals
        BY <1>1 DEF Inv, Collecting
    <1>3. /\ to = heap + heap_half_size /\ heap = 1 /\ heap_half_size \in Nat
          /\ p \in Nat /\ next_forwarding_offset \in Nat
          /\ forwarding = to + next_forwarding_offset
        BY <1>1, <1>2, Halves DEF to, Originals, CopiesInOrder, forwarding
    <1>4. \A b \in Upper : b \in Nat /\ b < forwarding
        BY <1>2 DEF CopiesInOrder, Upper, Types
    <1>5. \A b \in Upper : Revised(b)
        BY <1>1, <1>3, <1>4 DEF Revised
    <1>6. Copies = Upper
        <2>1. \A a \in Objects : a \in Nat
            BY <1>2 DEF Types
        <2> QED
            BY <1>3, <1>4, <2>1 DEF Copies, Upper, InLower
    <1>7. Objects' = Upper /\ \A b \in Upper : object'[b] = object[b]
        BY <1>1, <1>6 DEF Objects
    <1> QED
        BY <1>1, <1>3, <1>5, <1>6, <1>7

\* What is left are the copies of the forwarded objects, under the same identities,
\* and their references lead to copies.
LEMMA CopiesAreLeft ==
    ASSUME Inv, AdjustDone
    PROVE  /\ \A b \in Upper : \E a \in Forwarded :
                /\ object[a].forwarding = b /\ object[b].id = object[a].id
                /\ DOMAIN object[b].field = DOMAIN object[a].field
                /\ \A i \in DOMAIN object[a].field :
                        /\ object[b].field[i] = New(object[a].field[i])
                        /\ \/ object[a].field[i] = Nil
                           \/ object[a].field[i] \in Forwarded
           /\ \A a \in Forwarded : /\ object[a].forwarding \in Upper
                                   /\ object[object[a].forwarding].id = object[a].id
           /\ \A i \in DOMAIN roots : roots[i] \in Upper \cup {Nil}
    <1>1. /\ pc = "adjust" /\ Types /\ Memory /\ CopiesInOrder /\ Originals
        BY DEF AdjustDone, Inv, Collecting
    <1>2. \A b \in Upper : Revised(b)
        BY AdjustIsDone
    <1>3. \A i \in DOMAIN roots : roots[i] \in Upper \cup {Nil}
        <2>1. \A i \in DOMAIN roots : i < ri
            BY <1>1, LenProperties DEF Originals, Types
        <2> QED
            BY <1>1, <2>1 DEF Originals
    <1>4. \A a \in Forwarded : \A i \in DOMAIN object[a].field :
            object[a].field[i] = Nil \/ object[a].field[i] \in Forwarded
        <2>1. \A a \in Forwarded : a \in current
            BY DEF Forwarded
        <2>2. \A a \in Forwarded : \A i \in DOMAIN object[a].field :
                /\ object[a].field[i] \in current \cup {Nil}
                /\ object[a].field[i] = Nil \/ object[object[a].field[i]].forwarded
            BY <1>1, <2>1 DEF Originals
        <2> QED
            BY <2>2 DEF Forwarded
    <1>5. \A a \in Forwarded : /\ object[a].forwarding \in Upper
                               /\ object[object[a].forwarding].id = object[a].id
        BY <1>1 DEF CopiesInOrder
    <1>6. ASSUME NEW b \in Upper
          PROVE  \E a \in Forwarded :
                    /\ object[a].forwarding = b /\ object[b].id = object[a].id
                    /\ DOMAIN object[b].field = DOMAIN object[a].field
                    /\ \A i \in DOMAIN object[a].field :
                            object[b].field[i] = New(object[a].field[i])
        <2>1. PICK a \in Forwarded : object[a].forwarding = b
            BY <1>1 DEF CopiesInOrder
        <2> QED
            BY <1>1, <1>2, <2>1 DEF CopiesInOrder
    <1> QED
        BY <1>3, <1>4, <1>5, <1>6

\* The copies are exactly the reachable objects.
LEMMA CopiesAreLive ==
    ASSUME Inv, AdjustDone
    PROVE  allocated' = Live
    <1>1. /\ Collecting /\ Types /\ Memory /\ Originals
        BY DEF AdjustDone, Inv, Collecting
    <1> DEFINE S == {object[a].id : a \in Forwarded}
    <1>2. allocated' = {object[b].id : b \in Upper}
        BY AdjustIsDone DEF allocated
    <1>3. S = {object[b].id : b \in Upper}
        BY CopiesAreLeft
    <1>4. S \subseteq Live
        BY <1>1 DEF Originals
    <1>5. Live \subseteq S
        <2>1. GraphIsSeen /\ PointersDesignate
            BY <1>1, InvShape, FieldOf, DesignatedOf
        <2>2. Forwarded \subseteq current /\ current \subseteq Objects /\ Upper \subseteq Objects
            BY <1>1 DEF Forwarded, Memory, Upper
        <2>3. S \in SUBSET Identity
            BY <1>1, <2>2, CellFacts
        <2>4. root_ids \subseteq S \cup {Nil}
            <3>1. \A i \in DOMAIN roots : roots[i] = Nil \/ Designated(roots[i]) \in {object[b].id : b \in Upper}
                BY <2>1, <2>2, CopiesAreLeft DEF PointersDesignate
            <3>2. Designated(Nil) = Nil
                BY DEF Designated
            <3> HIDE DEF S
            <3> QED
                BY <1>3, <3>1, <3>2 DEF root_ids
        <2>5. Closed(field, S)
            <3> SUFFICES ASSUME NEW a \in Forwarded, NEW i \in DOMAIN field[object[a].id]
                         PROVE  field[object[a].id][i] \in S \cup {Nil}
                BY DEF Closed
            <3>1. a \in current
                BY <2>2
            <3>2. field[object[a].id] =
                    [k \in DOMAIN object[a].field |-> Designated(object[a].field[k])]
                BY <2>1, <3>1 DEF GraphIsSeen
            <3>3. i \in DOMAIN object[a].field
                  /\ field[object[a].id][i] = Designated(object[a].field[i])
                BY <3>2
            <3>4. object[a].field[i] = Nil \/ object[a].field[i] \in Forwarded
                <4>1. object[a].forwarding \in Upper
                    BY CopiesAreLeft
                <4>2. PICK c \in Forwarded :
                        /\ object[c].id = object[object[a].forwarding].id
                        /\ \A k \in DOMAIN object[c].field :
                            object[c].field[k] = Nil \/ object[c].field[k] \in Forwarded
                    BY <4>1, CopiesAreLeft
                <4>3. object[c].id = object[a].id
                    BY <4>2, CopiesAreLeft
                <4>4. c = a
                    BY <1>1, <2>2, <4>3 DEF Memory
                <4> QED
                    BY <3>3, <4>2, <4>4
            <3>5. Designated(Nil) = Nil
                BY DEF Designated
            <3>6. \A r \in Forwarded : Designated(r) = object[r].id
                BY <2>1, <2>2 DEF PointersDesignate
            <3> QED
                BY <3>3, <3>4, <3>5, <3>6
        <2> HIDE DEF S
        <2> QED
            BY <2>3, <2>4, <2>5, ReachableIsLeast DEF Live
    <1> QED
        BY <1>2, <1>3, <1>4, <1>5

LEMMA AdjustDoneStep ==
    ASSUME Inv, AdjustDone PROVE Inv'
    <1>1. /\ pc = "adjust" /\ ri' = 1
          /\ pc' = (IF request = NoRequest THEN "run" ELSE "alloc")
          /\ UNCHANGED <<next_free_offset, roots, request, stack, collections>>
        BY DEF AdjustDone
    <1>2. Types /\ Memory /\ CopiesInOrder /\ Originals
        BY <1>1 DEF Inv, Collecting
    <1>3. /\ Objects' = Upper /\ current' = Upper /\ from' = heap + heap_half_size
          /\ \A b \in Upper : object'[b] = object[b]
        BY AdjustIsDone
    <1>4. Upper \subseteq Objects
        BY DEF Upper
    <1>5. \A b \in Upper : Size(b)' = Size(b)
        BY <1>3 DEF Size
    <1>6. Types'
        BY <1>1, <1>2, <1>3, <1>4 DEF Types
    <1>7. Memory'
        <2>1. \A a \in Objects' : a >= heap
            BY <1>2, <1>3, <1>4 DEF Memory
        <2>2. \A a, b \in Objects' : a < b => a + Size(a)' <= b
            BY <1>2, <1>3, <1>4, <1>5 DEF Memory
        <2>3. Lower' = {}
            BY <1>3 DEF Lower, Upper, InLower
        <2>4. ASSUME NEW b \in Upper, NEW c \in Upper, object[b].id = object[c].id
              PROVE  b = c
            <3>1. PICK d \in Forwarded : object[d].forwarding = b /\ object[b].id = object[d].id
                BY CopiesAreLeft
            <3>2. PICK e \in Forwarded : object[e].forwarding = c /\ object[c].id = object[e].id
                BY CopiesAreLeft
            <3>3. d = e
                BY <1>2, <2>4, <3>1, <3>2 DEF Forwarded, Memory
            <3> QED
                BY <3>1, <3>2, <3>3
        <2>5. allocated' \subseteq allocated
            <3>1. allocated' = {object[b].id : b \in Upper}
                BY <1>3 DEF allocated
            <3>2. \A b \in Upper : \E a \in current : object[b].id = object[a].id
                BY CopiesAreLeft DEF Forwarded
            <3> QED
                BY <3>1, <3>2 DEF allocated
        <2>6. Cardinality(allocated') * heap_half_size <= (MaxObjects + 1) * next_free_offset'
            <3> DEFINE m == Cardinality(allocated')
                       n == Cardinality(allocated)
                       z == (MaxObjects + 1) * next_free_offset
            <3>1. m \in Nat /\ n \in Nat /\ m <= n
                BY <1>2, <2>5, IdentityFacts, FS_Subset, FS_CardinalityType
            <3>2. heap_half_size \in Nat /\ n * heap_half_size <= z
                BY <1>2, Halves DEF Memory
            <3>3. z \in Nat
                <4>1. next_free_offset \in Nat /\ MaxObjects + 1 \in Nat
                    BY <1>2, MaxObjectsAssumption DEF Types
                <4> QED
                    BY <4>1, Z3
            <3> HIDE DEF m, n, z
            <3>4. m * heap_half_size <= n * heap_half_size
                BY <3>1, <3>2, Z3
            <3>5. m * heap_half_size \in Nat /\ n * heap_half_size \in Nat
                BY <3>1, <3>2, Z3
            <3>6. m * heap_half_size <= z
                BY <3>2, <3>3, <3>4, <3>5
            <3> QED
                BY <1>1, <3>6 DEF m, z
        <2> QED
            BY <1>3, <2>1, <2>2, <2>3, <2>4, <2>6 DEF Memory
    <1>8. Between'
        <2>1. \A b \in Objects' : ~object'[b].forwarded /\ object'[b].forwarding = Nil
            BY <1>2, <1>3 DEF CopiesInOrder
        <2>2. \A b \in Objects' : \A i \in DOMAIN object'[b].field :
                    object'[b].field[i] \in Objects' \cup {Nil}
            <3> SUFFICES ASSUME NEW b \in Upper, NEW i \in DOMAIN object[b].field
                         PROVE  object[b].field[i] \in Upper \cup {Nil}
                BY <1>3
            <3>1. PICK a \in Forwarded :
                    /\ DOMAIN object[b].field = DOMAIN object[a].field
                    /\ \A k \in DOMAIN object[a].field :
                        /\ object[b].field[k] = New(object[a].field[k])
                        /\ object[a].field[k] = Nil \/ object[a].field[k] \in Forwarded
                BY CopiesAreLeft
            <3>2. \A r \in Forwarded : object[r].forwarding \in Upper
                BY CopiesAreLeft
            <3> QED
                BY <3>1, <3>2 DEF New
        <2>3. \A i \in DOMAIN roots' : roots'[i] \in Objects' \cup {Nil}
            BY <1>1, <1>3, CopiesAreLeft
        <2>4. stack' = <<>> /\ collections' # 0
            BY <1>1, <1>2 DEF Originals
        <2>5. pc' = "alloc" => request' \in Class
            BY <1>1, <1>2 DEF Types
        <2> QED
            BY <1>3, <2>1, <2>2, <2>3, <2>4, <2>5 DEF Between
    <1> QED
        BY <1>1, <1>6, <1>7, <1>8 DEF Inv, Collecting

--------------------------------------------------------------------------------
(* The theorems.                                                           *)

LEMMA IInvInit == Init => IInv
    BY InvInit DEF IInv, Init

LEMMA InvUnchanged == Inv /\ UNCHANGED vars => Inv'
    <1> SUFFICES ASSUME Inv, UNCHANGED vars PROVE Inv'
        OBVIOUS
    <1>1. Types' /\ Memory'
        <2>1. Types /\ Memory
            BY DEF Inv
        <2> QED
            BY <2>1, SameMemory DEF vars, Types
    <1>2. /\ UNCHANGED <<pc, roots, stack, ri, request, collections, from, current, object>>
          /\ Objects' = Objects /\ Upper' = Upper
        BY DEF vars, Objects, Upper, InLower
    <1>3. Between => Between'
        BY <1>2 DEF Between
    <1>4. CopiesInOrder /\ Originals /\ Collecting => CopiesInOrder' /\ Originals'
        <2> SUFFICES ASSUME CopiesInOrder, Originals, Collecting PROVE CopiesInOrder' /\ Originals'
            OBVIOUS
        <2>1. UNCHANGED view /\ Collecting' /\ \A b \in Upper : Revised(b)' <=> Revised(b)
            BY DEF vars, view, Collecting, Revised, to
        <2>2. CopiesInOrder' /\ UNCHANGED Live
            <3>1. stack' \in Seq(Frame) /\ ri' \in Nat \ {0}
                BY <1>2 DEF Inv, Types
            <3> QED
                BY <1>2, <2>1, <3>1, QuietStep DEF vars
        <2>3. Lower' = Lower /\ Forwarded' = Forwarded /\ to' = to /\ forwarding' = forwarding
            BY DEF vars, Lower, InLower, Objects, Forwarded, to, forwarding
        <2>4. Originals'
            BY <1>2, <2>2, <2>3 DEF Originals, vars
        <2> QED
            BY <2>2, <2>4
    <1> QED
        BY <1>1, <1>2, <1>3, <1>4 DEF Inv, Collecting

\* Each step up to the second collection keeps the invariant.
LEMMA InvStep ==
    ASSUME Inv, Sane, Next, Sane' PROVE Inv'
    <1>1. CASE AddRoot
        BY <1>1, AddRootStep
    <1>2. CASE RestoreRoots
        BY <1>2, RestoreRootsStep
    <1>3. CASE Write
        BY <1>3, WriteStep
    <1>4. CASE CollectNow
        BY <1>4, StartStep DEF CollectNow
    <1>5. CASE Alloc
        <2>1. PICK clss \in Class :
                \/ /\ Fits(clss) /\ Place(clss)
                   /\ UNCHANGED <<pc, request, next_forwarding_offset, ri, collections>>
                \/ /\ ~Fits(clss) /\ StartGC(clss)
                   /\ UNCHANGED <<object, next_free_offset, current>>
            BY <1>5 DEF Alloc
        <2>2. pc = "run" /\ UNCHANGED <<from, roots, stack, p>> /\ request \in Class \cup {NoRequest}
            BY <1>5 DEF Alloc, Inv, Types
        <2>3. CASE Fits(clss) /\ Place(clss)
                   /\ UNCHANGED <<pc, request, next_forwarding_offset, ri, collections>>
            BY <2>2, <2>3, PlaceStep
        <2>4. CASE StartGC(clss) /\ UNCHANGED <<object, next_free_offset, current>>
            BY <2>2, <2>4, StartStep DEF memory
        <2> QED
            BY <2>1, <2>3, <2>4
    <1>6. CASE AllocAgain
        <2>1. pc = "alloc" /\ UNCHANGED <<from, roots, walk, collections>> /\ request \in Class
            BY <1>6 DEF AllocAgain, Inv, Between
        <2>2. CASE Fits(request)
            BY <1>6, <2>1, <2>2, PlaceStep DEF AllocAgain, walk
        <2>3. CASE ~Fits(request)
            <3>1. pc' = "abort" /\ UNCHANGED <<object, next_free_offset, request, current>>
                BY <1>6, <2>3 DEF AllocAgain
            <3>2. Types /\ Memory /\ Between
                BY <2>1 DEF Inv
            <3>3. Types' /\ Memory'
                BY <2>1, <3>1, <3>2, SameMemory DEF walk, Types
            <3>4. Between'
                BY <2>1, <3>1, <3>2 DEF Between, Objects, Upper, InLower, walk
            <3> QED
                BY <3>1, <3>3, <3>4 DEF Inv, Collecting
        <2> QED
            BY <2>2, <2>3
    <1>7. CASE Copy
        BY <1>7, CopyRootStep, CopyFieldStep, CopyReturnStep, CopyDoneStep, CopyIsDefined DEF Copy
    <1>8. CASE AdjustRefs
        BY <1>8, AdjustStep, AdjustIsDefined, AdjustDoneStep DEF AdjustRefs
    <1>9. CASE Ended
        <2>1. UNCHANGED vars
            BY <1>9 DEF Ended
        <2> QED
            BY <2>1, InvUnchanged
    <1> QED
        BY <1>1, <1>2, <1>3, <1>4, <1>5, <1>6, <1>7, <1>8, <1>9 DEF Next, Client

LEMMA IInvStep == IInv /\ [Next]_vars => IInv'
    <1> SUFFICES ASSUME IInv, [Next]_vars PROVE IInv'
        OBVIOUS
    <1>1. collections \in Nat /\ collections' \in {collections, collections + 1}
        BY DEF IInv, Next, Client, AddRoot, RestoreRoots, Write, CollectNow, Alloc, AllocAgain, StartGC,
               Copy, CopyRoot, CopyField, CopyReturn, CopyUndefined, CopyDone,
               AdjustRefs, Adjust, AdjustUndefined, AdjustDone, Ended, vars
    <1>2. Sane' => Sane
        BY <1>1 DEF Sane
    <1>3. Sane' => Inv'
        BY <1>2, InvStep, InvUnchanged DEF IInv
    <1> QED
        BY <1>1, <1>3 DEF IInv

\* Up to the second collection copy() and adjust_ref() read nothing that has been
\* overwritten, and there is room for every copy.
THEOREM Defined == Spec => [](Sane => pc # "undefined")
    <1>1. IInv => (Sane => pc # "undefined")
        BY DEF IInv, Inv
    <1> QED
        BY <1>1, IInvInit, IInvStep, PTL DEF Spec

\* In the middle of a collection, of whatever depth: the copies lie end to end,
\* forwarding pointers lead to them, and every reference from a copied object to one
\* that is not copied is still ahead of an active call of copy().
THEOREM CopyCorrect == Spec => []CopyInvariant
    <1>1. IInv => CopyInvariant
        <2> SUFFICES ASSUME Inv, Collecting PROVE CopyInvariant
            BY DEF IInv, CopyInvariant
        <2>1. CopiesInOrder /\ Originals /\ Types
            BY DEF Inv
        <2>2. to = heap + heap_half_size
            BY <2>1 DEF to, Originals
        <2>3. \A a \in Objects : a \in Nat
            BY <2>1 DEF Types
        <2>4. /\ heap + heap_half_size \in Nat
              /\ forwarding = to + next_forwarding_offset
            BY Halves DEF forwarding
        <2>5. Copies = Upper
            <3>1. \A b \in Upper : b < to + next_forwarding_offset
                BY <2>1, <2>4 DEF CopiesInOrder
            <3>2. \A a \in Objects : a \in Upper <=> to <= a
                BY <2>2, <2>3, <2>4 DEF Upper, InLower
            <3> QED
                BY <3>1, <3>2 DEF Copies, Upper
        <2>6. \A a \in Copies : /\ a + Size(a) \in Copies \cup {to + next_forwarding_offset}
                                /\ ~object[a].forwarded
            BY <2>1, <2>4, <2>5 DEF CopiesInOrder
        <2>7. ASSUME NEW a \in current, object[a].forwarded
              PROVE  /\ object[a].forwarding \in Copies
                     /\ object[object[a].forwarding].id = object[a].id
                     /\ \A i \in DOMAIN object[a].field :
                            LET q == object[a].field[i] IN
                            \/ q = Nil \/ object[q].forwarded
                            \/ \E j \in DOMAIN stack : stack[j].obj = a /\ stack[j].i <= i
            <3>1. a \in Forwarded
                BY <2>7 DEF Forwarded
            <3> QED
                BY <2>1, <2>5, <3>1 DEF CopiesInOrder, Originals
        <2> QED
            BY <2>6, <2>7 DEF CopyInvariant
    <1> QED
        BY <1>1, IInvInit, IInvStep, PTL DEF Spec

\* The first collection copies exactly what the roots lead to, and leaves no flag
\* and no forwarding pointer in the copies.
THEOREM Exactness == Spec => CollectionExact
    <1> DEFINE Exact == Sane /\ Collecting /\ pc' \in {"run", "alloc"} =>
                            /\ allocated' = Live
                            /\ \A a \in current' : ~object'[a].forwarded /\ object'[a].forwarding = Nil
    <1>1. IInv /\ [Next]_vars => [Exact]_vars
        <2> SUFFICES ASSUME Inv, Next, Sane, Collecting, pc' \in {"run", "alloc"}
                     PROVE  /\ allocated' = Live
                            /\ \A a \in current' : ~object'[a].forwarded /\ object'[a].forwarding = Nil
            BY DEF IInv
        <2>1. AdjustDone
            BY DEF Collecting, Next, Client, AddRoot, RestoreRoots, Write, CollectNow, Alloc,
                   AllocAgain, Copy, CopyRoot, CopyField, CopyReturn, CopyUndefined, CopyDone,
                   AdjustRefs, Adjust, AdjustUndefined, Ended
        <2>2. allocated' = Live
            BY <2>1, CopiesAreLive
        <2>3. Between'
            BY <2>1, AdjustDoneStep DEF Inv
        <2> QED
            BY <2>2, <2>3 DEF Between
    <1> QED
        BY <1>1, IInvInit, IInvStep, PTL DEF Spec, CollectionExact

--------------------------------------------------------------------------------
(* The collector implements the interface: a collection is invisible to    *)
(* the client until its last step, which is one Reclaim.                   *)

\* The instance's graph operators are those of the collector.
LEMMA HeapOperators ==
    /\ Heap!Nil = Nil
    /\ \A k : Heap!NullFields(k) = NullFields(k)
    /\ Heap!Live = Live
    /\ Heap!Usable = {o \in allocated : Reachable(Identity, field, {o}) \subseteq allocated}
    <1>1. Heap!Nil = Nil
        BY DEF Heap!Nil, Nil
    <1>2. \A k : Heap!NullFields(k) = NullFields(k)
        BY <1>1 DEF Heap!NullFields, NullFields
    <1>3. Heap!Live = Live
        BY <1>1 DEF Heap!Live, Live, Heap!Reachable, Reachable, Heap!Closed, Closed
    <1>4. Heap!Usable = {o \in allocated : Reachable(Identity, field, {o}) \subseteq allocated}
        BY <1>1 DEF Heap!Usable, Heap!Reachable, Reachable, Heap!Closed, Closed
    <1> QED
        BY <1>1, <1>2, <1>3, <1>4

\* A pointer to where an object is now designates it.
CurrentIsDesignated == \A q \in current : q # Nil /\ Designated(q) = object[q].id

LEMMA CurrentOf == Types /\ Memory => CurrentIsDesignated
    <1> SUFFICES ASSUME Types, Memory, NEW q \in current
                 PROVE  q # Nil /\ Designated(q) = object[q].id
        BY DEF CurrentIsDesignated
    <1>1. q # Nil
        BY Halves DEF Memory, Types, Nil
    <1> QED
        BY <1>1 DEF Designated

LEMMA CurrentOfNext == (Types /\ Memory)' => CurrentIsDesignated'
    BY CurrentOf, PTL

LEMMA DesignatedNil == Designated(Nil) = Nil /\ Designated(Nil)' = Nil
    BY DEF Designated

\* Between collections the client may use any object that is in use.
LEMMA AllUsable ==
    ASSUME Inv, Between
    PROVE  /\ Heap!Usable = allocated
           /\ \A o \in current : object[o].id \in allocated
           /\ \A o \in current : \A i \in DOMAIN object[o].field : i \in DOMAIN field[object[o].id]
    <1>1. Types /\ Memory /\ GraphIsSeen /\ CurrentIsDesignated
        BY FieldOf, CurrentOf DEF Inv
    <1>2. allocated \in SUBSET Identity
        BY <1>1, IdentityFacts
    <1>3. \A o \in current : \A i \in DOMAIN object[o].field :
            i \in DOMAIN field[object[o].id]
            /\ field[object[o].id][i] = Designated(object[o].field[i])
        <2> SUFFICES ASSUME NEW o \in current, NEW i \in DOMAIN object[o].field
                     PROVE  i \in DOMAIN field[object[o].id]
                            /\ field[object[o].id][i] = Designated(object[o].field[i])
            OBVIOUS
        <2>1. field[object[o].id] = [k \in DOMAIN object[o].field |-> Designated(object[o].field[k])]
            BY <1>1 DEF GraphIsSeen
        <2> QED
            BY <2>1
    <1>4. Closed(field, allocated)
        <2> SUFFICES ASSUME NEW o \in current, NEW i \in DOMAIN field[object[o].id]
                     PROVE  field[object[o].id][i] \in allocated \cup {Nil}
            BY DEF Closed, allocated
        <2>1. i \in DOMAIN object[o].field
            BY <1>1 DEF GraphIsSeen
        <2>2. object[o].field[i] \in current \cup {Nil}
            BY <2>1 DEF Between
        <2> QED
            BY <1>1, <1>3, <2>1, <2>2, DesignatedNil DEF CurrentIsDesignated, allocated
    <1>5. ASSUME NEW o \in allocated PROVE Reachable(Identity, field, {o}) \subseteq allocated
        BY <1>2, <1>4, ReachableIsLeast
    <1>6. Heap!Usable = allocated
        BY <1>5, HeapOperators
    <1> QED
        BY <1>3, <1>6 DEF allocated

LEMMA HeapInit == Init => Heap!Init
    <1> SUFFICES ASSUME Init PROVE Heap!Init
        OBVIOUS
    <1>1. current = {} /\ allocated = {} /\ DOMAIN roots = {}
        BY DEF Init, allocated
    <1>2. root_ids = {}
        BY <1>1 DEF root_ids
    <1>3. field = [i \in Identity |-> NullFields(0)]
        BY <1>1 DEF field
    <1> QED
        BY <1>1, <1>2, <1>3, HeapOperators DEF Heap!Init

\* A step that leaves the objects where they are and their references as they are
\* changes nothing that the client sees but roots.
LEMMA SameGraph ==
    ASSUME Inv, Inv', Between, current' = current,
           \A a \in current : object'[a].id = object[a].id /\ object'[a].field = object[a].field
    PROVE  /\ UNCHANGED <<allocated, field>>
           /\ \A q \in current \cup {Nil} : Designated(q)' = Designated(q)
           /\ roots' = roots => root_ids' = root_ids
    <1>1. Types /\ Memory /\ GraphIsSeen /\ CurrentIsDesignated
        BY FieldOf, CurrentOf DEF Inv
    <1>2. GraphIsSeen' /\ CurrentIsDesignated'
        BY FieldOfNext, CurrentOfNext DEF Inv
    <1>3. \A q \in current \cup {Nil} : Designated(q)' = Designated(q)
        BY <1>1, <1>2, DesignatedNil DEF CurrentIsDesignated
    <1>4. allocated' = allocated
        BY DEF allocated
    <1>5. ASSUME NEW a \in current PROVE field'[object[a].id] = field[object[a].id]
        <2>1. \A k \in DOMAIN object[a].field : Designated(object[a].field[k])' = Designated(object[a].field[k])
            BY <1>3 DEF Between
        <2>2. field'[object'[a].id] =
                [k \in DOMAIN object'[a].field |-> Designated(object[a].field[k])']
            BY <1>2 DEF GraphIsSeen
        <2>3. field[object[a].id] =
                [k \in DOMAIN object[a].field |-> Designated(object[a].field[k])]
            BY <1>1 DEF GraphIsSeen
        <2>4. [k \in DOMAIN object[a].field |-> Designated(object[a].field[k])'] =
                [k \in DOMAIN object[a].field |-> Designated(object[a].field[k])]
            BY <2>1
        <2> QED
            BY <2>2, <2>3, <2>4
    <1>6. \A i \in Identity : field'[i] = field[i]
        <2>1. \A i \in Identity \ allocated : field'[i] = field[i]
            BY <1>1, <1>2, <1>4 DEF GraphIsSeen
        <2> QED
            BY <1>5, <2>1 DEF allocated
    <1>7. field' = field
        BY <1>1, <1>2, <1>6 DEF GraphIsSeen
    <1>8. ASSUME roots' = roots PROVE root_ids' = root_ids
        <2>1. \A i \in DOMAIN roots : Designated(roots[i])' = Designated(roots[i])
            BY <1>3, <1>8 DEF Between
        <2> QED
            BY <1>8, <2>1 DEF root_ids
    <1> QED
        BY <1>3, <1>4, <1>7, <1>8

LEMMA HeapAddRoot ==
    ASSUME Inv, AddRoot PROVE UNCHANGED Heap!vars \/ Heap!Next
    <1>1. Between /\ Types /\ Memory /\ Inv' /\ current = Objects
        BY AddRootStep DEF Inv, AddRoot, Between
    <1>2. PICK o \in current \cup {Nil} : roots' = Append(roots, o)
        BY DEF AddRoot
    <1>3. /\ UNCHANGED <<allocated, field>>
          /\ \A q \in current \cup {Nil} : Designated(q)' = Designated(q)
        BY <1>1, SameGraph DEF AddRoot
    <1>4. root_ids' = root_ids \cup ({Designated(o)} \ {Nil})
        <2>1. roots \in Seq(Nat) /\ o \in Nat /\ Len(roots) \in Nat /\ DOMAIN roots = 1..Len(roots)
            BY <1>1, <1>2, LenProperties DEF Types, Nil
        <2>2. PICK n \in Nat : n = Len(roots) + 1
            BY <2>1
        <2>3. /\ roots' \in Seq(Nat) /\ Len(roots') = n /\ roots'[n] = o
              /\ \A i \in DOMAIN roots : roots'[i] = roots[i]
            BY <1>2, <2>1, <2>2, AppendProperties
        <2>4. /\ n \in DOMAIN roots'
              /\ \A i \in DOMAIN roots : i \in DOMAIN roots'
              /\ \A i \in DOMAIN roots' : i \in DOMAIN roots \/ i = n
            <3>1. DOMAIN roots' = 1..n
                BY <2>3, LenProperties
            <3> QED
                BY <2>1, <2>2, <3>1
        <2>5. \A i \in DOMAIN roots : Designated(roots[i])' = Designated(roots[i])
            <3>1. \A i \in DOMAIN roots : roots[i] \in current \cup {Nil} /\ roots'[i] = roots[i]
                BY <1>1, <2>3 DEF Between
            <3> QED
                BY <1>3, <3>1
        <2>6. Designated(roots[n])' = Designated(o)
            BY <1>3, <2>3
        <2> QED
            BY <2>4, <2>5, <2>6 DEF root_ids
    <1>5. CASE o = Nil
        BY <1>3, <1>4, <1>5, DesignatedNil DEF Heap!vars
    <1>6. CASE o # Nil
        <2>1. Designated(o) = object[o].id /\ object[o].id \in Heap!Usable
            BY <1>1, <1>6, CurrentOf, AllUsable DEF CurrentIsDesignated
        <2>2. object[o].id # Nil
            BY <1>1, <1>6, CellFacts DEF Identity, Nil
        <2> QED
            BY <1>3, <1>4, <2>1, <2>2 DEF Heap!Next, Heap!AddRoot
    <1> QED
        BY <1>5, <1>6

LEMMA HeapRestoreRoots ==
    ASSUME Inv, RestoreRoots PROVE Heap!Next
    <1>1. Between /\ Types /\ Memory /\ Inv' /\ current = Objects
        BY RestoreRootsStep DEF Inv, RestoreRoots, Between
    <1>2. PICK k \in 0..Len(roots) : roots' = SubSeq(roots, 1, k)
        BY DEF RestoreRoots
    <1>3. /\ UNCHANGED <<allocated, field>>
          /\ \A q \in current \cup {Nil} : Designated(q)' = Designated(q)
        BY <1>1, SameGraph DEF RestoreRoots
    <1>4. roots \in Seq(Nat) /\ Len(roots) \in Nat /\ DOMAIN roots = 1..Len(roots)
        BY <1>1, LenProperties DEF Types
    <1>5. DOMAIN roots' = 1..k /\ \A i \in 1..k : roots'[i] = roots[i]
        <2>1. \A i \in 1..k : roots[i] \in Nat
            BY <1>2, <1>4, ElementOfSeq
        <2>2. /\ roots' \in Seq(Nat) /\ Len(roots') = (IF 1 <= k THEN k - 1 + 1 ELSE 0)
              /\ \A i \in 1..(k - 1 + 1) : roots'[i] = roots[1 + i - 1]
            BY <1>2, <2>1, SubSeqProperties
        <2>3. DOMAIN roots' = 1..Len(roots')
            BY <2>2, LenProperties
        <2> QED
            BY <1>2, <1>4, <2>2, <2>3
    <1>6. root_ids' \in SUBSET root_ids
        <2>1. \A i \in DOMAIN roots' : i \in DOMAIN roots /\ Designated(roots[i])' = Designated(roots[i])
            <3>1. \A i \in DOMAIN roots' :
                    i \in DOMAIN roots /\ roots'[i] = roots[i] /\ roots[i] \in current \cup {Nil}
                BY <1>1, <1>2, <1>4, <1>5 DEF Between
            <3> QED
                BY <1>3, <3>1
        <2> QED
            BY <2>1 DEF root_ids
    <1> QED
        BY <1>3, <1>6 DEF Heap!Next, Heap!DropRoots

LEMMA HeapWrite ==
    ASSUME Inv, Write PROVE Heap!Next
    <1>1. Between /\ Types /\ Memory /\ Inv' /\ current = Objects
        BY WriteStep DEF Inv, Write, Between
    <1>2. GraphIsSeen /\ CurrentIsDesignated /\ GraphIsSeen' /\ CurrentIsDesignated'
        BY <1>1, FieldOf, FieldOfNext, CurrentOf, CurrentOfNext DEF Inv
    <1>3. PICK o \in current, v \in current \cup {Nil} :
            \E i \in DOMAIN object[o].field : object' = [object EXCEPT ![o].field[i] = v]
        BY DEF Write
    <1>4. PICK i \in DOMAIN object[o].field : object' = [object EXCEPT ![o].field[i] = v]
        BY <1>3
    <1>5. roots' = roots /\ current' = current
        BY DEF Write
    <1>6. /\ \A a \in current \ {o} : object'[a] = object[a]
          /\ object'[o].field = [object[o].field EXCEPT ![i] = v]
          /\ object'[o].id = object[o].id
        <2>1. object[o] \in Cell
            BY <1>1 DEF Types
        <2>2. object'[o] = [object[o] EXCEPT !.field = [object[o].field EXCEPT ![i] = v]]
            BY <1>1, <1>4 DEF Objects
        <2> QED
            BY <1>1, <1>4, <2>1, <2>2 DEF Cell, Objects
    <1>7. \A q \in current \cup {Nil} : Designated(q)' = Designated(q)
        BY <1>2, <1>5, <1>6, DesignatedNil DEF CurrentIsDesignated
    <1>8. allocated' = allocated
        BY <1>5, <1>6 DEF allocated
    <1>9. root_ids' = root_ids
        <2>1. \A j \in DOMAIN roots : Designated(roots[j])' = Designated(roots[j])
            BY <1>1, <1>5, <1>7 DEF Between
        <2> QED
            BY <1>5, <2>1 DEF root_ids
    <1>10. ASSUME NEW a \in current \ {o} PROVE field'[object[a].id] = field[object[a].id]
        <2>1. field'[object'[a].id] =
                [k \in DOMAIN object'[a].field |-> Designated(object[a].field[k])']
            BY <1>2, <1>5 DEF GraphIsSeen
        <2>2. \A k \in DOMAIN object[a].field : Designated(object[a].field[k])' = Designated(object[a].field[k])
            BY <1>1, <1>6, <1>7 DEF Between
        <2>3. field[object[a].id] =
                [k \in DOMAIN object[a].field |-> Designated(object[a].field[k])]
            BY <1>2 DEF GraphIsSeen
        <2>4. [k \in DOMAIN object[a].field |-> Designated(object[a].field[k])'] =
                [k \in DOMAIN object[a].field |-> Designated(object[a].field[k])]
            BY <2>2
        <2> QED
            BY <1>6, <2>1, <2>3, <2>4
    <1>11. field'[object[o].id] = [field[object[o].id] EXCEPT ![i] = Designated(v)]
        <2>1. field'[object'[o].id] =
                [k \in DOMAIN object'[o].field |-> Designated(object[o].field[k])']
            BY <1>2, <1>5 DEF GraphIsSeen
        <2>2. DOMAIN object'[o].field = DOMAIN object[o].field
            BY <1>6
        <2>3. \A k \in DOMAIN object[o].field : Designated(object[o].field[k])' =
                IF k = i THEN Designated(v) ELSE Designated(object[o].field[k])
            <3>1. \A k \in DOMAIN object[o].field : object'[o].field[k] = IF k = i THEN v ELSE object[o].field[k]
                BY <1>6
            <3>2. \A k \in DOMAIN object[o].field : object[o].field[k] \in current \cup {Nil}
                BY <1>1 DEF Between
            <3> QED
                BY <1>3, <1>7, <3>1, <3>2
        <2>4. field[object[o].id] =
                [k \in DOMAIN object[o].field |-> Designated(object[o].field[k])]
            BY <1>2 DEF GraphIsSeen
        <2>5. [k \in DOMAIN object[o].field |-> Designated(object[o].field[k])'] =
                [k \in DOMAIN object[o].field |->
                    IF k = i THEN Designated(v) ELSE Designated(object[o].field[k])]
            BY <2>3
        <2>6. [field[object[o].id] EXCEPT ![i] = Designated(v)] =
                [k \in DOMAIN object[o].field |->
                    IF k = i THEN Designated(v) ELSE Designated(object[o].field[k])]
            BY <2>4
        <2> QED
            BY <1>6, <2>1, <2>2, <2>5, <2>6
    <1>12. field' = [field EXCEPT ![object[o].id][i] = Designated(v)]
        <2>1. object[o].id \in Identity
            BY <1>1, CellFacts
        <2>2. \A j \in Identity \ {object[o].id} : field'[j] = field[j]
            <3>1. \A j \in Identity \ allocated : field'[j] = field[j]
                BY <1>2, <1>8 DEF GraphIsSeen
            <3> QED
                BY <1>10, <3>1 DEF allocated
        <2>3. DOMAIN field = Identity /\ field' = [j \in Identity |-> field'[j]]
            BY <1>2 DEF GraphIsSeen
        <2> QED
            BY <1>11, <2>1, <2>2, <2>3
    <1>13. /\ object[o].id \in Heap!Usable /\ Designated(v) \in Heap!Usable \cup {Heap!Nil}
           /\ i \in DOMAIN field[object[o].id]
        BY <1>1, <1>2, <1>3, <1>4, AllUsable, HeapOperators, DesignatedNil DEF CurrentIsDesignated
    <1> QED
        BY <1>8, <1>9, <1>12, <1>13 DEF Heap!Next, Heap!Write

LEMMA HeapPlace ==
    ASSUME Inv, Inv', Between, NEW clss \in Class, Fits(clss), Place(clss), roots' = roots
    PROVE  Heap!Next
    <1>1. Types /\ Memory
        BY DEF Inv
    <1>2. PICK n \in Nat : n = heap + next_free_offset
        BY <1>1, Halves DEF Types
    <1>3. PICK new : new = FreeIdentity
        OBVIOUS
    <1>4. /\ n \notin Objects /\ n # Nil
          /\ current = Objects /\ current' = Objects \cup {n}
          /\ \A a \in Objects : object'[a] = object[a]
          /\ object'[n].field = NullFields(clss.num_fields) /\ object'[n].id = new
        <2>1. /\ n \notin Objects /\ n # Nil
              /\ Objects' = Objects \cup {n} /\ current' = Objects'
              /\ \A a \in Objects : object'[a] = object[a]
              /\ object'[n] = [clss |-> clss, field |-> NullFields(clss.num_fields),
                               forwarded |-> FALSE, forwarding |-> Nil, id |-> FreeIdentity]
            BY <1>1, <1>2, PlaceMemory
        <2> QED
            BY <1>3, <2>1 DEF Between
    <1>5. new \in Identity /\ new \notin allocated
        BY <1>1, <1>3, IdentityIsFree
    <1>6. GraphIsSeen /\ CurrentIsDesignated /\ GraphIsSeen' /\ CurrentIsDesignated'
        BY <1>1, FieldOf, FieldOfNext, CurrentOf, CurrentOfNext DEF Inv
    <1>7. \A q \in current \cup {Nil} : Designated(q)' = Designated(q)
        BY <1>4, <1>6, DesignatedNil DEF CurrentIsDesignated
    <1>8. allocated' = allocated \cup {new}
        BY <1>4 DEF allocated
    <1>9. root_ids' = root_ids
        <2>1. \A j \in DOMAIN roots : Designated(roots[j])' = Designated(roots[j])
            BY <1>4, <1>7 DEF Between
        <2> QED
            BY <2>1 DEF root_ids
    <1>10. ASSUME NEW a \in current PROVE field'[object[a].id] = field[object[a].id]
        <2>1. a \in current' /\ object'[a] = object[a]
            BY <1>4
        <2>2. field'[object'[a].id] =
                [k \in DOMAIN object'[a].field |-> Designated(object[a].field[k])']
            BY <1>6, <2>1 DEF GraphIsSeen
        <2>3. \A k \in DOMAIN object[a].field : Designated(object[a].field[k])' = Designated(object[a].field[k])
            BY <1>4, <1>7, <2>1 DEF Between
        <2>4. field[object[a].id] =
                [k \in DOMAIN object[a].field |-> Designated(object[a].field[k])]
            BY <1>6 DEF GraphIsSeen
        <2>5. [k \in DOMAIN object[a].field |-> Designated(object[a].field[k])'] =
                [k \in DOMAIN object[a].field |-> Designated(object[a].field[k])]
            BY <2>3
        <2> QED
            BY <2>1, <2>2, <2>4, <2>5
    <1>11. field'[new] = NullFields(clss.num_fields)
        <2>1. field'[object'[n].id] =
                [k \in DOMAIN object'[n].field |-> Designated(object[n].field[k])']
            BY <1>4, <1>6 DEF GraphIsSeen
        <2>2. \A k \in DOMAIN object'[n].field : Designated(object[n].field[k])' = Nil
            <3>1. \A k \in DOMAIN object'[n].field : object'[n].field[k] = Nil
                BY <1>4 DEF NullFields
            <3> QED
                BY <1>7, <3>1, DesignatedNil
        <2>3. NullFields(clss.num_fields) = [k \in DOMAIN object'[n].field |-> Nil]
            BY <1>4 DEF NullFields
        <2> QED
            BY <1>4, <2>1, <2>2, <2>3
    <1>12. field' = [field EXCEPT ![new] = NullFields(clss.num_fields)]
        <2>1. \A j \in Identity \ {new} : field'[j] = field[j]
            <3>1. \A j \in Identity \ (allocated \cup {new}) : field'[j] = field[j]
                BY <1>6, <1>8 DEF GraphIsSeen
            <3> QED
                BY <1>10, <3>1 DEF allocated
        <2>2. DOMAIN field = Identity /\ field' = [j \in Identity |-> field'[j]]
            BY <1>6 DEF GraphIsSeen
        <2> QED
            BY <1>5, <1>11, <2>1, <2>2
    <1>13. clss.num_fields \in {c.num_fields : c \in Class}
        OBVIOUS
    <1>14. field' = [field EXCEPT ![new] = Heap!NullFields(clss.num_fields)]
        BY <1>12, HeapOperators
    <1> QED
        BY <1>5, <1>8, <1>9, <1>13, <1>14 DEF Heap!Next, Heap!Alloc

\* The last step of a collection takes back what no root leads to, all at once.
LEMMA HeapAdjustDone ==
    ASSUME Inv, AdjustDone PROVE Heap!Next
    <1>1. Collecting /\ Types /\ Memory /\ Inv' /\ roots' = roots
        BY AdjustDoneStep DEF AdjustDone, Inv, Collecting
    <1>2. GraphIsSeen /\ PointersDesignate /\ GraphIsSeen' /\ CurrentIsDesignated'
        BY <1>1, InvShape, FieldOf, FieldOfNext, DesignatedOf, CurrentOfNext DEF Inv
    <1>3. /\ current' = Upper /\ \A b \in Upper : object'[b] = object[b]
          /\ Upper \subseteq Objects /\ Forwarded \subseteq current /\ current \subseteq Objects
        BY <1>1, AdjustIsDone DEF Upper, Forwarded, Memory
    <1>4. \A b \in Upper : Designated(b)' = object[b].id /\ Designated(b) = object[b].id
        BY <1>2, <1>3 DEF PointersDesignate, CurrentIsDesignated
    <1>5. allocated' = Live /\ allocated' \subseteq allocated
        <2>1. allocated' = {object[b].id : b \in Upper}
            BY <1>3 DEF allocated
        <2>2. \A b \in Upper : \E a \in current : object[b].id = object[a].id
            BY <1>3, CopiesAreLeft
        <2> QED
            BY <2>1, <2>2, CopiesAreLive DEF allocated
    <1>6. root_ids' = root_ids
        <2>1. \A j \in DOMAIN roots : Designated(roots[j])' = Designated(roots[j])
            <3>1. \A j \in DOMAIN roots : roots'[j] = roots[j] /\ roots[j] \in Upper \cup {Nil}
                BY <1>1, CopiesAreLeft
            <3> QED
                BY <1>4, <3>1, DesignatedNil
        <2> QED
            BY <1>1, <2>1 DEF root_ids
    <1>7. ASSUME NEW b \in Upper PROVE field'[object[b].id] = field[object[b].id]
        <2>1. PICK a \in Forwarded :
                /\ object[b].id = object[a].id
                /\ DOMAIN object[b].field = DOMAIN object[a].field
                /\ \A i \in DOMAIN object[a].field :
                        /\ object[b].field[i] = New(object[a].field[i])
                        /\ object[a].field[i] = Nil \/ object[a].field[i] \in Forwarded
            BY CopiesAreLeft
        <2>2. field'[object'[b].id] =
                [k \in DOMAIN object'[b].field |-> Designated(object[b].field[k])']
            BY <1>2, <1>3 DEF GraphIsSeen
        <2>3. field[object[a].id] =
                [k \in DOMAIN object[a].field |-> Designated(object[a].field[k])]
            BY <1>2, <1>3 DEF GraphIsSeen
        <2>4. \A q \in Forwarded : /\ New(q) \in Upper
                                   /\ object[New(q)].id = object[q].id
                                   /\ Designated(q) = object[q].id
            <3>1. \A q \in Forwarded : q # Nil /\ Designated(q) = object[q].id
                BY <1>2, <1>3 DEF PointersDesignate
            <3> QED
                BY <3>1, CopiesAreLeft DEF New
        <2>5. \A k \in DOMAIN object[a].field : Designated(object[b].field[k])' = Designated(object[a].field[k])
            <3>1. \A k \in DOMAIN object[a].field :
                    /\ object'[b].field[k] = New(object[a].field[k])
                    /\ object[a].field[k] = Nil \/ object[a].field[k] \in Forwarded
                BY <1>3, <2>1
            <3>2. New(Nil) = Nil
                BY DEF New
            <3> QED
                BY <1>4, <2>4, <3>1, <3>2, DesignatedNil
        <2>6. DOMAIN object'[b].field = DOMAIN object[a].field /\ object'[b].id = object[b].id
            BY <1>3, <2>1
        <2>7. [k \in DOMAIN object'[b].field |-> Designated(object[b].field[k])'] =
                [k \in DOMAIN object[a].field |-> Designated(object[a].field[k])]
            BY <2>5, <2>6
        <2> QED
            BY <2>1, <2>2, <2>3, <2>6, <2>7
    <1> DEFINE garbage == allocated \ Live
    <1>8. allocated' = allocated \ garbage
        BY <1>5
    <1>9. field' = [o \in Identity |-> IF o \in garbage THEN NullFields(0) ELSE field[o]]
        <2>1. field' = [o \in Identity |-> field'[o]]
            BY <1>2 DEF GraphIsSeen
        <2>2. ASSUME NEW o \in Identity
              PROVE  field'[o] = IF o \in garbage THEN NullFields(0) ELSE field[o]
            <3>1. CASE o \in allocated'
                <4>1. PICK b \in Upper : o = object[b].id
                    BY <1>3, <3>1 DEF allocated
                <4> QED
                    BY <1>5, <1>7, <3>1, <4>1
            <3>2. CASE o \notin allocated'
                <4>1. field'[o] = NullFields(0)
                    BY <1>2, <3>2 DEF GraphIsSeen
                <4>2. o \notin allocated => field[o] = NullFields(0)
                    BY <1>2 DEF GraphIsSeen
                <4> QED
                    BY <1>5, <3>2, <4>1, <4>2
            <3> QED
                BY <3>1, <3>2
        <2> QED
            BY <2>1, <2>2
    <1>10. garbage \in SUBSET (allocated \ Heap!Live)
        BY HeapOperators
    <1>11. field' = [o \in Identity |-> IF o \in garbage THEN Heap!NullFields(0) ELSE field[o]]
        BY <1>9, HeapOperators
    <1> HIDE DEF garbage
    <1> QED
        BY <1>6, <1>8, <1>10, <1>11 DEF Heap!Next, Heap!Reclaim

\* Each step up to the second collection is one of the interface's, or none.
LEMMA HeapStep ==
    ASSUME Inv, Sane, Next, Sane' PROVE UNCHANGED Heap!vars \/ Heap!Next
    <1>0. Inv'
        BY InvStep
    <1>1. CASE AddRoot
        BY <1>1, HeapAddRoot
    <1>2. CASE RestoreRoots
        BY <1>2, HeapRestoreRoots
    <1>3. CASE Write
        BY <1>3, HeapWrite
    <1>4. CASE CollectNow
        <2>1. Between /\ UNCHANGED <<object, roots, current>>
            BY <1>4 DEF CollectNow, Inv, memory
        <2> QED
            BY <1>0, <2>1, SameGraph DEF Heap!vars
    <1>5. CASE Alloc
        <2>1. PICK clss \in Class :
                \/ /\ Fits(clss) /\ Place(clss)
                   /\ UNCHANGED <<pc, request, next_forwarding_offset, ri, collections>>
                \/ /\ ~Fits(clss) /\ StartGC(clss)
                   /\ UNCHANGED <<object, next_free_offset, current>>
            BY <1>5 DEF Alloc
        <2>2. Between /\ roots' = roots
            BY <1>5 DEF Alloc, Inv
        <2>3. CASE Fits(clss) /\ Place(clss)
            BY <1>0, <2>2, <2>3, HeapPlace
        <2>4. CASE UNCHANGED <<object, current>>
            BY <1>0, <2>2, <2>4, SameGraph DEF Heap!vars
        <2> QED
            BY <2>1, <2>3, <2>4
    <1>6. CASE AllocAgain
        <2>1. Between /\ roots' = roots /\ request \in Class
            BY <1>6 DEF AllocAgain, Inv, Between
        <2>2. CASE Fits(request)
            BY <1>0, <1>6, <2>1, <2>2, HeapPlace DEF AllocAgain
        <2>3. CASE ~Fits(request)
            <3>1. UNCHANGED <<object, current>>
                BY <1>6, <2>3 DEF AllocAgain
            <3> QED
                BY <1>0, <2>1, <3>1, SameGraph DEF Heap!vars
        <2> QED
            BY <2>2, <2>3
    <1>7. CASE Copy
        BY <1>7, CopyRootStep, CopyFieldStep, CopyReturnStep, CopyDoneStep, CopyIsDefined
        DEF Copy, Heap!vars
    <1>8. CASE AdjustRefs
        BY <1>8, AdjustStep, AdjustIsDefined, HeapAdjustDone DEF AdjustRefs, Heap!vars
    <1>9. CASE Ended
        <2>1. Between /\ UNCHANGED <<object, roots, current>>
            BY <1>9 DEF Ended, Inv, vars
        <2> QED
            BY <1>0, <2>1, SameGraph DEF Heap!vars
    <1> QED
        BY <1>1, <1>2, <1>3, <1>4, <1>5, <1>6, <1>7, <1>8, <1>9 DEF Next, Client

\* Up to the second collection the collector implements the interface: the client
\* sees no more than that objects nothing leads to are taken back, although every
\* object it keeps has moved.
THEOREM Refinement == Spec => ImplementsHeap
    <1>1. IInv /\ [Next]_vars => [Sane' => UNCHANGED Heap!vars \/ Heap!Next]_vars
        <2> SUFFICES ASSUME IInv, Next, Sane' PROVE UNCHANGED Heap!vars \/ Heap!Next
            OBVIOUS
        <2>1. Sane
            <3>1. collections \in Nat /\ collections' \in {collections, collections + 1}
                BY DEF IInv, Next, Client, AddRoot, RestoreRoots, Write, CollectNow, Alloc, AllocAgain,
                       StartGC, Copy, CopyRoot, CopyField, CopyReturn, CopyUndefined, CopyDone,
                       AdjustRefs, Adjust, AdjustUndefined, AdjustDone, Ended, vars
            <3> QED
                BY <3>1 DEF Sane
        <2> QED
            BY <2>1, HeapStep DEF IInv
    <1> QED
        BY <1>1, HeapInit, IInvInit, IInvStep, PTL DEF Spec, ImplementsHeap
--------------------------------------------------------------------------------
(* What holds in every collection, also in one that overwrites objects.    *)

\* A cell with no pointer that leaves the heap.
TypedCell == UNION {[clss : {c}, field : [1..c.num_fields -> Pointer], forwarded : BOOLEAN,
                     forwarding : Pointer, id : Identity] : c \in Class}

named == {object[a].id : a \in Objects}

Placed ==
    /\ Objects \subseteq Address
    /\ \A a \in Objects : object[a] \in TypedCell /\ a + Size(a) <= heap + heap_size

Counters ==
    /\ next_free_offset \in 0..heap_half_size
    /\ next_forwarding_offset \in 0..heap_size
    /\ from \in {heap, heap + heap_half_size}
    /\ roots \in Seq(Pointer) /\ Len(roots) <= MAX_ROOTS
    /\ pc \in {"run", "copy", "adjust", "alloc", "abort", "undefined"}
    /\ request \in Class \cup {NoRequest}
    /\ ri \in 1..(MAX_ROOTS + 1)
    /\ p \in 0..heap_size
    /\ current \subseteq Address
    /\ collections \in 0..MaxCollections

\* The client's objects are all there is between two calls, and no collection makes
\* an object that is not a copy, so that an identity is free for the next one.
Supply ==
    /\ pc \in {"run", "alloc"} => current = Objects
    /\ pc = "alloc" => request \in Class
    /\ RoomFor(named)

Typed == Placed /\ Counters /\ Supply

LEMMA AddressFacts ==
    /\ heap_half_size \in Nat /\ heap_size = heap_half_size + heap_half_size /\ heap = 1
    /\ MaxCollections \in Nat /\ MAX_ROOTS \in Nat \ {0}
    /\ \A q \in Address : q \in Nat /\ heap <= q /\ q <= heap + heap_size
    /\ \A q \in Nat : heap <= q /\ q <= heap + heap_size => q \in Address
    /\ Nil = 0 /\ Pointer = Address \cup {Nil}
    BY Halves, SizeAssumption DEF Address, Pointer, Nil

LEMMA TypedCellFacts ==
    ASSUME NEW x \in TypedCell
    PROVE  /\ x.clss \in Class /\ x.clss.size \in Nat /\ x.clss.size > 0
           /\ x.field \in [1..x.clss.num_fields -> Pointer]
           /\ DOMAIN x.field = 1..x.clss.num_fields
           /\ \A i \in DOMAIN x.field : x.field[i] \in Pointer
           /\ x.forwarded \in BOOLEAN /\ x.forwarding \in Pointer /\ x.id \in Identity
           /\ \A b \in BOOLEAN, q \in Pointer :
                LET y == [x EXCEPT !.forwarded = b, !.forwarding = q] IN
                y \in TypedCell /\ y.clss = x.clss /\ y.id = x.id
           /\ \A f \in [1..x.clss.num_fields -> Pointer] :
                LET y == [x EXCEPT !.field = f] IN
                y \in TypedCell /\ y.clss = x.clss /\ y.id = x.id
    <1>1. PICK c \in Class : x \in [clss : {c}, field : [1..c.num_fields -> Pointer],
                                    forwarded : BOOLEAN, forwarding : Pointer, id : Identity]
        BY DEF TypedCell
    <1>2. /\ x.clss = c /\ x.field \in [1..c.num_fields -> Pointer] /\ x.forwarded \in BOOLEAN
          /\ x.forwarding \in Pointer /\ x.id \in Identity
        BY <1>1
    <1>3. \A b \in BOOLEAN, q \in Pointer :
                LET y == [x EXCEPT !.forwarded = b, !.forwarding = q] IN
                y \in TypedCell /\ y.clss = x.clss /\ y.id = x.id
        <2> SUFFICES ASSUME NEW b \in BOOLEAN, NEW q \in Pointer
                     PROVE  LET y == [x EXCEPT !.forwarded = b, !.forwarding = q] IN
                            y \in TypedCell /\ y.clss = x.clss /\ y.id = x.id
            OBVIOUS
        <2> DEFINE y == [x EXCEPT !.forwarded = b, !.forwarding = q]
        <2>1. /\ y \in [clss : {c}, field : [1..c.num_fields -> Pointer],
                         forwarded : BOOLEAN, forwarding : Pointer, id : Identity]
              /\ y.clss = x.clss /\ y.id = x.id
            BY <1>1
        <2> QED
            BY <2>1 DEF TypedCell
    <1>4. \A f \in [1..x.clss.num_fields -> Pointer] :
                LET y == [x EXCEPT !.field = f] IN
                y \in TypedCell /\ y.clss = x.clss /\ y.id = x.id
        BY <1>1 DEF TypedCell
    <1>5. c.size \in Nat /\ c.size > 0
        BY Halves
    <1> QED
        BY <1>2, <1>3, <1>4, <1>5

LEMMA PlacedFacts ==
    ASSUME Placed, NEW a \in Objects
    PROVE  /\ a \in Nat /\ a \in Address /\ heap <= a
           /\ object[a] \in TypedCell
           /\ Size(a) \in Nat /\ Size(a) > 0 /\ Size(a) = object[a].clss.size
           /\ a + Size(a) <= heap + heap_size
           /\ object[a].id \in Identity
    <1>1. object[a] \in TypedCell /\ a \in Address /\ a + Size(a) <= heap + heap_size
        BY DEF Placed
    <1> QED
        BY <1>1, TypedCellFacts, AddressFacts DEF Size

\* A step that makes no new identity leaves room for those in use.
LEMMA RoomStays ==
    ASSUME Placed, RoomFor(named), named' \subseteq named,
           next_free_offset \in Nat, next_free_offset' = next_free_offset
    PROVE  RoomFor(named)'
    <1>1. named \in SUBSET Identity
        BY PlacedFacts DEF named
    <1>2. IsFiniteSet(named)
        <2>1. IsFiniteSet(Identity)
            BY FS_Interval, MaxObjectsAssumption DEF Identity
        <2> QED
            BY <1>1, <2>1, FS_Subset
    <1>3. IsFiniteSet(named') /\ Cardinality(named') <= Cardinality(named)
        BY <1>2, FS_Subset
    <1>4. Cardinality(named) \in Nat /\ Cardinality(named') \in Nat
        BY <1>2, <1>3, FS_CardinalityType
    <1> DEFINE n == Cardinality(named)
               k == Cardinality(named')
               h == heap_half_size
               m == (MaxObjects + 1) * next_free_offset
    <1>5. n \in Nat /\ k \in Nat /\ k <= n /\ h \in Nat /\ n * h <= m /\ m \in Nat
        <2>1. (MaxObjects + 1) * next_free_offset \in Nat
            BY MaxObjectsAssumption, Z3
        <2> QED
            BY <1>3, <1>4, <2>1, Halves DEF RoomFor
    <1> HIDE DEF n, k, h, m
    <1>6. k * h <= n * h /\ k * h \in Nat /\ n * h \in Nat
        BY <1>5, Z3
    <1>7. k * h <= m
        BY <1>5, <1>6
    <1> QED
        BY <1>7 DEF RoomFor, n, k, h, m

\* An object is copied, or only marked as copied, within the heap.
LEMMA EvacuateTyped ==
    ASSUME Placed, Counters, NEW q, Copyable(q), Evacuate(q)
    PROVE  /\ Placed' /\ named' \subseteq named
           /\ forwarding \in Address /\ next_forwarding_offset + Size(q) \in 0..heap_size
    <1>1. /\ q \in Objects /\ Size(q) \in Nat /\ Size(q) > 0 /\ Size(q) = object[q].clss.size
          /\ object[q] \in TypedCell /\ q + Size(q) <= heap + heap_size
        BY PlacedFacts DEF Copyable
    <1>2. /\ to \in Nat /\ heap <= to /\ next_forwarding_offset \in Nat
          /\ forwarding = to + next_forwarding_offset
          /\ forwarding + Size(q) <= heap + heap_size
        BY AddressFacts DEF Counters, to, forwarding, Copyable
    <1>3. forwarding \in Address /\ next_forwarding_offset + Size(q) \in 0..heap_size
        BY <1>1, <1>2, AddressFacts
    <1>4. PICK f \in Address : f = forwarding
        BY <1>3
    <1>5. PICK x : x = [object[q] EXCEPT !.forwarded = TRUE, !.forwarding = f]
        OBVIOUS
    <1>6. x \in TypedCell /\ x.clss = object[q].clss /\ x.id = object[q].id
        <2>1. f \in Pointer /\ TRUE \in BOOLEAN /\ object[q] \in TypedCell
            BY <1>1, <1>4, AddressFacts
        <2> QED
            BY <1>5, <2>1, TypedCellFacts
    <1>7. PICK kept \in SUBSET Objects : kept = Untouched(f, Size(q))
        BY DEF Untouched
    <1>8. object' = [a \in kept \cup {q, f} |->
                        IF a = q THEN x ELSE IF a = f THEN object[q] ELSE object[a]]
        BY <1>4, <1>5, <1>7 DEF Evacuate
    <1>9. Objects' = kept \cup {q, f}
        BY <1>8 DEF Objects
    <1>10. ASSUME NEW a \in Objects'
           PROVE  /\ a \in Address /\ object'[a] \in TypedCell
                  /\ a + object'[a].clss.size <= heap + heap_size
                  /\ object'[a].id \in named
        <2>1. CASE a = q
            BY <1>1, <1>6, <1>8, <1>9, <2>1, PlacedFacts DEF named
        <2>2. CASE a # q /\ a = f
            BY <1>1, <1>2, <1>4, <1>8, <1>9, <2>2 DEF named
        <2>3. CASE a # q /\ a # f
            <3>1. a \in Objects /\ object'[a] = object[a]
                BY <1>7, <1>8, <1>9, <2>3
            <3> QED
                BY <3>1, PlacedFacts DEF named
        <2> QED
            BY <2>1, <2>2, <2>3
    <1>11. Placed'
        BY <1>10 DEF Placed, Size
    <1>12. named' \subseteq named
        BY <1>10 DEF named
    <1> QED
        BY <1>3, <1>11, <1>12

LEMMA CallTyped ==
    ASSUME Placed, Counters, NEW q \in Pointer, NEW fs, Call(q, fs)
    PROVE  /\ Placed' /\ named' \subseteq named
           /\ next_forwarding_offset' \in 0..heap_size
           /\ Result(q) \in Pointer
    <1>1. CASE (q = Nil \/ Copied(q)) /\ UNCHANGED <<object, next_forwarding_offset>>
        <2>1. Placed' /\ named' = named
            BY <1>1 DEF Placed, Objects, Size, named
        <2>2. Result(q) \in Pointer
            <3>1. CASE q = Nil
                BY <3>1, AddressFacts DEF Result
            <3>2. CASE q # Nil
                <4>1. q \in Objects /\ Copied(q)
                    BY <1>1, <3>2 DEF Copied
                <4> QED
                    BY <3>2, <4>1, PlacedFacts, TypedCellFacts DEF Result
            <3> QED
                BY <3>1, <3>2
        <2> QED
            BY <1>1, <2>1, <2>2 DEF Counters
    <1>2. CASE Copyable(q) /\ Evacuate(q) /\ next_forwarding_offset' = next_forwarding_offset + Size(q)
        <2>1. ~Copied(q)
            BY <1>2 DEF Copied, Copyable
        <2> QED
            BY <1>2, <2>1, EvacuateTyped, AddressFacts DEF Result
    <1> QED
        BY <1>1, <1>2 DEF Call

LEMMA PlaceTyped ==
    ASSUME Typed, pc \in {"run", "alloc"}, NEW clss \in Class, Fits(clss), Place(clss)
    PROVE  /\ Placed' /\ RoomFor(named)' /\ current' = Objects'
           /\ next_free_offset' \in 0..heap_half_size
    <1>1. Placed /\ Counters /\ RoomFor(named) /\ current = Objects
        BY DEF Typed, Supply
    <1>2. PICK n \in Nat : n = heap + next_free_offset
        BY <1>1, AddressFacts DEF Counters
    <1>3. /\ next_free_offset \in Nat /\ clss.size \in Nat /\ clss.size > 0 /\ clss.num_fields \in Nat
          /\ next_free_offset + clss.size <= heap_half_size
          /\ n \in Address /\ n + clss.size <= heap + heap_size
        BY <1>1, <1>2, AddressFacts, Halves DEF Counters, Fits
    <1>4. /\ named \in SUBSET Identity /\ named # Identity
          /\ IsFiniteSet(named) /\ Cardinality(named) \in Nat
          /\ (Cardinality(named) + 1) * heap_half_size
                <= (MaxObjects + 1) * (next_free_offset + clss.size)
        <2>1. named \in SUBSET Identity
            BY <1>1, PlacedFacts DEF named
        <2> QED
            BY <1>1, <1>3, <2>1, RoomForOneMore
    <1>5. PICK new \in Identity : new = FreeIdentity
        <2>1. \E i \in Identity : \A a \in current : object[a].id # i
            BY <1>1, <1>4 DEF named
        <2> QED
            BY <2>1 DEF FreeIdentity
    <1>6. PICK kept \in SUBSET Objects : kept = Untouched(n, clss.size)
        BY DEF Untouched
    <1>7. PICK x : x = [clss |-> clss, field |-> NullFields(clss.num_fields),
                        forwarded |-> FALSE, forwarding |-> Nil, id |-> new]
        OBVIOUS
    <1>8. x \in TypedCell /\ x.clss = clss /\ x.id = new
        <2>1. NullFields(clss.num_fields) \in [1..clss.num_fields -> Pointer]
            BY AddressFacts DEF NullFields
        <2>2. x \in [clss : {clss}, field : [1..clss.num_fields -> Pointer], forwarded : BOOLEAN,
                     forwarding : Pointer, id : Identity]
            BY <1>5, <1>7, <2>1, AddressFacts
        <2> QED
            BY <1>7, <2>2 DEF TypedCell
    <1>9. /\ object' = [a \in kept \cup {n} |-> IF a = n THEN x ELSE object[a]]
          /\ current' = (current \cap kept) \cup {n}
          /\ next_free_offset' = next_free_offset + clss.size
        BY <1>2, <1>5, <1>6, <1>7 DEF Place
    <1>10. Objects' = kept \cup {n} /\ current' = Objects'
        BY <1>1, <1>6, <1>9 DEF Objects
    <1>11. ASSUME NEW a \in Objects'
           PROVE  /\ a \in Address /\ object'[a] \in TypedCell
                  /\ a + object'[a].clss.size <= heap + heap_size
                  /\ object'[a].id \in named \cup {new}
        <2>1. CASE a = n
            BY <1>3, <1>8, <1>9, <1>10, <2>1
        <2>2. CASE a # n
            <3>1. a \in Objects /\ object'[a] = object[a]
                BY <1>6, <1>9, <1>10, <2>2
            <3> QED
                BY <1>1, <3>1, PlacedFacts DEF named
        <2> QED
            BY <2>1, <2>2
    <1>12. Placed'
        BY <1>11 DEF Placed, Size
    <1>13. RoomFor(named)'
        <2>1. named' \subseteq named \cup {new}
            BY <1>11 DEF named
        <2>2. /\ IsFiniteSet(named \cup {new}) /\ IsFiniteSet(named')
              /\ Cardinality(named') \in Nat
              /\ Cardinality(named') <= Cardinality(named) + 1
            <3>1. IsFiniteSet(named \cup {new}) /\ Cardinality(named \cup {new}) <= Cardinality(named) + 1
                BY <1>4, FS_AddElement
            <3>2. IsFiniteSet(named') /\ Cardinality(named') <= Cardinality(named \cup {new})
                BY <2>1, <3>1, FS_Subset
            <3> QED
                BY <1>4, <3>1, <3>2, FS_CardinalityType
        <2> DEFINE k == Cardinality(named')
                   n1 == Cardinality(named) + 1
                   h == heap_half_size
                   m == (MaxObjects + 1) * next_free_offset'
        <2>3. k \in Nat /\ n1 \in Nat /\ k <= n1 /\ h \in Nat /\ n1 * h <= m /\ m \in Nat
            <3>1. (MaxObjects + 1) * next_free_offset' \in Nat
                BY <1>3, <1>9, MaxObjectsAssumption, Z3
            <3> QED
                BY <1>4, <1>9, <2>2, <3>1, Halves
        <2> HIDE DEF k, n1, h, m
        <2>4. k * h <= n1 * h /\ k * h \in Nat /\ n1 * h \in Nat
            BY <2>3, Z3
        <2>5. k * h <= m
            BY <2>3, <2>4
        <2> QED
            BY <2>5 DEF RoomFor, k, n1, h, m
    <1>14. next_free_offset' \in 0..heap_half_size
        BY <1>3, <1>9, AddressFacts
    <1> QED
        BY <1>10, <1>12, <1>13, <1>14
LEMMA TypedInit == Init => Typed
    <1> SUFFICES ASSUME Init PROVE Typed
        OBVIOUS
    <1>1. Objects = {} /\ named = {}
        BY DEF Init, Objects, named
    <1>2. Placed
        BY <1>1 DEF Placed
    <1>3. Counters
        BY AddressFacts, EmptySeq DEF Init, Counters
    <1>4. Supply
        <2>1. RoomFor(named)
            BY <1>1, FS_EmptySet, Halves, MaxObjectsAssumption DEF RoomFor, Init
        <2> QED
            BY <1>1, <2>1 DEF Supply, Init
    <1> QED
        BY <1>2, <1>3, <1>4 DEF Typed

\* Memory that a step leaves alone.
LEMMA PlacedStays ==
    ASSUME Typed, UNCHANGED <<object, next_free_offset>>
    PROVE  Placed' /\ RoomFor(named)' /\ Objects' = Objects
    <1>1. Objects' = Objects /\ named' = named /\ Placed'
        BY DEF Typed, Placed, Objects, Size, named
    <1> QED
        BY <1>1 DEF Typed, Supply, RoomFor

\* The client's steps.
LEMMA TypedClient ==
    ASSUME Typed, AddRoot \/ RestoreRoots \/ Write \/ CollectNow PROVE Typed'
    <1>1. /\ pc = "run" /\ current = Objects /\ Objects \subseteq Address /\ roots \in Seq(Pointer)
          /\ Len(roots) <= MAX_ROOTS /\ Len(roots) \in Nat
          /\ Placed /\ Counters /\ RoomFor(named)
        BY LenProperties DEF Typed, Supply, Placed, Counters, AddRoot, RestoreRoots, Write, CollectNow
    <1>2. CASE AddRoot
        <2>1. PICK o \in Pointer : roots' = Append(roots, o)
            BY <1>1, <1>2, AddressFacts DEF AddRoot
        <2>2. roots' \in Seq(Pointer) /\ Len(roots') <= MAX_ROOTS
            <3>1. roots' \in Seq(Pointer) /\ Len(roots') = Len(roots) + 1
                BY <1>1, <2>1, AppendProperties
            <3> QED
                BY <1>1, <1>2, <3>1, AddressFacts DEF AddRoot
        <2> QED
            BY <1>1, <1>2, <2>2, PlacedStays DEF AddRoot, walk, Typed, Counters, Supply
    <1>3. CASE RestoreRoots
        <2>1. PICK k \in 0..Len(roots) : roots' = SubSeq(roots, 1, k)
            BY <1>3 DEF RestoreRoots
        <2>2. roots' \in Seq(Pointer) /\ Len(roots') <= MAX_ROOTS
            <3>1. roots' \in Seq(Pointer) /\ Len(roots') = k
                <4>1. k \in Nat /\ k <= Len(roots) /\ \A i \in 1..k : i \in 1..Len(roots)
                    BY <1>1, <2>1
                <4> QED
                    BY <1>1, <2>1, <4>1, SubSeqProperties
            <3> QED
                BY <1>1, <2>1, <3>1, AddressFacts
        <2> QED
            BY <1>1, <1>3, <2>2, PlacedStays DEF RestoreRoots, walk, Typed, Counters, Supply
    <1>4. CASE Write
        <2>1. PICK o \in Objects, v \in Pointer : \E i \in DOMAIN object[o].field :
                    object' = [object EXCEPT ![o].field[i] = v]
            <3>1. current \cup {Nil} \subseteq Pointer
                BY <1>1, AddressFacts
            <3> QED
                BY <1>1, <1>4, <3>1 DEF Write
        <2>2. PICK i \in DOMAIN object[o].field : object' = [object EXCEPT ![o].field[i] = v]
            BY <2>1
        <2>3. PICK f : f = [object[o].field EXCEPT ![i] = v]
            OBVIOUS
        <2>4. object[o] \in TypedCell /\ object[o].field \in [1..object[o].clss.num_fields -> Pointer]
            BY <1>1, PlacedFacts, TypedCellFacts
        <2>5. f \in [1..object[o].clss.num_fields -> Pointer]
            BY <2>3, <2>4
        <2>6. PICK x : x = [object[o] EXCEPT !.field = f]
            OBVIOUS
        <2>7. x \in TypedCell /\ x.clss = object[o].clss /\ x.id = object[o].id
            BY <2>4, <2>5, <2>6, TypedCellFacts
        <2>8. object' = [object EXCEPT ![o] = x]
            BY <2>2, <2>3, <2>6
        <2>9. Placed' /\ RoomFor(named)' /\ Objects' = Objects
            <3>1. /\ Objects' = Objects /\ object'[o] = x
                  /\ \A a \in Objects \ {o} : object'[a] = object[a]
                BY <2>8 DEF Objects
            <3>2. \A a \in Objects : object'[a].clss = object[a].clss /\ object'[a].id = object[a].id
                BY <2>7, <3>1
            <3>3. Placed'
                BY <1>1, <2>7, <3>1, <3>2 DEF Placed, Size
            <3>4. named' \subseteq named
                BY <3>1, <3>2 DEF named
            <3>5. next_free_offset \in Nat /\ next_free_offset' = next_free_offset
                BY <1>1, <1>4, AddressFacts DEF Counters, Write
            <3> QED
                BY <1>1, <3>1, <3>3, <3>4, <3>5, RoomStays
        <2> QED
            BY <1>1, <1>4, <2>9 DEF Write, walk, Typed, Counters, Supply
    <1>5. CASE CollectNow
        <2>1. collections' \in 0..MaxCollections /\ 1 \in 1..(MAX_ROOTS + 1) /\ 0 \in 0..heap_size
            BY <1>1, <1>5, AddressFacts DEF CollectNow, StartGC, Counters
        <2> QED
            BY <1>1, <1>5, <2>1, PlacedStays DEF CollectNow, StartGC, memory, Typed, Counters, Supply
    <1> QED
        BY <1>2, <1>3, <1>4, <1>5

\* gc_alloc.
LEMMA TypedAlloc ==
    ASSUME Typed, Alloc \/ AllocAgain PROVE Typed'
    <1>1. Placed /\ Counters /\ Supply
        BY DEF Typed
    <1>2. CASE Alloc
        <2>1. PICK clss \in Class :
                \/ /\ Fits(clss) /\ Place(clss)
                   /\ UNCHANGED <<pc, request, next_forwarding_offset, ri, collections>>
                \/ /\ ~Fits(clss) /\ StartGC(clss)
                   /\ UNCHANGED <<object, next_free_offset, current>>
            BY <1>2 DEF Alloc
        <2>2. pc = "run" /\ UNCHANGED <<from, roots, stack, p>>
            BY <1>2 DEF Alloc
        <2>3. CASE Fits(clss) /\ Place(clss)
                   /\ UNCHANGED <<pc, request, next_forwarding_offset, ri, collections>>
            <3>1. Placed' /\ RoomFor(named)' /\ current' = Objects' /\ next_free_offset' \in 0..heap_half_size
                BY <2>2, <2>3, PlaceTyped
            <3> QED
                BY <1>1, <2>2, <2>3, <3>1 DEF Typed, Placed, Counters, Supply
        <2>4. CASE StartGC(clss) /\ UNCHANGED <<object, next_free_offset, current>>
            <3>1. collections' \in 0..MaxCollections /\ 1 \in 1..(MAX_ROOTS + 1) /\ 0 \in 0..heap_size
                BY <1>1, <2>4, AddressFacts DEF StartGC, Counters
            <3> QED
                BY <1>1, <2>2, <2>4, <3>1, PlacedStays DEF StartGC, Typed, Counters, Supply
        <2> QED
            BY <2>1, <2>3, <2>4
    <1>3. CASE AllocAgain
        <2>1. pc = "alloc" /\ request \in Class /\ UNCHANGED <<from, roots, walk, collections>>
            BY <1>1, <1>3 DEF AllocAgain, Supply
        <2>2. CASE Fits(request)
            <3>1. Place(request) /\ pc' = "run" /\ request' = NoRequest
                BY <1>3, <2>2 DEF AllocAgain
            <3>2. Placed' /\ RoomFor(named)' /\ current' = Objects' /\ next_free_offset' \in 0..heap_half_size
                BY <2>1, <2>2, <3>1, PlaceTyped
            <3> QED
                BY <1>1, <2>1, <3>1, <3>2 DEF Typed, Placed, Counters, Supply, walk
        <2>3. CASE ~Fits(request)
            <3>1. pc' = "abort" /\ UNCHANGED <<object, next_free_offset, request, current>>
                BY <1>3, <2>3 DEF AllocAgain
            <3> QED
                BY <1>1, <2>1, <3>1, PlacedStays DEF Typed, Counters, Supply, walk
        <2> QED
            BY <2>2, <2>3
    <1> QED
        BY <1>2, <1>3

\* copy(), whatever it meets.
LEMMA TypedCopy ==
    ASSUME Typed, Copy PROVE Typed'
    <1>1. /\ Placed /\ Counters /\ Supply /\ next_free_offset \in Nat
          /\ pc = "copy" /\ roots \in Seq(Pointer) /\ Len(roots) \in Nat /\ Len(roots) <= MAX_ROOTS
        BY LenProperties, AddressFacts
        DEF Typed, Counters, Copy, CopyRoot, CopyField, CopyReturn, CopyUndefined, CopyDone
    <1>2. CASE CopyRoot
        <2>1. ri \in 1..Len(roots) /\ ri \in DOMAIN roots /\ ri + 1 \in 1..(MAX_ROOTS + 1)
            <3>1. ri \in 1..Len(roots) /\ ri + 1 \in 1..(MAX_ROOTS + 1)
                BY <1>1, <1>2, AddressFacts DEF CopyRoot, Counters
            <3> QED
                BY <1>1, <3>1, LenProperties
        <2>2. roots[ri] \in Pointer
            BY <1>1, <2>1, ElementOfSeq
        <2>3. Call(roots[ri], <<>>)
            BY <1>2 DEF CopyRoot
        <2>4. /\ Placed' /\ named' \subseteq named /\ next_forwarding_offset' \in 0..heap_size
              /\ Result(roots[ri]) \in Pointer
            BY <1>1, <2>2, <2>3, CallTyped
        <2>5. roots' = [roots EXCEPT ![ri] = Result(roots[ri])]
            BY <1>2 DEF CopyRoot
        <2>6. roots' \in Seq(Pointer) /\ Len(roots') = Len(roots)
            BY <1>1, <2>1, <2>4, <2>5, ExceptSeq
        <2>7. RoomFor(named)'
            BY <1>1, <1>2, <2>4, RoomStays DEF CopyRoot, Supply
        <2> QED
            BY <1>1, <1>2, <2>1, <2>4, <2>6, <2>7 DEF CopyRoot, Typed, Counters, Supply
    <1>3. CASE CopyField
        <2>1. Top.obj \in Objects /\ Top.i \in DOMAIN object[Top.obj].field
            BY <1>3 DEF CopyField
        <2>2. object[Top.obj].field[Top.i] \in Pointer
            BY <1>1, <2>1, PlacedFacts, TypedCellFacts
        <2>3. /\ Placed' /\ named' \subseteq named /\ next_forwarding_offset' \in 0..heap_size
            BY <1>1, <1>3, <2>2, CallTyped DEF CopyField
        <2>4. RoomFor(named)'
            BY <1>1, <1>3, <2>3, RoomStays DEF CopyField, Supply
        <2> QED
            BY <1>1, <1>3, <2>3, <2>4 DEF CopyField, Typed, Counters, Supply
    <1>4. CASE CopyReturn \/ CopyUndefined
        BY <1>1, <1>4, PlacedStays
        DEF CopyReturn, CopyUndefined, memory, walk, Typed, Counters, Supply
    <1>5. CASE CopyDone
        <2>1. 0 \in 0..heap_size
            BY AddressFacts
        <2> QED
            BY <1>1, <1>5, <2>1, PlacedStays DEF CopyDone, memory, Typed, Counters, Supply
    <1> QED
        BY <1>2, <1>3, <1>4, <1>5 DEF Copy

\* adjust_ref(), and swap.
LEMMA TypedAdjust ==
    ASSUME Typed, AdjustRefs PROVE Typed'
    <1>1. Placed /\ Counters /\ Supply /\ next_free_offset \in Nat /\ pc = "adjust"
        BY AddressFacts DEF Typed, Counters, AdjustRefs, Adjust, AdjustUndefined, AdjustDone
    <1>2. CASE Adjust
        <2>1. PICK b \in Objects : b = to + p
            BY <1>2 DEF Adjust, Readable
        <2>2. /\ object[b] \in TypedCell /\ object[b].field \in [1..object[b].clss.num_fields -> Pointer]
              /\ \A i \in DOMAIN object[b].field : object[b].field[i] \in Objects \cup {Nil}
            BY <1>1, <1>2, <2>1, PlacedFacts, TypedCellFacts DEF Adjust, Readable, Pointees
        <2>3. PICK f : f = Adjusted(object[b].field)
            OBVIOUS
        <2>4. f \in [1..object[b].clss.num_fields -> Pointer]
            <3>1. \A q \in Objects : object[q].forwarding \in Pointer
                BY <1>1, PlacedFacts, TypedCellFacts
            <3>2. DOMAIN object[b].field = 1..object[b].clss.num_fields
                BY <2>2
            <3>3. \A i \in DOMAIN object[b].field :
                    (IF object[b].field[i] # Nil /\ object[object[b].field[i]].forwarding # Nil
                     THEN object[object[b].field[i]].forwarding ELSE object[b].field[i]) \in Pointer
                BY <2>2, <3>1
            <3> QED
                BY <2>3, <3>2, <3>3 DEF Adjusted
        <2>5. PICK x : x = [object[b] EXCEPT !.field = f]
            OBVIOUS
        <2>6. x \in TypedCell /\ x.clss = object[b].clss /\ x.id = object[b].id
            BY <2>2, <2>4, <2>5, TypedCellFacts
        <2>7. object' = [object EXCEPT ![b] = x]
            BY <1>2, <2>1, <2>3, <2>5 DEF Adjust
        <2>8. /\ Objects' = Objects /\ object'[b] = x
              /\ \A a \in Objects \ {b} : object'[a] = object[a]
            BY <2>7 DEF Objects
        <2>9. \A a \in Objects : object'[a].clss = object[a].clss /\ object'[a].id = object[a].id
            BY <2>6, <2>8
        <2>10. Placed' /\ named' \subseteq named
            BY <1>1, <2>6, <2>8, <2>9 DEF Placed, Size, named
        <2>11. p' \in 0..heap_size
            <3>1. p \in Nat /\ to \in Nat /\ to >= heap /\ p' = p + Size(b)
                BY <1>1, <1>2, <2>1, AddressFacts DEF Counters, to, Adjust
            <3> QED
                BY <1>1, <2>1, <3>1, PlacedFacts, AddressFacts
        <2>12. RoomFor(named)'
            BY <1>1, <1>2, <2>10, RoomStays DEF Adjust, Supply
        <2> QED
            BY <1>1, <1>2, <2>10, <2>11, <2>12 DEF Adjust, Typed, Counters, Supply
    <1>3. CASE AdjustUndefined
        BY <1>1, <1>3, PlacedStays DEF AdjustUndefined, memory, walk, Typed, Counters, Supply
    <1>4. CASE AdjustDone
        <2>1. /\ Objects' = Copies /\ current' = Copies /\ Copies \subseteq Objects
              /\ \A a \in Copies : object'[a] = object[a]
            BY <1>4 DEF AdjustDone, Objects, Copies
        <2>2. Placed' /\ named' \subseteq named
            BY <1>1, <2>1 DEF Placed, Size, named
        <2>3. RoomFor(named)'
            BY <1>1, <1>4, <2>2, RoomStays DEF AdjustDone, Supply
        <2>4. from' \in {heap, heap + heap_half_size}
            BY <1>4 DEF AdjustDone, to
        <2>5. current' \subseteq Address /\ 1 \in 1..(MAX_ROOTS + 1) /\ 0 \in 0..heap_size
            BY <1>1, <2>1, AddressFacts DEF Placed
        <2>6. pc' = (IF request = NoRequest THEN "run" ELSE "alloc") /\ request' = request
            BY <1>4 DEF AdjustDone
        <2>7. Counters'
            BY <1>1, <1>4, <2>4, <2>5, <2>6 DEF AdjustDone, Counters
        <2>8. Supply'
            BY <1>1, <2>1, <2>3, <2>6 DEF Supply, Counters
        <2> QED
            BY <2>2, <2>7, <2>8 DEF Typed
    <1> QED
        BY <1>2, <1>3, <1>4 DEF AdjustRefs

LEMMA TypedStep == Typed /\ [Next]_vars => Typed'
    <1> SUFFICES ASSUME Typed, [Next]_vars PROVE Typed'
        OBVIOUS
    <1>1. CASE UNCHANGED vars
        BY <1>1, PlacedStays DEF vars, Typed, Counters, Supply
    <1>2. CASE Ended
        BY <1>1, <1>2 DEF Ended
    <1> QED
        BY <1>1, <1>2, TypedClient, TypedAlloc, TypedCopy, TypedAdjust DEF Next, Client

\* However many collections there have been and whatever they have overwritten, each
\* variable has its type and no object and no pointer is outside the heap, as long
\* as no copy passes the heap's end, where the model stops (gc_alloc, copy, adjust_ref).
THEOREM TypeCorrect == Spec => []TypeOK
    <1>1. Typed => TypeOK
        <2> SUFFICES ASSUME Typed PROVE TypeOK
            OBVIOUS
        <2>1. Placed /\ Counters
            BY DEF Typed
        <2>2. \A a \in Objects : Header(a) /\ a + Size(a) <= heap + heap_size
            BY <2>1, PlacedFacts, TypedCellFacts DEF Header
        <2> QED
            BY <2>1, <2>2 DEF Placed, Counters, TypeOK
    <1> QED
        BY <1>1, TypedInit, TypedStep, PTL DEF Spec
================================================================================
