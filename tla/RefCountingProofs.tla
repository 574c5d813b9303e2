--------------------------- MODULE RefCountingProofs ---------------------------
(***************************************************************************)
(* What holds of RefCounting for every heap size, set of classes and       *)
(* number of roots: the counts are exact in the middle of every cascade,   *)
(* nothing that the client can use is reclaimed, and only cycles leak.     *)
(*                                                                         *)
(* The facts about counts are stated for the parts of a state, so that     *)
(* they apply to the state before a step, to the one after it, and to the  *)
(* one between an increment and the decrement that follows it.             *)
(***************************************************************************)
EXTENDS RefCounting, Sequences, FiniteSetTheorems, SequenceTheorems,
        WellFoundedInduction, TLAPS

--------------------------------------------------------------------------------
(* The object graph.                                                       *)

\* Storing NULL in every reference field makes an object of the class (the
\* loop of gc_alloc), which refers to nothing.
LEMMA NullFieldsType ==
    ASSUME NEW Classes, NEW k \in Classes, NEW Pointers, Nil \in Pointers
    PROVE  /\ NullFields(k) \in ObjectOf(Classes, Pointers)
           /\ DOMAIN NullFields(k) = 1..k
           /\ \A i \in 1..k : NullFields(k)[i] = Nil
    BY DEF NullFields, ObjectOf

\* Storing a pointer in a field of an object leaves an object of its class.
LEMMA StoreType ==
    ASSUME NEW Classes, NEW Pointers, NEW o \in ObjectOf(Classes, Pointers),
           NEW i, NEW p \in Pointers
    PROVE  [o EXCEPT ![i] = p] \in ObjectOf(Classes, Pointers)
    <1>1. PICK k \in Classes : o \in [1..k -> Pointers]
        BY DEF ObjectOf
    <1>2. [o EXCEPT ![i] = p] \in [1..k -> Pointers]
        BY <1>1
    <1> QED
        BY <1>2 DEF ObjectOf

\* The references an object holds are pointers.
LEMMA FieldType ==
    ASSUME NEW Classes, NEW Pointers, NEW o \in ObjectOf(Classes, Pointers),
           NEW i \in DOMAIN o
    PROVE  o[i] \in Pointers
    BY DEF ObjectOf

\* The fields of an object are numbered by positive integers.
LEMMA DomainType ==
    ASSUME NEW Classes \in SUBSET Nat, NEW Pointers,
           NEW o \in ObjectOf(Classes, Pointers)
    PROVE  \E k \in Classes : DOMAIN o = 1..k
    BY DEF ObjectOf

\* What is closed and holds the roots holds everything reachable: this is why
\* a collector that keeps such a set takes back only garbage.
LEMMA ReachableIsLeast ==
    ASSUME NEW Nodes, NEW f, NEW R, NEW S \in SUBSET Nodes,
           R \subseteq S \cup {Nil}, Closed(f, S)
    PROVE  Reachable(Nodes, f, R) \subseteq S
    BY DEF Reachable

\* The roots are reachable.
LEMMA RootsAreReachable ==
    ASSUME NEW Nodes, NEW f, NEW R, R \subseteq Nodes \cup {Nil}
    PROVE  R \subseteq Reachable(Nodes, f, R) \cup {Nil}
    BY DEF Reachable

\* Following a reference from a reachable object leads to a reachable object.
LEMMA ReachableIsClosed ==
    ASSUME NEW Nodes, NEW f, NEW R, Closed(f, Nodes)
    PROVE  Closed(f, Reachable(Nodes, f, R))
    <1> SUFFICES ASSUME NEW n \in Reachable(Nodes, f, R),
                        NEW i \in DOMAIN f[n], f[n][i] # Nil
                 PROVE  f[n][i] \in Reachable(Nodes, f, R)
        BY DEF Closed
    <1>1. n \in Nodes
        BY DEF Reachable
    <1>2. f[n][i] \in Nodes
        BY <1>1 DEF Closed
    <1>3. ASSUME NEW S \in SUBSET Nodes, R \subseteq S \cup {Nil},
                 Closed(f, S)
          PROVE  f[n][i] \in S
        <2>1. n \in S
            BY <1>3, ReachableIsLeast
        <2> QED
            BY <1>3, <2>1 DEF Closed
    <1> QED
        BY <1>2, <1>3 DEF Reachable

--------------------------------------------------------------------------------
(* Searches and stacks.                                                    *)

\* A set of natural numbers that is not empty has a least element.
LEMMA LeastElement ==
    ASSUME NEW T \in SUBSET Nat, T # {}
    PROVE  \E m \in T : \A k \in T : m <= k
    <1> DEFINE R == StrictSubsetOrdering(Nat)
               Up == {0..m : m \in T}
    <1>1. Up \subseteq FiniteSubsetsOf(Nat) /\ Up # {}
        <2>1. ASSUME NEW m \in T
              PROVE  0..m \in SUBSET Nat /\ IsFiniteSet(0..m)
            <3>1. 0 \in Int /\ m \in Int
                OBVIOUS
            <3>2. IsFiniteSet(0..m)
                BY <3>1, FS_Interval, Zenon
            <3> QED
                BY <3>2
        <2> QED
            BY <2>1, Zenon DEF FiniteSubsetsOf
    <1>2. IsWellFoundedOn(R, FiniteSubsetsOf(Nat))
        BY FS_StrictSubsetOrderingWellFounded
    <1>3. PICK x \in Up : \A y \in Up : <<y, x>> \notin R
        BY <1>1, <1>2, WFMin
    <1>4. PICK m \in T : x = 0..m
        BY <1>3
    <1>5. ASSUME NEW k \in T, k < m
          PROVE  FALSE
        <2>1. 0..k \in SUBSET Nat /\ 0..m \in SUBSET Nat
            OBVIOUS
        <2>2. 0..k \subseteq 0..m /\ m \in 0..m /\ m \notin 0..k
            BY <1>5
        <2>3. <<0..k, 0..m>> \in R
            BY <2>1, <2>2 DEF StrictSubsetOrdering
        <2> QED
            BY <1>3, <1>4, <2>3
    <1> QED
        BY <1>5

\* A search from n to m that passes what is used stops somewhere.
LEMMA FirstUnused ==
    ASSUME NEW U, NEW n \in Nat, NEW m \in Nat, ~(n..m \subseteq U)
    PROVE  \E k \in (n..m) \ U : n..(k - 1) \subseteq U
    <1> DEFINE Idle == (n..m) \ U
    <1>1. Idle \in SUBSET Nat /\ Idle # {}
        OBVIOUS
    <1>2. PICK k \in Idle : \A l \in Idle : k <= l
        BY <1>1, LeastElement
    <1>3. n..(k - 1) \subseteq U
        BY <1>1, <1>2
    <1> QED
        BY <1>2, <1>3

\* All but the last element of a sequence.
LEMMA FrontProperties ==
    ASSUME NEW S, NEW s \in Seq(S), Len(s) # 0
    PROVE  /\ SubSeq(s, 1, Len(s) - 1) \in Seq(S)
           /\ Len(SubSeq(s, 1, Len(s) - 1)) = Len(s) - 1
           /\ \A j \in 1..(Len(s) - 1) : SubSeq(s, 1, Len(s) - 1)[j] = s[j]
    <1> DEFINE n == Len(s) - 1
    <1>1. n \in Nat /\ n + 1 = Len(s)
        BY LenProperties
    <1> HIDE DEF n
    <1>2. SubSeq(s, 1, n) \in Seq(S)
        BY <1>1, SMT
    <1>3. Len(SubSeq(s, 1, n)) = n
        BY <1>1, SMT
    <1>4. \A j \in 1..n : SubSeq(s, 1, n)[j] = s[j]
        BY <1>1, SMT
    <1> QED
        BY <1>2, <1>3, <1>4 DEF n

--------------------------------------------------------------------------------
(* The list of nodes, for every heap size.                                 *)

\* The heap is a whole number of nodes, at least one and at most four for each
\* root, whatever size gc_init is given (resolve_heap_size).
LEMMA HeapSizeBounds ==
    /\ free_list_size \in Nat \ {0}
    /\ free_list_size <= MAX_ROOTS * 4
    <1> DEFINE M == MAX_ROOTS * 4
    <1>1. M \in Nat /\ M >= 1
        BY MAX_ROOTSAssumption
    <1>2. MAX_HEAP_SIZE = M * 128
        BY DEF MAX_HEAP_SIZE, NODE_SIZE
    <1> HIDE DEF M
    <1>3. \A c \in Int : 128 <= c /\ c <= M * 128 =>
            /\ c \div 128 \in Int
            /\ 1 <= c \div 128
            /\ c \div 128 <= M
            /\ ((c \div 128) * 128) \div 128 = c \div 128
        BY <1>1
    <1> QED
        BY <1>1, <1>2, <1>3, HeapSizeAssumption
        DEF free_list_size, resolve_heap_size, NODE_SIZE, M

LEMMA NodeFacts ==
    /\ Node \subseteq Nat
    /\ head \in Node
    /\ Nil \notin Node
    /\ \A n \in Node : next(n) \in Node \cup {Nil}
    /\ \A n \in Node, m \in Node :
          (next(n) = Nil \/ m < next(n)) <=> (m < n \/ m = n)
    BY HeapSizeBounds DEF Node, head, Nil, next

\* Where find_idle_node stops is an idle node of the list, or NULL when there is
\* no idle node from its starting point on.
LEMMA FirstIdleSpec ==
    ASSUME NEW used_nodes, NEW n \in Nat \ {0}
    PROVE  \/ FirstIdle(used_nodes, n) = Nil /\ n..free_list_size \subseteq used_nodes
           \/ FirstIdle(used_nodes, n) \in Node \ used_nodes
    <1>1. CASE n..free_list_size \subseteq used_nodes
        BY <1>1 DEF FirstIdle
    <1>2. CASE ~(n..free_list_size \subseteq used_nodes)
        <2>1. n \in Nat /\ free_list_size \in Nat
            BY HeapSizeBounds
        <2>2. \E k \in (n..free_list_size) \ used_nodes : n..(k - 1) \subseteq used_nodes
            BY <1>2, <2>1, FirstUnused
        <2>3. FirstIdle(used_nodes, n) \in (n..free_list_size) \ used_nodes
            BY <1>2, <2>2, Zenon DEF FirstIdle
        <2>4. n..free_list_size \subseteq Node
            BY <2>1 DEF Node
        <2> QED
            BY <2>3, <2>4
    <1> QED
        BY <1>1, <1>2

--------------------------------------------------------------------------------

\* The frames fs have not dropped the reference in field i of o yet.
Undropped(o, i, fs) == \A j \in DOMAIN fs : fs[j].obj = o => fs[j].i <= i

\* The references to n in the objects U with the fields S, but for the ones that
\* the frames fs have dropped.
RefsTo(n, U, S, fs) ==
    {r \in UNION {{o} \X DOMAIN S[o] : o \in U} :
        S[r[1]][r[2]] = n /\ Undropped(r[1], r[2], fs)}

Dying(fs) == {fs[j].obj : j \in DOMAIN fs}

\* The counts cnt are exact, but for one reference to p that is to be dropped
\* next; a node that is idle or is being reclaimed has count 0, and is being
\* reclaimed once only.
Exact(p, U, S, fs, cnt, R) ==
    /\ U \in SUBSET Node
    /\ S \in [Node -> Contents]
    /\ fs \in Seq(Frame)
    /\ cnt \in [Node -> Nat]
    /\ R \in [Node -> 0..MaxRooted]
    /\ \A n \in Node : cnt[n] = R[n] + Cardinality(RefsTo(n, U, S, fs)) + (IF n = p THEN 1 ELSE 0)
    /\ \A n \in Node \ U : cnt[n] = 0
    /\ \A j \in DOMAIN fs : fs[j].obj \in U /\ cnt[fs[j].obj] = 0
    /\ \A i, j \in DOMAIN fs : fs[i].obj = fs[j].obj => i = j

\* The object that gc_update_ptr is about to store into hangs on a root, on an
\* object just allocated, or on a cycle that the store closes.
Pending ==
    /\ pc # "dec" => stack = <<>> /\ store = NoStore
    /\ store # NoStore =>
        /\ store.obj \in used \ Dying(stack)
        /\ store.i \in DOMAIN field[store.obj]
        /\ store.obj \in Reachable(Node, Stored, Roots \cup Fresh \cup {store.value})

IInv ==
    /\ TypeOK
    /\ Exact(Nil, used, Stored, stack, ref_cnt, rooted)
    /\ Pending

--------------------------------------------------------------------------------
(* Counting references.                                                    *)

\* A reference is an object and the number of one of its fields.
LEMMA RefsMember ==
    ASSUME NEW n, NEW U, NEW S, NEW fs
    PROVE  /\ \A o, i : <<o, i>> \in RefsTo(n, U, S, fs) <=>
                /\ o \in U /\ i \in DOMAIN S[o] /\ S[o][i] = n
                /\ Undropped(o, i, fs)
           /\ \A r \in RefsTo(n, U, S, fs) : r = <<r[1], r[2]>>
    <1> DEFINE All == UNION {{o} \X DOMAIN S[o] : o \in U}
    <1>1. \A o, i : <<o, i>> \in All <=> o \in U /\ i \in DOMAIN S[o]
        OBVIOUS
    <1>2. \A r \in All : r = <<r[1], r[2]>>
        OBVIOUS
    <1>3. \A o, i : <<o, i>>[1] = o /\ <<o, i>>[2] = i
        OBVIOUS
    <1> HIDE DEF All
    <1>4. RefsTo(n, U, S, fs) =
            {r \in All : S[r[1]][r[2]] = n /\ Undropped(r[1], r[2], fs)}
        BY DEF RefsTo, All
    <1>5. \A o, i : <<o, i>> \in RefsTo(n, U, S, fs) <=>
                /\ o \in U /\ i \in DOMAIN S[o] /\ S[o][i] = n
                /\ Undropped(o, i, fs)
        BY <1>1, <1>3, <1>4
    <1> QED
        BY <1>2, <1>4, <1>5

\* Sets of references with the same members are equal.
LEMMA RefsEqual ==
    ASSUME NEW n, NEW U, NEW S, NEW fs, NEW m, NEW V, NEW T, NEW gs,
           \A o, i : <<o, i>> \in RefsTo(n, U, S, fs) <=> <<o, i>> \in RefsTo(m, V, T, gs)
    PROVE  RefsTo(n, U, S, fs) = RefsTo(m, V, T, gs)
    <1>1. ASSUME NEW r \in RefsTo(n, U, S, fs)
          PROVE  r \in RefsTo(m, V, T, gs)
        <2>1. r = <<r[1], r[2]>>
            BY RefsMember
        <2>2. <<r[1], r[2]>> \in RefsTo(n, U, S, fs)
            BY <2>1
        <2>3. <<r[1], r[2]>> \in RefsTo(m, V, T, gs)
            BY <2>2
        <2> QED
            BY <2>1, <2>3
    <1>2. ASSUME NEW r \in RefsTo(m, V, T, gs)
          PROVE  r \in RefsTo(n, U, S, fs)
        <2>1. r = <<r[1], r[2]>>
            BY RefsMember
        <2>2. <<r[1], r[2]>> \in RefsTo(m, V, T, gs)
            BY <2>1
        <2>3. <<r[1], r[2]>> \in RefsTo(n, U, S, fs)
            BY <2>2
        <2> QED
            BY <2>1, <2>3
    <1> QED
        BY <1>1, <1>2

\* The frames matter only by the references they have dropped.
LEMMA SameUndropped ==
    ASSUME NEW n, NEW U, NEW S, NEW fs, NEW gs,
           \A o \in U : \A i \in DOMAIN S[o] : Undropped(o, i, fs) <=> Undropped(o, i, gs)
    PROVE  RefsTo(n, U, S, fs) = RefsTo(n, U, S, gs)
    <1>1. ASSUME NEW o, NEW i, <<o, i>> \in RefsTo(n, U, S, fs)
          PROVE  <<o, i>> \in RefsTo(n, U, S, gs)
        <2>1. o \in U /\ i \in DOMAIN S[o] /\ S[o][i] = n /\ Undropped(o, i, fs)
            BY <1>1, RefsMember
        <2>2. Undropped(o, i, gs)
            BY <2>1
        <2> QED
            BY <2>1, <2>2, RefsMember
    <1>2. ASSUME NEW o, NEW i, <<o, i>> \in RefsTo(n, U, S, gs)
          PROVE  <<o, i>> \in RefsTo(n, U, S, fs)
        <2>1. o \in U /\ i \in DOMAIN S[o] /\ S[o][i] = n /\ Undropped(o, i, gs)
            BY <1>2, RefsMember
        <2>2. Undropped(o, i, fs)
            BY <2>1
        <2> QED
            BY <2>1, <2>2, RefsMember
    <1> QED
        BY <1>1, <1>2, RefsEqual

\* There are finitely many references.
LEMMA RefsFinite ==
    ASSUME NEW U \in SUBSET Node, NEW S \in [Node -> Contents], NEW n, NEW fs
    PROVE  /\ IsFiniteSet(RefsTo(n, U, S, fs))
           /\ Cardinality(RefsTo(n, U, S, fs)) \in Nat
    <1> DEFINE f == [o \in U |-> {o} \X DOMAIN S[o]]
               T == {f[o] : o \in U}
    <1>1. IsFiniteSet(U)
        <2>1. IsFiniteSet(Node)
            BY HeapSizeBounds, FS_Interval DEF Node
        <2> QED
            BY <2>1, FS_Subset
    <1>2. f \in Surjection(U, T)
        BY DEF Surjection
    <1>3. IsFiniteSet(T)
        BY <1>1, <1>2, FS_Surjection
    <1>4. ASSUME NEW o \in U
          PROVE  IsFiniteSet(f[o])
        <2>1. S[o] \in Contents
            OBVIOUS
        <2>2. PICK k \in Class \cup {0} : S[o] \in [1..k -> Pointer]
            BY <2>1 DEF Contents, ObjectOf
        <2>3. k \in Nat
            BY ClassAssumption
        <2>4. IsFiniteSet(1..k)
            BY <2>3, FS_Interval
        <2>5. IsFiniteSet({o} \X (1..k))
            BY <2>4, FS_Singleton, FS_Product
        <2> QED
            BY <2>2, <2>5
    <1>5. IsFiniteSet(UNION T)
        BY <1>3, <1>4, FS_UNION
    <1>6. RefsTo(n, U, S, fs) \in SUBSET (UNION T)
        BY DEF RefsTo
    <1>7. IsFiniteSet(RefsTo(n, U, S, fs))
        BY <1>5, <1>6, FS_Subset
    <1> QED
        BY <1>7, FS_CardinalityType

\* An object that something refers to has been counted.
LEMMA CountedIsPositive ==
    ASSUME NEW p, NEW U, NEW S, NEW fs, NEW cnt, NEW R, Exact(p, U, S, fs, cnt, R),
           NEW n \in Node, NEW o, NEW i, <<o, i>> \in RefsTo(n, U, S, fs)
    PROVE  cnt[n] > 0 /\ n \in U \ Dying(fs)
    <1> DEFINE c == Cardinality(RefsTo(n, U, S, fs))
    <1>1. c \in Nat /\ c # 0
        BY RefsFinite, FS_EmptySet DEF Exact
    <1>2. cnt[n] = R[n] + c + (IF n = p THEN 1 ELSE 0) /\ R[n] \in Nat
        BY MaxRootedAssumption DEF Exact
    <1> HIDE DEF c
    <1>3. cnt[n] > 0
        BY <1>1, <1>2
    <1> QED
        BY <1>3 DEF Exact, Dying

\* So no object that is not being reclaimed refers to one that is, or to an idle
\* node; and roots and objects not yet referred to are not being reclaimed.
LEMMA KeptIsClosed ==
    ASSUME NEW p, NEW U, NEW S, NEW fs, NEW cnt, NEW R, Exact(p, U, S, fs, cnt, R)
    PROVE  /\ Closed(S, U \ Dying(fs))
           /\ \A n \in Node : R[n] > 0 => n \in U \ Dying(fs)
    <1>1. ASSUME NEW n \in U \ Dying(fs), NEW i \in DOMAIN S[n], S[n][i] # Nil
          PROVE  S[n][i] \in U \ Dying(fs)
        <2>1. S[n] \in Contents /\ n \in U
            BY DEF Exact
        <2>2. S[n][i] \in Node
            BY <1>1, <2>1, FieldType DEF Contents, Pointer
        <2>3. <<n, i>> \in RefsTo(S[n][i], U, S, fs)
            BY RefsMember DEF Dying, Undropped
        <2> QED
            BY <2>2, <2>3, CountedIsPositive
    <1>2. ASSUME NEW n \in Node, R[n] > 0
          PROVE  n \in U \ Dying(fs)
        <2>1. Cardinality(RefsTo(n, U, S, fs)) \in Nat
            BY RefsFinite DEF Exact
        <2>2. cnt[n] > 0
            <3>1. R[n] \in Nat /\ cnt[n] \in Nat
                BY MaxRootedAssumption DEF Exact
            <3>2. cnt[n] = R[n] + Cardinality(RefsTo(n, U, S, fs)) + (IF n = p THEN 1 ELSE 0)
                BY DEF Exact
            <3> HIDE DEF Exact
            <3> QED
                BY <1>2, <2>1, <3>1, <3>2
        <2> QED
            BY <2>2 DEF Exact, Dying
    <1> QED
        BY <1>1, <1>2 DEF Closed

\* What the operations work with: pointers, fields and frames have their types.
LEMMA StoredType ==
    ASSUME TypeOK
    PROVE  /\ Stored \in [Node -> Contents]
           /\ \A n \in Node : DOMAIN Stored[n] = DOMAIN field[n]
    <1>1. CASE store = NoStore
        BY <1>1 DEF TypeOK, Stored
    <1>2. CASE store # NoStore
        <2>1. store \in [obj : Node, i : Nat \ {0}, value : Pointer]
            BY <1>2 DEF TypeOK, Store
        <2>2. field[store.obj] \in Contents
            BY <2>1 DEF TypeOK
        <2>3. [field[store.obj] EXCEPT ![store.i] = store.value] \in Contents
            BY <2>1, <2>2, StoreType DEF Contents
        <2>4. Stored = [field EXCEPT ![store.obj] =
                            [field[store.obj] EXCEPT ![store.i] = store.value]]
            BY <1>2 DEF Stored
        <2> QED
            BY <2>1, <2>3, <2>4 DEF TypeOK
    <1> QED
        BY <1>1, <1>2

\* A call of dec_ref_cnt drops the reference that is too many.
LEMMA DecStep ==
    ASSUME NEW p \in Pointer, NEW U, NEW S, NEW fs, NEW counts, NEW R,
           Exact(p, U, S, fs, counts, R), dec_ref_cnt(p, counts, fs)
    PROVE  /\ Exact(Nil, U, S, stack', ref_cnt', R)
           /\ \/ stack' = fs
              \/ p \in Node /\ ref_cnt'[p] = 0 /\ stack' = Append(fs, [obj |-> p, i |-> 1])
           /\ ref_cnt' = IF p = Nil THEN counts ELSE [counts EXCEPT ![p] = @ - 1]
    <1> USE DEF Exact
    <1>1. CASE p = Nil
        BY <1>1, NodeFacts DEF dec_ref_cnt
    <1>2. CASE p # Nil
        <2>1. p \in Node /\ ref_cnt' = [counts EXCEPT ![p] = @ - 1]
            BY <1>2 DEF dec_ref_cnt, Pointer
        <2>2. /\ \A n \in Node : Cardinality(RefsTo(n, U, S, fs)) \in Nat
              /\ \A n \in Node : R[n] \in Nat
              /\ \A n \in Node : counts[n] \in Nat
            BY RefsFinite, MaxRootedAssumption
        <2>3. counts[p] > 0
            BY <2>1, <2>2
        <2>4. ref_cnt' \in [Node -> Nat] /\ ref_cnt'[p] = counts[p] - 1
            BY <2>1, <2>2, <2>3
        <2>5. \A n \in Node : ref_cnt'[n] = R[n] + Cardinality(RefsTo(n, U, S, fs))
            BY <2>1, <2>2
        <2>6. \A n \in Node \ U : ref_cnt'[n] = 0
            BY <2>1, <2>3
        <2>7. p \in U /\ \A j \in DOMAIN fs : fs[j].obj # p
            BY <2>1, <2>3
        <2>8. \A j \in DOMAIN fs : fs[j].obj \in U /\ ref_cnt'[fs[j].obj] = 0
            BY <2>1, <2>7
        <2>9. CASE ref_cnt'[p] # 0
            <3>1. stack' = fs
                BY <1>2, <2>9 DEF dec_ref_cnt
            <3>2. \A n \in Node : ref_cnt'[n] = R[n] + Cardinality(RefsTo(n, U, S, fs))
                                                + (IF n = Nil THEN 1 ELSE 0)
                <4>1. \A n \in Node : ref_cnt'[n] \in Nat /\ n # Nil
                    BY <2>4, NodeFacts
                <4> HIDE DEF Exact
                <4> QED
                    BY <2>5, <4>1
            <3>3. Exact(Nil, U, S, fs, ref_cnt', R)
                BY <2>4, <2>6, <2>8, <3>2, Zenon
            <3> HIDE DEF Exact
            <3> QED
                BY <1>2, <2>1, <3>1, <3>3
        <2>10. CASE ref_cnt'[p] = 0
            <3> DEFINE f == [obj |-> p, i |-> 1]
            <3>1. f \in Frame /\ f.obj = p /\ f.i = 1
                BY <2>1 DEF Frame
            <3>2. stack' = Append(fs, f)
                BY <1>2, <2>10 DEF dec_ref_cnt
            <3> HIDE DEF f
            <3>3. /\ stack' \in Seq(Frame)
                  /\ DOMAIN fs = 1..Len(fs) /\ Len(fs) \in Nat
                  /\ DOMAIN stack' = 1..(Len(fs) + 1)
                  /\ \A j \in DOMAIN fs : stack'[j] = fs[j]
                  /\ stack'[Len(fs) + 1] = f
                BY <3>1, <3>2, AppendProperties, LenProperties
            <3>4. \A j \in DOMAIN stack' : stack'[j].obj \in U /\ ref_cnt'[stack'[j].obj] = 0
                BY <2>7, <2>8, <2>10, <3>1, <3>3
            <3>5. \A i, j \in DOMAIN stack' : stack'[i].obj = stack'[j].obj => i = j
                BY <2>7, <3>1, <3>3
            <3>6. ASSUME NEW n \in Node
                  PROVE  RefsTo(n, U, S, stack') = RefsTo(n, U, S, fs)
                <4>1. ASSUME NEW o \in U, NEW i \in DOMAIN S[o]
                      PROVE  f.i <= i
                    <5>1. S[o] \in Contents
                        OBVIOUS
                    <5>2. PICK k \in Nat : DOMAIN S[o] = 1..k
                        BY <5>1, ClassAssumption, DomainType DEF Contents
                    <5> QED
                        BY <3>1, <5>2
                <4>2. ASSUME NEW o \in U, NEW i \in DOMAIN S[o], Undropped(o, i, fs)
                      PROVE  Undropped(o, i, stack')
                    <5>1. ASSUME NEW j \in DOMAIN stack', stack'[j].obj = o
                          PROVE  stack'[j].i <= i
                        <6>1. j \in DOMAIN fs \/ j = Len(fs) + 1
                            BY <3>3
                        <6> QED
                            BY <3>3, <4>1, <4>2, <5>1, <6>1 DEF Undropped
                    <5> QED
                        BY <5>1 DEF Undropped
                <4>3. ASSUME NEW o, NEW i, Undropped(o, i, stack')
                      PROVE  Undropped(o, i, fs)
                    <5>1. \A j \in DOMAIN fs : j \in DOMAIN stack' /\ stack'[j] = fs[j]
                        BY <3>3
                    <5> QED
                        BY <4>3, <5>1 DEF Undropped
                <4> QED
                    BY <4>2, <4>3, SameUndropped
            <3>7. \A n \in Node : ref_cnt'[n] = R[n] + Cardinality(RefsTo(n, U, S, stack'))
                BY <2>5, <3>6
            <3>8. Exact(Nil, U, S, stack', ref_cnt', R)
                <4>1. \A n \in Node : ref_cnt'[n] = R[n] + Cardinality(RefsTo(n, U, S, stack'))
                                                    + (IF n = Nil THEN 1 ELSE 0)
                    <5>1. \A n \in Node : ref_cnt'[n] \in Nat /\ n # Nil
                        BY <2>4, NodeFacts
                    <5> HIDE DEF Exact
                    <5> QED
                        BY <3>7, <5>1
                <4>2. U \in SUBSET Node /\ S \in [Node -> Contents] /\ R \in [Node -> 0..MaxRooted]
                    OBVIOUS
                <4> QED
                    BY <2>4, <2>6, <3>3, <3>4, <3>5, <4>1, <4>2, Zenon
            <3>9. stack' = Append(fs, [obj |-> p, i |-> 1])
                BY <3>2 DEF f
            <3> HIDE DEF Exact
            <3> QED
                BY <1>2, <2>1, <2>10, <3>8, <3>9, Zenon
        <2> QED
            BY <2>9, <2>10
    <1> QED
        BY <1>1, <1>2

\* Two sets of references that differ by one reference at most.
LEMMA OneReference ==
    ASSUME NEW A, NEW B, NEW e, IsFiniteSet(A), IsFiniteSet(B), A \ {e} = B \ {e}
    PROVE  Cardinality(A) + (IF e \in B THEN 1 ELSE 0)
                = Cardinality(B) + (IF e \in A THEN 1 ELSE 0)
    <1>1. Cardinality(A) \in Nat /\ Cardinality(B) \in Nat
        BY FS_CardinalityType
    <1>2. Cardinality(A \ {e}) = IF e \in A THEN Cardinality(A) - 1 ELSE Cardinality(A)
        BY FS_RemoveElement
    <1>3. Cardinality(B \ {e}) = IF e \in B THEN Cardinality(B) - 1 ELSE Cardinality(B)
        BY FS_RemoveElement
    <1> QED
        BY <1>1, <1>2, <1>3

\* What an operation works with, in a state of the program.
LEMMA Kept ==
    ASSUME IInv
    PROVE  /\ Closed(Stored, used \ Dying(stack))
           /\ Roots \cup Fresh \subseteq used \ Dying(stack)
           /\ Held \subseteq used \ Dying(stack)
           /\ Closed(Stored, Node)
    <1>1. Exact(Nil, used, Stored, stack, ref_cnt, rooted) /\ used \in SUBSET Node
        BY DEF IInv, Exact
    <1>2. Closed(Stored, used \ Dying(stack))
        BY <1>1, KeptIsClosed
    <1>3. Roots \subseteq used \ Dying(stack)
        BY <1>1, KeptIsClosed DEF Roots
    <1>4. Fresh \subseteq used \ Dying(stack)
        BY DEF Fresh, Dying
    <1>5. Held \subseteq used \ Dying(stack)
        BY <1>1, <1>2, <1>3, <1>4, ReachableIsLeast DEF Held
    <1>6. Closed(Stored, Node)
        <2>1. ASSUME NEW n \in Node, NEW i \in DOMAIN Stored[n]
              PROVE  Stored[n][i] \in Node \cup {Nil}
            <3>1. Stored[n] \in Contents
                BY <1>1 DEF Exact
            <3> QED
                BY <3>1, FieldType DEF Contents, Pointer
        <2> QED
            BY <2>1 DEF Closed
    <1> QED
        BY <1>2, <1>3, <1>4, <1>5, <1>6

\* The equation that the invariant is about.
LEMMA ExactCounts ==
    ASSUME IInv
    PROVE  /\ \A n \in Node : LET c == Cardinality(RefsTo(n, used, Stored, stack)) IN
                ref_cnt[n] = rooted[n] + c /\ c \in Nat
           /\ rooted \in [Node -> Nat] /\ ref_cnt \in [Node -> Nat]
    <1>1. Exact(Nil, used, Stored, stack, ref_cnt, rooted)
        BY DEF IInv
    <1>2. rooted \in [Node -> Nat] /\ ref_cnt \in [Node -> Nat]
        BY <1>1, MaxRootedAssumption DEF Exact
    <1>3. ASSUME NEW n \in Node
          PROVE  LET c == Cardinality(RefsTo(n, used, Stored, stack)) IN
                    ref_cnt[n] = rooted[n] + c /\ c \in Nat
        <2>1. Cardinality(RefsTo(n, used, Stored, stack)) \in Nat
            BY <1>1, RefsFinite DEF Exact
        <2>2. ref_cnt[n] = rooted[n] + Cardinality(RefsTo(n, used, Stored, stack))
                              + (IF n = Nil THEN 1 ELSE 0)
            BY <1>1 DEF Exact
        <2>3. n # Nil
            BY NodeFacts
        <2> QED
            BY <1>2, <2>1, <2>2, <2>3
    <1> QED
        BY <1>2, <1>3

\* The object that the pending store is for is kept by what keeps it reachable:
\* the value to be stored is one of the references that count.
LEMMA TargetIsKept ==
    ASSUME NEW U, NEW S, NEW fs, NEW cnt, NEW R, Exact(Nil, U, S, fs, cnt, R),
           NEW o \in U, NEW i \in DOMAIN S[o], Undropped(o, i, fs),
           NEW base \in SUBSET (U \ Dying(fs)),
           o \in Reachable(Node, S, base \cup {S[o][i]})
    PROVE  S[o][i] \in (U \ Dying(fs)) \cup {Nil} /\ o \in U \ Dying(fs)
    <1>1. U \in SUBSET Node /\ S[o] \in Contents
        BY DEF Exact
    <1>2. S[o][i] \in Node \cup {Nil}
        BY <1>1, FieldType DEF Contents, Pointer
    <1>3. <<o, i>> \in RefsTo(S[o][i], U, S, fs)
        BY RefsMember
    <1>4. S[o][i] \in (U \ Dying(fs)) \cup {Nil}
        BY <1>2, <1>3, CountedIsPositive
    <1>5. Closed(S, U \ Dying(fs))
        BY KeptIsClosed
    <1> QED
        BY <1>1, <1>4, <1>5, ReachableIsLeast

--------------------------------------------------------------------------------
(* The invariant, one lemma per action.                                    *)

LEMMA IInvInit == Init => IInv
    <1> SUFFICES ASSUME Init PROVE IInv
        OBVIOUS
    <1>1. TypeOK
        <2>1. NullFields(0) \in Contents
            BY NullFieldsType DEF Contents, Pointer
        <2> QED
            BY <2>1, NodeFacts, MaxRootedAssumption, EmptySeq DEF Init, TypeOK, Pointer
    <1>2. Stored = field
        BY DEF Init, Stored
    <1>3. ASSUME NEW n \in Node
          PROVE  Cardinality(RefsTo(n, used, Stored, stack)) = 0
        <2>1. RefsTo(n, used, Stored, stack) = {}
            BY DEF Init, RefsTo
        <2> QED
            BY <2>1, FS_EmptySet
    <1>4. Exact(Nil, used, Stored, stack, ref_cnt, rooted)
        <2>1. stack = <<>> /\ DOMAIN stack = {}
            BY EmptySeq DEF Init
        <2>2. \A n \in Node : ref_cnt[n] = 0 /\ rooted[n] = 0 /\ n # Nil
            BY NodeFacts DEF Init
        <2>3. \A n \in Node : ref_cnt[n] = rooted[n]
                + Cardinality(RefsTo(n, used, Stored, stack)) + (IF n = Nil THEN 1 ELSE 0)
            BY <1>3, <2>2
        <2> QED
            BY <1>1, <1>2, <2>1, <2>2, <2>3 DEF Exact, TypeOK
    <1> QED
        BY <1>1, <1>4 DEF IInv, Pending, Init

LEMMA AddRootStep ==
    ASSUME IInv, gc_add_root
    PROVE  IInv'
    <1>1. PICK p \in Held : /\ rooted[p] < MaxRooted
                            /\ rooted' = [rooted EXCEPT ![p] = @ + 1]
                            /\ ref_cnt' = inc_ref_cnt(p, ref_cnt)
        BY DEF gc_add_root
    <1>2. p \in used \ Dying(stack) /\ p \in Node /\ p # Nil
        BY Kept, NodeFacts DEF IInv, TypeOK
    <1>3. ref_cnt' = [ref_cnt EXCEPT ![p] = @ + 1]
        BY <1>1, <1>2 DEF inc_ref_cnt
    <1>4. TypeOK'
        <2>1. rooted' \in [Node -> 0..MaxRooted] /\ ref_cnt' \in [Node -> Nat]
            BY <1>1, <1>2, <1>3, MaxRootedAssumption DEF IInv, TypeOK
        <2> QED
            BY <2>1 DEF gc_add_root, IInv, TypeOK
    <1>5. UNCHANGED <<used, Stored, stack>>
        BY DEF gc_add_root, Stored
    <1>6. Exact(Nil, used, Stored, stack, ref_cnt', rooted')
        <2> DEFINE c(n) == Cardinality(RefsTo(n, used, Stored, stack))
        <2>1. /\ \A n \in Node : ref_cnt[n] = rooted[n] + c(n) /\ c(n) \in Nat
              /\ rooted \in [Node -> Nat] /\ ref_cnt \in [Node -> Nat]
            BY ExactCounts
        <2> HIDE DEF c
        <2>2. \A n \in Node : ref_cnt'[n] = rooted'[n] + c(n) + (IF n = Nil THEN 1 ELSE 0)
            BY <1>1, <1>2, <1>3, <2>1, NodeFacts
        <2>3. \A n \in Node : ref_cnt'[n] = rooted'[n] + Cardinality(RefsTo(n, used, Stored, stack))
                                             + (IF n = Nil THEN 1 ELSE 0)
            BY <2>2 DEF c
        <2>4. \A n \in Node \ used : ref_cnt'[n] = 0
            BY <1>2, <1>3 DEF IInv, Exact
        <2>5. \A j \in DOMAIN stack : stack[j].obj \in used /\ ref_cnt'[stack[j].obj] = 0
            BY <1>2, <1>3 DEF IInv, Exact, Dying
        <2> QED
            BY <1>4, <2>3, <2>4, <2>5 DEF IInv, Exact, TypeOK
    <1>7. Pending'
        BY DEF IInv, Pending, gc_add_root
    <1> QED
        BY <1>4, <1>5, <1>6, <1>7 DEF IInv

LEMMA RemoveRootStep ==
    ASSUME IInv, gc_remove_root
    PROVE  IInv'
    <1> DEFINE R(p) == [rooted EXCEPT ![p] = @ - 1]
    <1>1. PICK p \in Roots : rooted' = R(p) /\ dec_ref_cnt(p, ref_cnt, <<>>)
        BY DEF gc_remove_root
    <1>2. p \in Node /\ rooted[p] > 0 /\ p # Nil /\ p \in Pointer
        BY NodeFacts DEF Roots, Pointer
    <1>3. stack = <<>> /\ store = NoStore /\ DOMAIN <<>> = {} /\ pc = "run"
        BY EmptySeq DEF IInv, Pending, gc_remove_root
    <1>4. rooted' \in [Node -> 0..MaxRooted]
        BY <1>1, <1>2, MaxRootedAssumption DEF IInv, TypeOK
    <1>5. Exact(p, used, Stored, <<>>, ref_cnt, rooted')
        <2> DEFINE c(n) == Cardinality(RefsTo(n, used, Stored, stack))
        <2>1. /\ \A n \in Node : ref_cnt[n] = rooted[n] + c(n) /\ c(n) \in Nat
              /\ rooted \in [Node -> Nat] /\ ref_cnt \in [Node -> Nat]
            BY ExactCounts
        <2> HIDE DEF c
        <2>2. \A n \in Node : ref_cnt[n] = rooted'[n] + c(n) + (IF n = p THEN 1 ELSE 0)
            BY <1>1, <1>2, <2>1
        <2>3. \A n \in Node : ref_cnt[n] = rooted'[n] + Cardinality(RefsTo(n, used, Stored, <<>>))
                                            + (IF n = p THEN 1 ELSE 0)
            BY <1>3, <2>2 DEF c
        <2> QED
            BY <1>3, <1>4, <2>3 DEF IInv, Exact
    <1>6. Stored' = Stored /\ UNCHANGED <<used, field, store, next_free>> /\ pc' = "dec"
        BY DEF gc_remove_root, Stored
    <1>7. Exact(Nil, used, Stored, stack', ref_cnt', rooted')
        BY <1>1, <1>2, <1>5, DecStep
    <1>8. TypeOK'
        BY <1>4, <1>6, <1>7 DEF IInv, TypeOK, Exact
    <1> QED
        BY <1>3, <1>6, <1>7, <1>8 DEF IInv, Pending

\* Incrementing the count of what is to be stored, before the store is counted.
LEMMA WriteCounts ==
    ASSUME IInv, NEW o \in Held, NEW v \in Held \cup {Nil}, NEW i \in DOMAIN field[o],
           store = NoStore, stack = <<>>
    PROVE  Exact(field[o][i], used, [field EXCEPT ![o][i] = v], <<>>,
                 inc_ref_cnt(v, ref_cnt), rooted)
    <1> DEFINE p == field[o][i]
               S == [field EXCEPT ![o][i] = v]
               counts == inc_ref_cnt(v, ref_cnt)
               e == <<o, i>>
               A(n) == RefsTo(n, used, field, <<>>)
               B(n) == RefsTo(n, used, S, <<>>)
    <1>1. /\ o \in used /\ o \in Node /\ v \in used \cup {Nil} /\ v \in Pointer
          /\ Stored = field /\ field \in [Node -> Contents]
        BY Kept DEF IInv, TypeOK, Pointer, Stored
    <1>2. DOMAIN <<>> = {} /\ \A x, y : Undropped(x, y, <<>>)
        BY EmptySeq DEF Undropped
    <1>3. S \in [Node -> Contents]
        <2>1. [field[o] EXCEPT ![i] = v] \in Contents
            BY <1>1, StoreType DEF Contents
        <2>2. S = [field EXCEPT ![o] = [field[o] EXCEPT ![i] = v]]
            OBVIOUS
        <2> QED
            BY <1>1, <2>1, <2>2
    <1>4. /\ \A x \in Node : DOMAIN S[x] = DOMAIN field[x]
          /\ \A x \in Node : \A y \in DOMAIN field[x] :
                S[x][y] = IF x = o /\ y = i THEN v ELSE field[x][y]
        BY <1>1
    <1>5. ASSUME NEW n \in Node
          PROVE  /\ Cardinality(A(n)) + (IF n = v THEN 1 ELSE 0)
                        = Cardinality(B(n)) + (IF n = p THEN 1 ELSE 0)
                 /\ Cardinality(A(n)) \in Nat /\ Cardinality(B(n)) \in Nat
        <2>1. \A x, y : <<x, y>> \in A(n) <=>
                x \in used /\ y \in DOMAIN field[x] /\ field[x][y] = n /\ Undropped(x, y, <<>>)
            BY RefsMember, Zenon
        <2>2. \A x, y : <<x, y>> \in B(n) <=>
                x \in used /\ y \in DOMAIN S[x] /\ S[x][y] = n /\ Undropped(x, y, <<>>)
            BY RefsMember, Zenon
        <2>3. \A r \in A(n) : r = <<r[1], r[2]>>
            BY RefsMember
        <2>4. \A r \in B(n) : r = <<r[1], r[2]>>
            BY RefsMember
        <2>5. IsFiniteSet(A(n)) /\ IsFiniteSet(B(n))
              /\ Cardinality(A(n)) \in Nat /\ Cardinality(B(n)) \in Nat
            BY <1>1, <1>3, RefsFinite DEF IInv, TypeOK
        <2> HIDE DEF A, B, S
        <2>6. (e \in A(n) <=> n = p) /\ (e \in B(n) <=> n = v)
            BY <1>1, <1>2, <1>4, <2>1, <2>2
        <2>7. \A x, y : <<x, y>> # e => (<<x, y>> \in A(n) <=> <<x, y>> \in B(n))
            BY <1>1, <1>2, <1>4, <2>1, <2>2 DEF IInv, TypeOK
        <2>8. A(n) \ {e} = B(n) \ {e}
            BY <2>3, <2>4, <2>7
        <2> QED
            BY <2>5, <2>6, <2>8, OneReference
    <1>6. \A n \in Node : ref_cnt[n] = rooted[n] + Cardinality(A(n))
          /\ rooted \in [Node -> Nat] /\ ref_cnt \in [Node -> Nat]
        BY <1>1, ExactCounts
    <1>7. /\ counts \in [Node -> Nat]
          /\ \A n \in Node : counts[n] = ref_cnt[n] + (IF n = v THEN 1 ELSE 0)
        <2> HIDE DEF A, B, S, p
        <2>1. CASE v = Nil
            BY <1>6, <2>1, NodeFacts DEF inc_ref_cnt
        <2>2. CASE v # Nil
            <3>1. v \in Node /\ counts = [ref_cnt EXCEPT ![v] = @ + 1]
                BY <1>1, <2>2 DEF inc_ref_cnt, Pointer
            <3> QED
                BY <1>6, <3>1
        <2> QED
            BY <2>1, <2>2
    <1> HIDE DEF A, B, S, p, counts
    <1>8. ASSUME NEW n \in Node
          PROVE  counts[n] = rooted[n] + Cardinality(B(n)) + (IF n = p THEN 1 ELSE 0)
        <2> DEFINE a == Cardinality(A(n))
                   b == Cardinality(B(n))
                   x == IF n = v THEN 1 ELSE 0
                   y == IF n = p THEN 1 ELSE 0
        <2>1. a \in Nat /\ b \in Nat /\ a + x = b + y
            BY <1>5
        <2>2. ref_cnt[n] = rooted[n] + a /\ rooted[n] \in Nat
            BY <1>6
        <2>3. counts[n] = ref_cnt[n] + x
            BY <1>7
        <2>4. x \in Nat /\ y \in Nat
            OBVIOUS
        <2> HIDE DEF a, b, x, y
        <2>5. counts[n] = rooted[n] + b + y
            BY <2>1, <2>2, <2>3, <2>4
        <2> QED
            BY <2>5 DEF b, y
    <1>9. \A n \in Node \ used : counts[n] = 0
        BY <1>1, <1>7, NodeFacts DEF IInv, Exact
    <1>10. <<>> \in Seq(Frame)
        BY EmptySeq
    <1>11. Exact(p, used, S, <<>>, counts, rooted)
        BY <1>2, <1>3, <1>7, <1>8, <1>9, <1>10 DEF IInv, TypeOK, Exact, B
    <1> QED
        BY <1>11 DEF p, S, counts

LEMMA UpdateStep ==
    ASSUME IInv, gc_update_ptr
    PROVE  IInv'
    <1>1. PICK o \in Held, v \in Held \cup {Nil} : \E i \in DOMAIN field[o] :
            /\ store' = [obj |-> o, i |-> i, value |-> v]
            /\ dec_ref_cnt(field[o][i], inc_ref_cnt(v, ref_cnt), <<>>)
        BY DEF gc_update_ptr
    <1>2. PICK i \in DOMAIN field[o] :
            /\ store' = [obj |-> o, i |-> i, value |-> v]
            /\ dec_ref_cnt(field[o][i], inc_ref_cnt(v, ref_cnt), <<>>)
        BY <1>1
    <1> DEFINE p == field[o][i]
               counts == inc_ref_cnt(v, ref_cnt)
    <1>3. /\ stack = <<>> /\ store = NoStore /\ pc' = "dec" /\ Stored = field
          /\ UNCHANGED <<used, field, next_free, rooted>>
        BY DEF gc_update_ptr, IInv, Pending, Stored
    <1>4. /\ o \in used /\ o \in Node /\ o # Nil /\ v \in Pointer
          /\ field[o] \in Contents /\ field \in [Node -> Contents]
        BY Kept, NodeFacts DEF IInv, TypeOK, Pointer
    <1>5. p \in Pointer
        BY <1>4, FieldType DEF Contents
    <1>6. i \in Nat \ {0}
        <2>1. PICK k \in Nat : DOMAIN field[o] = 1..k
            BY <1>4, ClassAssumption, DomainType DEF Contents
        <2> QED
            BY <2>1
    <1>7. store' \in Store /\ store' # NoStore /\ store'.obj = o /\ store'.i = i
        BY <1>2, <1>4, <1>6 DEF Store, NoStore
    <1>8. Stored' = [field EXCEPT ![o][i] = v]
        BY <1>2, <1>3, <1>7 DEF Stored
    <1>9. Exact(p, used, Stored', <<>>, counts, rooted)
        BY <1>3, <1>8, WriteCounts
    <1>10. /\ Exact(Nil, used, Stored', stack', ref_cnt', rooted)
           /\ \/ stack' = <<>>
              \/ p \in Node /\ ref_cnt'[p] = 0 /\ stack' = Append(<<>>, [obj |-> p, i |-> 1])
           /\ ref_cnt' = IF p = Nil THEN counts ELSE [counts EXCEPT ![p] = @ - 1]
        <2>1. dec_ref_cnt(p, counts, <<>>)
            BY <1>2
        <2> HIDE DEF p, counts
        <2> QED
            BY <1>5, <1>9, <2>1, DecStep
    <1>11. TypeOK'
        BY <1>3, <1>7, <1>10 DEF IInv, TypeOK, Exact
    <1>12. \A j \in DOMAIN stack' : stack'[j] = [obj |-> p, i |-> 1] /\ p \in Node
        BY <1>10, EmptySeq, AppendProperties DEF Frame
    <1>13. Undropped(o, i, stack')
        BY <1>6, <1>12 DEF Undropped
    <1>14. Fresh \subseteq Fresh' \cup {v}
        <2>1. ASSUME NEW n \in Fresh, n # v
              PROVE  n \in Fresh'
            <3>1. n \in used /\ n \in Node /\ ref_cnt[n] = 0
                BY DEF Fresh, IInv, TypeOK
            <3>2. counts[n] = 0
                BY <2>1, <3>1 DEF inc_ref_cnt, IInv, TypeOK
            <3>3. Cardinality(RefsTo(n, used, Stored', <<>>)) \in Nat /\ rooted[n] \in Nat
                BY <1>9, <3>1, RefsFinite, MaxRootedAssumption DEF Exact
            <3>4. n # p
                BY <1>9, <3>1, <3>2, <3>3 DEF Exact
            <3>5. ref_cnt'[n] = 0
                BY <1>10, <3>2, <3>4
            <3> QED
                BY <1>3, <1>12, <3>1, <3>4, <3>5 DEF Fresh
        <2> QED
            BY <2>1
    <1>15. o \in Reachable(Node, Stored', (Roots \cup Fresh') \cup {v})
        <2> SUFFICES ASSUME NEW T \in SUBSET Node,
                            (Roots \cup Fresh') \cup {v} \subseteq T \cup {Nil},
                            Closed(Stored', T), o \notin T
                     PROVE  FALSE
            BY <1>4 DEF Reachable
        <2>1. \A n \in T : Stored'[n] = field[n]
            BY <1>4, <1>8
        <2>2. Closed(field, T)
            BY <2>1 DEF Closed
        <2>3. Roots \cup Fresh \subseteq T \cup {Nil}
            BY <1>14
        <2>4. Held \subseteq T
            BY <1>3, <2>2, <2>3, ReachableIsLeast DEF Held
        <2> QED
            BY <2>4
    <1>16. Roots' = Roots
        BY <1>3 DEF Roots
    <1>17. o \in used \ Dying(stack')
        <2>1. Roots \cup Fresh' \in SUBSET (used \ Dying(stack'))
            <3>1. Roots \subseteq used \ Dying(stack')
                <4>1. \A n \in Node : rooted[n] > 0 => n \in used \ Dying(stack')
                    <5>1. Exact(Nil, used, Stored', stack', ref_cnt', rooted)
                        BY <1>10
                    <5> QED
                        BY <5>1, KeptIsClosed, Zenon
                <4> QED
                    BY <4>1 DEF Roots
            <3> QED
                BY <1>3, <3>1 DEF Fresh, Dying
        <2>2. Stored'[o][i] = v /\ i \in DOMAIN Stored'[o]
            BY <1>4, <1>8
        <2>3. o \in Reachable(Node, Stored', (Roots \cup Fresh') \cup {Stored'[o][i]})
            BY <1>15, <2>2
        <2>4. Exact(Nil, used, Stored', stack', ref_cnt', rooted)
            BY <1>10
        <2> QED
            BY <1>4, <1>13, <2>1, <2>2, <2>3, <2>4, TargetIsKept
    <1>18. Pending'
        BY <1>2, <1>3, <1>7, <1>15, <1>16, <1>17 DEF Pending
    <1> QED
        BY <1>3, <1>10, <1>11, <1>18 DEF IInv

LEMMA AllocStep ==
    ASSUME IInv, gc_alloc
    PROVE  IInv'
    <1>1. PICK k \in Class :
            IF IdleNode = Nil
            THEN /\ pc' = "abort"
                 /\ next_free' = Nil
                 /\ UNCHANGED <<used, field, ref_cnt>>
            ELSE /\ used' = used \cup {IdleNode}
                 /\ field' = [field EXCEPT ![IdleNode] = NullFields(k)]
                 /\ ref_cnt' = [ref_cnt EXCEPT ![IdleNode] = 0]
                 /\ next_free' = next(IdleNode)
                 /\ UNCHANGED pc
        BY DEF gc_alloc
    <1>2. stack = <<>> /\ store = NoStore /\ pc = "run" /\ UNCHANGED <<rooted, store, stack>>
        BY DEF IInv, Pending, gc_alloc
    <1>3. Stored = field /\ Stored' = field'
        BY <1>2 DEF Stored
    <1>4. IdleNode = Nil \/ IdleNode \in Node \ used
        BY FirstIdleSpec DEF IdleNode, head, IInv, TypeOK, Pointer
    <1>5. CASE IdleNode = Nil
        <2>1. UNCHANGED <<used, field, ref_cnt, rooted, store, stack>> /\ pc' = "abort"
              /\ next_free' = Nil
            BY <1>1, <1>2, <1>5
        <2>2. TypeOK'
            BY <2>1 DEF IInv, TypeOK, Pointer
        <2> QED
            BY <1>2, <1>3, <2>1, <2>2 DEF IInv, Pending
    <1>6. CASE IdleNode # Nil
        <2> DEFINE m == IdleNode
        <2>1. m \in Node \ used /\ m # Nil
            BY <1>4, <1>6
        <2> HIDE DEF m
        <2>2. /\ used' = used \cup {m}
              /\ field' = [field EXCEPT ![m] = NullFields(k)]
              /\ ref_cnt' = [ref_cnt EXCEPT ![m] = 0]
              /\ next_free' = next(m)
              /\ UNCHANGED pc
            BY <1>1, <1>6 DEF m
        <2>3. NullFields(k) \in Contents /\ \A i \in DOMAIN NullFields(k) : NullFields(k)[i] = Nil
            BY NullFieldsType DEF Contents, Pointer
        <2>4. TypeOK'
            BY <1>2, <2>1, <2>2, <2>3, NodeFacts DEF IInv, TypeOK, Pointer
        <2>5. ref_cnt' = ref_cnt
            <3>1. ref_cnt[m] = 0
                BY <2>1 DEF IInv, Exact
            <3> QED
                BY <2>1, <2>2, <3>1 DEF IInv, TypeOK
        <2>6. ASSUME NEW n \in Node
              PROVE  RefsTo(n, used', field', <<>>) = RefsTo(n, used, field, <<>>)
            <3>1. ASSUME NEW x, NEW y
                  PROVE  (x \in used' /\ y \in DOMAIN field'[x] /\ field'[x][y] = n)
                            <=> (x \in used /\ y \in DOMAIN field[x] /\ field[x][y] = n)
                <4> field \in [Node -> Contents] /\ used \in SUBSET Node
                    BY DEF IInv, TypeOK
                <4>1. CASE x = m
                    <5>1. field'[m] = NullFields(k) /\ x \notin used
                        BY <2>1, <2>2, <4>1
                    <5>2. \A z \in DOMAIN field'[m] : field'[m][z] # n
                        BY <2>3, <5>1, NodeFacts
                    <5> QED
                        BY <4>1, <5>1, <5>2
                <4>2. CASE x # m
                    <5>1. x \in used' <=> x \in used
                        BY <2>2, <4>2
                    <5>2. x \in used => field'[x] = field[x]
                        BY <2>2, <4>2
                    <5> QED
                        BY <5>1, <5>2
                <4> QED
                    BY <4>1, <4>2
            <3>2. \A x, y : <<x, y>> \in RefsTo(n, used', field', <<>>) <=>
                    x \in used' /\ y \in DOMAIN field'[x] /\ field'[x][y] = n /\ Undropped(x, y, <<>>)
                BY RefsMember, Zenon
            <3>3. \A x, y : <<x, y>> \in RefsTo(n, used, field, <<>>) <=>
                    x \in used /\ y \in DOMAIN field[x] /\ field[x][y] = n /\ Undropped(x, y, <<>>)
                BY RefsMember, Zenon
            <3>4. \A x, y : <<x, y>> \in RefsTo(n, used', field', <<>>)
                                <=> <<x, y>> \in RefsTo(n, used, field, <<>>)
                <4>1. \A x, y : Undropped(x, y, <<>>)
                    BY DEF Undropped
                <4>2. ASSUME NEW x, NEW y
                      PROVE  <<x, y>> \in RefsTo(n, used', field', <<>>)
                                <=> <<x, y>> \in RefsTo(n, used, field, <<>>)
                    <5>1. <<x, y>> \in RefsTo(n, used', field', <<>>)
                            <=> x \in used' /\ y \in DOMAIN field'[x] /\ field'[x][y] = n
                        BY <3>2, <4>1
                    <5>2. <<x, y>> \in RefsTo(n, used, field, <<>>)
                            <=> x \in used /\ y \in DOMAIN field[x] /\ field[x][y] = n
                        BY <3>3, <4>1
                    <5> QED
                        BY <3>1, <5>1, <5>2
                <4> QED
                    BY <4>2
            <3> QED
                BY <3>4, RefsEqual
        <2>7. Exact(Nil, used', field', <<>>, ref_cnt', rooted)
            <3>1. Exact(Nil, used, field, <<>>, ref_cnt, rooted)
                BY <1>2, <1>3 DEF IInv
            <3>2. \A n \in Node : ref_cnt'[n] = rooted[n]
                    + Cardinality(RefsTo(n, used', field', <<>>)) + (IF n = Nil THEN 1 ELSE 0)
                BY <2>5, <2>6, <3>1 DEF Exact
            <3>3. DOMAIN <<>> = {}
                BY EmptySeq
            <3> QED
                BY <2>2, <2>4, <2>5, <3>1, <3>2, <3>3 DEF Exact, TypeOK
        <2>8. Pending'
            BY <1>2 DEF Pending
        <2> QED
            BY <1>2, <1>3, <2>4, <2>7, <2>8 DEF IInv
    <1> QED
        BY <1>5, <1>6

\* The innermost call of dec_ref_cnt, and the ones that wait for it.
LEMMA CallersOf ==
    ASSUME IInv, stack # <<>>
    PROVE  /\ Len(stack) \in Nat \ {0} /\ DOMAIN stack = 1..Len(stack)
           /\ Top = stack[Len(stack)] /\ Top \in Frame
           /\ Callers \in Seq(Frame) /\ DOMAIN Callers = 1..(Len(stack) - 1)
           /\ \A j \in 1..(Len(stack) - 1) : Callers[j] = stack[j]
           /\ \A j \in 1..(Len(stack) - 1) : stack[j].obj # Top.obj
           /\ Top.obj \in used /\ Top.obj \in Node /\ ref_cnt[Top.obj] = 0
           /\ Stored[Top.obj] = field[Top.obj]
           /\ store # NoStore => store.obj # Top.obj
    <1>1. stack \in Seq(Frame) /\ used \in SUBSET Node
        BY DEF IInv, TypeOK
    <1>2. Len(stack) \in Nat \ {0} /\ DOMAIN stack = 1..Len(stack)
        BY <1>1, LenProperties, EmptySeq
    <1>3. Top = stack[Len(stack)] /\ Len(stack) \in DOMAIN stack
        BY <1>2 DEF Top
    <1>4. Top \in Frame
        BY <1>1, <1>2, <1>3, ElementOfSeq
    <1>5. /\ Callers \in Seq(Frame) /\ DOMAIN Callers = 1..(Len(stack) - 1)
          /\ \A j \in 1..(Len(stack) - 1) : Callers[j] = stack[j]
        BY <1>1, <1>2, FrontProperties, LenProperties DEF Callers
    <1>6. /\ \A j \in DOMAIN stack : stack[j].obj \in used /\ ref_cnt[stack[j].obj] = 0
          /\ \A i, j \in DOMAIN stack : stack[i].obj = stack[j].obj => i = j
        BY DEF IInv, Exact
    <1>7. \A j \in 1..(Len(stack) - 1) : j \in DOMAIN stack /\ j # Len(stack)
        <2>1. \A d \in Nat : \A j \in 1..(d - 1) : j \in 1..d /\ j # d
            OBVIOUS
        <2> QED
            BY <1>2, <2>1
    <1>8. \A j \in 1..(Len(stack) - 1) : stack[j].obj # Top.obj
        BY <1>3, <1>6, <1>7
    <1>9. Top.obj \in used /\ Top.obj \in Node /\ ref_cnt[Top.obj] = 0
        BY <1>1, <1>3, <1>6
    <1>10. store # NoStore => store.obj # Top.obj
        BY <1>3 DEF IInv, Pending, Dying
    <1>11. Stored[Top.obj] = field[Top.obj]
        BY <1>10 DEF Stored, IInv, TypeOK
    <1> QED
        BY <1>2, <1>3, <1>4, <1>5, <1>8, <1>9, <1>10, <1>11

\* What keeps the target of the pending store keeps it over a step that changes
\* neither the roots nor what the store is about.
LEMMA PendingStep ==
    ASSUME IInv, TypeOK', pc' = "dec", UNCHANGED <<rooted, store>>,
           Exact(Nil, used', Stored', stack', ref_cnt', rooted'),
           store # NoStore => /\ store.obj \in used'
                              /\ store.i \in DOMAIN field'[store.obj]
                              /\ Undropped(store.obj, store.i, stack')
                              /\ store.obj \in Reachable(Node, Stored',
                                                   (Roots \cup Fresh') \cup {store.value})
    PROVE  Pending'
    <1>1. Roots' = Roots
        BY DEF Roots
    <1>2. CASE store = NoStore
        BY <1>2 DEF Pending
    <1>3. CASE store # NoStore
        <2>1. store \in [obj : Node, i : Nat \ {0}, value : Pointer] /\ store' = store
            BY <1>3 DEF IInv, TypeOK, Store
        <2>2. /\ DOMAIN Stored'[store.obj] = DOMAIN field'[store.obj]
              /\ Stored'[store.obj][store.i] = store.value
            BY <1>3, <2>1 DEF Stored, TypeOK
        <2>3. Roots \cup Fresh' \in SUBSET (used' \ Dying(stack'))
            <3>1. Roots' \subseteq used' \ Dying(stack')
                BY KeptIsClosed DEF Roots
            <3> QED
                BY <1>1, <3>1 DEF Fresh, Dying
        <2>4. store.obj \in Reachable(Node, Stored',
                    (Roots \cup Fresh') \cup {Stored'[store.obj][store.i]})
            BY <1>3, <2>2
        <2>5. store.obj \in used' /\ store.i \in DOMAIN Stored'[store.obj]
            BY <1>3, <2>2
        <2>6. store.obj \in used' \ Dying(stack')
            BY <1>3, <2>3, <2>4, <2>5, TargetIsKept
        <2> QED
            BY <1>1, <1>3, <2>1, <2>6 DEF Pending
    <1> QED
        BY <1>2, <1>3

\* Going on to the next field drops the reference in the one before.
LEMMA DroppedField ==
    ASSUME IInv, stack # <<>>, Top.i \in DOMAIN field[Top.obj]
    PROVE  LET fs == Append(Callers, [obj |-> Top.obj, i |-> Top.i + 1]) IN
           /\ Exact(field[Top.obj][Top.i], used, Stored, fs, ref_cnt, rooted)
           /\ Dying(fs) = Dying(stack)
    <1> DEFINE fs == Append(Callers, [obj |-> Top.obj, i |-> Top.i + 1])
               t == Top.obj
               k == Top.i
               p == field[t][k]
               d == Len(stack)
               f == [obj |-> t, i |-> k + 1]
               A(n) == RefsTo(n, used, Stored, stack)
               B(n) == RefsTo(n, used, Stored, fs)
    <1>1. /\ d \in Nat \ {0} /\ DOMAIN stack = 1..d
          /\ Top = stack[d] /\ Top \in Frame
          /\ Callers \in Seq(Frame) /\ DOMAIN Callers = 1..(d - 1)
          /\ \A j \in 1..(d - 1) : Callers[j] = stack[j]
          /\ \A j \in 1..(d - 1) : stack[j].obj # t
          /\ t \in used /\ t \in Node /\ Stored[t] = field[t]
        BY CallersOf
    <1>2. t \in Node /\ k \in Nat \ {0} /\ f \in Frame /\ f.obj = t /\ f.i = k + 1
        BY <1>1 DEF Frame
    <1> HIDE DEF f, d, fs
    <1>3. /\ fs \in Seq(Frame) /\ DOMAIN fs = 1..d
          /\ \A j \in 1..(d - 1) : fs[j] = stack[j]
          /\ fs[d] = f
        <2>1. Len(Callers) = d - 1
            BY <1>1, LenProperties
        <2> QED
            BY <1>1, <1>2, <2>1, AppendProperties, LenProperties DEF f, fs
    <1>4. \A j \in 1..d : j \in 1..(d - 1) \/ j = d
        BY <1>1
    <1>5. stack[d].obj = t /\ stack[d].i = k
        BY <1>1
    <1> HIDE DEF t, k
    <1>6. \A j \in 1..d : fs[j].obj = stack[j].obj
        BY <1>2, <1>3, <1>4, <1>5
    <1>7. Dying(fs) = Dying(stack)
        BY <1>1, <1>3, <1>6 DEF Dying
    <1>8. ASSUME NEW o \in used, NEW i \in Nat
          PROVE  Undropped(o, i, stack) <=> Undropped(o, i, fs) \/ (o = t /\ i = k)
        <2>1. CASE o = t
            <3>1. Undropped(o, i, stack) <=> k <= i
                BY <1>1, <1>4, <1>5, <2>1 DEF Undropped
            <3>2. Undropped(o, i, fs) <=> k + 1 <= i
                BY <1>1, <1>2, <1>3, <1>4, <2>1 DEF Undropped
            <3> QED
                BY <1>2, <2>1, <3>1, <3>2
        <2>2. CASE o # t
            <3>1. ASSUME NEW j \in 1..d, stack[j].obj = o \/ fs[j].obj = o
                  PROVE  fs[j] = stack[j]
                BY <1>3, <1>4, <1>5, <1>6, <2>2, <3>1
            <3> QED
                BY <1>1, <1>3, <1>6, <2>2, <3>1 DEF Undropped
        <2> QED
            BY <2>1, <2>2
    <1>9. ~Undropped(t, k, fs)
        BY <1>1, <1>2, <1>3 DEF Undropped
    <1>10. Exact(Nil, used, Stored, stack, ref_cnt, rooted)
        BY DEF IInv
    <1>11. \A o \in used : \A i \in DOMAIN Stored[o] : i \in Nat
        <2>1. ASSUME NEW o \in used
              PROVE  \A i \in DOMAIN Stored[o] : i \in Nat
            <3>1. Stored[o] \in Contents
                BY <1>10 DEF Exact
            <3> QED
                BY <3>1, ClassAssumption, DomainType DEF Contents
        <2> QED
            BY <2>1
    <1>12. k \in DOMAIN Stored[t] /\ Stored[t][k] = p
        BY <1>1 DEF t, k, p
    <1> HIDE DEF p
    <1>13. ASSUME NEW n \in Node
           PROVE  /\ Cardinality(A(n)) = Cardinality(B(n)) + (IF n = p THEN 1 ELSE 0)
                  /\ Cardinality(A(n)) \in Nat /\ Cardinality(B(n)) \in Nat
        <2>1. \A x, y : <<x, y>> \in A(n) <=>
                x \in used /\ y \in DOMAIN Stored[x] /\ Stored[x][y] = n /\ Undropped(x, y, stack)
            BY RefsMember, Zenon
        <2>2. \A x, y : <<x, y>> \in B(n) <=>
                x \in used /\ y \in DOMAIN Stored[x] /\ Stored[x][y] = n /\ Undropped(x, y, fs)
            BY RefsMember, Zenon
        <2>3. \A r \in A(n) : r = <<r[1], r[2]>>
            BY RefsMember
        <2>4. \A r \in B(n) : r = <<r[1], r[2]>>
            BY RefsMember
        <2>5. /\ IsFiniteSet(A(n)) /\ IsFiniteSet(B(n))
              /\ Cardinality(A(n)) \in Nat /\ Cardinality(B(n)) \in Nat
            BY <1>10, RefsFinite DEF Exact
        <2> HIDE DEF A, B
        <2> DEFINE e == <<t, k>>
        <2>6. (e \in A(n) <=> n = p) /\ e \notin B(n)
            <3>1. Undropped(t, k, stack) /\ t \in used
                BY <1>1, <1>2, <1>8 DEF t
            <3> QED
                BY <1>9, <1>12, <2>1, <2>2, <3>1
        <2>7. ASSUME NEW x, NEW y, <<x, y>> # e
              PROVE  <<x, y>> \in A(n) <=> <<x, y>> \in B(n)
            <3>1. ~(x = t /\ y = k)
                BY <2>7
            <3>2. x \in used /\ y \in DOMAIN Stored[x] => (Undropped(x, y, stack) <=> Undropped(x, y, fs))
                BY <1>8, <1>11, <3>1
            <3> QED
                BY <2>1, <2>2, <3>2
        <2>8. A(n) \ {e} = B(n) \ {e}
            BY <2>3, <2>4, <2>7
        <2> HIDE DEF e
        <2>9. Cardinality(A(n)) + (IF e \in B(n) THEN 1 ELSE 0)
                = Cardinality(B(n)) + (IF e \in A(n) THEN 1 ELSE 0)
            BY <2>5, <2>8, OneReference
        <2> QED
            BY <2>5, <2>6, <2>9
    <1>14. \A n \in Node : ref_cnt[n] = rooted[n] + Cardinality(A(n))
        BY ExactCounts
    <1> HIDE DEF A, B
    <1>15. ASSUME NEW n \in Node
           PROVE  ref_cnt[n] = rooted[n] + Cardinality(B(n)) + (IF n = p THEN 1 ELSE 0)
        <2> DEFINE a == Cardinality(A(n))
                   b == Cardinality(B(n))
                   y == IF n = p THEN 1 ELSE 0
        <2>1. a \in Nat /\ b \in Nat /\ a = b + y
            BY <1>13
        <2>2. ref_cnt[n] = rooted[n] + a
            BY <1>14
        <2>3. rooted[n] \in Nat
            BY <1>10, MaxRootedAssumption DEF Exact
        <2>4. y \in Nat
            OBVIOUS
        <2> HIDE DEF a, b, y
        <2>5. ref_cnt[n] = rooted[n] + b + y
            BY <2>1, <2>2, <2>3, <2>4
        <2> QED
            BY <2>5 DEF b, y
    <1>16. /\ \A j \in DOMAIN fs : fs[j].obj \in used /\ ref_cnt[fs[j].obj] = 0
           /\ \A i, j \in DOMAIN fs : fs[i].obj = fs[j].obj => i = j
        BY <1>1, <1>3, <1>6, <1>10 DEF Exact
    <1>17. Exact(p, used, Stored, fs, ref_cnt, rooted)
        BY <1>3, <1>10, <1>15, <1>16 DEF Exact, B
    <1> QED
        BY <1>7, <1>17 DEF p, t, k, fs

LEMMA DecFieldStep ==
    ASSUME IInv, DecField
    PROVE  IInv'
    <1> DEFINE fs == Append(Callers, [obj |-> Top.obj, i |-> Top.i + 1])
               p == field[Top.obj][Top.i]
    <1>1. /\ stack # <<>> /\ Top.i \in DOMAIN field[Top.obj] /\ pc = "dec"
          /\ dec_ref_cnt(p, ref_cnt, fs)
          /\ UNCHANGED <<used, field, next_free, rooted, pc, store>>
        BY DEF DecField
    <1>2. Top.obj \in used /\ Top.obj \in Node /\ Stored[Top.obj] = field[Top.obj] /\ Top \in Frame
        BY <1>1, CallersOf
    <1>3. p \in Pointer
        BY <1>1, <1>2, FieldType DEF IInv, TypeOK, Contents
    <1>4. Exact(p, used, Stored, fs, ref_cnt, rooted) /\ Dying(fs) = Dying(stack)
        BY <1>1, DroppedField
    <1>5. p \in Node => ref_cnt[p] > 0
        <2>1. ASSUME p \in Node
              PROVE  Cardinality(RefsTo(p, used, Stored, fs)) \in Nat
            BY <1>4, RefsFinite DEF Exact
        <2>2. ASSUME p \in Node
              PROVE  ref_cnt[p] = rooted[p] + Cardinality(RefsTo(p, used, Stored, fs)) + 1
            BY <1>4, <2>2 DEF Exact
        <2>3. ASSUME p \in Node
              PROVE  rooted[p] \in Nat
            BY <2>3, MaxRootedAssumption DEF IInv, TypeOK
        <2> QED
            BY <2>1, <2>2, <2>3
    <1> HIDE DEF fs, p
    <1>6. /\ Exact(Nil, used, Stored, stack', ref_cnt', rooted)
          /\ \/ stack' = fs
             \/ p \in Node /\ ref_cnt'[p] = 0 /\ stack' = Append(fs, [obj |-> p, i |-> 1])
          /\ ref_cnt' = IF p = Nil THEN ref_cnt ELSE [ref_cnt EXCEPT ![p] = @ - 1]
        BY <1>1, <1>3, <1>4, DecStep
    <1>7. Stored' = Stored
        BY <1>1 DEF Stored
    <1>8. TypeOK'
        BY <1>1, <1>6 DEF IInv, TypeOK, Exact
    <1>9. \A j \in DOMAIN stack' : \/ stack'[j].obj \in Dying(stack)
                                   \/ stack'[j] = [obj |-> p, i |-> 1] /\ p \in Node
        <2>1. \A j \in DOMAIN fs : fs[j].obj \in Dying(stack)
            BY <1>4 DEF Dying
        <2>2. CASE stack' = fs
            BY <2>1, <2>2
        <2>3. CASE p \in Node /\ stack' = Append(fs, [obj |-> p, i |-> 1])
            <3>1. fs \in Seq(Frame) /\ [obj |-> p, i |-> 1] \in Frame
                BY <1>4, <2>3 DEF Exact, Frame
            <3>2. /\ Len(fs) \in Nat /\ DOMAIN fs = 1..Len(fs)
                  /\ DOMAIN stack' = 1..(Len(fs) + 1)
                  /\ \A j \in 1..Len(fs) : stack'[j] = fs[j]
                  /\ stack'[Len(fs) + 1] = [obj |-> p, i |-> 1]
                BY <2>3, <3>1, AppendProperties, LenProperties
            <3>3. \A j \in DOMAIN stack' : j \in DOMAIN fs \/ j = Len(fs) + 1
                BY <3>2
            <3> QED
                BY <2>1, <2>3, <3>2, <3>3
        <2> QED
            BY <1>6, <2>2, <2>3
    <1>10. Fresh \subseteq Fresh'
        <2>1. ASSUME NEW n \in Fresh
              PROVE  n \in Fresh'
            <3>1. n \in used /\ n \in Node /\ ref_cnt[n] = 0 /\ n \notin Dying(stack)
                BY DEF Fresh, Dying, IInv, TypeOK
            <3>2. n # p
                BY <1>5, <3>1
            <3>3. ref_cnt'[n] = 0
                BY <1>6, <3>1, <3>2
            <3> QED
                BY <1>1, <1>9, <3>1, <3>2, <3>3 DEF Fresh
        <2> QED
            BY <2>1
    <1>11. ASSUME store # NoStore
           PROVE  /\ store.obj \in used'
                  /\ store.i \in DOMAIN field'[store.obj]
                  /\ Undropped(store.obj, store.i, stack')
                  /\ store.obj \in Reachable(Node, Stored', (Roots \cup Fresh') \cup {store.value})
        <2>1. store.i \in Nat \ {0}
            BY <1>11 DEF IInv, TypeOK, Store
        <2>2. /\ store.obj \in used \ Dying(stack)
              /\ store.i \in DOMAIN field[store.obj]
              /\ store.obj \in Reachable(Node, Stored, Roots \cup Fresh \cup {store.value})
            BY <1>11 DEF IInv, Pending
        <2>3. Undropped(store.obj, store.i, stack')
            BY <1>9, <2>1, <2>2 DEF Undropped
        <2>4. store.obj \in Reachable(Node, Stored', (Roots \cup Fresh') \cup {store.value})
            BY <1>7, <1>10, <2>2 DEF Reachable
        <2> QED
            BY <1>1, <2>2, <2>3, <2>4
    <1>12. Pending'
        BY <1>1, <1>6, <1>7, <1>8, <1>11, PendingStep
    <1> QED
        BY <1>1, <1>6, <1>7, <1>8, <1>12 DEF IInv

\* Clearing an object all of whose references have been dropped.
LEMMA ReclaimCounts ==
    ASSUME IInv, reclaim
    PROVE  /\ Exact(Nil, used', Stored', stack', ref_cnt', rooted')
           /\ Stored' = [Stored EXCEPT ![Top.obj] = NullFields(0)]
           /\ NullFields(0) \in Contents
    <1> DEFINE t == Top.obj
               d == Len(stack)
    <1>1. /\ stack # <<>> /\ Top.i \notin DOMAIN field[t] /\ pc = "dec"
          /\ used' = used \ {t}
          /\ field' = [field EXCEPT ![t] = NullFields(0)]
          /\ ref_cnt' = [ref_cnt EXCEPT ![t] = 0]
          /\ stack' = Callers
          /\ UNCHANGED <<rooted, pc, store>>
        BY DEF reclaim
    <1>2. /\ d \in Nat \ {0} /\ DOMAIN stack = 1..d
          /\ Top = stack[d] /\ Top \in Frame
          /\ Callers \in Seq(Frame) /\ DOMAIN Callers = 1..(d - 1)
          /\ \A j \in 1..(d - 1) : Callers[j] = stack[j]
          /\ \A j \in 1..(d - 1) : stack[j].obj # t
          /\ t \in used /\ t \in Node /\ ref_cnt[t] = 0
          /\ Stored[t] = field[t]
          /\ store # NoStore => store.obj # t
        BY <1>1, CallersOf
    <1>3. Top.i \in Nat \ {0}
        BY <1>2 DEF Frame
    <1>4. Exact(Nil, used, Stored, stack, ref_cnt, rooted)
        BY DEF IInv
    <1>5. NullFields(0) \in Contents
        BY NullFieldsType DEF Contents, Pointer
    <1> HIDE DEF t, d
    <1>6. Stored' = [Stored EXCEPT ![t] = NullFields(0)]
        <2>1. CASE store = NoStore
            BY <1>1, <2>1 DEF Stored
        <2>2. CASE store # NoStore
            <3>1. store.obj \in Node /\ store.obj # t
                BY <1>2, <2>2 DEF IInv, TypeOK, Store
            <3>2. /\ Stored = [field EXCEPT ![store.obj] = [field[store.obj] EXCEPT ![store.i] = store.value]]
                  /\ Stored' = [field' EXCEPT ![store.obj] = [field'[store.obj] EXCEPT ![store.i] = store.value]]
                BY <1>1, <2>2 DEF Stored
            <3>3. field'[store.obj] = field[store.obj]
                BY <1>1, <3>1 DEF IInv, TypeOK
            <3> QED
                BY <1>1, <1>2, <3>1, <3>2, <3>3 DEF IInv, TypeOK
        <2> QED
            BY <2>1, <2>2
    <1>7. ref_cnt' = ref_cnt
        BY <1>1, <1>2 DEF IInv, TypeOK
    <1>8. \A j \in 1..d : j \in 1..(d - 1) \/ j = d
        BY <1>2
    <1>9. /\ stack' \in Seq(Frame) /\ DOMAIN stack' = 1..(d - 1)
          /\ \A j \in 1..(d - 1) : stack'[j] = stack[j] /\ stack[j].obj # t /\ j \in 1..d
        BY <1>1, <1>2
    <1>10. ASSUME NEW n \in Node
           PROVE  RefsTo(n, used', Stored', stack') = RefsTo(n, used, Stored, stack)
        <2>1. \A x, y : <<x, y>> \in RefsTo(n, used, Stored, stack) <=>
                x \in used /\ y \in DOMAIN Stored[x] /\ Stored[x][y] = n /\ Undropped(x, y, stack)
            BY RefsMember, Zenon
        <2>2. \A x, y : <<x, y>> \in RefsTo(n, used', Stored', stack') <=>
                x \in used' /\ y \in DOMAIN Stored'[x] /\ Stored'[x][y] = n /\ Undropped(x, y, stack')
            BY RefsMember, Zenon
        <2>3. ASSUME NEW y \in DOMAIN Stored[t]
              PROVE  ~Undropped(t, y, stack)
            <3>1. PICK k \in Nat : DOMAIN field[t] = 1..k
                <4>1. field[t] \in Contents /\ Class \cup {0} \subseteq Nat
                    BY <1>2, ClassAssumption DEF IInv, TypeOK
                <4> QED
                    BY <4>1, DomainType DEF Contents
            <3>2. y \in 1..k /\ Top.i \notin 1..k
                BY <1>1, <1>2, <3>1
            <3>3. ~(Top.i <= y)
                BY <1>3, <3>2
            <3>4. d \in DOMAIN stack /\ stack[d].obj = t /\ stack[d].i = Top.i
                BY <1>2 DEF t
            <3> QED
                BY <3>3, <3>4 DEF Undropped
        <2>4. ASSUME NEW x, x # t, NEW y
              PROVE  Undropped(x, y, stack) <=> Undropped(x, y, stack')
            <3>1. stack[d].obj = t
                BY <1>2 DEF t
            <3>2. DOMAIN stack = 1..d
                BY <1>2
            <3>3. ASSUME NEW j \in DOMAIN stack, stack[j].obj = x
                  PROVE  j \in DOMAIN stack' /\ stack'[j] = stack[j]
                BY <1>8, <1>9, <2>4, <3>1, <3>2, <3>3
            <3>4. ASSUME NEW j \in DOMAIN stack'
                  PROVE  j \in DOMAIN stack /\ stack'[j] = stack[j]
                BY <1>9, <3>2
            <3> QED
                BY <3>3, <3>4 DEF Undropped
        <2>5. ASSUME NEW x, NEW y
              PROVE  <<x, y>> \in RefsTo(n, used', Stored', stack')
                        <=> <<x, y>> \in RefsTo(n, used, Stored, stack)
            <3>1. CASE x = t
                BY <1>1, <2>1, <2>2, <2>3, <3>1
            <3>2. CASE x # t
                <4>1. x \in used <=> x \in used'
                    BY <1>1, <3>2
                <4>2. x \in used => Stored'[x] = Stored[x]
                    BY <1>4, <1>6, <3>2 DEF Exact
                <4> QED
                    BY <2>1, <2>2, <2>4, <3>2, <4>1, <4>2
            <3> QED
                BY <3>1, <3>2
        <2> QED
            BY <2>5, RefsEqual
    <1>11. Stored' \in [Node -> Contents]
        BY <1>4, <1>5, <1>6 DEF Exact
    <1>12. \A n \in Node : ref_cnt'[n] = rooted'[n]
                + Cardinality(RefsTo(n, used', Stored', stack')) + (IF n = Nil THEN 1 ELSE 0)
        <2> SUFFICES ASSUME NEW n \in Node
                     PROVE  ref_cnt'[n] = rooted'[n] + Cardinality(RefsTo(n, used', Stored', stack'))
                                            + (IF n = Nil THEN 1 ELSE 0)
            OBVIOUS
        <2>1. ref_cnt[n] = rooted[n] + Cardinality(RefsTo(n, used, Stored, stack))
                                + (IF n = Nil THEN 1 ELSE 0)
            BY <1>4 DEF Exact
        <2>2. ref_cnt' = ref_cnt /\ rooted' = rooted
            BY <1>1, <1>7
        <2> QED
            BY <1>10, <2>1, <2>2
    <1>13. \A n \in Node \ used' : ref_cnt'[n] = 0
        <2>1. ref_cnt' = ref_cnt /\ (\A n \in Node : n \notin used' => n = t \/ n \notin used)
            BY <1>1, <1>7
        <2>2. ref_cnt[t] = 0 /\ (\A n \in Node \ used : ref_cnt[n] = 0)
            BY <1>2, <1>4 DEF Exact
        <2> QED
            BY <2>1, <2>2
    <1>14. \A j \in DOMAIN stack' : stack'[j].obj \in used' /\ ref_cnt'[stack'[j].obj] = 0
        BY <1>1, <1>2, <1>4, <1>7, <1>9 DEF Exact
    <1>15. \A i, j \in DOMAIN stack' : stack'[i].obj = stack'[j].obj => i = j
        <2>1. \A i, j \in DOMAIN stack : stack[i].obj = stack[j].obj => i = j
            BY <1>4 DEF Exact
        <2>2. \A j \in DOMAIN stack' : j \in DOMAIN stack /\ stack'[j] = stack[j]
            BY <1>2, <1>9
        <2> QED
            BY <2>1, <2>2
    <1>16. Exact(Nil, used', Stored', stack', ref_cnt', rooted')
        BY <1>1, <1>4, <1>7, <1>9, <1>11, <1>12, <1>13, <1>14, <1>15 DEF Exact
    <1> QED
        BY <1>5, <1>6, <1>16 DEF t

LEMMA ReclaimStep ==
    ASSUME IInv, reclaim
    PROVE  IInv'
    <1> DEFINE t == Top.obj
    <1>1. /\ stack # <<>> /\ pc = "dec"
          /\ used' = used \ {t}
          /\ field' = [field EXCEPT ![t] = NullFields(0)]
          /\ next_free' = t
          /\ ref_cnt' = [ref_cnt EXCEPT ![t] = 0]
          /\ stack' = Callers
          /\ UNCHANGED <<rooted, pc, store>>
        BY DEF reclaim
    <1>2. /\ t \in used /\ t \in Node
          /\ store # NoStore => store.obj # t
          /\ t \in Dying(stack)
        <2>1. t \in used /\ t \in Node /\ (store # NoStore => store.obj # t)
            BY <1>1, CallersOf
        <2>2. Len(stack) \in DOMAIN stack /\ Top = stack[Len(stack)]
            BY <1>1, CallersOf
        <2> QED
            BY <2>1, <2>2 DEF Dying
    <1>3. /\ Exact(Nil, used', Stored', stack', ref_cnt', rooted')
          /\ Stored' = [Stored EXCEPT ![t] = NullFields(0)]
          /\ NullFields(0) \in Contents
        BY ReclaimCounts
    <1>4. TypeOK'
        BY <1>1, <1>2, <1>3 DEF IInv, TypeOK, Exact, Pointer
    <1>5. Dying(stack') \subseteq Dying(stack)
        <2>1. \A d \in Nat : 1..(d - 1) \subseteq 1..d
            OBVIOUS
        <2>2. DOMAIN stack' \subseteq DOMAIN stack /\ \A j \in DOMAIN stack' : stack'[j] = stack[j]
            BY <1>1, <2>1, CallersOf
        <2> QED
            BY <2>2 DEF Dying
    <1>6. Fresh \subseteq Fresh'
        <2>1. ASSUME NEW n \in Fresh
              PROVE  n \in Fresh'
            <3>1. n \in used /\ n \in Node /\ ref_cnt[n] = 0 /\ n \notin Dying(stack)
                BY DEF Fresh, Dying, IInv, TypeOK
            <3>2. n # t /\ n \notin Dying(stack')
                BY <1>2, <1>5, <3>1
            <3> QED
                BY <1>1, <3>1, <3>2 DEF Fresh, Dying, IInv, TypeOK
        <2> QED
            BY <2>1
    <1> HIDE DEF t
    <1>7. ASSUME store # NoStore
          PROVE  /\ store.obj \in used'
                 /\ store.i \in DOMAIN field'[store.obj]
                 /\ Undropped(store.obj, store.i, stack')
                 /\ store.obj \in Reachable(Node, Stored', (Roots \cup Fresh') \cup {store.value})
        <2>1. /\ store.obj \in used \ Dying(stack)
              /\ store.i \in DOMAIN field[store.obj]
              /\ store.obj \in Reachable(Node, Stored, Roots \cup Fresh \cup {store.value})
            BY <1>7 DEF IInv, Pending
        <2>2. store.obj \in used' /\ store.i \in DOMAIN field'[store.obj]
            BY <1>1, <1>2, <1>7, <2>1 DEF IInv, TypeOK
        <2>3. Undropped(store.obj, store.i, stack')
            BY <1>5, <2>1 DEF Undropped, Dying
        <2> DEFINE K == used \ Dying(stack)
        <2>4. /\ K \in SUBSET Node /\ t \notin K /\ Closed(Stored, K)
              /\ Roots \cup Fresh \subseteq K
            BY <1>2, Kept DEF IInv, TypeOK
        <2>5. store.value \in K \cup {Nil}
            <3>1. Stored[store.obj][store.i] = store.value
                BY <1>7, <2>1 DEF Stored, IInv, TypeOK
            <3>2. store.i \in DOMAIN Stored[store.obj]
                BY <2>1, StoredType DEF IInv, TypeOK
            <3> QED
                BY <2>1, <2>4, <3>1, <3>2 DEF Closed
        <2> HIDE DEF K
        <2>6. ASSUME NEW T \in SUBSET Node,
                     (Roots \cup Fresh') \cup {store.value} \subseteq T \cup {Nil},
                     Closed(Stored', T)
              PROVE  store.obj \in T
            <3>1. \A n \in T \cap K : Stored'[n] = Stored[n]
                <4>1. Stored \in [Node -> Contents]
                    BY DEF IInv, Exact
                <4> QED
                    BY <1>3, <2>4, <4>1
            <3>2. Closed(Stored, T \cap K)
                BY <2>4, <2>6, <3>1 DEF Closed
            <3>3. Roots \cup Fresh \cup {store.value} \subseteq (T \cap K) \cup {Nil}
                BY <1>6, <2>4, <2>5, <2>6
            <3>4. T \cap K \in SUBSET Node
                BY <2>4
            <3> QED
                BY <2>1, <3>2, <3>3, <3>4, ReachableIsLeast
        <2>7. store.obj \in Node
            BY <2>1 DEF IInv, TypeOK
        <2> QED
            BY <2>2, <2>3, <2>6, <2>7 DEF Reachable
    <1>8. Pending'
        BY <1>1, <1>3, <1>4, <1>7, PendingStep
    <1> QED
        BY <1>3, <1>4, <1>8 DEF IInv

LEMMA DoneStep ==
    ASSUME IInv, OperationDone
    PROVE  IInv'
    <1>1. /\ stack = <<>> /\ field' = Stored /\ store' = NoStore /\ pc' = "run"
          /\ UNCHANGED <<used, ref_cnt, next_free, rooted, stack>>
        BY DEF OperationDone
    <1>2. Stored' = Stored
        BY <1>1 DEF Stored
    <1>3. TypeOK'
        BY <1>1 DEF IInv, TypeOK, Exact
    <1>4. Pending'
        BY <1>1 DEF Pending
    <1> QED
        BY <1>1, <1>2, <1>3, <1>4 DEF IInv

LEMMA IInvStep == IInv /\ [Next]_vars => IInv'
    <1> SUFFICES ASSUME IInv, [Next]_vars PROVE IInv'
        OBVIOUS
    <1>1. CASE UNCHANGED vars
        <2>1. UNCHANGED <<Stored, Roots, Fresh>>
            BY <1>1 DEF vars, Stored, Roots, Fresh
        <2> QED
            BY <1>1, <2>1 DEF vars, IInv, TypeOK, Pending
    <1> QED
        BY <1>1, AddRootStep, RemoveRootStep, UpdateStep, AllocStep, DecFieldStep,
           ReclaimStep, DoneStep DEF Next, Client, Operation, Aborted

--------------------------------------------------------------------------------
(* The theorems.                                                           *)

\* The variables keep their types; in particular no count becomes negative.
THEOREM TypeCorrect == Spec => []TypeOK
    BY IInvInit, IInvStep, PTL DEF Spec, IInv

\* At every step of every operation a count is the number of roots and of
\* references not dropped yet (inc_ref_cnt, dec_ref_cnt, gc_update_ptr).
THEOREM CountsCorrect == Spec => []CountsExact
    <1>1. ASSUME IInv
          PROVE  CountsExact
        <2>1. ASSUME NEW n \in used
              PROVE  ref_cnt[n] = rooted[n] + Cardinality(References(n))
            <3>1. n \in Node
                BY <1>1 DEF IInv, TypeOK
            <3>2. References(n) = RefsTo(n, used, Stored, stack)
                BY DEF References, RefsTo, Undropped
            <3> QED
                BY <1>1, <3>1, <3>2, ExactCounts
        <2> QED
            BY <2>1 DEF CountsExact
    <1> QED
        BY <1>1, IInvInit, IInvStep, PTL DEF Spec

\* No object the client can use is reclaimed, not even in the middle of the
\* cascade that its own store sets off.
THEOREM HeldSafe == Spec => []HeldInUse
    <1>1. IInv => HeldInUse
        BY Kept DEF HeldInUse, IInv, Pending
    <1> QED
        BY <1>1, IInvInit, IInvStep, PTL DEF Spec

\* What the counts cannot take back hangs on a cycle.
THEOREM Leaks == Spec => []OnlyCyclesLeak
    <1>1. ASSUME IInv, pc = "run", NEW n \in used \ Held
          PROVE  \E o \in used \ Held : \E i \in DOMAIN field[o] : field[o][i] = n
        <2>1. stack = <<>> /\ store = NoStore /\ Stored = field /\ n \in Node
            BY <1>1 DEF IInv, TypeOK, Pending, Stored
        <2>2. Roots \cup Fresh \subseteq Held
            <3>1. Roots \cup Fresh \subseteq Node \ {Nil}
                BY <1>1, NodeFacts DEF Roots, Fresh, IInv, TypeOK
            <3> QED
                BY <3>1, RootsAreReachable DEF Held
        <2>3. Closed(field, Held)
            BY <1>1, <2>1, Kept, ReachableIsClosed DEF Held
        <2>4. ref_cnt[n] # 0
            <3>1. DOMAIN stack = {}
                BY <2>1, EmptySeq
            <3> QED
                BY <1>1, <2>2, <3>1 DEF Fresh
        <2>5. ~(rooted[n] > 0)
            BY <1>1, <2>1, <2>2 DEF Roots
        <2>6. Cardinality(RefsTo(n, used, Stored, stack)) # 0
            BY <1>1, <2>1, <2>4, <2>5, ExactCounts
        <2>7. PICK r : r \in RefsTo(n, used, Stored, stack)
            BY <2>6, FS_EmptySet
        <2>8. <<r[1], r[2]>> \in RefsTo(n, used, Stored, stack)
            BY <2>7, RefsMember
        <2>9. r[1] \in used /\ r[2] \in DOMAIN field[r[1]] /\ field[r[1]][r[2]] = n
            BY <2>1, <2>8, RefsMember
        <2>10. r[1] \notin Held
            BY <1>1, <2>1, <2>3, <2>9, NodeFacts DEF Closed
        <2> QED
            BY <2>9, <2>10
    <1>2. IInv => OnlyCyclesLeak
        BY <1>1 DEF OnlyCyclesLeak
    <1> QED
        BY <1>2, IInvInit, IInvStep, PTL DEF Spec

--------------------------------------------------------------------------------
(* The refinement: the counts and the cascade are hidden, the store of     *)
(* gc_update_ptr happens when it is called, and reclaiming an object is    *)
(* one Reclaim step.                                                       *)

\* The instance's graph operators are those of the collector.
LEMMA HeapOperators ==
    /\ Heap!Nil = Nil
    /\ Heap!NullFields(0) = NullFields(0)
    /\ \A k \in Class : Heap!NullFields(k) = NullFields(k)
    /\ Heap!Live = Reachable(Node, Stored, Roots)
    /\ Heap!Usable = {o \in used : Reachable(Node, Stored, {o}) \subseteq used}
    <1>1. Heap!Nil = Nil
        BY DEF Heap!Nil, Nil
    <1>2. Heap!NullFields(0) = NullFields(0)
        BY <1>1 DEF Heap!NullFields, NullFields
    <1>3. \A k \in Class : Heap!NullFields(k) = NullFields(k)
        BY <1>1 DEF Heap!NullFields, NullFields
    <1>4. Heap!Live = Reachable(Node, Stored, Roots)
        BY <1>1 DEF Heap!Live, Heap!Reachable, Reachable, Heap!Closed, Closed
    <1>5. Heap!Usable = {o \in used : Reachable(Node, Stored, {o}) \subseteq used}
        BY <1>1 DEF Heap!Usable, Heap!Reachable, Reachable, Heap!Closed, Closed
    <1> QED
        BY <1>1, <1>2, <1>3, <1>4, <1>5

\* What the client can use, the interface lets it use.
LEMMA HeldUsable ==
    ASSUME IInv
    PROVE  Held \subseteq Heap!Usable
    <1>1. ASSUME NEW o \in Held
          PROVE  o \in used /\ Reachable(Node, Stored, {o}) \subseteq used
        <2>1. used \ Dying(stack) \in SUBSET Node
            BY DEF IInv, TypeOK
        <2>2. {o} \subseteq (used \ Dying(stack)) \cup {Nil} /\ Closed(Stored, used \ Dying(stack))
            BY Kept
        <2>3. Reachable(Node, Stored, {o}) \subseteq used \ Dying(stack)
            BY <2>1, <2>2, ReachableIsLeast
        <2> QED
            BY <2>2, <2>3, Kept
    <1> QED
        BY <1>1, HeapOperators

LEMMA HeapInit == Init => Heap!Init
    BY HeapOperators DEF Init, Heap!Init, Roots, Stored

LEMMA HeapStep ==
    ASSUME IInv, [Next]_vars
    PROVE  [Heap!Next]_Heap!vars
    <1>1. CASE gc_add_root
        <2>1. PICK p \in Held : rooted' = [rooted EXCEPT ![p] = @ + 1]
            BY <1>1 DEF gc_add_root
        <2>2. p \in Heap!Usable /\ p \in Node
            BY HeldUsable, Kept DEF IInv, TypeOK
        <2>3. UNCHANGED <<used, Stored>>
            BY <1>1 DEF gc_add_root, Stored
        <2>4. Roots' = Roots \cup {p}
            <3>1. \A n \in Node : rooted[n] \in Nat
                BY MaxRootedAssumption DEF IInv, TypeOK
            <3>2. \A n \in Node : rooted'[n] = IF n = p THEN rooted[n] + 1 ELSE rooted[n]
                BY <2>1 DEF IInv, TypeOK
            <3>3. \A n \in Node : rooted'[n] > 0 <=> rooted[n] > 0 \/ n = p
                BY <3>1, <3>2
            <3> QED
                BY <2>2, <3>3 DEF Roots
        <2> QED
            BY <2>2, <2>3, <2>4 DEF Heap!Next, Heap!AddRoot
    <1>2. CASE gc_remove_root
        <2>1. PICK p \in Roots : rooted' = [rooted EXCEPT ![p] = @ - 1]
            BY <1>2 DEF gc_remove_root
        <2>2. Roots' \in SUBSET Roots
            <3>1. \A n \in Node : rooted[n] \in Nat
                BY MaxRootedAssumption DEF IInv, TypeOK
            <3>2. \A n \in Node : rooted'[n] = IF n = p THEN rooted[n] - 1 ELSE rooted[n]
                BY <2>1 DEF IInv, TypeOK
            <3>3. \A n \in Node : rooted'[n] > 0 => rooted[n] > 0
                BY <3>1, <3>2
            <3> QED
                BY <3>3 DEF Roots
        <2>3. UNCHANGED <<used, Stored>>
            BY <1>2 DEF gc_remove_root, Stored
        <2> QED
            BY <2>2, <2>3 DEF Heap!Next, Heap!DropRoots
    <1>3. CASE gc_update_ptr
        <2>1. PICK o \in Held, v \in Held \cup {Nil} : \E i \in DOMAIN field[o] :
                store' = [obj |-> o, i |-> i, value |-> v]
            BY <1>3 DEF gc_update_ptr
        <2>2. PICK i \in DOMAIN field[o] : store' = [obj |-> o, i |-> i, value |-> v]
            BY <2>1
        <2>3. /\ UNCHANGED <<used, field, rooted>> /\ Stored = field
            BY <1>3 DEF gc_update_ptr, IInv, Pending, Stored
        <2>4. o \in Node /\ o # Nil
            BY Kept, NodeFacts DEF IInv, TypeOK
        <2>5. store' # NoStore /\ store'.obj = o /\ store'.i = i /\ store'.value = v
            BY <2>2, <2>4 DEF NoStore
        <2>6. Stored' = [Stored EXCEPT ![o][i] = v] /\ Roots' = Roots
            BY <2>3, <2>5 DEF Stored, Roots
        <2>7. o \in Heap!Usable /\ v \in Heap!Usable \cup {Heap!Nil} /\ i \in DOMAIN Stored[o]
            BY <2>3, HeldUsable, HeapOperators
        <2> QED
            BY <2>3, <2>6, <2>7 DEF Heap!Next, Heap!Write
    <1>4. CASE gc_alloc
        <2>1. PICK k \in Class :
                IF IdleNode = Nil
                THEN UNCHANGED <<used, field>>
                ELSE /\ used' = used \cup {IdleNode}
                     /\ field' = [field EXCEPT ![IdleNode] = NullFields(k)]
            BY <1>4 DEF gc_alloc
        <2>2. Stored = field /\ Stored' = field' /\ Roots' = Roots
            BY <1>4 DEF gc_alloc, IInv, Pending, Stored, Roots
        <2>3. IdleNode = Nil \/ IdleNode \in Node \ used
            BY FirstIdleSpec DEF IdleNode, head, IInv, TypeOK, Pointer
        <2>4. CASE IdleNode = Nil
            BY <2>1, <2>2, <2>4 DEF Heap!vars
        <2>5. CASE IdleNode # Nil
            BY <2>1, <2>2, <2>3, <2>5, HeapOperators DEF Heap!Next, Heap!Alloc
        <2> QED
            BY <2>4, <2>5
    <1>5. CASE reclaim
        <2> DEFINE t == Top.obj
        <2>1. used' = used \ {t} /\ UNCHANGED rooted /\ stack # <<>>
            BY <1>5 DEF reclaim
        <2>2. t \in used /\ t \in Dying(stack)
            BY <2>1, CallersOf DEF Dying
        <2>3. Stored' = [Stored EXCEPT ![t] = NullFields(0)]
            BY <1>5, ReclaimCounts
        <2>4. Stored' = [n \in Node |-> IF n \in {t} THEN NullFields(0) ELSE Stored[n]]
            BY <2>3 DEF IInv, Exact
        <2>5. t \notin Heap!Live
            <3>1. used \ Dying(stack) \in SUBSET Node
                BY DEF IInv, TypeOK
            <3>2. Reachable(Node, Stored, Roots) \subseteq used \ Dying(stack)
                BY <3>1, Kept, ReachableIsLeast
            <3> QED
                BY <2>2, <3>2, HeapOperators
        <2>6. {t} \in SUBSET (used \ Heap!Live) /\ Roots' = Roots
            BY <2>1, <2>2, <2>5 DEF Roots
        <2> HIDE DEF t
        <2> QED
            BY <2>1, <2>4, <2>6, HeapOperators DEF Heap!Next, Heap!Reclaim
    <1>6. CASE DecField \/ OperationDone \/ UNCHANGED vars
        BY <1>6 DEF DecField, OperationDone, vars, Heap!vars, Stored, Roots
    <1> QED
        BY <1>1, <1>2, <1>3, <1>4, <1>5, <1>6 DEF Next, Client, Operation, Aborted

\* The collector implements the interface, although it takes objects back in the
\* middle of the client's own operations.
THEOREM Refinement == Spec => ImplementsHeap
    BY HeapInit, HeapStep, IInvInit, IInvStep, PTL
    DEF Spec, ImplementsHeap, Heap!Spec
================================================================================
