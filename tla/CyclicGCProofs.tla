----------------------------- MODULE CyclicGCProofs -----------------------------
(***************************************************************************)
(* What holds of CyclicGC for every number of objects and generations, all *)
(* kinds of objects and all thresholds: counts, lists and marks agree in   *)
(* the middle of a collection too, a collection sets aside exactly what    *)
(* cannot be reached from outside its generation, no Python code reaches   *)
(* what is about to be cleared, and what delete_garbage is given is freed. *)
(***************************************************************************)
EXTENDS CyclicGC, Sequences, FiniteSetTheorems, SequenceTheorems,
        WellFoundedInduction, TLAPS

--------------------------------------------------------------------------------
(* The object graph.                                                       *)

\* What is closed and holds the roots holds everything reachable: this is why
\* a collector that keeps such a set takes back only garbage.
LEMMA ReachableIsLeast ==
    ASSUME NEW Nodes, NEW f, NEW R, NEW S \in SUBSET Nodes,
           R \subseteq S \cup {Nil}, Closed(f, S)
    PROVE  Reachable(Nodes, f, R) \subseteq S
    BY DEF Reachable

\* The roots are reachable.
LEMMA RootsAreReachable ==
    ASSUME NEW Nodes, NEW f, NEW R, R \subseteq Nodes \cup {Nil}
    PROVE  R \subseteq Reachable(Nodes, f, R) \cup {Nil}
    BY DEF Reachable

\* Following a reference from a reachable object leads to a reachable object.
LEMMA ReachableIsClosed ==
    ASSUME NEW Nodes, NEW f, NEW R, Closed(f, Nodes)
    PROVE  Closed(f, Reachable(Nodes, f, R))
    <1> SUFFICES ASSUME NEW n \in Reachable(Nodes, f, R),
                        NEW i \in DOMAIN f[n], f[n][i] # Nil
                 PROVE  f[n][i] \in Reachable(Nodes, f, R)
        BY DEF Closed
    <1>1. n \in Nodes
        BY DEF Reachable
    <1>2. f[n][i] \in Nodes
        BY <1>1 DEF Closed
    <1>3. ASSUME NEW S \in SUBSET Nodes, R \subseteq S \cup {Nil},
                 Closed(f, S)
          PROVE  f[n][i] \in S
        <2>1. n \in S
            BY <1>3, ReachableIsLeast
        <2> QED
            BY <1>3, <2>1 DEF Closed
    <1> QED
        BY <1>2, <1>3 DEF Reachable

--------------------------------------------------------------------------------
(* Searches and stacks.                                                    *)

\* A set of natural numbers that is not empty has a least element.
LEMMA LeastElement ==
    ASSUME NEW T \in SUBSET Nat, T # {}
    PROVE  \E m \in T : \A k \in T : m <= k
    <1> DEFINE R == StrictSubsetOrdering(Nat)
               Up == {0..m : m \in T}
    <1>1. Up \subseteq FiniteSubsetsOf(Nat) /\ Up # {}
        <2>1. ASSUME NEW m \in T
              PROVE  0..m \in SUBSET Nat /\ IsFiniteSet(0..m)
            <3>1. 0 \in Int /\ m \in Int
                OBVIOUS
            <3>2. IsFiniteSet(0..m)
                BY <3>1, FS_Interval, Zenon
            <3> QED
                BY <3>2
        <2> QED
            BY <2>1, Zenon DEF FiniteSubsetsOf
    <1>2. IsWellFoundedOn(R, FiniteSubsetsOf(Nat))
        BY FS_StrictSubsetOrderingWellFounded
    <1>3. PICK x \in Up : \A y \in Up : <<y, x>> \notin R
        BY <1>1, <1>2, WFMin
    <1>4. PICK m \in T : x = 0..m
        BY <1>3
    <1>5. ASSUME NEW k \in T, k < m
          PROVE  FALSE
        <2>1. 0..k \in SUBSET Nat /\ 0..m \in SUBSET Nat
            OBVIOUS
        <2>2. 0..k \subseteq 0..m /\ m \in 0..m /\ m \notin 0..k
            BY <1>5
        <2>3. <<0..k, 0..m>> \in R
            BY <2>1, <2>2 DEF StrictSubsetOrdering
        <2> QED
            BY <1>3, <1>4, <2>3
    <1> QED
        BY <1>5

--------------------------------------------------------------------------------
(* The inductive invariant.                                                *)

\* One reference or two for each object.
FieldsOK(f) ==
    /\ DOMAIN f = Object
    /\ \A o \in Object : f[o] \in [1..(IF o \in Pair THEN 2 ELSE 1) -> Object \cup {Nil}]

TypeOK ==
    /\ ob_refcnt \in [Object -> Nat]
    /\ gc_refs \in [Object -> Nat \cup {GC_UNTRACKED, GC_REACHABLE, GC_TENTATIVELY_UNREACHABLE}]
    /\ FieldsOK(field)
    /\ wr_object \in [Weakref -> Object \cup {Nil}]
    /\ variables \subseteq Object
    /\ garbage \subseteq Object
    /\ generations \in [1..NUM_GENERATIONS -> Seq(Object)]
    /\ DOMAIN count = 1..NUM_GENERATIONS
    /\ unreachable \in Seq(Object)
    /\ finalizers \in Seq(Object)
    /\ wrcb_to_call \in Seq(Object)
    /\ generation \in 1..NUM_GENERATIONS
    /\ gc \in Object \cup {Nil}
    /\ pending \in Seq(Object)

\* What is freed refers to nothing and is in no list, and its weak references are gone.
Alive ==
    /\ \A o \in Object : gc_refs[o] # GC_UNTRACKED => ob_refcnt[o] > 0
    /\ \A o \in Object : ob_refcnt[o] = 0 => field[o] = NoReferences(o)
    /\ \A w \in Weakref : wr_object[w] # Nil => gc_refs[w] # GC_UNTRACKED

\* Which lists are empty, and where the object is that the collector is at.
Stages ==
    /\ pc \notin {"python", "callback", "called", "clear", "cleared"} => pending = <<>>
    /\ pc \in {"python", "update_refs", "subtract_refs"} => unreachable = <<>>
    /\ pc \in {"python", "update_refs", "subtract_refs", "move_unreachable"} => finalizers = <<>>
    /\ pc \notin {"handle_weakrefs", "callback", "called"} => wrcb_to_call = <<>>
    /\ pc \in {"callback", "called", "clear", "cleared"} => gc \in Object
    /\ pc = "callback" => gc = First(wrcb_to_call)
    /\ pc = "called" /\ gc \in Members(wrcb_to_call) => gc = First(wrcb_to_call)
    /\ pc = "clear" => gc = First(unreachable)
    /\ pc = "cleared" /\ gc \in Members(unreachable) => gc = First(unreachable)
    /\ pc \in {"clear", "cleared"} => field[gc] = NoReferences(gc)
    /\ Members(finalizers) \cap garbage = {}

Copied == pc = "subtract_refs" => \A o \in Members(young) : gc_refs[o] = ob_refcnt[o]

Inside == Members(young) \cup Members(unreachable)

\* What is referred to from outside the generation.
Direct == variables \cup garbage \cup UNION {Range(field[n]) : n \in Object \ Inside}

\* The walk over list is at o, and what it has passed is marked.
At(list, o, Marked) ==
    IF o = Nil THEN Range(list) \subseteq Marked
    ELSE \E n \in DOMAIN list : list[n] = o /\ \A j \in DOMAIN list : (list[j] \in Marked <=> j < n)

Refers(n, o) == \E i \in DOMAIN field[n] : field[n][i] = o

Found(o) == o \notin Members(unreachable) /\ gc_refs[o] # 0

\* move_unreachable.
ReachableWalk ==
    pc = "move_unreachable" =>
        /\ At(young, gc, {o \in Object : gc_refs[o] = GC_REACHABLE})
        /\ \A o \in Direct \ {Nil} : Found(o)
        /\ \A o \in Members(young) : gc_refs[o] # 0 => o \in FromOutside
        /\ \A n \in Members(young), o \in Object :
                gc_refs[n] = GC_REACHABLE /\ Refers(n, o) => Found(o)

\* No reference of n leads to an object of S.
Avoids(n, S) == \A o \in S : ~Refers(n, o)

\* move_finalizer_reachable.
FinalizerWalk ==
    pc = "move_finalizer_reachable" =>
        /\ Members(unreachable) \cap (Finalizer \cup variables \cup garbage) = {}
        /\ \E S \in SUBSET Object :
            /\ At(finalizers, gc, S)
            /\ \A n \in Object \ Members(unreachable) :
                    n \in S \/ n \notin Members(finalizers) => Avoids(n, Members(unreachable))

\* What nothing may reach any more.
Doomed == IF pc \in {"delete_garbage", "clear", "cleared"} THEN trash ELSE Members(unreachable)

\* What is no trash any more refers to none of S, unless its type left it its references.
Spares(n, S) == n \in S \cap NoClear \/ Avoids(n, S)

Sealed ==
    pc \in {"handle_weakrefs", "callback", "called", "delete_garbage", "clear", "cleared"} =>
        /\ Members(unreachable) \subseteq Doomed
        /\ Doomed \subseteq Object
        /\ Doomed \cap (Finalizer \cup variables \cup garbage) = {}
        /\ \A n \in Object \ Members(unreachable) : Spares(n, Doomed)
        /\ \A w \in Weakref : wr_object[w] \notin Doomed

IInv ==
    /\ TypeOK /\ RefcountsExact /\ ListsExact
    /\ Alive /\ Stages
    /\ Copied /\ ReachableWalk /\ FinalizerWalk /\ Sealed

--------------------------------------------------------------------------------
(* Recursive functions and induction on the numbers up to n.               *)

\* What holds of 0, and of k + 1 when it holds of k, holds up to n.
LEMMA UpTo ==
    ASSUME NEW n \in Nat, NEW P, 0 \in P,
           \A k \in 0..n : k < n /\ k \in P => k + 1 \in P
    PROVE  0..n \subseteq P
    <1> DEFINE Bad == (0..n) \ P
    <1> SUFFICES ASSUME Bad # {} PROVE FALSE
        OBVIOUS
    <1>1. Bad \in SUBSET Nat
        OBVIOUS
    <1>2. PICK m \in Bad : \A k \in Bad : m <= k
        BY <1>1, LeastElement
    <1>3. m # 0 /\ m - 1 \in 0..n /\ m - 1 < n /\ (m - 1) + 1 = m
        BY <1>2
    <1>4. m - 1 \in P
        BY <1>2, <1>3
    <1> QED
        BY <1>2, <1>3, <1>4

\* f is defined by recursion over 0..n.
Recursion(f, n, base, step) ==
    f = [k \in 0..n |-> IF k = 0 THEN base ELSE step[k][f[k - 1]]]

\* There is such a function.
LEMMA RecursionExists ==
    ASSUME NEW n \in Nat, NEW T, NEW base \in T, NEW step \in [1..n -> [T -> T]]
    PROVE  \E f \in [0..n -> T] : Recursion(f, n, base, step)
    <1> DEFINE Solves(f, m) == \A k \in 0..m : f[k] = IF k = 0 THEN base ELSE step[k][f[k - 1]]
               P == {m \in 0..n : \E f \in [0..m -> T] : Solves(f, m)}
    <1>1. 0 \in P
        <2> DEFINE z == [k \in 0..0 |-> base]
        <2>1. z \in [0..0 -> T] /\ Solves(z, 0)
            OBVIOUS
        <2> HIDE DEF z
        <2> QED
            BY <2>1
    <1>2. ASSUME NEW m \in 0..n, m < n, m \in P
          PROVE  m + 1 \in P
        <2>1. PICK f \in [0..m -> T] : Solves(f, m)
            BY <1>2
        <2> DEFINE g == [k \in 0..(m + 1) |-> IF k = m + 1 THEN step[m + 1][f[m]] ELSE f[k]]
        <2>2. m + 1 \in 1..n /\ f[m] \in T
            BY <1>2, <2>1
        <2>3. step[m + 1][f[m]] \in T
            BY <2>2
        <2>4. g \in [0..(m + 1) -> T]
            BY <2>1, <2>3
        <2>5. ASSUME NEW k \in 0..(m + 1)
              PROVE  g[k] = IF k = 0 THEN base ELSE step[k][g[k - 1]]
            <3>1. CASE k = m + 1
                <4>1. g[k - 1] = f[m] /\ g[k] = step[m + 1][f[m]]
                    BY <3>1
                <4> QED
                    BY <3>1, <4>1
            <3>2. CASE k # m + 1
                <4>1. k \in 0..m /\ g[k] = f[k] /\ (k # 0 => g[k - 1] = f[k - 1])
                    BY <3>2
                <4> HIDE DEF g
                <4> QED
                    BY <2>1, <4>1
            <3> QED
                BY <3>1, <3>2
        <2> HIDE DEF g
        <2>6. Solves(g, m + 1)
            BY <2>5
        <2> QED
            BY <2>4, <2>6, <2>2
    <1>3. n \in P
        <2> HIDE DEF P
        <2>1. 0..n \subseteq P
            BY <1>1, <1>2, UpTo
        <2> QED
            BY <2>1
    <1>4. PICK f \in [0..n -> T] : Solves(f, n)
        BY <1>3
    <1>5. Recursion(f, n, base, step)
        BY <1>4 DEF Recursion
    <1> QED
        BY <1>5

--------------------------------------------------------------------------------
(* What Within and Without leave of a list.                                *)

\* w is what list has up to k of the members of S: its i-th element is the one
\* with the index h[i] in list.
Picks(w, h, list, k, S) ==
    /\ h \in [1..Len(w) -> 1..k]
    /\ \A i \in 1..Len(w) : w[i] = list[h[i]]
    /\ \A i, j \in 1..Len(w) : i < j => h[i] < h[j]
    /\ \A l \in 1..k : list[l] \in S <=> \E i \in 1..Len(w) : h[i] = l

\* One element more.
LEMMA PicksAppend ==
    ASSUME NEW T, NEW list \in Seq(T), NEW S, NEW k \in Nat, k + 1 \in 1..Len(list),
           NEW w \in Seq(T), NEW h, Picks(w, h, list, k, S), list[k + 1] \in S
    PROVE  \E g : Picks(Append(w, list[k + 1]), g, list, k + 1, S)
    <1> DEFINE n == Len(w)
               v == Append(w, list[k + 1])
               g == [i \in 1..(n + 1) |-> IF i = n + 1 THEN k + 1 ELSE h[i]]
    <1>1. n \in Nat /\ list[k + 1] \in T
        BY LenProperties, ElementOfSeq
    <1>2. /\ Len(v) = n + 1
          /\ v[n + 1] = list[k + 1]
          /\ \A i \in 1..n : v[i] = w[i]
        BY <1>1, AppendProperties
    <1>3. /\ h \in [1..n -> 1..k]
          /\ \A i \in 1..n : w[i] = list[h[i]]
          /\ \A i, j \in 1..n : i < j => h[i] < h[j]
          /\ \A l \in 1..k : list[l] \in S <=> \E i \in 1..n : h[i] = l
        BY DEF Picks
    <1> HIDE DEF n, v
    <1>4. /\ g \in [1..(n + 1) -> 1..(k + 1)]
          /\ g[n + 1] = k + 1
          /\ \A i \in 1..n : g[i] = h[i]
        BY <1>1, <1>3
    <1> HIDE DEF g
    <1>5. \A i \in 1..(n + 1) : v[i] = list[g[i]]
        BY <1>1, <1>2, <1>3, <1>4
    <1>6. ASSUME NEW i \in 1..(n + 1), NEW j \in 1..(n + 1), i < j
          PROVE  g[i] < g[j]
        <2>1. i \in 1..n /\ g[i] = h[i] /\ h[i] \in 1..k
            BY <1>1, <1>3, <1>4, <1>6
        <2>2. CASE j = n + 1
            BY <1>4, <2>1, <2>2
        <2>3. CASE j # n + 1
            <3>1. j \in 1..n /\ g[j] = h[j]
                BY <1>1, <1>4, <2>3
            <3> QED
                BY <1>3, <1>6, <2>1, <3>1
        <2> QED
            BY <2>2, <2>3
    <1>7. ASSUME NEW l \in 1..(k + 1)
          PROVE  list[l] \in S <=> \E i \in 1..(n + 1) : g[i] = l
        <2>1. CASE l = k + 1
            BY <1>1, <1>4, <2>1
        <2>2. CASE l # k + 1
            <3>1. l \in 1..k
                BY <2>2
            <3>2. \A i \in 1..(n + 1) : g[i] = l <=> i \in 1..n /\ h[i] = l
                BY <1>1, <1>3, <1>4, <2>2
            <3> QED
                BY <1>1, <1>3, <3>1, <3>2
        <2> QED
            BY <2>1, <2>2
    <1>8. Picks(v, g, list, k + 1, S)
        BY <1>2, <1>4, <1>5, <1>6, <1>7 DEF Picks
    <1> QED
        BY <1>8 DEF v

\* One element more, which is not kept.
LEMMA PicksSkip ==
    ASSUME NEW T, NEW list \in Seq(T), NEW S, NEW k \in Nat, k + 1 \in 1..Len(list),
           NEW w \in Seq(T), NEW h, Picks(w, h, list, k, S), list[k + 1] \notin S
    PROVE  Picks(w, h, list, k + 1, S)
    <1>1. /\ h \in [1..Len(w) -> 1..k]
          /\ \A i \in 1..Len(w) : w[i] = list[h[i]]
          /\ \A i, j \in 1..Len(w) : i < j => h[i] < h[j]
          /\ \A l \in 1..k : list[l] \in S <=> \E i \in 1..Len(w) : h[i] = l
        BY DEF Picks
    <1>2. h \in [1..Len(w) -> 1..(k + 1)]
        BY <1>1
    <1>3. ASSUME NEW l \in 1..(k + 1)
          PROVE  list[l] \in S <=> \E i \in 1..Len(w) : h[i] = l
        <2>1. CASE l = k + 1
            BY <1>1, <2>1
        <2>2. CASE l # k + 1
            BY <1>1, <2>2
        <2> QED
            BY <2>1, <2>2
    <1> QED
        BY <1>1, <1>2, <1>3 DEF Picks

\* Within keeps the members of S and their order.
LEMMA WithinPicks ==
    ASSUME NEW T, NEW list \in Seq(T), NEW S
    PROVE  /\ Within(list, S) \in Seq(T)
           /\ \E h : Picks(Within(list, S), h, list, Len(list), S)
    <1> DEFINE n == Len(list)
               step == [k \in 1..n |-> [x \in Seq(T) |->
                            IF list[k] \in S THEN Append(x, list[k]) ELSE x]]
               kept[k \in 0..n] ==
                   IF k = 0 THEN <<>>
                   ELSE IF list[k] \in S THEN Append(kept[k - 1], list[k]) ELSE kept[k - 1]
    <1>1. n \in Nat /\ \A k \in 1..n : list[k] \in T
        BY LenProperties, ElementOfSeq
    <1>2. step \in [1..n -> [Seq(T) -> Seq(T)]]
        <2>1. ASSUME NEW k \in 1..n, NEW x \in Seq(T)
              PROVE  (IF list[k] \in S THEN Append(x, list[k]) ELSE x) \in Seq(T)
            BY <1>1, AppendProperties
        <2> HIDE DEF n
        <2> QED
            BY <2>1
    <1>3. \A k \in 1..n, x \in Seq(T) :
                step[k][x] = IF list[k] \in S THEN Append(x, list[k]) ELSE x
        OBVIOUS
    <1> HIDE DEF step, n
    <1>4. <<>> \in Seq(T)
        BY EmptySeq
    <1>5. PICK f \in [0..n -> Seq(T)] : Recursion(f, n, <<>>, step)
        BY <1>1, <1>2, <1>4, RecursionExists
    <1>6. f = [k \in 0..n |-> IF k = 0 THEN <<>>
                              ELSE IF list[k] \in S THEN Append(f[k - 1], list[k]) ELSE f[k - 1]]
        <2>1. ASSUME NEW k \in 0..n
              PROVE  f[k] = IF k = 0 THEN <<>>
                            ELSE IF list[k] \in S THEN Append(f[k - 1], list[k]) ELSE f[k - 1]
            <3>1. f[k] = IF k = 0 THEN <<>> ELSE step[k][f[k - 1]]
                BY <1>5 DEF Recursion
            <3>2. CASE k = 0
                BY <3>1, <3>2
            <3>3. CASE k # 0
                <4>1. k \in 1..n /\ k - 1 \in 0..n
                    BY <1>1, <3>3
                <4>2. f[k - 1] \in Seq(T)
                    BY <4>1
                <4> QED
                    BY <1>3, <3>1, <3>3, <4>1, <4>2
            <3> QED
                BY <3>2, <3>3
        <2> QED
            BY <2>1, <1>5
    <1>7. kept = [k \in 0..n |-> IF k = 0 THEN <<>>
                              ELSE IF list[k] \in S THEN Append(kept[k - 1], list[k]) ELSE kept[k - 1]]
        BY <1>6, Zenon
    <1> HIDE DEF kept
    <1>13. \A k \in 0..n : kept[k] = IF k = 0 THEN <<>>
                              ELSE IF list[k] \in S THEN Append(kept[k - 1], list[k]) ELSE kept[k - 1]
        BY <1>7, Zenon
    <1> USE DEF kept
    <1>8. Within(list, S) = kept[n]
        BY DEF Within, n
    <1> HIDE DEF kept
    <1> DEFINE P == {k \in 0..n : kept[k] \in Seq(T) /\ \E h : Picks(kept[k], h, list, k, S)}
    <1>9. 0 \in P
        <2>1. kept[0] = <<>>
            BY <1>1, <1>13
        <2>2. Len(<<>>) = 0
            BY EmptySeq
        <2>3. Picks(<<>>, <<>>, list, 0, S)
            BY <2>2 DEF Picks
        <2>4. kept[0] \in Seq(T) /\ \E h : Picks(kept[0], h, list, 0, S)
            BY <1>4, <2>1, <2>3, Zenon
        <2>5. 0 \in 0..n
            BY <1>1
        <2> QED
            BY <2>4, <2>5
    <1>10. ASSUME NEW k \in 0..n, k < n, k \in P
           PROVE  k + 1 \in P
        <2>1. kept[k] \in Seq(T) /\ k + 1 \in 1..n /\ k + 1 \in 0..n /\ (k + 1) - 1 = k /\ k \in Nat
            BY <1>1, <1>10
        <2>2. PICK h : Picks(kept[k], h, list, k, S)
            BY <1>10
        <2>3. kept[k + 1] = IF list[k + 1] \in S THEN Append(kept[k], list[k + 1]) ELSE kept[k]
            BY <1>13, <2>1
        <2>4. CASE list[k + 1] \in S
            <3>1. kept[k + 1] = Append(kept[k], list[k + 1])
                BY <2>3, <2>4
            <3>2. kept[k + 1] \in Seq(T)
                BY <1>1, <2>1, <3>1, AppendProperties
            <3>3. \E g : Picks(Append(kept[k], list[k + 1]), g, list, k + 1, S)
                BY <2>1, <2>2, <2>4, PicksAppend DEF n
            <3> QED
                BY <2>1, <3>1, <3>2, <3>3
        <2>5. CASE list[k + 1] \notin S
            <3>1. kept[k + 1] = kept[k]
                BY <2>3, <2>5
            <3>2. Picks(kept[k], h, list, k + 1, S)
                BY <2>1, <2>2, <2>5, PicksSkip DEF n
            <3> QED
                BY <2>1, <3>1, <3>2
        <2> QED
            BY <2>4, <2>5
    <1> HIDE DEF P
    <1>11. 0..n \subseteq P
        BY <1>1, <1>9, <1>10, UpTo
    <1>12. n \in P
        BY <1>1, <1>11
    <1> QED
        BY <1>8, <1>12 DEF P, n

\* list is a list of the objects of R, each once.
Lists(list, R) ==
    /\ list \in Seq(Object)
    /\ IsInjective(list)
    /\ Range(list) = R

\* No object has the number 0.
LEMMA NilIsNoObject == Nil \notin Object
    BY DEF Nil, Object

\* What a list holds.
LEMMA ListElements ==
    ASSUME NEW T, NEW list \in Seq(T)
    PROVE  /\ Len(list) \in Nat
           /\ DOMAIN list = 1..Len(list)
           /\ \A i \in 1..Len(list) : list[i] \in T
           /\ \A x : x \in Range(list) <=> \E i \in 1..Len(list) : list[i] = x
           /\ Range(list) \subseteq T
    BY LenProperties, ElementOfSeq DEF Range

\* What it means that a list has exactly the objects of R, each once: element by element.
LEMMA ListsElements ==
    ASSUME NEW list, NEW R, Lists(list, R)
    PROVE  /\ list \in Seq(Object)
           /\ Len(list) \in Nat
           /\ DOMAIN list = 1..Len(list)
           /\ \A i \in 1..Len(list) : list[i] \in R
           /\ \A x \in R : \E i \in 1..Len(list) : list[i] = x
           /\ \A i, j \in 1..Len(list) : list[i] = list[j] => i = j
           /\ R \subseteq Object
           /\ Range(list) = R
    BY ListElements DEF Lists, IsInjective

\* And the other way round.
LEMMA ListsFromElements ==
    ASSUME NEW list \in Seq(Object), NEW R,
           \A i \in 1..Len(list) : list[i] \in R,
           \A x \in R : \E i \in 1..Len(list) : list[i] = x,
           \A i, j \in 1..Len(list) : list[i] = list[j] => i = j
    PROVE  Lists(list, R)
    <1>1. \A x : x \in Range(list) <=> x \in R
        BY ListElements
    <1>2. IsInjective(list)
        BY ListElements DEF IsInjective
    <1> QED
        BY <1>1, <1>2 DEF Lists

\* What Within keeps, of a list that may hold an object more than once too.
LEMMA WithinRange ==
    ASSUME NEW T, NEW list \in Seq(T), NEW S
    PROVE  Within(list, S) \in Seq(T) /\ Range(Within(list, S)) = Range(list) \cap S
    <1> DEFINE w == Within(list, S)
    <1>1. w \in Seq(T)
        BY WithinPicks
    <1>2. PICK h : Picks(w, h, list, Len(list), S)
        BY WithinPicks
    <1> HIDE DEF w
    <1>3. ASSUME NEW x
          PROVE  x \in Range(w) <=> x \in Range(list) \cap S
        <2>1. CASE x \in Range(w)
            <3>1. PICK i \in 1..Len(w) : w[i] = x
                BY <1>1, <2>1, ListElements
            <3>2. h[i] \in 1..Len(list) /\ list[h[i]] = x /\ list[h[i]] \in S
                BY <1>2, <3>1 DEF Picks
            <3> QED
                BY <2>1, <3>2, ListElements
        <2>2. CASE x \in Range(list) \cap S
            <3>1. PICK l \in 1..Len(list) : list[l] = x
                BY <2>2, ListElements
            <3>2. PICK i \in 1..Len(w) : h[i] = l
                BY <1>2, <2>2, <3>1 DEF Picks
            <3>3. w[i] = x
                BY <1>2, <3>1, <3>2 DEF Picks
            <3> QED
                BY <1>1, <2>2, <3>3, ListElements
        <2> QED
            BY <2>1, <2>2
    <1>4. Range(w) = Range(list) \cap S
        BY <1>3
    <1> QED
        BY <1>1, <1>4 DEF w

\* Within of a list without duplicates has none.
LEMMA WithinLists ==
    ASSUME NEW list, NEW R, Lists(list, R), NEW S
    PROVE  Lists(Within(list, S), R \cap S)
    <1> DEFINE w == Within(list, S)
    <1>0. list \in Seq(Object) /\ Range(list) = R
        BY DEF Lists
    <1>1. w \in Seq(Object) /\ Range(w) = R \cap S
        BY <1>0, WithinRange
    <1>2. PICK h : Picks(w, h, list, Len(list), S)
        BY <1>0, WithinPicks
    <1> HIDE DEF w
    <1>3. ASSUME NEW i \in 1..Len(w), NEW j \in 1..Len(w), w[i] = w[j]
          PROVE  i = j
        <2>1. Len(w) \in Nat /\ Len(list) \in Nat
            BY <1>0, <1>1, ListElements
        <2>2. h[i] \in 1..Len(list) /\ h[j] \in 1..Len(list) /\ list[h[i]] = list[h[j]]
            BY <1>2, <1>3 DEF Picks
        <2>3. h[i] = h[j]
            BY <2>2, ListsElements
        <2>4. ~(i < j) /\ ~(j < i)
            <3>1. (i < j => h[i] < h[j]) /\ (j < i => h[j] < h[i])
                BY <1>2 DEF Picks
            <3> QED
                BY <2>1, <2>2, <2>3, <3>1
        <2> QED
            BY <2>1, <2>4
    <1>4. IsInjective(w)
        BY <1>1, <1>3, ListElements DEF IsInjective
    <1> QED
        BY <1>1, <1>4 DEF Lists, w

\* Taking objects out of a list.
LEMMA WithoutLists ==
    ASSUME NEW list, NEW R, Lists(list, R), NEW S
    PROVE  Lists(Without(list, S), R \ S)
    <1>1. R \subseteq Object
        BY ListsElements
    <1>2. R \cap (Object \ S) = R \ S
        BY <1>1
    <1> QED
        BY <1>2, WithinLists DEF Without

\* The empty list.
LEMMA EmptyLists == Lists(<<>>, {})
    <1> DEFINE e == <<>>
    <1>1. e \in Seq(Object) /\ Len(e) = 0
        BY EmptySeq
    <1> HIDE DEF e
    <1>3. DOMAIN e = {}
        BY <1>1, ListElements
    <1>4. IsInjective(e) /\ Range(e) = {}
        BY <1>3 DEF IsInjective, Range
    <1>2. Lists(e, {})
        BY <1>1, <1>4 DEF Lists
    <1> QED
        BY <1>2 DEF e

\* A list without elements is empty.
LEMMA EmptyRange ==
    ASSUME NEW list \in Seq(Object)
    PROVE  Range(list) = {} <=> list = <<>>
    <1>1. <<>> \in Seq(Object) /\ Len(<<>>) = 0
        BY EmptySeq
    <1>2. list # <<>> => Len(list) \in Nat \ {0}
        BY EmptySeq
    <1>3. list # <<>> => Range(list) # {}
        <2>1. list # <<>> => 1 \in 1..Len(list)
            BY <1>2
        <2> QED
            BY <2>1, ListElements
    <1>4. Range(<<>>) = {}
        BY EmptyLists DEF Lists
    <1> QED
        BY <1>3, <1>4

\* gc_list_append of an object that is not in the list.
LEMMA AppendLists ==
    ASSUME NEW list, NEW R, Lists(list, R), NEW o \in Object, o \notin R
    PROVE  Lists(Append(list, o), R \cup {o})
    <1> DEFINE n == Len(list)
               v == Append(list, o)
    <1>1. /\ n \in Nat
          /\ list \in Seq(Object)
          /\ \A i \in 1..n : list[i] \in R
          /\ \A x \in R : \E i \in 1..n : list[i] = x
          /\ \A i, j \in 1..n : list[i] = list[j] => i = j
        BY ListsElements
    <1>2. v \in Seq(Object) /\ Len(v) = n + 1 /\ (\A i \in 1..n : v[i] = list[i]) /\ v[n + 1] = o
        BY <1>1, AppendProperties
    <1> HIDE DEF n, v
    <1>3. \A i \in 1..(n + 1) : v[i] = IF i = n + 1 THEN o ELSE list[i]
        BY <1>1, <1>2
    <1>4. \A i \in 1..(n + 1) : i # n + 1 => i \in 1..n
        BY <1>1
    <1>5. \A i \in 1..Len(v) : v[i] \in R \cup {o}
        BY <1>1, <1>2, <1>3, <1>4
    <1>6. \A x \in R \cup {o} : \E i \in 1..Len(v) : v[i] = x
        BY <1>1, <1>2
    <1>7. \A i, j \in 1..Len(v) : v[i] = v[j] => i = j
        BY <1>1, <1>2, <1>3, <1>4
    <1> QED
        BY <1>2, <1>5, <1>6, <1>7, ListsFromElements DEF v

\* gc_list_merge of two lists that have no object in common.
LEMMA ConcatLists ==
    ASSUME NEW s, NEW R, Lists(s, R), NEW t, NEW S, Lists(t, S), R \cap S = {}
    PROVE  Lists(s \o t, R \cup S)
    <1> DEFINE m == Len(s)
               n == Len(t)
               v == s \o t
    <1>1. /\ m \in Nat
          /\ s \in Seq(Object)
          /\ \A i \in 1..m : s[i] \in R
          /\ \A x \in R : \E i \in 1..m : s[i] = x
          /\ \A i, j \in 1..m : s[i] = s[j] => i = j
        BY ListsElements
    <1>2. /\ n \in Nat
          /\ t \in Seq(Object)
          /\ \A i \in 1..n : t[i] \in S
          /\ \A x \in S : \E i \in 1..n : t[i] = x
          /\ \A i, j \in 1..n : t[i] = t[j] => i = j
        BY ListsElements
    <1>3. /\ v \in Seq(Object)
          /\ Len(v) = m + n
          /\ \A i \in 1..(m + n) : v[i] = IF i <= m THEN s[i] ELSE t[i - m]
        BY <1>1, <1>2, ConcatProperties
    <1> HIDE DEF m, n, v
    <1>4. \A i \in 1..(m + n) : IF i <= m THEN i \in 1..m ELSE i - m \in 1..n
        BY <1>1, <1>2
    <1>5. \A i \in 1..Len(v) : v[i] \in R \cup S
        BY <1>1, <1>2, <1>3, <1>4
    <1>6. ASSUME NEW x \in R \cup S
          PROVE  \E i \in 1..Len(v) : v[i] = x
        <2>1. CASE x \in R
            <3>1. PICK i \in 1..m : s[i] = x
                BY <1>1, <2>1
            <3>2. i \in 1..(m + n) /\ i <= m
                BY <1>1, <1>2
            <3> QED
                BY <1>3, <3>1, <3>2
        <2>2. CASE x \in S
            <3>1. PICK i \in 1..n : t[i] = x
                BY <1>2, <2>2
            <3>2. i + m \in 1..(m + n) /\ ~(i + m <= m) /\ (i + m) - m = i
                BY <1>1, <1>2
            <3> QED
                BY <1>3, <3>1, <3>2
        <2> QED
            BY <2>1, <2>2
    <1>7. ASSUME NEW i \in 1..Len(v), NEW j \in 1..Len(v), v[i] = v[j]
          PROVE  i = j
        <2>1. CASE i <= m /\ j <= m
            <3>1. i \in 1..m /\ j \in 1..m /\ v[i] = s[i] /\ v[j] = s[j]
                BY <1>3, <1>4, <2>1
            <3> QED
                BY <1>1, <1>7, <3>1
        <2>2. CASE ~(i <= m) /\ ~(j <= m)
            <3>1. i - m \in 1..n /\ j - m \in 1..n /\ v[i] = t[i - m] /\ v[j] = t[j - m]
                BY <1>3, <1>4, <2>2
            <3>2. i - m = j - m
                BY <1>2, <1>7, <3>1
            <3> QED
                BY <1>1, <3>2
        <2>3. CASE i <= m /\ ~(j <= m)
            <3>1. v[i] \in R /\ v[j] \in S
                BY <1>1, <1>2, <1>3, <1>4, <2>3
            <3> QED
                BY <1>7, <3>1
        <2>4. CASE ~(i <= m) /\ j <= m
            <3>1. v[j] \in R /\ v[i] \in S
                BY <1>1, <1>2, <1>3, <1>4, <2>4
            <3> QED
                BY <1>7, <3>1
        <2> QED
            BY <2>1, <2>2, <2>3, <2>4
    <1> QED
        BY <1>3, <1>5, <1>6, <1>7, ListsFromElements DEF v

\* A list and the one without its first object.
LEMMA TailLists ==
    ASSUME NEW list, NEW R, Lists(list, R), list # <<>>
    PROVE  Head(list) \in R /\ Lists(Tail(list), R \ {Head(list)})
    <1> DEFINE n == Len(list)
               v == Tail(list)
    <1>1. /\ n \in Nat
          /\ list \in Seq(Object)
          /\ \A i \in 1..n : list[i] \in R
          /\ \A x \in R : \E i \in 1..n : list[i] = x
          /\ \A i, j \in 1..n : list[i] = list[j] => i = j
        BY ListsElements
    <1>2. n # 0 /\ 1 \in 1..n /\ Head(list) = list[1]
        BY <1>1, EmptySeq
    <1>3. /\ v \in Seq(Object)
          /\ Len(v) = n - 1
          /\ \A i \in 1..Len(v) : v[i] = list[i + 1]
        BY <1>1, HeadTailProperties
    <1> HIDE DEF n, v
    <1>4. \A i \in 1..(n - 1) : i + 1 \in 1..n /\ i + 1 # 1
        BY <1>1
    <1>5. \A i \in 1..Len(v) : v[i] \in R \ {list[1]}
        BY <1>1, <1>2, <1>3, <1>4
    <1>6. ASSUME NEW x \in R \ {list[1]}
          PROVE  \E i \in 1..Len(v) : v[i] = x
        <2>1. PICK i \in 1..n : list[i] = x
            BY <1>1
        <2>2. i - 1 \in 1..(n - 1) /\ (i - 1) + 1 = i
            BY <1>1, <2>1
        <2> QED
            BY <1>3, <2>1, <2>2
    <1>7. ASSUME NEW i \in 1..Len(v), NEW j \in 1..Len(v), v[i] = v[j]
          PROVE  i = j
        <2>1. i + 1 \in 1..n /\ j + 1 \in 1..n /\ list[i + 1] = list[j + 1]
            BY <1>3, <1>4, <1>7
        <2>2. i + 1 = j + 1
            BY <1>1, <2>1
        <2> QED
            BY <1>1, <1>3, <2>2
    <1>8. Lists(v, R \ {list[1]})
        BY <1>3, <1>5, <1>6, <1>7, ListsFromElements
    <1> QED
        BY <1>1, <1>2, <1>8 DEF v

\* The beginning of a list.
LEMMA FirstFacts ==
    ASSUME NEW list \in Seq(Object)
    PROVE  /\ list = <<>> => First(list) = Nil
           /\ list # <<>> => First(list) = Head(list) /\ First(list) = list[1]
                             /\ First(list) \in Range(list) /\ First(list) \in Object
                             /\ 1 \in 1..Len(list)
    <1>1. list # <<>> => Len(list) \in Nat \ {0} /\ Head(list) = list[1]
        BY EmptySeq
    <1>2. list # <<>> => 1 \in 1..Len(list)
        BY <1>1
    <1>3. list # <<>> => list[1] \in Range(list) /\ list[1] \in Object
        BY <1>2, ListElements
    <1> QED
        BY <1>1, <1>2, <1>3 DEF First

\* What is kept stays the first.
LEMMA FirstWithin ==
    ASSUME NEW list \in Seq(Object), NEW S, list # <<>>, First(list) \in S
    PROVE  First(Within(list, S)) = First(list)
    <1> DEFINE w == Within(list, S)
    <1>1. w \in Seq(Object)
        BY WithinPicks
    <1>2. PICK h : Picks(w, h, list, Len(list), S)
        BY WithinPicks
    <1> HIDE DEF w
    <1>3. Len(w) \in Nat /\ Len(list) \in Nat /\ 1 \in 1..Len(list) /\ First(list) = list[1]
        BY <1>1, ListElements, FirstFacts
    <1>4. PICK i \in 1..Len(w) : h[i] = 1
        BY <1>2, <1>3 DEF Picks
    <1>5. 1 \in 1..Len(w)
        BY <1>3, <1>4
    <1>6. i = 1
        <2>1. h[1] \in 1..Len(list) /\ (1 < i => h[1] < h[i])
            BY <1>2, <1>5 DEF Picks
        <2> QED
            BY <1>3, <1>4, <1>5, <2>1
    <1>7. w[1] = list[1]
        BY <1>2, <1>4, <1>5, <1>6 DEF Picks
    <1>8. w # <<>>
        BY <1>5, EmptySeq
    <1>9. First(w) = w[1]
        BY <1>1, <1>8, FirstFacts
    <1> QED
        BY <1>3, <1>7, <1>9 DEF w

\* Taking out another object leaves the first one where it is.
LEMMA FirstWithout ==
    ASSUME NEW list \in Seq(Object), NEW o, First(list) \in Object, First(list) # o
    PROVE  First(Without(list, {o})) = First(list)
    <1>1. list # <<>>
        BY NilIsNoObject DEF First
    <1>2. First(list) \in Object \ {o}
        OBVIOUS
    <1> QED
        BY <1>1, <1>2, FirstWithin DEF Without

\* The next object of a list.
LEMMA NextFacts ==
    ASSUME NEW list, NEW R, Lists(list, R), NEW n \in 1..Len(list)
    PROVE  Next_(list, list[n]) = IF n = Len(list) THEN Nil ELSE list[n + 1]
    <1> DEFINE later == {k \in 2..Len(list) : list[k - 1] = list[n]}
    <1>1. /\ Len(list) \in Nat
          /\ \A i, j \in 1..Len(list) : list[i] = list[j] => i = j
        BY ListsElements
    <1>2. Next_(list, list[n]) = IF later = {} THEN Nil ELSE list[CHOOSE k \in later : TRUE]
        BY DEF Next_
    <1>3. \A k \in 2..Len(list) : k - 1 \in 1..Len(list)
        BY <1>1
    <1>4. \A k \in later : k - 1 = n
        BY <1>1, <1>3
    <1>5. CASE n = Len(list)
        <2>1. later = {}
            BY <1>1, <1>4, <1>5
        <2> QED
            BY <1>2, <1>5, <2>1
    <1>6. CASE n # Len(list)
        <2>1. n + 1 \in 2..Len(list) /\ (n + 1) - 1 = n
            BY <1>1, <1>6
        <2>2. n + 1 \in later
            BY <2>1
        <2>3. \A k \in later : k = n + 1
            BY <1>1, <1>4
        <2> HIDE DEF later
        <2>4. (CHOOSE k \in later : TRUE) \in later
            BY <2>2, Zenon
        <2>5. (CHOOSE k \in later : TRUE) = n + 1
            BY <2>3, <2>4
        <2> QED
            BY <1>2, <1>6, <2>2, <2>5
    <1> QED
        BY <1>5, <1>6

\* A walk that is at an object, spelt out.
LEMMA AtObject ==
    ASSUME NEW list, NEW R, Lists(list, R), NEW o \in Object, NEW Marked, At(list, o, Marked)
    PROVE  \E n \in 1..Len(list) :
                list[n] = o /\ \A j \in 1..Len(list) : (list[j] \in Marked <=> j < n)
    BY ListsElements, NilIsNoObject DEF At

\* A walk begins at the first object when nothing is marked.
LEMMA WalkBegins ==
    ASSUME NEW list, NEW R, Lists(list, R), NEW Marked, R \cap Marked = {}
    PROVE  At(list, First(list), Marked)
    <1>1. /\ list \in Seq(Object)
          /\ Len(list) \in Nat
          /\ DOMAIN list = 1..Len(list)
          /\ \A i \in 1..Len(list) : list[i] \in R
          /\ Range(list) = R
          /\ R \subseteq Object
        BY ListsElements
    <1>2. CASE list = <<>>
        <2>1. First(list) = Nil /\ Range(list) = {}
            BY <1>1, <1>2, FirstFacts, EmptyRange
        <2> QED
            BY <2>1 DEF At
    <1>3. CASE list # <<>>
        <2>1. First(list) = list[1] /\ 1 \in 1..Len(list) /\ First(list) # Nil
            BY <1>1, <1>3, FirstFacts, NilIsNoObject
        <2>2. \A j \in 1..Len(list) : (list[j] \in Marked <=> j < 1)
            BY <1>1
        <2> QED
            BY <1>1, <2>1, <2>2 DEF At
    <1> QED
        BY <1>2, <1>3

\* Its object is marked, and what else is marked is not in the list, and others join
\* the list at its end.
LEMMA WalkGoesOn ==
    ASSUME NEW list, NEW R, Lists(list, R), NEW o \in Object, NEW Marked, At(list, o, Marked),
           NEW more, NEW M, Lists(more, M), M \cap (R \cup Marked) = {},
           NEW Marked2, \A x \in R : x \in Marked2 <=> x \in Marked \/ x = o,
           M \cap Marked2 = {}
    PROVE  At(list \o more, Next_(list \o more, o), Marked2)
    <1> DEFINE both == list \o more
    <1>1. PICK n \in 1..Len(list) :
                list[n] = o /\ \A j \in 1..Len(list) : (list[j] \in Marked <=> j < n)
        BY AtObject
    <1>2. Lists(both, R \cup M)
        BY ConcatLists
    <1>3. /\ list \in Seq(Object) /\ more \in Seq(Object)
          /\ Len(list) \in Nat /\ Len(more) \in Nat
          /\ \A i \in 1..Len(list) : list[i] \in R
          /\ \A i \in 1..Len(more) : more[i] \in M
          /\ \A i, j \in 1..Len(list) : list[i] = list[j] => i = j
        BY ListsElements
    <1>4. /\ Len(both) = Len(list) + Len(more)
          /\ \A i \in 1..Len(both) : both[i] = IF i <= Len(list) THEN list[i] ELSE more[i - Len(list)]
        BY <1>3, ConcatProperties
    <1> HIDE DEF both
    <1>5. DOMAIN both = 1..Len(both) /\ Range(both) = R \cup M /\ R \cup M \subseteq Object
          /\ \A i \in 1..Len(both) : both[i] \in R \cup M
        BY <1>2, ListsElements
    <1>6. n \in 1..Len(both) /\ both[n] = o
        BY <1>1, <1>3, <1>4
    <1>7. \A j \in 1..Len(both) : (both[j] \in Marked2 <=> j < n + 1)
        <2> SUFFICES ASSUME NEW j \in 1..Len(both)
                     PROVE  both[j] \in Marked2 <=> j < n + 1
            OBVIOUS
        <2>1. CASE j <= Len(list)
            <3>1. j \in 1..Len(list) /\ both[j] = list[j]
                BY <1>3, <1>4, <2>1
            <3>2. both[j] \in Marked2 <=> (list[j] \in Marked \/ list[j] = o)
                BY <1>3, <3>1
            <3>3. list[j] \in Marked <=> j < n
                BY <1>1, <3>1
            <3>4. list[j] = o <=> j = n
                BY <1>1, <1>3, <3>1
            <3> QED
                BY <1>3, <3>1, <3>2, <3>3, <3>4
        <2>2. CASE ~(j <= Len(list))
            <3>1. j - Len(list) \in 1..Len(more) /\ both[j] = more[j - Len(list)]
                BY <1>3, <1>4, <2>2
            <3>2. both[j] \in M
                BY <1>3, <3>1
            <3> QED
                BY <1>3, <2>2, <3>2
        <2> QED
            BY <2>1, <2>2
    <1>8. Next_(both, o) = IF n = Len(both) THEN Nil ELSE both[n + 1]
        BY <1>2, <1>6, NextFacts
    <1>9. CASE n = Len(both)
        <2>1. \A j \in 1..Len(both) : both[j] \in Marked2
            BY <1>3, <1>4, <1>7, <1>9
        <2>2. Range(both) \subseteq Marked2
            BY <1>2, <2>1, ListElements DEF Lists
        <2> QED
            BY <1>8, <1>9, <2>2 DEF At, both
    <1>10. CASE n # Len(both)
        <2>1. n + 1 \in 1..Len(both)
            BY <1>3, <1>4, <1>6, <1>10
        <2>2. both[n + 1] \in Object
            BY <1>5, <2>1
        <2>3. both[n + 1] # Nil
            BY <2>2, NilIsNoObject
        <2>4. At(both, both[n + 1], Marked2)
            BY <1>5, <1>7, <2>1, <2>3 DEF At
        <2> QED
            BY <1>8, <1>10, <2>4 DEF both
    <1> QED
        BY <1>9, <1>10

\* Its object leaves the list.
LEMMA WalkRemoves ==
    ASSUME NEW list, NEW R, Lists(list, R), NEW o \in Object, NEW Marked, At(list, o, Marked),
           NEW Marked2, \A x \in R \ {o} : x \in Marked2 <=> x \in Marked
    PROVE  At(Without(list, {o}), Next_(list, o), Marked2)
    <1> DEFINE w == Without(list, {o})
    <1>1. PICK n \in 1..Len(list) :
                list[n] = o /\ \A j \in 1..Len(list) : (list[j] \in Marked <=> j < n)
        BY AtObject
    <1>2. /\ list \in Seq(Object)
          /\ Len(list) \in Nat
          /\ \A i \in 1..Len(list) : list[i] \in R
          /\ \A i, j \in 1..Len(list) : list[i] = list[j] => i = j
          /\ R \subseteq Object
        BY ListsElements
    <1>3. Lists(w, R \ {o})
        BY WithoutLists
    <1>4. PICK h : Picks(w, h, list, Len(list), Object \ {o})
        BY <1>2, WithinPicks DEF Without
    <1> HIDE DEF w
    <1>5. /\ DOMAIN w = 1..Len(w)
          /\ Range(w) = R \ {o}
          /\ Len(w) \in Nat
          /\ \A i \in 1..Len(w) : w[i] \in R \ {o}
          /\ \A x \in R \ {o} : \E i \in 1..Len(w) : w[i] = x
        BY <1>3, ListsElements
    <1>6. /\ \A i \in 1..Len(w) : h[i] \in 1..Len(list) /\ w[i] = list[h[i]]
          /\ \A i, j \in 1..Len(w) : i < j => h[i] < h[j]
        BY <1>4 DEF Picks
    <1>7. ASSUME NEW i \in 1..Len(w)
          PROVE  w[i] \in Marked2 <=> h[i] < n
        <2>1. w[i] \in Marked2 <=> w[i] \in Marked
            BY <1>5
        <2>2. h[i] \in 1..Len(list) /\ w[i] = list[h[i]]
            BY <1>6
        <2> QED
            BY <1>1, <2>1, <2>2
    <1>8. Next_(list, o) = IF n = Len(list) THEN Nil ELSE list[n + 1]
        BY <1>1, NextFacts
    <1>9. \A i \in 1..Len(w) : h[i] # n
        BY <1>1, <1>5, <1>6
    <1>10. CASE n = Len(list)
        <2>1. \A i \in 1..Len(w) : h[i] < n
            BY <1>2, <1>6, <1>9, <1>10
        <2>2. ASSUME NEW x \in R \ {o}
              PROVE  x \in Marked2
            <3>1. PICK i \in 1..Len(w) : w[i] = x
                BY <1>5
            <3> QED
                BY <1>7, <2>1, <3>1
        <2>3. Range(w) \subseteq Marked2
            BY <1>5, <2>2
        <2> QED
            BY <1>8, <1>10, <2>3 DEF At, w
    <1>11. CASE n # Len(list)
        <2>1. n + 1 \in 1..Len(list) /\ n + 1 # n
            BY <1>1, <1>2, <1>11
        <2>2. list[n + 1] \in R \ {o}
            BY <1>1, <1>2, <2>1
        <2>3. PICK m \in 1..Len(w) : w[m] = list[n + 1]
            <3>1. \A x \in R \ {o} : \E i \in 1..Len(w) : w[i] = x
                BY <1>5
            <3> QED
                BY <2>2, <3>1, Zenon
        <2>4. h[m] = n + 1
            BY <1>2, <1>6, <2>1, <2>3
        <2>5. ASSUME NEW j \in 1..Len(w)
              PROVE  h[j] < n <=> j < m
            <3>1. h[j] \in 1..Len(list) /\ h[j] # n
                BY <1>6, <1>9
            <3>2. j < m => h[j] < n + 1
                BY <1>6, <2>4
            <3>3. m < j => n + 1 < h[j]
                BY <1>6, <2>4
            <3> QED
                BY <1>2, <1>5, <2>4, <3>1, <3>2, <3>3
        <2>6. \A j \in 1..Len(w) : (w[j] \in Marked2 <=> j < m)
            BY <1>7, <2>5
        <2>7. w[m] # Nil
            BY <1>2, <2>2, <2>3, NilIsNoObject
        <2>8. At(w, w[m], Marked2)
            BY <1>5, <2>6, <2>7 DEF At
        <2> QED
            BY <1>8, <1>11, <2>3, <2>8 DEF w
    <1> QED
        BY <1>10, <1>11

\* The lists of a sequence of lists, one after the other.
LEMMA FlattenLists ==
    ASSUME NEW seqs \in Seq(Seq(Object)),
           \A i \in 1..Len(seqs) : IsInjective(seqs[i]),
           \A i, j \in 1..Len(seqs) : i # j => Range(seqs[i]) \cap Range(seqs[j]) = {}
    PROVE  Lists(FlattenSeq(seqs), UNION {Range(seqs[i]) : i \in 1..Len(seqs)})
    <1> DEFINE n == Len(seqs)
               U(k) == UNION {Range(seqs[i]) : i \in 1..k}
    <1>1. n \in Nat /\ \A i \in 1..n : seqs[i] \in Seq(Object)
        BY LenProperties, ElementOfSeq
    <1>2. \A i \in 1..n : Lists(seqs[i], Range(seqs[i]))
        BY <1>1 DEF Lists
    <1>3. CASE n = 0
        <2>1. FlattenSeq(seqs) = seqs
            BY <1>3 DEF FlattenSeq
        <2>2. seqs = <<>>
            BY <1>3, EmptySeq
        <2>3. UNION {Range(seqs[i]) : i \in 1..n} = {}
            BY <1>3
        <2> QED
            BY <2>1, <2>2, <2>3, EmptyLists
    <1>4. CASE n # 0
        <2> DEFINE step == [k \in 1..n |-> [x \in Seq(Object) |->
                                IF k = 1 THEN seqs[k] ELSE x \o seqs[k]]]
                   flatten[i \in 1..n] == IF i = 1 THEN seqs[i] ELSE flatten[i - 1] \o seqs[i]
        <2>1. FlattenSeq(seqs) = flatten[n]
            BY <1>4 DEF FlattenSeq
        <2> HIDE DEF n
        <2>2. step \in [1..n -> [Seq(Object) -> Seq(Object)]]
            <3>1. ASSUME NEW k \in 1..n, NEW x \in Seq(Object)
                  PROVE  (IF k = 1 THEN seqs[k] ELSE x \o seqs[k]) \in Seq(Object)
                BY <1>1, ConcatProperties
            <3> QED
                BY <3>1
        <2>3. \A k \in 1..n, x \in Seq(Object) :
                    step[k][x] = IF k = 1 THEN seqs[k] ELSE x \o seqs[k]
            OBVIOUS
        <2> HIDE DEF step
        <2>4. <<>> \in Seq(Object)
            BY EmptySeq
        <2>5. PICK f \in [0..n -> Seq(Object)] : Recursion(f, n, <<>>, step)
            BY <1>1, <2>2, <2>4, RecursionExists
        <2> DEFINE g == [i \in 1..n |-> f[i]]
        <2>6. ASSUME NEW i \in 1..n
              PROVE  g[i] = IF i = 1 THEN seqs[i] ELSE g[i - 1] \o seqs[i]
            <3>1. i \in 0..n /\ i # 0 /\ i - 1 \in 0..n
                BY <1>1
            <3>2. f[i] = step[i][f[i - 1]] /\ f[i - 1] \in Seq(Object)
                BY <2>5, <3>1 DEF Recursion
            <3>3. f[i] = IF i = 1 THEN seqs[i] ELSE f[i - 1] \o seqs[i]
                BY <2>3, <3>2
            <3>4. i # 1 => i - 1 \in 1..n
                BY <1>1
            <3> QED
                BY <3>3, <3>4
        <2>7. g = [i \in 1..n |-> IF i = 1 THEN seqs[i] ELSE g[i - 1] \o seqs[i]]
            BY <2>6
        <2> HIDE DEF g
        <2>8. flatten = [i \in 1..n |-> IF i = 1 THEN seqs[i] ELSE flatten[i - 1] \o seqs[i]]
            BY <2>7, Zenon
        <2> HIDE DEF flatten
        <2>9. \A i \in 1..n : flatten[i] = IF i = 1 THEN seqs[i] ELSE flatten[i - 1] \o seqs[i]
            BY <2>8, Zenon
        <2> DEFINE P == {k \in 0..n : k # 0 => Lists(flatten[k], U(k))}
        <2>10. 0 \in P
            BY <1>1
        <2>11. ASSUME NEW k \in 0..n, k < n, k \in P
               PROVE  k + 1 \in P
            <3>1. k + 1 \in 1..n /\ k + 1 \in 0..n /\ (k + 1) - 1 = k
                BY <1>1, <2>11
            <3>2. Lists(seqs[k + 1], Range(seqs[k + 1]))
                BY <1>2, <3>1
            <3>3. U(k + 1) = U(k) \cup Range(seqs[k + 1])
                <4>1. 1..(k + 1) = (1..k) \cup {k + 1}
                    BY <1>1
                <4> QED
                    BY <4>1
            <3>4. CASE k = 0
                <4>1. flatten[k + 1] = seqs[k + 1]
                    BY <2>9, <3>1, <3>4
                <4>2. U(k) = {}
                    BY <3>4
                <4>3. U(k + 1) = Range(seqs[k + 1])
                    BY <3>3, <4>2
                <4> HIDE DEF U
                <4> QED
                    BY <3>1, <3>2, <4>1, <4>3
            <3>5. CASE k # 0
                <4>5. k + 1 # 1
                    BY <1>1, <3>5
                <4>1. flatten[k + 1] = flatten[k] \o seqs[k + 1]
                    BY <2>9, <3>1, <4>5, Zenon
                <4>2. Lists(flatten[k], U(k))
                    BY <2>11, <3>5
                <4>3. U(k) \cap Range(seqs[k + 1]) = {}
                    <5>1. \A i \in 1..k : i \in 1..n /\ i # k + 1
                        BY <1>1, <3>1
                    <5>2. \A i \in 1..k : Range(seqs[i]) \cap Range(seqs[k + 1]) = {}
                        BY <3>1, <5>1 DEF n
                    <5> QED
                        BY <5>2
                <4> HIDE DEF U
                <4>6. Lists(flatten[k] \o seqs[k + 1], U(k) \cup Range(seqs[k + 1]))
                    BY <3>2, <4>2, <4>3, ConcatLists, Zenon
                <4>4. Lists(flatten[k + 1], U(k + 1))
                    BY <3>3, <4>1, <4>6, Zenon
                <4> QED
                    BY <3>1, <4>4
            <3> QED
                BY <3>4, <3>5
        <2> HIDE DEF P
        <2>12. 0..n \subseteq P
            BY <1>1, <2>10, <2>11, UpTo
        <2>14. n \in P
            BY <1>1, <2>12
        <2>13. Lists(flatten[n], U(n))
            BY <1>4, <2>14, Zenon DEF P
        <2> QED
            BY <2>1, <2>13 DEF n
    <1> QED
        BY <1>3, <1>4

\* A set of objects as a list.
LEMMA ObjectsFinite ==
    ASSUME NEW S \in SUBSET Object
    PROVE  IsFiniteSet(S) /\ Cardinality(S) \in Nat
    <1>1. NumObjects \in Nat
        BY GenerationAssumption
    <1>2. IsFiniteSet(1..NumObjects)
        BY <1>1, FS_Interval
    <1>3. IsFiniteSet(S)
        BY <1>2, FS_Subset DEF Object
    <1> QED
        BY <1>3, FS_CardinalityType

\* SetToSeq lists the elements of a set.
LEMMA SetLists ==
    ASSUME NEW S \in SUBSET Object
    PROVE  Lists(SetToSeq(S), S)
    <1> DEFINE n == Cardinality(S)
               list == SetToSeq(S)
    <1>1. IsFiniteSet(S) /\ n \in Nat
        BY ObjectsFinite
    <1>2. ExistsBijection(1..n, S)
        BY <1>1, FS_CardinalityType
    <1>3. PICK f \in [1..n -> S] : IsInjective(f)
        BY <1>2 DEF ExistsBijection, Bijection, Injection
    <1>4. list \in [1..n -> S] /\ IsInjective(list)
        BY <1>3, Zenon DEF SetToSeq
    <1> HIDE DEF list
    <1>5. list \in Injection(1..n, S)
        BY <1>4 DEF Injection
    <1>6. Cardinality(1..n) = n
        <2> HIDE DEF n
        <2>1. Cardinality(1..n) = IF 1 > n THEN 0 ELSE n - 1 + 1
            BY <1>1, FS_Interval
        <2> QED
            BY <1>1, <2>1
    <1>7. list \in Surjection(1..n, S)
        BY <1>1, <1>5, <1>6, FS_Injection
    <1> HIDE DEF n
    <1>8. \A x \in S : \E i \in 1..n : list[i] = x
        BY <1>7 DEF Surjection
    <1>9. Range(list) = S
        BY <1>4, <1>8 DEF Range
    <1>10. list \in Seq(Object)
        BY <1>1, <1>4
    <1> QED
        BY <1>4, <1>9, <1>10 DEF Lists, list

\* The greatest of a set of generations is one of them.
LEMMA MaxIsElement ==
    ASSUME NEW n \in Nat, NEW S \in SUBSET (1..n), S # {}
    PROVE  Max(S) \in S
    <1> DEFINE T == {n - k : k \in S}
    <1>0. \A k \in S : k \in Int /\ n - k \in Nat
        OBVIOUS
    <1>1. T \in SUBSET Nat /\ T # {}
        BY <1>0
    <1>2. PICK m \in T : \A l \in T : m <= l
        BY <1>1, LeastElement
    <1>3. PICK k \in S : m = n - k
        BY <1>2
    <1>4. ASSUME NEW l \in S
          PROVE  k >= l
        <2>1. n - l \in T
            OBVIOUS
        <2>2. n - k <= n - l
            BY <1>2, <1>3, <2>1
        <2> QED
            BY <1>0, <2>2
    <1>5. \E x \in S : \A y \in S : x >= y
        BY <1>4
    <1> QED
        BY <1>5, Zenon DEF Max

--------------------------------------------------------------------------------
(* Counting.                                                               *)

\* How often o is in list.
Occurrences(list, o) == Cardinality({k \in DOMAIN list : list[k] = o})

\* How often the object n refers to o when its fields are those of f.
FieldsTo(f, n, o) == One(f[n][1] = o) + One(n \in Pair /\ f[n][2] = o)

\* What ReferencesTo is for the fields f.
CountTo(f, o, S) ==
    Cardinality({n \in S : f[n][1] = o}) + Cardinality({n \in S \cap Pair : f[n][2] = o})

\* One is 1 or 0.
LEMMA OneType == \A b : One(b) \in Nat /\ (b => One(b) = 1) /\ (~b => One(b) = 0)
    BY DEF One

\* A bijection that is given preserves cardinality.
LEMMA SameSize ==
    ASSUME NEW S, NEW T, IsFiniteSet(S), NEW f \in [S -> T],
           \A x, y \in S : f[x] = f[y] => x = y,
           \A z \in T : \E x \in S : f[x] = z
    PROVE  IsFiniteSet(T) /\ Cardinality(T) = Cardinality(S)
    <1>1. f \in Injection(S, T)
        BY DEF Injection, IsInjective
    <1>2. f \in Surjection(S, T)
        BY DEF Surjection
    <1>3. ExistsBijection(S, T)
        BY <1>1, <1>2 DEF ExistsBijection, Bijection
    <1> QED
        BY <1>3, FS_Bijection

\* Sets of positions are finite.
LEMMA IndicesFinite ==
    ASSUME NEW n \in Nat, NEW K \in SUBSET (1..n)
    PROVE  IsFiniteSet(K) /\ Cardinality(K) \in Nat
    <1>1. IsFiniteSet(1..n)
        BY FS_Interval
    <1>2. IsFiniteSet(K)
        BY <1>1, FS_Subset
    <1> QED
        BY <1>2, FS_CardinalityType

\* A list has no occurrence of what is not in it.
LEMMA OccurrencesType ==
    ASSUME NEW T, NEW list \in Seq(T), NEW o
    PROVE  /\ Occurrences(list, o) \in Nat
           /\ Occurrences(list, o) = 0 <=> o \notin Range(list)
    <1> DEFINE K == {k \in DOMAIN list : list[k] = o}
    <1>1. DOMAIN list = 1..Len(list) /\ Len(list) \in Nat
        BY ListElements
    <1>2. IsFiniteSet(K) /\ Cardinality(K) \in Nat
        BY <1>1, IndicesFinite
    <1>3. Cardinality(K) = 0 <=> K = {}
        BY <1>2, FS_EmptySet
    <1>4. K = {} <=> o \notin Range(list)
        BY DEF Range
    <1> QED
        BY <1>2, <1>3, <1>4 DEF Occurrences

\* Py_DECREF takes one occurrence off the head of pending.
LEMMA OccurrencesTail ==
    ASSUME NEW T, NEW list \in Seq(T), list # <<>>, NEW o
    PROVE  Occurrences(list, o) = Occurrences(Tail(list), o) + One(Head(list) = o)
    <1> DEFINE n == Len(list)
               t == Tail(list)
               K == {k \in 1..n : list[k] = o}
               L == {k \in 1..(n - 1) : t[k] = o}
               f == [k \in L |-> k + 1]
    <1>1. n \in Nat \ {0} /\ DOMAIN list = 1..n /\ Head(list) = list[1]
        BY ListElements, EmptySeq
    <1>2. t \in Seq(T) /\ Len(t) = n - 1 /\ \A k \in 1..(n - 1) : t[k] = list[k + 1]
        BY HeadTailProperties
    <1>3. DOMAIN t = 1..(n - 1)
        BY <1>2, ListElements
    <1> HIDE DEF n, t
    <1>4. IsFiniteSet(K) /\ Cardinality(K) \in Nat /\ IsFiniteSet(L) /\ Cardinality(L) \in Nat
        <2>1. n - 1 \in Nat /\ K \in SUBSET (1..n) /\ L \in SUBSET (1..(n - 1))
            BY <1>1
        <2> HIDE DEF K, L
        <2> QED
            BY <1>1, <2>1, IndicesFinite
    <1>5. f \in [L -> K \ {1}]
        <2>1. \A k \in L : k + 1 \in 1..n /\ k + 1 # 1 /\ list[k + 1] = o
            BY <1>1, <1>2
        <2> QED
            BY <2>1
    <1>6. \A k \in K \ {1} : k - 1 \in L /\ (k - 1) + 1 = k
        <2> SUFFICES ASSUME NEW k \in K \ {1} PROVE k - 1 \in L /\ (k - 1) + 1 = k
            OBVIOUS
        <2>1. k - 1 \in 1..(n - 1) /\ (k - 1) + 1 = k
            BY <1>1
        <2>2. t[k - 1] = list[k]
            BY <1>2, <2>1
        <2> QED
            BY <2>1, <2>2
    <1>7. \A k, l \in L : f[k] = f[l] => k = l
        OBVIOUS
    <1>8. \A z \in K \ {1} : \E k \in L : f[k] = z
        <2> SUFFICES ASSUME NEW z \in K \ {1} PROVE \E k \in L : f[k] = z
            OBVIOUS
        <2>1. z - 1 \in L /\ f[z - 1] = z
            BY <1>6
        <2> QED
            BY <2>1
    <1> HIDE DEF K, L, f
    <1>9. Cardinality(K \ {1}) = Cardinality(L)
        BY <1>4, <1>5, <1>7, <1>8, SameSize
    <1>10. Cardinality(K \ {1}) = IF 1 \in K THEN Cardinality(K) - 1 ELSE Cardinality(K)
        BY <1>4, FS_RemoveElement
    <1>11. 1 \in K <=> list[1] = o
        BY <1>1 DEF K
    <1>12. Occurrences(list, o) = Cardinality(K) /\ Occurrences(t, o) = Cardinality(L)
        BY <1>1, <1>3 DEF Occurrences, K, L
    <1>13. Cardinality(K) = Cardinality(L) + One(Head(list) = o)
        BY <1>1, <1>4, <1>9, <1>10, <1>11 DEF One
    <1> QED
        BY <1>12, <1>13 DEF t

\* What a cascade adds to pending.
LEMMA OccurrencesConcat ==
    ASSUME NEW T, NEW s \in Seq(T), NEW t \in Seq(T), NEW o
    PROVE  Occurrences(s \o t, o) = Occurrences(s, o) + Occurrences(t, o)
    <1> DEFINE m == Len(s)
               n == Len(t)
               v == s \o t
               K == {k \in 1..m : s[k] = o}
               L == {k \in 1..n : t[k] = o}
               M == {k \in (m + 1)..(m + n) : t[k - m] = o}
               V == {k \in 1..(m + n) : v[k] = o}
               f == [k \in L |-> k + m]
    <1>1. m \in Nat /\ n \in Nat /\ DOMAIN s = 1..m /\ DOMAIN t = 1..n
        BY ListElements
    <1>2. v \in Seq(T) /\ Len(v) = m + n
          /\ \A i \in 1..(m + n) : v[i] = IF i <= m THEN s[i] ELSE t[i - m]
        BY ConcatProperties
    <1>3. DOMAIN v = 1..(m + n)
        BY <1>2, ListElements
    <1> HIDE DEF m, n, v
    <1>4. IsFiniteSet(K) /\ Cardinality(K) \in Nat /\ IsFiniteSet(L) /\ Cardinality(L) \in Nat
        BY <1>1, IndicesFinite
    <1>5. V = K \cup M /\ K \cap M = {}
        <2>1. \A k \in 1..(m + n) : IF k <= m THEN k \in 1..m /\ k \notin (m + 1)..(m + n)
                                    ELSE k \in (m + 1)..(m + n) /\ k \notin 1..m
            BY <1>1
        <2>2. \A k \in 1..m : k \in 1..(m + n) /\ k <= m
            BY <1>1
        <2>3. \A k \in (m + 1)..(m + n) : k \in 1..(m + n) /\ ~(k <= m)
            BY <1>1
        <2>4. \A k \in V : k \in K \cup M
            BY <1>2, <2>1
        <2>5. \A k \in K \cup M : k \in V
            BY <1>2, <2>2, <2>3
        <2>6. \A k \in K : k \notin M
            BY <2>2, <2>3
        <2> QED
            BY <2>4, <2>5, <2>6
    <1>6. f \in [L -> M]
        <2>1. \A k \in L : k + m \in (m + 1)..(m + n) /\ (k + m) - m = k
            BY <1>1
        <2> QED
            BY <2>1
    <1>7. \A k, l \in L : f[k] = f[l] => k = l
        BY <1>1
    <1>8. ASSUME NEW z \in M
          PROVE  \E k \in L : f[k] = z
        <2>1. z - m \in 1..n /\ (z - m) + m = z
            BY <1>1
        <2>2. z - m \in L /\ f[z - m] = z
            BY <2>1
        <2> QED
            BY <2>2
    <1> HIDE DEF K, L, M, V, f
    <1>9. IsFiniteSet(M) /\ Cardinality(M) = Cardinality(L)
        BY <1>4, <1>6, <1>7, <1>8, SameSize
    <1>10. Cardinality(V) = Cardinality(K) + Cardinality(M) - Cardinality(K \cap M)
        BY <1>4, <1>5, <1>9, FS_Union
    <1>11. Cardinality(K \cap M) = 0
        BY <1>5, FS_EmptySet
    <1>12. Cardinality(V) = Cardinality(K) + Cardinality(L)
        BY <1>4, <1>9, <1>10, <1>11
    <1>13. /\ Occurrences(s, o) = Cardinality(K)
           /\ Occurrences(t, o) = Cardinality(L)
           /\ Occurrences(v, o) = Cardinality(V)
        BY <1>1, <1>3 DEF Occurrences, K, L, V
    <1> QED
        BY <1>12, <1>13 DEF v

\* Selecting the objects of S keeps each occurrence of one of them.
LEMMA OccurrencesWithin ==
    ASSUME NEW T, NEW list \in Seq(T), NEW S, NEW o \in S
    PROVE  Occurrences(Within(list, S), o) = Occurrences(list, o)
    <1> DEFINE w == Within(list, S)
               K == {k \in 1..Len(w) : w[k] = o}
               L == {k \in 1..Len(list) : list[k] = o}
    <1>1. w \in Seq(T)
        BY WithinPicks
    <1>2. PICK h : Picks(w, h, list, Len(list), S)
        BY WithinPicks
    <1> DEFINE f == [k \in K |-> h[k]]
    <1>3. DOMAIN w = 1..Len(w) /\ Len(w) \in Nat /\ DOMAIN list = 1..Len(list) /\ Len(list) \in Nat
        BY <1>1, ListElements
    <1> HIDE DEF w
    <1>4. IsFiniteSet(K)
        BY <1>3, IndicesFinite
    <1>5. /\ \A i \in 1..Len(w) : h[i] \in 1..Len(list) /\ w[i] = list[h[i]]
          /\ \A i, j \in 1..Len(w) : i < j => h[i] < h[j]
          /\ \A l \in 1..Len(list) : list[l] \in S => \E i \in 1..Len(w) : h[i] = l
        BY <1>2 DEF Picks
    <1>6. f \in [K -> L]
        BY <1>5
    <1>7. ASSUME NEW i \in K, NEW j \in K, f[i] = f[j]
          PROVE  i = j
        <2>1. i \in 1..Len(w) /\ j \in 1..Len(w) /\ h[i] = h[j] /\ h[i] \in 1..Len(list)
            BY <1>5, <1>7
        <2>2. ~(i < j) /\ ~(j < i)
            BY <1>3, <1>5, <2>1
        <2> QED
            BY <1>3, <2>1, <2>2
    <1>8. ASSUME NEW l \in L
          PROVE  \E i \in K : f[i] = l
        <2>1. PICK i \in 1..Len(w) : h[i] = l
            BY <1>5
        <2> QED
            BY <1>5, <2>1
    <1>9. Occurrences(w, o) = Cardinality(K) /\ Occurrences(list, o) = Cardinality(L)
        BY <1>3 DEF Occurrences
    <1> HIDE DEF K, L, f
    <1>10. Cardinality(L) = Cardinality(K)
        BY <1>4, <1>6, <1>7, <1>8, SameSize
    <1> QED
        BY <1>9, <1>10 DEF w

\* The occurrences in the fields of an object with one reference or two.
LEMMA OccurrencesFields ==
    ASSUME NEW n \in {1, 2}, NEW T, NEW f \in [1..n -> T], NEW o
    PROVE  Occurrences(f, o) = One(f[1] = o) + (IF n = 2 THEN One(f[2] = o) ELSE 0)
    <1> DEFINE A == IF f[1] = o THEN {1} ELSE {}
               B == IF n = 2 /\ f[2] = o THEN {2} ELSE {}
    <1>1. {k \in DOMAIN f : f[k] = o} = A \cup B
        OBVIOUS
    <1>2. IsFiniteSet(A) /\ Cardinality(A) = One(f[1] = o)
        BY FS_EmptySet, FS_Singleton DEF One
    <1>3. IsFiniteSet(B) /\ Cardinality(B) = One(n = 2 /\ f[2] = o)
        BY FS_EmptySet, FS_Singleton DEF One
    <1>4. A \cap B = {}
        OBVIOUS
    <1> HIDE DEF A, B
    <1>5. Cardinality(A \cup B) = Cardinality(A) + Cardinality(B) - Cardinality(A \cap B)
        BY <1>2, <1>3, FS_Union
    <1>6. Cardinality(A \cap B) = 0
        BY <1>4, FS_EmptySet
    <1>7. One(f[1] = o) \in Nat /\ One(n = 2 /\ f[2] = o) \in Nat
        BY DEF One
    <1>8. Cardinality(A \cup B) = One(f[1] = o) + One(n = 2 /\ f[2] = o)
        BY <1>2, <1>3, <1>5, <1>6, <1>7
    <1>9. One(n = 2 /\ f[2] = o) = IF n = 2 THEN One(f[2] = o) ELSE 0
        BY DEF One
    <1> QED
        BY <1>1, <1>8, <1>9 DEF Occurrences

\* A function on 1..n is a sequence.
LEMMA FunctionIsSeq ==
    ASSUME NEW T, NEW n \in Nat, NEW f \in [1..n -> T]
    PROVE  /\ f \in Seq(T)
           /\ Len(f) = n
           /\ DOMAIN f = 1..n
           /\ \A i \in 1..n : f[i] \in T
    <1>1. f \in Seq(T)
        OBVIOUS
    <1>2. DOMAIN f = 1..n /\ \A i \in 1..n : f[i] \in T
        OBVIOUS
    <1>3. Len(f) \in Nat /\ 1..Len(f) = 1..n
        BY <1>1, <1>2, LenProperties
    <1>4. \A l \in Nat : 1..l = 1..n => l = n
        <2> SUFFICES ASSUME NEW l \in Nat, 1..l = 1..n PROVE l = n
            OBVIOUS
        <2>1. ~(l < n)
            <3>1. l < n => n \in 1..n /\ n \notin 1..l
                OBVIOUS
            <3> QED
                BY <3>1
        <2>2. ~(n < l)
            <3>1. n < l => l \in 1..l /\ l \notin 1..n
                OBVIOUS
            <3> QED
                BY <3>1
        <2> QED
            BY <2>1, <2>2
    <1> QED
        BY <1>1, <1>2, <1>3, <1>4

\* The fields of one object.
LEMMA FieldFacts ==
    ASSUME NEW f, FieldsOK(f), NEW n \in Object
    PROVE  /\ f[n] \in Seq(Object \cup {Nil})
           /\ n \in Pair => DOMAIN f[n] = {1, 2} /\ Len(f[n]) = 2
           /\ n \notin Pair => DOMAIN f[n] = {1} /\ Len(f[n]) = 1
           /\ \A i \in DOMAIN f[n] : f[n][i] \in Object \cup {Nil}
    <1>1. CASE n \in Pair
        <2>1. f[n] \in [1..2 -> Object \cup {Nil}]
            BY <1>1 DEF FieldsOK
        <2>2. /\ f[n] \in Seq(Object \cup {Nil})
              /\ Len(f[n]) = 2
              /\ DOMAIN f[n] = 1..2
              /\ \A i \in 1..2 : f[n][i] \in Object \cup {Nil}
            BY <2>1, FunctionIsSeq
        <2> QED
            BY <1>1, <2>2
    <1>2. CASE n \notin Pair
        <2>1. f[n] \in [1..1 -> Object \cup {Nil}]
            BY <1>2 DEF FieldsOK
        <2>2. /\ f[n] \in Seq(Object \cup {Nil})
              /\ Len(f[n]) = 1
              /\ DOMAIN f[n] = 1..1
              /\ \A i \in 1..1 : f[n][i] \in Object \cup {Nil}
            BY <2>1, FunctionIsSeq
        <2> QED
            BY <1>2, <2>2
    <1> QED
        BY <1>1, <1>2

\* How often an object refers to another one.
LEMMA FieldsToFacts ==
    ASSUME NEW f, FieldsOK(f), NEW n \in Object, NEW o
    PROVE  /\ FieldsTo(f, n, o) \in Nat
           /\ FieldsTo(f, n, o) = 0 <=> \A i \in DOMAIN f[n] : f[n][i] # o
           /\ FieldsTo(f, n, o) = Occurrences(f[n], o)
    <1>1. FieldsTo(f, n, o) \in Nat
        BY DEF FieldsTo, One
    <1>2. FieldsTo(f, n, o) = 0 <=> \A i \in DOMAIN f[n] : f[n][i] # o
        BY FieldFacts DEF FieldsTo, One
    <1>3. FieldsTo(f, n, o) = Occurrences(f[n], o)
        <2> DEFINE k == IF n \in Pair THEN 2 ELSE 1
                   v == f[n]
        <2>1. v \in [1..k -> Object \cup {Nil}] /\ k \in {1, 2} /\ (k = 2 <=> n \in Pair)
            BY DEF FieldsOK
        <2> HIDE DEF k, v
        <2>2. Occurrences(v, o) = One(v[1] = o) + (IF k = 2 THEN One(v[2] = o) ELSE 0)
            BY <2>1, OccurrencesFields DEF One
        <2>3. FieldsTo(f, n, o) = One(v[1] = o) + (IF k = 2 THEN One(v[2] = o) ELSE 0)
            BY <2>1 DEF v, FieldsTo, One
        <2> QED
            BY <2>2, <2>3 DEF v
    <1> QED
        BY <1>1, <1>2, <1>3

\* An object without references refers to nothing.
LEMMA NoReferencesFacts ==
    ASSUME NEW n \in Object
    PROVE  /\ NoReferences(n) \in [1..(IF n \in Pair THEN 2 ELSE 1) -> Object \cup {Nil}]
           /\ \A i \in DOMAIN NoReferences(n) : NoReferences(n)[i] = Nil
    BY DEF NoReferences, NullFields

\* A new or cleared object refers to nothing.
LEMMA ClearedFields ==
    ASSUME NEW f, NEW n \in Object, f[n] = NoReferences(n), NEW o \in Object
    PROVE  FieldsTo(f, n, o) = 0
    <1>1. NoReferences(n)[1] = Nil /\ (n \in Pair => NoReferences(n)[2] = Nil)
        BY DEF NoReferences, NullFields
    <1> QED
        BY <1>1, NilIsNoObject DEF FieldsTo, One

\* What tp_traverse visits, and what a walk does with it.
LEMMA ReferencesFacts ==
    ASSUME FieldsOK(field), NEW n \in Object
    PROVE  /\ References(n) \in Seq(Object)
           /\ \A o : o \in Range(References(n)) <=> o \in Object /\ Refers(n, o)
           /\ \A o \in Object : Occurrences(References(n), o) = FieldsTo(field, n, o)
           /\ Lists(Distinct(References(n)), {o \in Object : Refers(n, o)})
    <1> DEFINE w == References(n)
               R == {o \in Object : Refers(n, o)}
    <1>1. field[n] \in Seq(Object \cup {Nil}) /\ Len(field[n]) \in {1, 2}
        BY FieldFacts
    <1>2. w \in Seq(Object \cup {Nil}) /\ Range(w) = Range(field[n]) \cap Object
        BY <1>1, WithinRange DEF References
    <1>3. \A o : o \in Range(field[n]) <=> Refers(n, o)
        BY DEF Refers, Range
    <1>4. w \in Seq(Object)
        <2>1. w \in Seq(Range(w))
            BY <1>2, SeqOfRange
        <2>2. Range(w) \subseteq Object
            BY <1>2
        <2> HIDE DEF w
        <2> QED
            BY <2>1, <2>2, SeqMonotonic
    <1>5. \A o \in Object : Occurrences(w, o) = FieldsTo(field, n, o)
        BY <1>1, OccurrencesWithin, FieldsToFacts DEF References
    <1>6. Len(w) \in Nat /\ Len(w) <= 2
        <2>1. PICK h : Picks(w, h, field[n], Len(field[n]), Object)
            BY <1>1, WithinPicks DEF References
        <2>2. Len(w) \in Nat
            BY <1>4, ListElements
        <2> HIDE DEF w
        <2>3. SUFFICES ASSUME Len(w) > 2 PROVE FALSE
            BY <2>2
        <2>4. 1 \in 1..Len(w) /\ 2 \in 1..Len(w) /\ 3 \in 1..Len(w)
            BY <2>2, <2>3
        <2>5. h[1] \in 1..2 /\ h[2] \in 1..2 /\ h[3] \in 1..2 /\ h[1] < h[2] /\ h[2] < h[3]
            BY <1>1, <2>1, <2>4 DEF Picks
        <2> QED
            BY <2>5
    <1>7. Lists(Distinct(w), R)
        <2>1. Range(w) = R
            BY <1>2, <1>3
        <2> HIDE DEF w, R
        <2>2. /\ \A i \in 1..Len(w) : w[i] \in R
              /\ \A x \in R : \E i \in 1..Len(w) : w[i] = x
            BY <1>4, <2>1, ListElements
        <2>3. CASE Len(w) = 2 /\ w[1] = w[2]
            <3> DEFINE v == <<w[1]>>
            <3>1. 1 \in 1..Len(w) /\ w[1] \in R /\ w[1] \in Object
                BY <1>4, <2>2, <2>3, ElementOfSeq
            <3>2. v \in Seq(Object) /\ Len(v) = 1 /\ v[1] = w[1] /\ Distinct(w) = v
                BY <2>3, <3>1 DEF Distinct
            <3>3. \A x \in R : x = w[1]
                BY <2>2, <2>3
            <3> HIDE DEF v
            <3>4. Lists(v, R)
                BY <3>1, <3>2, <3>3, ListsFromElements
            <3> QED
                BY <3>2, <3>4
        <2>4. CASE ~(Len(w) = 2 /\ w[1] = w[2])
            <3>4. \A l \in Nat : l <= 2 => \A i \in 1..l : i = 1 \/ (i = 2 /\ l = 2)
                OBVIOUS
            <3>3. \A i \in 1..Len(w) : i = 1 \/ (i = 2 /\ Len(w) = 2)
                BY <1>6, <3>4
            <3>1. \A i, j \in 1..Len(w) : w[i] = w[j] => i = j
                BY <2>4, <3>3
            <3>2. Lists(w, R)
                BY <1>4, <2>2, <3>1, ListsFromElements
            <3> QED
                BY <2>4, <3>2 DEF Distinct
        <2> QED
            BY <2>3, <2>4
    <1> QED
        BY <1>2, <1>3, <1>4, <1>5, <1>7

--------------------------------------------------------------------------------
(* Sums over the objects.                                                  *)

\* The references from a set of objects: none if none of them refers to o.
LEMMA CountType ==
    ASSUME NEW f, NEW S \in SUBSET Object, NEW o
    PROVE  /\ CountTo(f, o, S) \in Nat
           /\ CountTo(f, o, S) = 0 <=> \A n \in S : FieldsTo(f, n, o) = 0
    <1> DEFINE A == {n \in S : f[n][1] = o}
               B == {n \in S \cap Pair : f[n][2] = o}
    <1>1. A \in SUBSET Object /\ B \in SUBSET Object
        OBVIOUS
    <1>2. /\ IsFiniteSet(A) /\ Cardinality(A) \in Nat
          /\ IsFiniteSet(B) /\ Cardinality(B) \in Nat
        BY <1>1, ObjectsFinite
    <1>3. (Cardinality(A) = 0 <=> A = {}) /\ (Cardinality(B) = 0 <=> B = {})
        BY <1>2, FS_EmptySet
    <1>4. CountTo(f, o, S) = Cardinality(A) + Cardinality(B)
        BY DEF CountTo
    <1>5. A = {} /\ B = {} <=> \A n \in S : FieldsTo(f, n, o) = 0
        BY DEF FieldsTo, One
    <1> HIDE DEF A, B
    <1> QED
        BY <1>2, <1>3, <1>4, <1>5

\* Only the fields of the objects counted matter.
LEMMA CountSame ==
    ASSUME NEW f, NEW g, NEW S, \A n \in S : f[n] = g[n], NEW o
    PROVE  CountTo(f, o, S) = CountTo(g, o, S)
    <1>1. {n \in S : f[n][1] = o} = {n \in S : g[n][1] = o}
        OBVIOUS
    <1>2. {n \in S \cap Pair : f[n][2] = o} = {n \in S \cap Pair : g[n][2] = o}
        OBVIOUS
    <1> QED
        BY <1>1, <1>2 DEF CountTo

\* The references from S and those from outside S are all.
LEMMA CountSplit ==
    ASSUME NEW f, NEW S \in SUBSET Object, NEW o
    PROVE  CountTo(f, o, Object) = CountTo(f, o, S) + CountTo(f, o, Object \ S)
    <1> DEFINE A(X) == {n \in X : f[n][1] = o}
               B(X) == {n \in X \cap Pair : f[n][2] = o}
               R == Object \ S
    <1>1. \A X \in SUBSET Object : /\ IsFiniteSet(A(X)) /\ Cardinality(A(X)) \in Nat
                                   /\ IsFiniteSet(B(X)) /\ Cardinality(B(X)) \in Nat
        <2> SUFFICES ASSUME NEW X \in SUBSET Object
                     PROVE  /\ IsFiniteSet(A(X)) /\ Cardinality(A(X)) \in Nat
                            /\ IsFiniteSet(B(X)) /\ Cardinality(B(X)) \in Nat
            OBVIOUS
        <2>1. A(X) \in SUBSET Object /\ B(X) \in SUBSET Object
            OBVIOUS
        <2> QED
            BY <2>1, ObjectsFinite
    <1>2. /\ A(Object) = A(S) \cup A(R) /\ A(S) \cap A(R) = {}
          /\ B(Object) = B(S) \cup B(R) /\ B(S) \cap B(R) = {}
        OBVIOUS
    <1>3. R \in SUBSET Object /\ Object \in SUBSET Object
        OBVIOUS
    <1>4. \A X : CountTo(f, o, X) = Cardinality(A(X)) + Cardinality(B(X))
        BY DEF CountTo
    <1> HIDE DEF A, B, R
    <1>5. Cardinality(A(Object)) = Cardinality(A(S)) + Cardinality(A(R)) - Cardinality(A(S) \cap A(R))
        BY <1>1, <1>2, <1>3, FS_Union
    <1>6. Cardinality(B(Object)) = Cardinality(B(S)) + Cardinality(B(R)) - Cardinality(B(S) \cap B(R))
        BY <1>1, <1>2, <1>3, FS_Union
    <1>7. Cardinality(A(S) \cap A(R)) = 0 /\ Cardinality(B(S) \cap B(R)) = 0
        BY <1>2, FS_EmptySet
    <1>8. /\ Cardinality(A(S)) \in Nat /\ Cardinality(A(R)) \in Nat
          /\ Cardinality(B(S)) \in Nat /\ Cardinality(B(R)) \in Nat
        BY <1>1, <1>3
    <1>9. CountTo(f, o, Object) = CountTo(f, o, S) + CountTo(f, o, R)
        BY <1>4, <1>5, <1>6, <1>7, <1>8
    <1> QED
        BY <1>9 DEF R

\* The references from a single object.
LEMMA CountOne ==
    ASSUME NEW f, NEW n \in Object, NEW o
    PROVE  CountTo(f, o, {n}) = FieldsTo(f, n, o)
    <1> DEFINE A == {m \in {n} : f[m][1] = o}
               B == {m \in {n} \cap Pair : f[m][2] = o}
    <1>1. A = IF f[n][1] = o THEN {n} ELSE {}
        OBVIOUS
    <1>2. B = IF n \in Pair /\ f[n][2] = o THEN {n} ELSE {}
        OBVIOUS
    <1>3. CountTo(f, o, {n}) = Cardinality(A) + Cardinality(B)
        BY DEF CountTo
    <1> HIDE DEF A, B
    <1>4. Cardinality(A) = One(f[n][1] = o)
        BY <1>1, FS_EmptySet, FS_Singleton DEF One
    <1>5. Cardinality(B) = One(n \in Pair /\ f[n][2] = o)
        BY <1>2, FS_EmptySet, FS_Singleton DEF One
    <1> QED
        BY <1>3, <1>4, <1>5 DEF FieldsTo

\* The fields of one object change.
SameBut(f, g, n) == \A m \in Object \ {n} : f[m] = g[m]

\* What changes in the count of references when one object's fields do.
LEMMA CountUpdate ==
    ASSUME NEW f, NEW g, NEW n \in Object, SameBut(f, g, n), NEW o
    PROVE  CountTo(g, o, Object) + FieldsTo(f, n, o) = CountTo(f, o, Object) + FieldsTo(g, n, o)
    <1> DEFINE R == Object \ {n}
    <1>1. {n} \in SUBSET Object /\ R \in SUBSET Object
        OBVIOUS
    <1>2. CountTo(f, o, Object) = FieldsTo(f, n, o) + CountTo(f, o, R)
        <2>1. CountTo(f, o, Object) = CountTo(f, o, {n}) + CountTo(f, o, Object \ {n})
            BY <1>1, CountSplit, Zenon
        <2> QED
            BY <2>1, CountOne
    <1>3. CountTo(g, o, Object) = FieldsTo(g, n, o) + CountTo(g, o, R)
        <2>1. CountTo(g, o, Object) = CountTo(g, o, {n}) + CountTo(g, o, Object \ {n})
            BY <1>1, CountSplit, Zenon
        <2> QED
            BY <2>1, CountOne
    <1>4. CountTo(f, o, R) = CountTo(g, o, R)
        BY CountSame DEF SameBut
    <1>5. CountTo(f, o, R) \in Nat
        BY <1>1, CountType
    <1>6. FieldsTo(f, n, o) \in Nat /\ FieldsTo(g, n, o) \in Nat
        BY DEF FieldsTo, One
    <1> HIDE DEF R
    <1> QED
        BY <1>2, <1>3, <1>4, <1>5, <1>6

--------------------------------------------------------------------------------
(* The lists of a collection.                                              *)

\* L is a sequence of lists that have each object of S exactly once.
Disjoint(L, S) ==
    /\ \A k \in DOMAIN L : IsInjective(L[k])
    /\ \A k, l \in DOMAIN L : k # l => Range(L[k]) \cap Range(L[l]) = {}
    /\ UNION {Range(L[k]) : k \in DOMAIN L} = S

Generation == 1..NUM_GENERATIONS

\* The generations are numbered from 1, and there is one.
LEMMA GenerationFacts ==
    /\ NUM_GENERATIONS \in Nat \ {0}
    /\ 1 \in Generation
    /\ \A g \in Generation : g \in Nat /\ g # 0
    BY GenerationAssumption DEF Generation

\* The lists one by one.
AreAllLists(L, gens, u, f, w) ==
    /\ DOMAIN L = 1..(NUM_GENERATIONS + 3)
    /\ \A g \in Generation : L[g] = gens[g]
    /\ L[NUM_GENERATIONS + 1] = u
    /\ L[NUM_GENERATIONS + 2] = f
    /\ L[NUM_GENERATIONS + 3] = w
    /\ \A k \in 1..(NUM_GENERATIONS + 3) :
        k \in Generation \/ k \in {NUM_GENERATIONS + 1, NUM_GENERATIONS + 2, NUM_GENERATIONS + 3}

\* The lists of the generations and the three others, by position.
LEMMA AllListsFacts ==
    ASSUME NEW gens \in [Generation -> Seq(Object)],
           NEW u \in Seq(Object), NEW f \in Seq(Object), NEW w \in Seq(Object)
    PROVE  AreAllLists(gens \o <<u, f, w>>, gens, u, f, w)
    <1> DEFINE N == NUM_GENERATIONS
               T == Seq(Object)
               t == <<u, f, w>>
               L == gens \o t
    <1>1. N \in Nat
        BY GenerationAssumption
    <1>2. gens \in Seq(T) /\ Len(gens) = N
        BY <1>1, FunctionIsSeq DEF Generation
    <1>3. t \in Seq(T) /\ Len(t) = 3 /\ t[1] = u /\ t[2] = f /\ t[3] = w
        OBVIOUS
    <1> HIDE DEF t, T, N
    <1>4. /\ L \in Seq(T)
          /\ Len(L) = N + 3
          /\ \A i \in 1..(N + 3) : L[i] = IF i <= N THEN gens[i] ELSE t[i - N]
        <2>1. /\ L \in Seq(T)
              /\ Len(L) = Len(gens) + Len(t)
              /\ \A i \in 1..(Len(gens) + Len(t)) : L[i] = IF i <= Len(gens) THEN gens[i] ELSE t[i - Len(gens)]
            BY <1>2, <1>3, ConcatProperties, Zenon
        <2> HIDE DEF L
        <2> QED
            BY <1>2, <1>3, <2>1
    <1>5. DOMAIN L = 1..(N + 3)
        BY <1>4, LenProperties
    <1> HIDE DEF L
    <1>6. \A g \in 1..N : g \in 1..(N + 3) /\ g <= N
        BY <1>1
    <1>7. /\ N + 1 \in 1..(N + 3) /\ ~(N + 1 <= N) /\ (N + 1) - N = 1
          /\ N + 2 \in 1..(N + 3) /\ ~(N + 2 <= N) /\ (N + 2) - N = 2
          /\ N + 3 \in 1..(N + 3) /\ ~(N + 3 <= N) /\ (N + 3) - N = 3
        BY <1>1
    <1>8. \A g \in 1..N : L[g] = gens[g]
        BY <1>4, <1>6
    <1>9. L[N + 1] = u /\ L[N + 2] = f /\ L[N + 3] = w
        BY <1>3, <1>4, <1>7
    <1>10. \A k \in 1..(N + 3) : k \in 1..N \/ k \in {N + 1, N + 2, N + 3}
        BY <1>1
    <1> QED
        BY <1>5, <1>8, <1>9, <1>10 DEF L, t, N, Generation, AreAllLists

\* What it means that all lists are disjoint.
Apart(gens, u, f, w, S) ==
    /\ \A g \in Generation : Lists(gens[g], Range(gens[g]))
    /\ Lists(u, Range(u)) /\ Lists(f, Range(f)) /\ Lists(w, Range(w))
    /\ \A g, h \in Generation : g # h => Range(gens[g]) \cap Range(gens[h]) = {}
    /\ \A g \in Generation : Range(gens[g]) \cap (Range(u) \cup Range(f) \cup Range(w)) = {}
    /\ Range(u) \cap (Range(f) \cup Range(w)) = {}
    /\ Range(f) \cap Range(w) = {}
    /\ \A x : x \in S <=> \/ \E g \in Generation : x \in Range(gens[g])
                          \/ x \in Range(u) \cup Range(f) \cup Range(w)

\* That each object of S is in one list, said of all lists by position and of the four
\* sorts of list.
LEMMA DisjointIsApart ==
    ASSUME NEW gens \in [Generation -> Seq(Object)],
           NEW u \in Seq(Object), NEW f \in Seq(Object), NEW w \in Seq(Object), NEW S
    PROVE  Disjoint(gens \o <<u, f, w>>, S) <=> Apart(gens, u, f, w, S)
    <1> DEFINE L == gens \o <<u, f, w>>
               N == NUM_GENERATIONS
    <1>0. AreAllLists(L, gens, u, f, w)
        BY AllListsFacts, Zenon
    <1> HIDE DEF L
    <1>1. /\ DOMAIN L = 1..(N + 3)
          /\ \A g \in Generation : L[g] = gens[g]
          /\ L[N + 1] = u
          /\ L[N + 2] = f
          /\ L[N + 3] = w
          /\ \A k \in 1..(N + 3) : k \in Generation \/ k \in {N + 1, N + 2, N + 3}
        BY <1>0 DEF AreAllLists
    <1>2. /\ N \in Nat
          /\ \A g \in Generation : g \in 1..(N + 3) /\ g # N + 1 /\ g # N + 2 /\ g # N + 3
          /\ N + 1 \in 1..(N + 3) /\ N + 2 \in 1..(N + 3) /\ N + 3 \in 1..(N + 3)
          /\ N + 1 # N + 2 /\ N + 1 # N + 3 /\ N + 2 # N + 3
        BY GenerationAssumption DEF Generation
    <1> DEFINE a == N + 1
               b == N + 2
               c == N + 3
               D == 1..(N + 3)
    <1>3. /\ \A g \in Generation : g \in D /\ g # a /\ g # b /\ g # c
          /\ a \in D /\ b \in D /\ c \in D /\ a # b /\ a # c /\ b # c
          /\ \A k \in D : k \in Generation \/ k = a \/ k = b \/ k = c
        BY <1>1, <1>2
    <1>4. /\ DOMAIN L = D
          /\ \A g \in Generation : L[g] = gens[g]
          /\ L[a] = u
          /\ L[b] = f
          /\ L[c] = w
        BY <1>1
    <1> HIDE DEF L, N, a, b, c, D
    <1>5. (\A k \in D : IsInjective(L[k])) <=>
            /\ \A g \in Generation : IsInjective(gens[g])
            /\ IsInjective(u) /\ IsInjective(f) /\ IsInjective(w)
        BY <1>3, <1>4
    <1>6. (\A k, l \in D : k # l => Range(L[k]) \cap Range(L[l]) = {}) <=>
            /\ \A g, h \in Generation : g # h => Range(gens[g]) \cap Range(gens[h]) = {}
            /\ \A g \in Generation : Range(gens[g]) \cap (Range(u) \cup Range(f) \cup Range(w)) = {}
            /\ Range(u) \cap (Range(f) \cup Range(w)) = {}
            /\ Range(f) \cap Range(w) = {}
        <2>1. ASSUME \A k, l \in D : k # l => Range(L[k]) \cap Range(L[l]) = {}
              PROVE  /\ \A g, h \in Generation : g # h => Range(gens[g]) \cap Range(gens[h]) = {}
                     /\ \A g \in Generation : Range(gens[g]) \cap (Range(u) \cup Range(f) \cup Range(w)) = {}
                     /\ Range(u) \cap (Range(f) \cup Range(w)) = {}
                     /\ Range(f) \cap Range(w) = {}
            <3>1. \A g, h \in Generation : g # h => Range(gens[g]) \cap Range(gens[h]) = {}
                BY <1>3, <1>4, <2>1
            <3>2. ASSUME NEW g \in Generation
                  PROVE  /\ Range(gens[g]) \cap Range(u) = {}
                         /\ Range(gens[g]) \cap Range(f) = {}
                         /\ Range(gens[g]) \cap Range(w) = {}
                BY <1>3, <1>4, <2>1
            <3>3. Range(u) \cap Range(f) = {} /\ Range(u) \cap Range(w) = {} /\ Range(f) \cap Range(w) = {}
                BY <1>3, <1>4, <2>1
            <3> QED
                BY <3>1, <3>2, <3>3
        <2>2. ASSUME /\ \A g, h \in Generation : g # h => Range(gens[g]) \cap Range(gens[h]) = {}
                     /\ \A g \in Generation : Range(gens[g]) \cap (Range(u) \cup Range(f) \cup Range(w)) = {}
                     /\ Range(u) \cap (Range(f) \cup Range(w)) = {}
                     /\ Range(f) \cap Range(w) = {},
                     NEW k \in D, NEW l \in D, k # l
              PROVE  Range(L[k]) \cap Range(L[l]) = {}
            <3>1. CASE k \in Generation
                BY <1>3, <1>4, <2>2, <3>1
            <3>2. CASE l \in Generation
                BY <1>3, <1>4, <2>2, <3>2
            <3>3. CASE k \notin Generation /\ l \notin Generation
                BY <1>3, <1>4, <2>2, <3>3
            <3> QED
                BY <3>1, <3>2, <3>3
        <2> QED
            BY <2>1, <2>2
    <1>7. \A x : x \in UNION {Range(L[k]) : k \in D} <=>
                    \/ \E g \in Generation : x \in Range(gens[g])
                    \/ x \in Range(u) \cup Range(f) \cup Range(w)
        <2> SUFFICES ASSUME NEW x
                     PROVE  (\E k \in D : x \in Range(L[k])) <=>
                                \/ \E g \in Generation : x \in Range(gens[g])
                                \/ x \in Range(u) \cup Range(f) \cup Range(w)
            OBVIOUS
        <2> QED
            BY <1>3, <1>4
    <1>8. (UNION {Range(L[k]) : k \in D} = S) <=>
            \A x : x \in S <=> \/ \E g \in Generation : x \in Range(gens[g])
                               \/ x \in Range(u) \cup Range(f) \cup Range(w)
        <2> DEFINE U == UNION {Range(L[k]) : k \in D}
        <2>1. \A x : x \in U <=> \/ \E g \in Generation : x \in Range(gens[g])
                                 \/ x \in Range(u) \cup Range(f) \cup Range(w)
            BY <1>7
        <2> HIDE DEF U
        <2>2. U = S <=> \A x : x \in S <=> \/ \E g \in Generation : x \in Range(gens[g])
                                           \/ x \in Range(u) \cup Range(f) \cup Range(w)
            BY <2>1
        <2> QED
            BY <2>2 DEF U
    <1>9. Disjoint(L, S) <=> /\ \A k \in D : IsInjective(L[k])
                             /\ \A k, l \in D : k # l => Range(L[k]) \cap Range(L[l]) = {}
                             /\ UNION {Range(L[k]) : k \in D} = S
        BY <1>4 DEF Disjoint
    <1>10. Apart(gens, u, f, w, S) <=>
            /\ /\ \A g \in Generation : IsInjective(gens[g])
               /\ IsInjective(u) /\ IsInjective(f) /\ IsInjective(w)
            /\ /\ \A g, h \in Generation : g # h => Range(gens[g]) \cap Range(gens[h]) = {}
               /\ \A g \in Generation : Range(gens[g]) \cap (Range(u) \cup Range(f) \cup Range(w)) = {}
               /\ Range(u) \cap (Range(f) \cup Range(w)) = {}
               /\ Range(f) \cap Range(w) = {}
            /\ \A x : x \in S <=> \/ \E g \in Generation : x \in Range(gens[g])
                                  \/ x \in Range(u) \cup Range(f) \cup Range(w)
        <2>1. (\A g \in Generation : Lists(gens[g], Range(gens[g]))) <=>
                    \A g \in Generation : IsInjective(gens[g])
            BY DEF Lists
        <2>2. (Lists(u, Range(u)) <=> IsInjective(u)) /\ (Lists(f, Range(f)) <=> IsInjective(f))
              /\ (Lists(w, Range(w)) <=> IsInjective(w))
            BY DEF Lists
        <2> QED
            BY <2>1, <2>2 DEF Apart
    <1> QED
        BY <1>5, <1>6, <1>8, <1>9, <1>10, Zenon DEF L

\* What list k gets when the objects of Y are moved to the list with the number b.
To(b, k, Y) == IF b = k THEN Y ELSE {}

\* The objects of X leave their lists, and those of Y join list b.
Moves(L, M, D, X, Y, b) ==
    /\ DOMAIN L = D
    /\ DOMAIN M = D
    /\ b \in D \/ Y = {}
    /\ \A k \in D : IsInjective(M[k]) /\ Range(M[k]) = (Range(L[k]) \ X) \cup To(b, k, Y)

\* Taking the objects X out of all lists and appending Y to the list b.
LEMMA MovedBetween ==
    ASSUME NEW D, NEW L, NEW M, NEW S, Disjoint(L, S), NEW X, NEW Y, NEW b, Moves(L, M, D, X, Y, b),
           Y \cap (S \ X) = {}
    PROVE  Disjoint(M, (S \ X) \cup Y)
    <1> USE DEF Moves
    <1>1. \A k \in D : Range(L[k]) \subseteq S
        BY DEF Disjoint
    <1>2. ASSUME NEW k \in D, NEW l \in D, k # l
          PROVE  Range(M[k]) \cap Range(M[l]) = {}
        <2>1. Range(L[k]) \cap Range(L[l]) = {}
            BY <1>2 DEF Disjoint
        <2>2. /\ Range(M[k]) = (Range(L[k]) \ X) \cup To(b, k, Y)
              /\ Range(M[l]) = (Range(L[l]) \ X) \cup To(b, l, Y)
            OBVIOUS
        <2>3. To(b, k, Y) = {} \/ To(b, l, Y) = {}
            BY <1>2 DEF To
        <2>4. To(b, k, Y) \subseteq Y /\ To(b, l, Y) \subseteq Y
            BY DEF To
        <2> QED
            BY <1>1, <2>1, <2>2, <2>3, <2>4
    <1>3. ASSUME NEW x
          PROVE  (\E k \in D : x \in Range(M[k])) <=> x \in (S \ X) \cup Y
        <2>1. x \in S <=> \E k \in D : x \in Range(L[k])
            BY DEF Disjoint
        <2>2. \A k \in D : x \in Range(M[k]) <=> (x \in Range(L[k]) /\ x \notin X) \/ (b = k /\ x \in Y)
            BY DEF To
        <2> QED
            BY <2>1, <2>2
    <1>4. UNION {Range(M[k]) : k \in D} = (S \ X) \cup Y
        <2> DEFINE U == UNION {Range(M[k]) : k \in D}
        <2>1. \A x : x \in U <=> x \in (S \ X) \cup Y
            BY <1>3
        <2> HIDE DEF U
        <2> QED
            BY <2>1 DEF U
    <1> QED
        BY <1>2, <1>4 DEF Disjoint

MovesLists(gens, u, f, w, gens2, u2, f2, w2, X, Y, b) ==
    /\ \A g \in Generation : Lists(gens2[g], (Range(gens[g]) \ X) \cup To(b, g, Y))
    /\ Lists(u2, (Range(u) \ X) \cup To(b, NUM_GENERATIONS + 1, Y))
    /\ Lists(f2, (Range(f) \ X) \cup To(b, NUM_GENERATIONS + 2, Y))
    /\ Lists(w2, (Range(w) \ X) \cup To(b, NUM_GENERATIONS + 3, Y))

\* The same for the generations and the collector's lists.
LEMMA Moved ==
    ASSUME NEW gens \in [Generation -> Seq(Object)],
           NEW u \in Seq(Object), NEW f \in Seq(Object), NEW w \in Seq(Object),
           NEW S, Disjoint(gens \o <<u, f, w>>, S),
           NEW gens2 \in [Generation -> Seq(Object)], NEW u2, NEW f2, NEW w2,
           NEW X, NEW Y, NEW b \in 0..(NUM_GENERATIONS + 3), b = 0 => Y = {}, Y \cap (S \ X) = {},
           MovesLists(gens, u, f, w, gens2, u2, f2, w2, X, Y, b)
    PROVE  Disjoint(gens2 \o <<u2, f2, w2>>, (S \ X) \cup Y)
    <1> DEFINE L == gens \o <<u, f, w>>
               M == gens2 \o <<u2, f2, w2>>
               N == NUM_GENERATIONS
               D == 1..(N + 3)
    <1>0. /\ \A g \in Generation : Lists(gens2[g], (Range(gens[g]) \ X) \cup To(b, g, Y))
          /\ Lists(u2, (Range(u) \ X) \cup To(b, N + 1, Y))
          /\ Lists(f2, (Range(f) \ X) \cup To(b, N + 2, Y))
          /\ Lists(w2, (Range(w) \ X) \cup To(b, N + 3, Y))
        BY Zenon DEF MovesLists
    <1>1. AreAllLists(L, gens, u, f, w)
        BY AllListsFacts, Zenon
    <1>2. u2 \in Seq(Object) /\ f2 \in Seq(Object) /\ w2 \in Seq(Object)
        BY <1>0, Zenon DEF Lists
    <1>3. AreAllLists(M, gens2, u2, f2, w2)
        BY <1>2, AllListsFacts, Zenon
    <1> HIDE DEF L, M
    <1>4. DOMAIN L = D /\ DOMAIN M = D
        BY <1>1, <1>3, Zenon DEF AreAllLists
    <1>5. b \in D \/ Y = {}
        BY GenerationFacts
    <1>6. ASSUME NEW k \in D
          PROVE  IsInjective(M[k]) /\ Range(M[k]) = (Range(L[k]) \ X) \cup To(b, k, Y)
        <2>1. k \in Generation \/ k = N + 1 \/ k = N + 2 \/ k = N + 3
            BY <1>1 DEF AreAllLists
        <2>2. CASE k \in Generation
            BY <2>2, <1>0, <1>1, <1>3, Zenon DEF AreAllLists, Lists
        <2>3. CASE k = N + 1
            <3>1. M[k] = u2 /\ L[k] = u
                BY <2>3, <1>1, <1>3, Zenon DEF AreAllLists
            <3> QED
                BY <3>1, <2>3, <1>0, Zenon DEF Lists
        <2>4. CASE k = N + 2
            <3>1. M[k] = f2 /\ L[k] = f
                BY <2>4, <1>1, <1>3, Zenon DEF AreAllLists
            <3> QED
                BY <3>1, <2>4, <1>0, Zenon DEF Lists
        <2>5. CASE k = N + 3
            <3>1. M[k] = w2 /\ L[k] = w
                BY <2>5, <1>1, <1>3, Zenon DEF AreAllLists
            <3> QED
                BY <3>1, <2>5, <1>0, Zenon DEF Lists
        <2> QED
            BY <2>1, <2>2, <2>3, <2>4, <2>5
    <1>7. Disjoint(L, S)
        BY Zenon DEF L
    <1> HIDE DEF D
    <1>8. Moves(L, M, D, X, Y, b)
        BY <1>4, <1>5, <1>6 DEF Moves
    <1>9. Disjoint(M, (S \ X) \cup Y)
        BY <1>7, <1>8, MovedBetween, Zenon
    <1> QED
        BY <1>9, Zenon DEF M

\* The objects of X leave their lists for none.
LEMMA MovesAway ==
    ASSUME NEW gens, NEW u, NEW f, NEW w, NEW gens2, NEW u2, NEW f2, NEW w2, NEW X,
           \A g \in Generation : Lists(gens2[g], Range(gens[g]) \ X),
           Lists(u2, Range(u) \ X), Lists(f2, Range(f) \ X), Lists(w2, Range(w) \ X)
    PROVE  MovesLists(gens, u, f, w, gens2, u2, f2, w2, X, {}, 0)
    <1>1. ASSUME NEW R, NEW k
          PROVE  R \cup To(0, k, {}) = R
        BY DEF To
    <1>2. /\ (Range(u) \ X) \cup To(0, NUM_GENERATIONS + 1, {}) = Range(u) \ X
          /\ (Range(f) \ X) \cup To(0, NUM_GENERATIONS + 2, {}) = Range(f) \ X
          /\ (Range(w) \ X) \cup To(0, NUM_GENERATIONS + 3, {}) = Range(w) \ X
        BY <1>1
    <1>3. ASSUME NEW g \in Generation
          PROVE  Lists(gens2[g], (Range(gens[g]) \ X) \cup To(0, g, {}))
        <2>1. (Range(gens[g]) \ X) \cup To(0, g, {}) = Range(gens[g]) \ X
            BY <1>1
        <2> QED
            BY <2>1, Zenon
    <1> QED
        BY <1>2, <1>3, Zenon DEF MovesLists

\* Or for that of the generation b.
JoinGeneration(gens, u, f, w, gens2, u2, f2, w2, X, Y, b) ==
    /\ \A g \in Generation \ {b} : Lists(gens2[g], Range(gens[g]) \ X)
    /\ Lists(gens2[b], (Range(gens[b]) \ X) \cup Y)
    /\ Lists(u2, Range(u) \ X)
    /\ Lists(f2, Range(f) \ X)
    /\ Lists(w2, Range(w) \ X)

\* The list appended to is that of a generation.
LEMMA MovesToGeneration ==
    ASSUME NEW gens, NEW u, NEW f, NEW w, NEW gens2, NEW u2, NEW f2, NEW w2, NEW X, NEW Y,
           NEW b \in Generation,
           JoinGeneration(gens, u, f, w, gens2, u2, f2, w2, X, Y, b)
    PROVE  /\ MovesLists(gens, u, f, w, gens2, u2, f2, w2, X, Y, b)
           /\ b \in 0..(NUM_GENERATIONS + 3) /\ b # 0
    <1> USE DEF JoinGeneration
    <1>1. ASSUME NEW R, NEW k, k # b
          PROVE  R \cup To(b, k, Y) = R
        BY <1>1 DEF To
    <1>2. b \in 1..NUM_GENERATIONS /\ NUM_GENERATIONS \in Nat
        BY GenerationAssumption DEF Generation
    <1>3. /\ b # NUM_GENERATIONS + 1 /\ b # NUM_GENERATIONS + 2 /\ b # NUM_GENERATIONS + 3
          /\ b \in 0..(NUM_GENERATIONS + 3) /\ b # 0
        BY <1>2
    <1>4. /\ (Range(u) \ X) \cup To(b, NUM_GENERATIONS + 1, Y) = Range(u) \ X
          /\ (Range(f) \ X) \cup To(b, NUM_GENERATIONS + 2, Y) = Range(f) \ X
          /\ (Range(w) \ X) \cup To(b, NUM_GENERATIONS + 3, Y) = Range(w) \ X
        BY <1>1, <1>3
    <1>5. ASSUME NEW g \in Generation
          PROVE  Lists(gens2[g], (Range(gens[g]) \ X) \cup To(b, g, Y))
        <2>1. CASE g = b
            <3>1. To(b, g, Y) = Y
                BY <2>1 DEF To
            <3> QED
                BY <2>1, <3>1, Zenon
        <2>2. CASE g # b
            <3>1. (Range(gens[g]) \ X) \cup To(b, g, Y) = Range(gens[g]) \ X
                BY <1>1, <2>2
            <3>2. Lists(gens2[g], Range(gens[g]) \ X)
                BY <2>2
            <3> QED
                BY <3>1, <3>2, Zenon
        <2> QED
            BY <2>1, <2>2
    <1> QED
        BY <1>3, <1>4, <1>5, Zenon DEF MovesLists

--------------------------------------------------------------------------------
(* The parts of the invariant, spelt out.                                  *)

\* The objects that the collector has a reference of its own to.
Calling == IF pc = "called" THEN Members(wrcb_to_call) \ {gc} ELSE Members(wrcb_to_call)
Clearing == IF pc = "clear" THEN {gc} ELSE {}

\* How often S has o.
Has(S, o) == IF o \in S THEN 1 ELSE 0

\* The references to o: from the fields f, the variables v, gc.garbage g, the
\* Py_DECREFs p to come, and the collector.
Total(f, v, g, p, c, l, o) ==
    CountTo(f, o, Object) + Has(v, o) + Has(g, o) + Occurrences(p, o) + Has(c, o) + Has(l, o)

CountsAgree(n, f, v, g, p, c, l) == \A o \in Object : n[o] = Total(f, v, g, p, c, l, o)

\* RefcountsExact as a sum of six sorts of reference.
LEMMA RefcountsMeans ==
    /\ RefcountsExact <=>
        CountsAgree(ob_refcnt, field, variables, garbage, pending, Calling, Clearing)
    /\ RefcountsExact' <=>
        CountsAgree(ob_refcnt, field, variables, garbage, pending, Calling, Clearing)'
    <1>1. RefcountsExact <=>
            CountsAgree(ob_refcnt, field, variables, garbage, pending, Calling, Clearing)
        <2>1. ASSUME NEW o \in Object
              PROVE  /\ One(o \in Members(wrcb_to_call) /\ ~(pc = "called" /\ o = gc)) = Has(Calling, o)
                     /\ One(pc = "clear" /\ o = gc) = Has(Clearing, o)
            BY DEF One, Has, Calling, Clearing
        <2>2. ASSUME NEW o \in Object
              PROVE  /\ One(o \in variables) = Has(variables, o)
                     /\ One(o \in garbage) = Has(garbage, o)
                     /\ ReferencesTo(o, Object) = CountTo(field, o, Object)
                     /\ Cardinality({k \in DOMAIN pending : pending[k] = o}) = Occurrences(pending, o)
            BY DEF One, Has, ReferencesTo, CountTo, Occurrences
        <2>3. ASSUME NEW o \in Object
              PROVE  ReferencesTo(o, Object)
                        + One(o \in variables) + One(o \in garbage)
                        + Cardinality({k \in DOMAIN pending : pending[k] = o})
                        + One(o \in Members(wrcb_to_call) /\ ~(pc = "called" /\ o = gc))
                        + One(pc = "clear" /\ o = gc)
                     = Total(field, variables, garbage, pending, Calling, Clearing, o)
            BY <2>1, <2>2, Zenon DEF Total
        <2> QED
            BY <2>3, Zenon DEF RefcountsExact, CountsAgree
    <1> QED
        BY <1>1, PTL

\* The summands are natural numbers.
LEMMA TotalType ==
    /\ \A S, o :
            /\ Has(S, o) \in Nat
            /\ o \in S => Has(S, o) = 1
            /\ o \notin S => Has(S, o) = 0
    /\ \A f, v, g, c, l, o : \A p \in Seq(Object) :
            /\ CountTo(f, o, Object) \in Nat
            /\ Occurrences(p, o) \in Nat
            /\ Total(f, v, g, p, c, l, o) \in Nat
    <1>1. ASSUME NEW S, NEW o
          PROVE  Has(S, o) \in Nat /\ (o \in S => Has(S, o) = 1) /\ (o \notin S => Has(S, o) = 0)
        BY DEF Has
    <1>2. ASSUME NEW f, NEW v, NEW g, NEW p \in Seq(Object), NEW c, NEW l, NEW o
          PROVE  /\ CountTo(f, o, Object) \in Nat
                 /\ Occurrences(p, o) \in Nat
                 /\ Total(f, v, g, p, c, l, o) \in Nat
        <2>1. CountTo(f, o, Object) \in Nat
            BY CountType
        <2>2. Occurrences(p, o) \in Nat
            BY OccurrencesType
        <2> QED
            BY <1>1, <2>1, <2>2 DEF Total
    <1> QED
        BY <1>1, <1>2

\* A part of the references changes.
LEMMA TotalFields ==
    ASSUME NEW f, NEW v, NEW g, NEW p \in Seq(Object), NEW c, NEW l, NEW o, NEW f2
    PROVE  /\ Total(f2, v, g, p, c, l, o) + CountTo(f, o, Object) = Total(f, v, g, p, c, l, o) + CountTo(f2, o, Object)
           /\ Total(f, v, g, p, c, l, o) \in Nat /\ Total(f2, v, g, p, c, l, o) \in Nat
           /\ CountTo(f, o, Object) \in Nat /\ CountTo(f2, o, Object) \in Nat
    <1> DEFINE a == CountTo(f, o, Object)
               b == Has(v, o)
               d == Has(g, o)
               q == Occurrences(p, o)
               e == Has(c, o)
               h == Has(l, o)
               z == CountTo(f2, o, Object)
    <1>1. /\ a \in Nat /\ b \in Nat /\ d \in Nat /\ q \in Nat /\ e \in Nat /\ h \in Nat
          /\ z \in Nat
        BY TotalType DEF Has
    <1>2. /\ Total(f, v, g, p, c, l, o) = a + b + d + q + e + h
          /\ Total(f2, v, g, p, c, l, o) = z + b + d + q + e + h
        BY DEF Total
    <1> HIDE DEF a, b, d, q, e, h, z
    <1>3. /\ (z + b + d + q + e + h) + a = (a + b + d + q + e + h) + z
          /\ a + b + d + q + e + h \in Nat
          /\ z + b + d + q + e + h \in Nat
        BY <1>1
    <1> QED
        BY <1>1, <1>2, <1>3 DEF a, z

\* What changes in the sum when the client's variables do.
LEMMA TotalVariables ==
    ASSUME NEW f, NEW v, NEW g, NEW p \in Seq(Object), NEW c, NEW l, NEW o, NEW v2
    PROVE  /\ Total(f, v2, g, p, c, l, o) + Has(v, o) = Total(f, v, g, p, c, l, o) + Has(v2, o)
           /\ Total(f, v, g, p, c, l, o) \in Nat /\ Total(f, v2, g, p, c, l, o) \in Nat
           /\ Has(v, o) \in Nat /\ Has(v2, o) \in Nat
    <1> DEFINE a == CountTo(f, o, Object)
               b == Has(v, o)
               d == Has(g, o)
               q == Occurrences(p, o)
               e == Has(c, o)
               h == Has(l, o)
               z == Has(v2, o)
    <1>1. /\ a \in Nat /\ b \in Nat /\ d \in Nat /\ q \in Nat /\ e \in Nat /\ h \in Nat
          /\ z \in Nat
        BY TotalType DEF Has
    <1>2. /\ Total(f, v, g, p, c, l, o) = a + b + d + q + e + h
          /\ Total(f, v2, g, p, c, l, o) = a + z + d + q + e + h
        BY DEF Total
    <1> HIDE DEF a, b, d, q, e, h, z
    <1>3. /\ (a + z + d + q + e + h) + b = (a + b + d + q + e + h) + z
          /\ a + b + d + q + e + h \in Nat
          /\ a + z + d + q + e + h \in Nat
        BY <1>1
    <1> QED
        BY <1>1, <1>2, <1>3 DEF b, z

\* When gc.garbage does.
LEMMA TotalGarbage ==
    ASSUME NEW f, NEW v, NEW g, NEW p \in Seq(Object), NEW c, NEW l, NEW o, NEW g2
    PROVE  /\ Total(f, v, g2, p, c, l, o) + Has(g, o) = Total(f, v, g, p, c, l, o) + Has(g2, o)
           /\ Total(f, v, g, p, c, l, o) \in Nat /\ Total(f, v, g2, p, c, l, o) \in Nat
           /\ Has(g, o) \in Nat /\ Has(g2, o) \in Nat
    <1> DEFINE a == CountTo(f, o, Object)
               b == Has(v, o)
               d == Has(g, o)
               q == Occurrences(p, o)
               e == Has(c, o)
               h == Has(l, o)
               z == Has(g2, o)
    <1>1. /\ a \in Nat /\ b \in Nat /\ d \in Nat /\ q \in Nat /\ e \in Nat /\ h \in Nat
          /\ z \in Nat
        BY TotalType DEF Has
    <1>2. /\ Total(f, v, g, p, c, l, o) = a + b + d + q + e + h
          /\ Total(f, v, g2, p, c, l, o) = a + b + z + q + e + h
        BY DEF Total
    <1> HIDE DEF a, b, d, q, e, h, z
    <1>3. /\ (a + b + z + q + e + h) + d = (a + b + d + q + e + h) + z
          /\ a + b + d + q + e + h \in Nat
          /\ a + b + z + q + e + h \in Nat
        BY <1>1
    <1> QED
        BY <1>1, <1>2, <1>3 DEF d, z

\* When the references to be dropped do.
LEMMA TotalPending ==
    ASSUME NEW f, NEW v, NEW g, NEW p \in Seq(Object), NEW c, NEW l, NEW o, NEW p2 \in Seq(Object)
    PROVE  /\ Total(f, v, g, p2, c, l, o) + Occurrences(p, o) = Total(f, v, g, p, c, l, o) + Occurrences(p2, o)
           /\ Total(f, v, g, p, c, l, o) \in Nat /\ Total(f, v, g, p2, c, l, o) \in Nat
           /\ Occurrences(p, o) \in Nat /\ Occurrences(p2, o) \in Nat
    <1> DEFINE a == CountTo(f, o, Object)
               b == Has(v, o)
               d == Has(g, o)
               q == Occurrences(p, o)
               e == Has(c, o)
               h == Has(l, o)
               z == Occurrences(p2, o)
    <1>1. /\ a \in Nat /\ b \in Nat /\ d \in Nat /\ q \in Nat /\ e \in Nat /\ h \in Nat
          /\ z \in Nat
        BY TotalType DEF Has
    <1>2. /\ Total(f, v, g, p, c, l, o) = a + b + d + q + e + h
          /\ Total(f, v, g, p2, c, l, o) = a + b + d + z + e + h
        BY DEF Total
    <1> HIDE DEF a, b, d, q, e, h, z
    <1>3. /\ (a + b + d + z + e + h) + q = (a + b + d + q + e + h) + z
          /\ a + b + d + q + e + h \in Nat
          /\ a + b + d + z + e + h \in Nat
        BY <1>1
    <1> QED
        BY <1>1, <1>2, <1>3 DEF q, z

\* When the weak references that are held for their callbacks do.
LEMMA TotalCalling ==
    ASSUME NEW f, NEW v, NEW g, NEW p \in Seq(Object), NEW c, NEW l, NEW o, NEW c2
    PROVE  /\ Total(f, v, g, p, c2, l, o) + Has(c, o) = Total(f, v, g, p, c, l, o) + Has(c2, o)
           /\ Total(f, v, g, p, c, l, o) \in Nat /\ Total(f, v, g, p, c2, l, o) \in Nat
           /\ Has(c, o) \in Nat /\ Has(c2, o) \in Nat
    <1> DEFINE a == CountTo(f, o, Object)
               b == Has(v, o)
               d == Has(g, o)
               q == Occurrences(p, o)
               e == Has(c, o)
               h == Has(l, o)
               z == Has(c2, o)
    <1>1. /\ a \in Nat /\ b \in Nat /\ d \in Nat /\ q \in Nat /\ e \in Nat /\ h \in Nat
          /\ z \in Nat
        BY TotalType DEF Has
    <1>2. /\ Total(f, v, g, p, c, l, o) = a + b + d + q + e + h
          /\ Total(f, v, g, p, c2, l, o) = a + b + d + q + z + h
        BY DEF Total
    <1> HIDE DEF a, b, d, q, e, h, z
    <1>3. /\ (a + b + d + q + z + h) + e = (a + b + d + q + e + h) + z
          /\ a + b + d + q + e + h \in Nat
          /\ a + b + d + q + z + h \in Nat
        BY <1>1
    <1> QED
        BY <1>1, <1>2, <1>3 DEF e, z

\* When the object held during its tp_clear does.
LEMMA TotalClearing ==
    ASSUME NEW f, NEW v, NEW g, NEW p \in Seq(Object), NEW c, NEW l, NEW o, NEW l2
    PROVE  /\ Total(f, v, g, p, c, l2, o) + Has(l, o) = Total(f, v, g, p, c, l, o) + Has(l2, o)
           /\ Total(f, v, g, p, c, l, o) \in Nat /\ Total(f, v, g, p, c, l2, o) \in Nat
           /\ Has(l, o) \in Nat /\ Has(l2, o) \in Nat
    <1> DEFINE a == CountTo(f, o, Object)
               b == Has(v, o)
               d == Has(g, o)
               q == Occurrences(p, o)
               e == Has(c, o)
               h == Has(l, o)
               z == Has(l2, o)
    <1>1. /\ a \in Nat /\ b \in Nat /\ d \in Nat /\ q \in Nat /\ e \in Nat /\ h \in Nat
          /\ z \in Nat
        BY TotalType DEF Has
    <1>2. /\ Total(f, v, g, p, c, l, o) = a + b + d + q + e + h
          /\ Total(f, v, g, p, c, l2, o) = a + b + d + q + e + z
        BY DEF Total
    <1> HIDE DEF a, b, d, q, e, h, z
    <1>3. /\ (a + b + d + q + e + z) + h = (a + b + d + q + e + h) + z
          /\ a + b + d + q + e + h \in Nat
          /\ a + b + d + q + e + z \in Nat
        BY <1>1
    <1> QED
        BY <1>1, <1>2, <1>3 DEF h, z

\* The first Py_DECREF is done.
LEMMA OccurrencesDone ==
    ASSUME NEW p \in Seq(Object), p # <<>>, NEW o
    PROVE  /\ Head(p) \in Object /\ Tail(p) \in Seq(Object)
           /\ Occurrences(p, o) = Occurrences(Tail(p), o) + Has({Head(p)}, o)
    <1>1. Head(p) \in Object /\ Tail(p) \in Seq(Object)
        BY HeadTailProperties
    <1>2. Occurrences(p, o) = Occurrences(Tail(p), o) + One(Head(p) = o)
        BY OccurrencesTail
    <1>3. One(Head(p) = o) = Has({Head(p)}, o)
        BY DEF One, Has
    <1> QED
        BY <1>1, <1>2, <1>3

\* One reference to be dropped, or none.
LEMMA OccurrencesNew ==
    ASSUME NEW x \in Object, NEW o
    PROVE  /\ <<x>> \in Seq(Object)
           /\ Occurrences(<<x>>, o) = Has({x}, o)
           /\ Occurrences(<<>>, o) = 0
    <1>1. <<x>> \in Seq(Object) /\ <<x>> # <<>> /\ Head(<<x>>) = x /\ Tail(<<x>>) = <<>>
        OBVIOUS
    <1>2. Occurrences(<<>>, o) = 0
        <2>1. <<>> \in Seq(Object) /\ Range(<<>>) = {}
            BY EmptyLists DEF Lists
        <2> QED
            BY <2>1, OccurrencesType
    <1>3. Occurrences(<<x>>, o) = Occurrences(<<>>, o) + Has({x}, o)
        <2> DEFINE p == <<x>>
        <2>1. Occurrences(p, o) = Occurrences(Tail(p), o) + Has({Head(p)}, o)
            <3> HIDE DEF p
            <3>1. p \in Seq(Object) /\ p # <<>>
                BY <1>1 DEF p
            <3> QED
                BY <3>1, OccurrencesDone
        <2> QED
            BY <1>1, <2>1
    <1>4. Has({x}, o) \in Nat
        BY DEF Has
    <1>5. Occurrences(<<x>>, o) = Has({x}, o)
        <2> DEFINE a == Occurrences(<<x>>, o)
                   b == Occurrences(<<>>, o)
        <2>1. b = 0 /\ a = b + Has({x}, o)
            BY <1>2, <1>3
        <2> HIDE DEF a, b
        <2>2. a = Has({x}, o)
            BY <2>1, <1>4
        <2> QED
            BY <2>2 DEF a
    <1> QED
        BY <1>1, <1>2, <1>5, Zenon

\* An object is counted when something refers to it.
LEMMA TotalPositive ==
    ASSUME NEW f, NEW v, NEW g, NEW p \in Seq(Object), NEW c, NEW l, NEW o
    PROVE  Total(f, v, g, p, c, l, o) = 0 <=>
                /\ CountTo(f, o, Object) = 0
                /\ o \notin v /\ o \notin g /\ o \notin Range(p) /\ o \notin c /\ o \notin l
    <1> DEFINE n == CountTo(f, o, Object)
               a == Has(v, o)
               b == Has(g, o)
               d == Has(c, o)
               e == Has(l, o)
               q == Occurrences(p, o)
    <1>1. /\ n \in Nat /\ q \in Nat
          /\ a \in Nat /\ (a = 0 <=> o \notin v)
          /\ b \in Nat /\ (b = 0 <=> o \notin g)
          /\ d \in Nat /\ (d = 0 <=> o \notin c)
          /\ e \in Nat /\ (e = 0 <=> o \notin l)
        <2>1. n \in Nat /\ q \in Nat
            BY CountType, OccurrencesType
        <2>2. /\ a \in Nat /\ (a = 0 <=> o \notin v)
              /\ b \in Nat /\ (b = 0 <=> o \notin g)
              /\ d \in Nat /\ (d = 0 <=> o \notin c)
              /\ e \in Nat /\ (e = 0 <=> o \notin l)
            BY DEF Has
        <2> QED
            BY <2>1, <2>2
    <1>2. q = 0 <=> o \notin Range(p)
        BY OccurrencesType
    <1>3. Total(f, v, g, p, c, l, o) = n + a + b + q + d + e
        BY DEF Total
    <1> HIDE DEF n, a, b, d, e, q
    <1>4. n + a + b + q + d + e = 0 <=> n = 0 /\ a = 0 /\ b = 0 /\ q = 0 /\ d = 0 /\ e = 0
        BY <1>1
    <1>5. Total(f, v, g, p, c, l, o) = 0 <=> n = 0 /\ a = 0 /\ b = 0 /\ q = 0 /\ d = 0 /\ e = 0
        BY <1>3, <1>4
    <1> QED
        BY <1>1, <1>2, <1>5 DEF n

\* An object that nothing refers to has sum 0.
LEMMA TotalNothing ==
    ASSUME NEW f, NEW v, NEW g, NEW p \in Seq(Object), NEW c, NEW l, NEW o,
           CountTo(f, o, Object) = 0, o \notin v, o \notin g, o \notin Range(p), o \notin c, o \notin l
    PROVE  Total(f, v, g, p, c, l, o) = 0
    BY TotalPositive

TrackedObjects == {o \in Object : gc_refs[o] # GC_UNTRACKED}

\* The marks of the objects.
MarksExact ==
    /\ Members(unreachable) = {o \in Object : gc_refs[o] = GC_TENTATIVELY_UNREACHABLE}
    /\ \A o \in Object : gc_refs[o] >= 0 =>
        pc \in {"subtract_refs", "move_unreachable"} /\ o \in Members(young)

\* ListsExact, as lists that have each tracked object once and marks that say where.
LEMMA ListsMeans ==
    /\ ListsExact <=> Disjoint(AllLists, TrackedObjects) /\ MarksExact
    /\ ListsExact' <=> Disjoint(AllLists, TrackedObjects)' /\ MarksExact'
    <1>1. ListsExact <=> Disjoint(AllLists, TrackedObjects) /\ MarksExact
        BY DEF ListsExact, Disjoint, MarksExact, TrackedObjects, Members
    <1> QED
        BY <1>1, PTL

\* The lists one by one.
LEMMA ListsApart ==
    ASSUME TypeOK, ListsExact
    PROVE  /\ Apart(generations, unreachable, finalizers, wrcb_to_call, TrackedObjects)
           /\ Disjoint(generations \o <<unreachable, finalizers, wrcb_to_call>>, TrackedObjects)
    <1>1. Disjoint(generations \o <<unreachable, finalizers, wrcb_to_call>>, TrackedObjects)
        BY ListsMeans DEF AllLists
    <1>2. /\ generations \in [Generation -> Seq(Object)]
          /\ unreachable \in Seq(Object) /\ finalizers \in Seq(Object) /\ wrcb_to_call \in Seq(Object)
        BY DEF TypeOK, Generation
    <1> QED
        BY <1>1, <1>2, DisjointIsApart

\* A step that moves the objects of X out of their lists, and those of Y to list b.
LEMMA ListsStep ==
    ASSUME TypeOK, ListsExact,
           NEW X, NEW Y, NEW b \in 0..(NUM_GENERATIONS + 3), b = 0 => Y = {},
           Y \cap (TrackedObjects \ X) = {},
           generations' = [g \in Generation |-> generations'[g]],
           MovesLists(generations, unreachable, finalizers, wrcb_to_call,
                      generations', unreachable', finalizers', wrcb_to_call', X, Y, b),
           TrackedObjects' = (TrackedObjects \ X) \cup Y,
           MarksExact'
    PROVE  /\ ListsExact'
           /\ generations' \in [1..NUM_GENERATIONS -> Seq(Object)]
           /\ unreachable' \in Seq(Object)
           /\ finalizers' \in Seq(Object)
           /\ wrcb_to_call' \in Seq(Object)
    <1>1. /\ generations \in [Generation -> Seq(Object)]
          /\ unreachable \in Seq(Object) /\ finalizers \in Seq(Object) /\ wrcb_to_call \in Seq(Object)
        BY DEF TypeOK, Generation
    <1>2. unreachable' \in Seq(Object) /\ finalizers' \in Seq(Object) /\ wrcb_to_call' \in Seq(Object)
        BY Zenon DEF Lists, MovesLists
    <1>3. generations' \in [Generation -> Seq(Object)]
        <2>1. \A g \in Generation : generations'[g] \in Seq(Object)
            BY Zenon DEF Lists, MovesLists
        <2> QED
            BY <2>1, Zenon
    <1>4. Disjoint(generations \o <<unreachable, finalizers, wrcb_to_call>>, TrackedObjects)
        BY ListsApart
    <1>5. Disjoint(generations' \o <<unreachable', finalizers', wrcb_to_call'>>,
                   (TrackedObjects \ X) \cup Y)
        BY <1>1, <1>2, <1>3, <1>4, Moved, Zenon
    <1>6. Disjoint(AllLists, TrackedObjects)'
        BY <1>5, Zenon DEF AllLists, Disjoint
    <1>7. ListsExact'
        BY <1>6, ListsMeans
    <1> QED
        BY <1>2, <1>3, <1>7 DEF Generation

\* The stages in which only Py_DECREF and Python code run.
Running == pc \in {"python", "callback", "called", "clear", "cleared"}

\* A step that leaves lists and marks alone.
LEMMA ListsUnchanged ==
    ASSUME ListsExact, UNCHANGED lists, UNCHANGED gc_refs,
           pc \notin {"subtract_refs", "move_unreachable"}
    PROVE  ListsExact'
    <1>1. Disjoint(AllLists, TrackedObjects)' <=> Disjoint(AllLists, TrackedObjects)
        BY DEF lists, AllLists, TrackedObjects, Disjoint
    <1>2. MarksExact'
        BY ListsMeans DEF MarksExact, lists, Members
    <1> QED
        BY <1>1, <1>2, ListsMeans

\* What Python code can get hold of is alive, and is not doomed.
LEMMA HeldFacts ==
    ASSUME IInv, Python, NEW o \in Held
    PROVE  /\ o \in Object
           /\ ob_refcnt[o] > 0
           /\ pc = "callback" => o \notin Doomed
    <1>1. CountsAgree(ob_refcnt, field, variables, garbage, pending, Calling, Clearing)
        BY RefcountsMeans DEF IInv
    <1>2. ASSUME NEW n \in Object
          PROVE  /\ ob_refcnt[n] = Total(field, variables, garbage, pending, Calling, Clearing, n)
                 /\ ob_refcnt[n] \in Nat
        BY <1>1 DEF CountsAgree, IInv, TypeOK
    <1>3. CASE o \in variables \cup garbage
        <2>1. o \in Object
            BY <1>3 DEF IInv, TypeOK
        <2>2. ob_refcnt[o] > 0
            <3>1. pending \in Seq(Object)
                BY DEF IInv, TypeOK
            <3> QED
                BY <1>2, <1>3, <2>1, <3>1, TotalPositive
        <2>3. pc = "callback" => o \notin Doomed
            BY <1>3 DEF IInv, Sealed
        <2> QED
            BY <2>1, <2>2, <2>3
    <1>4. CASE o \notin variables \cup garbage
        <2>1. pc = "callback" /\ o \in {gc} \cup Range(References(gc))
            BY <1>4 DEF Held
        <2>2. gc \in Object /\ gc = First(wrcb_to_call)
            BY <2>1 DEF IInv, Stages
        <2>3. gc \in Range(wrcb_to_call)
            <3>1. wrcb_to_call \in Seq(Object)
                BY DEF IInv, TypeOK
            <3>2. wrcb_to_call # <<>>
                BY <2>2, <3>1, FirstFacts, NilIsNoObject
            <3> QED
                BY <2>2, <3>1, <3>2, FirstFacts
        <2>4. gc \notin Members(unreachable) /\ Doomed = Members(unreachable)
            <3>1. Range(unreachable) \cap (Range(finalizers) \cup Range(wrcb_to_call)) = {}
                BY ListsApart DEF IInv, Apart
            <3> QED
                BY <2>1, <2>3, <3>1 DEF Members, Doomed
        <2>5. FieldsOK(field) /\ pending \in Seq(Object)
            BY DEF IInv, TypeOK
        <2>6. CASE o = gc
            <3>1. o \in Calling
                BY <2>1, <2>3, <2>6 DEF Calling, Members
            <3>2. ob_refcnt[o] > 0
                BY <1>2, <2>2, <2>5, <2>6, <3>1, TotalPositive
            <3> QED
                BY <2>2, <2>4, <2>6, <3>2
        <2>7. CASE o \in Range(References(gc))
            <3>1. o \in Object /\ Refers(gc, o)
                BY <2>2, <2>5, <2>7, ReferencesFacts
            <3>2. FieldsTo(field, gc, o) # 0
                BY <2>2, <2>5, <3>1, FieldsToFacts DEF Refers
            <3>3. CountTo(field, o, Object) # 0
                BY <2>2, <3>2, CountType
            <3>4. ob_refcnt[o] > 0
                BY <1>2, <2>5, <3>1, <3>3, TotalPositive
            <3>5. o \notin Doomed
                BY <2>1, <2>2, <2>4, <3>1 DEF IInv, Sealed, Spares, Avoids
            <3> QED
                BY <3>1, <3>4, <3>5
        <2> QED
            BY <2>1, <2>6, <2>7
    <1> QED
        BY <1>3, <1>4

--------------------------------------------------------------------------------
(* The cascade.                                                            *)

\* While Python code and Py_DECREF run, no walk is going on.
LEMMA RunningStep ==
    ASSUME TypeOK', RefcountsExact', ListsExact', Alive', Stages', Sealed',
           pc' \in {"python", "update_refs", "callback", "called", "handle_weakrefs",
                    "delete_garbage", "clear", "cleared"}
    PROVE  IInv'
    BY DEF IInv, Copied, ReachableWalk, FinalizerWalk

\* A step that leaves alone all that Sealed speaks of.
LEMMA SealedUnchanged ==
    ASSUME Sealed, pc' = pc, trash' = trash, unreachable' = unreachable, field' = field,
           wr_object' = wr_object, variables' = variables, garbage' = garbage
    PROVE  Sealed'
    BY DEF Sealed, Doomed, Spares, Avoids, Refers, Members

\* A cascade goes on only while Python code or Py_DECREF runs.
LEMMA CascadeFacts ==
    ASSUME IInv, pending # <<>>
    PROVE  /\ Running
           /\ Head(pending) \in Object
           /\ Tail(pending) \in Seq(Object)
           /\ \A o \in Object : ob_refcnt[o] \in Nat
           /\ ob_refcnt[Head(pending)] > 0
    <1>1. pending \in Seq(Object) /\ \A o \in Object : ob_refcnt[o] \in Nat
        BY DEF IInv, TypeOK
    <1>2. Head(pending) \in Object /\ Tail(pending) \in Seq(Object)
        BY <1>1, OccurrencesDone
    <1>3. Head(pending) \in Range(pending)
        <2>1. Head(pending) = pending[1] /\ 1 \in DOMAIN pending
            BY <1>1
        <2> QED
            BY <2>1 DEF Range
    <1>4. ob_refcnt[Head(pending)] = Total(field, variables, garbage, pending, Calling, Clearing, Head(pending))
        BY <1>2, RefcountsMeans DEF IInv, CountsAgree
    <1>5. ob_refcnt[Head(pending)] # 0
        BY <1>1, <1>3, <1>4, TotalPositive
    <1>6. Running
        BY DEF IInv, Stages, Running
    <1> QED
        BY <1>1, <1>2, <1>5, <1>6

\* A Py_DECREF that is not the last: one reference less in pending and in the count.
LEMMA DecrefStep ==
    ASSUME IInv, Decref
    PROVE  IInv'
    <1> DEFINE x == Head(pending)
    <1>1. /\ pending # <<>> /\ ob_refcnt[x] > 1
          /\ ob_refcnt' = [ob_refcnt EXCEPT ![x] = @ - 1]
          /\ pending' = Tail(pending)
          /\ UNCHANGED <<gc_refs, graph, holders, lists, count, pc, generation, gc, trash>>
        BY DEF Decref
    <1>2. /\ Running /\ x \in Object /\ Tail(pending) \in Seq(Object) /\ pending \in Seq(Object)
          /\ ob_refcnt \in [Object -> Nat]
        BY <1>1, CascadeFacts DEF IInv, TypeOK
    <1>3. TypeOK'
        <2>1. ob_refcnt' \in [Object -> Nat]
            BY <1>1, <1>2
        <2> QED
            BY <1>1, <1>2, <2>1 DEF IInv, TypeOK, graph, holders, lists, FieldsOK
    <1>4. RefcountsExact'
        <2>1. ASSUME NEW o \in Object
              PROVE  ob_refcnt'[o] = Total(field, variables, garbage, pending', Calling, Clearing, o)
            <3>1. ob_refcnt[o] = Total(field, variables, garbage, pending, Calling, Clearing, o)
                BY RefcountsMeans DEF IInv, CountsAgree
            <3>2. Occurrences(pending, o) = Occurrences(pending', o) + Has({x}, o)
                BY <1>1, <1>2, OccurrencesDone
            <3>3. Has({x}, o) = IF o = x THEN 1 ELSE 0
                BY DEF Has
            <3>4. ob_refcnt'[o] = ob_refcnt[o] - Has({x}, o)
                BY <1>1, <1>2, <3>3
            <3>5. pending' \in Seq(Object)
                BY <1>1, <1>2
            <3> QED
                BY <1>2, <3>1, <3>2, <3>3, <3>4, <3>5, TotalPending
        <2>2. Calling' = Calling /\ Clearing' = Clearing
            BY <1>1 DEF Calling, Clearing, lists, Members
        <2> QED
            BY <1>1, <2>1, <2>2, RefcountsMeans DEF CountsAgree, graph, holders
    <1>5. ListsExact'
        BY <1>1, <1>2, ListsUnchanged DEF IInv, Running
    <1>6. Alive'
        BY <1>1, <1>2 DEF IInv, Alive, graph
    <1>7. Stages'
        BY <1>1, <1>2 DEF IInv, Stages, Running, lists, graph, holders, Members
    <1>8. Sealed'
        BY <1>1, SealedUnchanged DEF IInv, graph, holders, lists
    <1> QED
        BY <1>1, <1>2, <1>3, <1>4, <1>5, <1>6, <1>7, <1>8, RunningStep DEF Running

\* Nothing refers to an object that loses its last reference, the collector is not at
\* it, and the lists it leaves begin as before.
LEMMA LastReference ==
    ASSUME IInv, pending # <<>>, NEW x, x = Head(pending), ob_refcnt[x] = 1
    PROVE  /\ x \in Object
           /\ CountTo(field, x, Object) = 0
           /\ x \notin variables /\ x \notin garbage
           /\ x \notin Calling /\ x \notin Clearing
    <1>1. x \in Object /\ pending \in Seq(Object)
        BY CascadeFacts DEF IInv, TypeOK
    <1>2. 1 = Total(field, variables, garbage, pending, Calling, Clearing, x)
        BY <1>1, RefcountsMeans DEF IInv, CountsAgree
    <1>3. PICK p : p = Tail(pending)
        OBVIOUS
    <1>4. p \in Seq(Object) /\ Occurrences(pending, x) = Occurrences(p, x) + Has({x}, x)
        BY <1>1, <1>3, OccurrencesDone
    <1>5. Has({x}, x) = 1
        BY DEF Has
    <1>6. Total(field, variables, garbage, p, Calling, Clearing, x) = 0
        BY <1>1, <1>2, <1>4, <1>5, TotalPending
    <1> QED
        BY <1>1, <1>4, <1>6, TotalPositive

\* The lists without x.
LEMMA UntrackedLists ==
    ASSUME IInv, pending # <<>>, NEW x, x = Head(pending), ob_refcnt[x] = 1,
           unreachable' = Without(unreachable, {x}),
           finalizers' = Without(finalizers, {x}),
           wrcb_to_call' = Without(wrcb_to_call, {x}),
           pc' = pc, gc' = gc
    PROVE  /\ \A g \in Generation :
                Lists(Without(generations[g], {x}), Range(generations[g]) \ {x})
           /\ Lists(unreachable', Range(unreachable) \ {x})
           /\ Lists(finalizers', Range(finalizers) \ {x})
           /\ Lists(wrcb_to_call', Range(wrcb_to_call) \ {x})
           /\ unreachable = <<>> => unreachable' = <<>>
           /\ finalizers = <<>> => finalizers' = <<>>
           /\ wrcb_to_call = <<>> => wrcb_to_call' = <<>>
           /\ pc = "callback" => gc = First(wrcb_to_call')
           /\ pc = "called" /\ gc \in Members(wrcb_to_call') => gc = First(wrcb_to_call')
           /\ pc = "clear" => gc = First(unreachable')
           /\ pc = "cleared" /\ gc \in Members(unreachable') => gc = First(unreachable')
           /\ Calling' = Calling /\ Clearing' = Clearing
    <1>1. /\ x \in Object
          /\ x \notin Calling /\ x \notin Clearing
        BY LastReference
    <1>2. /\ \A g \in Generation : Lists(generations[g], Range(generations[g]))
          /\ Lists(unreachable, Range(unreachable)) /\ Lists(finalizers, Range(finalizers))
          /\ Lists(wrcb_to_call, Range(wrcb_to_call))
        BY ListsApart DEF IInv, Apart
    <1>3. /\ Lists(unreachable', Range(unreachable) \ {x})
          /\ Lists(finalizers', Range(finalizers) \ {x})
          /\ Lists(wrcb_to_call', Range(wrcb_to_call) \ {x})
        BY <1>2, WithoutLists
    <1>4. \A g \in Generation : Lists(Without(generations[g], {x}), Range(generations[g]) \ {x})
        BY <1>2, WithoutLists
    <1>5. /\ unreachable = <<>> => unreachable' = <<>>
          /\ finalizers = <<>> => finalizers' = <<>>
          /\ wrcb_to_call = <<>> => wrcb_to_call' = <<>>
        <2>1. Range(<<>>) = {}
            BY EmptyLists DEF Lists
        <2>2. /\ unreachable' \in Seq(Object) /\ Range(unreachable') = Range(unreachable) \ {x}
              /\ finalizers' \in Seq(Object) /\ Range(finalizers') = Range(finalizers) \ {x}
              /\ wrcb_to_call' \in Seq(Object) /\ Range(wrcb_to_call') = Range(wrcb_to_call) \ {x}
            BY <1>3, Zenon DEF Lists
        <2> QED
            BY <2>1, <2>2, EmptyRange
    <1>6. pc \in {"callback", "called", "clear", "cleared"} => gc \in Object
        BY DEF IInv, Stages
    <1>7. /\ unreachable \in Seq(Object)
          /\ wrcb_to_call \in Seq(Object)
        BY DEF IInv, TypeOK
    <1>8. pc = "callback" => gc = First(wrcb_to_call')
        <2> SUFFICES ASSUME pc = "callback" PROVE gc = First(wrcb_to_call')
            OBVIOUS
        <2>1. gc = First(wrcb_to_call) /\ gc \in Object
            BY <1>6 DEF IInv, Stages
        <2>2. gc \in Range(wrcb_to_call)
            BY <1>7, <2>1, FirstFacts, NilIsNoObject
        <2>3. gc # x
            BY <1>1, <2>2 DEF Calling, Members
        <2> QED
            BY <1>7, <2>1, <2>3, FirstWithout
    <1>9. pc = "called" /\ gc \in Members(wrcb_to_call') => gc = First(wrcb_to_call')
        <2> SUFFICES ASSUME pc = "called", gc \in Members(wrcb_to_call')
                     PROVE  gc = First(wrcb_to_call')
            OBVIOUS
        <2>1. gc \in Range(wrcb_to_call) /\ gc # x
            BY <1>3 DEF Members, Lists
        <2>2. gc = First(wrcb_to_call) /\ gc \in Object
            BY <1>6, <2>1 DEF IInv, Stages, Members
        <2> QED
            BY <1>7, <2>1, <2>2, FirstWithout
    <1>10. pc = "clear" => gc = First(unreachable')
        <2> SUFFICES ASSUME pc = "clear" PROVE gc = First(unreachable')
            OBVIOUS
        <2>1. gc = First(unreachable) /\ gc \in Object /\ gc # x
            BY <1>1, <1>6 DEF IInv, Stages, Clearing
        <2> QED
            BY <1>7, <2>1, FirstWithout
    <1>11. pc = "cleared" /\ gc \in Members(unreachable') => gc = First(unreachable')
        <2> SUFFICES ASSUME pc = "cleared", gc \in Members(unreachable')
                     PROVE  gc = First(unreachable')
            OBVIOUS
        <2>1. gc \in Range(unreachable) /\ gc # x
            BY <1>3 DEF Members, Lists
        <2>2. gc = First(unreachable) /\ gc \in Object
            BY <1>6, <2>1 DEF IInv, Stages, Members
        <2> QED
            BY <1>7, <2>1, <2>2, FirstWithout
    <1>12. Calling' = Calling /\ Clearing' = Clearing
        <2>1. Members(wrcb_to_call)' = Members(wrcb_to_call) \ {x}
            BY <1>3 DEF Members, Lists
        <2> QED
            BY <1>1, <2>1 DEF Calling, Clearing
    <1> QED
        BY <1>3, <1>4, <1>5, <1>8, <1>9, <1>10, <1>11, <1>12

\* The last Py_DECREF: the object leaves its list, and its references become pending.
LEMMA DeallocateStep ==
    ASSUME IInv, Deallocate
    PROVE  IInv'
    <1> DEFINE x == Head(pending)
    <1>1. /\ pending # <<>> /\ ob_refcnt[x] = 1
          /\ ob_refcnt' = [ob_refcnt EXCEPT ![x] = 0]
          /\ gc_refs' = [gc_refs EXCEPT ![x] = GC_UNTRACKED]
          /\ generations' = [g \in DOMAIN generations |-> Without(generations[g], {x})]
          /\ unreachable' = Without(unreachable, {x})
          /\ finalizers' = Without(finalizers, {x})
          /\ wrcb_to_call' = Without(wrcb_to_call, {x})
          /\ field' = [field EXCEPT ![x] = NoReferences(x)]
          /\ wr_object' = [w \in Weakref |-> IF w = x THEN Nil ELSE WeakrefsCleared(x)[w]]
          /\ pending' = References(x) \o Tail(pending)
          /\ count' = [count EXCEPT ![1] = IF @ > 0 THEN @ - 1 ELSE 0]
          /\ UNCHANGED <<holders, pc, generation, gc, trash>>
        BY DEF Deallocate, Untracked
    <1>2. /\ Running /\ x \in Object /\ Tail(pending) \in Seq(Object) /\ pending \in Seq(Object)
          /\ ob_refcnt \in [Object -> Nat]
          /\ FieldsOK(field)
        BY <1>1, CascadeFacts DEF IInv, TypeOK
    <1>3. /\ CountTo(field, x, Object) = 0
          /\ x \notin variables /\ x \notin garbage
          /\ x \notin Calling /\ x \notin Clearing
        BY <1>1, LastReference, Zenon
    <1>4. /\ \A g \in Generation :
                Lists(Without(generations[g], {x}), Range(generations[g]) \ {x})
          /\ Lists(unreachable', Range(unreachable) \ {x})
          /\ Lists(finalizers', Range(finalizers) \ {x})
          /\ Lists(wrcb_to_call', Range(wrcb_to_call) \ {x})
          /\ unreachable = <<>> => unreachable' = <<>>
          /\ finalizers = <<>> => finalizers' = <<>>
          /\ wrcb_to_call = <<>> => wrcb_to_call' = <<>>
          /\ pc = "callback" => gc = First(wrcb_to_call')
          /\ pc = "called" /\ gc \in Members(wrcb_to_call') => gc = First(wrcb_to_call')
          /\ pc = "clear" => gc = First(unreachable')
          /\ pc = "cleared" /\ gc \in Members(unreachable') => gc = First(unreachable')
          /\ Calling' = Calling /\ Clearing' = Clearing
        BY <1>1, UntrackedLists, Zenon
    <1> HIDE DEF x
    <1>5. /\ Range(unreachable') = Range(unreachable) \ {x}
          /\ Range(finalizers') = Range(finalizers) \ {x}
          /\ Range(wrcb_to_call') = Range(wrcb_to_call) \ {x}
        BY <1>4, Zenon DEF Lists
    <1>6. /\ \A o \in Object \ {x} : gc_refs'[o] = gc_refs[o]
          /\ gc_refs'[x] = GC_UNTRACKED
          /\ gc_refs' \in [Object -> Nat \cup {GC_UNTRACKED, GC_REACHABLE, GC_TENTATIVELY_UNREACHABLE}]
        BY <1>1, <1>2 DEF IInv, TypeOK
    <1>7. /\ \A o \in Object \ {x} : field'[o] = field[o]
          /\ field'[x] = NoReferences(x)
          /\ FieldsOK(field')
        BY <1>1, <1>2, NoReferencesFacts DEF FieldsOK
    <1>8. /\ wr_object' \in [Weakref -> Object \cup {Nil}]
          /\ \A w \in Weakref : wr_object'[w] # Nil => w # x /\ wr_object'[w] = wr_object[w]
        BY <1>1, <1>2 DEF IInv, TypeOK, WeakrefsCleared
    <1>9. ListsExact' /\ generations' \in [1..NUM_GENERATIONS -> Seq(Object)]
          /\ unreachable' \in Seq(Object) /\ finalizers' \in Seq(Object) /\ wrcb_to_call' \in Seq(Object)
        <2>1. DOMAIN generations = Generation
            BY DEF IInv, TypeOK, Generation
        <2>2. generations' = [g \in Generation |-> Without(generations[g], {x})]
            BY <1>1, <2>1
        <2>3. generations' = [g \in Generation |-> generations'[g]]
            BY <2>2
        <2>4. MovesLists(generations, unreachable, finalizers, wrcb_to_call,
                         generations', unreachable', finalizers', wrcb_to_call', {x}, {}, 0)
            <3>1. \A g \in Generation : Lists(generations'[g], Range(generations[g]) \ {x})
                BY <1>4, <2>2
            <3> QED
                BY <1>4, <3>1, MovesAway, Zenon
        <2>5. TrackedObjects' = (TrackedObjects \ {x}) \cup {}
            BY <1>2, <1>6 DEF TrackedObjects
        <2>6. MarksExact'
            <3>1. MarksExact
                BY ListsMeans DEF IInv
            <3>2. Members(unreachable)' = Members(unreachable) \ {x}
                BY <1>5 DEF Members
            <3>3. Members(unreachable)' = {o \in Object : gc_refs'[o] = GC_TENTATIVELY_UNREACHABLE}
                BY <1>2, <1>6, <3>1, <3>2
                   DEF MarksExact, GC_TENTATIVELY_UNREACHABLE, GC_UNTRACKED
            <3>4. ASSUME NEW o \in Object
                  PROVE  ~(gc_refs'[o] >= 0)
                BY <1>2, <1>6, <3>1 DEF MarksExact, Running, GC_UNTRACKED
            <3> QED
                BY <3>3, <3>4 DEF MarksExact
        <2>7. 0 \in 0..(NUM_GENERATIONS + 3)
            BY GenerationFacts
        <2> QED
            BY <2>3, <2>4, <2>5, <2>6, <2>7, ListsStep DEF IInv
    <1>10. /\ References(x) \in Seq(Object)
           /\ pending' \in Seq(Object)
           /\ \A o \in Object : Occurrences(pending', o) + Has({x}, o) =
                                Occurrences(pending, o) + FieldsTo(field, x, o)
        <2>1. References(x) \in Seq(Object)
              /\ \A o \in Object : Occurrences(References(x), o) = FieldsTo(field, x, o)
            BY <1>2, ReferencesFacts
        <2>2. pending' \in Seq(Object)
            BY <1>1, <1>2, <2>1, ConcatProperties DEF x
        <2>3. ASSUME NEW o \in Object
              PROVE  Occurrences(pending', o) + Has({x}, o) =
                        Occurrences(pending, o) + FieldsTo(field, x, o)
            <3>1. PICK p, r : p = Tail(pending) /\ r = References(x)
                OBVIOUS
            <3>2. p \in Seq(Object) /\ r \in Seq(Object) /\ pending' = r \o p
                BY <1>1, <1>2, <2>1, <3>1, Zenon DEF x
            <3>3. Occurrences(pending', o) = Occurrences(r, o) + Occurrences(p, o)
                BY <3>2, OccurrencesConcat, Zenon
            <3>4. Occurrences(pending, o) = Occurrences(p, o) + Has({x}, o)
                BY <1>1, <1>2, <3>1, OccurrencesDone DEF x
            <3>5. Occurrences(r, o) = FieldsTo(field, x, o)
                BY <2>1, <3>1
            <3>6. Occurrences(p, o) \in Nat /\ Has({x}, o) \in Nat /\ FieldsTo(field, x, o) \in Nat
                BY <1>2, <3>2, OccurrencesType, FieldsToFacts DEF Has
            <3> QED
                BY <3>3, <3>4, <3>5, <3>6
        <2> QED
            BY <2>1, <2>2, <2>3
    <1>11. RefcountsExact'
        <2>1. ASSUME NEW o \in Object
              PROVE  ob_refcnt'[o] = Total(field', variables, garbage, pending', Calling, Clearing, o)
            <3>1. ob_refcnt[o] = Total(field, variables, garbage, pending, Calling, Clearing, o)
                BY RefcountsMeans DEF IInv, CountsAgree
            <3>2. CountTo(field', o, Object) + FieldsTo(field, x, o) = CountTo(field, o, Object) + FieldsTo(field', x, o)
                <4>1. SameBut(field, field', x)
                    BY <1>7 DEF SameBut
                <4> QED
                    BY <1>2, <4>1, CountUpdate
            <3>3. FieldsTo(field', x, o) = 0 /\ FieldsTo(field, x, o) \in Nat
                BY <1>2, <1>7, ClearedFields, FieldsToFacts
            <3>4. Occurrences(pending', o) + Has({x}, o) = Occurrences(pending, o) + FieldsTo(field, x, o)
                BY <1>10
            <3>5. Has({x}, o) = IF o = x THEN 1 ELSE 0
                BY DEF Has
            <3>6. ob_refcnt'[o] = ob_refcnt[o] - Has({x}, o)
                BY <1>1, <1>2, <3>5 DEF x
            <3>7. Total(field', variables, garbage, pending, Calling, Clearing, o) + CountTo(field, o, Object)
                     = Total(field, variables, garbage, pending, Calling, Clearing, o) + CountTo(field', o, Object)
                BY <1>2, TotalFields
            <3>8. Total(field', variables, garbage, pending', Calling, Clearing, o) + Occurrences(pending, o)
                     = Total(field', variables, garbage, pending, Calling, Clearing, o) + Occurrences(pending', o)
                BY <1>2, <1>10, TotalPending
            <3> DEFINE t1 == Total(field, variables, garbage, pending, Calling, Clearing, o)
                       t2 == Total(field', variables, garbage, pending, Calling, Clearing, o)
                       t3 == Total(field', variables, garbage, pending', Calling, Clearing, o)
                       c1 == CountTo(field, o, Object)
                       c2 == CountTo(field', o, Object)
                       q1 == Occurrences(pending, o)
                       q2 == Occurrences(pending', o)
                       r == FieldsTo(field, x, o)
                       h == Has({x}, o)
                       n == ob_refcnt'[o]
            <3>9. /\ t1 \in Nat /\ t2 \in Nat /\ t3 \in Nat
                  /\ c1 \in Nat /\ c2 \in Nat /\ q1 \in Nat /\ q2 \in Nat /\ r \in Nat /\ h \in Nat
                BY <1>2, <1>10, <3>3, TotalType DEF Has
            <3>10. /\ c2 + r = c1
                   /\ q2 + h = q1 + r
                   /\ n = t1 - h
                   /\ t2 + c1 = t1 + c2
                   /\ t3 + q1 = t2 + q2
                BY <3>1, <3>2, <3>3, <3>4, <3>6, <3>7, <3>8, <3>9
            <3> HIDE DEF t1, t2, t3, c1, c2, q1, q2, r, h, n
            <3>11. n = t3
                BY <3>9, <3>10
            <3> QED
                BY <3>11 DEF n, t3
        <2> QED
            BY <1>1, <1>4, <2>1, RefcountsMeans DEF CountsAgree, holders
    <1>12. TypeOK'
        <2>1. ob_refcnt' \in [Object -> Nat]
            BY <1>1, <1>2 DEF x
        <2>2. DOMAIN count' = 1..NUM_GENERATIONS
            BY <1>1 DEF IInv, TypeOK
        <2> QED
            BY <1>1, <1>6, <1>7, <1>8, <1>9, <1>10, <2>1, <2>2 DEF IInv, TypeOK, holders
    <1>13. Alive'
        <2>1. \A o \in Object \ {x} : ob_refcnt'[o] = ob_refcnt[o]
            BY <1>1, <1>2 DEF x
        <2>2. \A o \in Object : gc_refs'[o] # GC_UNTRACKED => ob_refcnt'[o] > 0
            BY <1>6, <2>1 DEF IInv, Alive
        <2>3. \A o \in Object : ob_refcnt'[o] = 0 => field'[o] = NoReferences(o)
            BY <1>7, <2>1 DEF IInv, Alive
        <2>4. \A w \in Weakref : wr_object'[w] # Nil => gc_refs'[w] # GC_UNTRACKED
            BY <1>6, <1>8, KindAssumption DEF IInv, Alive
        <2> QED
            BY <2>2, <2>3, <2>4 DEF Alive
    <1>14. Stages'
        <2>1. pc \in {"callback", "called", "clear", "cleared"} => gc \in Object
            BY DEF IInv, Stages
        <2>2. pc \in {"clear", "cleared"} => field'[gc] = NoReferences(gc)
            BY <1>2, <1>7, <2>1 DEF IInv, Stages
        <2>3. Members(finalizers') \cap garbage' = {}
            BY <1>1, <1>5 DEF IInv, Stages, Members, holders
        <2> QED
            BY <1>1, <1>2, <1>4, <2>1, <2>2, <2>3 DEF IInv, Stages, Running, Members
    <1>15. Sealed'
        <2> SUFFICES ASSUME pc \in {"callback", "called", "clear", "cleared"}
                     PROVE  Sealed'
            BY <1>1, <1>2 DEF Sealed, Running
        <2>1. /\ Members(unreachable) \subseteq Doomed
              /\ Doomed \subseteq Object
              /\ Doomed \cap (Finalizer \cup variables \cup garbage) = {}
              /\ \A n \in Object \ Members(unreachable) : Spares(n, Doomed)
              /\ \A w \in Weakref : wr_object[w] \notin Doomed
            BY DEF IInv, Sealed
        <2>2. Members(unreachable') = Members(unreachable) \ {x}
            BY <1>5 DEF Members
        <2>3. Doomed' \subseteq Doomed /\ Members(unreachable') \subseteq Doomed'
            BY <1>1, <2>1, <2>2 DEF Doomed
        <2>4. ASSUME NEW n \in Object \ Members(unreachable')
              PROVE  n \in Doomed' \cap NoClear \/ \A o \in Doomed' : ~Refers(n, o)'
            <3>1. CASE n = x
                BY <1>2, <1>7, <2>1, <2>3, <3>1, NoReferencesFacts, NilIsNoObject DEF Refers
            <3>2. CASE n # x /\ n \in Doomed
                <4>1. n \notin Members(unreachable)
                    BY <2>2, <3>2
                <4>2. Doomed = trash /\ Doomed' = trash
                    BY <1>1, <3>2, <4>1 DEF Doomed
                <4>3. n \in Doomed' \cap NoClear \/ \A o \in Doomed' : ~Refers(n, o)
                    BY <2>1, <4>1, <4>2 DEF Spares, Avoids
                <4> QED
                    BY <1>7, <3>2, <4>3 DEF Refers
            <3>3. CASE n # x /\ n \notin Doomed
                <4>1. \A o \in Doomed' : ~Refers(n, o)
                    BY <2>1, <2>2, <2>3, <3>3 DEF Spares, Avoids
                <4> QED
                    BY <1>7, <3>3, <4>1 DEF Refers
            <3> QED
                BY <3>1, <3>2, <3>3
        <2>5. \A w \in Weakref : wr_object'[w] \notin Doomed'
            BY <1>8, <2>1, <2>3, NilIsNoObject
        <2>6. Doomed' \cap (Finalizer \cup variables' \cup garbage') = {}
            BY <1>1, <2>1, <2>3 DEF holders
        <2>7. Doomed' \subseteq Object
            BY <2>1, <2>3
        <2>8. \A n \in Object \ Members(unreachable') : Spares(n, Doomed)'
            BY <2>4 DEF Spares, Avoids
        <2> QED
            BY <2>3, <2>5, <2>6, <2>7, <2>8 DEF Sealed, Members
    <1> QED
        BY <1>1, <1>2, <1>9, <1>11, <1>12, <1>13, <1>14, <1>15, RunningStep DEF Running

\* __del__ stores its object in a variable, and it is tracked again; it was not trash.
LEMMA ResurrectStep ==
    ASSUME IInv, Resurrect
    PROVE  IInv'
    <1> DEFINE x == Head(pending)
    <1>1. /\ pending # <<>> /\ ob_refcnt[x] = 1 /\ x \in Finalizer
          /\ gc_refs' = [gc_refs EXCEPT ![x] = GC_REACHABLE]
          /\ generations' = [g \in DOMAIN generations |->
                                IF g = 1 THEN Append(Without(generations[g], {x}), x)
                                ELSE Without(generations[g], {x})]
          /\ unreachable' = Without(unreachable, {x})
          /\ finalizers' = Without(finalizers, {x})
          /\ wrcb_to_call' = Without(wrcb_to_call, {x})
          /\ wr_object' = WeakrefsCleared(x)
          /\ variables' = variables \cup {x}
          /\ pending' = Tail(pending)
          /\ UNCHANGED <<ob_refcnt, field, garbage, count, pc, generation, gc, trash>>
        BY DEF Resurrect
    <1>2. /\ Running /\ x \in Object /\ Tail(pending) \in Seq(Object) /\ pending \in Seq(Object)
          /\ ob_refcnt \in [Object -> Nat]
          /\ FieldsOK(field)
        BY <1>1, CascadeFacts DEF IInv, TypeOK
    <1>3. /\ CountTo(field, x, Object) = 0
          /\ x \notin variables /\ x \notin garbage
          /\ x \notin Calling /\ x \notin Clearing
        BY <1>1, LastReference, Zenon
    <1>4. /\ \A g \in Generation :
                Lists(Without(generations[g], {x}), Range(generations[g]) \ {x})
          /\ Lists(unreachable', Range(unreachable) \ {x})
          /\ Lists(finalizers', Range(finalizers) \ {x})
          /\ Lists(wrcb_to_call', Range(wrcb_to_call) \ {x})
          /\ unreachable = <<>> => unreachable' = <<>>
          /\ finalizers = <<>> => finalizers' = <<>>
          /\ wrcb_to_call = <<>> => wrcb_to_call' = <<>>
          /\ pc = "callback" => gc = First(wrcb_to_call')
          /\ pc = "called" /\ gc \in Members(wrcb_to_call') => gc = First(wrcb_to_call')
          /\ pc = "clear" => gc = First(unreachable')
          /\ pc = "cleared" /\ gc \in Members(unreachable') => gc = First(unreachable')
          /\ Calling' = Calling /\ Clearing' = Clearing
        BY <1>1, UntrackedLists, Zenon
    <1> HIDE DEF x
    <1>5. /\ Range(unreachable') = Range(unreachable) \ {x}
          /\ Range(finalizers') = Range(finalizers) \ {x}
          /\ Range(wrcb_to_call') = Range(wrcb_to_call) \ {x}
        BY <1>4, Zenon DEF Lists
    <1>6. /\ \A o \in Object \ {x} : gc_refs'[o] = gc_refs[o]
          /\ gc_refs'[x] = GC_REACHABLE
          /\ gc_refs' \in [Object -> Nat \cup {GC_UNTRACKED, GC_REACHABLE, GC_TENTATIVELY_UNREACHABLE}]
        BY <1>1, <1>2 DEF IInv, TypeOK
    <1>7. /\ wr_object' \in [Weakref -> Object \cup {Nil}]
          /\ \A w \in Weakref : wr_object'[w] # Nil => wr_object'[w] = wr_object[w]
        BY <1>1, <1>2 DEF IInv, TypeOK, WeakrefsCleared
    <1>8. pending' \in Seq(Object)
          /\ \A o \in Object : Occurrences(pending, o) = Occurrences(pending', o) + Has({x}, o)
        BY <1>1, <1>2, OccurrencesDone DEF x
    <1>9. ListsExact' /\ generations' \in [1..NUM_GENERATIONS -> Seq(Object)]
          /\ unreachable' \in Seq(Object) /\ finalizers' \in Seq(Object) /\ wrcb_to_call' \in Seq(Object)
        <2>1. DOMAIN generations = Generation
            BY DEF IInv, TypeOK, Generation
        <2>2. generations' = [g \in Generation |->
                                IF g = 1 THEN Append(Without(generations[g], {x}), x)
                                ELSE Without(generations[g], {x})]
            BY <1>1, <2>1
        <2>3. generations' = [g \in Generation |-> generations'[g]]
            BY <2>2
        <2>4. /\ MovesLists(generations, unreachable, finalizers, wrcb_to_call,
                            generations', unreachable', finalizers', wrcb_to_call', {x}, {x}, 1)
              /\ 1 \in 0..(NUM_GENERATIONS + 3) /\ 1 # 0
            <3>1. \A g \in Generation \ {1} : Lists(generations'[g], Range(generations[g]) \ {x})
                BY <1>4, <2>2
            <3>2. 1 \in Generation
                BY GenerationFacts
            <3>3. Lists(Append(Without(generations[1], {x}), x), (Range(generations[1]) \ {x}) \cup {x})
                BY <1>2, <1>4, <3>2, AppendLists
            <3>4. Lists(generations'[1], (Range(generations[1]) \ {x}) \cup {x})
                BY <2>2, <3>2, <3>3
            <3>5. JoinGeneration(generations, unreachable, finalizers, wrcb_to_call,
                                 generations', unreachable', finalizers', wrcb_to_call', {x}, {x}, 1)
                BY <1>4, <3>1, <3>4, Zenon DEF JoinGeneration
            <3> QED
                BY <3>2, <3>5, MovesToGeneration, Zenon
        <2>5. /\ TrackedObjects' = (TrackedObjects \ {x}) \cup {x}
              /\ {x} \cap (TrackedObjects \ {x}) = {}
            BY <1>2, <1>6 DEF TrackedObjects, GC_REACHABLE, GC_UNTRACKED
        <2>6. MarksExact'
            <3>1. MarksExact
                BY ListsMeans DEF IInv
            <3>2. Members(unreachable)' = Members(unreachable) \ {x}
                BY <1>5 DEF Members
            <3>3. Members(unreachable)' = {o \in Object : gc_refs'[o] = GC_TENTATIVELY_UNREACHABLE}
                BY <1>2, <1>6, <3>1, <3>2
                   DEF MarksExact, GC_TENTATIVELY_UNREACHABLE, GC_REACHABLE
            <3>4. ASSUME NEW o \in Object
                  PROVE  ~(gc_refs'[o] >= 0)
                BY <1>2, <1>6, <3>1 DEF MarksExact, Running, GC_REACHABLE
            <3> QED
                BY <3>3, <3>4 DEF MarksExact
        <2> QED
            BY <2>3, <2>4, <2>5, <2>6, ListsStep DEF IInv
    <1>11. RefcountsExact'
        <2>1. ASSUME NEW o \in Object
              PROVE  ob_refcnt'[o] = Total(field, variables', garbage, pending', Calling, Clearing, o)
            <3> DEFINE t1 == Total(field, variables, garbage, pending, Calling, Clearing, o)
                       t2 == Total(field, variables', garbage, pending, Calling, Clearing, o)
                       t3 == Total(field, variables', garbage, pending', Calling, Clearing, o)
                       v1 == Has(variables, o)
                       v2 == Has(variables', o)
                       q1 == Occurrences(pending, o)
                       q2 == Occurrences(pending', o)
                       h == Has({x}, o)
            <3>1. ob_refcnt'[o] = t1
                BY <1>1, RefcountsMeans DEF IInv, CountsAgree
            <3>2. t2 + v1 = t1 + v2
                BY <1>2, TotalVariables
            <3>3. t3 + q1 = t2 + q2
                BY <1>2, <1>8, TotalPending
            <3>4. v2 = v1 + h
                BY <1>1, <1>3 DEF Has
            <3>5. q1 = q2 + h
                BY <1>8
            <3>6. /\ t1 \in Nat /\ t2 \in Nat /\ t3 \in Nat
                  /\ v1 \in Nat /\ v2 \in Nat /\ q1 \in Nat /\ q2 \in Nat /\ h \in Nat
                BY <1>2, <1>8, TotalType DEF Has
            <3> HIDE DEF t1, t2, t3, v1, v2, q1, q2, h
            <3>7. ob_refcnt'[o] = t3
                BY <3>1, <3>2, <3>3, <3>4, <3>5, <3>6
            <3> QED
                BY <3>7 DEF t3
        <2> QED
            BY <1>1, <1>4, <2>1, RefcountsMeans DEF CountsAgree
    <1>12. TypeOK'
        BY <1>1, <1>2, <1>6, <1>7, <1>8, <1>9 DEF IInv, TypeOK
    <1>13. Alive'
        <2>1. \A o \in Object : gc_refs'[o] # GC_UNTRACKED => ob_refcnt'[o] > 0
            BY <1>1, <1>6 DEF IInv, Alive
        <2>2. \A o \in Object : ob_refcnt'[o] = 0 => field'[o] = NoReferences(o)
            BY <1>1 DEF IInv, Alive
        <2>3. \A w \in Weakref : wr_object'[w] # Nil => gc_refs'[w] # GC_UNTRACKED
            BY <1>6, <1>7, KindAssumption DEF IInv, Alive, GC_REACHABLE, GC_UNTRACKED
        <2> QED
            BY <2>1, <2>2, <2>3 DEF Alive
    <1>14. Stages'
        <2>1. pc \in {"callback", "called", "clear", "cleared"} => gc \in Object
            BY DEF IInv, Stages
        <2>2. pc \in {"clear", "cleared"} => field'[gc] = NoReferences(gc)
            BY <1>1 DEF IInv, Stages
        <2>3. Members(finalizers') \cap garbage' = {}
            BY <1>1, <1>5 DEF IInv, Stages, Members
        <2> QED
            BY <1>1, <1>2, <1>4, <2>1, <2>2, <2>3 DEF IInv, Stages, Running, Members
    <1>15. Sealed'
        <2> SUFFICES ASSUME pc \in {"callback", "called", "clear", "cleared"}
                     PROVE  Sealed'
            BY <1>1, <1>2 DEF Sealed, Running
        <2>1. /\ Members(unreachable) \subseteq Doomed
              /\ Doomed \subseteq Object
              /\ Doomed \cap (Finalizer \cup variables \cup garbage) = {}
              /\ \A n \in Object \ Members(unreachable) : Spares(n, Doomed)
              /\ \A w \in Weakref : wr_object[w] \notin Doomed
            BY DEF IInv, Sealed
        <2>2. Members(unreachable') = Members(unreachable)
            BY <1>1, <1>5, <2>1 DEF Members
        <2>3. Doomed' = Doomed
            BY <1>1, <2>2 DEF Doomed
        <2>4. \A w \in Weakref : wr_object'[w] \notin Doomed'
            BY <1>7, <2>1, <2>3, NilIsNoObject
        <2>5. Doomed' \cap (Finalizer \cup variables' \cup garbage') = {}
            BY <1>1, <2>1, <2>3
        <2>6. \A n \in Object \ Members(unreachable') : Spares(n, Doomed)'
            BY <1>1, <2>1, <2>2, <2>3 DEF Spares, Avoids, Refers
        <2> QED
            BY <2>1, <2>2, <2>3, <2>4, <2>5, <2>6 DEF Sealed, Members
    <1> QED
        BY <1>1, <1>2, <1>9, <1>11, <1>12, <1>13, <1>14, <1>15, RunningStep DEF Running

--------------------------------------------------------------------------------
(* The client.                                                             *)

\* What the client can rely on when it runs.
LEMMA PythonFacts ==
    ASSUME IInv, Python
    PROVE  /\ Running /\ pc \in {"python", "callback"} /\ pending = <<>>
           /\ pending \in Seq(Object)
           /\ ob_refcnt \in [Object -> Nat] /\ FieldsOK(field)
           /\ variables \subseteq Object /\ garbage \subseteq Object
           /\ \A o \in Object : ob_refcnt[o] = 0 => gc_refs[o] = GC_UNTRACKED
           /\ \A o \in Members(unreachable) : gc_refs[o] # GC_UNTRACKED
           /\ \A o \in Object :
                ob_refcnt[o] = Total(field, variables, garbage, pending, Calling, Clearing, o)
    <1>1. /\ Running /\ pc \in {"python", "callback"} /\ pending = <<>>
        BY DEF Running, Python
    <1>2. /\ pending \in Seq(Object)
          /\ ob_refcnt \in [Object -> Nat] /\ FieldsOK(field)
          /\ variables \subseteq Object /\ garbage \subseteq Object
        BY DEF IInv, TypeOK
    <1>3. \A o \in Object : ob_refcnt[o] = 0 => gc_refs[o] = GC_UNTRACKED
        <2>1. \A o \in Object : gc_refs[o] # GC_UNTRACKED => ob_refcnt[o] > 0
            BY DEF IInv, Alive
        <2> QED
            BY <2>1
    <1>4. \A o \in Members(unreachable) : gc_refs[o] # GC_UNTRACKED
        BY ListsMeans DEF IInv, MarksExact, GC_TENTATIVELY_UNREACHABLE, GC_UNTRACKED
    <1>5. \A o \in Object :
            ob_refcnt[o] = Total(field, variables, garbage, pending, Calling, Clearing, o)
        BY RefcountsMeans DEF IInv, CountsAgree
    <1> QED
        BY <1>1, <1>2, <1>3, <1>4, <1>5

\* The client does not touch what the collector is at.
LEMMA ClientStages ==
    ASSUME IInv, Python, UNCHANGED <<pc, gc, unreachable, finalizers, wrcb_to_call>>,
           garbage' \subseteq garbage
    PROVE  Stages' /\ Calling' = Calling /\ Clearing' = Clearing
    <1>1. Stages'
        BY DEF IInv, Stages, Python, Members
    <1>2. Calling' = Calling /\ Clearing' = Clearing
        BY DEF Calling, Clearing, Members
    <1> QED
        BY <1>1, <1>2

\* The client gives references only to what it can get hold of.
LEMMA ClientSealed ==
    ASSUME IInv, Python, UNCHANGED <<pc, unreachable, trash>>, garbage' \subseteq garbage,
           pc = "callback" => variables' \cap Doomed = {},
           \A n, o \in Object : Refers(n, o)' => Refers(n, o) \/ o \in Held,
           \A w \in Weakref : wr_object'[w] \in {Nil, wr_object[w]} \cup Held
    PROVE  Sealed'
    <1> SUFFICES ASSUME pc = "callback"
                 PROVE  Sealed'
        BY DEF Sealed, Python
    <1>1. /\ Members(unreachable) \subseteq Doomed
          /\ Doomed \subseteq Object
          /\ Doomed \cap (Finalizer \cup variables \cup garbage) = {}
          /\ \A n \in Object \ Members(unreachable) : Spares(n, Doomed)
          /\ \A w \in Weakref : wr_object[w] \notin Doomed
        BY DEF IInv, Sealed
    <1>2. Doomed' = Doomed /\ Members(unreachable)' = Members(unreachable)
        BY DEF Doomed, Members
    <1>3. \A o \in Held : o \notin Doomed
        BY HeldFacts
    <1>4. \A n \in Object \ Members(unreachable) : Spares(n, Doomed)'
        BY <1>1, <1>2, <1>3 DEF Spares, Avoids
    <1>5. \A w \in Weakref : wr_object'[w] \notin Doomed
        BY <1>1, <1>3, NilIsNoObject
    <1>6. Doomed \cap (Finalizer \cup variables' \cup garbage') = {}
        BY <1>1
    <1> QED
        BY <1>1, <1>2, <1>4, <1>5, <1>6 DEF Sealed

\* The client gives up a variable or an entry of gc.garbage, which starts a cascade.
LEMMA DropStep ==
    ASSUME IInv, Drop
    PROVE  IInv'
    <1>1. PICK x \in Held :
            /\ \/ x \in variables /\ variables' = variables \ {x} /\ UNCHANGED garbage
               \/ x \in garbage /\ garbage' = garbage \ {x} /\ UNCHANGED variables
            /\ pending' = <<x>>
        BY DEF Drop
    <1>2. Python /\ UNCHANGED <<ob_refcnt, gc_refs, graph, lists, count, pc, generation, gc, trash>>
        BY DEF Drop
    <1>3. /\ Running /\ pc \in {"python", "callback"} /\ pending = <<>> /\ pending \in Seq(Object)
          /\ \A o \in Object :
                ob_refcnt[o] = Total(field, variables, garbage, pending, Calling, Clearing, o)
        BY <1>2, PythonFacts
    <1>4. x \in Object
        BY <1>2, HeldFacts
    <1>5. /\ pending' \in Seq(Object)
          /\ \A o : Occurrences(pending', o) = Has({x}, o) /\ Occurrences(pending, o) = 0
        BY <1>1, <1>3, <1>4, OccurrencesNew
    <1>p. pending \in Seq(Object) /\ pending' \in Seq(Object)
        BY <1>3, <1>5
    <1>6. variables' \subseteq variables /\ garbage' \subseteq garbage
        BY <1>1
    <1>7. Stages' /\ Calling' = Calling /\ Clearing' = Clearing
        BY <1>2, <1>6, ClientStages DEF lists
    <1>8. TypeOK'
        BY <1>2, <1>5, <1>6 DEF IInv, TypeOK, graph, lists, FieldsOK
    <1>9. RefcountsExact'
        <2>1. ASSUME NEW o \in Object
              PROVE  ob_refcnt'[o] = Total(field, variables', garbage', pending', Calling, Clearing, o)
            <3> DEFINE t1 == Total(field, variables, garbage, pending, Calling, Clearing, o)
                       t2 == Total(field, variables', garbage, pending, Calling, Clearing, o)
                       t3 == Total(field, variables', garbage', pending, Calling, Clearing, o)
                       t4 == Total(field, variables', garbage', pending', Calling, Clearing, o)
                       v1 == Has(variables, o)
                       v2 == Has(variables', o)
                       g1 == Has(garbage, o)
                       g2 == Has(garbage', o)
                       q1 == Occurrences(pending, o)
                       q2 == Occurrences(pending', o)
                       h == Has({x}, o)
            <3>1. ob_refcnt'[o] = t1
                BY <1>2, <1>3
            <3>2. t2 + v1 = t1 + v2
                BY <1>p, TotalVariables
            <3>3. t3 + g1 = t2 + g2
                BY <1>p, TotalGarbage
            <3>4. t4 + q1 = t3 + q2
                BY <1>p, TotalPending
            <3>5. v2 + g2 + h = v1 + g1
                BY <1>1 DEF Has
            <3>6. q2 = h /\ q1 = 0
                BY <1>5
            <3>7. /\ t1 \in Nat /\ t2 \in Nat /\ t3 \in Nat /\ t4 \in Nat
                  /\ v1 \in Nat /\ v2 \in Nat /\ g1 \in Nat /\ g2 \in Nat /\ h \in Nat
                BY <1>3, <1>5, TotalType DEF Has
            <3> HIDE DEF t1, t2, t3, t4, v1, v2, g1, g2, q1, q2, h
            <3>8. ob_refcnt'[o] = t4
                BY <3>1, <3>2, <3>3, <3>4, <3>5, <3>6, <3>7
            <3> QED
                BY <3>8 DEF t4
        <2> QED
            BY <1>2, <1>7, <2>1, RefcountsMeans DEF CountsAgree, graph
    <1>10. ListsExact'
        BY <1>2, <1>3, ListsUnchanged DEF IInv
    <1>11. Alive'
        BY <1>2 DEF IInv, Alive, graph
    <1>12. Sealed'
        <2>1. pc = "callback" => variables' \cap Doomed = {}
            BY <1>6 DEF IInv, Sealed
        <2>2. \A n, o \in Object : Refers(n, o)' => Refers(n, o)
            BY <1>2 DEF Refers, graph
        <2>3. \A w \in Weakref : wr_object'[w] \in {Nil, wr_object[w]}
            BY <1>2 DEF graph
        <2> QED
            BY <1>2, <1>6, <2>1, <2>2, <2>3, ClientSealed DEF lists
    <1> QED
        BY <1>2, <1>3, <1>7, <1>8, <1>9, <1>10, <1>11, <1>12, RunningStep

\* It takes a reference out of an object that it can use, or out of a weak reference.
LEMMA LoadStep ==
    ASSUME IInv, Load
    PROVE  IInv'
    <1>1. Python /\ UNCHANGED <<gc_refs, graph, garbage, lists, count, pc, generation, gc, pending, trash>>
        BY DEF Load
    <1>2. /\ Running /\ pc \in {"python", "callback"} /\ pending = <<>> /\ pending \in Seq(Object)
          /\ ob_refcnt \in [Object -> Nat] /\ FieldsOK(field)
          /\ \A o \in Object :
                ob_refcnt[o] = Total(field, variables, garbage, pending, Calling, Clearing, o)
        BY <1>1, PythonFacts
    <1>p. pending \in Seq(Object)
        BY <1>2
    <1>3. PICK x \in Object : Loaded(x) /\ (pc = "callback" => x \notin Doomed)
        <2>1. CASE \E o \in Held \ Weakref : \E v \in Range(References(o)) : Loaded(v)
            <3>0. PICK o \in Held \ Weakref : \E v \in Range(References(o)) : Loaded(v)
                BY <2>1
            <3>1. PICK v \in Range(References(o)) : Loaded(v)
                BY <3>0
            <3>2. o \in Object /\ (pc = "callback" => o \notin Doomed)
                BY <1>1, HeldFacts
            <3>3. v \in Object /\ Refers(o, v)
                BY <1>2, <3>2, ReferencesFacts
            <3>4. pc = "callback" => v \notin Doomed
                BY <3>2, <3>3 DEF IInv, Sealed, Spares, Avoids
            <3> QED
                BY <3>1, <3>3, <3>4
        <2>2. CASE \E w \in Held \cap Weakref : wr_object[w] # Nil /\ Loaded(wr_object[w])
            <3>1. PICK w \in Held \cap Weakref : wr_object[w] # Nil /\ Loaded(wr_object[w])
                BY <2>2
            <3>2. wr_object[w] \in Object
                BY <3>1 DEF IInv, TypeOK
            <3>3. pc = "callback" => wr_object[w] \notin Doomed
                BY DEF IInv, Sealed
            <3> QED
                BY <3>1, <3>2, <3>3
        <2>3. CASE \E o \in Held : Loaded(o)
            BY <1>1, <2>3, HeldFacts
        <2> QED
            BY <2>1, <2>2, <2>3 DEF Load
    <1>4. x \notin variables /\ variables' = variables \cup {x}
          /\ ob_refcnt' = [ob_refcnt EXCEPT ![x] = @ + 1]
        BY <1>3 DEF Loaded, Py_INCREF
    <1>5. Stages' /\ Calling' = Calling /\ Clearing' = Clearing
        BY <1>1, ClientStages DEF lists
    <1>6. TypeOK'
        BY <1>1, <1>2, <1>4 DEF IInv, TypeOK, graph, lists, FieldsOK
    <1>7. RefcountsExact'
        <2>1. ASSUME NEW o \in Object
              PROVE  ob_refcnt'[o] = Total(field, variables', garbage, pending, Calling, Clearing, o)
            <3>1. Total(field, variables', garbage, pending, Calling, Clearing, o) + Has(variables, o)
                    = Total(field, variables, garbage, pending, Calling, Clearing, o) + Has(variables', o)
                BY <1>p, TotalVariables
            <3>2. Has(variables', o) = Has(variables, o) + Has({x}, o)
                BY <1>4 DEF Has
            <3>3. Has(variables, o) \in Nat /\ Has({x}, o) = IF o = x THEN 1 ELSE 0
                BY DEF Has
            <3>4. Total(field, variables', garbage, pending, Calling, Clearing, o) \in Nat
                BY <1>2, TotalType
            <3> QED
                BY <1>2, <1>4, <3>1, <3>2, <3>3, <3>4
        <2> QED
            BY <1>1, <1>5, <2>1, RefcountsMeans DEF CountsAgree, graph
    <1>8. ListsExact'
        BY <1>1, <1>2, ListsUnchanged DEF IInv
    <1>9. Alive'
        <2>1. ASSUME NEW o \in Object
              PROVE  /\ ob_refcnt'[o] > 0 \/ ob_refcnt'[o] = ob_refcnt[o]
                     /\ ob_refcnt'[o] = 0 => ob_refcnt[o] = 0
            BY <1>2, <1>4
        <2> QED
            BY <1>1, <2>1 DEF IInv, Alive, graph
    <1>10. Sealed'
        <2>1. pc = "callback" => variables' \cap Doomed = {}
            BY <1>3, <1>4 DEF IInv, Sealed
        <2>2. \A n, o \in Object : Refers(n, o)' => Refers(n, o)
            BY <1>1 DEF Refers, graph
        <2>3. \A w \in Weakref : wr_object'[w] \in {Nil, wr_object[w]}
            BY <1>1 DEF graph
        <2> QED
            BY <1>1, <2>1, <2>2, <2>3, ClientSealed DEF lists
    <1> QED
        BY <1>1, <1>2, <1>5, <1>6, <1>7, <1>8, <1>9, <1>10, RunningStep

\* It stores a reference in an object; what was there before is dropped.
LEMMA StoreStep ==
    ASSUME IInv, Store
    PROVE  IInv'
    <1>0. Python /\ UNCHANGED <<gc_refs, wr_object, holders, lists, count, pc, generation, gc, trash>>
        BY DEF Store
    <1>1. PICK x \in Held \ Weakref, v \in Held \cup {Nil} : \E i \in DOMAIN field[x] :
            /\ v # field[x][i]
            /\ v # Nil => gc_refs[v] # GC_UNTRACKED
            /\ field' = [field EXCEPT ![x][i] = v]
            /\ ob_refcnt' = IF v = Nil THEN ob_refcnt ELSE Py_INCREF(v)
            /\ pending' = IF field[x][i] = Nil THEN <<>> ELSE <<field[x][i]>>
        BY DEF Store
    <1>2. PICK i \in DOMAIN field[x] :
            /\ v # field[x][i]
            /\ field' = [field EXCEPT ![x][i] = v]
            /\ ob_refcnt' = IF v = Nil THEN ob_refcnt ELSE [ob_refcnt EXCEPT ![v] = @ + 1]
            /\ pending' = IF field[x][i] = Nil THEN <<>> ELSE <<field[x][i]>>
        BY <1>1 DEF Py_INCREF
    <1>3. /\ Running /\ pc \in {"python", "callback"} /\ pending = <<>> /\ pending \in Seq(Object)
          /\ ob_refcnt \in [Object -> Nat] /\ FieldsOK(field)
        BY <1>0, PythonFacts
    <1>4. /\ x \in Object /\ ob_refcnt[x] > 0
          /\ v # Nil => v \in Object
        BY <1>0, <1>1, HeldFacts
    <1>5. DOMAIN field = Object /\ DOMAIN field[x] \subseteq {1, 2}
          /\ (x \in Pair => DOMAIN field[x] = {1, 2}) /\ (x \notin Pair => DOMAIN field[x] = {1})
          /\ field[x][i] \in Object \cup {Nil}
        BY <1>3, <1>4, FieldFacts DEF FieldsOK
    <1> DEFINE old_ == field[x][i]
    <1>6. /\ \A n \in Object \ {x} : field'[n] = field[n]
          /\ field'[x] = [field[x] EXCEPT ![i] = v]
        BY <1>2, <1>4, <1>5
    <1>7. FieldsOK(field')
        BY <1>2, <1>3, <1>4, <1>6 DEF FieldsOK
    <1>8. /\ pending' \in Seq(Object)
          /\ \A o \in Object : Occurrences(pending', o) = Has({old_}, o) /\ Occurrences(pending, o) = 0
        <2>1. \A o : Occurrences(<<>>, o) = 0
            BY <1>4, OccurrencesNew
        <2>2. CASE old_ = Nil
            <3>1. pending' = <<>>
                BY <1>2, <2>2
            <3>2. \A o \in Object : Has({old_}, o) = 0
                BY <2>2, NilIsNoObject DEF Has
            <3> QED
                BY <1>3, <2>1, <3>1, <3>2
        <2>3. CASE old_ # Nil
            <3>1. pending' = <<old_>> /\ old_ \in Object
                BY <1>2, <1>5, <2>3
            <3> HIDE DEF old_
            <3> QED
                BY <1>3, <2>1, <3>1, OccurrencesNew
        <2> QED
            BY <2>2, <2>3
    <1>9. \A o \in Object : FieldsTo(field', x, o) + Has({old_}, o) = FieldsTo(field, x, o) + Has({v}, o)
        BY <1>5, <1>6 DEF FieldsTo, One, Has
    <1>10. Stages' /\ Calling' = Calling /\ Clearing' = Clearing
        BY <1>0, ClientStages DEF lists, holders
    <1>11. TypeOK'
        <2>1. ob_refcnt' \in [Object -> Nat]
            BY <1>2, <1>3, <1>4
        <2> QED
            BY <1>0, <1>7, <1>8, <2>1 DEF IInv, TypeOK, holders, lists
    <1> HIDE DEF old_
    <1>12. RefcountsExact'
        <2>1. ASSUME NEW o \in Object
              PROVE  ob_refcnt'[o] = Total(field', variables, garbage, pending', Calling, Clearing, o)
            <3> DEFINE t1 == Total(field, variables, garbage, pending, Calling, Clearing, o)
                       t2 == Total(field', variables, garbage, pending, Calling, Clearing, o)
                       t3 == Total(field', variables, garbage, pending', Calling, Clearing, o)
                       c1 == CountTo(field, o, Object)
                       c2 == CountTo(field', o, Object)
                       q1 == Occurrences(pending, o)
                       q2 == Occurrences(pending', o)
                       r1 == FieldsTo(field, x, o)
                       r2 == FieldsTo(field', x, o)
                       h1 == Has({old_}, o)
                       h2 == Has({v}, o)
                       n == ob_refcnt'[o]
            <3>p. pending \in Seq(Object) /\ pending' \in Seq(Object)
                BY <1>3, <1>8
            <3>1. ob_refcnt[o] = t1
                BY <1>0, PythonFacts
            <3>2. n = ob_refcnt[o] + h2
                BY <1>2, <1>3, <1>4, NilIsNoObject DEF Has
            <3>3. t2 + c1 = t1 + c2
                BY <3>p, TotalFields
            <3>4. t3 + q1 = t2 + q2
                BY <3>p, TotalPending
            <3>5. c2 + r1 = c1 + r2
                <4>1. SameBut(field, field', x)
                    BY <1>6 DEF SameBut
                <4> QED
                    BY <1>4, <4>1, CountUpdate
            <3>6. r2 + h1 = r1 + h2
                BY <1>9
            <3>7. q2 = h1 /\ q1 = 0
                BY <1>8
            <3>8. /\ t1 \in Nat /\ t2 \in Nat /\ t3 \in Nat /\ c1 \in Nat /\ c2 \in Nat
                  /\ h1 \in Nat /\ h2 \in Nat
                BY <3>p, TotalType DEF Has
            <3>9. r1 \in Nat /\ r2 \in Nat
                BY <1>3, <1>4, <1>7, FieldsToFacts
            <3>10. n = t1 + h2
                BY <3>1, <3>2
            <3> HIDE DEF t1, t2, t3, c1, c2, q1, q2, r1, r2, h1, h2, n
            <3>11. n = t3
                BY <3>3, <3>4, <3>5, <3>6, <3>7, <3>8, <3>9, <3>10
            <3> QED
                BY <3>11 DEF n, t3
        <2> QED
            BY <1>0, <1>10, <2>1, RefcountsMeans DEF CountsAgree, holders
    <1>13. ListsExact'
        BY <1>0, <1>3, ListsUnchanged DEF IInv
    <1>14. Alive'
        <2>1. ASSUME NEW o \in Object
              PROVE  /\ ob_refcnt'[o] > 0 \/ ob_refcnt'[o] = ob_refcnt[o]
                     /\ ob_refcnt'[o] = 0 => ob_refcnt[o] = 0
            BY <1>2, <1>3, <1>4
        <2>2. \A o \in Object : ob_refcnt'[o] = 0 => field'[o] = NoReferences(o)
            BY <1>4, <1>6, <2>1 DEF IInv, Alive
        <2> QED
            BY <1>0, <2>1, <2>2 DEF IInv, Alive
    <1>15. Sealed'
        <2>1. pc = "callback" => variables' \cap Doomed = {}
            BY <1>0 DEF IInv, Sealed, holders
        <2>2. ASSUME NEW n \in Object, NEW o \in Object, Refers(n, o)'
              PROVE  Refers(n, o) \/ o \in Held
            <3>1. PICK j \in DOMAIN field'[n] : field'[n][j] = o
                BY <2>2 DEF Refers
            <3>2. CASE n = x /\ j = i
                <4>1. o = v
                    BY <1>6, <3>1, <3>2
                <4> QED
                    BY <4>1, NilIsNoObject
            <3>3. CASE ~(n = x /\ j = i)
                <4>1. j \in DOMAIN field[n] /\ field[n][j] = o
                    BY <1>6, <3>1, <3>3
                <4> QED
                    BY <4>1 DEF Refers
            <3> QED
                BY <3>2, <3>3
        <2> QED
            BY <1>0, <2>1, <2>2, ClientSealed DEF lists, holders
    <1> QED
        BY <1>0, <1>3, <1>10, <1>11, <1>12, <1>13, <1>14, <1>15, RunningStep

\* An object joins the youngest generation.
LEMMA TrackedFacts ==
    ASSUME IInv, Running, NEW x \in Object, Tracked(x), pc' = pc
    PROVE  /\ ListsExact' /\ generations' \in [1..NUM_GENERATIONS -> Seq(Object)]
           /\ \A o \in Object \ {x} : gc_refs'[o] = gc_refs[o]
           /\ gc_refs'[x] = GC_REACHABLE /\ gc_refs[x] = GC_UNTRACKED
           /\ gc_refs' \in [Object -> Nat \cup {GC_UNTRACKED, GC_REACHABLE, GC_TENTATIVELY_UNREACHABLE}]
           /\ UNCHANGED <<unreachable, finalizers, wrcb_to_call>>
    <1>1. /\ gc_refs[x] = GC_UNTRACKED
          /\ gc_refs' = [gc_refs EXCEPT ![x] = GC_REACHABLE]
          /\ generations' = [generations EXCEPT ![1] = Append(@, x)]
          /\ UNCHANGED <<unreachable, finalizers, wrcb_to_call>>
        BY DEF Tracked
    <1>2. /\ \A o \in Object \ {x} : gc_refs'[o] = gc_refs[o]
          /\ gc_refs'[x] = GC_REACHABLE
          /\ gc_refs' \in [Object -> Nat \cup {GC_UNTRACKED, GC_REACHABLE, GC_TENTATIVELY_UNREACHABLE}]
        BY <1>1 DEF IInv, TypeOK
    <1>3. /\ \A g \in Generation : Lists(generations[g], Range(generations[g]))
          /\ Lists(unreachable, Range(unreachable)) /\ Lists(finalizers, Range(finalizers))
          /\ Lists(wrcb_to_call, Range(wrcb_to_call))
          /\ \A o : o \in TrackedObjects <=>
                        \/ \E g \in Generation : o \in Range(generations[g])
                        \/ o \in Range(unreachable) \cup Range(finalizers) \cup Range(wrcb_to_call)
        BY ListsApart DEF IInv, Apart
    <1>4. DOMAIN generations = Generation /\ 1 \in Generation
        BY GenerationFacts DEF IInv, TypeOK, Generation
    <1>5. x \notin TrackedObjects
        BY <1>1 DEF TrackedObjects
    <1>6. Lists(Append(generations[1], x), Range(generations[1]) \cup {x})
        BY <1>3, <1>4, <1>5, AppendLists
    <1>7. /\ generations' = [g \in Generation |-> generations'[g]]
          /\ \A g \in Generation \ {1} : generations'[g] = generations[g]
          /\ generations'[1] = Append(generations[1], x)
        BY <1>1, <1>4
    <1>8. JoinGeneration(generations, unreachable, finalizers, wrcb_to_call,
                         generations', unreachable', finalizers', wrcb_to_call', {}, {x}, 1)
        <2>1. \A R : R \ {} = R
            OBVIOUS
        <2>2. Lists(generations'[1], (Range(generations[1]) \ {}) \cup {x})
            BY <1>6, <1>7, <2>1, Zenon
        <2>3. \A g \in Generation \ {1} : Lists(generations'[g], Range(generations[g]) \ {})
            BY <1>3, <1>7, <2>1
        <2> QED
            BY <1>1, <1>3, <2>1, <2>2, <2>3, Zenon DEF JoinGeneration
    <1>9. /\ MovesLists(generations, unreachable, finalizers, wrcb_to_call,
                        generations', unreachable', finalizers', wrcb_to_call', {}, {x}, 1)
          /\ 1 \in 0..(NUM_GENERATIONS + 3) /\ 1 # 0
        BY <1>4, <1>8, MovesToGeneration, Zenon
    <1>10. /\ TrackedObjects' = (TrackedObjects \ {}) \cup {x}
           /\ {x} \cap (TrackedObjects \ {}) = {}
        BY <1>2, <1>5 DEF TrackedObjects, GC_REACHABLE, GC_UNTRACKED
    <1>11. MarksExact'
        <2>1. MarksExact
            BY ListsMeans DEF IInv
        <2>2. Members(unreachable)' = {o \in Object : gc_refs'[o] = GC_TENTATIVELY_UNREACHABLE}
            BY <1>1, <1>2, <2>1
               DEF MarksExact, GC_TENTATIVELY_UNREACHABLE, GC_REACHABLE, GC_UNTRACKED, Members
        <2>3. ASSUME NEW o \in Object
              PROVE  ~(gc_refs'[o] >= 0)
            BY <1>2, <2>1 DEF MarksExact, Running, GC_REACHABLE
        <2> QED
            BY <2>2, <2>3 DEF MarksExact
    <1>12. ListsExact' /\ generations' \in [1..NUM_GENERATIONS -> Seq(Object)]
        BY <1>7, <1>9, <1>10, <1>11, ListsStep DEF IInv
    <1> QED
        BY <1>1, <1>2, <1>12

\* PyObject_GC_Track of a finished object.
LEMMA TrackStep ==
    ASSUME IInv, Track
    PROVE  IInv'
    <1>1. /\ Python
          /\ UNCHANGED <<ob_refcnt, graph, holders, count, pc, generation, gc, pending, trash>>
        BY DEF Track
    <1>2. PICK x \in variables : Tracked(x)
        BY DEF Track
    <1>3. Running /\ pc \in {"python", "callback"} /\ variables \subseteq Object
        BY <1>1, PythonFacts
    <1>4. x \in Object /\ ob_refcnt[x] > 0
        BY <1>1, <1>2, HeldFacts DEF Held
    <1>5. /\ ListsExact' /\ generations' \in [1..NUM_GENERATIONS -> Seq(Object)]
          /\ \A o \in Object \ {x} : gc_refs'[o] = gc_refs[o]
          /\ gc_refs'[x] = GC_REACHABLE /\ gc_refs[x] = GC_UNTRACKED
          /\ gc_refs' \in [Object -> Nat \cup {GC_UNTRACKED, GC_REACHABLE, GC_TENTATIVELY_UNREACHABLE}]
          /\ UNCHANGED <<unreachable, finalizers, wrcb_to_call>>
        BY <1>1, <1>2, <1>3, <1>4, TrackedFacts
    <1>6. TypeOK'
        BY <1>1, <1>5 DEF IInv, TypeOK, graph, holders, FieldsOK
    <1>7. Stages' /\ Calling' = Calling /\ Clearing' = Clearing
        BY <1>1, <1>5, ClientStages DEF holders
    <1>8. RefcountsExact'
        BY <1>1, <1>7, RefcountsMeans DEF IInv, CountsAgree, graph, holders
    <1>9. Alive'
        BY <1>1, <1>4, <1>5, KindAssumption DEF IInv, Alive, graph, GC_REACHABLE, GC_UNTRACKED
    <1>10. Sealed'
        BY <1>1, <1>5, SealedUnchanged DEF IInv, graph, holders
    <1> QED
        BY <1>1, <1>3, <1>5, <1>6, <1>7, <1>8, <1>9, <1>10, RunningStep

\* A weak reference is made to an object the client holds, so not to trash.
LEMMA NewWeakrefStep ==
    ASSUME IInv, NewWeakref
    PROVE  IInv'
    <1>0. /\ Python /\ UNCHANGED <<garbage, pc, generation, gc, pending, trash>>
          /\ count' = [count EXCEPT ![1] = @ + 1]
        BY DEF NewWeakref
    <1>1. PICK w \in Weakref, x \in Held \ Weakref, v \in Held \cup {Nil} :
            /\ ob_refcnt[w] = 0
            /\ ob_refcnt' = [n \in Object |-> ob_refcnt[n] + IF n \in {w, v} THEN 1 ELSE 0]
            /\ field' = [field EXCEPT ![w] = <<v>>]
            /\ wr_object' = [wr_object EXCEPT ![w] = x]
            /\ variables' = variables \cup {w}
            /\ Tracked(w)
        BY DEF NewWeakref
    <1>2. /\ Running /\ pc \in {"python", "callback"} /\ pending = <<>> /\ pending \in Seq(Object)
          /\ ob_refcnt \in [Object -> Nat] /\ FieldsOK(field)
          /\ variables \subseteq Object /\ garbage \subseteq Object
          /\ \A o \in Object : ob_refcnt[o] = 0 => gc_refs[o] = GC_UNTRACKED
          /\ \A o \in Members(unreachable) : gc_refs[o] # GC_UNTRACKED
        BY <1>0, PythonFacts
    <1>3. /\ w \in Object /\ w \notin Pair
          /\ x \in Object
          /\ v # Nil => v \in Object /\ ob_refcnt[v] > 0
        BY <1>0, <1>1, HeldFacts, KindAssumption
    <1>4. v # w
        BY <1>1, <1>3, NilIsNoObject
    <1>5. /\ field[w] = NoReferences(w)
          /\ w \notin variables
        <2>1. w \notin variables
            BY <1>0, <1>1, HeldFacts DEF Held
        <2> QED
            BY <1>1, <1>3, <2>1 DEF IInv, Alive
    <1>6. /\ \A n \in Object \ {w} : field'[n] = field[n]
          /\ field'[w] = <<v>>
          /\ FieldsOK(field')
        <2>1. DOMAIN field = Object
            BY <1>2 DEF FieldsOK
        <2>2. <<v>> \in [1..1 -> Object \cup {Nil}]
            BY <1>3
        <2> QED
            BY <1>1, <1>2, <1>3, <2>1, <2>2 DEF FieldsOK
    <1>7. /\ ListsExact' /\ generations' \in [1..NUM_GENERATIONS -> Seq(Object)]
          /\ \A o \in Object \ {w} : gc_refs'[o] = gc_refs[o]
          /\ gc_refs'[w] = GC_REACHABLE /\ gc_refs[w] = GC_UNTRACKED
          /\ gc_refs' \in [Object -> Nat \cup {GC_UNTRACKED, GC_REACHABLE, GC_TENTATIVELY_UNREACHABLE}]
          /\ UNCHANGED <<unreachable, finalizers, wrcb_to_call>>
        BY <1>0, <1>1, <1>2, <1>3, TrackedFacts
    <1>8. Stages' /\ Calling' = Calling /\ Clearing' = Clearing
        BY <1>0, <1>7, ClientStages
    <1>9. /\ wr_object' \in [Weakref -> Object \cup {Nil}]
          /\ \A n \in Weakref \ {w} : wr_object'[n] = wr_object[n]
          /\ wr_object'[w] = x
        BY <1>1, <1>3 DEF IInv, TypeOK
    <1>10. TypeOK'
        <2>1. ob_refcnt' \in [Object -> Nat]
            BY <1>1, <1>2
        <2>2. DOMAIN count' = 1..NUM_GENERATIONS
            BY <1>0 DEF IInv, TypeOK
        <2>3. variables' \subseteq Object /\ pending' \in Seq(Object)
            BY <1>0, <1>1, <1>2, <1>3
        <2> QED
            BY <1>0, <1>6, <1>7, <1>9, <2>1, <2>2, <2>3 DEF IInv, TypeOK
    <1>11. RefcountsExact'
        <2>1. ASSUME NEW o \in Object
              PROVE  ob_refcnt'[o] = Total(field', variables', garbage, pending, Calling, Clearing, o)
            <3> DEFINE t1 == Total(field, variables, garbage, pending, Calling, Clearing, o)
                       t2 == Total(field', variables, garbage, pending, Calling, Clearing, o)
                       t3 == Total(field', variables', garbage, pending, Calling, Clearing, o)
                       c1 == CountTo(field, o, Object)
                       c2 == CountTo(field', o, Object)
                       v1 == Has(variables, o)
                       v2 == Has(variables', o)
                       r1 == FieldsTo(field, w, o)
                       r2 == FieldsTo(field', w, o)
                       h1 == Has({v}, o)
                       h2 == Has({w}, o)
                       n == ob_refcnt'[o]
            <3>p. pending \in Seq(Object)
                BY <1>2
            <3>1. ob_refcnt[o] = t1
                BY <1>0, PythonFacts
            <3>2. n = ob_refcnt[o] + h1 + h2
                <4>1. n = ob_refcnt[o] + IF o \in {w, v} THEN 1 ELSE 0
                    BY <1>1
                <4>2. h1 + h2 = IF o \in {w, v} THEN 1 ELSE 0
                    BY <1>4 DEF Has
                <4>3. h1 \in Nat /\ h2 \in Nat /\ ob_refcnt[o] \in Nat
                    BY <1>2 DEF Has
                <4> HIDE DEF n, h1, h2
                <4> QED
                    BY <4>1, <4>2, <4>3
            <3>3. t2 + c1 = t1 + c2
                BY <3>p, TotalFields
            <3>4. t3 + v1 = t2 + v2
                BY <3>p, TotalVariables
            <3>5. c2 + r1 = c1 + r2
                <4>1. SameBut(field, field', w)
                    BY <1>6 DEF SameBut
                <4> QED
                    BY <1>3, <4>1, CountUpdate
            <3>6. r1 = 0 /\ r2 = h1
                <4>1. r1 = 0
                    BY <1>3, <1>5, ClearedFields
                <4>2. r2 = h1
                    BY <1>3, <1>6 DEF FieldsTo, One, Has
                <4> QED
                    BY <4>1, <4>2
            <3>7. v2 = v1 + h2
                BY <1>1, <1>5 DEF Has
            <3>8. /\ t1 \in Nat /\ t2 \in Nat /\ t3 \in Nat /\ c1 \in Nat /\ c2 \in Nat
                  /\ v1 \in Nat /\ h1 \in Nat /\ h2 \in Nat
                BY <3>p, TotalType DEF Has
            <3>9. n = t1 + h1 + h2
                BY <3>1, <3>2
            <3> HIDE DEF t1, t2, t3, c1, c2, v1, v2, r1, r2, h1, h2, n
            <3>10. n = t3
                BY <3>3, <3>4, <3>5, <3>6, <3>7, <3>8, <3>9
            <3> QED
                BY <3>10 DEF n, t3
        <2> QED
            BY <1>0, <1>8, <2>1, RefcountsMeans DEF CountsAgree
    <1>12. Alive'
        <2>1. ASSUME NEW o \in Object
              PROVE  /\ ob_refcnt'[o] > 0 \/ ob_refcnt'[o] = ob_refcnt[o]
                     /\ ob_refcnt'[o] = 0 => ob_refcnt[o] = 0 /\ o # w
                     /\ o = w => ob_refcnt'[o] > 0
            BY <1>1, <1>2
        <2>2. \A o \in Object : ob_refcnt'[o] = 0 => field'[o] = NoReferences(o)
            BY <1>6, <2>1 DEF IInv, Alive
        <2>3. \A o \in Object : gc_refs'[o] # GC_UNTRACKED => ob_refcnt'[o] > 0
            BY <1>7, <2>1 DEF IInv, Alive
        <2>4. \A n \in Weakref : wr_object'[n] # Nil => gc_refs'[n] # GC_UNTRACKED
            BY <1>7, <1>9, KindAssumption DEF IInv, Alive, GC_REACHABLE, GC_UNTRACKED
        <2> QED
            BY <2>2, <2>3, <2>4 DEF Alive
    <1>13. Sealed'
        <2>1. pc = "callback" => variables' \cap Doomed = {}
            <3> SUFFICES ASSUME pc = "callback" PROVE variables' \cap Doomed = {}
                OBVIOUS
            <3>1. w \notin Doomed
                BY <1>2, <1>7 DEF Doomed
            <3> QED
                BY <1>1, <3>1 DEF IInv, Sealed
        <2>2. ASSUME NEW n \in Object, NEW o \in Object, Refers(n, o)'
              PROVE  Refers(n, o) \/ o \in Held
            <3>1. CASE n = w
                BY <1>6, <2>2, <3>1, NilIsNoObject DEF Refers
            <3>2. CASE n # w
                BY <1>6, <2>2, <3>2 DEF Refers
            <3> QED
                BY <3>1, <3>2
        <2>3. \A n \in Weakref : wr_object'[n] \in {Nil, wr_object[n]} \cup Held
            BY <1>1, <1>9
        <2> QED
            BY <1>0, <1>7, <2>1, <2>2, <2>3, ClientSealed
    <1> QED
        BY <1>0, <1>2, <1>7, <1>8, <1>10, <1>11, <1>12, <1>13, RunningStep

--------------------------------------------------------------------------------
(* The beginning of a collection.                                          *)

\* collect() merges the younger generations into the one collected.
LEMMA CollectLists ==
    ASSUME IInv, Running, NEW g \in Generation, collect(g),
           UNCHANGED <<gc_refs, unreachable, finalizers, wrcb_to_call>>
    PROVE  ListsExact' /\ generations' \in [1..NUM_GENERATIONS -> Seq(Object)]
    <1> DEFINE younger == SubSeq(generations, 1, g - 1)
               U == UNION {Range(generations[h]) : h \in 1..(g - 1)}
    <1>1. DOMAIN generations = Generation
        BY DEF IInv, TypeOK, Generation
    <1>2. generations' = [h \in Generation |->
                            IF h < g THEN <<>>
                            ELSE IF h > g THEN generations[h]
                            ELSE generations[g] \o FlattenSeq(younger)]
        BY <1>1 DEF collect
    <1>3. /\ \A h \in Generation : Lists(generations[h], Range(generations[h]))
          /\ Lists(unreachable, Range(unreachable)) /\ Lists(finalizers, Range(finalizers))
          /\ Lists(wrcb_to_call, Range(wrcb_to_call))
          /\ \A h, k \in Generation : h # k => Range(generations[h]) \cap Range(generations[k]) = {}
          /\ \A h \in Generation : Range(generations[h]) \cap
                (Range(unreachable) \cup Range(finalizers) \cup Range(wrcb_to_call)) = {}
          /\ \A o : o \in TrackedObjects <=>
                        \/ \E h \in Generation : o \in Range(generations[h])
                        \/ o \in Range(unreachable) \cup Range(finalizers) \cup Range(wrcb_to_call)
        BY ListsApart DEF IInv, Apart
    <1>4. NUM_GENERATIONS \in Nat /\ g \in 1..NUM_GENERATIONS
        BY GenerationFacts DEF Generation
    <1>5. \A h \in 1..(g - 1) : h \in Generation /\ h # g
        BY <1>4 DEF Generation
    <1>6. /\ younger \in Seq(Seq(Object))
          /\ Len(younger) = g - 1
          /\ \A h \in 1..(g - 1) : younger[h] = generations[h]
        <2> DEFINE T == Seq(Object)
        <2>1. generations \in [1..NUM_GENERATIONS -> T]
            BY DEF IInv, TypeOK
        <2> HIDE DEF T
        <2>2. generations \in Seq(T) /\ Len(generations) = NUM_GENERATIONS
            BY <1>4, <2>1, FunctionIsSeq
        <2>3. /\ younger \in Seq(T)
              /\ Len(younger) = g - 1
              /\ \A h \in 1..(g - 1) : younger[h] = generations[h]
            <3>1. 1 \in 1..(Len(generations) + 1) /\ g - 1 \in 0..Len(generations)
                  /\ g - 1 \in Nat
                BY <1>4, <2>2
            <3> QED
                BY <1>4, <2>2, <3>1
        <2> QED
            BY <2>3, Zenon DEF T
    <1> HIDE DEF younger
    <1>7. Lists(FlattenSeq(younger), U)
        <2>1. \A i \in 1..Len(younger) : IsInjective(younger[i])
            BY <1>3, <1>5, <1>6 DEF Lists
        <2>2. \A i, j \in 1..Len(younger) : i # j => Range(younger[i]) \cap Range(younger[j]) = {}
            BY <1>3, <1>5, <1>6
        <2>3. Lists(FlattenSeq(younger), UNION {Range(younger[i]) : i \in 1..Len(younger)})
            BY <1>6, <2>1, <2>2, FlattenLists
        <2>4. {Range(younger[i]) : i \in 1..Len(younger)} = {Range(generations[h]) : h \in 1..(g - 1)}
            BY <1>6
        <2> QED
            BY <2>3, <2>4
    <1>8. /\ \A o \in U : \E h \in 1..(g - 1) : o \in Range(generations[h])
          /\ \A h \in 1..(g - 1) : Range(generations[h]) \subseteq U
        OBVIOUS
    <1> HIDE DEF U
    <1>9. /\ U \subseteq TrackedObjects
          /\ U \cap Range(generations[g]) = {}
          /\ \A h \in Generation : h > g => U \cap Range(generations[h]) = {}
          /\ U \cap (Range(unreachable) \cup Range(finalizers) \cup Range(wrcb_to_call)) = {}
        <2>1. ASSUME NEW o \in U
              PROVE  /\ o \in TrackedObjects
                     /\ o \notin Range(generations[g])
                     /\ \A h \in Generation : h > g => o \notin Range(generations[h])
                     /\ o \notin Range(unreachable) \cup Range(finalizers) \cup Range(wrcb_to_call)
            <3>1. PICK h \in 1..(g - 1) : o \in Range(generations[h])
                BY <1>8
            <3>2. h \in Generation /\ h # g
                BY <1>5
            <3>3. \A k \in Generation : k > g => k # h
                BY <1>4 DEF Generation
            <3>4. o \in TrackedObjects
                BY <1>3, <3>1, <3>2
            <3>5. \A k \in Generation : k # h => o \notin Range(generations[k])
                BY <1>3, <3>1, <3>2
            <3>6. o \notin Range(unreachable) \cup Range(finalizers) \cup Range(wrcb_to_call)
                BY <1>3, <3>1, <3>2
            <3> QED
                BY <3>2, <3>3, <3>4, <3>5, <3>6
        <2> QED
            BY <2>1
    <1>10. \A h \in Generation \ {g} : Lists(generations'[h], Range(generations[h]) \ U)
        <2> SUFFICES ASSUME NEW h \in Generation \ {g}
                     PROVE  Lists(generations'[h], Range(generations[h]) \ U)
            OBVIOUS
        <2>1. h \in Nat /\ h # 0
            BY GenerationFacts
        <2>2. CASE h < g
            <3>1. h \in 1..(g - 1) /\ generations'[h] = <<>>
                BY <1>2, <1>4, <2>1, <2>2
            <3>2. Range(generations[h]) \ U = {}
                BY <1>8, <3>1
            <3> QED
                BY <3>1, <3>2, EmptyLists
        <2>3. CASE ~(h < g)
            <3>1. h > g /\ generations'[h] = generations[h]
                BY <1>2, <1>4, <2>1, <2>3
            <3>2. Range(generations[h]) \ U = Range(generations[h])
                BY <1>9, <3>1
            <3> QED
                BY <1>3, <3>1, <3>2
        <2> QED
            BY <2>2, <2>3
    <1>11. Lists(generations'[g], (Range(generations[g]) \ U) \cup U)
        <2>1. generations'[g] = generations[g] \o FlattenSeq(younger)
            BY <1>2, <1>4
        <2>2. Lists(generations[g] \o FlattenSeq(younger), Range(generations[g]) \cup U)
            BY <1>3, <1>7, <1>9, ConcatLists
        <2>3. (Range(generations[g]) \ U) \cup U = Range(generations[g]) \cup U
            OBVIOUS
        <2> QED
            BY <2>1, <2>2, <2>3, Zenon
    <1>12. /\ Lists(unreachable', Range(unreachable) \ U)
           /\ Lists(finalizers', Range(finalizers) \ U)
           /\ Lists(wrcb_to_call', Range(wrcb_to_call) \ U)
        <2>1. /\ Range(unreachable) \ U = Range(unreachable)
              /\ Range(finalizers) \ U = Range(finalizers)
              /\ Range(wrcb_to_call) \ U = Range(wrcb_to_call)
            BY <1>9
        <2> QED
            BY <1>3, <2>1
    <1>13. JoinGeneration(generations, unreachable, finalizers, wrcb_to_call,
                          generations', unreachable', finalizers', wrcb_to_call', U, U, g)
        BY <1>10, <1>11, <1>12, Zenon DEF JoinGeneration
    <1>14. /\ MovesLists(generations, unreachable, finalizers, wrcb_to_call,
                         generations', unreachable', finalizers', wrcb_to_call', U, U, g)
           /\ g \in 0..(NUM_GENERATIONS + 3) /\ g # 0
        BY <1>13, MovesToGeneration, Zenon
    <1>15. /\ TrackedObjects' = (TrackedObjects \ U) \cup U
           /\ U \cap (TrackedObjects \ U) = {}
        BY <1>9 DEF TrackedObjects
    <1>16. MarksExact'
        BY ListsMeans DEF IInv, MarksExact, Running, Members
    <1>17. generations' = [h \in Generation |-> generations'[h]]
        BY <1>2
    <1> QED
        BY <1>14, <1>15, <1>16, <1>17, ListsStep DEF IInv

\* At its beginning there is no trash yet.
LEMMA CollectStages ==
    ASSUME IInv, Python, pc = "python", NEW g \in Generation, collect(g),
           UNCHANGED <<unreachable, finalizers, wrcb_to_call, garbage, pending>>
    PROVE  /\ Stages' /\ Sealed'
           /\ Calling' = Calling /\ Clearing' = Clearing
    <1>1. pc' = "update_refs"
        BY DEF collect
    <1>2. Stages'
        BY <1>1 DEF IInv, Stages, Python, Members
    <1>3. Sealed'
        BY <1>1 DEF Sealed
    <1>4. Calling' = Calling /\ Clearing' = Clearing
        BY <1>1 DEF Calling, Clearing, Members
    <1> QED
        BY <1>2, <1>3, <1>4

\* A collection that the client asks for.
LEMMA PyGC_CollectStep ==
    ASSUME IInv, PyGC_Collect
    PROVE  IInv'
    <1>1. /\ Python /\ pc = "python"
          /\ collect(NUM_GENERATIONS)
          /\ count' = Counted(NUM_GENERATIONS)
          /\ UNCHANGED <<ob_refcnt, gc_refs, graph, holders, unreachable, finalizers, wrcb_to_call,
                         gc, pending, trash>>
        BY DEF PyGC_Collect
    <1>2. NUM_GENERATIONS \in Generation
        BY GenerationFacts DEF Generation
    <1>3. ListsExact' /\ generations' \in [1..NUM_GENERATIONS -> Seq(Object)]
        BY <1>1, <1>2, CollectLists DEF Running
    <1>4. /\ Stages' /\ Sealed'
          /\ Calling' = Calling /\ Clearing' = Clearing
        BY <1>1, <1>2, CollectStages DEF holders
    <1>5. pc' = "update_refs" /\ generation' = NUM_GENERATIONS /\ DOMAIN count' = DOMAIN count
        BY <1>1 DEF collect, Counted
    <1>6. TypeOK'
        BY <1>1, <1>2, <1>3, <1>5 DEF IInv, TypeOK, graph, holders, FieldsOK, Generation
    <1>7. RefcountsExact'
        BY <1>1, <1>4, RefcountsMeans DEF IInv, CountsAgree, graph, holders
    <1>8. Alive'
        BY <1>1 DEF IInv, Alive, graph
    <1> QED
        BY <1>3, <1>4, <1>5, <1>6, <1>7, <1>8, RunningStep

\* The allocation of an object starts a collection or none.
LEMMA MallocFacts ==
    ASSUME IInv, PyObject_GC_Malloc
    PROVE  /\ UNCHANGED <<unreachable, finalizers, wrcb_to_call>>
           /\ DOMAIN count' = 1..NUM_GENERATIONS
           /\ \/ pc = "python" /\ \E g \in Generation : collect(g)
              \/ UNCHANGED <<lists, pc, generation>>
    <1> DEFINE counted == [count EXCEPT ![1] = @ + 1]
               exceeded == {g \in DOMAIN count : counted[g] > threshold(g)}
    <1>1. DOMAIN count = 1..NUM_GENERATIONS /\ 1 \in DOMAIN count /\ NUM_GENERATIONS \in Nat
        BY GenerationFacts DEF IInv, TypeOK, Generation
    <1>2. CASE counted[1] > Threshold0 /\ Threshold0 # 0 /\ pc = "python"
        <2>1. /\ collect(Max(exceeded))
              /\ count' = Counted(Max(exceeded))
              /\ UNCHANGED <<unreachable, finalizers, wrcb_to_call>>
            BY <1>2, Zenon DEF PyObject_GC_Malloc
        <2>2. 1 \in exceeded
            BY <1>1, <1>2 DEF threshold
        <2>3. exceeded \in SUBSET (1..NUM_GENERATIONS)
            BY <1>1
        <2> HIDE DEF exceeded
        <2>4. Max(exceeded) \in Generation
            BY <1>1, <2>2, <2>3, MaxIsElement DEF Generation
        <2>5. DOMAIN count' = 1..NUM_GENERATIONS
            BY <1>1, <2>1 DEF Counted
        <2> QED
            BY <1>2, <2>1, <2>4, <2>5, Zenon
    <1>3. CASE ~(counted[1] > Threshold0 /\ Threshold0 # 0 /\ pc = "python")
        <2>1. /\ count' = counted
              /\ UNCHANGED <<lists, pc, generation>>
            BY <1>3, Zenon DEF PyObject_GC_Malloc
        <2> QED
            BY <1>1, <2>1 DEF lists
    <1> QED
        BY <1>2, <1>3, Zenon

\* _PyObject_GC_Malloc, with the collection that it may start.
LEMMA NewStep ==
    ASSUME IInv, New
    PROVE  IInv'
    <1>1. /\ Python /\ PyObject_GC_Malloc
          /\ UNCHANGED <<gc_refs, graph, garbage, gc, pending, trash>>
        BY DEF New
    <1>2. PICK x \in Object : /\ ob_refcnt[x] = 0
                              /\ ob_refcnt' = [ob_refcnt EXCEPT ![x] = @ + 1]
                              /\ variables' = variables \cup {x}
        BY DEF New, Py_INCREF
    <1>3. /\ Running /\ pc \in {"python", "callback"} /\ pending = <<>> /\ pending \in Seq(Object)
          /\ ob_refcnt \in [Object -> Nat]
          /\ \A o \in Object : ob_refcnt[o] = 0 => gc_refs[o] = GC_UNTRACKED
          /\ \A o \in Members(unreachable) : gc_refs[o] # GC_UNTRACKED
        BY <1>1, PythonFacts
    <1>4. x \notin variables
        BY <1>1, <1>2, HeldFacts DEF Held
    <1>5. /\ UNCHANGED <<unreachable, finalizers, wrcb_to_call>>
          /\ DOMAIN count' = 1..NUM_GENERATIONS
          /\ \/ pc = "python" /\ \E g \in Generation : collect(g)
             \/ UNCHANGED <<lists, pc, generation>>
        BY <1>1, MallocFacts
    <1>6. /\ ListsExact' /\ generations' \in [1..NUM_GENERATIONS -> Seq(Object)]
          /\ generation' \in 1..NUM_GENERATIONS
          /\ Stages' /\ Sealed'
          /\ Calling' = Calling /\ Clearing' = Clearing
          /\ pc' \in {"python", "callback", "update_refs"}
        <2>1. CASE pc = "python" /\ \E g \in Generation : collect(g)
            <3>1. PICK g \in Generation : collect(g)
                BY <2>1
            <3>2. ListsExact' /\ generations' \in [1..NUM_GENERATIONS -> Seq(Object)]
                BY <1>1, <1>3, <1>5, <3>1, CollectLists
            <3>3. generation' = g /\ pc' = "update_refs"
                BY <3>1 DEF collect
            <3>4. Stages' /\ Sealed' /\ Calling' = Calling /\ Clearing' = Clearing
                BY <1>1, <1>5, <2>1, <3>1, CollectStages
            <3> QED
                BY <3>2, <3>3, <3>4 DEF Generation
        <2>2. CASE UNCHANGED <<lists, pc, generation>>
            <3>1. ListsExact'
                BY <1>1, <1>3, <2>2, ListsUnchanged DEF IInv
            <3>2. Stages' /\ Calling' = Calling /\ Clearing' = Clearing
                BY <1>1, <1>5, <2>2, ClientStages
            <3>3. Sealed'
                <4>1. pc = "callback" => variables' \cap Doomed = {}
                    <5> SUFFICES ASSUME pc = "callback" PROVE variables' \cap Doomed = {}
                        OBVIOUS
                    <5>1. x \notin Doomed
                        BY <1>2, <1>3 DEF Doomed
                    <5> QED
                        BY <1>2, <5>1 DEF IInv, Sealed
                <4>2. \A n, o \in Object : Refers(n, o)' => Refers(n, o)
                    BY <1>1 DEF Refers, graph
                <4>3. \A w \in Weakref : wr_object'[w] \in {Nil, wr_object[w]}
                    BY <1>1 DEF graph
                <4> QED
                    BY <1>1, <1>5, <2>2, <4>1, <4>2, <4>3, ClientSealed
            <3> QED
                BY <1>3, <2>2, <3>1, <3>2, <3>3 DEF lists, IInv, TypeOK
        <2> QED
            BY <1>5, <2>1, <2>2
    <1>7. TypeOK'
        <2>1. ob_refcnt' \in [Object -> Nat] /\ variables' \subseteq Object
            BY <1>2, <1>3 DEF IInv, TypeOK
        <2> QED
            BY <1>1, <1>5, <1>6, <2>1 DEF IInv, TypeOK, graph, FieldsOK
    <1>8. RefcountsExact'
        <2>1. ASSUME NEW o \in Object
              PROVE  ob_refcnt'[o] = Total(field, variables', garbage, pending, Calling, Clearing, o)
            <3>p. pending \in Seq(Object)
                BY <1>3
            <3>1. Total(field, variables', garbage, pending, Calling, Clearing, o) + Has(variables, o)
                    = Total(field, variables, garbage, pending, Calling, Clearing, o) + Has(variables', o)
                BY <3>p, TotalVariables
            <3>2. Has(variables', o) = Has(variables, o) + Has({x}, o)
                BY <1>2, <1>4 DEF Has
            <3>3. Has(variables, o) \in Nat /\ Has({x}, o) = IF o = x THEN 1 ELSE 0
                BY DEF Has
            <3>4. Total(field, variables', garbage, pending, Calling, Clearing, o) \in Nat
                BY <3>p, TotalType
            <3>5. ob_refcnt[o] = Total(field, variables, garbage, pending, Calling, Clearing, o)
                BY <1>1, PythonFacts
            <3> QED
                BY <1>2, <1>3, <3>1, <3>2, <3>3, <3>4, <3>5
        <2> QED
            BY <1>1, <1>6, <2>1, RefcountsMeans DEF CountsAgree, graph
    <1>9. Alive'
        <2>1. ASSUME NEW o \in Object
              PROVE  /\ ob_refcnt'[o] > 0 \/ ob_refcnt'[o] = ob_refcnt[o]
                     /\ ob_refcnt'[o] = 0 => ob_refcnt[o] = 0
            BY <1>2, <1>3
        <2> QED
            BY <1>1, <2>1 DEF IInv, Alive, graph
    <1> QED
        BY <1>6, <1>7, <1>8, <1>9, RunningStep

--------------------------------------------------------------------------------
(* The collector.                                                          *)

\* The generation collected and the one that survivors go to.
LEMMA OldFacts ==
    ASSUME TypeOK
    PROVE  /\ generation \in Generation /\ old \in Generation
           /\ DOMAIN generations = Generation
           /\ young \in Seq(Object)
    <1>1. generation \in Generation /\ DOMAIN generations = Generation
          /\ generations \in [1..NUM_GENERATIONS -> Seq(Object)]
        BY DEF TypeOK, Generation
    <1>2. old \in Generation
        BY <1>1, GenerationFacts DEF old, Generation
    <1>3. young \in Seq(Object)
        <2> DEFINE T == Seq(Object)
        <2>1. generations \in [Generation -> T]
            BY <1>1, Zenon DEF Generation
        <2> HIDE DEF T
        <2>2. generations[generation] \in T
            BY <1>1, <2>1
        <2> QED
            BY <2>2, Zenon DEF T, young
    <1> QED
        BY <1>1, <1>2, <1>3

\* The lists do not change, nor does what is tracked and what is set aside.
LEMMA MarkStep ==
    ASSUME ListsExact, UNCHANGED lists, MarksExact',
           \A o \in Object : gc_refs'[o] # GC_UNTRACKED <=> gc_refs[o] # GC_UNTRACKED
    PROVE  ListsExact'
    <1>1. TrackedObjects' = TrackedObjects
        BY DEF TrackedObjects
    <1>2. AllLists' = AllLists
        BY DEF lists, AllLists
    <1>3. Disjoint(AllLists, TrackedObjects)' <=> Disjoint(AllLists, TrackedObjects)
        BY <1>1, <1>2 DEF Disjoint
    <1>4. Disjoint(AllLists, TrackedObjects)'
        BY <1>3, ListsMeans
    <1> QED
        BY <1>4, ListsMeans

\* The objects of Y, which are in the collector's lists, join the generation b.
LEMMA JoinStep ==
    ASSUME TypeOK, ListsExact, NEW b \in Generation,
           NEW Y \in SUBSET (Range(unreachable) \cup Range(finalizers) \cup Range(wrcb_to_call)),
           generations' = [g \in Generation |-> generations'[g]],
           \A g \in Generation \ {b} : generations'[g] = generations[g],
           Lists(generations'[b], Range(generations[b]) \cup Y),
           Lists(unreachable', Range(unreachable) \ Y),
           Lists(finalizers', Range(finalizers) \ Y),
           Lists(wrcb_to_call', Range(wrcb_to_call) \ Y),
           \A o \in Object : gc_refs'[o] # GC_UNTRACKED <=> gc_refs[o] # GC_UNTRACKED,
           MarksExact'
    PROVE  /\ ListsExact'
           /\ generations' \in [1..NUM_GENERATIONS -> Seq(Object)]
           /\ unreachable' \in Seq(Object)
           /\ finalizers' \in Seq(Object)
           /\ wrcb_to_call' \in Seq(Object)
    <1>1. /\ \A g \in Generation : Lists(generations[g], Range(generations[g]))
          /\ \A g \in Generation : Range(generations[g]) \cap
                (Range(unreachable) \cup Range(finalizers) \cup Range(wrcb_to_call)) = {}
          /\ \A o : o \in Range(unreachable) \cup Range(finalizers) \cup Range(wrcb_to_call)
                        => o \in TrackedObjects
        BY ListsApart DEF Apart
    <1>2. ASSUME NEW g \in Generation
          PROVE  Range(generations[g]) \ Y = Range(generations[g])
        BY <1>1
    <1>3. \A g \in Generation \ {b} : Lists(generations'[g], Range(generations[g]) \ Y)
        BY <1>1, <1>2
    <1>4. Lists(generations'[b], (Range(generations[b]) \ Y) \cup Y)
        BY <1>2
    <1>5. JoinGeneration(generations, unreachable, finalizers, wrcb_to_call,
                         generations', unreachable', finalizers', wrcb_to_call', Y, Y, b)
        BY <1>3, <1>4, Zenon DEF JoinGeneration
    <1>6. /\ MovesLists(generations, unreachable, finalizers, wrcb_to_call,
                        generations', unreachable', finalizers', wrcb_to_call', Y, Y, b)
          /\ b \in 0..(NUM_GENERATIONS + 3) /\ b # 0
        BY <1>5, MovesToGeneration, Zenon
    <1>7. /\ TrackedObjects' = TrackedObjects
          /\ TrackedObjects = (TrackedObjects \ Y) \cup Y
          /\ Y \cap (TrackedObjects \ Y) = {}
        BY <1>1 DEF TrackedObjects
    <1>8. TrackedObjects' = (TrackedObjects \ Y) \cup Y
        BY <1>7
    <1> QED
        BY <1>6, <1>7, <1>8, ListsStep, Zenon

\* The objects of Y join a list of the collector's.
JoinCollector(gens, u, f, w, gens2, u2, f2, w2, Y, b) ==
    /\ \A g \in Generation : Lists(gens2[g], Range(gens[g]) \ Y)
    /\ Lists(u2, IF b = "unreachable" THEN Range(u) \cup Y ELSE Range(u) \ Y)
    /\ Lists(f2, IF b = "finalizers" THEN Range(f) \cup Y ELSE Range(f) \ Y)
    /\ Lists(w2, IF b = "wrcb_to_call" THEN Range(w) \cup Y ELSE Range(w) \ Y)

\* The list appended to is one of the collector's.
LEMMA MovesToCollector ==
    ASSUME NEW gens, NEW u, NEW f, NEW w, NEW gens2, NEW u2, NEW f2, NEW w2, NEW Y,
           NEW b \in {"unreachable", "finalizers", "wrcb_to_call"},
           JoinCollector(gens, u, f, w, gens2, u2, f2, w2, Y, b)
    PROVE  \E k \in 0..(NUM_GENERATIONS + 3) :
                k # 0 /\ MovesLists(gens, u, f, w, gens2, u2, f2, w2, Y, Y, k)
    <1> DEFINE k == CASE b = "unreachable" -> NUM_GENERATIONS + 1
                      [] b = "finalizers" -> NUM_GENERATIONS + 2
                      [] b = "wrcb_to_call" -> NUM_GENERATIONS + 3
    <1>1. NUM_GENERATIONS \in Nat
        BY GenerationFacts
    <1>2. /\ k \in 0..(NUM_GENERATIONS + 3) /\ k # 0
          /\ \A g \in Generation : k # g
          /\ k = NUM_GENERATIONS + 1 <=> b = "unreachable"
          /\ k = NUM_GENERATIONS + 2 <=> b = "finalizers"
          /\ k = NUM_GENERATIONS + 3 <=> b = "wrcb_to_call"
        BY <1>1 DEF Generation
    <1> HIDE DEF k
    <1>3. ASSUME NEW R, NEW j
          PROVE  (R \ Y) \cup To(k, j, Y) = IF j = k THEN R \cup Y ELSE R \ Y
        BY DEF To
    <1>4. ASSUME NEW g \in Generation
          PROVE  Lists(gens2[g], (Range(gens[g]) \ Y) \cup To(k, g, Y))
        <2>1. (Range(gens[g]) \ Y) \cup To(k, g, Y) = Range(gens[g]) \ Y
            BY <1>2, <1>3
        <2> QED
            BY <2>1, Zenon DEF JoinCollector
    <1>5. Lists(u2, (Range(u) \ Y) \cup To(k, NUM_GENERATIONS + 1, Y))
        <2>1. (Range(u) \ Y) \cup To(k, NUM_GENERATIONS + 1, Y) =
                IF b = "unreachable" THEN Range(u) \cup Y ELSE Range(u) \ Y
            BY <1>2, <1>3
        <2> QED
            BY <2>1, Zenon DEF JoinCollector
    <1>6. Lists(f2, (Range(f) \ Y) \cup To(k, NUM_GENERATIONS + 2, Y))
        <2>1. (Range(f) \ Y) \cup To(k, NUM_GENERATIONS + 2, Y) =
                IF b = "finalizers" THEN Range(f) \cup Y ELSE Range(f) \ Y
            BY <1>2, <1>3
        <2> QED
            BY <2>1, Zenon DEF JoinCollector
    <1>7. Lists(w2, (Range(w) \ Y) \cup To(k, NUM_GENERATIONS + 3, Y))
        <2>1. (Range(w) \ Y) \cup To(k, NUM_GENERATIONS + 3, Y) =
                IF b = "wrcb_to_call" THEN Range(w) \cup Y ELSE Range(w) \ Y
            BY <1>2, <1>3
        <2> QED
            BY <2>1, Zenon DEF JoinCollector
    <1>8. MovesLists(gens, u, f, w, gens2, u2, f2, w2, Y, Y, k)
        BY <1>4, <1>5, <1>6, <1>7, Zenon DEF MovesLists
    <1> QED
        BY <1>2, <1>8, Zenon

\* A step that moves objects to one of the collector's lists keeps each object in one
\* list.
LEMMA JoinCollectorStep ==
    ASSUME TypeOK, ListsExact, NEW Y \in SUBSET TrackedObjects,
           NEW b \in {"unreachable", "finalizers", "wrcb_to_call"},
           generations' = [g \in Generation |-> generations'[g]],
           JoinCollector(generations, unreachable, finalizers, wrcb_to_call,
                         generations', unreachable', finalizers', wrcb_to_call', Y, b),
           \A o \in Object : gc_refs'[o] # GC_UNTRACKED <=> gc_refs[o] # GC_UNTRACKED,
           MarksExact'
    PROVE  /\ ListsExact'
           /\ generations' \in [1..NUM_GENERATIONS -> Seq(Object)]
           /\ unreachable' \in Seq(Object)
           /\ finalizers' \in Seq(Object)
           /\ wrcb_to_call' \in Seq(Object)
    <1>1. PICK k \in 0..(NUM_GENERATIONS + 3) :
            /\ k # 0
            /\ MovesLists(generations, unreachable, finalizers, wrcb_to_call,
                          generations', unreachable', finalizers', wrcb_to_call', Y, Y, k)
        BY MovesToCollector, Zenon
    <1>2. /\ TrackedObjects' = TrackedObjects
          /\ TrackedObjects = (TrackedObjects \ Y) \cup Y
          /\ Y \cap (TrackedObjects \ Y) = {}
        BY DEF TrackedObjects
    <1>3. TrackedObjects' = (TrackedObjects \ Y) \cup Y
        BY <1>2
    <1> QED
        BY <1>1, <1>2, <1>3, ListsStep, Zenon

\* update_refs copies the counts.
LEMMA update_refsStep ==
    ASSUME IInv, update_refs
    PROVE  IInv'
    <1>1. /\ pc = "update_refs" /\ pc' = "subtract_refs"
          /\ gc_refs' = [o \in Object |-> IF o \in Members(young) THEN ob_refcnt[o] ELSE gc_refs[o]]
          /\ UNCHANGED <<ob_refcnt, graph, holders, lists, count, generation, gc, pending, trash>>
        BY DEF update_refs
    <1>2. /\ generation \in Generation /\ ob_refcnt \in [Object -> Nat]
          /\ unreachable = <<>> /\ pending = <<>>
          /\ Members(unreachable) = {}
        <2>1. generation \in Generation /\ ob_refcnt \in [Object -> Nat]
            BY OldFacts DEF IInv, TypeOK
        <2>2. unreachable = <<>> /\ pending = <<>>
            BY <1>1 DEF IInv, Stages
        <2>3. Range(<<>>) = {}
            BY EmptyLists DEF Lists
        <2> QED
            BY <2>1, <2>2, <2>3 DEF Members
    <1>3. \A o \in Members(young) : o \in Object /\ gc_refs[o] # GC_UNTRACKED /\ ob_refcnt[o] > 0
        <2>1. \A o \in Members(young) : o \in TrackedObjects
            BY <1>2, ListsApart DEF IInv, Apart, Members, young
        <2> QED
            BY <2>1 DEF TrackedObjects, IInv, Alive
    <1>4. MarksExact /\ \A o \in Object : ~(gc_refs[o] >= 0)
        BY <1>1, ListsMeans DEF IInv, MarksExact
    <1>5. ASSUME NEW o \in Object
          PROVE  /\ o \in Members(young) => gc_refs'[o] = ob_refcnt[o] /\ gc_refs'[o] \in Nat
                 /\ o \notin Members(young) => gc_refs'[o] = gc_refs[o]
        BY <1>1, <1>2
    <1>6. \A o \in Object : gc_refs'[o] # GC_UNTRACKED <=> gc_refs[o] # GC_UNTRACKED
        BY <1>3, <1>5 DEF GC_UNTRACKED
    <1>7. ListsExact'
        <2>1. Members(unreachable)' = {o \in Object : gc_refs'[o] = GC_TENTATIVELY_UNREACHABLE}
            BY <1>1, <1>2, <1>4, <1>5 DEF MarksExact, GC_TENTATIVELY_UNREACHABLE, lists, Members
        <2>2. Members(young)' = Members(young)
            BY <1>1 DEF lists, young, Members
        <2>3. \A o \in Object : gc_refs'[o] >= 0 => o \in Members(young)
            BY <1>4, <1>5
        <2>4. MarksExact'
            BY <1>1, <2>1, <2>2, <2>3 DEF MarksExact
        <2> QED
            BY <1>1, <1>6, <2>4, MarkStep DEF IInv
    <1>8. TypeOK'
        <2>1. gc_refs' \in [Object -> Nat \cup {GC_UNTRACKED, GC_REACHABLE, GC_TENTATIVELY_UNREACHABLE}]
            BY <1>1, <1>2 DEF IInv, TypeOK
        <2> QED
            BY <1>1, <2>1 DEF IInv, TypeOK, graph, holders, lists, FieldsOK
    <1>9. RefcountsExact'
        <2>1. Calling' = Calling /\ Clearing' = Clearing
            BY <1>1 DEF Calling, Clearing, lists, Members
        <2> QED
            BY <1>1, <2>1, RefcountsMeans DEF IInv, CountsAgree, graph, holders
    <1>10. Alive'
        BY <1>1, <1>6, KindAssumption DEF IInv, Alive, graph
    <1>11. Stages'
        BY <1>1 DEF IInv, Stages, lists, holders, Members
    <1>12. Copied'
        <2>1. Members(young)' = Members(young) /\ ob_refcnt' = ob_refcnt
            BY <1>1 DEF lists, young, Members
        <2> QED
            BY <1>3, <1>5, <2>1 DEF Copied
    <1>13. ReachableWalk' /\ FinalizerWalk' /\ Sealed'
        BY <1>1 DEF ReachableWalk, FinalizerWalk, Sealed
    <1> QED
        BY <1>7, <1>8, <1>9, <1>10, <1>11, <1>12, <1>13 DEF IInv

\* Where the references from outside come from, and what they lead to.
LEMMA OutsideFacts ==
    ASSUME TypeOK
    PROVE  /\ Inside \subseteq Object
           /\ Direct \subseteq Object \cup {Nil}
           /\ variables \subseteq Direct /\ garbage \subseteq Direct
           /\ \A n \in Object \ Inside, o \in Object : Refers(n, o) => o \in Direct
           /\ \A o \in Direct : \/ o \in variables \cup garbage
                                \/ \E n \in Object \ Inside : Refers(n, o)
           /\ FromOutside = Reachable(Object, field, Direct)
           /\ \A o \in Direct \ {Nil} : o \in FromOutside
           /\ \A n \in FromOutside, o \in Object : Refers(n, o) => o \in FromOutside
           /\ FromOutside \subseteq Object
    <1>1. FieldsOK(field) /\ variables \subseteq Object /\ garbage \subseteq Object
        BY DEF TypeOK
    <1>2. \A n \in Object : \A i \in DOMAIN field[n] : field[n][i] \in Object \cup {Nil}
        BY <1>1, FieldFacts
    <1>3. Inside \subseteq Object
        <2>1. young \in Seq(Object) /\ unreachable \in Seq(Object)
            BY OldFacts DEF TypeOK
        <2> QED
            BY <2>1, ListElements DEF Inside, Members
    <1>4. \A o : o \in Direct <=> \/ o \in variables \cup garbage
                                  \/ \E n \in Object \ Inside : Refers(n, o)
        <2> SUFFICES ASSUME NEW o
                     PROVE  (\E n \in Object \ Inside : o \in Range(field[n])) <=>
                                \E n \in Object \ Inside : Refers(n, o)
            BY DEF Direct
        <2> QED
            BY DEF Refers, Range
    <1>5. Direct \subseteq Object \cup {Nil}
        BY <1>1, <1>2, <1>4 DEF Refers
    <1>6. FromOutside = Reachable(Object, field, Direct)
        BY DEF FromOutside, Direct, Inside
    <1>7. Closed(field, Object)
        BY <1>2 DEF Closed
    <1>8. Direct \subseteq FromOutside \cup {Nil}
        BY <1>5, <1>6, RootsAreReachable
    <1>9. Closed(field, FromOutside)
        BY <1>6, <1>7, ReachableIsClosed
    <1>10. FromOutside \subseteq Object
        BY <1>6 DEF Reachable
    <1>11. ASSUME NEW n \in FromOutside, NEW o \in Object, Refers(n, o)
           PROVE  o \in FromOutside
        BY <1>9, <1>11, NilIsNoObject DEF Closed, Refers
    <1> QED
        BY <1>3, <1>4, <1>5, <1>6, <1>8, <1>10, <1>11

\* subtract_refs: what is left of a count are the references from outside the generation.
LEMMA subtract_refsStep ==
    ASSUME IInv, subtract_refs
    PROVE  IInv'
    <1>1. /\ pc = "subtract_refs" /\ pc' = "move_unreachable"
          /\ gc_refs' = [o \in Object |->
                            IF gc_refs[o] > 0
                            THEN gc_refs[o] - ReferencesTo(o, Members(young))
                            ELSE gc_refs[o]]
          /\ gc' = First(young)
          /\ UNCHANGED <<ob_refcnt, graph, holders, lists, count, generation, pending, trash>>
        BY DEF subtract_refs
    <1>2. /\ generation \in Generation /\ ob_refcnt \in [Object -> Nat] /\ young \in Seq(Object)
          /\ gc_refs \in [Object -> Nat \cup {GC_UNTRACKED, GC_REACHABLE, GC_TENTATIVELY_UNREACHABLE}]
          /\ pending \in Seq(Object)
          /\ unreachable = <<>> /\ pending = <<>> /\ wrcb_to_call = <<>>
          /\ Members(unreachable) = {} /\ Members(wrcb_to_call) = {} /\ Range(pending) = {}
          /\ Inside = Members(young)
        <2>1. /\ generation \in Generation /\ ob_refcnt \in [Object -> Nat] /\ young \in Seq(Object)
              /\ gc_refs \in [Object -> Nat \cup {GC_UNTRACKED, GC_REACHABLE, GC_TENTATIVELY_UNREACHABLE}]
              /\ pending \in Seq(Object)
            BY OldFacts DEF IInv, TypeOK
        <2>2. unreachable = <<>> /\ pending = <<>> /\ wrcb_to_call = <<>>
            BY <1>1 DEF IInv, Stages
        <2>3. Range(<<>>) = {}
            BY EmptyLists DEF Lists
        <2> QED
            BY <2>1, <2>2, <2>3 DEF Members, Inside
    <1>3. \A o \in Members(young) : /\ o \in Object /\ gc_refs[o] # GC_UNTRACKED
                                    /\ gc_refs[o] = ob_refcnt[o] /\ ob_refcnt[o] > 0
        <2>1. \A o \in Members(young) : o \in TrackedObjects
            BY <1>2, ListsApart DEF IInv, Apart, Members, young
        <2> QED
            BY <1>1, <2>1 DEF TrackedObjects, IInv, Alive, Copied
    <1>4. MarksExact /\ \A o \in Object : gc_refs[o] >= 0 => o \in Members(young)
        BY ListsMeans DEF IInv, MarksExact
    <1>5. ASSUME NEW o \in Members(young)
          PROVE  gc_refs'[o] \in Nat /\ (gc_refs'[o] # 0 <=> o \in Direct)
        <2> DEFINE inner == CountTo(field, o, Members(young))
                   outer == CountTo(field, o, Object \ Members(young))
                   v == Has(variables, o)
                   g == Has(garbage, o)
                   n == gc_refs'[o]
        <2>1. o \in Object /\ Members(young) \in SUBSET Object /\ Object \ Members(young) \in SUBSET Object
            BY <1>3
        <2>2. ob_refcnt[o] = Total(field, variables, garbage, pending, Calling, Clearing, o)
            BY <2>1, RefcountsMeans DEF IInv, CountsAgree
        <2>3. Calling = {} /\ Clearing = {}
            BY <1>1, <1>2 DEF Calling, Clearing
        <2>4. Occurrences(pending, o) = 0
            BY <1>2, OccurrencesType
        <2>5. CountTo(field, o, Object) = inner + outer
            BY <2>1, CountSplit
        <2>6. /\ inner \in Nat /\ outer \in Nat
              /\ outer = 0 <=> \A m \in Object \ Members(young) : FieldsTo(field, m, o) = 0
            BY <2>1, CountType
        <2>7. /\ v \in Nat /\ g \in Nat
              /\ v = 0 <=> o \notin variables
              /\ g = 0 <=> o \notin garbage
            BY DEF Has
        <2>8. n = ob_refcnt[o] - inner
            <3>1. ReferencesTo(o, Members(young)) = inner
                BY DEF ReferencesTo, CountTo
            <3> QED
                BY <1>1, <1>3, <2>1, <3>1
        <2>9. ob_refcnt[o] = inner + outer + v + g
            <3>1. Has({}, o) = 0
                BY DEF Has
            <3>2. Total(field, variables, garbage, pending, Calling, Clearing, o) =
                    CountTo(field, o, Object) + v + g + Occurrences(pending, o) + Has({}, o) + Has({}, o)
                BY <2>3 DEF Total
            <3> HIDE DEF inner, outer, v, g
            <3> QED
                BY <2>2, <2>4, <2>5, <2>6, <2>7, <3>1, <3>2
        <2>10. outer = 0 <=> \A m \in Object \ Inside : ~Refers(m, o)
            <3>1. ASSUME NEW m \in Object
                  PROVE  FieldsTo(field, m, o) = 0 <=> ~Refers(m, o)
                BY FieldsToFacts DEF IInv, TypeOK, Refers
            <3> QED
                BY <1>2, <2>6, <3>1
        <2>11. o \in Direct <=> v # 0 \/ g # 0 \/ outer # 0
            <3>1. o \in Direct <=> \/ o \in variables \cup garbage
                                   \/ \E m \in Object \ Inside : Refers(m, o)
                BY <2>1, OutsideFacts DEF IInv
            <3> QED
                BY <2>7, <2>10, <3>1
        <2> HIDE DEF inner, outer, v, g, n
        <2>12. n \in Nat /\ (n # 0 <=> v # 0 \/ g # 0 \/ outer # 0)
            BY <2>6, <2>7, <2>8, <2>9
        <2> QED
            BY <2>11, <2>12 DEF n
    <1>6. ASSUME NEW o \in Object, o \notin Members(young)
          PROVE  gc_refs'[o] = gc_refs[o]
        <2>1. ~(gc_refs[o] >= 0)
            BY <1>4, <1>6
        <2>2. gc_refs[o] \in Int
            BY <1>2 DEF GC_UNTRACKED, GC_REACHABLE, GC_TENTATIVELY_UNREACHABLE
        <2>3. ~(gc_refs[o] > 0)
            BY <2>1, <2>2
        <2> QED
            BY <1>1, <2>3
    <1>7. \A o \in Object : gc_refs'[o] # GC_UNTRACKED <=> gc_refs[o] # GC_UNTRACKED
        BY <1>3, <1>5, <1>6 DEF GC_UNTRACKED
    <1>8. /\ Members(young)' = Members(young)
          /\ Members(unreachable)' = Members(unreachable)
          /\ Inside' = Inside
          /\ Direct' = Direct
          /\ FromOutside' = FromOutside
        BY <1>1 DEF lists, young, Members, Inside, Direct, FromOutside, graph, holders
    <1>9. ListsExact'
        <2>1. Members(unreachable)' = {o \in Object : gc_refs'[o] = GC_TENTATIVELY_UNREACHABLE}
            BY <1>2, <1>4, <1>5, <1>6, <1>8 DEF MarksExact, GC_TENTATIVELY_UNREACHABLE
        <2>2. \A o \in Object : gc_refs'[o] >= 0 => o \in Members(young)
            BY <1>4, <1>6
        <2>3. MarksExact'
            BY <1>1, <1>8, <2>1, <2>2 DEF MarksExact
        <2> QED
            BY <1>1, <1>7, <2>3, MarkStep DEF IInv
    <1>10. TypeOK'
        <2>1. gc_refs' \in [Object -> Nat \cup {GC_UNTRACKED, GC_REACHABLE, GC_TENTATIVELY_UNREACHABLE}]
            <3>1. ASSUME NEW o \in Object
                  PROVE  gc_refs'[o] \in Nat \cup {GC_UNTRACKED, GC_REACHABLE, GC_TENTATIVELY_UNREACHABLE}
                BY <1>2, <1>5, <1>6
            <3>2. gc_refs' = [o \in Object |-> gc_refs'[o]]
                BY <1>1
            <3> QED
                BY <3>1, <3>2, Zenon
        <2>2. gc' \in Object \cup {Nil}
            BY <1>1, <1>2, FirstFacts
        <2> QED
            BY <1>1, <2>1, <2>2 DEF IInv, TypeOK, graph, holders, lists, FieldsOK
    <1>11. RefcountsExact'
        <2>1. Calling' = Calling /\ Clearing' = Clearing
            BY <1>1 DEF Calling, Clearing, lists, Members
        <2> QED
            BY <1>1, <2>1, RefcountsMeans DEF IInv, CountsAgree, graph, holders
    <1>12. Alive'
        BY <1>1, <1>7, KindAssumption DEF IInv, Alive, graph
    <1>13. Stages'
        BY <1>1 DEF IInv, Stages, lists, holders, Members
    <1>14. ReachableWalk'
        <2>1. At(young, gc', {o \in Object : gc_refs'[o] = GC_REACHABLE})
            <3>1. Lists(young, Range(young))
                BY <1>2, ListsApart DEF IInv, Apart, young
            <3>2. Range(young) \cap {o \in Object : gc_refs'[o] = GC_REACHABLE} = {}
                BY <1>5 DEF Members, GC_REACHABLE
            <3> QED
                BY <1>1, <3>1, <3>2, WalkBegins
        <2>2. young' = young
            BY <1>1 DEF young, lists
        <2>3. \A o \in Direct \ {Nil} : o \notin Members(unreachable) /\ gc_refs'[o] # 0
            <3>1. ASSUME NEW o \in Direct \ {Nil}
                  PROVE  gc_refs'[o] # 0
                <4>1. o \in Object
                    BY OutsideFacts DEF IInv
                <4>2. CASE o \in Members(young)
                    BY <1>5, <4>2
                <4>3. CASE o \notin Members(young)
                    BY <1>4, <1>6, <4>1, <4>3
                <4> QED
                    BY <4>2, <4>3
            <3> QED
                BY <1>2, <3>1
        <2>4. \A o \in Members(young) : gc_refs'[o] # 0 => o \in FromOutside
            <3>1. \A o \in Direct \ {Nil} : o \in FromOutside
                BY OutsideFacts DEF IInv
            <3> QED
                BY <1>3, <1>5, <3>1, NilIsNoObject
        <2>5. \A n \in Members(young) : gc_refs'[n] # GC_REACHABLE
            BY <1>5 DEF GC_REACHABLE
        <2>6. At(young, gc, {o \in Object : gc_refs[o] = GC_REACHABLE})'
            BY <2>1, <2>2, Zenon DEF At
        <2>7. \A o \in (Direct \ {Nil})' : Found(o)'
            BY <1>8, <2>3 DEF Found
        <2> QED
            BY <1>8, <2>4, <2>5, <2>6, <2>7 DEF ReachableWalk
    <1>15. Copied' /\ FinalizerWalk' /\ Sealed'
        BY <1>1 DEF Copied, FinalizerWalk, Sealed
    <1> QED
        BY <1>9, <1>10, <1>11, <1>12, <1>13, <1>14, <1>15 DEF IInv

\* The walk of move_unreachable is at an object of young.
LEMMA WalkFacts ==
    ASSUME IInv, pc = "move_unreachable"
    PROVE  /\ generation \in Generation /\ DOMAIN generations = Generation
           /\ generations \in [Generation -> Seq(Object)]
           /\ generations = [g \in Generation |-> generations[g]]
           /\ Lists(young, Range(young))
           /\ Lists(unreachable, Range(unreachable))
           /\ Lists(finalizers, Range(finalizers))
           /\ Lists(wrcb_to_call, Range(wrcb_to_call))
           /\ \A g \in Generation : Lists(generations[g], Range(generations[g]))
           /\ \A g, h \in Generation : g # h => Range(generations[g]) \cap Range(generations[h]) = {}
           /\ Range(young) \cap Range(unreachable) = {}
           /\ Range(unreachable) \cap (Range(finalizers) \cup Range(wrcb_to_call)) = {}
           /\ Range(young) \cap (Range(finalizers) \cup Range(wrcb_to_call)) = {}
           /\ \A o \in Range(young) \cup Range(unreachable) : o \in TrackedObjects
           /\ At(young, gc, {o \in Object : gc_refs[o] = GC_REACHABLE})
           /\ gc # Nil => gc \in Range(young) /\ gc \in Object /\ gc_refs[gc] # GC_REACHABLE
           /\ MarksExact
           /\ FieldsOK(field)
           /\ gc_refs \in [Object -> Nat \cup {GC_UNTRACKED, GC_REACHABLE, GC_TENTATIVELY_UNREACHABLE}]
    <1>1. /\ generation \in Generation /\ DOMAIN generations = Generation
          /\ FieldsOK(field)
          /\ gc_refs \in [Object -> Nat \cup {GC_UNTRACKED, GC_REACHABLE, GC_TENTATIVELY_UNREACHABLE}]
        BY OldFacts DEF IInv, TypeOK
    <1>2. generations \in [Generation -> Seq(Object)]
        BY DEF IInv, TypeOK, Generation
    <1>3. generations = [g \in Generation |-> generations[g]]
        BY <1>2, Zenon
    <1>4. Apart(generations, unreachable, finalizers, wrcb_to_call, TrackedObjects)
        BY ListsApart DEF IInv
    <1>5. /\ Lists(young, Range(young))
          /\ Range(young) \cap Range(unreachable) = {}
          /\ Range(young) \cap (Range(finalizers) \cup Range(wrcb_to_call)) = {}
          /\ \A o \in Range(young) \cup Range(unreachable) : o \in TrackedObjects
        BY <1>1, <1>4 DEF Apart, young
    <1>6. At(young, gc, {o \in Object : gc_refs[o] = GC_REACHABLE})
        BY DEF IInv, ReachableWalk
    <1>7. ASSUME gc # Nil
          PROVE  gc \in Range(young) /\ gc \in Object /\ gc_refs[gc] # GC_REACHABLE
        <2>1. gc \in Object
            BY <1>7 DEF IInv, TypeOK
        <2>2. PICK n \in 1..Len(young) :
                /\ young[n] = gc
                /\ \A j \in 1..Len(young) : (young[j] \in {o \in Object : gc_refs[o] = GC_REACHABLE} <=> j < n)
            BY <1>5, <1>6, <2>1, AtObject
        <2>3. n \in Nat /\ ~(n < n)
            OBVIOUS
        <2>4. gc \notin {o \in Object : gc_refs[o] = GC_REACHABLE}
            BY <2>2, <2>3
        <2>5. gc \in Range(young)
            BY <1>5, <2>2, ListsElements
        <2> QED
            BY <2>1, <2>4, <2>5
    <1>8. MarksExact
        BY ListsMeans DEF IInv
    <1> QED
        BY <1>1, <1>2, <1>3, <1>4, <1>5, <1>6, <1>7, <1>8 DEF Apart

\* The walk goes on: what is inside and outside stays the same.
LEMMA WalkStep ==
    ASSUME IInv, pc = "move_unreachable", Inside' = Inside,
           UNCHANGED <<ob_refcnt, graph, holders, finalizers, wrcb_to_call, count, pc, generation,
                       pending, trash>>
    PROVE  /\ Direct' = Direct
           /\ FromOutside' = FromOutside
           /\ /\ ListsExact'
              /\ generations' \in [1..NUM_GENERATIONS -> Seq(Object)]
              /\ unreachable' \in Seq(Object)
              /\ gc_refs' \in [Object -> Nat \cup {GC_UNTRACKED, GC_REACHABLE, GC_TENTATIVELY_UNREACHABLE}]
              /\ \A o \in Object : gc_refs'[o] # GC_UNTRACKED <=> gc_refs[o] # GC_UNTRACKED
              /\ gc' \in Object \cup {Nil}
              /\ ReachableWalk'
              => IInv'
    <1>1. Direct' = Direct
        BY DEF Direct, graph, holders
    <1>2. FromOutside = Reachable(Object, field, Direct) /\ FromOutside' = Reachable(Object, field, Direct)'
        BY DEF FromOutside, Direct, Inside
    <1>3. FromOutside' = FromOutside
        BY <1>1, <1>2 DEF graph
    <1>4. ASSUME ListsExact',
                 generations' \in [1..NUM_GENERATIONS -> Seq(Object)],
                 unreachable' \in Seq(Object),
                 gc_refs' \in [Object -> Nat \cup {GC_UNTRACKED, GC_REACHABLE, GC_TENTATIVELY_UNREACHABLE}],
                 \A o \in Object : gc_refs'[o] # GC_UNTRACKED <=> gc_refs[o] # GC_UNTRACKED,
                 gc' \in Object \cup {Nil},
                 ReachableWalk'
          PROVE  IInv'
        <2>1. TypeOK'
            BY <1>4 DEF IInv, TypeOK, graph, holders, FieldsOK
        <2>2. RefcountsExact'
            <3>1. Calling' = Calling /\ Clearing' = Clearing
                BY DEF Calling, Clearing, Members
            <3> QED
                BY <3>1, RefcountsMeans DEF IInv, CountsAgree, graph, holders
        <2>3. Alive'
            BY <1>4, KindAssumption DEF IInv, Alive, graph
        <2>4. Stages'
            BY DEF IInv, Stages, holders, Members
        <2>5. Copied' /\ FinalizerWalk' /\ Sealed'
            BY DEF Copied, FinalizerWalk, Sealed
        <2> QED
            BY <1>4, <2>1, <2>2, <2>3, <2>4, <2>5 DEF IInv
    <1> QED
        BY <1>1, <1>3, <1>4

\* move_unreachable sets an object aside for now and goes on.
LEMMA SetAsideStep ==
    ASSUME IInv, SetAside
    PROVE  IInv'
    <1>1. /\ pc = "move_unreachable" /\ pc' = pc /\ gc # Nil /\ gc_refs[gc] = 0
          /\ gc_refs' = [gc_refs EXCEPT ![gc] = GC_TENTATIVELY_UNREACHABLE]
          /\ generations' = [generations EXCEPT ![generation] = Without(@, {gc})]
          /\ unreachable' = Append(unreachable, gc)
          /\ gc' = Next_(young, gc)
          /\ UNCHANGED <<ob_refcnt, graph, holders, finalizers, wrcb_to_call, count, pc, generation,
                         pending, trash>>
        BY DEF SetAside
    <1>2. gc \in Range(young) /\ gc \in Object
        BY <1>1, WalkFacts
    <1>3. /\ generation \in Generation /\ DOMAIN generations = Generation
          /\ Lists(young, Range(young))
          /\ gc \notin Range(unreachable) /\ gc \notin Range(finalizers) /\ gc \notin Range(wrcb_to_call)
          /\ MarksExact
          /\ gc_refs \in [Object -> Nat \cup {GC_UNTRACKED, GC_REACHABLE, GC_TENTATIVELY_UNREACHABLE}]
        BY <1>1, <1>2, WalkFacts
    <1>4. ASSUME NEW o \in Object
          PROVE  gc_refs'[o] = IF o = gc THEN GC_TENTATIVELY_UNREACHABLE ELSE gc_refs[o]
        BY <1>1, <1>2, <1>3
    <1>5. \A o \in Object : gc_refs'[o] # GC_UNTRACKED <=> gc_refs[o] # GC_UNTRACKED
        BY <1>1, <1>4 DEF GC_UNTRACKED, GC_TENTATIVELY_UNREACHABLE
    <1>6. /\ Lists(Without(young, {gc}), Range(young) \ {gc})
          /\ Lists(unreachable', Range(unreachable) \cup {gc})
        <2>1. Lists(Without(young, {gc}), Range(young) \ {gc})
            BY <1>3, WithoutLists, Zenon
        <2>2. Lists(unreachable, Range(unreachable))
            BY <1>1, WalkFacts
        <2>3. Lists(Append(unreachable, gc), Range(unreachable) \cup {gc})
            BY <1>2, <1>3, <2>2, AppendLists, Zenon
        <2> QED
            BY <1>1, <2>1, <2>3, Zenon
    <1>7. /\ young' = Without(young, {gc})
          /\ Range(young') = Range(young) \ {gc}
          /\ Range(unreachable') = Range(unreachable) \cup {gc}
        <2>1. young' = Without(young, {gc})
            BY <1>1, <1>3 DEF young
        <2> QED
            BY <1>6, <2>1 DEF Lists
    <1>8. Inside' = Inside
        BY <1>2, <1>7 DEF Inside, Members
    <1>9. MarksExact'
        <2>1. Members(unreachable)' = {o \in Object : gc_refs'[o] = GC_TENTATIVELY_UNREACHABLE}
            BY <1>2, <1>3, <1>4, <1>7 DEF MarksExact, Members
        <2>2. \A o \in Object : gc_refs'[o] >= 0 => o \in Members(young)'
            <3>1. ASSUME NEW o \in Object, gc_refs'[o] >= 0
                  PROVE  o \in Members(young)'
                <4>1. o # gc
                    <5>1. ~(GC_TENTATIVELY_UNREACHABLE >= 0)
                        BY DEF GC_TENTATIVELY_UNREACHABLE
                    <5> QED
                        BY <1>4, <3>1, <5>1
                <4>2. o \in Members(young)
                    BY <1>3, <1>4, <3>1, <4>1 DEF MarksExact
                <4> QED
                    BY <1>7, <4>1, <4>2 DEF Members
            <3> QED
                BY <3>1
        <2> QED
            BY <1>1, <2>1, <2>2 DEF MarksExact
    <1>10. /\ ListsExact'
           /\ generations' \in [1..NUM_GENERATIONS -> Seq(Object)]
           /\ unreachable' \in Seq(Object)
        <2>1. generations' = [g \in Generation |-> generations'[g]]
            BY <1>1, <1>3
        <2>2. \A g \in Generation : Lists(generations'[g], Range(generations[g]) \ {gc})
            <3>1. ASSUME NEW g \in Generation, g # generation
                  PROVE  Lists(generations'[g], Range(generations[g]) \ {gc})
                <4>1. /\ Lists(generations[g], Range(generations[g]))
                      /\ Range(generations[g]) \cap Range(young) = {}
                    BY <1>1, <3>1, WalkFacts DEF young
                <4>2. generations'[g] = generations[g]
                    BY <1>1, <1>3, <3>1
                <4>3. Range(generations[g]) \ {gc} = Range(generations[g])
                    BY <1>2, <4>1
                <4> QED
                    BY <4>1, <4>2, <4>3
            <3>2. generations'[generation] = Without(young, {gc})
                BY <1>1, <1>3 DEF young
            <3>3. Lists(generations'[generation], Range(generations[generation]) \ {gc})
                BY <1>6, <3>2, Zenon DEF young
            <3> QED
                BY <3>1, <3>3
        <2>3. Lists(finalizers', Range(finalizers) \ {gc}) /\ Lists(wrcb_to_call', Range(wrcb_to_call) \ {gc})
            <3>1. Lists(finalizers, Range(finalizers)) /\ Lists(wrcb_to_call, Range(wrcb_to_call))
                BY <1>1, WalkFacts
            <3>2. Range(finalizers) \ {gc} = Range(finalizers) /\ Range(wrcb_to_call) \ {gc} = Range(wrcb_to_call)
                BY <1>3
            <3> QED
                BY <1>1, <3>1, <3>2
        <2>4. JoinCollector(generations, unreachable, finalizers, wrcb_to_call,
                            generations', unreachable', finalizers', wrcb_to_call', {gc}, "unreachable")
            BY <1>6, <2>2, <2>3 DEF JoinCollector
        <2>5. {gc} \in SUBSET TrackedObjects
            BY <1>1, <1>2, WalkFacts
        <2> QED
            BY <1>5, <1>9, <2>1, <2>4, <2>5, JoinCollectorStep DEF IInv
    <1>11. gc_refs' \in [Object -> Nat \cup {GC_UNTRACKED, GC_REACHABLE, GC_TENTATIVELY_UNREACHABLE}]
        BY <1>1, <1>3
    <1>12. gc' \in Object \cup {Nil}
        <2>1. PICK n \in 1..Len(young) : young[n] = gc
            BY <1>2, <1>3, ListsElements
        <2>2. gc' = IF n = Len(young) THEN Nil ELSE young[n + 1]
            BY <1>1, <1>3, <2>1, NextFacts
        <2>3. n # Len(young) => n + 1 \in 1..Len(young)
            BY <1>3, ListsElements
        <2>4. \A i \in 1..Len(young) : young[i] \in Object
            BY <1>3, ListsElements
        <2> QED
            BY <2>2, <2>3, <2>4
    <1>13. Direct' = Direct /\ FromOutside' = FromOutside
        BY <1>1, <1>8, WalkStep
    <1>14. ReachableWalk'
        <2>1. At(young, gc, {o \in Object : gc_refs[o] = GC_REACHABLE})'
            <3> DEFINE Marked == {o \in Object : gc_refs[o] = GC_REACHABLE}
                       Marked2 == {o \in Object : gc_refs'[o] = GC_REACHABLE}
            <3>1. At(young, gc, Marked)
                BY <1>1, WalkFacts
            <3>2. \A x \in Range(young) \ {gc} : x \in Marked2 <=> x \in Marked
                BY <1>4
            <3> HIDE DEF Marked, Marked2
            <3>3. At(Without(young, {gc}), Next_(young, gc), Marked2)
                BY <1>2, <1>3, <3>1, <3>2, WalkRemoves
            <3>4. At(young', gc', Marked2)
                BY <1>1, <1>7, <3>3
            <3> QED
                BY <3>4, Zenon DEF Marked2, At
        <2>2. ASSUME NEW o \in Object, Found(o)
              PROVE  Found(o)'
            <3>1. o # gc /\ o \notin Range(unreachable) /\ gc_refs[o] # 0
                BY <1>1, <2>2 DEF Found, Members
            <3>2. o \notin Range(unreachable') /\ gc_refs'[o] # 0
                BY <1>4, <1>7, <3>1
            <3> QED
                BY <3>2 DEF Found, Members
        <2>3. \A o \in Direct \ {Nil} : Found(o)'
            <3>1. \A o \in Direct \ {Nil} : o \in Object /\ Found(o)
                BY <1>1, OutsideFacts DEF IInv, ReachableWalk
            <3> QED
                BY <2>2, <3>1
        <2>4. ASSUME NEW o \in Members(young)', gc_refs'[o] # 0
              PROVE  o \in FromOutside
            <3>1. o \in Members(young) /\ o # gc /\ o \in Object
                <4>1. o \in Range(young) /\ o # gc
                    BY <1>7, <2>4 DEF Members
                <4> QED
                    BY <1>3, <4>1, ListsElements DEF Members
            <3> QED
                BY <1>1, <1>4, <2>4, <3>1 DEF IInv, ReachableWalk
        <2>5. ASSUME NEW n \in Members(young)', NEW o \in Object, gc_refs'[n] = GC_REACHABLE, Refers(n, o)
              PROVE  Found(o)'
            <3>1. n \in Members(young) /\ n # gc /\ n \in Object
                <4>1. n \in Range(young) /\ n # gc
                    BY <1>7, <2>5 DEF Members
                <4> QED
                    BY <1>3, <4>1, ListsElements DEF Members
            <3>2. gc_refs[n] = GC_REACHABLE
                BY <1>4, <2>5, <3>1
            <3>3. Found(o)
                BY <1>1, <2>5, <3>1, <3>2 DEF IInv, ReachableWalk
            <3> QED
                BY <2>2, <3>3
        <2>6. \A n, o : Refers(n, o)' <=> Refers(n, o)
            BY <1>1 DEF Refers, graph
        <2>7. \A o \in (Direct \ {Nil})' : Found(o)'
            BY <1>13, <2>3
        <2> QED
            BY <1>13, <2>1, <2>4, <2>5, <2>6, <2>7 DEF ReachableWalk
    <1> QED
        BY <1>1, <1>5, <1>8, <1>10, <1>11, <1>12, <1>14, WalkStep

\* It comes to an object that is reachable; what that refers to is found, also if it had
\* been set aside.
LEMMA ReachedStep ==
    ASSUME IInv, Reached
    PROVE  IInv'
    <1> DEFINE V == {o \in Object : Refers(gc, o)}
               T == {o \in Object : gc_refs[o] = GC_TENTATIVELY_UNREACHABLE}
               R == V \cap T
               visited == Distinct(References(gc))
               rescued == Within(visited, {o \in Object : gc_refs[o] = GC_TENTATIVELY_UNREACHABLE
                                                      /\ Visit(o) = 1})
    <1>1. /\ pc = "move_unreachable" /\ pc' = pc /\ gc # Nil /\ gc_refs[gc] # 0
          /\ gc_refs' = [o \in Object |->
                            IF o = gc THEN GC_REACHABLE
                            ELSE IF o \in Members(visited) THEN Visit(o) ELSE gc_refs[o]]
          /\ unreachable' = Without(unreachable, Members(rescued))
          /\ generations' = [generations EXCEPT ![generation] = @ \o rescued]
          /\ gc' = Next_(generations'[generation], gc)
          /\ UNCHANGED <<ob_refcnt, graph, holders, finalizers, wrcb_to_call, count, pc, generation,
                         pending, trash>>
        BY DEF Reached
    <1>2. gc \in Range(young) /\ gc \in Object /\ gc_refs[gc] # GC_REACHABLE
        BY <1>1, WalkFacts
    <1>3. /\ generation \in Generation /\ DOMAIN generations = Generation
          /\ Lists(young, Range(young))
          /\ MarksExact
          /\ FieldsOK(field)
          /\ gc_refs \in [Object -> Nat \cup {GC_UNTRACKED, GC_REACHABLE, GC_TENTATIVELY_UNREACHABLE}]
          /\ Range(young) \cap Range(unreachable) = {}
          /\ Range(unreachable) \cap (Range(finalizers) \cup Range(wrcb_to_call)) = {}
        BY <1>1, WalkFacts
    <1>4. Lists(visited, V) /\ Members(visited) = V
        BY <1>2, <1>3, ReferencesFacts DEF Members, Lists
    <1>5. T = Members(unreachable) /\ T = Range(unreachable)
        BY <1>3 DEF MarksExact, Members
    <1>6. Lists(rescued, R) /\ Members(rescued) = R
        <2>1. {o \in Object : gc_refs[o] = GC_TENTATIVELY_UNREACHABLE /\ Visit(o) = 1} = T
            BY DEF Visit
        <2>2. Lists(Within(visited, T), V \cap T)
            BY <1>4, WithinLists
        <2> QED
            BY <2>1, <2>2 DEF Members, Lists
    <1> HIDE DEF visited, rescued
    <1>7. gc \notin T
        BY <1>2, <1>3, <1>5
    <1>8. ASSUME NEW o \in Object
          PROVE  /\ gc_refs'[o] = GC_REACHABLE <=> o = gc \/ gc_refs[o] = GC_REACHABLE
                 /\ gc_refs'[o] = GC_TENTATIVELY_UNREACHABLE <=> o \in T /\ o \notin V
                 /\ gc_refs'[o] = GC_UNTRACKED <=> gc_refs[o] = GC_UNTRACKED
                 /\ gc_refs'[o] >= 0 => gc_refs[o] >= 0 \/ o \in R
                 /\ gc_refs'[o] # 0 <=> gc_refs[o] # 0 \/ o \in V
                 /\ gc_refs'[o] \in Nat \cup {GC_UNTRACKED, GC_REACHABLE, GC_TENTATIVELY_UNREACHABLE}
        <2>1. gc_refs'[o] = IF o = gc THEN GC_REACHABLE ELSE IF o \in V THEN Visit(o) ELSE gc_refs[o]
            BY <1>1, <1>4
        <2>2. gc_refs[gc] # GC_UNTRACKED
            BY <1>1, <1>2, WalkFacts DEF TrackedObjects
        <2>3. gc_refs[o] \in Nat \cup {GC_UNTRACKED, GC_REACHABLE, GC_TENTATIVELY_UNREACHABLE}
            BY <1>3
        <2>4. CASE o = gc
            BY <1>1, <1>2, <1>7, <2>1, <2>2, <2>4 DEF GC_UNTRACKED, GC_REACHABLE, GC_TENTATIVELY_UNREACHABLE
        <2>5. CASE o # gc /\ o \in V
            <3>1. gc_refs'[o] = IF gc_refs[o] \in {0, GC_TENTATIVELY_UNREACHABLE} THEN 1 ELSE gc_refs[o]
                BY <2>1, <2>5 DEF Visit
            <3>2. o \in T <=> gc_refs[o] = GC_TENTATIVELY_UNREACHABLE
                OBVIOUS
            <3> HIDE DEF V, T
            <3> QED
                BY <2>3, <2>5, <3>1, <3>2 DEF GC_UNTRACKED, GC_REACHABLE, GC_TENTATIVELY_UNREACHABLE
        <2>6. CASE o # gc /\ o \notin V
            BY <2>1, <2>3, <2>6
        <2> QED
            BY <2>4, <2>5, <2>6
    <1>9. \A o \in Object : gc_refs'[o] # GC_UNTRACKED <=> gc_refs[o] # GC_UNTRACKED
        BY <1>8
    <1>10. /\ young' = young \o rescued
           /\ Lists(young', Range(young) \cup R)
           /\ Lists(unreachable', Range(unreachable) \ R)
        <2>1. young' = young \o rescued
            BY <1>1, <1>3 DEF young
        <2>2. Range(young) \cap R = {}
            BY <1>3, <1>5
        <2>3. Lists(young \o rescued, Range(young) \cup R)
            BY <1>3, <1>6, <2>2, ConcatLists, Zenon
        <2>4. Lists(unreachable, Range(unreachable))
            BY <1>1, WalkFacts
        <2>5. Lists(Without(unreachable, R), Range(unreachable) \ R)
            BY <2>4, WithoutLists, Zenon
        <2> QED
            BY <1>1, <1>6, <2>1, <2>3, <2>5, Zenon
    <1>11. Range(young') = Range(young) \cup R /\ Range(unreachable') = Range(unreachable) \ R
        BY <1>10 DEF Lists
    <1>12. Inside' = Inside
        BY <1>5, <1>11 DEF Inside, Members
    <1>13. MarksExact'
        <2>1. Members(unreachable)' = {o \in Object : gc_refs'[o] = GC_TENTATIVELY_UNREACHABLE}
            BY <1>5, <1>8, <1>11 DEF Members
        <2>2. \A o \in Object : gc_refs'[o] >= 0 => o \in Members(young)'
            BY <1>3, <1>8, <1>11 DEF MarksExact, Members
        <2> QED
            BY <1>1, <2>1, <2>2 DEF MarksExact
    <1>14. /\ ListsExact'
           /\ generations' \in [1..NUM_GENERATIONS -> Seq(Object)]
           /\ unreachable' \in Seq(Object)
        <2>1. generations' = [g \in Generation |-> generations'[g]]
            BY <1>1, <1>3
        <2>2. \A g \in Generation \ {generation} : generations'[g] = generations[g]
            BY <1>1, <1>3
        <2>3. Lists(generations'[generation], Range(generations[generation]) \cup R)
            <3>1. generations'[generation] = young'
                BY <1>1 DEF young
            <3> QED
                BY <1>10, <3>1, Zenon DEF young
        <2>4. Lists(finalizers', Range(finalizers) \ R) /\ Lists(wrcb_to_call', Range(wrcb_to_call) \ R)
            <3>1. Lists(finalizers, Range(finalizers)) /\ Lists(wrcb_to_call, Range(wrcb_to_call))
                BY <1>1, WalkFacts
            <3>2. Range(finalizers) \ R = Range(finalizers) /\ Range(wrcb_to_call) \ R = Range(wrcb_to_call)
                BY <1>3, <1>5
            <3> QED
                BY <1>1, <3>1, <3>2
        <2>5. R \in SUBSET (Range(unreachable) \cup Range(finalizers) \cup Range(wrcb_to_call))
            BY <1>5
        <2> HIDE DEF R
        <2> QED
            BY <1>3, <1>9, <1>10, <1>13, <2>1, <2>2, <2>3, <2>4, <2>5, JoinStep DEF IInv
    <1>15. gc_refs' \in [Object -> Nat \cup {GC_UNTRACKED, GC_REACHABLE, GC_TENTATIVELY_UNREACHABLE}]
        <2>1. gc_refs' = [o \in Object |-> gc_refs'[o]]
            BY <1>1
        <2> QED
            BY <1>8, <2>1, Zenon
    <1>16. gc' \in Object \cup {Nil}
        <2>1. gc' = Next_(young', gc)
            BY <1>1 DEF young
        <2>2. gc \in Range(young')
            BY <1>2, <1>11
        <2>3. Lists(young', Range(young'))
            BY <1>10, <1>11
        <2>4. PICK n \in 1..Len(young') : young'[n] = gc
            BY <2>2, <2>3, ListsElements
        <2>5. gc' = IF n = Len(young') THEN Nil ELSE young'[n + 1]
            BY <2>1, <2>3, <2>4, NextFacts
        <2>6. /\ n # Len(young') => n + 1 \in 1..Len(young')
              /\ \A i \in 1..Len(young') : young'[i] \in Object
            BY <2>3, ListsElements
        <2> QED
            BY <2>5, <2>6
    <1>17. Direct' = Direct /\ FromOutside' = FromOutside
        BY <1>1, <1>12, WalkStep
    <1>18. ReachableWalk'
        <2>1. At(young, gc, {o \in Object : gc_refs[o] = GC_REACHABLE})'
            <3> DEFINE Marked == {o \in Object : gc_refs[o] = GC_REACHABLE}
                       Marked2 == {o \in Object : gc_refs'[o] = GC_REACHABLE}
            <3>1. At(young, gc, Marked)
                BY <1>1, WalkFacts
            <3>2. \A x \in Range(young) : x \in Marked2 <=> x \in Marked \/ x = gc
                <4>1. \A x \in Range(young) : x \in Object
                    BY <1>3, ListsElements
                <4> QED
                    BY <1>8, <4>1
            <3>3. R \cap (Range(young) \cup Marked) = {}
                BY <1>3, <1>5 DEF GC_TENTATIVELY_UNREACHABLE, GC_REACHABLE
            <3>4. R \cap Marked2 = {}
                BY <1>7, <1>8 DEF GC_TENTATIVELY_UNREACHABLE, GC_REACHABLE
            <3> HIDE DEF Marked, Marked2, R
            <3>5. At(young \o rescued, Next_(young \o rescued, gc), Marked2)
                BY <1>2, <1>3, <1>6, <3>1, <3>2, <3>3, <3>4, WalkGoesOn, Zenon
            <3>6. gc' = Next_(young', gc)
                BY <1>1 DEF young
            <3>7. At(young', gc', Marked2)
                BY <1>10, <3>5, <3>6, Zenon
            <3> QED
                BY <3>7, Zenon DEF Marked2, At
        <2>2. ASSUME NEW o \in Object, Found(o)
              PROVE  Found(o)'
            <3>1. o \notin Range(unreachable) /\ gc_refs[o] # 0
                BY <2>2 DEF Found, Members
            <3>2. o \notin Range(unreachable') /\ gc_refs'[o] # 0
                BY <1>8, <1>11, <3>1
            <3> QED
                BY <3>2 DEF Found, Members
        <2>3. \A o \in Direct \ {Nil} : Found(o)'
            <3>1. \A o \in Direct \ {Nil} : o \in Object /\ Found(o)
                BY <1>1, OutsideFacts DEF IInv, ReachableWalk
            <3> QED
                BY <2>2, <3>1
        <2>4. ASSUME NEW o \in Members(young)', gc_refs'[o] # 0
              PROVE  o \in FromOutside
            <3>1. o \in Range(young) \cup R /\ o \in Object
                <4>1. o \in Range(young) \cup R
                    BY <1>11, <2>4 DEF Members
                <4> QED
                    BY <1>3, <4>1, ListsElements
            <3>2. CASE o \in V
                <4>1. gc \in FromOutside
                    BY <1>1, <1>2 DEF IInv, ReachableWalk, Members
                <4> QED
                    BY <3>1, <3>2, <4>1, OutsideFacts DEF IInv
            <3>3. CASE o \notin V
                <4>1. o \in Members(young) /\ gc_refs[o] # 0
                    BY <1>8, <2>4, <3>1, <3>3 DEF Members
                <4> QED
                    BY <1>1, <4>1 DEF IInv, ReachableWalk
            <3> QED
                BY <3>2, <3>3
        <2>5. ASSUME NEW n \in Members(young)', NEW o \in Object, gc_refs'[n] = GC_REACHABLE, Refers(n, o)
              PROVE  Found(o)'
            <3>1. n \in Range(young) \cup R /\ n \in Object
                <4>1. n \in Range(young) \cup R
                    BY <1>11, <2>5 DEF Members
                <4> QED
                    BY <1>3, <4>1, ListsElements
            <3>2. CASE n = gc
                <4>1. o \in V
                    BY <2>5, <3>2
                <4>2. o \notin Range(unreachable') /\ gc_refs'[o] # 0
                    BY <1>5, <1>8, <1>11, <4>1
                <4> QED
                    BY <4>2 DEF Found, Members
            <3>3. CASE n # gc
                <4>1. gc_refs[n] = GC_REACHABLE
                    BY <1>8, <2>5, <3>1, <3>3
                <4>2. n \in Members(young)
                    BY <3>1, <4>1 DEF Members, GC_TENTATIVELY_UNREACHABLE, GC_REACHABLE
                <4>3. Found(o)
                    BY <1>1, <2>5, <4>1, <4>2 DEF IInv, ReachableWalk
                <4> QED
                    BY <2>2, <4>3
            <3> QED
                BY <3>2, <3>3
        <2>6. \A n, o : Refers(n, o)' <=> Refers(n, o)
            BY <1>1 DEF Refers, graph
        <2>7. \A o \in (Direct \ {Nil})' : Found(o)'
            BY <1>17, <2>3
        <2> QED
            BY <1>17, <2>1, <2>4, <2>5, <2>6, <2>7 DEF ReachableWalk
    <1> QED
        BY <1>1, <1>9, <1>12, <1>14, <1>15, <1>16, <1>18, WalkStep

\* The objects with __del__ leave unreachable.
LEMMA move_finalizersStep ==
    ASSUME IInv, move_finalizers
    PROVE  IInv'
    <1> DEFINE U == Range(unreachable)
               Y == Range(young)
    <1>1. /\ pc = "move_unreachable" /\ gc = Nil /\ pc' = "move_finalizer_reachable"
          /\ generations' = Merged(<<>>)
          /\ finalizers' = Within(unreachable, Finalizer)
          /\ unreachable' = Without(unreachable, Finalizer)
          /\ gc_refs' = [o \in Object |-> IF o \in Members(finalizers') THEN GC_REACHABLE ELSE gc_refs[o]]
          /\ gc' = First(finalizers')
          /\ UNCHANGED <<ob_refcnt, graph, holders, wrcb_to_call, count, generation, pending, trash>>
        BY DEF move_finalizers
    <1>2. /\ generation \in Generation /\ old \in Generation /\ DOMAIN generations = Generation
          /\ Lists(young, Y)
          /\ MarksExact
          /\ FieldsOK(field)
          /\ gc_refs \in [Object -> Nat \cup {GC_UNTRACKED, GC_REACHABLE, GC_TENTATIVELY_UNREACHABLE}]
          /\ Apart(generations, unreachable, finalizers, wrcb_to_call, TrackedObjects)
          /\ generations \in [Generation -> Seq(Object)]
        BY <1>1, WalkFacts, OldFacts, ListsApart DEF IInv
    <1>3. finalizers = <<>> /\ pending = <<>> /\ wrcb_to_call = <<>> /\ Range(finalizers) = {}
        BY <1>1, EmptyLists DEF IInv, Stages, Lists
    <1>4. U = {o \in Object : gc_refs[o] = GC_TENTATIVELY_UNREACHABLE}
        BY <1>2 DEF MarksExact, Members
    <1>5. /\ Lists(finalizers', U \cap Finalizer)
          /\ Lists(unreachable', U \ Finalizer)
          /\ Range(finalizers') = U \cap Finalizer
          /\ Range(unreachable') = U \ Finalizer
        <2>1. Lists(unreachable, U)
            BY <1>2 DEF Apart
        <2>2. Lists(finalizers', U \cap Finalizer) /\ Lists(unreachable', U \ Finalizer)
            BY <1>1, <2>1, WithinLists, WithoutLists, Zenon
        <2> QED
            BY <2>2 DEF Lists
    <1>6. \A o \in Y : o \in Object /\ gc_refs[o] = GC_REACHABLE
        BY <1>1 DEF IInv, ReachableWalk, At
    <1>7. ASSUME NEW o \in Object
          PROVE  /\ ~(gc_refs'[o] >= 0)
                 /\ gc_refs'[o] = GC_TENTATIVELY_UNREACHABLE <=> o \in U /\ o \notin Finalizer
                 /\ gc_refs'[o] = GC_UNTRACKED <=> gc_refs[o] = GC_UNTRACKED
                 /\ gc_refs'[o] \in Nat \cup {GC_UNTRACKED, GC_REACHABLE, GC_TENTATIVELY_UNREACHABLE}
        <2>1. gc_refs'[o] = IF o \in U \cap Finalizer THEN GC_REACHABLE ELSE gc_refs[o]
            BY <1>1, <1>5 DEF Members
        <2>2. ~(gc_refs[o] >= 0)
            <3>1. gc_refs[o] >= 0 => o \in Y
                BY <1>2 DEF MarksExact, Members
            <3> QED
                BY <1>6, <3>1 DEF GC_REACHABLE
        <2>3. gc_refs[o] \in Nat \cup {GC_UNTRACKED, GC_REACHABLE, GC_TENTATIVELY_UNREACHABLE}
            BY <1>2
        <2>4. CASE o \in U \cap Finalizer
            BY <1>4, <2>1, <2>4 DEF GC_UNTRACKED, GC_REACHABLE, GC_TENTATIVELY_UNREACHABLE
        <2>5. CASE o \notin U \cap Finalizer
            BY <1>4, <2>1, <2>2, <2>3, <2>5
        <2> QED
            BY <2>4, <2>5
    <1>8. \A o \in Object : gc_refs'[o] # GC_UNTRACKED <=> gc_refs[o] # GC_UNTRACKED
        BY <1>7
    <1>9. ASSUME NEW g \in Generation
          PROVE  Lists(generations'[g], IF g = old THEN Range(generations[old]) \cup Y
                                        ELSE IF g = generation THEN {} ELSE Range(generations[g]))
        <2>1. generations'[g] = IF g = old THEN (IF old = generation THEN young ELSE generations[old] \o young) \o <<>>
                                ELSE IF g = generation THEN <<>> ELSE generations[g]
            BY <1>1, <1>2 DEF Merged
        <2>2. ASSUME NEW s, NEW S, Lists(s, S)
              PROVE  Lists(s \o <<>>, S)
            <3>1. Lists(s \o <<>>, S \cup {})
                BY <2>2, EmptyLists, ConcatLists, Zenon
            <3>2. S \cup {} = S
                OBVIOUS
            <3> QED
                BY <3>1, <3>2, Zenon
        <2>3. CASE g = old /\ old = generation
            <3>1. generations'[g] = young \o <<>>
                BY <2>1, <2>3, Zenon
            <3>2. Lists(young \o <<>>, Y)
                BY <1>2, <2>2, Zenon
            <3>3. Range(generations[old]) \cup Y = Y
                BY <2>3 DEF young
            <3> QED
                BY <2>3, <3>1, <3>2, <3>3, Zenon
        <2>4. CASE g = old /\ old # generation
            <3>1. generations'[g] = (generations[old] \o young) \o <<>>
                BY <2>1, <2>4, Zenon
            <3>2. Lists(generations[old], Range(generations[old])) /\ Range(generations[old]) \cap Y = {}
                BY <1>2, <2>4 DEF Apart, young
            <3>3. Lists(generations[old] \o young, Range(generations[old]) \cup Y)
                BY <1>2, <3>2, ConcatLists, Zenon
            <3>4. Lists((generations[old] \o young) \o <<>>, Range(generations[old]) \cup Y)
                BY <3>3, <2>2, Zenon
            <3> QED
                BY <2>4, <3>1, <3>4, Zenon
        <2>5. CASE g # old /\ g = generation
            BY <2>1, <2>5, EmptyLists, Zenon
        <2>6. CASE g # old /\ g # generation
            <3>1. generations'[g] = generations[g]
                BY <2>1, <2>6, Zenon
            <3>2. Lists(generations[g], Range(generations[g]))
                BY <1>2 DEF Apart
            <3> QED
                BY <2>6, <3>1, <3>2, Zenon
        <2> QED
            BY <2>3, <2>4, <2>5, <2>6
    <1>10. \A g \in Generation :
                Range(generations'[g]) = IF g = old THEN Range(generations[old]) \cup Y
                                         ELSE IF g = generation THEN {} ELSE Range(generations[g])
        BY <1>9, Zenon DEF Lists
    <1>11. Y = Range(generations[generation])
        BY DEF young
    <1> HIDE DEF Y, U
    <1>12. Apart(generations', unreachable', finalizers', wrcb_to_call', TrackedObjects')
        <2>1. /\ \A g, h \in Generation : g # h => Range(generations[g]) \cap Range(generations[h]) = {}
              /\ \A g \in Generation : Range(generations[g]) \cap (U \cup Range(wrcb_to_call)) = {}
              /\ U \cap Range(wrcb_to_call) = {}
              /\ Lists(wrcb_to_call, Range(wrcb_to_call))
              /\ \A x : x \in TrackedObjects <=> \/ \E g \in Generation : x \in Range(generations[g])
                                                \/ x \in U \cup Range(wrcb_to_call)
            BY <1>2, <1>3 DEF Apart, U
        <2>2. \A g \in Generation : Lists(generations'[g], Range(generations'[g]))
            BY <1>9, <1>10, Zenon
        <2>3. \A g, h \in Generation : g # h => Range(generations'[g]) \cap Range(generations'[h]) = {}
            BY <1>2, <1>10, <1>11, <2>1
        <2>4. \A g \in Generation : Range(generations'[g]) \cap (U \cup Range(wrcb_to_call)) = {}
            BY <1>2, <1>10, <1>11, <2>1
        <2>5. Range(unreachable') \cup Range(finalizers') = U /\ Range(unreachable') \cap Range(finalizers') = {}
            BY <1>5
        <2>6. ASSUME NEW x
              PROVE  (\E g \in Generation : x \in Range(generations'[g])) <=>
                        \E g \in Generation : x \in Range(generations[g])
            BY <1>2, <1>10, <1>11
        <2>7. TrackedObjects' = TrackedObjects
            BY <1>8 DEF TrackedObjects
        <2>8. /\ Lists(unreachable', Range(unreachable')) /\ Lists(finalizers', Range(finalizers'))
              /\ Lists(wrcb_to_call', Range(wrcb_to_call'))
            BY <1>1, <1>5, <2>1
        <2>9. /\ \A g \in Generation : Range(generations'[g]) \cap
                        (Range(unreachable') \cup Range(finalizers') \cup Range(wrcb_to_call')) = {}
              /\ Range(unreachable') \cap (Range(finalizers') \cup Range(wrcb_to_call')) = {}
              /\ Range(finalizers') \cap Range(wrcb_to_call') = {}
            BY <1>1, <2>1, <2>4, <2>5
        <2>10. \A x : x \in TrackedObjects' <=>
                        \/ \E g \in Generation : x \in Range(generations'[g])
                        \/ x \in Range(unreachable') \cup Range(finalizers') \cup Range(wrcb_to_call')
            BY <1>1, <2>1, <2>5, <2>6, <2>7
        <2> QED
            BY <2>2, <2>3, <2>8, <2>9, <2>10, Zenon DEF Apart
    <1>13. /\ generations' \in [Generation -> Seq(Object)]
           /\ unreachable' \in Seq(Object) /\ finalizers' \in Seq(Object) /\ wrcb_to_call' \in Seq(Object)
        <2>1. \A g \in Generation : generations'[g] \in Seq(Object)
            BY <1>9, Zenon DEF Lists
        <2>2. generations' = [g \in Generation |-> generations'[g]]
            BY <1>1, <1>2 DEF Merged
        <2>3. generations' \in [Generation -> Seq(Object)]
            BY <2>1, <2>2, Zenon
        <2>4. unreachable' \in Seq(Object) /\ finalizers' \in Seq(Object)
            BY <1>5, Zenon DEF Lists
        <2>5. wrcb_to_call' \in Seq(Object)
            BY <1>1 DEF IInv, TypeOK
        <2> QED
            BY <2>3, <2>4, <2>5
    <1>14. ListsExact'
        <2>1. Disjoint(generations' \o <<unreachable', finalizers', wrcb_to_call'>>, TrackedObjects')
            BY <1>12, <1>13, DisjointIsApart, Zenon
        <2>2. Disjoint(AllLists, TrackedObjects)'
            BY <2>1, Zenon DEF AllLists, Disjoint
        <2>3. Members(unreachable)' = {o \in Object : gc_refs'[o] = GC_TENTATIVELY_UNREACHABLE}
            <3>1. \A o \in U : o \in Object
                BY <1>4
            <3> QED
                BY <1>5, <1>7, <3>1 DEF Members
        <2>4. MarksExact'
            BY <1>7, <2>3 DEF MarksExact
        <2> QED
            BY <2>2, <2>4, ListsMeans
    <1>15. U \cap (variables \cup garbage) = {}
        <2>1. \A o \in Direct \ {Nil} : o \notin U
            BY <1>1 DEF IInv, ReachableWalk, Found, Members, U
        <2> QED
            BY <2>1, OutsideFacts, <1>4, NilIsNoObject DEF IInv
    <1>16. ASSUME NEW n \in Object, n \notin U, NEW o \in U
           PROVE  ~Refers(n, o)
        <2>1. o \in Object /\ o # Nil /\ ~Found(o)
            BY <1>4, <1>16, NilIsNoObject DEF Found, Members, U
        <2>2. CASE n \in Y
            <3>1. n \in Members(young) /\ gc_refs[n] = GC_REACHABLE
                BY <1>6, <2>2 DEF Members, Y
            <3> QED
                BY <1>1, <2>1, <3>1 DEF IInv, ReachableWalk
        <2>3. CASE n \notin Y
            <3>1. n \in Object \ Inside
                BY <1>16, <2>3 DEF Inside, Members, U, Y
            <3>2. o \notin Direct
                BY <1>1, <2>1 DEF IInv, ReachableWalk
            <3> QED
                BY <2>1, <3>1, <3>2, OutsideFacts DEF IInv
        <2> QED
            BY <2>2, <2>3
    <1>17. TypeOK'
        <2>1. gc_refs' \in [Object -> Nat \cup {GC_UNTRACKED, GC_REACHABLE, GC_TENTATIVELY_UNREACHABLE}]
            <3>1. gc_refs' = [o \in Object |-> gc_refs'[o]]
                BY <1>1
            <3> QED
                BY <1>7, <3>1, Zenon
        <2>2. gc' \in Object \cup {Nil}
            BY <1>1, <1>13, FirstFacts
        <2>3. generations' \in [1..NUM_GENERATIONS -> Seq(Object)]
            BY <1>13 DEF Generation
        <2> QED
            BY <1>1, <1>13, <2>1, <2>2, <2>3 DEF IInv, TypeOK, graph, holders, FieldsOK
    <1>18. RefcountsExact'
        <2>1. Calling' = Calling /\ Clearing' = Clearing
            BY <1>1 DEF Calling, Clearing, Members
        <2> QED
            BY <1>1, <2>1, RefcountsMeans DEF IInv, CountsAgree, graph, holders
    <1>19. Alive'
        BY <1>1, <1>8, KindAssumption DEF IInv, Alive, graph
    <1>20. Stages'
        <2>1. Members(finalizers)' \cap garbage' = {}
            BY <1>1, <1>5, <1>15 DEF Members, holders
        <2> QED
            BY <1>1, <1>3, <2>1 DEF Stages
    <1>21. FinalizerWalk'
        <2>1. Members(unreachable)' \cap (Finalizer \cup variables \cup garbage)' = {}
            BY <1>1, <1>5, <1>15 DEF Members, holders
        <2>2. At(finalizers', gc', {})
            BY <1>1, <1>5, WalkBegins
        <2>3. ASSUME NEW n \in Object \ Members(unreachable)', n \notin Members(finalizers)'
              PROVE  Avoids(n, Members(unreachable))'
            <3>1. n \notin U /\ Members(unreachable)' \subseteq U
                BY <1>5, <2>3 DEF Members
            <3>2. \A o : Refers(n, o)' <=> Refers(n, o)
                BY <1>1 DEF Refers, graph
            <3>3. \A o \in Members(unreachable)' : ~Refers(n, o)'
                BY <1>16, <3>1, <3>2
            <3> QED
                BY <3>3 DEF Avoids
        <2>4. /\ {} \in SUBSET Object
              /\ \A n \in Object \ Members(unreachable)' :
                    n \in {} \/ n \notin Members(finalizers)' => Avoids(n, Members(unreachable))'
            BY <2>3
        <2>5. \E S \in SUBSET Object :
                /\ At(finalizers, gc, S)'
                /\ \A n \in Object \ Members(unreachable)' :
                    n \in S \/ n \notin Members(finalizers)' => Avoids(n, Members(unreachable))'
            <3>1. At(finalizers, gc, {})'
                BY <2>2, Zenon DEF At
            <3> QED
                BY <2>4, <3>1, Zenon
        <2> QED
            BY <2>1, <2>5, Zenon DEF FinalizerWalk, Avoids
    <1>22. Copied' /\ ReachableWalk' /\ Sealed'
        BY <1>1 DEF Copied, ReachableWalk, Sealed
    <1> QED
        BY <1>14, <1>17, <1>18, <1>19, <1>20, <1>21, <1>22 DEF IInv

\* So does what one of them refers to.
LEMMA move_finalizer_reachableStep ==
    ASSUME IInv, move_finalizer_reachable
    PROVE  IInv'
    <1> DEFINE V == {o \in Object : Refers(gc, o)}
               U == Range(unreachable)
               F == Range(finalizers)
               M == V \cap U
               moved == Within(Distinct(References(gc)),
                              {o \in Object : gc_refs[o] = GC_TENTATIVELY_UNREACHABLE})
    <1>1. /\ pc = "move_finalizer_reachable" /\ pc' = pc /\ gc # Nil
          /\ gc_refs' = [o \in Object |-> IF o \in Members(moved) THEN GC_REACHABLE ELSE gc_refs[o]]
          /\ unreachable' = Without(unreachable, Members(moved))
          /\ finalizers' = finalizers \o moved
          /\ gc' = Next_(finalizers', gc)
          /\ UNCHANGED <<ob_refcnt, graph, holders, generations, wrcb_to_call, count, pc, generation,
                         pending, trash>>
        BY DEF move_finalizer_reachable
    <1>2. /\ gc \in Object /\ generation \in Generation
          /\ FieldsOK(field)
          /\ generations \in [Generation -> Seq(Object)]
          /\ gc_refs \in [Object -> Nat \cup {GC_UNTRACKED, GC_REACHABLE, GC_TENTATIVELY_UNREACHABLE}]
        BY <1>1 DEF IInv, TypeOK, Generation
    <1>3. /\ Lists(unreachable, U) /\ Lists(finalizers, F) /\ Lists(wrcb_to_call, Range(wrcb_to_call))
          /\ U \cap (F \cup Range(wrcb_to_call)) = {}
          /\ F \cap Range(wrcb_to_call) = {}
          /\ \A g \in Generation : Lists(generations[g], Range(generations[g]))
          /\ \A g \in Generation : Range(generations[g]) \cap (U \cup F \cup Range(wrcb_to_call)) = {}
          /\ \A o \in U : o \in TrackedObjects
          /\ MarksExact
        BY ListsApart, ListsMeans DEF IInv, Apart
    <1>4. /\ U = {o \in Object : gc_refs[o] = GC_TENTATIVELY_UNREACHABLE}
          /\ \A o \in Object : ~(gc_refs[o] >= 0)
        BY <1>1, <1>3 DEF MarksExact, Members
    <1>5. Lists(moved, M) /\ Members(moved) = M /\ Range(moved) = M
        <2>1. Lists(Distinct(References(gc)), V)
            BY <1>2, ReferencesFacts
        <2>2. Lists(Within(Distinct(References(gc)), U), V \cap U)
            BY <2>1, WithinLists
        <2> QED
            BY <1>4, <2>2 DEF Members, Lists
    <1> HIDE DEF moved
    <1>6. ASSUME NEW o \in Object
          PROVE  /\ ~(gc_refs'[o] >= 0)
                 /\ gc_refs'[o] = GC_TENTATIVELY_UNREACHABLE <=> o \in U /\ o \notin M
                 /\ gc_refs'[o] = GC_UNTRACKED <=> gc_refs[o] = GC_UNTRACKED
                 /\ gc_refs'[o] \in Nat \cup {GC_UNTRACKED, GC_REACHABLE, GC_TENTATIVELY_UNREACHABLE}
        <2>1. gc_refs'[o] = IF o \in M THEN GC_REACHABLE ELSE gc_refs[o]
            BY <1>1, <1>5
        <2>2. gc_refs[o] \in Nat \cup {GC_UNTRACKED, GC_REACHABLE, GC_TENTATIVELY_UNREACHABLE}
            BY <1>2
        <2>3. CASE o \in M
            BY <1>4, <2>1, <2>3 DEF GC_UNTRACKED, GC_REACHABLE, GC_TENTATIVELY_UNREACHABLE
        <2>4. CASE o \notin M
            BY <1>4, <2>1, <2>2, <2>4
        <2> QED
            BY <2>3, <2>4
    <1>7. \A o \in Object : gc_refs'[o] # GC_UNTRACKED <=> gc_refs[o] # GC_UNTRACKED
        BY <1>6
    <1>8. /\ Lists(unreachable', U \ M)
          /\ Lists(finalizers', F \cup M)
          /\ Range(unreachable') = U \ M
          /\ Range(finalizers') = F \cup M
        <2>1. Lists(unreachable', U \ M)
            BY <1>1, <1>3, <1>5, WithoutLists, Zenon
        <2>2. F \cap M = {}
            BY <1>3
        <2>3. Lists(finalizers', F \cup M)
            BY <1>1, <1>3, <1>5, <2>2, ConcatLists, Zenon
        <2> QED
            BY <2>1, <2>3 DEF Lists
    <1>9. /\ ListsExact'
          /\ generations' \in [1..NUM_GENERATIONS -> Seq(Object)]
          /\ unreachable' \in Seq(Object) /\ finalizers' \in Seq(Object)
        <2>1. MarksExact'
            <3>1. Members(unreachable)' = {o \in Object : gc_refs'[o] = GC_TENTATIVELY_UNREACHABLE}
                <4>1. \A o \in U : o \in Object
                    BY <1>4
                <4> QED
                    BY <1>6, <1>8, <4>1 DEF Members
            <3> QED
                BY <1>6, <3>1 DEF MarksExact
        <2>2. generations' = [g \in Generation |-> generations'[g]]
            BY <1>1, <1>2
        <2>3. \A g \in Generation : Lists(generations'[g], Range(generations[g]) \ M)
            <3>1. \A g \in Generation : Range(generations[g]) \ M = Range(generations[g])
                BY <1>3
            <3> QED
                BY <1>1, <1>3, <3>1, Zenon
        <2>4. Lists(wrcb_to_call', Range(wrcb_to_call) \ M)
            <3>1. Range(wrcb_to_call) \ M = Range(wrcb_to_call)
                BY <1>3
            <3> QED
                BY <1>1, <1>3, <3>1, Zenon
        <2>5. JoinCollector(generations, unreachable, finalizers, wrcb_to_call,
                            generations', unreachable', finalizers', wrcb_to_call', M, "finalizers")
            BY <1>8, <2>3, <2>4 DEF JoinCollector
        <2>6. M \in SUBSET TrackedObjects
            BY <1>3
        <2> HIDE DEF M
        <2> QED
            BY <1>7, <2>1, <2>2, <2>5, <2>6, JoinCollectorStep DEF IInv
    <1>10. PICK S \in SUBSET Object :
            /\ At(finalizers, gc, S)
            /\ \A n \in Object \ U : n \in S \/ n \notin F => Avoids(n, U)
        BY <1>1 DEF IInv, FinalizerWalk, Members
    <1> DEFINE S0 == S \cap F
    <1>12. PICK S2 \in SUBSET Object : S2 = S0 \cup {gc}
        BY <1>2
    <1>11. U \cap (Finalizer \cup variables \cup garbage) = {}
        BY <1>1 DEF IInv, FinalizerWalk, Members
    <1>13. gc \in F
        <2>1. gc # Nil
            BY <1>1
        <2>2. \E n \in DOMAIN finalizers : finalizers[n] = gc
            BY <1>10, <2>1 DEF At
        <2> QED
            BY <2>2 DEF Range
    <1>14. At(finalizers', gc', S2)
        <2>1. At(finalizers, gc, S0)
            <3>1. PICK n \in DOMAIN finalizers :
                    finalizers[n] = gc /\ \A j \in DOMAIN finalizers : (finalizers[j] \in S <=> j < n)
                BY <1>1, <1>10 DEF At
            <3>2. \A j \in DOMAIN finalizers : finalizers[j] \in F
                BY DEF Range
            <3>3. \A j \in DOMAIN finalizers : (finalizers[j] \in S0 <=> j < n)
                BY <3>1, <3>2
            <3> QED
                BY <1>1, <3>1, <3>3 DEF At
        <2>2. M \cap (F \cup S0) = {} /\ M \cap S2 = {}
            BY <1>3, <1>13, <1>12
        <2>3. \A x \in F : x \in S2 <=> x \in S0 \/ x = gc
            BY <1>12
        <2> HIDE DEF S0, M, F
        <2>4. At(finalizers \o moved, Next_(finalizers \o moved, gc), S2)
            BY <1>2, <1>3, <1>5, <2>1, <2>2, <2>3, WalkGoesOn, Zenon
        <2> QED
            BY <1>1, <2>4, Zenon
    <1>15. ASSUME NEW n \in Object, n \notin Range(unreachable'), n \in S2 \/ n \notin Range(finalizers'),
                  NEW o \in Range(unreachable')
           PROVE  ~Refers(n, o)
        <2>1. o \in U /\ o \notin V /\ o \in Object
            BY <1>4, <1>8, <1>15
        <2>2. CASE n = gc
            BY <2>1, <2>2
        <2>3. CASE n # gc
            <3>1. n \notin U /\ (n \in S \/ n \notin F)
                BY <1>3, <1>8, <1>15, <1>12, <2>3
            <3> QED
                BY <1>10, <2>1, <3>1 DEF Avoids
        <2> QED
            BY <2>2, <2>3
    <1>16. FinalizerWalk'
        <2>1. Members(unreachable)' \cap (Finalizer \cup variables \cup garbage)' = {}
            BY <1>1, <1>8, <1>11 DEF Members, holders
        <2>2. ASSUME NEW n \in Object \ Members(unreachable)', n \in S2 \/ n \notin Members(finalizers)'
              PROVE  Avoids(n, Members(unreachable))'
            <3>1. \A o \in Range(unreachable') : ~Refers(n, o)
                BY <1>15, <2>2 DEF Members
            <3>2. \A o : Refers(n, o)' <=> Refers(n, o)
                BY <1>1 DEF Refers, graph
            <3> QED
                BY <3>1, <3>2 DEF Avoids, Members
        <2>3. \E SS \in SUBSET Object :
                /\ At(finalizers, gc, SS)'
                /\ \A n \in Object \ Members(unreachable)' :
                    n \in SS \/ n \notin Members(finalizers)' => Avoids(n, Members(unreachable))'
            <3>1. At(finalizers, gc, S2)'
                BY <1>14, Zenon DEF At
            <3> QED
                BY <2>2, <3>1
        <2> QED
            BY <2>1, <2>3, Zenon DEF FinalizerWalk, Avoids
    <1>17. TypeOK'
        <2>1. gc_refs' \in [Object -> Nat \cup {GC_UNTRACKED, GC_REACHABLE, GC_TENTATIVELY_UNREACHABLE}]
            <3>1. gc_refs' = [o \in Object |-> gc_refs'[o]]
                BY <1>1
            <3> QED
                BY <1>6, <3>1, Zenon
        <2>2. gc' \in Object \cup {Nil}
            <3>1. gc \in Range(finalizers') /\ Lists(finalizers', Range(finalizers'))
                BY <1>8, <1>13
            <3>2. PICK n \in 1..Len(finalizers') : finalizers'[n] = gc
                BY <3>1, ListsElements
            <3>3. gc' = IF n = Len(finalizers') THEN Nil ELSE finalizers'[n + 1]
                BY <1>1, <3>1, <3>2, NextFacts
            <3>4. /\ n # Len(finalizers') => n + 1 \in 1..Len(finalizers')
                  /\ \A i \in 1..Len(finalizers') : finalizers'[i] \in Object
                BY <3>1, ListsElements
            <3> QED
                BY <3>3, <3>4
        <2> QED
            BY <1>1, <1>9, <2>1, <2>2 DEF IInv, TypeOK, graph, holders, FieldsOK
    <1>18. RefcountsExact'
        <2>1. Calling' = Calling /\ Clearing' = Clearing
            BY <1>1 DEF Calling, Clearing, Members
        <2> QED
            BY <1>1, <2>1, RefcountsMeans DEF IInv, CountsAgree, graph, holders
    <1>19. Alive'
        BY <1>1, <1>7, KindAssumption DEF IInv, Alive, graph
    <1>20. Stages'
        <2>1. Members(finalizers)' \cap garbage' = {}
            <3>1. F \cap garbage = {}
                BY DEF IInv, Stages, Members
            <3> QED
                BY <1>1, <1>8, <1>11, <3>1 DEF Members, holders
        <2> QED
            BY <1>1, <2>1 DEF IInv, Stages
    <1>21. Copied' /\ ReachableWalk' /\ Sealed'
        BY <1>1 DEF Copied, ReachableWalk, Sealed
    <1> QED
        BY <1>9, <1>16, <1>17, <1>18, <1>19, <1>20, <1>21 DEF IInv

\* When the walk is over nothing outside refers to the rest. All weak references to trash
\* are cleared, and those with a callback that are no trash themselves are held.
LEMMA ClearWeakrefsStep ==
    ASSUME IInv, ClearWeakrefs
    PROVE  IInv'
    <1> DEFINE U == Range(unreachable)
               called == {w \in Weakref : Outlives(w)}
    <1>1. /\ pc = "move_finalizer_reachable" /\ gc = Nil /\ pc' = "handle_weakrefs"
          /\ wr_object' = [w \in Weakref |-> IF ToTrash(w) THEN Nil ELSE wr_object[w]]
          /\ ob_refcnt' = [o \in Object |-> ob_refcnt[o] + IF o \in called THEN 1 ELSE 0]
          /\ wrcb_to_call' = SetToSeq(called)
          /\ generations' = [g \in DOMAIN generations |-> Without(generations[g], called)]
          /\ finalizers' = Without(finalizers, called)
          /\ unreachable' = Without(unreachable, called)
          /\ UNCHANGED <<gc_refs, field, holders, count, generation, gc, pending, trash>>
        BY DEF ClearWeakrefs
    <1>2. /\ DOMAIN generations = Generation
          /\ generations \in [Generation -> Seq(Object)]
          /\ ob_refcnt \in [Object -> Nat]
          /\ wr_object \in [Weakref -> Object \cup {Nil}]
          /\ pending \in Seq(Object)
        BY DEF IInv, TypeOK, Generation
    <1>3. /\ Lists(unreachable, U) /\ Lists(finalizers, Range(finalizers))
          /\ \A g \in Generation : Lists(generations[g], Range(generations[g]))
          /\ MarksExact
        BY ListsApart, ListsMeans DEF IInv, Apart
    <1>4. /\ U = {o \in Object : gc_refs[o] = GC_TENTATIVELY_UNREACHABLE}
          /\ \A o \in Object : ~(gc_refs[o] >= 0)
        BY <1>1, <1>3 DEF MarksExact, Members
    <1>5. wrcb_to_call = <<>> /\ Range(wrcb_to_call) = {} /\ pending = <<>>
        BY <1>1, EmptyLists DEF IInv, Stages, Lists
    <1>6. /\ called \in SUBSET Object /\ called \in SUBSET TrackedObjects /\ called \cap U = {}
        <2>1. Weakref \subseteq Object
            BY KindAssumption
        <2>2. \A w \in called : gc_refs[w] # GC_UNTRACKED /\ gc_refs[w] # GC_TENTATIVELY_UNREACHABLE
            BY DEF Outlives, ToTrash, IInv, Alive
        <2> QED
            BY <1>4, <2>1, <2>2 DEF TrackedObjects
    <1> HIDE DEF called
    <1>7. /\ Lists(wrcb_to_call', called)
          /\ Lists(unreachable', U \ called)
          /\ Lists(finalizers', Range(finalizers) \ called)
          /\ \A g \in Generation : Lists(generations'[g], Range(generations[g]) \ called)
        <2>1. \A g \in Generation : generations'[g] = Without(generations[g], called)
            BY <1>1, <1>2
        <2>2. Lists(wrcb_to_call', called)
            BY <1>1, <1>6, SetLists
        <2>3. Lists(unreachable', U \ called) /\ Lists(finalizers', Range(finalizers) \ called)
            BY <1>1, <1>3, WithoutLists, Zenon
        <2>4. ASSUME NEW g \in Generation
              PROVE  Lists(generations'[g], Range(generations[g]) \ called)
            <3>1. Lists(generations[g], Range(generations[g])) /\ generations'[g] = Without(generations[g], called)
                BY <1>3, <2>1
            <3>2. Lists(Without(generations[g], called), Range(generations[g]) \ called)
                BY <3>1, WithoutLists, Zenon
            <3> QED
                BY <3>1, <3>2
        <2> QED
            BY <2>2, <2>3, <2>4
    <1>8. Range(wrcb_to_call') = called /\ Range(unreachable') = U
        <2>1. U \ called = U
            BY <1>6
        <2> QED
            BY <1>7, <2>1 DEF Lists
    <1>9. /\ ListsExact'
          /\ generations' \in [1..NUM_GENERATIONS -> Seq(Object)]
          /\ unreachable' \in Seq(Object) /\ finalizers' \in Seq(Object) /\ wrcb_to_call' \in Seq(Object)
        <2>1. MarksExact'
            BY <1>1, <1>4, <1>8 DEF MarksExact, Members
        <2>2. generations' = [g \in Generation |-> generations'[g]]
            BY <1>1, <1>2
        <2>3. Range(wrcb_to_call) \cup called = called
            BY <1>5
        <2>4. JoinCollector(generations, unreachable, finalizers, wrcb_to_call,
                            generations', unreachable', finalizers', wrcb_to_call', called, "wrcb_to_call")
            BY <1>7, <2>3 DEF JoinCollector
        <2>5. \A o \in Object : gc_refs'[o] # GC_UNTRACKED <=> gc_refs[o] # GC_UNTRACKED
            BY <1>1
        <2> QED
            BY <1>6, <2>1, <2>2, <2>4, <2>5, JoinCollectorStep DEF IInv
    <1>10. ASSUME NEW o \in Object
           PROVE  ob_refcnt'[o] = ob_refcnt[o] + Has(called, o) /\ ob_refcnt[o] \in Nat /\ ob_refcnt'[o] \in Nat
        BY <1>1, <1>2 DEF Has
    <1>11. TypeOK'
        <2>1. ob_refcnt' \in [Object -> Nat]
            <3>1. ob_refcnt' = [o \in Object |-> ob_refcnt'[o]]
                BY <1>1
            <3> QED
                BY <1>10, <3>1, Zenon
        <2>2. wr_object' \in [Weakref -> Object \cup {Nil}]
            BY <1>1, <1>2
        <2> QED
            BY <1>1, <1>9, <2>1, <2>2 DEF IInv, TypeOK, holders, FieldsOK
    <1>12. RefcountsExact'
        <2>1. Calling = {} /\ Calling' = called /\ Clearing' = Clearing
            BY <1>1, <1>5, <1>8 DEF Calling, Clearing, Members
        <2>2. ASSUME NEW o \in Object
              PROVE  ob_refcnt'[o] = Total(field, variables, garbage, pending, called, Clearing, o)
            <3>1. ob_refcnt[o] = Total(field, variables, garbage, pending, {}, Clearing, o)
                BY <2>1, RefcountsMeans DEF IInv, CountsAgree
            <3>2. Total(field, variables, garbage, pending, called, Clearing, o) + Has({}, o)
                    = Total(field, variables, garbage, pending, {}, Clearing, o) + Has(called, o)
                BY <1>2, TotalCalling
            <3>3. Has({}, o) = 0 /\ Has(called, o) \in Nat
                BY DEF Has
            <3>4. Total(field, variables, garbage, pending, called, Clearing, o) \in Nat
                BY <1>2, TotalType
            <3> QED
                BY <1>10, <3>1, <3>2, <3>3, <3>4
        <2> QED
            BY <1>1, <2>1, <2>2, RefcountsMeans DEF CountsAgree, holders
    <1>13. Alive'
        <2>1. \A o \in Object : ob_refcnt[o] > 0 => ob_refcnt'[o] > 0
            BY <1>10 DEF Has
        <2>2. \A o \in Object : ob_refcnt'[o] = 0 => ob_refcnt[o] = 0
            BY <1>10 DEF Has
        <2>3. \A w \in Weakref : wr_object'[w] # Nil => wr_object[w] # Nil
            BY <1>1
        <2> QED
            BY <1>1, <2>1, <2>2, <2>3 DEF IInv, Alive
    <1>14. Stages'
        <2>1. Members(finalizers)' \cap garbage' = {}
            <3>1. Range(finalizers) \cap garbage = {}
                BY DEF IInv, Stages, Members
            <3> QED
                BY <1>1, <1>7, <3>1 DEF Members, holders, Lists
        <2> QED
            BY <1>1, <1>5, <2>1 DEF Stages
    <1>15. Sealed'
        <2>1. Doomed' = U
            BY <1>1, <1>8 DEF Doomed, Members
        <2>2. U \cap (Finalizer \cup variables \cup garbage) = {}
            BY <1>1 DEF IInv, FinalizerWalk, Members
        <2>3. \A n \in Object \ U : Avoids(n, U)
            BY <1>1 DEF IInv, FinalizerWalk, At, Members
        <2>4. \A w \in Weakref : wr_object'[w] \notin U
            <3>1. \A w \in Weakref : ~ToTrash(w) => wr_object[w] = Nil \/ wr_object[w] \notin U
                BY DEF ToTrash, Members
            <3>2. Nil \notin U
                BY <1>4, NilIsNoObject
            <3> QED
                BY <1>1, <3>1, <3>2
        <2>6. Members(unreachable)' = U /\ U \subseteq Object
            BY <1>4, <1>8 DEF Members
        <2>7. \A n \in Object \ U : Spares(n, Doomed)'
            BY <1>1, <2>1, <2>3 DEF Spares, Avoids, Refers
        <2> QED
            BY <1>1, <2>1, <2>2, <2>4, <2>6, <2>7 DEF Sealed, holders
    <1> QED
        BY <1>1, <1>9, <1>11, <1>12, <1>13, <1>14, <1>15, RunningStep

\* No weak reference is called twice, and the object that the collector is at is its.
LEMMA CallbackStep ==
    ASSUME IInv, Callback
    PROVE  IInv'
    <1>1. /\ pc = "handle_weakrefs" /\ pc' = "callback" /\ wrcb_to_call # <<>>
          /\ gc' = Head(wrcb_to_call)
          /\ UNCHANGED <<ob_refcnt, gc_refs, graph, holders, lists, count, generation, pending, trash>>
        BY DEF Callback
    <1>2. wrcb_to_call \in Seq(Object)
        BY DEF IInv, TypeOK
    <1>3. gc' = First(wrcb_to_call) /\ gc' \in Object
        BY <1>1, <1>2, FirstFacts
    <1>4. TypeOK'
        BY <1>1, <1>3 DEF IInv, TypeOK, graph, holders, lists, FieldsOK
    <1>5. RefcountsExact'
        <2>1. Calling' = Calling /\ Clearing' = Clearing
            BY <1>1 DEF Calling, Clearing, lists, Members
        <2> QED
            BY <1>1, <2>1, RefcountsMeans DEF IInv, CountsAgree, graph, holders
    <1>6. ListsExact'
        BY <1>1, ListsUnchanged DEF IInv
    <1>7. Alive'
        BY <1>1 DEF IInv, Alive, graph
    <1>8. Stages'
        BY <1>1, <1>3 DEF IInv, Stages, lists, holders, Members
    <1>9. Sealed'
        BY <1>1 DEF IInv, Sealed, Doomed, Spares, Avoids, Refers, Members, graph, holders, lists
    <1> QED
        BY <1>1, <1>4, <1>5, <1>6, <1>7, <1>8, <1>9, RunningStep

\* A callback has returned, and the collector gives up its reference.
LEMMA ReturnedStep ==
    ASSUME IInv, Returned
    PROVE  IInv'
    <1>1. /\ pc = "callback" /\ pc' = "called" /\ pending = <<>> /\ pending' = <<gc>>
          /\ UNCHANGED <<ob_refcnt, gc_refs, graph, holders, lists, count, generation, gc, trash>>
        BY DEF Returned
    <1>2. /\ gc \in Object /\ gc = First(wrcb_to_call)
          /\ wrcb_to_call \in Seq(Object)
          /\ pending \in Seq(Object) /\ pending' \in Seq(Object)
        BY <1>1, OccurrencesNew DEF IInv, Stages, TypeOK
    <1>3. gc \in Range(wrcb_to_call)
        <2>1. wrcb_to_call # <<>>
            BY <1>2, FirstFacts, NilIsNoObject
        <2> QED
            BY <1>2, <2>1, FirstFacts
    <1>4. TypeOK'
        BY <1>1, <1>2 DEF IInv, TypeOK, graph, holders, lists, FieldsOK
    <1>5. RefcountsExact'
        <2>1. Calling = Range(wrcb_to_call) /\ Calling' = Range(wrcb_to_call) \ {gc} /\ Clearing' = Clearing
            BY <1>1 DEF Calling, Clearing, lists, Members
        <2>2. ASSUME NEW o \in Object
              PROVE  ob_refcnt[o] = Total(field, variables, garbage, pending', Calling', Clearing, o)
            <3> DEFINE t0 == Total(field, variables, garbage, pending, Calling, Clearing, o)
                       t1 == Total(field, variables, garbage, pending', Calling, Clearing, o)
                       t2 == Total(field, variables, garbage, pending', Calling', Clearing, o)
                       h0 == Has(Calling, o)
                       h1 == Has(Calling', o)
                       h2 == Has({gc}, o)
                       c0 == Occurrences(pending, o)
                       c1 == Occurrences(pending', o)
            <3>1. ob_refcnt[o] = t0
                BY RefcountsMeans DEF IInv, CountsAgree
            <3>2. t1 + c0 = t0 + c1
                BY <1>2, TotalPending
            <3>3. t2 + h0 = t1 + h1
                BY <1>2, TotalCalling
            <3>4. c0 = 0 /\ c1 = h2
                BY <1>1, <1>2, OccurrencesNew
            <3>5. h0 = h1 + h2 /\ h1 \in Nat /\ h2 \in Nat
                BY <1>3, <2>1 DEF Has
            <3>6. t0 \in Nat /\ t1 \in Nat /\ t2 \in Nat
                BY <1>2, TotalType
            <3> HIDE DEF t0, t1, t2, h0, h1, h2, c0, c1
            <3>7. ob_refcnt[o] = t2
                BY <3>1, <3>2, <3>3, <3>4, <3>5, <3>6
            <3> QED
                BY <3>7 DEF t2
        <2> QED
            BY <1>1, <2>1, <2>2, RefcountsMeans DEF CountsAgree, graph, holders
    <1>6. ListsExact'
        BY <1>1, ListsUnchanged DEF IInv
    <1>7. Alive'
        BY <1>1 DEF IInv, Alive, graph
    <1>8. Stages'
        BY <1>1, <1>2 DEF IInv, Stages, lists, holders, Members
    <1>9. Sealed'
        BY <1>1 DEF IInv, Sealed, Doomed, Spares, Avoids, Refers, Members, graph, holders, lists
    <1> QED
        BY <1>1, <1>4, <1>5, <1>6, <1>7, <1>8, <1>9, RunningStep

\* The weak reference goes to the old generation if it is still there.
LEMMA CalledStep ==
    ASSUME IInv, Called
    PROVE  IInv'
    <1>1. /\ pc = "called" /\ pc' = "handle_weakrefs" /\ pending = <<>> /\ gc' = Nil
          /\ IF First(wrcb_to_call) = gc
             THEN /\ wrcb_to_call' = Tail(wrcb_to_call)
                  /\ generations' = [generations EXCEPT ![old] = Append(@, gc)]
             ELSE UNCHANGED <<wrcb_to_call, generations>>
          /\ UNCHANGED <<ob_refcnt, gc_refs, graph, holders, unreachable, finalizers, count, generation,
                         pending, trash>>
        BY DEF Called
    <1>2. /\ gc \in Object
          /\ gc \in Range(wrcb_to_call) => gc = First(wrcb_to_call)
          /\ wrcb_to_call \in Seq(Object)
          /\ old \in Generation /\ DOMAIN generations = Generation
          /\ generations \in [Generation -> Seq(Object)]
        BY <1>1, OldFacts DEF IInv, Stages, TypeOK, Members, Generation
    <1>3. /\ Lists(unreachable, Range(unreachable)) /\ Lists(finalizers, Range(finalizers))
          /\ Lists(wrcb_to_call, Range(wrcb_to_call))
          /\ Range(wrcb_to_call) \cap (Range(unreachable) \cup Range(finalizers)) = {}
          /\ \A g \in Generation : Lists(generations[g], Range(generations[g]))
          /\ \A g \in Generation : Range(generations[g]) \cap Range(wrcb_to_call) = {}
          /\ MarksExact
        BY ListsApart, ListsMeans DEF IInv, Apart
    <1>4. /\ ListsExact'
          /\ generations' \in [1..NUM_GENERATIONS -> Seq(Object)]
          /\ wrcb_to_call' \in Seq(Object)
          /\ Range(wrcb_to_call') = Range(wrcb_to_call) \ {gc}
        <2>1. CASE First(wrcb_to_call) = gc
            <3>1. /\ wrcb_to_call' = Tail(wrcb_to_call)
                  /\ generations' = [generations EXCEPT ![old] = Append(@, gc)]
                BY <1>1, <2>1
            <3>2. /\ wrcb_to_call # <<>> /\ gc = Head(wrcb_to_call) /\ gc \in Range(wrcb_to_call)
                BY <1>2, <2>1, FirstFacts, NilIsNoObject
            <3>3. Lists(wrcb_to_call', Range(wrcb_to_call) \ {gc})
                BY <1>3, <3>1, <3>2, TailLists, Zenon
            <3>4. Lists(Append(generations[old], gc), Range(generations[old]) \cup {gc})
                <4>1. Lists(generations[old], Range(generations[old])) /\ gc \notin Range(generations[old])
                    BY <1>2, <1>3, <3>2
                <4> QED
                    BY <1>2, <4>1, AppendLists, Zenon
            <3>5. /\ generations'[old] = Append(generations[old], gc)
                  /\ generations' = [g \in Generation |-> generations'[g]]
                  /\ \A g \in Generation \ {old} : generations'[g] = generations[g]
                BY <1>2, <3>1
            <3>6. Lists(generations'[old], Range(generations[old]) \cup {gc})
                BY <3>4, <3>5, Zenon
            <3>7. Lists(unreachable', Range(unreachable) \ {gc}) /\ Lists(finalizers', Range(finalizers) \ {gc})
                <4>1. Range(unreachable) \ {gc} = Range(unreachable) /\ Range(finalizers) \ {gc} = Range(finalizers)
                    BY <1>3, <3>2
                <4> QED
                    BY <1>1, <1>3, <4>1
            <3>8. {gc} \in SUBSET (Range(unreachable) \cup Range(finalizers) \cup Range(wrcb_to_call))
                BY <3>2
            <3>9. MarksExact' /\ \A o \in Object : gc_refs'[o] # GC_UNTRACKED <=> gc_refs[o] # GC_UNTRACKED
                BY <1>1, <1>3 DEF MarksExact, Members
            <3>10. /\ ListsExact'
                   /\ generations' \in [1..NUM_GENERATIONS -> Seq(Object)]
                   /\ wrcb_to_call' \in Seq(Object)
                BY <1>2, <3>3, <3>5, <3>6, <3>7, <3>8, <3>9, JoinStep DEF IInv
            <3> QED
                BY <3>3, <3>10 DEF Lists
        <2>2. CASE First(wrcb_to_call) # gc
            <3>1. UNCHANGED lists
                BY <1>1, <2>2 DEF lists
            <3>2. Range(wrcb_to_call) \ {gc} = Range(wrcb_to_call)
                BY <1>2, <2>2
            <3>3. ListsExact'
                BY <1>1, <3>1, ListsUnchanged DEF IInv
            <3> QED
                BY <3>1, <3>2, <3>3 DEF IInv, TypeOK, lists
        <2> QED
            BY <2>1, <2>2
    <1>5. TypeOK'
        BY <1>1, <1>4 DEF IInv, TypeOK, graph, holders, FieldsOK
    <1>6. RefcountsExact'
        <2>1. Calling' = Calling /\ Clearing' = Clearing
            BY <1>1, <1>4 DEF Calling, Clearing, Members
        <2> QED
            BY <1>1, <2>1, RefcountsMeans DEF IInv, CountsAgree, graph, holders
    <1>7. Alive'
        BY <1>1 DEF IInv, Alive, graph
    <1>8. Stages'
        BY <1>1 DEF IInv, Stages, holders, Members
    <1>9. Sealed'
        BY <1>1 DEF IInv, Sealed, Doomed, Spares, Avoids, Refers, Members, graph, holders
    <1> QED
        BY <1>1, <1>4, <1>5, <1>6, <1>7, <1>8, <1>9, RunningStep

\* The callbacks are done; what is unreachable is the trash.
LEMMA WeakrefsHandledStep ==
    ASSUME IInv, WeakrefsHandled
    PROVE  IInv'
    <1>1. /\ pc = "handle_weakrefs" /\ pc' = "delete_garbage" /\ wrcb_to_call = <<>>
          /\ trash' = Members(unreachable)
          /\ UNCHANGED <<ob_refcnt, gc_refs, graph, holders, lists, count, generation, gc, pending>>
        BY DEF WeakrefsHandled
    <1>2. TypeOK'
        BY <1>1 DEF IInv, TypeOK, graph, holders, lists, FieldsOK
    <1>3. RefcountsExact'
        <2>1. Calling' = Calling /\ Clearing' = Clearing
            BY <1>1 DEF Calling, Clearing, lists, Members
        <2> QED
            BY <1>1, <2>1, RefcountsMeans DEF IInv, CountsAgree, graph, holders
    <1>4. ListsExact'
        BY <1>1, ListsUnchanged DEF IInv
    <1>5. Alive'
        BY <1>1 DEF IInv, Alive, graph
    <1>6. Stages'
        BY <1>1 DEF IInv, Stages, lists, holders, Members
    <1>7. Sealed'
        <2>1. Doomed' = Doomed /\ Members(unreachable)' = Members(unreachable)
            BY <1>1 DEF Doomed, lists, Members
        <2> QED
            BY <1>1, <2>1 DEF IInv, Sealed, Spares, Avoids, Refers, graph, holders
    <1> QED
        BY <1>1, <1>2, <1>3, <1>4, <1>5, <1>6, <1>7, RunningStep

\* The cascade of tp_clear is over, and the collector gives up its reference.
LEMMA ClearedStep ==
    ASSUME IInv, Cleared
    PROVE  IInv'
    <1>1. /\ pc = "clear" /\ pc' = "cleared" /\ pending = <<>> /\ pending' = <<gc>>
          /\ UNCHANGED <<ob_refcnt, gc_refs, graph, holders, lists, count, generation, gc, trash>>
        BY DEF Cleared
    <1>2. /\ gc \in Object /\ gc = First(unreachable)
          /\ pending \in Seq(Object) /\ pending' \in Seq(Object)
        BY <1>1, OccurrencesNew DEF IInv, Stages, TypeOK
    <1>3. TypeOK'
        BY <1>1, <1>2 DEF IInv, TypeOK, graph, holders, lists, FieldsOK
    <1>4. RefcountsExact'
        <2>1. Calling' = Calling /\ Clearing = {gc} /\ Clearing' = {}
            BY <1>1 DEF Calling, Clearing, lists, Members
        <2>2. ASSUME NEW o \in Object
              PROVE  ob_refcnt[o] = Total(field, variables, garbage, pending', Calling, {}, o)
            <3> DEFINE t0 == Total(field, variables, garbage, pending, Calling, {gc}, o)
                       t1 == Total(field, variables, garbage, pending', Calling, {gc}, o)
                       t2 == Total(field, variables, garbage, pending', Calling, {}, o)
                       h0 == Has({gc}, o)
                       h1 == Has({}, o)
                       c0 == Occurrences(pending, o)
                       c1 == Occurrences(pending', o)
            <3>1. ob_refcnt[o] = t0
                BY <2>1, RefcountsMeans DEF IInv, CountsAgree
            <3>2. t1 + c0 = t0 + c1
                BY <1>2, TotalPending
            <3>3. t2 + h0 = t1 + h1
                BY <1>2, TotalClearing
            <3>4. c0 = 0 /\ c1 = h0
                BY <1>1, <1>2, OccurrencesNew
            <3>5. h1 = 0 /\ h0 \in Nat
                BY DEF Has
            <3>6. t0 \in Nat /\ t1 \in Nat /\ t2 \in Nat
                BY <1>2, TotalType
            <3> HIDE DEF t0, t1, t2, h0, h1, c0, c1
            <3>7. ob_refcnt[o] = t2
                BY <3>1, <3>2, <3>3, <3>4, <3>5, <3>6
            <3> QED
                BY <3>7 DEF t2
        <2> QED
            BY <1>1, <2>1, <2>2, RefcountsMeans DEF CountsAgree, graph, holders
    <1>5. ListsExact'
        BY <1>1, ListsUnchanged DEF IInv
    <1>6. Alive'
        BY <1>1 DEF IInv, Alive, graph
    <1>7. Stages'
        BY <1>1, <1>2 DEF IInv, Stages, lists, graph, holders, Members
    <1>8. Sealed'
        BY <1>1 DEF IInv, Sealed, Doomed, Spares, Avoids, Refers, Members, graph, holders, lists
    <1> QED
        BY <1>1, <1>3, <1>4, <1>5, <1>6, <1>7, <1>8, RunningStep

\* delete_garbage holds the next object and clears it.
LEMMA ClearStep ==
    ASSUME IInv, Clear
    PROVE  IInv'
    <1>1. PICK x : x = Head(unreachable)
        OBVIOUS
    <1>2. /\ pc = "delete_garbage" /\ pc' = "clear" /\ unreachable # <<>>
          /\ gc' = x
          /\ ob_refcnt' = [ob_refcnt EXCEPT ![x] = @ + 1]
          /\ field' = [field EXCEPT ![x] = NoReferences(x)]
          /\ wr_object' = [w \in Weakref |-> IF w = x THEN Nil ELSE wr_object[w]]
          /\ pending' = References(x)
          /\ UNCHANGED <<gc_refs, holders, lists, count, generation, trash>>
        <2>1. /\ gc' = x
              /\ ob_refcnt' = Py_INCREF(gc')
              /\ field' = [field EXCEPT ![gc'] = NoReferences(gc')]
              /\ wr_object' = [w \in Weakref |-> IF w = gc' THEN Nil ELSE wr_object[w]]
              /\ pending' = References(gc')
            BY <1>1 DEF Clear
        <2>2. /\ ob_refcnt' = Py_INCREF(x)
              /\ field' = [field EXCEPT ![x] = NoReferences(x)]
              /\ wr_object' = [w \in Weakref |-> IF w = x THEN Nil ELSE wr_object[w]]
              /\ pending' = References(x)
            BY <2>1
        <2>3. ob_refcnt' = [ob_refcnt EXCEPT ![x] = @ + 1]
            BY <2>2 DEF Py_INCREF
        <2>4. /\ pc = "delete_garbage" /\ pc' = "clear" /\ unreachable # <<>>
              /\ UNCHANGED <<gc_refs, holders, lists, count, generation, trash>>
            BY DEF Clear
        <2> QED
            BY <2>1, <2>2, <2>3, <2>4
    <1>3. /\ ob_refcnt \in [Object -> Nat] /\ FieldsOK(field)
          /\ wr_object \in [Weakref -> Object \cup {Nil}]
          /\ unreachable \in Seq(Object)
          /\ pending \in Seq(Object) /\ pending = <<>>
        BY <1>2 DEF IInv, TypeOK, Stages
    <1>4. x = First(unreachable) /\ x \in Range(unreachable) /\ x \in Object
        BY <1>1, <1>2, <1>3, FirstFacts
    <1>5. References(x) \in Seq(Object) /\ pending' \in Seq(Object)
        BY <1>2, <1>3, <1>4, ReferencesFacts
    <1>6. /\ FieldsOK(field') /\ field'[x] = NoReferences(x)
          /\ \A n \in Object \ {x} : field'[n] = field[n]
        <2>1. NoReferences(x) \in [1..(IF x \in Pair THEN 2 ELSE 1) -> Object \cup {Nil}]
            BY <1>4, NoReferencesFacts
        <2>2. field'[x] = NoReferences(x) /\ \A n \in Object \ {x} : field'[n] = field[n]
            BY <1>2, <1>3, <1>4 DEF FieldsOK
        <2>3. DOMAIN field' = Object
            BY <1>2, <1>3 DEF FieldsOK
        <2>4. \A o \in Object : field'[o] \in [1..(IF o \in Pair THEN 2 ELSE 1) -> Object \cup {Nil}]
            BY <1>3, <2>1, <2>2 DEF FieldsOK
        <2> QED
            BY <2>2, <2>3, <2>4 DEF FieldsOK
    <1>7. ASSUME NEW o \in Object
          PROVE  /\ ob_refcnt'[o] = ob_refcnt[o] + Has({x}, o)
                 /\ ob_refcnt[o] \in Nat /\ ob_refcnt'[o] \in Nat
        BY <1>2, <1>3, <1>4 DEF Has
    <1>8. TypeOK'
        <2>1. ob_refcnt' \in [Object -> Nat]
            BY <1>2, <1>3, <1>4
        <2>2. wr_object' \in [Weakref -> Object \cup {Nil}]
            BY <1>2, <1>3
        <2> QED
            BY <1>2, <1>4, <1>5, <1>6, <2>1, <2>2 DEF IInv, TypeOK, holders, lists, FieldsOK
    <1>9. RefcountsExact'
        <2>1. Calling' = Calling /\ Clearing = {} /\ Clearing' = {x}
            BY <1>2 DEF Calling, Clearing, lists, Members
        <2>2. ASSUME NEW o \in Object
              PROVE  ob_refcnt'[o] = Total(field', variables, garbage, pending', Calling, {x}, o)
            <3> DEFINE t0 == Total(field, variables, garbage, pending, Calling, {}, o)
                       t1 == Total(field', variables, garbage, pending, Calling, {}, o)
                       t2 == Total(field', variables, garbage, pending', Calling, {}, o)
                       t3 == Total(field', variables, garbage, pending', Calling, {x}, o)
                       n0 == CountTo(field, o, Object)
                       n1 == CountTo(field', o, Object)
                       f0 == FieldsTo(field, x, o)
                       f1 == FieldsTo(field', x, o)
                       h0 == Has({}, o)
                       h1 == Has({x}, o)
                       c0 == Occurrences(pending, o)
                       c1 == Occurrences(pending', o)
            <3>1. ob_refcnt[o] = t0
                BY <2>1, RefcountsMeans DEF IInv, CountsAgree
            <3>p. pending \in Seq(Object) /\ pending' \in Seq(Object)
                BY <1>3, <1>5
            <3>2. t1 + n0 = t0 + n1
                BY <3>p, TotalFields
            <3>3. t2 + c0 = t1 + c1
                BY <3>p, TotalPending
            <3>4. t3 + h0 = t2 + h1
                BY <3>p, TotalClearing
            <3>5. n1 + f0 = n0 + f1
                <4>1. SameBut(field, field', x)
                    BY <1>6 DEF SameBut
                <4> QED
                    BY <1>4, <4>1, CountUpdate
            <3>6. f1 = 0
                BY <1>4, <1>6, ClearedFields
            <3>7. c0 = 0 /\ c1 = f0
                BY <1>2, <1>3, <1>4, OccurrencesNew, ReferencesFacts
            <3>8. h0 = 0 /\ h1 \in Nat
                BY DEF Has
            <3>9. t0 \in Nat /\ t1 \in Nat /\ n0 \in Nat /\ n1 \in Nat
                BY <1>3, TotalType
            <3>10. t2 \in Nat /\ t3 \in Nat
                BY <1>5, TotalType
            <3>11. f0 \in Nat
                BY <1>3, <1>4, FieldsToFacts
            <3>12. ob_refcnt'[o] = ob_refcnt[o] + h1
                BY <1>7
            <3> HIDE DEF t0, t1, t2, t3, n0, n1, f0, f1, h0, h1, c0, c1
            <3>13. ob_refcnt'[o] = t3
                BY <3>1, <3>2, <3>3, <3>4, <3>5, <3>6, <3>7, <3>8, <3>9, <3>10, <3>11, <3>12
            <3> QED
                BY <3>13 DEF t3
        <2> QED
            BY <1>2, <2>1, <2>2, RefcountsMeans DEF CountsAgree, holders
    <1>10. ListsExact'
        BY <1>2, ListsUnchanged DEF IInv
    <1>11. Alive'
        <2>1. \A o \in Object : ob_refcnt[o] > 0 => ob_refcnt'[o] > 0
            BY <1>7 DEF Has
        <2>2. \A o \in Object : ob_refcnt'[o] = 0 => ob_refcnt[o] = 0
            BY <1>7 DEF Has
        <2>3. \A o \in Object : ob_refcnt'[o] = 0 => field'[o] = NoReferences(o)
            BY <1>6, <2>2 DEF IInv, Alive
        <2>4. \A w \in Weakref : wr_object'[w] # Nil => wr_object[w] # Nil
            BY <1>2
        <2> QED
            BY <1>2, <2>1, <2>3, <2>4 DEF IInv, Alive
    <1>12. Stages'
        <2>1. gc' = First(unreachable') /\ field'[gc'] = NoReferences(gc') /\ gc' \in Object
            BY <1>2, <1>4, <1>6 DEF lists
        <2> QED
            BY <1>2, <2>1 DEF IInv, Stages, lists, holders, Members
    <1>13. Sealed'
        <2>1. /\ Doomed = trash /\ Doomed' = trash
              /\ Members(unreachable)' = Members(unreachable) /\ x \in Members(unreachable)
            BY <1>2, <1>4 DEF Doomed, lists, Members
        <2>2. /\ Members(unreachable) \subseteq trash
              /\ trash \subseteq Object
              /\ trash \cap (Finalizer \cup variables \cup garbage) = {}
              /\ \A n \in Object \ Members(unreachable) :
                    n \in trash \cap NoClear \/ \A o \in trash : ~Refers(n, o)
              /\ \A w \in Weakref : wr_object[w] \notin trash
            BY <1>2, <2>1 DEF IInv, Sealed, Spares, Avoids
        <2>3. \A n \in Object \ Members(unreachable) :
                n \in trash \cap NoClear \/ \A o \in trash : ~Refers(n, o)'
            <3>1. \A n \in Object \ Members(unreachable) : field'[n] = field[n]
                BY <1>6, <2>1
            <3> QED
                BY <2>2, <3>1 DEF Refers
        <2>4. \A w \in Weakref : wr_object'[w] \notin trash
            <3>1. Nil \notin trash
                BY <2>2, NilIsNoObject
            <3> QED
                BY <1>2, <2>2, <3>1
        <2>5. \A n \in (Object \ Members(unreachable))' : Spares(n, Doomed)'
            BY <2>1, <2>3 DEF Spares, Avoids
        <2> QED
            BY <1>2, <2>1, <2>2, <2>4, <2>5 DEF Sealed, holders
    <1> QED
        BY <1>2, <1>8, <1>9, <1>10, <1>11, <1>12, <1>13, RunningStep

\* delete_garbage is done with the first object, which goes to the old generation.
LEMMA MovedToOld ==
    ASSUME IInv, pc \in {"delete_garbage", "cleared"}, unreachable # <<>>,
           NEW x, x = Head(unreachable),
           unreachable' = Tail(unreachable),
           generations' = [generations EXCEPT ![old] = Append(@, x)],
           gc_refs' = [gc_refs EXCEPT ![x] = GC_REACHABLE],
           UNCHANGED <<finalizers, wrcb_to_call>>
    PROVE  /\ x \in Object /\ x \in Range(unreachable)
           /\ ListsExact'
           /\ generations' \in [1..NUM_GENERATIONS -> Seq(Object)]
           /\ unreachable' \in Seq(Object)
           /\ gc_refs' \in [Object -> Nat \cup {GC_UNTRACKED, GC_REACHABLE, GC_TENTATIVELY_UNREACHABLE}]
           /\ \A o \in Object : gc_refs'[o] # GC_UNTRACKED <=> gc_refs[o] # GC_UNTRACKED
           /\ Range(unreachable') = Range(unreachable) \ {x}
    <1>1. /\ unreachable \in Seq(Object)
          /\ old \in Generation /\ DOMAIN generations = Generation
          /\ generations \in [Generation -> Seq(Object)]
          /\ gc_refs \in [Object -> Nat \cup {GC_UNTRACKED, GC_REACHABLE, GC_TENTATIVELY_UNREACHABLE}]
        BY OldFacts DEF IInv, TypeOK, Generation
    <1>2. x \in Object /\ x \in Range(unreachable)
        BY <1>1, FirstFacts
    <1>3. /\ Lists(unreachable, Range(unreachable)) /\ Lists(finalizers, Range(finalizers))
          /\ Lists(wrcb_to_call, Range(wrcb_to_call))
          /\ Range(unreachable) \cap (Range(wrcb_to_call) \cup Range(finalizers)) = {}
          /\ \A g \in Generation : Lists(generations[g], Range(generations[g]))
          /\ \A g \in Generation : Range(generations[g]) \cap Range(unreachable) = {}
          /\ MarksExact
        BY ListsApart, ListsMeans DEF IInv, Apart
    <1>4. /\ Range(unreachable) = {o \in Object : gc_refs[o] = GC_TENTATIVELY_UNREACHABLE}
          /\ \A o \in Object : ~(gc_refs[o] >= 0)
        BY <1>3 DEF MarksExact, Members
    <1>5. Lists(unreachable', Range(unreachable) \ {x})
        <2>1. Lists(Tail(unreachable), Range(unreachable) \ {Head(unreachable)})
            BY <1>2, <1>3, TailLists, Zenon
        <2> QED
            BY <2>1
    <1>6. Lists(Append(generations[old], x), Range(generations[old]) \cup {x})
        <2>1. Lists(generations[old], Range(generations[old])) /\ x \notin Range(generations[old])
            BY <1>1, <1>2, <1>3
        <2> QED
            BY <1>2, <2>1, AppendLists, Zenon
    <1>7. /\ generations'[old] = Append(generations[old], x)
          /\ generations' = [g \in Generation |-> generations'[g]]
          /\ \A g \in Generation \ {old} : generations'[g] = generations[g]
        BY <1>1
    <1>8. Lists(generations'[old], Range(generations[old]) \cup {x})
        BY <1>6, <1>7, Zenon
    <1>9. Lists(wrcb_to_call', Range(wrcb_to_call) \ {x}) /\ Lists(finalizers', Range(finalizers) \ {x})
        <2>1. Range(wrcb_to_call) \ {x} = Range(wrcb_to_call) /\ Range(finalizers) \ {x} = Range(finalizers)
            BY <1>2, <1>3
        <2> QED
            BY <1>3, <2>1
    <1>10. {x} \in SUBSET (Range(unreachable) \cup Range(finalizers) \cup Range(wrcb_to_call))
        BY <1>2
    <1>11. ASSUME NEW o \in Object
          PROVE  /\ ~(gc_refs'[o] >= 0)
                 /\ gc_refs'[o] # GC_UNTRACKED <=> gc_refs[o] # GC_UNTRACKED
                 /\ gc_refs'[o] = GC_TENTATIVELY_UNREACHABLE <=> o \in Range(unreachable) \ {x}
        <2>1. gc_refs'[o] = IF o = x THEN GC_REACHABLE ELSE gc_refs[o]
            BY <1>1
        <2>2. gc_refs[x] = GC_TENTATIVELY_UNREACHABLE
            BY <1>2, <1>4
        <2>3. CASE o = x
            BY <2>1, <2>2, <2>3 DEF GC_UNTRACKED, GC_REACHABLE, GC_TENTATIVELY_UNREACHABLE
        <2>4. CASE o # x
            BY <1>4, <2>1, <2>4
        <2> QED
            BY <2>3, <2>4
    <1>12. MarksExact'
        <2>1. Range(unreachable') = Range(unreachable) \ {x}
            BY <1>5 DEF Lists
        <2>2. Members(unreachable)' = {o \in Object : gc_refs'[o] = GC_TENTATIVELY_UNREACHABLE}
            BY <1>4, <1>11, <2>1 DEF Members
        <2> QED
            BY <1>11, <2>2 DEF MarksExact
    <1>13. gc_refs' \in [Object -> Nat \cup {GC_UNTRACKED, GC_REACHABLE, GC_TENTATIVELY_UNREACHABLE}]
        BY <1>1
    <1>14. /\ ListsExact'
           /\ generations' \in [1..NUM_GENERATIONS -> Seq(Object)]
           /\ unreachable' \in Seq(Object)
        BY <1>1, <1>5, <1>7, <1>8, <1>9, <1>10, <1>11, <1>12, JoinStep DEF IInv
    <1> QED
        BY <1>2, <1>5, <1>11, <1>13, <1>14 DEF Lists

\* An object that is still there goes to the old generation; it refers to nothing now.
LEMMA DeletedStep ==
    ASSUME IInv, Deleted
    PROVE  IInv'
    <1>1. /\ pc = "cleared" /\ pc' = "delete_garbage" /\ pending = <<>> /\ gc' = Nil
          /\ IF First(unreachable) = gc
             THEN /\ unreachable' = Tail(unreachable)
                  /\ generations' = [generations EXCEPT ![old] = Append(@, gc)]
                  /\ gc_refs' = [gc_refs EXCEPT ![gc] = GC_REACHABLE]
             ELSE UNCHANGED <<unreachable, generations, gc_refs>>
          /\ UNCHANGED <<ob_refcnt, graph, holders, finalizers, wrcb_to_call, count, generation,
                         pending, trash>>
        BY DEF Deleted
    <1>2. /\ gc \in Object
          /\ gc \in Range(unreachable) => gc = First(unreachable)
          /\ unreachable \in Seq(Object)
          /\ field[gc] = NoReferences(gc)
        BY <1>1 DEF IInv, Stages, TypeOK, Members
    <1>3. /\ ListsExact'
          /\ generations' \in [1..NUM_GENERATIONS -> Seq(Object)]
          /\ unreachable' \in Seq(Object)
          /\ gc_refs' \in [Object -> Nat \cup {GC_UNTRACKED, GC_REACHABLE, GC_TENTATIVELY_UNREACHABLE}]
          /\ \A o \in Object : gc_refs'[o] # GC_UNTRACKED <=> gc_refs[o] # GC_UNTRACKED
          /\ Range(unreachable') = Range(unreachable) \ {gc}
        <2>1. CASE First(unreachable) = gc
            <3>1. /\ unreachable' = Tail(unreachable)
                  /\ generations' = [generations EXCEPT ![old] = Append(@, gc)]
                  /\ gc_refs' = [gc_refs EXCEPT ![gc] = GC_REACHABLE]
                BY <1>1, <2>1
            <3>2. unreachable # <<>> /\ gc = Head(unreachable)
                BY <1>2, <2>1, FirstFacts, NilIsNoObject
            <3> QED
                BY <1>1, <3>1, <3>2, MovedToOld
        <2>2. CASE First(unreachable) # gc
            <3>1. UNCHANGED lists /\ UNCHANGED gc_refs
                BY <1>1, <2>2 DEF lists
            <3>2. Range(unreachable) \ {gc} = Range(unreachable)
                BY <1>2, <2>2
            <3>3. ListsExact'
                BY <1>1, <3>1, ListsUnchanged DEF IInv
            <3> QED
                BY <3>1, <3>2, <3>3 DEF IInv, TypeOK, lists
        <2> QED
            BY <2>1, <2>2
    <1>4. TypeOK'
        BY <1>1, <1>3 DEF IInv, TypeOK, graph, holders, FieldsOK
    <1>5. RefcountsExact'
        <2>1. Calling' = Calling /\ Clearing' = Clearing
            BY <1>1 DEF Calling, Clearing, Members
        <2> QED
            BY <1>1, <2>1, RefcountsMeans DEF IInv, CountsAgree, graph, holders
    <1>6. Alive'
        BY <1>1, <1>3, KindAssumption DEF IInv, Alive, graph
    <1>7. Stages'
        BY <1>1 DEF IInv, Stages, holders, Members
    <1>8. Sealed'
        <2>1. /\ Doomed = trash /\ Doomed' = trash
              /\ Members(unreachable)' = Members(unreachable) \ {gc}
            BY <1>1, <1>3 DEF Doomed, Members
        <2>2. /\ Members(unreachable) \subseteq trash
              /\ trash \subseteq Object
              /\ trash \cap (Finalizer \cup variables \cup garbage) = {}
              /\ \A n \in Object \ Members(unreachable) :
                    n \in trash \cap NoClear \/ \A o \in trash : ~Refers(n, o)
              /\ \A w \in Weakref : wr_object[w] \notin trash
            BY <1>1, <2>1 DEF IInv, Sealed, Spares, Avoids
        <2>3. \A o \in trash : ~Refers(gc, o)
            BY <1>2, <2>2, NoReferencesFacts, NilIsNoObject DEF Refers
        <2>4. \A n \in (Object \ Members(unreachable))' :
                n \in trash \cap NoClear \/ \A o \in trash : ~Refers(n, o)
            BY <2>1, <2>2, <2>3
        <2>5. \A n \in (Object \ Members(unreachable))' : Spares(n, Doomed)'
            BY <1>1, <2>1, <2>4 DEF Spares, Avoids, Refers, graph
        <2> QED
            BY <1>1, <2>1, <2>2, <2>5 DEF Sealed, holders, graph
    <1> QED
        BY <1>1, <1>3, <1>4, <1>5, <1>6, <1>7, <1>8, RunningStep

\* An object whose type leaves it its references goes to the old generation with them.
LEMMA KeepUnclearedStep ==
    ASSUME IInv, KeepUncleared
    PROVE  IInv'
    <1>1. PICK x : x = Head(unreachable)
        OBVIOUS
    <1>2. /\ pc = "delete_garbage" /\ pc' = "delete_garbage" /\ unreachable # <<>>
          /\ x \in NoClear
          /\ generations' = [generations EXCEPT ![old] = Append(@, x)]
          /\ gc_refs' = [gc_refs EXCEPT ![x] = GC_REACHABLE]
          /\ unreachable' = Tail(unreachable)
          /\ UNCHANGED <<ob_refcnt, graph, holders, finalizers, wrcb_to_call, count, generation, gc,
                         trash, pending>>
        BY <1>1 DEF KeepUncleared, Clearable
    <1>3. /\ x \in Object /\ x \in Range(unreachable)
          /\ ListsExact'
          /\ generations' \in [1..NUM_GENERATIONS -> Seq(Object)]
          /\ unreachable' \in Seq(Object)
          /\ gc_refs' \in [Object -> Nat \cup {GC_UNTRACKED, GC_REACHABLE, GC_TENTATIVELY_UNREACHABLE}]
          /\ \A o \in Object : gc_refs'[o] # GC_UNTRACKED <=> gc_refs[o] # GC_UNTRACKED
          /\ Range(unreachable') = Range(unreachable) \ {x}
        BY <1>1, <1>2, MovedToOld
    <1>4. TypeOK'
        BY <1>2, <1>3 DEF IInv, TypeOK, graph, holders, FieldsOK
    <1>5. RefcountsExact'
        <2>1. Calling' = Calling /\ Clearing' = Clearing
            BY <1>2 DEF Calling, Clearing, Members
        <2> QED
            BY <1>2, <2>1, RefcountsMeans DEF IInv, CountsAgree, graph, holders
    <1>6. Alive'
        BY <1>2, <1>3, KindAssumption DEF IInv, Alive, graph
    <1>7. Stages'
        BY <1>2 DEF IInv, Stages, holders, Members
    <1>8. Sealed'
        <2>1. /\ Doomed = trash /\ Doomed' = trash
              /\ Members(unreachable)' = Members(unreachable) \ {x}
              /\ x \in Members(unreachable)
            BY <1>2, <1>3 DEF Doomed, Members
        <2>2. /\ Members(unreachable) \subseteq trash
              /\ trash \subseteq Object
              /\ trash \cap (Finalizer \cup variables \cup garbage) = {}
              /\ \A n \in Object \ Members(unreachable) : Spares(n, trash)
              /\ \A w \in Weakref : wr_object[w] \notin trash
            BY <1>2, <2>1 DEF IInv, Sealed
        <2>3. Spares(x, trash)
            BY <1>2, <2>1, <2>2 DEF Spares
        <2>4. \A n \in (Object \ Members(unreachable))' : Spares(n, trash)
            BY <2>1, <2>2, <2>3
        <2>5. \A n \in (Object \ Members(unreachable))' : Spares(n, Doomed)'
            BY <1>2, <2>1, <2>4 DEF Spares, Avoids, Refers, graph
        <2> QED
            BY <1>2, <2>1, <2>2, <2>5 DEF Sealed, holders, graph
    <1> QED
        BY <1>2, <1>3, <1>4, <1>5, <1>6, <1>7, <1>8, RunningStep

\* handle_finalizers puts the objects with __del__ in gc.garbage and ends the collection.
LEMMA handle_finalizersStep ==
    ASSUME IInv, handle_finalizers
    PROVE  IInv'
    <1> DEFINE F == Range(finalizers)
    <1>1. PICK appended : appended = F \cap Finalizer
        OBVIOUS
    <1>2. /\ pc = "delete_garbage" /\ pc' = "python" /\ unreachable = <<>>
          /\ garbage' = garbage \cup appended
          /\ ob_refcnt' = [o \in Object |-> ob_refcnt[o] + IF o \in appended THEN 1 ELSE 0]
          /\ generations' = [generations EXCEPT ![old] = @ \o finalizers]
          /\ finalizers' = <<>> /\ generation' = 1
          /\ UNCHANGED <<gc_refs, graph, variables, unreachable, wrcb_to_call, count, gc, pending>>
        BY <1>1 DEF handle_finalizers, Members
    <1>3. /\ ob_refcnt \in [Object -> Nat]
          /\ pending \in Seq(Object) /\ pending = <<>> /\ wrcb_to_call = <<>>
          /\ old \in Generation /\ DOMAIN generations = Generation
          /\ generations \in [Generation -> Seq(Object)]
          /\ F \cap garbage = {}
        BY <1>2, OldFacts DEF IInv, TypeOK, Stages, Generation, Members
    <1>4. /\ Lists(unreachable, Range(unreachable)) /\ Lists(finalizers, F)
          /\ Lists(wrcb_to_call, Range(wrcb_to_call))
          /\ Range(unreachable) \cap F = {} /\ Range(wrcb_to_call) \cap F = {}
          /\ \A g \in Generation : Lists(generations[g], Range(generations[g]))
          /\ \A g \in Generation : Range(generations[g]) \cap F = {}
          /\ MarksExact
        BY ListsApart, ListsMeans DEF IInv, Apart
    <1>5. F \subseteq Object
        BY <1>4, ListsElements
    <1>6. /\ ListsExact'
          /\ generations' \in [1..NUM_GENERATIONS -> Seq(Object)]
        <2>1. /\ generations'[old] = generations[old] \o finalizers
              /\ generations' = [g \in Generation |-> generations'[g]]
              /\ \A g \in Generation \ {old} : generations'[g] = generations[g]
            BY <1>2, <1>3
        <2>2. Lists(generations'[old], Range(generations[old]) \cup F)
            <3>1. Lists(generations[old], Range(generations[old])) /\ Range(generations[old]) \cap F = {}
                BY <1>3, <1>4
            <3>2. Lists(generations[old] \o finalizers, Range(generations[old]) \cup F)
                BY <1>4, <3>1, ConcatLists, Zenon
            <3> QED
                BY <2>1, <3>2, Zenon
        <2>3. Lists(unreachable', Range(unreachable) \ F) /\ Lists(wrcb_to_call', Range(wrcb_to_call) \ F)
            <3>1. Range(unreachable) \ F = Range(unreachable) /\ Range(wrcb_to_call) \ F = Range(wrcb_to_call)
                BY <1>4
            <3> QED
                BY <1>2, <1>4, <3>1
        <2>4. Lists(finalizers', F \ F)
            <3>1. F \ F = {}
                OBVIOUS
            <3> QED
                BY <1>2, <3>1, EmptyLists
        <2>5. F \in SUBSET (Range(unreachable) \cup F \cup Range(wrcb_to_call))
            OBVIOUS
        <2>6. MarksExact' /\ \A o \in Object : gc_refs'[o] # GC_UNTRACKED <=> gc_refs[o] # GC_UNTRACKED
            BY <1>2, <1>4 DEF MarksExact, Members
        <2> QED
            BY <1>3, <2>1, <2>2, <2>3, <2>4, <2>5, <2>6, JoinStep DEF IInv
    <1>7. ASSUME NEW o \in Object
          PROVE  /\ ob_refcnt'[o] = ob_refcnt[o] + Has(appended, o)
                 /\ ob_refcnt[o] \in Nat /\ ob_refcnt'[o] \in Nat
        BY <1>2, <1>3 DEF Has
    <1>8. TypeOK'
        <2>1. ob_refcnt' \in [Object -> Nat]
            <3>1. ob_refcnt' = [o \in Object |-> ob_refcnt'[o]]
                BY <1>2
            <3> QED
                BY <1>7, <3>1, Zenon
        <2>2. garbage' \subseteq Object
            BY <1>1, <1>2, <1>5 DEF IInv, TypeOK
        <2>3. generation' \in 1..NUM_GENERATIONS
            BY <1>2, GenerationFacts DEF Generation
        <2>4. finalizers' \in Seq(Object)
            BY <1>2, EmptyLists DEF Lists
        <2> QED
            BY <1>2, <1>6, <2>1, <2>2, <2>3, <2>4 DEF IInv, TypeOK, graph, FieldsOK
    <1>9. RefcountsExact'
        <2>1. Calling' = Calling /\ Clearing' = Clearing
            BY <1>2 DEF Calling, Clearing, Members
        <2>2. ASSUME NEW o \in Object
              PROVE  ob_refcnt'[o] = Total(field, variables, garbage', pending, Calling, Clearing, o)
            <3>1. ob_refcnt[o] = Total(field, variables, garbage, pending, Calling, Clearing, o)
                BY RefcountsMeans DEF IInv, CountsAgree
            <3>p. pending \in Seq(Object)
                BY <1>3
            <3>2. Total(field, variables, garbage', pending, Calling, Clearing, o) + Has(garbage, o)
                    = Total(field, variables, garbage, pending, Calling, Clearing, o) + Has(garbage', o)
                BY <3>p, TotalGarbage
            <3>3. Has(garbage', o) = Has(garbage, o) + Has(appended, o) /\ Has(garbage, o) \in Nat /\ Has(appended, o) \in Nat
                BY <1>1, <1>2, <1>3 DEF Has
            <3>4. /\ Total(field, variables, garbage', pending, Calling, Clearing, o) \in Nat
                  /\ Total(field, variables, garbage, pending, Calling, Clearing, o) \in Nat
                BY <1>3, TotalType
            <3> QED
                BY <1>7, <3>1, <3>2, <3>3, <3>4
        <2> QED
            BY <1>2, <2>1, <2>2, RefcountsMeans DEF CountsAgree, graph
    <1>10. Alive'
        <2>1. \A o \in Object : ob_refcnt[o] > 0 => ob_refcnt'[o] > 0
            BY <1>7 DEF Has
        <2>2. \A o \in Object : ob_refcnt'[o] = 0 => ob_refcnt[o] = 0
            BY <1>7 DEF Has
        <2> QED
            BY <1>2, <2>1, <2>2 DEF IInv, Alive, graph
    <1>11. Stages'
        <2>1. Members(finalizers)' = {}
            BY <1>2, EmptyLists DEF Members, Lists
        <2> QED
            BY <1>2, <1>3, <2>1 DEF Stages
    <1>12. Sealed'
        BY <1>2 DEF Sealed
    <1> QED
        BY <1>2, <1>6, <1>8, <1>9, <1>10, <1>11, <1>12, RunningStep

--------------------------------------------------------------------------------
(* The invariant holds.                                                    *)

\* The invariant at the start,
LEMMA Initially == Init => IInv
    <1> SUFFICES ASSUME Init
                 PROVE  IInv
        OBVIOUS
    <1> USE DEF Init
    <1>1. <<>> \in Seq(Object) /\ Range(<<>>) = {} /\ Lists(<<>>, {}) /\ IsInjective(<<>>)
        BY EmptyLists DEF Lists
    <1>2. FieldsOK(field)
        <2>1. \A o \in Object : NoReferences(o) \in [1..(IF o \in Pair THEN 2 ELSE 1) -> Object \cup {Nil}]
            BY NoReferencesFacts
        <2> QED
            BY <2>1 DEF FieldsOK
    <1>3. generations \in [Generation -> Seq(Object)] /\ \A g \in Generation : generations[g] = <<>>
        BY <1>1 DEF Generation
    <1>4. TypeOK
        <2>1. generations \in [1..NUM_GENERATIONS -> Seq(Object)]
            BY <1>3 DEF Generation
        <2>2. generation \in 1..NUM_GENERATIONS
            BY GenerationFacts DEF Generation
        <2> QED
            BY <1>1, <1>2, <2>1, <2>2 DEF TypeOK
    <1>5. RefcountsExact
        <2>1. ASSUME NEW o \in Object
              PROVE  ob_refcnt[o] = Total(field, variables, garbage, pending, Calling, Clearing, o)
            <3>1. \A n \in Object : FieldsTo(field, n, o) = 0
                BY ClearedFields
            <3>2. CountTo(field, o, Object) = 0
                BY <3>1, CountType
            <3>3. Calling = {} /\ Clearing = {}
                BY <1>1 DEF Calling, Clearing, Members
            <3>4. pending \in Seq(Object)
                BY <1>4 DEF TypeOK
            <3>5. /\ o \notin variables /\ o \notin garbage /\ o \notin Range(pending)
                  /\ o \notin Calling /\ o \notin Clearing
                BY <1>1, <3>3
            <3>6. ob_refcnt[o] = 0
                OBVIOUS
            <3> HIDE DEF Init
            <3>7. Total(field, variables, garbage, pending, Calling, Clearing, o) = 0
                BY <3>2, <3>4, <3>5, TotalNothing, Zenon
            <3> QED
                BY <3>6, <3>7
        <2> QED
            BY <2>1, RefcountsMeans DEF CountsAgree
    <1>6. ListsExact
        <2>1. TrackedObjects = {}
            BY DEF TrackedObjects
        <2>2. \A g \in Generation : Lists(generations[g], {}) /\ Range(generations[g]) = {}
            BY <1>1, <1>3
        <2>3. Apart(generations, unreachable, finalizers, wrcb_to_call, TrackedObjects)
            BY <1>1, <2>1, <2>2 DEF Apart
        <2>4. Disjoint(AllLists, TrackedObjects)
            BY <1>1, <1>3, <2>3, DisjointIsApart, Zenon DEF AllLists
        <2>5. MarksExact
            BY <1>1 DEF MarksExact, Members, GC_UNTRACKED, GC_TENTATIVELY_UNREACHABLE
        <2> QED
            BY <2>4, <2>5, ListsMeans
    <1>7. Alive
        BY KindAssumption DEF Alive
    <1>8. Stages
        BY <1>1 DEF Stages, Members
    <1>9. Copied /\ ReachableWalk /\ FinalizerWalk /\ Sealed
        BY DEF Copied, ReachableWalk, FinalizerWalk, Sealed
    <1> QED
        BY <1>4, <1>5, <1>6, <1>7, <1>8, <1>9 DEF IInv

\* in a step of something else,
LEMMA NothingHappens ==
    ASSUME IInv, UNCHANGED vars
    PROVE  IInv'
    <1>1. UNCHANGED <<ob_refcnt, gc_refs, field, wr_object, variables, garbage, generations, unreachable,
                      finalizers, wrcb_to_call, count, pc, generation, gc, trash, pending>>
        BY DEF vars, graph, holders, lists
    <1>2. TypeOK'
        BY <1>1 DEF IInv, TypeOK, FieldsOK
    <1>3. RefcountsExact'
        <2>1. Calling' = Calling /\ Clearing' = Clearing
            BY <1>1 DEF Calling, Clearing, Members
        <2> QED
            BY <1>1, <2>1, RefcountsMeans DEF IInv, CountsAgree
    <1>4. ListsExact'
        <2>1. MarksExact'
            BY <1>1, ListsMeans DEF IInv, MarksExact, Members, young
        <2> QED
            BY <1>1, <2>1, MarkStep DEF IInv, lists
    <1>5. Alive' /\ Stages' /\ Copied'
        BY <1>1 DEF IInv, Alive, Stages, Copied, Members, young
    <1>6. ReachableWalk'
        <2>1. /\ FromOutside' = FromOutside /\ Direct' = Direct
              /\ Members(young)' = Members(young)
            BY <1>1 DEF FromOutside, Direct, Inside, Members, young
        <2>2. At(young, gc, {o \in Object : gc_refs[o] = GC_REACHABLE})'
                <=> At(young, gc, {o \in Object : gc_refs[o] = GC_REACHABLE})
            BY <1>1 DEF At, young
        <2>3. \A n, o : (Found(o)' <=> Found(o)) /\ (Refers(n, o)' <=> Refers(n, o))
            BY <1>1 DEF Found, Refers, Members
        <2> QED
            BY <1>1, <2>1, <2>2, <2>3 DEF IInv, ReachableWalk
    <1>7. FinalizerWalk'
        BY <1>1 DEF IInv, FinalizerWalk, At, Avoids, Refers, Members
    <1>8. Sealed'
        BY <1>1, SealedUnchanged DEF IInv
    <1> QED
        BY <1>2, <1>3, <1>4, <1>5, <1>6, <1>7, <1>8 DEF IInv

\* and in each step of the program.
LEMMA EachStep ==
    ASSUME IInv, [Next]_vars
    PROVE  IInv'
    <1>1. CASE Client
        BY <1>1, NewStep, TrackStep, NewWeakrefStep, StoreStep, LoadStep, DropStep, PyGC_CollectStep DEF Client
    <1>2. CASE Cascade
        BY <1>2, DecrefStep, DeallocateStep, ResurrectStep DEF Cascade
    <1>3. CASE Collector
        BY <1>3, update_refsStep, subtract_refsStep, ReachedStep, SetAsideStep, move_finalizersStep,
           move_finalizer_reachableStep, ClearWeakrefsStep, CallbackStep, ReturnedStep, CalledStep,
           WeakrefsHandledStep, ClearStep, ClearedStep, DeletedStep, KeepUnclearedStep,
           handle_finalizersStep
           DEF Collector
    <1>4. CASE UNCHANGED vars
        BY <1>4, NothingHappens
    <1> QED
        BY <1>1, <1>2, <1>3, <1>4 DEF Next

\* Types, counts, lists and marks, the walks of a collection, and what its trash is
\* referred to by, in every reachable state.
THEOREM Invariant == Spec => []IInv
    <1>1. IInv /\ [Next]_vars => IInv'
        BY EachStep
    <1> QED
        BY Initially, <1>1, PTL DEF Spec

--------------------------------------------------------------------------------
(* What follows from it.                                                   *)

\* When the walk of move_unreachable is over, exactly what can be reached from outside is
\* left.
LEMMA WalkIsExact == IInv => ReachabilityExact
    <1> SUFFICES ASSUME IInv, pc = "move_unreachable"
                 PROVE  LET outside == FromOutside IN
                        /\ \A o \in Members(young) : gc_refs[o] # 0 => o \in outside
                        /\ \A o \in Members(young) : gc_refs[o] = GC_REACHABLE =>
                            \A n \in Range(References(o)) :
                                n \notin Members(unreachable) /\ (n \in Members(young) => gc_refs[n] # 0)
                        /\ gc = Nil => Members(unreachable) \cap outside = {}
                                       /\ Members(young) \subseteq outside
        BY DEF ReachabilityExact
    <1> DEFINE U == Members(unreachable)
    <1>1. /\ At(young, gc, {o \in Object : gc_refs[o] = GC_REACHABLE})
          /\ \A o \in Direct \ {Nil} : Found(o)
          /\ \A o \in Members(young) : gc_refs[o] # 0 => o \in FromOutside
          /\ \A n \in Members(young), o \in Object :
                gc_refs[n] = GC_REACHABLE /\ Refers(n, o) => Found(o)
        BY DEF IInv, ReachableWalk
    <1>2. FieldsOK(field) /\ \A o \in Members(young) : o \in Object
        BY WalkFacts, ListsElements DEF Members
    <1>3. ASSUME NEW o \in Members(young), gc_refs[o] = GC_REACHABLE, NEW n \in Range(References(o))
          PROVE  n \notin Members(unreachable) /\ (n \in Members(young) => gc_refs[n] # 0)
        <2>1. n \in Object /\ Refers(o, n)
            BY <1>2, <1>3, ReferencesFacts
        <2> QED
            BY <1>1, <1>3, <2>1 DEF Found
    <1>4. ASSUME gc = Nil
          PROVE  U \cap FromOutside = {} /\ Members(young) \subseteq FromOutside
        <2>1. \A o \in Members(young) : gc_refs[o] = GC_REACHABLE
            BY <1>1, <1>4 DEF At, Members
        <2>2. Members(young) \subseteq FromOutside
            BY <1>1, <2>1 DEF GC_REACHABLE
        <2>3. Direct \subseteq (Object \ U) \cup {Nil}
            BY <1>1, OutsideFacts DEF IInv, Found
        <2>4. ASSUME NEW n \in Object \ U, NEW i \in DOMAIN field[n], field[n][i] # Nil
              PROVE  field[n][i] \in Object \ U
            <3>1. PICK o : o = field[n][i]
                OBVIOUS
            <3>2. o \in Object /\ Refers(n, o)
                BY <1>2, <2>4, <3>1, FieldFacts DEF Refers
            <3>3. Found(o)
                <4>1. CASE n \in Members(young)
                    BY <1>1, <2>1, <3>2, <4>1
                <4>2. CASE n \notin Members(young)
                    <5>1. n \in Object \ Inside
                        BY <2>4, <4>2 DEF Inside
                    <5>2. o \in Direct
                        BY <3>2, <5>1, OutsideFacts DEF IInv
                    <5> QED
                        BY <1>1, <3>2, <5>2, NilIsNoObject
                <4> QED
                    BY <4>1, <4>2
            <3> QED
                BY <3>1, <3>2, <3>3 DEF Found
        <2>5. Closed(field, Object \ U)
            BY <2>4 DEF Closed
        <2>6. FromOutside \subseteq Object \ U
            <3>1. FromOutside = Reachable(Object, field, Direct)
                BY OutsideFacts DEF IInv
            <3> HIDE DEF U
            <3>2. Object \ U \in SUBSET Object
                OBVIOUS
            <3> QED
                BY <2>3, <2>5, <3>1, <3>2, ReachableIsLeast, Zenon
        <2> QED
            BY <2>2, <2>6
    <1> QED
        BY <1>1, <1>3, <1>4, Zenon

\* Counts, lists and marks agree throughout a collection, and it sets aside exactly the
\* objects that nothing outside its generation leads to (gcmodule.c).
THEOREM CollectorInvariantHolds == Spec => []CollectorInvariant
    <1>1. IInv => CollectorInvariant
        BY WalkIsExact DEF IInv, CollectorInvariant
    <1> QED
        BY Invariant, <1>1, PTL

\* The objects outside the trash are closed under references and weak references.
LEMMA TrashIsSealed == IInv => TrashIsOutOfReach
    <1> DEFINE U == Members(unreachable)
               D == Doomed
               graph2 == [o \in Object |-> IF o \in Weakref THEN <<wr_object[o]>> ELSE field[o]]
    <1> SUFFICES ASSUME IInv,
                        pc \in {"handle_weakrefs", "callback", "called", "delete_garbage", "clear", "cleared"}
                 PROVE  U \cap Reachable(Object, graph2, Held) = {}
        BY DEF TrashIsOutOfReach
    <1>1. /\ U \subseteq D
          /\ D \cap (variables \cup garbage) = {}
          /\ \A n \in Object \ D : Avoids(n, D)
          /\ \A w \in Weakref : wr_object[w] \notin D
        BY DEF IInv, Sealed, Spares
    <1>2. /\ FieldsOK(field) /\ wr_object \in [Weakref -> Object \cup {Nil}]
          /\ variables \subseteq Object /\ garbage \subseteq Object
          /\ wrcb_to_call \in Seq(Object)
        BY DEF IInv, TypeOK
    <1>3. pc = "callback" => gc \in Object \ D
        <2>1. Range(unreachable) \cap Range(wrcb_to_call) = {}
            BY ListsApart DEF IInv, Apart
        <2>2. pc = "callback" => gc \in Object /\ gc = First(wrcb_to_call)
            BY DEF IInv, Stages
        <2>3. pc = "callback" => gc \in Range(wrcb_to_call)
            BY <1>2, <2>2, FirstFacts, NilIsNoObject
        <2> QED
            BY <2>1, <2>2, <2>3 DEF Doomed, Members
    <1>4. Held \subseteq Object \ D
        <2>1. ASSUME NEW o \in Held
              PROVE  o \in Object \ D
            <3>1. CASE o \in variables \cup garbage
                BY <1>1, <1>2, <3>1
            <3>2. CASE o \notin variables \cup garbage
                <4>1. pc = "callback" /\ o \in {gc} \cup Range(References(gc))
                    BY <2>1, <3>2 DEF Held
                <4>2. CASE o = gc
                    BY <1>3, <4>1, <4>2
                <4>3. CASE o \in Range(References(gc))
                    <5>1. o \in Object /\ Refers(gc, o)
                        BY <1>2, <1>3, <4>1, <4>3, ReferencesFacts
                    <5> QED
                        BY <1>1, <1>3, <4>1, <5>1 DEF Avoids
                <4> QED
                    BY <4>1, <4>2, <4>3
            <3> QED
                BY <3>1, <3>2
        <2> QED
            BY <2>1
    <1>5. ASSUME NEW n \in Object \ D, NEW i \in DOMAIN graph2[n], graph2[n][i] # Nil
          PROVE  graph2[n][i] \in Object \ D
        <2>1. CASE n \in Weakref
            <3>1. graph2[n] = <<wr_object[n]>>
                BY <1>5, <2>1
            <3>2. graph2[n][i] = wr_object[n]
                BY <1>5, <3>1
            <3> QED
                BY <1>1, <1>2, <1>5, <2>1, <3>2
        <2>2. CASE n \notin Weakref
            <3>1. graph2[n] = field[n]
                BY <1>5, <2>2
            <3>2. PICK o : o = field[n][i]
                OBVIOUS
            <3>3. o \in Object /\ Refers(n, o)
                BY <1>2, <1>5, <3>1, <3>2, FieldFacts DEF Refers
            <3> QED
                BY <1>1, <1>5, <3>1, <3>2, <3>3 DEF Avoids
        <2> QED
            BY <2>1, <2>2
    <1> HIDE DEF graph2, U, D
    <1>6. Closed(graph2, Object \ D)
        BY <1>5 DEF Closed
    <1>7. Held \subseteq (Object \ D) \cup {Nil} /\ Object \ D \in SUBSET Object
        BY <1>4
    <1>8. Reachable(Object, graph2, Held) \subseteq Object \ D
        BY <1>6, <1>7, ReachableIsLeast, Zenon
    <1> QED
        BY <1>1, <1>8

\* Neither a callback nor __del__ can reach an object that the collector is about to
\* clear, over references or weak references (handle_weakrefs, delete_garbage).
THEOREM TrashStaysOutOfReach == Spec => []TrashIsOutOfReach
    <1> QED
        BY Invariant, TrashIsSealed, PTL

\* When delete_garbage ends, nothing that RefcountsExact counts refers to trash any more
\* but trash without a tp_clear.
LEMMA NoTrashIsLeft ==
    ASSUME IInv, [Next]_vars, pc = "delete_garbage", pc' = "python", NEW o \in Left
    PROVE  \E n \in Left \cap NoClear : o \in Range(References(n))
    <1>1. unreachable = <<>>
        <2>1. CASE Client
            BY <2>1 DEF Client, New, Track, NewWeakref, Store, Load, Drop, PyGC_Collect, Python
        <2>2. CASE Cascade
            BY <2>2 DEF Cascade, Decref, Deallocate, Resurrect
        <2>3. CASE Collector
            BY <2>3 DEF Collector, update_refs, subtract_refs, Reached, SetAside, move_finalizers,
                        move_finalizer_reachable, ClearWeakrefs, Callback, Returned, Called,
                        WeakrefsHandled, Clear, Cleared, Deleted, KeepUncleared, handle_finalizers
        <2>4. CASE UNCHANGED vars
            BY <2>4 DEF vars
        <2> QED
            BY <2>1, <2>2, <2>3, <2>4 DEF Next
    <1>2. Members(unreachable) = {} /\ wrcb_to_call = <<>> /\ pending = <<>> /\ pending \in Seq(Object)
        BY <1>1, EmptyLists DEF IInv, Stages, TypeOK, Lists, Members
    <1>3. /\ trash \subseteq Object
          /\ o \in trash /\ o \in Object /\ o \notin variables /\ o \notin garbage
          /\ \A n \in Object : n \in trash \cap NoClear \/ ~Refers(n, o)
        <2>1. Doomed = trash /\ o \in trash
            BY DEF Doomed, Left
        <2> QED
            BY <1>2, <2>1 DEF IInv, Sealed, Spares, Avoids
    <1>4. FieldsOK(field) /\ ob_refcnt \in [Object -> Nat] /\ ob_refcnt[o] > 0
        BY DEF IInv, TypeOK, Left
    <1>5. Range(<<>>) = {} /\ Calling = {} /\ Clearing = {}
        BY <1>2, EmptyLists DEF Lists, Calling, Clearing, Members
    <1>6. PICK n \in Object : Refers(n, o)
        <2> SUFFICES ASSUME \A n \in Object : ~Refers(n, o)
                     PROVE  FALSE
            OBVIOUS
        <2>1. CountTo(field, o, Object) = 0
            <3>1. ASSUME NEW n \in Object
                  PROVE  FieldsTo(field, n, o) = 0
                <4>1. \A i \in DOMAIN field[n] : field[n][i] # o
                    BY DEF Refers
                <4> QED
                    BY <1>4, <4>1, FieldsToFacts
            <3> QED
                BY <3>1, CountType
        <2>2. Total(field, variables, garbage, pending, Calling, Clearing, o) = 0
            <3>1. pending \in Seq(Object)
                BY <1>2
            <3>2. /\ o \notin variables /\ o \notin garbage /\ o \notin Range(pending)
                  /\ o \notin Calling /\ o \notin Clearing
                BY <1>2, <1>3, <1>5
            <3> QED
                BY <2>1, <3>1, <3>2, TotalNothing, Zenon
        <2>3. ob_refcnt[o] = 0
            BY <1>3, <2>2, RefcountsMeans DEF IInv, CountsAgree
        <2> QED
            BY <1>4, <2>3
    <1>7. n \in trash \cap NoClear
        BY <1>3, <1>6
    <1>8. ob_refcnt[n] > 0
        <2>1. field[n] # NoReferences(n)
            BY <1>3, <1>6, NoReferencesFacts, NilIsNoObject DEF Refers
        <2>2. ob_refcnt[n] # 0
            BY <1>6, <2>1 DEF IInv, Alive
        <2> QED
            BY <1>4, <1>6, <2>2
    <1>9. o \in Range(References(n))
        BY <1>3, <1>4, <1>6, ReferencesFacts DEF Refers
    <1> QED
        BY <1>7, <1>8, <1>9 DEF Left

\* When a collection ends, the objects that delete_garbage was given have been freed,
\* although no tp_clear frees them by itself; those that are left are each referred to
\* by one that is left and that has no tp_clear, so without a knot of such objects none is.
THEOREM AllTrashIsFreed == Spec => FreesAllTrash
    <1>1. IInv /\ [Next]_vars =>
            [pc = "delete_garbage" /\ pc' = "python" =>
                \A o \in Left : \E n \in Left \cap NoClear : o \in Range(References(n))]_vars
        BY NoTrashIsLeft
    <1> QED
        BY Invariant, <1>1, PTL DEF Spec, FreesAllTrash
================================================================================
