------------------------------ MODULE MiniGCProofs ------------------------------
(***************************************************************************)
(* What holds of MiniGC for every heap size, limit and set of requests:    *)
(* the blocks tile the heaps and the free list is every free block, in the *)
(* order of addresses, in the middle of every call as well; and a          *)
(* collection frees what the client cannot reach and nothing else.         *)
(*                                                                         *)
(* The facts are stated for headers h, so that they apply to the headers   *)
(* before a step, after it, and between the parts of mini_gc_free.         *)
(***************************************************************************)
EXTENDS MiniGC, Sequences, FiniteSetTheorems, SequenceTheorems,
        WellFoundedInduction, TLAPS

--------------------------------------------------------------------------------
(* The object graph.                                                       *)

\* What is closed and holds the roots holds everything reachable: this is why
\* a collector that keeps such a set takes back only garbage.
LEMMA ReachableIsLeast ==
    ASSUME NEW Nodes, NEW f, NEW R, NEW S \in SUBSET Nodes,
           R \subseteq S \cup {Nil}, Closed(f, S)
    PROVE  Reachable(Nodes, f, R) \subseteq S
    BY DEF Reachable

\* The roots are reachable.
LEMMA RootsAreReachable ==
    ASSUME NEW Nodes, NEW f, NEW R, R \subseteq Nodes \cup {Nil}
    PROVE  R \subseteq Reachable(Nodes, f, R) \cup {Nil}
    BY DEF Reachable

\* Following a reference from a reachable object leads to a reachable object.
LEMMA ReachableIsClosed ==
    ASSUME NEW Nodes, NEW f, NEW R, Closed(f, Nodes)
    PROVE  Closed(f, Reachable(Nodes, f, R))
    <1> SUFFICES ASSUME NEW n \in Reachable(Nodes, f, R),
                        NEW slot \in DOMAIN f[n], f[n][slot] # Nil
                 PROVE  f[n][slot] \in Reachable(Nodes, f, R)
        BY DEF Closed
    <1>1. n \in Nodes
        BY DEF Reachable
    <1>2. f[n][slot] \in Nodes
        BY <1>1 DEF Closed
    <1>3. ASSUME NEW S \in SUBSET Nodes, R \subseteq S \cup {Nil},
                 Closed(f, S)
          PROVE  f[n][slot] \in S
        <2>1. n \in S
            BY <1>3, ReachableIsLeast
        <2> QED
            BY <1>3, <2>1 DEF Closed
    <1> QED
        BY <1>2, <1>3 DEF Reachable

--------------------------------------------------------------------------------
(* Searches and stacks.                                                    *)

\* A set of natural numbers that is not empty has a least element.
LEMMA LeastElement ==
    ASSUME NEW T \in SUBSET Nat, T # {}
    PROVE  \E m \in T : \A k \in T : m <= k
    <1> DEFINE R == StrictSubsetOrdering(Nat)
               Up == {0..m : m \in T}
    <1>1. Up \subseteq FiniteSubsetsOf(Nat) /\ Up # {}
        <2>1. ASSUME NEW m \in T
              PROVE  0..m \in SUBSET Nat /\ IsFiniteSet(0..m)
            <3>1. 0 \in Int /\ m \in Int
                OBVIOUS
            <3>2. IsFiniteSet(0..m)
                BY <3>1, FS_Interval, Zenon
            <3> QED
                BY <3>2
        <2> QED
            BY <2>1, Zenon DEF FiniteSubsetsOf
    <1>2. IsWellFoundedOn(R, FiniteSubsetsOf(Nat))
        BY FS_StrictSubsetOrderingWellFounded
    <1>3. PICK x \in Up : \A y \in Up : <<y, x>> \notin R
        BY <1>1, <1>2, WFMin
    <1>4. PICK m \in T : x = 0..m
        BY <1>3
    <1>5. ASSUME NEW k \in T, k < m
          PROVE  FALSE
        <2>1. 0..k \in SUBSET Nat /\ 0..m \in SUBSET Nat
            OBVIOUS
        <2>2. 0..k \subseteq 0..m /\ m \in 0..m /\ m \notin 0..k
            BY <1>5
        <2>3. <<0..k, 0..m>> \in R
            BY <2>1, <2>2 DEF StrictSubsetOrdering
        <2> QED
            BY <1>3, <1>4, <2>3
    <1> QED
        BY <1>5

--------------------------------------------------------------------------------

Header == [flags : {"free", "alloc", "marked", "merged"}, size : Nat, next_free : Nat]
Heap == [slot : Nat \ {0}, size : Nat]

\* What Block, Free and NEXT_HEADER are for the headers h.
BlocksOf(h) == {a \in DOMAIN h : h[a].flags # "merged"}
FreeOf(h) == {a \in BlocksOf(h) : h[a].flags = "free"}
MergedOf(h) == DOMAIN h \ BlocksOf(h)
EndOf(h, a) == a + HEADER_SIZE + h[a].size
TopOf(heap) == heap.slot + HEADER_SIZE + heap.size

Typed(h) == DOMAIN h \subseteq Nat \ {0} /\ \A a \in DOMAIN h : h[a] \in Header

HeapsInOrder(heaps) ==
    /\ heaps \in Seq(Heap)
    /\ \A k, l \in DOMAIN heaps : k < l => TopOf(heaps[k]) < heaps[l].slot

\* The block a lies in the heap and ends where the heap or another block begins.
Within(h, a, heap) ==
    /\ heap.slot <= a
    /\ EndOf(h, a) <= TopOf(heap)
    /\ EndOf(h, a) \in BlocksOf(h) \/ EndOf(h, a) = TopOf(heap)

Tiled(h, heaps) ==
    /\ \A k \in DOMAIN heaps : heaps[k].slot \in BlocksOf(h)
    /\ \A a \in BlocksOf(h) : \E k \in DOMAIN heaps : Within(h, a, heaps[k])
    /\ \A a, b \in BlocksOf(h) : a < b => EndOf(h, a) <= b

\* n is what the circular list of F, in the order of addresses, has after a.
Follows(a, n, F) ==
    /\ n \in F
    /\ IF \A b \in F : b <= a THEN \A b \in F : n <= b
       ELSE a < n /\ \A b \in F : a < b => n <= b

Linked(h, F) == \A a \in F : Follows(a, h[a].next_free, F)

\* A search that goes on from a header that a merge has swallowed meets no other
\* than such headers and free blocks.
LinksLead(h) ==
    \A a \in FreeOf(h) \cup MergedOf(h) : h[a].next_free \in FreeOf(h) \cup MergedOf(h)

Adjacent(h) == {a \in FreeOf(h) : EndOf(h, a) \in FreeOf(h)}

Intact(h, heaps) ==
    Typed(h) /\ Tiled(h, heaps) /\ Linked(h, FreeOf(h)) /\ LinksLead(h)

\* Where a call is.
Position ==
    /\ pc \in {"run", "search", "sweep", "abort", "corrupt"}
    /\ pc = "run" => MergedOf(header) = {} /\ request = 0
    /\ pc = "search" =>
        {p, prevp} \subseteq FreeOf(header) \cup MergedOf(header) /\ NextFree(prevp) = p
    /\ pc = "sweep" =>
        /\ i \in DOMAIN gc_heaps
        /\ gc_heaps[i].slot <= cur
        /\ cur \in Block \/ cur = TopOf(gc_heaps[i])
        /\ request # 0 => p \in FreeOf(header) \cup MergedOf(header)
    /\ pc \in {"search", "sweep"} => gc_heaps # <<>>

IInv ==
    /\ HeapsInOrder(gc_heaps)
    /\ Intact(header, gc_heaps)
    /\ Adjacent(header) = {}
    /\ IF free_list = Nil THEN gc_heaps = <<>> ELSE free_list \in Free
    /\ DOMAIN word = InUse
    /\ request \in Nat
    /\ Position

--------------------------------------------------------------------------------
(* Sets of addresses and circular lists of them.                           *)

\* The greatest element below a bound.
LEMMA GreatestBelow ==
    ASSUME NEW F \in SUBSET Nat, NEW t \in Nat, \E c \in F : c < t
    PROVE  \E m \in F : m < t /\ \A c \in F : c < t => c <= m
    <1> DEFINE Bound == {u \in Nat : \A c \in F : c < t => c <= u}
    <1>1. Bound \in SUBSET Nat /\ t \in Bound
        OBVIOUS
    <1>2. PICK u \in Bound : \A v \in Bound : u <= v
        BY <1>1, LeastElement
    <1>3. u \in Nat /\ \A c \in F : c < t => c <= u
        BY <1>2
    <1>4. CASE u = 0
        BY <1>3, <1>4
    <1>5. CASE u # 0
        <2>1. u - 1 \in Nat /\ u - 1 \notin Bound
            BY <1>2, <1>3, <1>5
        <2>2. PICK c \in F : c < t /\ ~(c <= u - 1)
            BY <2>1
        <2>3. c = u
            BY <1>3, <2>2
        <2> QED
            BY <1>3, <2>2, <2>3
    <1> QED
        BY <1>4, <1>5

\* A block has one successor and one predecessor in the list.
LEMMA FollowsUnique ==
    ASSUME NEW F \in SUBSET Nat, NEW a \in F, NEW b \in F
    PROVE  /\ \A m, n : Follows(a, m, F) /\ Follows(a, n, F) => m = n
           /\ \A n : Follows(a, n, F) /\ Follows(b, n, F) => a = b
    <1>1. ASSUME NEW m, NEW n, Follows(a, m, F), Follows(a, n, F)
          PROVE  m = n
        <2>1. m \in F /\ n \in F
            BY <1>1 DEF Follows
        <2>2. m <= n /\ n <= m
            BY <1>1, <2>1 DEF Follows
        <2> QED
            BY <2>1, <2>2
    <1>2. ASSUME NEW n, Follows(a, n, F), Follows(b, n, F)
          PROVE  a = b
        <2>1. n \in F
            BY <1>2 DEF Follows
        <2>2. CASE \A c \in F : c <= a
            <3>1. n <= b /\ b <= a
                BY <1>2, <2>2 DEF Follows
            <3>2. \A c \in F : c <= b
                BY <1>2, <2>1, <3>1 DEF Follows
            <3> QED
                BY <3>1, <3>2
        <2>3. CASE ~(\A c \in F : c <= a)
            <3>1. a < n /\ \A c \in F : a < c => n <= c
                BY <1>2, <2>3 DEF Follows
            <3>2. ~(\A c \in F : c <= b)
                <4>1. SUFFICES ASSUME \A c \in F : c <= b
                               PROVE  FALSE
                    OBVIOUS
                <4>2. n <= a
                    BY <1>2, <4>1 DEF Follows
                <4> QED
                    BY <2>1, <3>1, <4>2
            <3>3. b < n /\ \A c \in F : b < c => n <= c
                BY <1>2, <3>2 DEF Follows
            <3> QED
                BY <2>1, <3>1, <3>3
        <2> QED
            BY <2>2, <2>3
    <1> QED
        BY <1>1, <1>2

\* A block is its own successor only when it is the only one.
LEMMA FollowsItself ==
    ASSUME NEW F \in SUBSET Nat, NEW a \in F, Follows(a, a, F)
    PROVE  F = {a}
    <1>1. \A b \in F : b <= a
        BY DEF Follows
    <1>2. \A b \in F : a <= b
        BY <1>1 DEF Follows
    <1>3. \A b \in F : b = a
        BY <1>1, <1>2
    <1> QED
        BY <1>3

\* Taking b out of the list behind a.
LEMMA TakenOut ==
    ASSUME NEW h, NEW g, NEW F \in SUBSET Nat, Linked(h, F),
           NEW a \in F, NEW b \in F \ {a},
           h[a].next_free = b,
           g[a].next_free = h[b].next_free,
           \A x \in F \ {a, b} : g[x].next_free = h[x].next_free
    PROVE  Linked(g, F \ {b})
    <1> DEFINE G == F \ {b}
               n == h[b].next_free
    <1>1. Follows(a, b, F) /\ Follows(b, n, F)
        BY DEF Linked
    <1>2. n \in G
        <2>1. n # b
            <3>1. SUFFICES ASSUME Follows(b, b, F)
                           PROVE  FALSE
                BY <1>1
            <3>2. F = {b}
                BY <3>1, FollowsItself
            <3> QED
                BY <3>2
        <2> QED
            BY <1>1, <2>1 DEF Follows
    <1> HIDE DEF n
    <1>3. Follows(a, n, G)
        <2>1. CASE \A c \in F : c <= a
            <3>1. b < a /\ \A c \in F : b <= c
                BY <1>1, <2>1 DEF Follows
            <3>2. b < n /\ \A c \in F : b < c => n <= c
                BY <1>1, <3>1 DEF Follows
            <3>3. \A c \in G : n <= c
                BY <3>1, <3>2
            <3> QED
                BY <1>2, <2>1, <3>3 DEF Follows
        <2>2. CASE ~(\A c \in F : c <= a)
            <3>1. a < b /\ \A c \in F : a < c => b <= c
                BY <1>1, <2>2 DEF Follows
            <3>2. CASE \A c \in F : c <= b
                <4>1. \A c \in F : n <= c
                    BY <1>1, <3>2 DEF Follows
                <4>2. \A c \in G : c <= a
                    BY <3>1, <3>2
                <4> QED
                    BY <1>2, <4>1, <4>2 DEF Follows
            <3>3. CASE ~(\A c \in F : c <= b)
                <4>1. b < n /\ \A c \in F : b < c => n <= c
                    BY <1>1, <3>3 DEF Follows
                <4>2. n \in F /\ a < n
                    BY <1>2, <3>1, <4>1
                <4>3. \A c \in G : a < c => n <= c
                    BY <3>1, <4>1
                <4> QED
                    BY <1>2, <4>2, <4>3 DEF Follows
            <3> QED
                BY <3>2, <3>3
        <2> QED
            BY <2>1, <2>2
    <1>4. ASSUME NEW x \in F \ {a, b}
          PROVE  Follows(x, h[x].next_free, G)
        <2> DEFINE y == h[x].next_free
        <2>1. Follows(x, y, F)
            BY DEF Linked
        <2>2. y # b
            BY <1>1, <2>1, FollowsUnique
        <2>3. y \in G
            BY <2>1, <2>2 DEF Follows
        <2> HIDE DEF y
        <2>4. CASE \A c \in F : c <= x
            <3>1. \A c \in F : y <= c
                BY <2>1, <2>4 DEF Follows
            <3> QED
                BY <2>3, <2>4, <3>1 DEF Follows, y
        <2>5. CASE ~(\A c \in F : c <= x)
            <3>1. x < y /\ \A c \in F : x < c => y <= c
                BY <2>1, <2>5 DEF Follows
            <3>2. ~(\A c \in G : c <= x)
                BY <2>3, <3>1
            <3> QED
                BY <2>3, <3>1, <3>2 DEF Follows, y
        <2> QED
            BY <2>4, <2>5
    <1> QED
        BY <1>3, <1>4 DEF Linked, n

\* Putting t into the list where mini_gc_free's search stops.
LEMMA PutIn ==
    ASSUME NEW h, NEW g, NEW F \in SUBSET Nat, Linked(h, F),
           NEW hit \in F, NEW t \in Nat \ F,
           LET up == h[hit].next_free IN
               \/ hit < t /\ t < up
               \/ hit >= up /\ (t > hit \/ t < up),
           g[hit].next_free = t,
           g[t].next_free = h[hit].next_free,
           \A x \in F \ {hit} : g[x].next_free = h[x].next_free
    PROVE  Linked(g, F \cup {t})
    <1> DEFINE G == F \cup {t}
               up == h[hit].next_free
    <1>1. Follows(hit, up, F) /\ up \in F
        BY DEF Linked, Follows
    <1> HIDE DEF up
    <1>2. CASE hit < t /\ t < up
        <2>1. \A c \in F : hit < c => up <= c
            BY <1>1, <1>2 DEF Follows
        <2>2. Follows(hit, t, G)
            <3>1. \A c \in G : hit < c => t <= c
                BY <1>1, <1>2, <2>1
            <3> QED
                BY <1>2, <3>1 DEF Follows
        <2>3. Follows(t, up, G)
            <3>1. \A c \in G : t < c => up <= c
                BY <1>1, <1>2, <2>1
            <3> QED
                BY <1>1, <1>2, <3>1 DEF Follows
        <2>4. ASSUME NEW x \in F \ {hit}
              PROVE  Follows(x, h[x].next_free, G)
            <3> DEFINE y == h[x].next_free
            <3>1. Follows(x, y, F) /\ y \in F
                BY DEF Linked, Follows
            <3> HIDE DEF y
            <3>2. CASE \A c \in F : c <= x
                <4>1. \A c \in F : y <= c
                    BY <3>1, <3>2 DEF Follows
                <4>2. \A c \in G : c <= x
                    BY <1>1, <1>2, <3>2
                <4>3. \A c \in G : y <= c
                    BY <1>2, <3>1, <4>1
                <4> QED
                    BY <3>1, <4>2, <4>3 DEF Follows, y
            <3>3. CASE ~(\A c \in F : c <= x)
                <4>1. x < y /\ \A c \in F : x < c => y <= c
                    BY <3>1, <3>3 DEF Follows
                <4>2. ASSUME x < t
                      PROVE  y <= t
                    <5>1. ~(up <= x)
                        BY <1>1, <1>2, <4>2
                    <5>2. x < hit
                        BY <1>1, <2>1, <5>1
                    <5>3. y <= hit
                        BY <4>1, <5>2
                    <5>4. y \in Nat /\ hit \in Nat /\ t \in Nat
                        BY <3>1
                    <5> QED
                        BY <1>2, <5>3, <5>4
                <4>3. \A c \in G : x < c => y <= c
                    BY <4>1, <4>2
                <4>4. y \in G /\ ~(\A c \in G : c <= x)
                    BY <3>1, <4>1
                <4> QED
                    BY <4>1, <4>3, <4>4 DEF Follows, y
            <3> QED
                BY <3>2, <3>3
        <2> QED
            BY <2>2, <2>3, <2>4 DEF Linked, up
    <1>3. CASE hit >= up /\ (t > hit \/ t < up)
        <2>1. (\A c \in F : c <= hit) /\ (\A c \in F : up <= c)
            BY <1>1, <1>3 DEF Follows
        <2>2. Follows(hit, t, G)
            <3>1. CASE t > hit
                <4>1. \A c \in G : hit < c => t <= c
                    BY <2>1
                <4> QED
                    BY <3>1, <4>1 DEF Follows
            <3>2. CASE t < up
                <4>1. (\A c \in G : c <= hit) /\ (\A c \in G : t <= c)
                    BY <1>1, <1>3, <2>1, <3>2
                <4> QED
                    BY <4>1 DEF Follows
            <3> QED
                BY <1>3, <3>1, <3>2
        <2>3. Follows(t, up, G)
            <3>1. CASE t > hit
                <4>1. (\A c \in G : c <= t) /\ (\A c \in G : up <= c)
                    BY <1>1, <1>3, <2>1, <3>1
                <4> QED
                    BY <1>1, <4>1 DEF Follows
            <3>2. CASE t < up
                <4>1. \A c \in G : t < c => up <= c
                    BY <2>1
                <4> QED
                    BY <1>1, <3>2, <4>1 DEF Follows
            <3> QED
                BY <1>3, <3>1, <3>2
        <2>4. ASSUME NEW x \in F \ {hit}
              PROVE  Follows(x, h[x].next_free, G)
            <3> DEFINE y == h[x].next_free
            <3>1. Follows(x, y, F) /\ y \in F
                BY DEF Linked, Follows
            <3> HIDE DEF y
            <3>2. x < hit /\ up <= x
                BY <2>1
            <3>3. x < y /\ \A c \in F : x < c => y <= c
                BY <3>1, <3>2 DEF Follows
            <3>4. x < t => y <= t
                BY <1>1, <1>3, <2>1, <3>1, <3>2, <3>3
            <3>5. \A c \in G : x < c => y <= c
                BY <3>3, <3>4
            <3>6. y \in G /\ ~(\A c \in G : c <= x)
                BY <3>1, <3>3
            <3> QED
                BY <3>3, <3>5, <3>6 DEF Follows, y
        <2> QED
            BY <2>2, <2>3, <2>4 DEF Linked, up
    <1> QED
        BY <1>2, <1>3 DEF up

\* The search for a place stops somewhere.
LEMMA PlaceExists ==
    ASSUME NEW h, NEW F \in SUBSET Nat, Linked(h, F), F # {},
           NEW t \in Nat \ F, NEW top \in Nat, \A c \in F : c < top
    PROVE  \E hit \in F : LET up == h[hit].next_free IN
               \/ hit < t /\ t < up
               \/ hit >= up /\ (t > hit \/ t < up)
    <1>1. CASE \E c \in F : c < t
        <2>1. PICK m \in F : m < t /\ \A c \in F : c < t => c <= m
            BY <1>1, GreatestBelow
        <2> DEFINE up == h[m].next_free
        <2>2. Follows(m, up, F) /\ up \in F
            BY DEF Linked, Follows
        <2> HIDE DEF up
        <2>3. CASE \A c \in F : c <= m
            <3>1. up <= m
                BY <2>2, <2>3 DEF Follows
            <3> QED
                BY <2>1, <2>2, <3>1 DEF up
        <2>4. CASE ~(\A c \in F : c <= m)
            <3>1. m < up
                BY <2>2, <2>4 DEF Follows
            <3>2. t < up
                BY <2>1, <2>2, <3>1
            <3> QED
                BY <2>1, <3>2 DEF up
        <2> QED
            BY <2>3, <2>4
    <1>2. CASE ~(\E c \in F : c < t)
        <2>1. \E c \in F : c < top
            OBVIOUS
        <2>2. PICK m \in F : m < top /\ \A c \in F : c < top => c <= m
            BY <2>1, GreatestBelow
        <2> DEFINE up == h[m].next_free
        <2>3. Follows(m, up, F) /\ up \in F
            BY DEF Linked, Follows
        <2> HIDE DEF up
        <2>4. up <= m
            BY <2>2, <2>3
        <2>5. t < up
            BY <1>2, <2>3
        <2> QED
            BY <2>3, <2>4, <2>5 DEF up
    <1> QED
        BY <1>1, <1>2

--------------------------------------------------------------------------------
(* Blocks in heaps.                                                        *)

\* The blocks are blocks, the free ones free: nothing but other names.
LEMMA Names ==
    /\ Block = BlocksOf(header) /\ Free = FreeOf(header)
    /\ InUse = BlocksOf(header) \ FreeOf(header)
    /\ \A a : NEXT_HEADER(a) = EndOf(header, a)
    /\ \A k : HeapEnd(k) = TopOf(gc_heaps[k])
    BY DEF Block, BlocksOf, Free, FreeOf, InUse, NEXT_HEADER, EndOf, Size, HeapEnd, TopOf

LEMMA TypesOfBlocks ==
    ASSUME NEW h, Typed(h)
    PROVE  /\ BlocksOf(h) \in SUBSET Nat /\ FreeOf(h) \subseteq BlocksOf(h)
           /\ MergedOf(h) \in SUBSET Nat /\ Nil \notin DOMAIN h
           /\ BlocksOf(h) \subseteq DOMAIN h /\ BlocksOf(h) \cap MergedOf(h) = {}
           /\ \A a \in DOMAIN h : /\ a \in Nat \ {0} /\ h[a].size \in Nat /\ h[a].next_free \in Nat
                                  /\ EndOf(h, a) \in Nat /\ a < EndOf(h, a)
    <1>1. \A a \in DOMAIN h : a \in Nat \ {0} /\ h[a].size \in Nat /\ h[a].next_free \in Nat
        BY DEF Typed, Header
    <1>2. \A a \in DOMAIN h : EndOf(h, a) \in Nat /\ a < EndOf(h, a)
        BY <1>1 DEF EndOf, HEADER_SIZE
    <1> QED
        BY <1>1, <1>2 DEF BlocksOf, FreeOf, MergedOf, Nil

LEMMA TypesOfHeaps ==
    ASSUME NEW heaps, HeapsInOrder(heaps)
    PROVE  /\ Len(heaps) \in Nat /\ DOMAIN heaps = 1..Len(heaps)
           /\ \A k \in DOMAIN heaps :
                /\ heaps[k].slot \in Nat \ {0} /\ heaps[k].size \in Nat
                /\ TopOf(heaps[k]) \in Nat /\ heaps[k].slot < TopOf(heaps[k])
                /\ heaps[k].slot + heaps[k].size < TopOf(heaps[k])
    <1>1. Len(heaps) \in Nat /\ DOMAIN heaps = 1..Len(heaps)
        BY LenProperties DEF HeapsInOrder
    <1>2. ASSUME NEW k \in DOMAIN heaps
          PROVE  heaps[k] \in Heap
        BY <1>1, <1>2, ElementOfSeq DEF HeapsInOrder
    <1>3. \A k \in DOMAIN heaps : heaps[k].slot \in Nat \ {0} /\ heaps[k].size \in Nat
        BY <1>2 DEF Heap
    <1> QED
        BY <1>1, <1>3 DEF TopOf, HEADER_SIZE

\* A block lies in one heap, which is the one it begins in; it ends in that heap.
LEMMA OneHeap ==
    ASSUME NEW h, NEW heaps, Typed(h), HeapsInOrder(heaps), Tiled(h, heaps),
           NEW a \in BlocksOf(h), NEW k \in DOMAIN heaps,
           heaps[k].slot <= a, a < TopOf(heaps[k])
    PROVE  Within(h, a, heaps[k])
    <1>1. PICK l \in DOMAIN heaps : Within(h, a, heaps[l])
        BY DEF Tiled
    <1>2. k \in Nat /\ l \in Nat
        BY TypesOfHeaps
    <1>3. heaps[l].slot <= a /\ a < TopOf(heaps[l])
        <2>1. a \in Nat /\ EndOf(h, a) \in Nat /\ a < EndOf(h, a)
            BY TypesOfBlocks
        <2>2. TopOf(heaps[l]) \in Nat
            BY TypesOfHeaps
        <2> QED
            BY <1>1, <2>1, <2>2 DEF Within
    <1>4. a \in Nat /\ heaps[k].slot \in Nat /\ heaps[l].slot \in Nat
          /\ TopOf(heaps[k]) \in Nat /\ TopOf(heaps[l]) \in Nat
        BY TypesOfBlocks, TypesOfHeaps
    <1>5. ~(k < l)
        <2>1. k < l => TopOf(heaps[k]) < heaps[l].slot
            BY DEF HeapsInOrder
        <2> QED
            BY <1>3, <1>4, <2>1
    <1>6. ~(l < k)
        <2>1. l < k => TopOf(heaps[l]) < heaps[k].slot
            BY DEF HeapsInOrder
        <2> QED
            BY <1>3, <1>4, <2>1
    <1>7. k = l
        BY <1>2, <1>5, <1>6
    <1> QED
        BY <1>1, <1>7

\* The block that begins where another ends lies in the same heap, and not at its
\* start.
LEMMA Neighbours ==
    ASSUME NEW h, NEW heaps, Typed(h), HeapsInOrder(heaps), Tiled(h, heaps),
           NEW a \in BlocksOf(h), EndOf(h, a) \in BlocksOf(h)
    PROVE  /\ \A k \in DOMAIN heaps : Within(h, a, heaps[k]) => Within(h, EndOf(h, a), heaps[k])
           /\ \A k \in DOMAIN heaps : heaps[k].slot # EndOf(h, a)
           /\ \A b \in BlocksOf(h) : EndOf(h, b) = EndOf(h, a) => b = a
    <1> DEFINE b == EndOf(h, a)
    <1>1. a \in Nat /\ b \in Nat /\ a < b
        BY TypesOfBlocks
    <1>2. b \in BlocksOf(h)
        OBVIOUS
    <1>3. PICK j \in DOMAIN heaps : Within(h, b, heaps[j])
        BY <1>2 DEF Tiled
    <1> HIDE DEF b
    <1>4. \A k \in DOMAIN heaps : heaps[k].slot \in Nat /\ TopOf(heaps[k]) \in Nat /\ k \in Nat
                                  /\ heaps[k].slot < TopOf(heaps[k])
        BY TypesOfHeaps
    <1>5. \A k, l \in DOMAIN heaps : k < l => TopOf(heaps[k]) < heaps[l].slot
        BY DEF HeapsInOrder
    <1>6. heaps[j].slot <= b /\ b < TopOf(heaps[j])
        <2>1. EndOf(h, b) \in Nat /\ b < EndOf(h, b)
            BY <1>2, TypesOfBlocks
        <2> QED
            BY <1>1, <1>3, <1>4, <2>1 DEF Within
    <1>7. ASSUME NEW k \in DOMAIN heaps, Within(h, a, heaps[k])
          PROVE  k = j
        <2>1. heaps[k].slot <= a /\ b <= TopOf(heaps[k])
            BY <1>7 DEF Within, b
        <2>2. ~(k < j)
            BY <1>1, <1>4, <1>5, <1>6, <2>1
        <2>3. ~(j < k)
            BY <1>1, <1>4, <1>5, <1>6, <2>1
        <2> QED
            BY <1>4, <2>2, <2>3
    <1>8. ASSUME NEW l \in DOMAIN heaps, heaps[l].slot = b
          PROVE  FALSE
        <2>1. PICK k \in DOMAIN heaps : Within(h, a, heaps[k])
            BY DEF Tiled
        <2>2. heaps[k].slot <= a /\ b <= TopOf(heaps[k])
            BY <2>1 DEF Within, b
        <2>3. ~(k < l) /\ k # l
            BY <1>1, <1>4, <1>5, <1>8, <2>2
        <2>4. ~(l < k)
            BY <1>1, <1>4, <1>5, <1>8, <2>2
        <2> QED
            BY <1>4, <2>3, <2>4
    <1>9. ASSUME NEW c \in BlocksOf(h), EndOf(h, c) = b
          PROVE  c = a
        <2>1. c \in Nat /\ c < b
            BY <1>9, TypesOfBlocks
        <2>2. ~(c < a) /\ ~(a < c)
            BY <1>1, <1>9, <2>1 DEF Tiled, b
        <2> QED
            BY <1>1, <2>1, <2>2
    <1> QED
        BY <1>3, <1>7, <1>8, <1>9 DEF b

\* All blocks lie below the top of the last heap.
LEMMA BelowTop ==
    ASSUME NEW h, NEW heaps, Typed(h), HeapsInOrder(heaps), Tiled(h, heaps),
           NEW a \in BlocksOf(h)
    PROVE  heaps # <<>> /\ EndOf(h, a) <= TopOf(heaps[Len(heaps)])
    <1>1. PICK k \in DOMAIN heaps : Within(h, a, heaps[k])
        BY DEF Tiled
    <1>2. k \in 1..Len(heaps) /\ Len(heaps) \in Nat /\ Len(heaps) \in DOMAIN heaps
        BY TypesOfHeaps
    <1>3. EndOf(h, a) \in Nat /\ TopOf(heaps[k]) \in Nat /\ TopOf(heaps[Len(heaps)]) \in Nat
          /\ heaps[Len(heaps)].slot \in Nat /\ heaps[Len(heaps)].slot < TopOf(heaps[Len(heaps)])
        BY <1>2, TypesOfBlocks, TypesOfHeaps
    <1>4. EndOf(h, a) <= TopOf(heaps[k])
        BY <1>1 DEF Within
    <1>5. k < Len(heaps) => TopOf(heaps[k]) < heaps[Len(heaps)].slot
        BY <1>2 DEF HeapsInOrder
    <1>6. TopOf(heaps[k]) <= TopOf(heaps[Len(heaps)])
        BY <1>2, <1>3, <1>5
    <1> QED
        BY <1>2, <1>3, <1>4, <1>6

--------------------------------------------------------------------------------
(* What the parts of the calls do to the blocks and to the list.           *)

\* Marking, and what else changes neither the blocks nor which are free.
LEMMA SameBlocks ==
    ASSUME NEW h, NEW g, NEW heaps, Typed(h), Tiled(h, heaps), Linked(h, FreeOf(h)), Typed(g),
           BlocksOf(g) = BlocksOf(h), FreeOf(g) = FreeOf(h),
           MergedOf(g) = {} \/ (MergedOf(g) = MergedOf(h) /\ LinksLead(h)),
           \A a \in BlocksOf(h) : g[a].size = h[a].size,
           \A a \in FreeOf(h) \cup MergedOf(g) : g[a].next_free = h[a].next_free
    PROVE  Intact(g, heaps) /\ Adjacent(g) = Adjacent(h)
    <1>1. FreeOf(h) \subseteq BlocksOf(h)
        BY TypesOfBlocks
    <1>2. \A a \in BlocksOf(h) : EndOf(g, a) = EndOf(h, a)
        BY DEF EndOf
    <1>3. Tiled(g, heaps)
        <2>1. Tiled(h, heaps)
            OBVIOUS
        <2>2. ASSUME NEW a \in BlocksOf(g)
              PROVE  \E k \in DOMAIN heaps : Within(g, a, heaps[k])
            <3>1. PICK k \in DOMAIN heaps : Within(h, a, heaps[k])
                BY <2>1 DEF Tiled
            <3>2. Within(g, a, heaps[k])
                BY <1>2, <3>1 DEF Within
            <3> QED
                BY <3>2
        <2>3. \A a, b \in BlocksOf(g) : a < b => EndOf(g, a) <= b
            BY <1>2, <2>1 DEF Tiled
        <2>4. \A k \in DOMAIN heaps : heaps[k].slot \in BlocksOf(g)
            BY <2>1 DEF Tiled
        <2> QED
            BY <2>2, <2>3, <2>4 DEF Tiled
    <1>4. Linked(g, FreeOf(g))
        BY DEF Linked
    <1>5. LinksLead(g)
        <2>1. CASE MergedOf(g) = MergedOf(h) /\ LinksLead(h)
            BY <2>1 DEF LinksLead
        <2>2. CASE MergedOf(g) = {}
            BY <1>4, <2>2 DEF LinksLead, Linked, Follows
        <2> QED
            BY <2>1, <2>2
    <1>6. Adjacent(g) = Adjacent(h)
        BY <1>1, <1>2 DEF Adjacent
    <1> QED
        BY <1>3, <1>4, <1>5, <1>6 DEF Intact

\* The end of a call: the swallowed headers are forgotten.
LEMMA Forgotten ==
    ASSUME NEW h, NEW heaps, Typed(h), Tiled(h, heaps), Linked(h, FreeOf(h))
    PROVE  LET g == WithoutMerged(h) IN
           /\ Intact(g, heaps) /\ Adjacent(g) = Adjacent(h)
           /\ BlocksOf(g) = BlocksOf(h) /\ FreeOf(g) = FreeOf(h) /\ MergedOf(g) = {}
    <1> DEFINE g == WithoutMerged(h)
    <1>1. DOMAIN g = BlocksOf(h) /\ \A a \in BlocksOf(h) : g[a] = h[a]
        BY DEF WithoutMerged, BlocksOf
    <1>2. BlocksOf(h) \subseteq DOMAIN h /\ FreeOf(h) \subseteq BlocksOf(h)
          /\ \A a \in BlocksOf(h) : h[a].flags # "merged"
        BY DEF BlocksOf, FreeOf
    <1> HIDE DEF g
    <1>3. Typed(g)
        BY <1>1, <1>2 DEF Typed
    <1>4. BlocksOf(g) = BlocksOf(h)
        BY <1>1, <1>2 DEF BlocksOf
    <1>5. FreeOf(g) = FreeOf(h)
        BY <1>1, <1>4 DEF FreeOf
    <1>6. MergedOf(g) = {}
        BY <1>1, <1>4 DEF MergedOf
    <1>7. Intact(g, heaps) /\ Adjacent(g) = Adjacent(h)
        BY <1>1, <1>2, <1>3, <1>4, <1>5, <1>6, SameBlocks
    <1> QED
        BY <1>4, <1>5, <1>6, <1>7 DEF g

\* A merge of mini_gc_free: a takes in b, which begins where a ends.
Merged(h, a, b) ==
    [x \in DOMAIN h |->
        IF x = a THEN [flags |-> "free", size |-> h[a].size + h[b].size + HEADER_SIZE,
                       next_free |-> h[b].next_free]
        ELSE IF x = b THEN [h[b] EXCEPT !.flags = "merged"]
        ELSE h[x]]

\* A free block and the next one in the list, which begins where it ends, become
\* one; the second is "merged" from now on.
LEMMA MergeKeeps ==
    ASSUME NEW h, NEW heaps, HeapsInOrder(heaps), Intact(h, heaps),
           NEW a \in FreeOf(h), NEW b \in FreeOf(h),
           h[a].next_free = b, EndOf(h, a) = b
    PROVE  LET g == Merged(h, a, b) IN
           /\ Intact(g, heaps)
           /\ BlocksOf(g) = BlocksOf(h) \ {b} /\ FreeOf(g) = FreeOf(h) \ {b}
           /\ MergedOf(g) = MergedOf(h) \cup {b}
           /\ EndOf(g, a) = EndOf(h, b)
           /\ \A c \in Adjacent(g) : IF c = a THEN b \in Adjacent(h) ELSE c \in Adjacent(h) \ {b}
    <1> DEFINE g == Merged(h, a, b)
    <1>1. Typed(h) /\ Tiled(h, heaps) /\ Linked(h, FreeOf(h)) /\ LinksLead(h)
        BY DEF Intact
    <1>2. /\ FreeOf(h) \subseteq BlocksOf(h) /\ BlocksOf(h) \subseteq DOMAIN h
          /\ BlocksOf(h) \in SUBSET Nat /\ FreeOf(h) \in SUBSET Nat
        BY <1>1, TypesOfBlocks
    <1>3. \A x \in DOMAIN h : /\ x \in Nat \ {0} /\ h[x].size \in Nat /\ h[x].next_free \in Nat
                              /\ EndOf(h, x) \in Nat /\ x < EndOf(h, x) /\ h[x] \in Header
        BY <1>1, TypesOfBlocks DEF Typed
    <1>4. a < b /\ a # b
        BY <1>2, <1>3
    <1>5. /\ DOMAIN g = DOMAIN h
          /\ g[a] = [flags |-> "free", size |-> h[a].size + h[b].size + HEADER_SIZE,
                     next_free |-> h[b].next_free]
          /\ g[b] = [h[b] EXCEPT !.flags = "merged"]
          /\ \A x \in DOMAIN h \ {a, b} : g[x] = h[x]
        BY <1>2, <1>4 DEF Merged
    <1> HIDE DEF g
    <1>6. g[b] \in Header /\ g[b].flags = "merged" /\ g[b].next_free = h[b].next_free
        <2>1. h[b] \in Header
            BY <1>2, <1>3
        <2> QED
            BY <1>5, <2>1 DEF Header
    <1>7. g[a] \in Header /\ g[a].flags = "free" /\ g[a].next_free = h[b].next_free
          /\ EndOf(g, a) = EndOf(h, b)
        <2>1. h[a].size \in Nat /\ h[b].size \in Nat /\ h[b].next_free \in Nat /\ a \in Nat
            BY <1>2, <1>3
        <2>2. g[a].size = h[a].size + h[b].size + HEADER_SIZE
            BY <1>5
        <2>3. EndOf(g, a) = EndOf(h, b)
            BY <2>1, <2>2 DEF EndOf, HEADER_SIZE
        <2> QED
            BY <1>5, <2>1, <2>3 DEF Header, HEADER_SIZE
    <1>8. Typed(g)
        BY <1>1, <1>5, <1>6, <1>7 DEF Typed
    <1>9. BlocksOf(g) = BlocksOf(h) \ {b}
        <2>1. \A x \in DOMAIN h : g[x].flags # "merged" <=> x # b /\ h[x].flags # "merged"
            <3>1. h[a].flags # "merged"
                BY <1>2 DEF BlocksOf
            <3> QED
                BY <1>4, <1>5, <1>6, <1>7, <3>1
        <2> QED
            BY <1>5, <2>1 DEF BlocksOf
    <1>10. FreeOf(g) = FreeOf(h) \ {b}
        <2>1. \A x \in BlocksOf(g) : g[x].flags = "free" <=> h[x].flags = "free"
            <3>1. h[a].flags = "free"
                BY DEF FreeOf
            <3> QED
                BY <1>2, <1>5, <1>7, <1>9, <3>1
        <2> QED
            BY <1>9, <2>1 DEF FreeOf
    <1>11. MergedOf(g) = MergedOf(h) \cup {b}
        BY <1>2, <1>5, <1>9 DEF MergedOf
    <1>12. \A x \in BlocksOf(g) \ {a} : EndOf(g, x) = EndOf(h, x)
        BY <1>2, <1>5, <1>9 DEF EndOf
    <1>13. Linked(g, FreeOf(g))
        <2>1. b \in FreeOf(h) \ {a} /\ g[a].next_free = h[b].next_free
            BY <1>4, <1>7
        <2>2. \A x \in FreeOf(h) \ {a, b} : g[x].next_free = h[x].next_free
            BY <1>2, <1>5
        <2>3. Linked(g, FreeOf(h) \ {b})
            BY <1>1, <1>2, <2>1, <2>2, TakenOut
        <2> QED
            BY <1>10, <2>3
    <1>14. LinksLead(g)
        <2>1. FreeOf(g) \cup MergedOf(g) = FreeOf(h) \cup MergedOf(h)
            BY <1>10, <1>11
        <2>2. \A x \in FreeOf(h) \cup MergedOf(h) : x \in DOMAIN h
            BY <1>2 DEF MergedOf
        <2>3. \A x \in FreeOf(h) \cup MergedOf(h) :
                g[x].next_free = IF x = a THEN h[b].next_free ELSE h[x].next_free
            BY <1>5, <1>6, <1>7, <2>2
        <2> QED
            BY <1>1, <2>1, <2>3 DEF LinksLead
    <1>15. Tiled(g, heaps)
        <2>1. /\ \A k \in DOMAIN heaps : Within(h, a, heaps[k]) => Within(h, b, heaps[k])
              /\ \A k \in DOMAIN heaps : heaps[k].slot # b
              /\ \A c \in BlocksOf(h) : EndOf(h, c) = b => c = a
            BY <1>1, <1>2, Neighbours
        <2>2. \A k \in DOMAIN heaps : heaps[k].slot \in BlocksOf(g)
            BY <1>1, <1>9, <2>1 DEF Tiled
        <2>3. b < EndOf(h, b) /\ b \in BlocksOf(h)
            BY <1>2, <1>3
        <2>4. ASSUME NEW c \in BlocksOf(g)
              PROVE  \E k \in DOMAIN heaps : Within(g, c, heaps[k])
            <3>1. c \in BlocksOf(h) /\ c # b
                BY <1>9
            <3>2. PICK k \in DOMAIN heaps : Within(h, c, heaps[k])
                BY <1>1, <3>1 DEF Tiled
            <3>3. CASE c = a
                <4>1. Within(h, b, heaps[k]) /\ heaps[k].slot <= a
                    BY <2>1, <3>2, <3>3 DEF Within
                <4>2. EndOf(h, b) # b
                    BY <1>2, <1>3
                <4>3. EndOf(h, b) <= TopOf(heaps[k])
                      /\ (EndOf(h, b) \in BlocksOf(g) \/ EndOf(h, b) = TopOf(heaps[k]))
                    BY <1>9, <4>1, <4>2 DEF Within
                <4>4. Within(g, c, heaps[k])
                    BY <1>7, <3>3, <4>1, <4>3 DEF Within
                <4> QED
                    BY <4>4
            <3>4. CASE c # a
                <4>1. EndOf(g, c) = EndOf(h, c) /\ EndOf(h, c) # b
                    BY <1>12, <2>1, <3>1, <3>4
                <4>2. Within(g, c, heaps[k])
                    BY <1>9, <3>2, <4>1 DEF Within
                <4> QED
                    BY <4>2
            <3> QED
                BY <3>3, <3>4
        <2>5. ASSUME NEW c \in BlocksOf(g), NEW d \in BlocksOf(g), c < d
              PROVE  EndOf(g, c) <= d
            <3>1. c \in BlocksOf(h) /\ d \in BlocksOf(h) /\ c # b /\ d # b
                BY <1>9
            <3>2. EndOf(h, c) <= d
                BY <1>1, <2>5, <3>1 DEF Tiled
            <3>3. CASE c = a
                <4>1. b < d
                    BY <1>2, <3>1, <3>2, <3>3
                <4>2. EndOf(h, b) <= d
                    BY <1>1, <2>3, <3>1, <4>1 DEF Tiled
                <4> QED
                    BY <1>7, <3>3, <4>2
            <3>4. CASE c # a
                BY <1>12, <3>2, <3>4
            <3> QED
                BY <3>3, <3>4
        <2> QED
            BY <2>2, <2>4, <2>5 DEF Tiled
    <1>16. ASSUME NEW c \in Adjacent(g)
           PROVE  IF c = a THEN b \in Adjacent(h) ELSE c \in Adjacent(h) \ {b}
        <2>1. c \in FreeOf(h) /\ c # b /\ EndOf(g, c) \in FreeOf(h) /\ c \in BlocksOf(g)
            BY <1>10, TypesOfBlocks, <1>8 DEF Adjacent
        <2>2. CASE c = a
            BY <1>7, <2>1, <2>2 DEF Adjacent
        <2>3. CASE c # a
            BY <1>12, <2>1, <2>3 DEF Adjacent
        <2> QED
            BY <2>2, <2>3
    <1>17. Intact(g, heaps)
        BY <1>8, <1>13, <1>14, <1>15 DEF Intact
    <1> QED
        BY <1>7, <1>9, <1>10, <1>11, <1>16, <1>17 DEF g

\* Two free blocks that lie end to end are neighbours in the list.
LEMMA AdjacentIsNext ==
    ASSUME NEW h, NEW heaps, Intact(h, heaps), NEW c \in Adjacent(h)
    PROVE  h[c].next_free = EndOf(h, c) /\ c \in FreeOf(h) /\ EndOf(h, c) \in FreeOf(h)
    <1> DEFINE e == EndOf(h, c)
               n == h[c].next_free
               F == FreeOf(h)
    <1>1. Typed(h) /\ Tiled(h, heaps) /\ Linked(h, F)
        BY DEF Intact
    <1>2. c \in F /\ e \in F
        BY DEF Adjacent
    <1>3. /\ F \subseteq BlocksOf(h) /\ BlocksOf(h) \in SUBSET Nat
          /\ c < e
        BY <1>1, <1>2, TypesOfBlocks
    <1>4. Follows(c, n, F) /\ n \in F
        BY <1>1, <1>2 DEF Linked, Follows
    <1> HIDE DEF n, F
    <1>5. e \in Nat /\ n \in Nat /\ c \in Nat
        BY <1>2, <1>3, <1>4
    <1>6. ~(e <= c)
        BY <1>3, <1>5
    <1>7. c < n /\ n <= e
        BY <1>2, <1>3, <1>4, <1>6 DEF Follows
    <1>8. e <= n
        BY <1>1, <1>2, <1>3, <1>4, <1>7 DEF Tiled
    <1>9. n = e
        BY <1>5, <1>7, <1>8
    <1> QED
        BY <1>2, <1>9 DEF n, F

\* mini_gc_free before its merges: t comes behind hit.
Inserted(h, hit, t) ==
    [x \in DOMAIN h |->
        IF x = hit THEN [flags |-> "free", size |-> h[hit].size, next_free |-> t]
        ELSE IF x = t THEN [flags |-> "free", size |-> h[t].size, next_free |-> h[hit].next_free]
        ELSE h[x]]

LEMMA InsertKeeps ==
    ASSUME NEW h, NEW heaps, HeapsInOrder(heaps), Intact(h, heaps), Adjacent(h) = {},
           NEW hit \in FreeOf(h), NEW t \in BlocksOf(h) \ FreeOf(h),
           LET up == h[hit].next_free IN
               \/ hit < t /\ t < up
               \/ hit >= up /\ (t > hit \/ t < up)
    PROVE  LET g == Inserted(h, hit, t) IN
           /\ Intact(g, heaps)
           /\ BlocksOf(g) = BlocksOf(h) /\ FreeOf(g) = FreeOf(h) \cup {t}
           /\ MergedOf(g) = MergedOf(h)
           /\ \A x \in DOMAIN h : g[x].size = h[x].size
           /\ g[hit].next_free = t /\ g[t].next_free = h[hit].next_free
           /\ \A c \in Adjacent(g) : c \in {hit, t}
    <1> DEFINE g == Inserted(h, hit, t)
    <1>1. Typed(h) /\ Tiled(h, heaps) /\ Linked(h, FreeOf(h)) /\ LinksLead(h)
        BY DEF Intact
    <1>2. /\ FreeOf(h) \subseteq BlocksOf(h) /\ BlocksOf(h) \subseteq DOMAIN h
          /\ BlocksOf(h) \in SUBSET Nat /\ FreeOf(h) \in SUBSET Nat
        BY <1>1, TypesOfBlocks
    <1>3. \A x \in DOMAIN h : /\ x \in Nat \ {0} /\ h[x].size \in Nat /\ h[x].next_free \in Nat
                              /\ h[x] \in Header
        BY <1>1, TypesOfBlocks DEF Typed
    <1>4. t # hit /\ h[t].flags # "merged" /\ h[hit].flags = "free" /\ hit \in DOMAIN h /\ t \in DOMAIN h
        BY <1>2 DEF FreeOf, BlocksOf
    <1>5. /\ DOMAIN g = DOMAIN h
          /\ g[hit] = [flags |-> "free", size |-> h[hit].size, next_free |-> t]
          /\ g[t] = [flags |-> "free", size |-> h[t].size, next_free |-> h[hit].next_free]
          /\ \A x \in DOMAIN h \ {hit, t} : g[x] = h[x]
        BY <1>4 DEF Inserted
    <1> HIDE DEF g
    <1>6. g[hit] \in Header /\ g[t] \in Header
        BY <1>3, <1>4, <1>5 DEF Header
    <1>7. Typed(g)
        BY <1>1, <1>5, <1>6 DEF Typed
    <1>8. g[hit].flags = "free" /\ g[t].flags = "free" /\ g[hit].next_free = t
          /\ g[t].next_free = h[hit].next_free /\ g[hit].size = h[hit].size /\ g[t].size = h[t].size
        BY <1>5
    <1>9. \A x \in DOMAIN h : g[x].size = h[x].size
        BY <1>5, <1>8
    <1>10. BlocksOf(g) = BlocksOf(h)
        <2>1. \A x \in DOMAIN h : g[x].flags # "merged" <=> h[x].flags # "merged"
            BY <1>4, <1>5, <1>8
        <2> QED
            BY <1>5, <2>1 DEF BlocksOf
    <1>11. FreeOf(g) = FreeOf(h) \cup {t}
        <2>1. \A x \in BlocksOf(h) : g[x].flags = "free" <=> x = t \/ h[x].flags = "free"
            BY <1>2, <1>4, <1>5, <1>8
        <2> QED
            BY <1>10, <2>1 DEF FreeOf
    <1>12. MergedOf(g) = MergedOf(h)
        BY <1>5, <1>10 DEF MergedOf
    <1>13. \A x \in DOMAIN h : EndOf(g, x) = EndOf(h, x)
        BY <1>9 DEF EndOf
    <1>14. Tiled(g, heaps)
        <2>1. ASSUME NEW a \in BlocksOf(g)
              PROVE  \E k \in DOMAIN heaps : Within(g, a, heaps[k])
            <3>1. PICK k \in DOMAIN heaps : Within(h, a, heaps[k])
                BY <1>1, <1>10 DEF Tiled
            <3>2. Within(g, a, heaps[k])
                BY <1>2, <1>10, <1>13, <3>1 DEF Within
            <3> QED
                BY <3>2
        <2>2. \A a, b \in BlocksOf(g) : a < b => EndOf(g, a) <= b
            BY <1>1, <1>2, <1>10, <1>13 DEF Tiled
        <2> QED
            BY <1>1, <1>10, <2>1, <2>2 DEF Tiled
    <1>15. Linked(g, FreeOf(g))
        <2>1. t \in Nat \ FreeOf(h)
            BY <1>2
        <2>2. \A x \in FreeOf(h) \ {hit} : g[x].next_free = h[x].next_free
            BY <1>2, <1>5
        <2>3. Linked(g, FreeOf(h) \cup {t})
            BY <1>1, <1>2, <1>8, <2>1, <2>2, PutIn
        <2> QED
            BY <1>11, <2>3
    <1>16. LinksLead(g)
        <2>1. FreeOf(g) \cup MergedOf(g) = FreeOf(h) \cup MergedOf(h) \cup {t}
            BY <1>11, <1>12
        <2>2. \A x \in FreeOf(g) \cup MergedOf(g) : x \in DOMAIN h
            BY <1>2, <2>1 DEF MergedOf
        <2>3. h[hit].next_free \in FreeOf(h) \cup MergedOf(h)
            BY <1>1 DEF LinksLead
        <2>4. ASSUME NEW x \in FreeOf(g) \cup MergedOf(g)
              PROVE  g[x].next_free \in FreeOf(g) \cup MergedOf(g)
            <3>1. CASE x \in {hit, t}
                BY <1>8, <2>1, <2>3, <3>1
            <3>2. CASE x \notin {hit, t}
                <4>1. g[x].next_free = h[x].next_free /\ x \in FreeOf(h) \cup MergedOf(h)
                    BY <1>5, <2>1, <2>2, <3>2
                <4> QED
                    BY <1>1, <2>1, <4>1 DEF LinksLead
            <3> QED
                BY <3>1, <3>2
        <2> QED
            BY <2>4 DEF LinksLead
    <1>17. Intact(g, heaps)
        BY <1>7, <1>14, <1>15, <1>16 DEF Intact
    <1>18. ASSUME NEW c \in Adjacent(g), c \notin {hit, t}
           PROVE  FALSE
        <2>1. g[c].next_free = EndOf(g, c) /\ c \in FreeOf(h) /\ c \in DOMAIN h
            BY <1>2, <1>11, <1>17, <1>18, AdjacentIsNext
        <2>2. h[c].next_free = EndOf(h, c)
            BY <1>5, <1>13, <1>18, <2>1
        <2>3. h[c].next_free \in FreeOf(h)
            BY <1>1, <2>1 DEF Linked, Follows
        <2>4. c \in Adjacent(h)
            BY <2>1, <2>2, <2>3 DEF Adjacent
        <2> QED
            BY <2>4
    <1> QED
        BY <1>8, <1>9, <1>10, <1>11, <1>12, <1>17, <1>18 DEF g

\* mini_gc_free, wherever it is called: it keeps the blocks and the list in order,
\* and the header behind the block that it frees is found with the size that the
\* block has afterwards.
LEMMA FreedKeeps ==
    ASSUME HeapsInOrder(gc_heaps), Intact(header, gc_heaps), Adjacent(header) = {},
           Free # {}, NEW target \in InUse, ~Swallowed(target)
    PROVE  LET g == Freed(target)
               n == target + HEADER_SIZE + g[target].size
           IN /\ Intact(g, gc_heaps) /\ Adjacent(g) = {}
              /\ Hit(target) \in FreeOf(g) /\ Hit(target) # Nil
              /\ BlocksOf(g) \ FreeOf(g) = InUse \ {target}
              /\ FreeOf(header) \cup MergedOf(header) \subseteq FreeOf(g) \cup MergedOf(g)
              /\ n \in Nat /\ target < n
              /\ \A k \in DOMAIN gc_heaps : Within(header, target, gc_heaps[k]) =>
                    n <= TopOf(gc_heaps[k]) /\ (n \in BlocksOf(g) \/ n = TopOf(gc_heaps[k]))
              /\ FreeOf(g) \subseteq FreeOf(header) \cup {target}
              /\ \A x \in InUse \ {target} : g[x] = header[x] /\ (target < x => n <= x)
    <1> DEFINE h == header
               t == target
               hit == Hit(target)
               up == NextFree(hit)
    <1>1. Typed(h) /\ Tiled(h, gc_heaps) /\ Linked(h, FreeOf(h)) /\ LinksLead(h)
        BY DEF Intact
    <1>2. /\ FreeOf(h) \subseteq BlocksOf(h) /\ BlocksOf(h) \subseteq DOMAIN h
          /\ BlocksOf(h) \in SUBSET Nat /\ FreeOf(h) \in SUBSET Nat
        BY <1>1, TypesOfBlocks
    <1>3. \A x \in DOMAIN h : /\ x \in Nat \ {0} /\ h[x].size \in Nat /\ h[x].next_free \in Nat
                              /\ EndOf(h, x) \in Nat /\ x < EndOf(h, x)
        BY <1>1, TypesOfBlocks
    <1>4. t \in BlocksOf(h) \ FreeOf(h) /\ Free = FreeOf(h) /\ Free # {}
        BY Names
    <1>5. hit \in FreeOf(h) /\ Stops(hit, t)
        <2> DEFINE top == TopOf(gc_heaps[Len(gc_heaps)])
        <2>1. gc_heaps # <<>>
            BY <1>1, <1>4, BelowTop
        <2>2. top \in Nat
            BY <2>1, TypesOfHeaps
        <2>3. \A c \in FreeOf(h) : c < top
            <3> SUFFICES ASSUME NEW c \in FreeOf(h)
                         PROVE  c < top
                OBVIOUS
            <3>1. EndOf(h, c) <= top
                BY <1>1, <1>2, BelowTop
            <3>2. c \in Nat /\ EndOf(h, c) \in Nat /\ c < EndOf(h, c)
                BY <1>2, <1>3
            <3> HIDE DEF top
            <3> QED
                BY <2>2, <3>1, <3>2
        <2> HIDE DEF top
        <2>4. t \in Nat \ FreeOf(h)
            BY <1>2, <1>4
        <2>5. \E x \in Free : Stops(x, t)
            BY <1>1, <1>2, <1>4, <2>2, <2>3, <2>4, PlaceExists DEF Stops, NextFree
        <2> QED
            BY <1>4, <2>5 DEF Hit
    <1>6. up \in FreeOf(h) /\ up = h[hit].next_free
        BY <1>1, <1>5 DEF Linked, Follows, NextFree
    <1> DEFINE L == Inserted(h, hit, t)
               U == IF MergesUp(t) THEN Merged(L, t, up) ELSE L
               g == IF MergesDown(t) THEN Merged(U, hit, t) ELSE U
    <1> HIDE DEF hit, up
    <1>7. /\ Intact(L, gc_heaps)
          /\ BlocksOf(L) = BlocksOf(h) /\ FreeOf(L) = FreeOf(h) \cup {t}
          /\ MergedOf(L) = MergedOf(h)
          /\ \A x \in DOMAIN h : L[x].size = h[x].size
          /\ L[hit].next_free = t /\ L[t].next_free = up
          /\ \A c \in Adjacent(L) : c \in {hit, t}
        BY <1>4, <1>5, <1>6, InsertKeeps DEF Stops, NextFree
    <1>8. \A x \in DOMAIN h : EndOf(L, x) = EndOf(h, x)
        BY <1>7 DEF EndOf
    <1>9. /\ MergesUp(t) <=> EndOf(h, t) = up
          /\ MergesDown(t) <=> EndOf(h, hit) = t
        BY DEF MergesUp, MergesDown, NEXT_HEADER, EndOf, Size, hit, up
    <1>10. MergesUp(t) => up # hit
        BY <1>6 DEF Swallowed, NextFree, hit, up
    <1>11. t # hit /\ t # up /\ hit \in DOMAIN h /\ up \in DOMAIN h /\ t \in DOMAIN h
        BY <1>2, <1>4, <1>5, <1>6
    <1>12. /\ DOMAIN L = DOMAIN h
           /\ L[hit] = [flags |-> "free", size |-> h[hit].size, next_free |-> t]
           /\ L[t] = [flags |-> "free", size |-> h[t].size, next_free |-> up]
           /\ \A x \in DOMAIN h \ {hit, t} : L[x] = h[x]
        BY <1>6, <1>11 DEF Inserted
    <1> DEFINE Up == IF MergesUp(t) THEN {up} ELSE {}
               Down == IF MergesDown(t) THEN {t} ELSE {}
    <1>13. /\ DOMAIN U = DOMAIN h
           /\ U[hit] = L[hit]
           /\ U[t] = IF MergesUp(t)
                     THEN [flags |-> "free", size |-> h[t].size + h[up].size + HEADER_SIZE,
                           next_free |-> h[up].next_free]
                     ELSE L[t]
           /\ MergesUp(t) => U[up] = [h[up] EXCEPT !.flags = "merged"]
           /\ \A x \in DOMAIN h \ ({hit, t} \cup Up) : U[x] = h[x]
        <2> HIDE DEF L
        <2>1. CASE MergesUp(t)
            <3>1. L[up] = h[up] /\ L[t].size = h[t].size
                BY <1>10, <1>11, <1>12, <2>1
            <3>2. U = Merged(L, t, up)
                BY <2>1
            <3>3. up # hit
                BY <1>10, <2>1
            <3> HIDE DEF U
            <3> QED
                BY <1>11, <1>12, <2>1, <3>1, <3>2, <3>3 DEF Merged
        <2>2. CASE ~MergesUp(t)
            <3>1. U = L
                BY <2>2
            <3> HIDE DEF U
            <3> QED
                BY <1>12, <2>2, <3>1
        <2> QED
            BY <2>1, <2>2
    <1> HIDE DEF L
    <1>14. /\ Intact(U, gc_heaps)
           /\ BlocksOf(U) = BlocksOf(h) \ Up
           /\ FreeOf(U) = (FreeOf(h) \cup {t}) \ Up
           /\ MergedOf(U) = MergedOf(h) \cup Up
           /\ EndOf(U, t) = IF MergesUp(t) THEN EndOf(h, up) ELSE EndOf(h, t)
           /\ \A c \in Adjacent(U) : c = hit
        <2>1. CASE MergesUp(t)
            <3>1. t \in FreeOf(L) /\ up \in FreeOf(L)
                BY <1>6, <1>7
            <3>2. L[t].next_free = up /\ EndOf(L, t) = up
                BY <1>7, <1>8, <1>9, <1>11, <2>1
            <3>3. EndOf(L, up) = EndOf(h, up)
                BY <1>8, <1>11
            <3>4. U = Merged(L, t, up) /\ Up = {up}
                BY <2>1
            <3>5. up \notin Adjacent(L)
                BY <1>7, <1>10, <1>11, <2>1
            <3> HIDE DEF U, Up
            <3>6. /\ Intact(U, gc_heaps)
                  /\ BlocksOf(U) = BlocksOf(L) \ {up} /\ FreeOf(U) = FreeOf(L) \ {up}
                  /\ MergedOf(U) = MergedOf(L) \cup {up}
                  /\ EndOf(U, t) = EndOf(L, up)
                  /\ \A c \in Adjacent(U) : IF c = t THEN up \in Adjacent(L) ELSE c \in Adjacent(L) \ {up}
                BY <1>7, <3>1, <3>2, <3>4, MergeKeeps
            <3>7. \A c \in Adjacent(U) : c = hit
                BY <1>7, <3>5, <3>6
            <3> QED
                BY <1>7, <2>1, <3>3, <3>4, <3>6, <3>7
        <2>2. CASE ~MergesUp(t)
            <3>1. U = L /\ Up = {}
                BY <2>2
            <3>2. t \notin Adjacent(L)
                <4>1. SUFFICES ASSUME t \in Adjacent(L)
                               PROVE  FALSE
                    OBVIOUS
                <4>2. L[t].next_free = EndOf(L, t)
                    BY <1>7, <4>1, AdjacentIsNext
                <4> QED
                    BY <1>7, <1>8, <1>9, <1>11, <2>2, <4>2
            <3> HIDE DEF U, Up
            <3> QED
                BY <1>7, <1>8, <1>11, <2>2, <3>1, <3>2
        <2> QED
            BY <2>1, <2>2
    <1>15. EndOf(U, hit) = EndOf(h, hit) /\ U[hit].next_free = t
        <2>1. U[hit].size = h[hit].size /\ U[hit].next_free = t
            BY <1>12, <1>13
        <2> HIDE DEF U
        <2> QED
            BY <2>1 DEF EndOf
    <1>16. hit \in FreeOf(U) /\ t \in FreeOf(U)
        BY <1>5, <1>10, <1>11, <1>14
    <1> HIDE DEF U, Up
    <1>17. /\ Intact(g, gc_heaps)
           /\ BlocksOf(g) = BlocksOf(U) \ Down
           /\ FreeOf(g) = FreeOf(U) \ Down
           /\ MergedOf(g) = MergedOf(U) \cup Down
           /\ Adjacent(g) = {}
           /\ g[t].size = U[t].size
        <2>1. CASE MergesDown(t)
            <3>1. EndOf(U, hit) = t
                BY <1>9, <1>15, <2>1
            <3>2. g = Merged(U, hit, t) /\ Down = {t}
                BY <2>1
            <3> HIDE DEF g, Down
            <3>3. /\ Intact(g, gc_heaps)
                  /\ BlocksOf(g) = BlocksOf(U) \ {t} /\ FreeOf(g) = FreeOf(U) \ {t}
                  /\ MergedOf(g) = MergedOf(U) \cup {t}
                  /\ \A c \in Adjacent(g) : IF c = hit THEN t \in Adjacent(U) ELSE c \in Adjacent(U) \ {t}
                BY <1>14, <1>15, <1>16, <3>1, <3>2, MergeKeeps
            <3>4. Adjacent(g) = {}
                BY <1>11, <1>14, <3>3
            <3>5. g[t].size = U[t].size
                <4>1. g[t] = [U[t] EXCEPT !.flags = "merged"]
                    BY <1>11, <1>13, <3>2 DEF Merged
                <4>2. U[t] \in Header
                    BY <1>11, <1>13, <1>14 DEF Intact, Typed
                <4> QED
                    BY <4>1, <4>2 DEF Header
            <3> QED
                BY <3>2, <3>3, <3>4, <3>5
        <2>2. CASE ~MergesDown(t)
            <3>1. g = U /\ Down = {}
                BY <2>2
            <3>2. hit \notin Adjacent(U)
                <4>1. SUFFICES ASSUME hit \in Adjacent(U)
                               PROVE  FALSE
                    OBVIOUS
                <4>2. U[hit].next_free = EndOf(U, hit)
                    BY <1>14, <4>1, AdjacentIsNext
                <4> QED
                    BY <1>9, <1>15, <2>2, <4>2
            <3> HIDE DEF g, Down
            <3> QED
                BY <1>14, <3>1, <3>2
        <2> QED
            BY <2>1, <2>2
    <1>18. Freed(t) = g
        <2> DEFINE f == Freed(t)
                   size == IF MergesUp(t) THEN h[t].size + h[up].size + HEADER_SIZE ELSE h[t].size
                   next == IF MergesUp(t) THEN h[up].next_free ELSE up
        <2>1. f = [x \in DOMAIN h |->
                IF x = hit
                THEN [flags |-> "free",
                      size |-> IF MergesDown(t) THEN h[hit].size + size + HEADER_SIZE ELSE h[hit].size,
                      next_free |-> IF MergesDown(t) THEN next ELSE t]
                ELSE IF x = t
                THEN [flags |-> IF MergesDown(t) THEN "merged" ELSE "free", size |-> size, next_free |-> next]
                ELSE IF x = up /\ MergesUp(t) THEN [h[x] EXCEPT !.flags = "merged"]
                ELSE h[x]]
            BY DEF Freed, Size, NextFree, hit, up
        <2>2. U[t] = [flags |-> "free", size |-> size, next_free |-> next]
            BY <1>12, <1>13
        <2>3. U[hit] = [flags |-> "free", size |-> h[hit].size, next_free |-> t]
            BY <1>12, <1>13
        <2>4. MergesUp(t) => up # hit /\ U[up] = [h[up] EXCEPT !.flags = "merged"]
            BY <1>10, <1>13
        <2>5. \A x \in DOMAIN h \ {hit, t} : U[x] = IF x = up /\ MergesUp(t)
                                                    THEN [h[x] EXCEPT !.flags = "merged"] ELSE h[x]
            BY <1>13, <2>4 DEF Up
        <2>6. U = [x \in DOMAIN h |-> U[x]]
            <3>1. L = [x \in DOMAIN h |-> L[x]]
                BY DEF L, Inserted
            <3>2. U = L \/ U = Merged(L, t, up)
                BY DEF U
            <3>3. Merged(L, t, up) = [x \in DOMAIN h |-> Merged(L, t, up)[x]]
                BY <1>12 DEF Merged
            <3> QED
                BY <3>1, <3>2, <3>3
        <2> HIDE DEF f, size, next
        <2>7. CASE ~MergesDown(t)
            <3>1. g = U
                BY <2>7
            <3>2. \A x \in DOMAIN h : f[x] = U[x]
                BY <1>11, <2>1, <2>2, <2>3, <2>5, <2>7
            <3>3. f = [x \in DOMAIN h |-> f[x]]
                BY <2>1
            <3> QED
                BY <2>6, <3>1, <3>2, <3>3 DEF f
        <2>8. CASE MergesDown(t)
            <3>1. g = [x \in DOMAIN h |->
                    IF x = hit THEN [flags |-> "free", size |-> U[hit].size + U[t].size + HEADER_SIZE,
                                     next_free |-> U[t].next_free]
                    ELSE IF x = t THEN [U[t] EXCEPT !.flags = "merged"]
                    ELSE U[x]]
                BY <1>13, <2>8 DEF Merged
            <3>2. U[hit].size = h[hit].size /\ U[t].size = size /\ U[t].next_free = next
                  /\ [U[t] EXCEPT !.flags = "merged"] = [flags |-> "merged", size |-> size, next_free |-> next]
                BY <2>2, <2>3
            <3>3. g[hit] = f[hit] /\ g[t] = f[t]
                BY <1>11, <2>1, <2>8, <3>1, <3>2
            <3>4. \A x \in DOMAIN h \ {hit, t} : f[x] = g[x]
                BY <2>1, <2>5, <3>1
            <3>5. f = [x \in DOMAIN h |-> f[x]] /\ g = [x \in DOMAIN h |-> g[x]]
                BY <2>1, <3>1
            <3> HIDE DEF g
            <3> QED
                BY <3>3, <3>4, <3>5 DEF f
        <2> QED
            BY <2>7, <2>8
    <1> HIDE DEF g
    <1>19. t + HEADER_SIZE + g[t].size = EndOf(U, t)
        BY <1>17 DEF EndOf
    <1>20. EndOf(U, t) \in Nat /\ t < EndOf(U, t)
        <2>1. Typed(U) /\ t \in DOMAIN U
            BY <1>11, <1>13, <1>14 DEF Intact
        <2> QED
            BY <2>1, TypesOfBlocks
    <1>21. ASSUME NEW k \in DOMAIN gc_heaps, Within(h, t, gc_heaps[k])
           PROVE  /\ EndOf(U, t) <= TopOf(gc_heaps[k])
                  /\ EndOf(U, t) \in BlocksOf(g) \/ EndOf(U, t) = TopOf(gc_heaps[k])
        <2>1. EndOf(U, t) # t
            BY <1>2, <1>4, <1>20
        <2>2. /\ EndOf(U, t) \notin Up /\ EndOf(U, t) <= TopOf(gc_heaps[k])
              /\ EndOf(U, t) \in BlocksOf(h) \/ EndOf(U, t) = TopOf(gc_heaps[k])
            <3>1. CASE MergesUp(t)
                <4>1. EndOf(h, t) = up /\ EndOf(U, t) = EndOf(h, up) /\ up \in BlocksOf(h)
                    BY <1>2, <1>6, <1>9, <1>14, <3>1
                <4>2. Within(h, up, gc_heaps[k])
                    BY <1>1, <1>4, <1>21, <4>1, Neighbours
                <4>3. EndOf(h, up) # up
                    BY <1>3, <1>11
                <4> QED
                    BY <4>1, <4>2, <4>3 DEF Within, Up
            <3>2. CASE ~MergesUp(t)
                BY <1>14, <1>21, <3>2 DEF Within, Up
            <3> QED
                BY <3>1, <3>2
        <2> QED
            BY <1>14, <1>17, <2>1, <2>2 DEF Down
    <1>22. hit \in FreeOf(g) /\ hit # Nil
        BY <1>3, <1>11, <1>16, <1>17 DEF Down, Nil
    <1>23. BlocksOf(g) \ FreeOf(g) = InUse \ {t}
        <2>1. InUse = BlocksOf(h) \ FreeOf(h) /\ Up \subseteq FreeOf(h)
            BY <1>6, Names DEF Up
        <2> QED
            BY <1>4, <1>14, <1>17, <2>1 DEF Down
    <1>24. FreeOf(h) \cup MergedOf(h) \subseteq FreeOf(g) \cup MergedOf(g)
           /\ FreeOf(g) \subseteq FreeOf(h) \cup {t}
        BY <1>14, <1>17
    <1>25. ASSUME NEW x \in InUse \ {t}
           PROVE  g[x] = h[x] /\ (t < x => EndOf(U, t) <= x)
        <2>1. x \in BlocksOf(h) \ FreeOf(h) /\ x \in DOMAIN h
            BY <1>2, Names
        <2>2. x # hit /\ x # t /\ x # up
            BY <1>5, <1>6, <2>1
        <2>3. U[x] = h[x]
            BY <1>13, <2>1, <2>2 DEF Up
        <2>4. g[x] = U[x]
            BY <1>13, <2>1, <2>2 DEF g, Merged
        <2>5. x \in BlocksOf(U) /\ t \in BlocksOf(U)
            BY <1>4, <1>6, <1>11, <1>14, <2>1, <2>2 DEF Up
        <2>6. t < x => EndOf(U, t) <= x
            BY <1>14, <2>5 DEF Intact, Tiled
        <2> QED
            BY <2>3, <2>4, <2>6
    <1> QED
        BY <1>17, <1>18, <1>19, <1>20, <1>21, <1>22, <1>23, <1>24, <1>25 DEF hit

\* b leaves the list behind a and is in use.
Taken(h, a, b) == [[h EXCEPT ![a].next_free = h[b].next_free] EXCEPT ![b].flags = "alloc"]

\* The end of TakeBlock.
LEMMA TakenKeeps ==
    ASSUME NEW h, NEW heaps, Intact(h, heaps), Adjacent(h) = {},
           NEW a \in FreeOf(h), NEW b \in FreeOf(h) \ {a}, h[a].next_free = b,
           NEW g, g = WithoutMerged(Taken(h, a, b))
    PROVE  /\ Intact(g, heaps) /\ Adjacent(g) = {}
           /\ BlocksOf(g) = BlocksOf(h) /\ FreeOf(g) = FreeOf(h) \ {b} /\ MergedOf(g) = {}
    <1> DEFINE v == Taken(h, a, b)
    <1>1. Typed(h) /\ Tiled(h, heaps) /\ Linked(h, FreeOf(h))
        BY DEF Intact
    <1>2. /\ FreeOf(h) \subseteq BlocksOf(h) /\ BlocksOf(h) \subseteq DOMAIN h
          /\ BlocksOf(h) \in SUBSET Nat /\ FreeOf(h) \in SUBSET Nat
          /\ \A x \in DOMAIN h : h[x] \in Header
        BY <1>1, TypesOfBlocks DEF Typed
    <1>3. a \in DOMAIN h /\ b \in DOMAIN h /\ a # b /\ h[a] \in Header /\ h[b] \in Header
          /\ h[a].flags = "free" /\ h[b].flags = "free"
        BY <1>2 DEF FreeOf
    <1>4. DOMAIN v = DOMAIN h /\ \A x \in DOMAIN h \ {a, b} : v[x] = h[x]
        BY <1>3 DEF Taken
    <1>5. v[a] = [h[a] EXCEPT !.next_free = h[b].next_free] /\ v[b] = [h[b] EXCEPT !.flags = "alloc"]
        BY <1>3 DEF Taken
    <1> HIDE DEF v
    <1>6. v[a] \in Header /\ v[a].flags = "free" /\ v[a].size = h[a].size
          /\ v[a].next_free = h[b].next_free
        BY <1>3, <1>5 DEF Header
    <1>7. v[b] \in Header /\ v[b].flags = "alloc" /\ v[b].size = h[b].size
        BY <1>3, <1>5 DEF Header
    <1>8. Typed(v)
        BY <1>1, <1>2, <1>4, <1>6, <1>7 DEF Typed
    <1>9. BlocksOf(v) = BlocksOf(h)
        BY <1>3, <1>4, <1>6, <1>7 DEF BlocksOf
    <1>10. FreeOf(v) = FreeOf(h) \ {b}
        <2>1. \A x \in BlocksOf(h) : v[x].flags = "free" <=> (h[x].flags = "free" /\ x # b)
            BY <1>2, <1>3, <1>4, <1>6, <1>7
        <2> QED
            BY <1>9, <2>1 DEF FreeOf
    <1>11. \A x \in DOMAIN h : EndOf(v, x) = EndOf(h, x)
        BY <1>4, <1>6, <1>7 DEF EndOf
    <1>12. Tiled(v, heaps)
        <2>1. ASSUME NEW x \in BlocksOf(v)
              PROVE  \E k \in DOMAIN heaps : Within(v, x, heaps[k])
            <3>1. PICK k \in DOMAIN heaps : Within(h, x, heaps[k])
                BY <1>1, <1>9 DEF Tiled
            <3>2. Within(v, x, heaps[k])
                BY <1>2, <1>9, <1>11, <3>1 DEF Within
            <3> QED
                BY <3>2
        <2>2. \A x, y \in BlocksOf(v) : x < y => EndOf(v, x) <= y
            BY <1>1, <1>2, <1>9, <1>11 DEF Tiled
        <2> QED
            BY <1>1, <1>9, <2>1, <2>2 DEF Tiled
    <1>13. Linked(v, FreeOf(v))
        <2>1. \A x \in FreeOf(h) \ {a, b} : v[x].next_free = h[x].next_free
            BY <1>2, <1>4
        <2>2. Linked(v, FreeOf(h) \ {b})
            BY <1>1, <1>2, <1>6, <2>1, TakenOut
        <2> QED
            BY <1>10, <2>2
    <1>14. Adjacent(v) = {}
        BY <1>2, <1>10, <1>11 DEF Adjacent
    <1> DEFINE w == WithoutMerged(v)
    <1>15. /\ Intact(w, heaps) /\ Adjacent(w) = {}
           /\ BlocksOf(w) = BlocksOf(h) /\ FreeOf(w) = FreeOf(h) \ {b} /\ MergedOf(w) = {}
        BY <1>8, <1>9, <1>10, <1>12, <1>13, <1>14, Forgotten
    <1>16. g = w
        BY DEF v
    <1> HIDE DEF w
    <1> QED
        BY <1>15, <1>16

\* The last n bytes of the block a become a block in use.
CarvedAt(h, a, n) == a + HEADER_SIZE + (h[a].size - (n + HEADER_SIZE))
Split(h, a, n, f) ==
    [[x \in DOMAIN h \cup {CarvedAt(h, a, n)} |->
        IF x = a THEN [h[x] EXCEPT !.size = h[a].size - (n + HEADER_SIZE)]
        ELSE IF x = CarvedAt(h, a, n) THEN [flags |-> "free", size |-> n, next_free |-> Nil]
        ELSE h[x]] EXCEPT ![CarvedAt(h, a, n)].flags = f]

\* The end of SplitBlock.
LEMMA SplitKeeps ==
    ASSUME NEW h, NEW heaps, HeapsInOrder(heaps), Intact(h, heaps), Adjacent(h) = {},
           NEW a \in FreeOf(h), NEW n \in Nat, h[a].size >= n + HEADER_SIZE,
           NEW f \in {"alloc", "marked"},
           NEW g, g = WithoutMerged(Split(h, a, n, f))
    PROVE  /\ Intact(g, heaps) /\ Adjacent(g) = {}
           /\ CarvedAt(h, a, n) \notin BlocksOf(h)
           /\ BlocksOf(g) = BlocksOf(h) \cup {CarvedAt(h, a, n)}
           /\ FreeOf(g) = FreeOf(h) /\ MergedOf(g) = {}
    <1> DEFINE rest == h[a].size - (n + HEADER_SIZE)
               b == a + HEADER_SIZE + rest
               u == [x \in DOMAIN h \cup {b} |->
                        IF x = a THEN [h[x] EXCEPT !.size = rest]
                        ELSE IF x = b THEN [flags |-> "free", size |-> n, next_free |-> Nil]
                        ELSE h[x]]
               v == [u EXCEPT ![b].flags = f]
    <1>1. g = WithoutMerged(v) /\ b = CarvedAt(h, a, n)
        BY DEF Split, CarvedAt
    <1>2. Typed(h) /\ Tiled(h, heaps) /\ Linked(h, FreeOf(h))
        BY DEF Intact
    <1>3. /\ FreeOf(h) \subseteq BlocksOf(h) /\ BlocksOf(h) \subseteq DOMAIN h
          /\ BlocksOf(h) \in SUBSET Nat /\ FreeOf(h) \in SUBSET Nat
        BY <1>2, TypesOfBlocks
    <1>4. \A x \in DOMAIN h : /\ x \in Nat \ {0} /\ h[x].size \in Nat /\ h[x] \in Header
                              /\ EndOf(h, x) \in Nat /\ x < EndOf(h, x)
        BY <1>2, TypesOfBlocks DEF Typed
    <1>5. a \in DOMAIN h /\ h[a].flags = "free"
        BY <1>3 DEF FreeOf
    <1>6. rest \in Nat /\ b \in Nat \ {0} /\ a < b
          /\ b + HEADER_SIZE + n = EndOf(h, a) /\ b < EndOf(h, a)
        BY <1>4, <1>5 DEF EndOf, HEADER_SIZE
    <1> HIDE DEF rest, b
    <1>7. DOMAIN v = DOMAIN h \cup {b} /\ \A x \in DOMAIN h \ {a, b} : v[x] = h[x]
        OBVIOUS
    <1>8. v[a] = [h[a] EXCEPT !.size = rest] /\ v[b] = [flags |-> f, size |-> n, next_free |-> Nil]
        <2>1. a # b
            BY <1>4, <1>5, <1>6
        <2> QED
            BY <1>5, <2>1
    <1> HIDE DEF v
    <1>9. v[a] \in Header /\ v[a].flags = "free" /\ v[a].size = rest
          /\ v[a].next_free = h[a].next_free
        BY <1>4, <1>5, <1>6, <1>8 DEF Header
    <1>10. v[b] \in Header /\ v[b].flags \in {"alloc", "marked"} /\ v[b].size = n
        BY <1>8 DEF Header, Nil
    <1>11. Typed(v)
        BY <1>2, <1>6, <1>7, <1>9, <1>10 DEF Typed
    <1>12. b \notin BlocksOf(h)
        <2>1. SUFFICES ASSUME b \in BlocksOf(h)
                       PROVE  FALSE
            OBVIOUS
        <2>2. EndOf(h, a) <= b
            BY <1>2, <1>3, <1>6, <2>1 DEF Tiled
        <2> QED
            BY <1>4, <1>5, <1>6, <2>2
    <1>13. BlocksOf(v) = BlocksOf(h) \cup {b}
        <2>1. \A x \in DOMAIN v : v[x].flags # "merged" <=> (x = b \/ x \in BlocksOf(h))
            <3>1. \A x \in DOMAIN h \ {a, b} : v[x].flags # "merged" <=> x \in BlocksOf(h)
                BY <1>7 DEF BlocksOf
            <3> QED
                BY <1>3, <1>7, <1>9, <1>10, <3>1
        <2> QED
            BY <1>3, <1>7, <2>1 DEF BlocksOf
    <1>14. FreeOf(v) = FreeOf(h)
        <2>1. \A x \in BlocksOf(v) : v[x].flags = "free" <=> x \in FreeOf(h)
            <3>1. \A x \in BlocksOf(h) \ {a, b} : v[x].flags = "free" <=> x \in FreeOf(h)
                BY <1>3, <1>7 DEF FreeOf
            <3> QED
                BY <1>3, <1>9, <1>10, <1>12, <1>13, <3>1
        <2> QED
            BY <1>3, <1>13, <2>1 DEF FreeOf
    <1>15. /\ EndOf(v, a) = b /\ EndOf(v, b) = EndOf(h, a)
           /\ \A x \in BlocksOf(h) \ {a} : EndOf(v, x) = EndOf(h, x)
        <2>1. EndOf(v, a) = b
            BY <1>9 DEF EndOf, b
        <2>2. EndOf(v, b) = EndOf(h, a)
            BY <1>6, <1>10 DEF EndOf
        <2> QED
            BY <1>3, <1>7, <1>12, <2>1, <2>2 DEF EndOf
    <1>16. Tiled(v, heaps)
        <2>1. ASSUME NEW x \in BlocksOf(v)
              PROVE  \E k \in DOMAIN heaps : Within(v, x, heaps[k])
            <3>1. CASE x \in {a, b}
                <4>1. PICK k \in DOMAIN heaps : Within(h, a, heaps[k])
                    BY <1>2, <1>3 DEF Tiled
                <4>2. heaps[k].slot <= a /\ EndOf(h, a) <= TopOf(heaps[k])
                      /\ (EndOf(h, a) \in BlocksOf(h) \/ EndOf(h, a) = TopOf(heaps[k]))
                    BY <4>1 DEF Within
                <4>3. heaps[k].slot \in Nat /\ a \in Nat /\ EndOf(h, a) \in Nat
                    BY <1>2, <1>3, <1>4, <1>5 DEF Tiled
                <4>4. heaps[k].slot <= x
                    BY <1>6, <3>1, <4>2, <4>3
                <4>5. EndOf(v, x) <= TopOf(heaps[k])
                    <5>1. TopOf(heaps[k]) \in Nat
                        BY TypesOfHeaps
                    <5> QED
                        BY <1>6, <1>15, <3>1, <4>2, <4>3, <5>1
                <4>6. EndOf(v, x) \in BlocksOf(v) \/ EndOf(v, x) = TopOf(heaps[k])
                    BY <1>13, <1>15, <3>1, <4>2
                <4>7. Within(v, x, heaps[k])
                    BY <4>4, <4>5, <4>6 DEF Within
                <4> QED
                    BY <4>7
            <3>2. CASE x \notin {a, b}
                <4>1. x \in BlocksOf(h) \ {a}
                    BY <1>13, <3>2
                <4>2. PICK k \in DOMAIN heaps : Within(h, x, heaps[k])
                    BY <1>2, <4>1 DEF Tiled
                <4>3. Within(v, x, heaps[k])
                    BY <1>13, <1>15, <4>1, <4>2 DEF Within
                <4> QED
                    BY <4>3
            <3> QED
                BY <3>1, <3>2
        <2>2. ASSUME NEW x \in BlocksOf(v), NEW y \in BlocksOf(v), x < y
              PROVE  EndOf(v, x) <= y
            <3>1. x \in Nat /\ y \in Nat /\ a \in BlocksOf(h) /\ a \in Nat /\ EndOf(h, a) \in Nat
                BY <1>3, <1>4, <1>5, <1>6, <1>13
            <3>2. CASE x = a
                <4>1. CASE y = b
                    BY <1>6, <1>15, <3>2, <4>1
                <4>2. CASE y # b
                    <5>1. EndOf(h, a) <= y
                        BY <1>2, <1>13, <2>2, <3>1, <3>2, <4>2 DEF Tiled
                    <5> QED
                        BY <1>6, <1>15, <3>1, <3>2, <5>1
                <4> QED
                    BY <4>1, <4>2
            <3>3. CASE x = b
                <4>1. y \in BlocksOf(h) /\ a < y
                    BY <1>6, <1>13, <2>2, <3>1, <3>3
                <4>2. EndOf(h, a) <= y
                    BY <1>2, <3>1, <4>1 DEF Tiled
                <4> QED
                    BY <1>15, <3>3, <4>2
            <3>4. CASE x \notin {a, b}
                <4>1. x \in BlocksOf(h) /\ EndOf(v, x) = EndOf(h, x) /\ EndOf(h, x) \in Nat
                    BY <1>3, <1>4, <1>13, <1>15, <3>4
                <4>2. CASE y = b
                    <5>1. ~(a < x)
                        <6>1. a < x => EndOf(h, a) <= x
                            BY <1>2, <3>1, <4>1 DEF Tiled
                        <6> QED
                            BY <1>6, <2>2, <3>1, <4>2, <6>1
                    <5>2. x < a
                        BY <3>1, <3>4, <5>1
                    <5>3. EndOf(h, x) <= a
                        BY <1>2, <3>1, <4>1, <5>2 DEF Tiled
                    <5> QED
                        BY <1>6, <3>1, <4>1, <4>2, <5>3
                <4>3. CASE y # b
                    BY <1>2, <1>13, <2>2, <4>1, <4>3 DEF Tiled
                <4> QED
                    BY <4>2, <4>3
            <3> QED
                BY <3>2, <3>3, <3>4
        <2>3. \A k \in DOMAIN heaps : heaps[k].slot \in BlocksOf(v)
            BY <1>2, <1>13 DEF Tiled
        <2> QED
            BY <2>1, <2>2, <2>3 DEF Tiled
    <1>17. Linked(v, FreeOf(v))
        <2>1. \A x \in FreeOf(h) : v[x].next_free = h[x].next_free
            BY <1>3, <1>7, <1>9, <1>12
        <2> QED
            BY <1>2, <1>14, <2>1 DEF Linked
    <1>18. Adjacent(v) = {}
        <2>1. \A x \in FreeOf(h) \ {a} : EndOf(v, x) = EndOf(h, x)
            BY <1>3, <1>15
        <2> QED
            BY <1>3, <1>12, <1>14, <1>15, <2>1 DEF Adjacent
    <1> DEFINE w == WithoutMerged(v)
    <1>19. /\ Intact(w, heaps) /\ Adjacent(w) = {}
           /\ BlocksOf(w) = BlocksOf(h) \cup {b}
           /\ FreeOf(w) = FreeOf(h) /\ MergedOf(w) = {}
        BY <1>11, <1>13, <1>14, <1>16, <1>17, <1>18, Forgotten
    <1>20. g = w
        BY <1>1
    <1> HIDE DEF w
    <1> QED
        BY <1>1, <1>12, <1>19, <1>20

\* A new heap lies above the blocks of all others.
LEMMA NewSlotAbove ==
    ASSUME HeapsInOrder(gc_heaps)
    PROVE  /\ NewSlot \in Nat \ {0}
           /\ \A k \in DOMAIN gc_heaps : TopOf(gc_heaps[k]) < NewSlot
    <1>1. CASE gc_heaps = <<>>
        BY <1>1 DEF NewSlot, PTRSIZE
    <1>2. CASE gc_heaps # <<>>
        <2> DEFINE n == Len(gc_heaps)
                   top == TopOf(gc_heaps[n])
        <2>1. n \in Nat /\ n \in DOMAIN gc_heaps /\ DOMAIN gc_heaps = 1..n
            BY <1>2, TypesOfHeaps
        <2>2. /\ gc_heaps[n].slot \in Nat /\ gc_heaps[n].size \in Nat /\ top \in Nat
              /\ top = gc_heaps[n].slot + 24 + gc_heaps[n].size
            BY <2>1, TypesOfHeaps DEF TopOf, HEADER_SIZE
        <2>3. NewSlot = ((top + 15) \div 8) * 8
            <3>1. NewSlot = ((gc_heaps[n].slot + gc_heaps[n].size + 8 + 24 + 8 - 1) \div 8) * 8
                BY <1>2 DEF NewSlot, ALIGN, PTRSIZE, HEADER_SIZE
            <3>2. gc_heaps[n].slot + gc_heaps[n].size + 8 + 24 + 8 - 1 = top + 15
                <4> HIDE DEF n, top
                <4> QED
                    BY <2>2
            <3> QED
                BY <3>1, <3>2
        <2> HIDE DEF top
        <2>4. NewSlot \in Nat \ {0} /\ top < NewSlot
            <3>1. /\ ((top + 15) \div 8) * 8 \in Nat \ {0}
                  /\ top < ((top + 15) \div 8) * 8
                <4>1. top \in Nat
                    BY <2>2
                <4> QED
                    BY <4>1
            <3> QED
                BY <2>3, <3>1
        <2>5. ASSUME NEW k \in DOMAIN gc_heaps
              PROVE  TopOf(gc_heaps[k]) < NewSlot
            <3>1. CASE k = n
                BY <2>4, <3>1 DEF top
            <3>2. CASE k # n
                <4>1. k < n
                    BY <2>1, <3>2
                <4>2. TopOf(gc_heaps[k]) < gc_heaps[n].slot
                    BY <2>1, <4>1 DEF HeapsInOrder
                <4>3. gc_heaps[n].slot < top /\ TopOf(gc_heaps[k]) \in Nat
                    BY <2>1, TypesOfHeaps DEF top
                <4> QED
                    BY <2>2, <2>4, <4>2, <4>3
            <3> QED
                BY <3>1, <3>2
        <2> QED
            BY <2>4, <2>5
    <1> QED
        BY <1>1, <1>2

LEMMA HeapsGrow ==
    ASSUME HeapsInOrder(gc_heaps), NEW n \in Nat
    PROVE  LET new == NewHeap(n) IN
           /\ HeapsInOrder(new)
           /\ HeapSize(n) \in Nat
           /\ Len(new) = Len(gc_heaps) + 1
           /\ DOMAIN new = DOMAIN gc_heaps \cup {Len(new)} /\ Len(new) \notin DOMAIN gc_heaps
           /\ \A k \in DOMAIN gc_heaps : new[k] = gc_heaps[k]
           /\ new[Len(new)] = [slot |-> NewSlot, size |-> HeapSize(n)]
           /\ new # <<>>
    <1> DEFINE new == NewHeap(n)
               heap == [slot |-> NewSlot, size |-> HeapSize(n)]
               m == Len(gc_heaps)
    <1>1. HeapSize(n) \in Nat
        BY SizeAssumption DEF HeapSize
    <1>2. heap \in Heap /\ heap.slot = NewSlot
        BY <1>1, NewSlotAbove DEF Heap
    <1>3. m \in Nat /\ DOMAIN gc_heaps = 1..m /\ gc_heaps \in Seq(Heap)
        BY TypesOfHeaps DEF HeapsInOrder
    <1>4. new = Append(gc_heaps, heap)
        BY DEF NewHeap
    <1> HIDE DEF new, heap
    <1>5. /\ new \in Seq(Heap) /\ Len(new) = m + 1 /\ DOMAIN new = 1..(m + 1)
          /\ \A k \in 1..m : new[k] = gc_heaps[k]
          /\ new[m + 1] = heap
        BY <1>2, <1>3, <1>4, AppendProperties, LenProperties
    <1>6. DOMAIN new = DOMAIN gc_heaps \cup {m + 1} /\ m + 1 \notin DOMAIN gc_heaps
        BY <1>3, <1>5
    <1>7. ASSUME NEW k \in DOMAIN new, NEW l \in DOMAIN new, k < l
          PROVE  TopOf(new[k]) < new[l].slot
        <2>1. k \in 1..m
            BY <1>3, <1>5, <1>7
        <2>2. CASE l = m + 1
            BY <1>2, <1>3, <1>5, <2>1, <2>2, NewSlotAbove
        <2>3. CASE l # m + 1
            <3>1. l \in 1..m
                BY <1>3, <1>5, <2>3
            <3> QED
                BY <1>3, <1>5, <1>7, <2>1, <3>1 DEF HeapsInOrder
        <2> QED
            BY <2>2, <2>3
    <1>8. HeapsInOrder(new)
        BY <1>5, <1>7 DEF HeapsInOrder
    <1>9. new # <<>>
        BY <1>3, <1>5, EmptySeq
    <1> QED
        BY <1>1, <1>5, <1>6, <1>8, <1>9 DEF new, heap

\* The last block of the list.
LEMMA MaxFree ==
    ASSUME HeapsInOrder(gc_heaps), Intact(header, gc_heaps), Free # {}
    PROVE  Max(Free) \in Free /\ \A c \in Free : c <= Max(Free)
    <1>1. Typed(header) /\ Tiled(header, gc_heaps)
        BY DEF Intact
    <1>2. Free \in SUBSET Nat /\ Free \subseteq BlocksOf(header)
        BY <1>1, Names, TypesOfBlocks
    <1> DEFINE top == TopOf(gc_heaps[Len(gc_heaps)])
    <1>3. top \in Nat
        <2>1. gc_heaps # <<>>
            BY <1>1, <1>2, BelowTop
        <2> QED
            BY <2>1, TypesOfHeaps
    <1>4. ASSUME NEW c \in Free
          PROVE  c < top
        <2>1. EndOf(header, c) <= top
            BY <1>1, <1>2, BelowTop
        <2>2. c \in Nat /\ EndOf(header, c) \in Nat /\ c < EndOf(header, c)
            BY <1>1, <1>2, TypesOfBlocks
        <2> HIDE DEF top
        <2> QED
            BY <1>3, <2>1, <2>2
    <1> HIDE DEF top
    <1>5. \E c \in Free : c < top
        BY <1>4
    <1>6. PICK m \in Free : m < top /\ \A c \in Free : c < top => c <= m
        BY <1>2, <1>3, <1>5, GreatestBelow
    <1>7. \E x \in Free : \A y \in Free : x >= y
        BY <1>2, <1>4, <1>6
    <1>8. Max(Free) \in Free /\ \A y \in Free : Max(Free) >= y
        BY <1>7, Zenon DEF Max
    <1> QED
        BY <1>2, <1>8

\* grow: the new heap is one free block, the last of the list.
LEMMA GrownKeeps ==
    ASSUME HeapsInOrder(gc_heaps), Intact(header, gc_heaps), Adjacent(header) = {}, Free # {},
           NEW n \in Nat
    PROVE  LET g == GrownHeader(n)
               last == Max(Free)
           IN /\ Intact(g, NewHeap(n)) /\ Adjacent(g) = {}
              /\ NewSlot \notin BlocksOf(header) /\ last \in FreeOf(g) /\ last # Nil
              /\ BlocksOf(g) = BlocksOf(header) \cup {NewSlot}
              /\ FreeOf(g) = FreeOf(header) \cup {NewSlot}
              /\ FreeOf(header) \cup MergedOf(header) \subseteq FreeOf(g) \cup MergedOf(g)
              /\ g[last].next_free = NewSlot
    <1> DEFINE h == header
               g == GrownHeader(n)
               new == NewHeap(n)
               last == Max(Free)
               s == NewSlot
               size == HeapSize(n)
    <1>1. Typed(h) /\ Tiled(h, gc_heaps) /\ Linked(h, FreeOf(h)) /\ LinksLead(h)
        BY DEF Intact
    <1>2. /\ FreeOf(h) \subseteq BlocksOf(h) /\ BlocksOf(h) \subseteq DOMAIN h
          /\ BlocksOf(h) \in SUBSET Nat /\ FreeOf(h) \in SUBSET Nat
        BY <1>1, TypesOfBlocks
    <1>3. \A x \in DOMAIN h : /\ x \in Nat \ {0} /\ h[x].size \in Nat /\ h[x] \in Header
                              /\ EndOf(h, x) \in Nat /\ x < EndOf(h, x)
        BY <1>1, TypesOfBlocks DEF Typed
    <1>4. last \in FreeOf(h) /\ \A c \in FreeOf(h) : c <= last
        BY MaxFree, Names
    <1>5. s \in Nat \ {0} /\ size \in Nat /\ \A k \in DOMAIN gc_heaps : TopOf(gc_heaps[k]) < s
        BY NewSlotAbove, HeapsGrow
    <1>6. \A x \in BlocksOf(h) : x < s /\ EndOf(h, x) < s
        <2> SUFFICES ASSUME NEW x \in BlocksOf(h)
                     PROVE  x < s /\ EndOf(h, x) < s
            OBVIOUS
        <2>1. PICK k \in DOMAIN gc_heaps : Within(h, x, gc_heaps[k])
            BY <1>1 DEF Tiled
        <2>2. EndOf(h, x) <= TopOf(gc_heaps[k]) /\ TopOf(gc_heaps[k]) \in Nat
              /\ TopOf(gc_heaps[k]) < s
            BY <1>5, <2>1, TypesOfHeaps DEF Within
        <2>3. x \in Nat /\ EndOf(h, x) \in Nat /\ x < EndOf(h, x)
            BY <1>2, <1>3
        <2> HIDE DEF s
        <2> QED
            BY <1>5, <2>2, <2>3
    <1> HIDE DEF s, last, size
    <1>7. s # last /\ s \notin BlocksOf(h) /\ last \in DOMAIN h /\ h[last].flags = "free"
        BY <1>2, <1>4, <1>5, <1>6 DEF FreeOf
    <1>8. /\ DOMAIN g = DOMAIN h \cup {s}
          /\ g[s] = [flags |-> "free", size |-> size, next_free |-> h[last].next_free]
          /\ g[last] = [h[last] EXCEPT !.next_free = s]
          /\ \A x \in DOMAIN h \ {s, last} : g[x] = h[x]
        BY <1>7 DEF GrownHeader, NextFree, s, last, size
    <1> HIDE DEF g
    <1>9. h[last].next_free \in FreeOf(h) /\ h[last].next_free \in Nat /\ h[last] \in Header
        BY <1>1, <1>2, <1>3, <1>4, <1>7 DEF Linked, Follows
    <1>10. g[s] \in Header /\ g[s].flags = "free" /\ g[s].size = size
           /\ g[s].next_free = h[last].next_free
        BY <1>5, <1>8, <1>9 DEF Header
    <1>11. g[last] \in Header /\ g[last].flags = "free" /\ g[last].size = h[last].size
           /\ g[last].next_free = s
        BY <1>5, <1>7, <1>8, <1>9 DEF Header
    <1>12. Typed(g)
        BY <1>1, <1>5, <1>8, <1>10, <1>11 DEF Typed
    <1>13. BlocksOf(g) = BlocksOf(h) \cup {s}
        <2>1. \A x \in DOMAIN g : g[x].flags # "merged" <=> (x = s \/ x \in BlocksOf(h))
            <3>1. \A x \in DOMAIN h \ {s, last} : g[x].flags # "merged" <=> x \in BlocksOf(h)
                BY <1>8 DEF BlocksOf
            <3>2. last \in BlocksOf(h)
                BY <1>2, <1>4
            <3> QED
                BY <1>8, <1>10, <1>11, <3>1, <3>2
        <2> QED
            BY <1>2, <1>8, <2>1 DEF BlocksOf
    <1>14. FreeOf(g) = FreeOf(h) \cup {s}
        <2>1. \A x \in BlocksOf(g) : g[x].flags = "free" <=> (x = s \/ x \in FreeOf(h))
            <3>1. \A x \in BlocksOf(h) \ {s, last} : g[x].flags = "free" <=> x \in FreeOf(h)
                BY <1>2, <1>8 DEF FreeOf
            <3> QED
                BY <1>4, <1>10, <1>11, <1>13, <3>1
        <2> QED
            BY <1>2, <1>13, <2>1 DEF FreeOf
    <1>15. MergedOf(g) = MergedOf(h) \ {s}
        BY <1>2, <1>7, <1>8, <1>13 DEF MergedOf
    <1>16. EndOf(g, s) = s + HEADER_SIZE + size /\ \A x \in BlocksOf(h) : EndOf(g, x) = EndOf(h, x)
        <2>1. \A x \in BlocksOf(h) : g[x].size = h[x].size
            BY <1>2, <1>7, <1>8, <1>11
        <2> QED
            BY <1>10, <2>1 DEF EndOf
    <1>17. /\ DOMAIN new = DOMAIN gc_heaps \cup {Len(new)}
           /\ \A k \in DOMAIN gc_heaps : new[k] = gc_heaps[k]
           /\ new[Len(new)] = [slot |-> s, size |-> size]
        BY HeapsGrow DEF s, size
    <1> HIDE DEF new
    <1>18. new[Len(new)].slot = s /\ TopOf(new[Len(new)]) = EndOf(g, s)
        BY <1>16, <1>17 DEF TopOf
    <1>19. EndOf(g, s) \in Nat /\ s < EndOf(g, s)
        BY <1>5, <1>16 DEF HEADER_SIZE
    <1>20. Tiled(g, new)
        <2>1. \A k \in DOMAIN new : new[k].slot \in BlocksOf(g)
            BY <1>1, <1>13, <1>17, <1>18 DEF Tiled
        <2>2. ASSUME NEW x \in BlocksOf(g)
              PROVE  \E k \in DOMAIN new : Within(g, x, new[k])
            <3>1. CASE x = s
                <4>1. Within(g, s, new[Len(new)])
                    BY <1>5, <1>18, <1>19 DEF Within
                <4> QED
                    BY <1>17, <3>1, <4>1
            <3>2. CASE x # s
                <4>1. x \in BlocksOf(h)
                    BY <1>13, <3>2
                <4>2. PICK k \in DOMAIN gc_heaps : Within(h, x, gc_heaps[k])
                    BY <1>1, <4>1 DEF Tiled
                <4>3. Within(g, x, new[k])
                    BY <1>13, <1>16, <1>17, <4>1, <4>2 DEF Within
                <4> QED
                    BY <1>17, <4>3
            <3> QED
                BY <3>1, <3>2
        <2>3. ASSUME NEW x \in BlocksOf(g), NEW y \in BlocksOf(g), x < y
              PROVE  EndOf(g, x) <= y
            <3>1. x # s
                <4>1. y \in BlocksOf(h) => y < s /\ y \in Nat
                    BY <1>2, <1>6
                <4> QED
                    BY <1>5, <1>13, <2>3, <4>1
            <3>2. x \in BlocksOf(h) /\ EndOf(g, x) = EndOf(h, x) /\ EndOf(h, x) \in Nat
                BY <1>2, <1>3, <1>13, <1>16, <3>1
            <3>3. CASE y = s
                BY <1>5, <1>6, <3>2, <3>3
            <3>4. CASE y # s
                BY <1>1, <1>13, <2>3, <3>2, <3>4 DEF Tiled
            <3> QED
                BY <3>3, <3>4
        <2> QED
            BY <2>1, <2>2, <2>3 DEF Tiled
    <1>21. Linked(g, FreeOf(g))
        <2>1. s \in Nat \ FreeOf(h) /\ s > last
            BY <1>2, <1>4, <1>5, <1>6
        <2>2. last >= h[last].next_free
            BY <1>2, <1>4, <1>9
        <2>3. \A x \in FreeOf(h) \ {last} : g[x].next_free = h[x].next_free
            BY <1>2, <1>7, <1>8
        <2>4. Linked(g, FreeOf(h) \cup {s})
            BY <1>1, <1>2, <1>4, <1>10, <1>11, <2>1, <2>2, <2>3, PutIn
        <2> QED
            BY <1>14, <2>4
    <1>22. LinksLead(g)
        <2>1. FreeOf(g) \cup MergedOf(g) = FreeOf(h) \cup MergedOf(h) \cup {s}
            BY <1>14, <1>15
        <2>2. \A x \in FreeOf(h) \cup MergedOf(h) : x \in DOMAIN h
            BY <1>2 DEF MergedOf
        <2>3. ASSUME NEW x \in FreeOf(g) \cup MergedOf(g)
              PROVE  g[x].next_free \in FreeOf(g) \cup MergedOf(g)
            <3>1. CASE x \in {s, last}
                BY <1>9, <1>10, <1>11, <2>1, <3>1
            <3>2. CASE x \notin {s, last}
                <4>1. g[x].next_free = h[x].next_free /\ x \in FreeOf(h) \cup MergedOf(h)
                    BY <1>8, <2>1, <2>2, <3>2
                <4> QED
                    BY <1>1, <2>1, <4>1 DEF LinksLead
            <3> QED
                BY <3>1, <3>2
        <2> QED
            BY <2>3 DEF LinksLead
    <1>23. Adjacent(g) = {}
        <2>1. ASSUME NEW x \in Adjacent(g)
              PROVE  FALSE
            <3>1. x \in FreeOf(h) \cup {s} /\ EndOf(g, x) \in FreeOf(h) \cup {s}
                BY <1>14, <2>1 DEF Adjacent
            <3>2. \A y \in FreeOf(h) \cup {s} : y \in Nat /\ y <= s
                BY <1>2, <1>5, <1>6
            <3>3. x # s
                BY <1>5, <1>19, <3>1, <3>2
            <3>4. x \in FreeOf(h) /\ x \in BlocksOf(h) /\ EndOf(g, x) = EndOf(h, x) /\ EndOf(h, x) # s
                BY <1>2, <1>3, <1>5, <1>6, <1>16, <3>1, <3>3
            <3>5. x \in Adjacent(h)
                BY <3>1, <3>4 DEF Adjacent
            <3> QED
                BY <3>5
        <2> QED
            BY <2>1
    <1>24. FreeOf(h) \cup MergedOf(h) \subseteq FreeOf(g) \cup MergedOf(g)
        BY <1>14, <1>15
    <1>25. last \in FreeOf(g) /\ last # Nil
        BY <1>3, <1>4, <1>7, <1>14 DEF Nil
    <1>26. Intact(g, new)
        BY <1>12, <1>20, <1>21, <1>22 DEF Intact
    <1> QED
        BY <1>7, <1>11, <1>13, <1>14, <1>23, <1>24, <1>25, <1>26 DEF g, new, last, s

--------------------------------------------------------------------------------
(* The steps.                                                              *)

LEMMA NamesNext ==
    /\ Block' = BlocksOf(header') /\ Free' = FreeOf(header')
    /\ InUse' = BlocksOf(header') \ FreeOf(header')
    BY DEF Block, BlocksOf, Free, FreeOf, InUse

\* What has to be shown of a step.
LEMMA Assembled ==
    ASSUME HeapsInOrder(gc_heaps'), Intact(header', gc_heaps'), Adjacent(header') = {},
           IF free_list' = Nil THEN gc_heaps' = <<>> ELSE free_list' \in FreeOf(header'),
           DOMAIN word' = BlocksOf(header') \ FreeOf(header'),
           request' \in Nat, Position'
    PROVE  IInv'
    BY NamesNext DEF IInv

LEMMA Facts ==
    ASSUME IInv
    PROVE  /\ HeapsInOrder(gc_heaps) /\ Intact(header, gc_heaps) /\ Adjacent(header) = {}
           /\ Typed(header) /\ Tiled(header, gc_heaps) /\ Linked(header, FreeOf(header))
           /\ LinksLead(header)
           /\ DOMAIN word = BlocksOf(header) \ FreeOf(header)
           /\ IF free_list = Nil THEN gc_heaps = <<>> ELSE free_list \in FreeOf(header)
           /\ gc_heaps # <<>> => Free # {} /\ 1 \in DOMAIN gc_heaps
           /\ FreeOf(header) # {} => gc_heaps # <<>>
    <1>1. Typed(header) /\ Tiled(header, gc_heaps) /\ HeapsInOrder(gc_heaps)
        BY DEF IInv, Intact
    <1>2. FreeOf(header) # {} => gc_heaps # <<>>
        <2>1. FreeOf(header) \subseteq BlocksOf(header)
            BY <1>1, TypesOfBlocks
        <2> QED
            BY <1>1, <2>1, BelowTop
    <1>3. gc_heaps # <<>> => 1 \in DOMAIN gc_heaps
        BY <1>1, TypesOfHeaps, EmptySeq DEF HeapsInOrder
    <1> QED
        BY <1>1, <1>2, <1>3, Names DEF IInv, Intact

\* A step that leaves all but roots, the words of the blocks and the bound alone.
LEMMA SameHeap ==
    ASSUME IInv, DOMAIN word' = DOMAIN word,
           UNCHANGED <<header, gc_heaps, free_list, pc, request, p, prevp, i, cur>>
    PROVE  IInv'
    <1>1. Position'
        BY NamesNext, Names DEF IInv, Position, NextFree
    <1> QED
        BY <1>1, Facts, Assembled DEF IInv

\* A step after which nothing is demanded of the call.
LEMMA Stopped ==
    ASSUME IInv, pc' \in {"abort", "corrupt"}, request' \in Nat,
           UNCHANGED <<header, gc_heaps, free_list, word>>
    PROVE  IInv'
    <1>1. Position'
        BY DEF Position
    <1> QED
        BY <1>1, Facts, Assembled DEF IInv

\* Marking and unmarking blocks in use.
LEMMA ReflaggedKeeps ==
    ASSUME NEW h, NEW g, NEW heaps, Intact(h, heaps), DOMAIN g = DOMAIN h,
           \A x \in DOMAIN h :
              \/ g[x] = h[x]
              \/ /\ x \in BlocksOf(h) \ FreeOf(h)
                 /\ \E f \in {"alloc", "marked"} : g[x] = [h[x] EXCEPT !.flags = f]
    PROVE  /\ Intact(g, heaps) /\ Adjacent(g) = Adjacent(h)
           /\ BlocksOf(g) = BlocksOf(h) /\ FreeOf(g) = FreeOf(h) /\ MergedOf(g) = MergedOf(h)
           /\ \A x \in DOMAIN h : g[x].size = h[x].size /\ g[x].next_free = h[x].next_free
    <1>1. Typed(h) /\ Tiled(h, heaps) /\ Linked(h, FreeOf(h)) /\ LinksLead(h)
        BY DEF Intact
    <1>2. FreeOf(h) \subseteq BlocksOf(h) /\ BlocksOf(h) \subseteq DOMAIN h
        BY <1>1, TypesOfBlocks
    <1>3. ASSUME NEW x \in DOMAIN h
          PROVE  /\ g[x] \in Header
                 /\ g[x].size = h[x].size /\ g[x].next_free = h[x].next_free
                 /\ g[x].flags # "merged" <=> x \in BlocksOf(h)
                 /\ g[x].flags = "free" <=> h[x].flags = "free"
        <2>1. h[x] \in Header
            BY <1>1 DEF Typed
        <2>2. h[x].flags # "merged" <=> x \in BlocksOf(h)
            BY DEF BlocksOf
        <2>3. CASE g[x] = h[x]
            BY <2>1, <2>2, <2>3
        <2>4. CASE x \in BlocksOf(h) \ FreeOf(h) /\ \E f \in {"alloc", "marked"} : g[x] = [h[x] EXCEPT !.flags = f]
            <3>1. PICK f \in {"alloc", "marked"} : g[x] = [h[x] EXCEPT !.flags = f]
                BY <2>4
            <3>2. h[x].flags # "free"
                BY <2>4 DEF FreeOf
            <3> QED
                BY <2>1, <2>4, <3>1, <3>2 DEF Header
        <2> QED
            BY <2>3, <2>4
    <1>4. Typed(g)
        BY <1>1, <1>3 DEF Typed
    <1>5. BlocksOf(g) = BlocksOf(h)
        BY <1>2, <1>3 DEF BlocksOf
    <1>6. FreeOf(g) = FreeOf(h)
        BY <1>2, <1>3, <1>5 DEF FreeOf
    <1>7. MergedOf(g) = MergedOf(h)
        BY <1>5 DEF MergedOf
    <1>8. \A x \in FreeOf(h) \cup MergedOf(g) : g[x].next_free = h[x].next_free
        BY <1>2, <1>3, <1>7 DEF MergedOf
    <1>9. Intact(g, heaps) /\ Adjacent(g) = Adjacent(h)
        BY <1>1, <1>2, <1>3, <1>4, <1>5, <1>6, <1>7, <1>8, SameBlocks
    <1> QED
        BY <1>3, <1>5, <1>6, <1>7, <1>9

\* gc_mark, from the client or from mini_gc_malloc.
LEMMA MarkStep ==
    ASSUME IInv, gc_mark, gc_heaps # <<>>,
           request # 0 => p \in FreeOf(header) \cup MergedOf(header),
           UNCHANGED <<gc_heaps, free_list, client, search>>
    PROVE  IInv'
    <1>1. /\ header' = [a \in DOMAIN header |->
                    IF a \in Marked THEN [header[a] EXCEPT !.flags = "marked"] ELSE header[a]]
          /\ i' = 1 /\ cur' = gc_heaps[1].slot /\ pc' = "sweep"
        BY DEF gc_mark
    <1>2. Marked \subseteq BlocksOf(header) \ FreeOf(header)
        BY Names DEF Marked, Reached, Reachable
    <1>3. DOMAIN header' = DOMAIN header
        BY <1>1
    <1>4. \A x \in DOMAIN header :
              \/ header'[x] = header[x]
              \/ /\ x \in BlocksOf(header) \ FreeOf(header)
                 /\ \E f \in {"alloc", "marked"} : header'[x] = [header[x] EXCEPT !.flags = f]
        BY <1>1, <1>2
    <1>5. /\ Intact(header', gc_heaps) /\ Adjacent(header') = Adjacent(header)
          /\ BlocksOf(header') = BlocksOf(header) /\ FreeOf(header') = FreeOf(header)
          /\ MergedOf(header') = MergedOf(header)
        BY <1>3, <1>4, Facts, ReflaggedKeeps
    <1>6. 1 \in DOMAIN gc_heaps /\ gc_heaps[1].slot \in BlocksOf(header) /\ gc_heaps[1].slot \in Nat
        BY Facts, TypesOfBlocks DEF Tiled
    <1>7. Position'
        BY <1>1, <1>5, <1>6, NamesNext DEF Position, search
    <1> QED
        BY <1>5, <1>7, Facts, Assembled DEF IInv, client, search

\* Where gc_sweep is.
LEMMA SweepAt ==
    ASSUME IInv, pc = "sweep", InHeap
    PROVE  /\ i \in DOMAIN gc_heaps /\ gc_heaps[i].slot <= cur /\ cur \in BlocksOf(header)
           /\ Within(header, cur, gc_heaps[i])
           /\ NEXT_HEADER(cur) = EndOf(header, cur)
           /\ gc_heaps[i].slot \in Nat /\ cur \in Nat /\ EndOf(header, cur) \in Nat
           /\ cur < EndOf(header, cur)
    <1>1. /\ i \in DOMAIN gc_heaps /\ gc_heaps[i].slot <= cur
          /\ cur \in Block \/ cur = TopOf(gc_heaps[i])
        BY DEF IInv, Position
    <1>2. /\ gc_heaps[i].slot \in Nat /\ gc_heaps[i].size \in Nat /\ TopOf(gc_heaps[i]) \in Nat
          /\ gc_heaps[i].slot + gc_heaps[i].size < TopOf(gc_heaps[i])
        BY <1>1, Facts, TypesOfHeaps
    <1>3. cur < gc_heaps[i].slot + gc_heaps[i].size
        BY DEF InHeap
    <1>4. cur \in BlocksOf(header)
        BY <1>1, <1>2, <1>3, Names
    <1>5. cur \in Nat /\ EndOf(header, cur) \in Nat /\ cur < EndOf(header, cur)
        BY <1>4, Facts, TypesOfBlocks
    <1>6. cur < TopOf(gc_heaps[i])
        BY <1>2, <1>3, <1>5
    <1>7. Within(header, cur, gc_heaps[i])
        BY <1>1, <1>4, <1>6, Facts, OneHeap
    <1> QED
        BY <1>1, <1>2, <1>4, <1>5, <1>7, Names

LEMMA SweepKeptStep ==
    ASSUME IInv, SweepKept
    PROVE  IInv'
    <1>1. /\ pc = "sweep" /\ InHeap /\ header[cur].flags # "alloc"
          /\ header' = [header EXCEPT ![cur].flags = Unmarked(@)]
          /\ cur' = NEXT_HEADER(cur)
          /\ UNCHANGED <<gc_heaps, free_list, word, pc, request, p, prevp, i>>
        BY DEF SweepKept, client, search
    <1>2. /\ i \in DOMAIN gc_heaps /\ gc_heaps[i].slot <= cur /\ cur \in BlocksOf(header)
          /\ Within(header, cur, gc_heaps[i])
          /\ NEXT_HEADER(cur) = EndOf(header, cur)
          /\ gc_heaps[i].slot \in Nat /\ cur \in Nat /\ EndOf(header, cur) \in Nat
          /\ cur < EndOf(header, cur)
        BY <1>1, SweepAt
    <1>3. cur \in DOMAIN header /\ header[cur] \in Header /\ header[cur].flags # "merged"
        BY <1>2, Facts, TypesOfBlocks DEF BlocksOf, Typed
    <1>4. /\ DOMAIN header' = DOMAIN header
          /\ \A x \in DOMAIN header \ {cur} : header'[x] = header[x]
          /\ header'[cur] = [header[cur] EXCEPT !.flags = Unmarked(header[cur].flags)]
        BY <1>1, <1>3
    <1>5. \/ header'[cur] = header[cur]
          \/ /\ cur \in BlocksOf(header) \ FreeOf(header)
             /\ \E f \in {"alloc", "marked"} : header'[cur] = [header[cur] EXCEPT !.flags = f]
        <2>1. CASE header[cur].flags = "free"
            BY <1>3, <1>4, <2>1 DEF Unmarked, Header
        <2>2. CASE header[cur].flags = "marked"
            BY <1>2, <1>3, <1>4, <2>2 DEF Unmarked, FreeOf
        <2> QED
            BY <1>1, <1>3, <2>1, <2>2 DEF Header
    <1>6. \A x \in DOMAIN header :
              \/ header'[x] = header[x]
              \/ /\ x \in BlocksOf(header) \ FreeOf(header)
                 /\ \E f \in {"alloc", "marked"} : header'[x] = [header[x] EXCEPT !.flags = f]
        BY <1>4, <1>5
    <1>7. /\ Intact(header', gc_heaps) /\ Adjacent(header') = Adjacent(header)
          /\ BlocksOf(header') = BlocksOf(header) /\ FreeOf(header') = FreeOf(header)
          /\ MergedOf(header') = MergedOf(header)
        BY <1>4, <1>6, Facts, ReflaggedKeeps
    <1>8. gc_heaps[i].slot <= cur' /\ (cur' \in BlocksOf(header) \/ cur' = TopOf(gc_heaps[i]))
        BY <1>1, <1>2 DEF Within
    <1>9. gc_heaps # <<>> /\ (request # 0 => p \in FreeOf(header) \cup MergedOf(header))
        BY <1>1 DEF IInv, Position
    <1>10. Position'
        BY <1>1, <1>2, <1>7, <1>8, <1>9, NamesNext DEF Position
    <1> QED
        BY <1>1, <1>7, <1>10, Facts, Assembled DEF IInv

LEMMA SweepFreeStep ==
    ASSUME IInv, SweepFree
    PROVE  IInv'
    <1>1. /\ pc = "sweep" /\ InHeap /\ header[cur].flags = "alloc"
          /\ ~Swallowed(cur) /\ header' = Freed(cur) /\ free_list' = Hit(cur)
          /\ DOMAIN word' = InUse \ {cur}
          /\ cur' = cur + HEADER_SIZE + header'[cur].size
          /\ UNCHANGED <<gc_heaps, pc, request, p, prevp, i>>
        BY DEF SweepFree, mini_gc_free, client, search
    <1>2. /\ i \in DOMAIN gc_heaps /\ gc_heaps[i].slot <= cur /\ cur \in BlocksOf(header)
          /\ Within(header, cur, gc_heaps[i])
          /\ gc_heaps[i].slot \in Nat /\ cur \in Nat
        BY <1>1, SweepAt
    <1>3. cur \in InUse
        BY <1>1, <1>2, Names DEF FreeOf
    <1>4. gc_heaps # <<>> /\ (request # 0 => p \in FreeOf(header) \cup MergedOf(header))
        BY <1>1 DEF IInv, Position
    <1>5. Free # {}
        BY <1>4, Facts
    <1> DEFINE g == Freed(cur)
               n == cur + HEADER_SIZE + g[cur].size
    <1>6. /\ Intact(g, gc_heaps) /\ Adjacent(g) = {}
          /\ Hit(cur) \in FreeOf(g) /\ Hit(cur) # Nil
          /\ BlocksOf(g) \ FreeOf(g) = InUse \ {cur}
          /\ FreeOf(header) \cup MergedOf(header) \subseteq FreeOf(g) \cup MergedOf(g)
          /\ n \in Nat /\ cur < n
          /\ \A k \in DOMAIN gc_heaps : Within(header, cur, gc_heaps[k]) =>
                n <= TopOf(gc_heaps[k]) /\ (n \in BlocksOf(g) \/ n = TopOf(gc_heaps[k]))
        BY <1>1, <1>3, <1>5, Facts, FreedKeeps
    <1>7. g = header' /\ n = cur'
        BY <1>1
    <1> HIDE DEF g, n
    <1>8. gc_heaps[i].slot <= cur'
        BY <1>2, <1>6, <1>7
    <1>9. Position'
        BY <1>1, <1>2, <1>4, <1>6, <1>7, <1>8, NamesNext DEF Position
    <1> QED
        BY <1>1, <1>6, <1>7, <1>9, Facts, Assembled DEF IInv

LEMMA SweepNextHeapStep ==
    ASSUME IInv, SweepNextHeap
    PROVE  IInv'
    <1>1. /\ pc = "sweep" /\ i < Len(gc_heaps) /\ i' = i + 1 /\ cur' = gc_heaps[i + 1].slot
          /\ UNCHANGED <<header, gc_heaps, free_list, word, pc, request, p, prevp>>
        BY DEF SweepNextHeap, client, search
    <1>2. i + 1 \in DOMAIN gc_heaps /\ gc_heaps[i + 1].slot \in BlocksOf(header)
          /\ gc_heaps[i + 1].slot \in Nat
        <2>1. i \in DOMAIN gc_heaps
            BY <1>1 DEF IInv, Position
        <2>2. i + 1 \in DOMAIN gc_heaps
            BY <1>1, <2>1, Facts, TypesOfHeaps
        <2> QED
            BY <2>2, Facts, TypesOfHeaps DEF Tiled
    <1>3. gc_heaps # <<>> /\ (request # 0 => p \in FreeOf(header) \cup MergedOf(header))
        BY <1>1 DEF IInv, Position
    <1>4. Position'
        BY <1>1, <1>2, <1>3, NamesNext DEF Position
    <1> QED
        BY <1>1, <1>4, Facts, Assembled DEF IInv

LEMMA SweepDoneStep ==
    ASSUME IInv, SweepDone
    PROVE  IInv'
    <1>1. pc = "sweep" /\ UNCHANGED <<gc_heaps, free_list, word>>
        BY DEF SweepDone, client
    <1>2. gc_heaps # <<>> /\ (request # 0 => p \in FreeOf(header) \cup MergedOf(header))
        BY <1>1 DEF IInv, Position
    <1>3. CASE request = 0
        <2>1. header' = WithoutMerged(header) /\ pc' = "run" /\ request' = request
            BY <1>3 DEF SweepDone, search
        <2>2. /\ Intact(header', gc_heaps) /\ Adjacent(header') = Adjacent(header)
              /\ BlocksOf(header') = BlocksOf(header) /\ FreeOf(header') = FreeOf(header)
              /\ MergedOf(header') = {}
            BY <2>1, Facts, Forgotten
        <2>3. Position'
            BY <1>3, <2>1, <2>2 DEF Position
        <2> QED
            BY <1>1, <2>1, <2>2, <2>3, Facts, Assembled DEF IInv
    <1>4. CASE request # 0
        <2>1. /\ prevp' = p /\ p' = NextFree(p) /\ pc' = "search"
              /\ UNCHANGED <<header, request>>
            BY <1>4 DEF SweepDone
        <2>2. NextFree(p) \in FreeOf(header) \cup MergedOf(header)
            BY <1>2, <1>4, Facts DEF LinksLead, NextFree
        <2>3. Position'
            BY <1>1, <1>2, <1>4, <2>1, <2>2 DEF Position, NextFree
        <2> QED
            BY <1>1, <2>1, <2>3, Facts, Assembled DEF IInv
    <1> QED
        BY <1>3, <1>4

LEMMA ClientFreeStep ==
    ASSUME IInv, ClientFree
    PROVE  IInv'
    <1>1. PICK target \in InUse :
            IF Swallowed(target)
            THEN pc' = "corrupt" /\ UNCHANGED <<header, free_list, client>>
            ELSE /\ header' = WithoutMerged(Freed(target))
                 /\ free_list' = Hit(target)
                 /\ roots' = roots \ {Data(target)}
                 /\ word' = [a \in InUse \ {target} |-> word[a]]
                 /\ UNCHANGED pc
        BY DEF ClientFree
    <1>2. pc = "run" /\ UNCHANGED <<gc_heaps, request, p, prevp, i, cur>>
        BY DEF ClientFree, search, sweep
    <1>3. CASE Swallowed(target)
        BY <1>1, <1>2, <1>3, Stopped DEF client, IInv
    <1>4. CASE ~Swallowed(target)
        <2> DEFINE g == Freed(target)
        <2>1. header' = WithoutMerged(g) /\ free_list' = Hit(target)
              /\ DOMAIN word' = InUse \ {target} /\ pc' = "run"
            BY <1>1, <1>2, <1>4
        <2>2. Free # {}
            <3>1. target \in BlocksOf(header)
                BY Names
            <3> QED
                BY <3>1, Facts, BelowTop
        <2>3. /\ Intact(g, gc_heaps) /\ Adjacent(g) = {}
              /\ Hit(target) \in FreeOf(g) /\ Hit(target) # Nil
              /\ BlocksOf(g) \ FreeOf(g) = InUse \ {target}
            BY <1>4, <2>2, Facts, FreedKeeps
        <2> HIDE DEF g
        <2>4. /\ Intact(header', gc_heaps) /\ Adjacent(header') = {}
              /\ BlocksOf(header') = BlocksOf(g) /\ FreeOf(header') = FreeOf(g)
              /\ MergedOf(header') = {}
            BY <2>1, <2>3, Forgotten DEF Intact
        <2>5. request = 0
            BY <1>2 DEF IInv, Position
        <2>6. Position'
            BY <1>2, <2>1, <2>4, <2>5 DEF Position
        <2> QED
            BY <1>2, <2>1, <2>3, <2>4, <2>6, Facts, Assembled DEF IInv
    <1> QED
        BY <1>3, <1>4

LEMMA CollectNowStep ==
    ASSUME IInv, CollectNow
    PROVE  IInv'
    <1>1. request = 0
        BY DEF CollectNow, IInv, Position
    <1> QED
        BY <1>1, MarkStep DEF CollectNow

\* ALIGN rounds up.
LEMMA AlignType ==
    ASSUME NEW n \in Nat
    PROVE  ALIGN(n, PTRSIZE) \in Nat
    <1>1. ALIGN(n, PTRSIZE) = ((n + 8 - 1) \div 8) * 8
        BY DEF ALIGN, PTRSIZE
    <1> QED
        BY <1>1

LEMMA MallocStep ==
    ASSUME IInv, mini_gc_malloc
    PROVE  IInv'
    <1>1. PICK req_size \in Request :
            /\ request' = ALIGN(req_size, PTRSIZE)
            /\ IF free_list # Nil
               THEN /\ prevp' = free_list
                    /\ p' = NextFree(free_list)
                    /\ UNCHANGED <<header, gc_heaps, free_list>>
               ELSE /\ gc_heaps' = NewHeap(TINY_HEAP_SIZE)
                    /\ header' = [a \in {NewSlot} |-> [flags |-> "free", size |-> TINY_HEAP_SIZE,
                                                       next_free |-> NewSlot]]
                    /\ free_list' = NewSlot
                    /\ prevp' = NewSlot
                    /\ p' = NewSlot
        BY DEF mini_gc_malloc
    <1>2. pc = "run" /\ pc' = "search" /\ UNCHANGED <<word, i, cur>>
        BY DEF mini_gc_malloc, client, sweep
    <1>3. request' \in Nat
        BY <1>1, SizeAssumption, AlignType
    <1>4. MergedOf(header) = {}
        BY <1>2 DEF IInv, Position
    <1>5. CASE free_list # Nil
        <2>1. free_list \in FreeOf(header) /\ gc_heaps # <<>>
            BY <1>5, Facts
        <2>2. NextFree(free_list) \in FreeOf(header) \cup MergedOf(header)
            BY <2>1, Facts DEF LinksLead, NextFree
        <2>3. UNCHANGED <<header, gc_heaps, free_list>>
              /\ prevp' = free_list /\ p' = NextFree(free_list)
            BY <1>1, <1>5
        <2>4. Position'
            BY <1>2, <2>1, <2>2, <2>3 DEF Position, NextFree
        <2> QED
            BY <1>2, <1>3, <2>3, <2>4, Facts, Assembled
    <1>6. CASE free_list = Nil
        <2> DEFINE new == NewHeap(TINY_HEAP_SIZE)
                   s == NewSlot
                   n == TINY_HEAP_SIZE
        <2>1. /\ gc_heaps' = new /\ free_list' = s /\ prevp' = s /\ p' = s
              /\ header' = [a \in {s} |-> [flags |-> "free", size |-> n, next_free |-> s]]
            BY <1>1, <1>6
        <2>2. gc_heaps = <<>>
            BY <1>6, Facts
        <2>3. n \in Nat /\ HeapSize(n) = n
            BY SizeAssumption DEF HeapSize
        <2>4. BlocksOf(header) = {} /\ DOMAIN header = {}
            <3>1. BlocksOf(header) = {}
                BY <2>2, Facts, BelowTop
            <3> QED
                BY <1>4, <3>1 DEF MergedOf
        <2>5. /\ HeapsInOrder(new) /\ DOMAIN new = DOMAIN gc_heaps \cup {Len(new)} /\ new # <<>>
              /\ new[Len(new)] = [slot |-> s, size |-> n]
            BY <2>3, Facts, HeapsGrow
        <2>6. DOMAIN gc_heaps = {}
            BY <2>2, EmptySeq
        <2>7. s \in Nat \ {0}
            BY Facts, NewSlotAbove
        <2> DEFINE l == Len(new)
        <2>8. DOMAIN new = {l} /\ new[l].slot = s /\ TopOf(new[l]) = s + HEADER_SIZE + n
            BY <2>5, <2>6 DEF TopOf
        <2> HIDE DEF new, s, n, l
        <2>9. DOMAIN header' = {s} /\ header'[s] = [flags |-> "free", size |-> n, next_free |-> s]
            BY <2>1
        <2>10. Typed(header')
            BY <2>3, <2>7, <2>9 DEF Typed, Header
        <2>11. BlocksOf(header') = {s} /\ FreeOf(header') = {s} /\ MergedOf(header') = {}
            <3>1. BlocksOf(header') = {s}
                BY <2>9 DEF BlocksOf
            <3>2. FreeOf(header') = {s}
                BY <2>9, <3>1 DEF FreeOf
            <3> QED
                BY <2>9, <3>1, <3>2 DEF MergedOf
        <2>12. EndOf(header', s) = s + HEADER_SIZE + n /\ EndOf(header', s) \in Nat
               /\ s < EndOf(header', s)
            BY <2>3, <2>7, <2>9 DEF EndOf, HEADER_SIZE
        <2>13. Tiled(header', new)
            <3>1. Within(header', s, new[l])
                BY <2>7, <2>8, <2>12 DEF Within
            <3> QED
                BY <2>7, <2>8, <2>11, <3>1 DEF Tiled
        <2>14. Linked(header', FreeOf(header'))
            BY <2>7, <2>9, <2>11 DEF Linked, Follows
        <2>15. LinksLead(header')
            BY <2>9, <2>11 DEF LinksLead
        <2>16. Adjacent(header') = {}
            BY <2>7, <2>11, <2>12 DEF Adjacent
        <2>17. Intact(header', gc_heaps')
            BY <2>1, <2>10, <2>13, <2>14, <2>15 DEF Intact
        <2>18. Position'
            BY <1>2, <2>1, <2>5, <2>9, <2>11 DEF Position, NextFree
        <2>19. DOMAIN word' = BlocksOf(header') \ FreeOf(header')
            BY <1>2, <2>4, <2>11, Facts
        <2>20. free_list' # Nil /\ free_list' \in FreeOf(header')
            BY <2>1, <2>7, <2>11 DEF Nil
        <2>21. HeapsInOrder(gc_heaps')
            BY <2>1, <2>5
        <2> QED
            BY <1>3, <2>16, <2>17, <2>18, <2>19, <2>20, <2>21, Assembled
    <1> QED
        BY <1>5, <1>6

\* Where a search is: p and prevp are free blocks if no merge has swallowed them.
LEMMA SearchAt ==
    ASSUME IInv, pc = "search"
    PROVE  /\ {p, prevp} \subseteq FreeOf(header) \cup MergedOf(header)
           /\ header[prevp].next_free = p
           /\ Followed => {p, prevp} \subseteq FreeOf(header)
           /\ gc_heaps # <<>>
    <1>1. {p, prevp} \subseteq FreeOf(header) \cup MergedOf(header) /\ NextFree(prevp) = p /\ gc_heaps # <<>>
        BY DEF IInv, Position
    <1>2. BlocksOf(header) \cap MergedOf(header) = {}
        BY Facts, TypesOfBlocks
    <1> QED
        BY <1>1, <1>2, Names DEF NextFree, Followed

\* mini_gc_malloc returns a block.
LEMMA ReturnStep ==
    ASSUME IInv, NEW h, NEW block, NEW f, Return(h, block, f), UNCHANGED gc_heaps,
           LET g == WithoutMerged([h EXCEPT ![block].flags = f]) IN
               /\ Intact(g, gc_heaps) /\ Adjacent(g) = {} /\ MergedOf(g) = {}
               /\ BlocksOf(g) \ FreeOf(g) = InUse \cup {block}
               /\ prevp \in FreeOf(g)
    PROVE  IInv'
    <1>1. /\ header' = WithoutMerged([h EXCEPT ![block].flags = f])
          /\ free_list' = prevp /\ pc' = "run" /\ request' = 0
          /\ DOMAIN word' = InUse \cup {block}
        BY DEF Return
    <1>2. /\ Intact(header', gc_heaps) /\ Adjacent(header') = {} /\ MergedOf(header') = {}
          /\ BlocksOf(header') \ FreeOf(header') = InUse \cup {block}
          /\ prevp \in FreeOf(header')
        BY <1>1
    <1>3. prevp # Nil
        BY <1>2, TypesOfBlocks DEF Intact
    <1>4. Position'
        BY <1>1, <1>2 DEF Position
    <1> QED
        BY <1>1, <1>2, <1>3, <1>4, Facts, Assembled

LEMMA TakeBlockStep ==
    ASSUME IInv, TakeBlock
    PROVE  IInv'
    <1>1. pc = "search" /\ prevp # p /\ Followed /\ UNCHANGED gc_heaps
          /\ Return([header EXCEPT ![prevp].next_free = NextFree(p)], p, "alloc")
        BY DEF TakeBlock, OnlyBlock
    <1>2. p \in FreeOf(header) \ {prevp} /\ prevp \in FreeOf(header) /\ header[prevp].next_free = p
        BY <1>1, SearchAt
    <1> DEFINE h == [header EXCEPT ![prevp].next_free = header[p].next_free]
               g == WithoutMerged(Taken(header, prevp, p))
    <1>3. /\ Intact(g, gc_heaps) /\ Adjacent(g) = {}
          /\ BlocksOf(g) = BlocksOf(header) /\ FreeOf(g) = FreeOf(header) \ {p} /\ MergedOf(g) = {}
        <2>1. Intact(header, gc_heaps) /\ Adjacent(header) = {}
            BY Facts
        <2>2. g = WithoutMerged(Taken(header, prevp, p))
            OBVIOUS
        <2>3. p \in FreeOf(header) /\ p # prevp /\ prevp \in FreeOf(header) /\ header[prevp].next_free = p
            BY <1>2
        <2> HIDE DEF g, h
        <2> QED
            BY <2>1, <2>2, <2>3, TakenKeeps
    <1>4. Return(h, p, "alloc")
        BY <1>1 DEF NextFree
    <1>5. g = WithoutMerged([h EXCEPT ![p].flags = "alloc"])
        BY DEF Taken
    <1> HIDE DEF h, g
    <1>6. p \in BlocksOf(header)
        BY <1>2, Facts, TypesOfBlocks
    <1>7. BlocksOf(g) \ FreeOf(g) = InUse \cup {p} /\ prevp \in FreeOf(g)
        BY <1>2, <1>3, <1>6, Names
    <1> QED
        BY <1>1, <1>3, <1>4, <1>5, <1>7, ReturnStep

LEMMA SplitBlockStep ==
    ASSUME IInv, SplitBlock
    PROVE  IInv'
    <1> DEFINE rest == Size(p) - (request + HEADER_SIZE)
               block == p + HEADER_SIZE + rest
               h == [a \in DOMAIN header \cup {block} |->
                        IF a = p THEN [header[a] EXCEPT !.size = rest]
                        ELSE IF a = block
                        THEN [flags |-> "free", size |-> request, next_free |-> Nil]
                        ELSE header[a]]
    <1>1. PICK f \in {"alloc", "marked"} : Return(h, block, f)
        BY DEF SplitBlock, CarvedFlags
    <1>2. pc = "search" /\ Enough /\ Followed /\ UNCHANGED gc_heaps
        BY DEF SplitBlock
    <1> DEFINE g == WithoutMerged([h EXCEPT ![block].flags = f])
    <1>3. p \in FreeOf(header) /\ prevp \in FreeOf(header)
        BY <1>2, SearchAt
    <1>4. request \in Nat /\ header[p].size >= request + HEADER_SIZE
        BY <1>2 DEF IInv, Enough, Size
    <1>5. /\ Intact(g, gc_heaps) /\ Adjacent(g) = {}
          /\ block \notin BlocksOf(header) /\ BlocksOf(g) = BlocksOf(header) \cup {block}
          /\ FreeOf(g) = FreeOf(header) /\ MergedOf(g) = {}
        <2>1. block = CarvedAt(header, p, request)
            BY DEF Size, CarvedAt
        <2>2. g = WithoutMerged(Split(header, p, request, f))
            BY DEF Size, CarvedAt, Split
        <2> HIDE DEF rest, block, h, g
        <2> QED
            BY <1>3, <1>4, <2>1, <2>2, Facts, SplitKeeps
    <1> HIDE DEF h, block
    <1>6. FreeOf(header) \subseteq BlocksOf(header)
        BY Facts, TypesOfBlocks
    <1>7. BlocksOf(g) \ FreeOf(g) = InUse \cup {block} /\ prevp \in FreeOf(g)
        BY <1>3, <1>5, <1>6, Names
    <1> QED
        BY <1>1, <1>2, <1>5, <1>7, ReturnStep

LEMMA TryNextStep ==
    ASSUME IInv, TryNext
    PROVE  IInv'
    <1>1. /\ pc = "search" /\ prevp' = p /\ p' = NextFree(p)
          /\ UNCHANGED <<header, gc_heaps, free_list, word, pc, request, i, cur>>
        BY DEF TryNext, client, sweep
    <1>2. p \in FreeOf(header) \cup MergedOf(header) /\ gc_heaps # <<>>
        BY <1>1, SearchAt
    <1>3. NextFree(p) \in FreeOf(header) \cup MergedOf(header)
        BY <1>2, Facts DEF LinksLead, NextFree
    <1>4. Position'
        BY <1>1, <1>2, <1>3 DEF Position, NextFree
    <1> QED
        BY <1>1, <1>4, Facts, Assembled DEF IInv

LEMMA CollectFirstStep ==
    ASSUME IInv, CollectFirst
    PROVE  IInv'
    <1>1. p \in FreeOf(header) \cup MergedOf(header) /\ gc_heaps # <<>>
        BY SearchAt DEF CollectFirst
    <1> QED
        BY <1>1, MarkStep DEF CollectFirst

LEMMA GrowStep ==
    ASSUME IInv, Grow
    PROVE  IInv'
    <1>1. /\ pc = "search" /\ gc_heaps' = NewHeap(request) /\ header' = GrownHeader(request)
          /\ free_list' = Max(Free) /\ prevp' = Max(Free) /\ p' = NewSlot
          /\ UNCHANGED <<word, pc, request, i, cur>>
        BY DEF Grow, client, sweep
    <1>2. request \in Nat /\ Free # {}
        BY <1>1, SearchAt, Facts DEF IInv
    <1>3. /\ Intact(header', gc_heaps') /\ Adjacent(header') = {}
          /\ NewSlot \notin BlocksOf(header) /\ Max(Free) \in FreeOf(header') /\ Max(Free) # Nil
          /\ BlocksOf(header') = BlocksOf(header) \cup {NewSlot}
          /\ FreeOf(header') = FreeOf(header) \cup {NewSlot}
          /\ header'[Max(Free)].next_free = NewSlot
        BY <1>1, <1>2, Facts, GrownKeeps
    <1>4. HeapsInOrder(gc_heaps') /\ gc_heaps' # <<>>
        BY <1>1, <1>2, Facts, HeapsGrow
    <1>5. Position'
        BY <1>1, <1>3, <1>4 DEF Position, NextFree
    <1>6. DOMAIN word' = BlocksOf(header') \ FreeOf(header')
        BY <1>1, <1>3, Facts
    <1> QED
        BY <1>1, <1>2, <1>3, <1>4, <1>5, <1>6, Assembled

LEMMA GrowFailsStep ==
    ASSUME IInv, GrowFails
    PROVE  IInv'
    <1>1. /\ pc' \in {"run", "abort"} /\ header' = WithoutMerged(header) /\ request' = 0
          /\ UNCHANGED <<gc_heaps, free_list, word>>
        BY DEF GrowFails, client
    <1>2. /\ Intact(header', gc_heaps) /\ Adjacent(header') = Adjacent(header)
          /\ BlocksOf(header') = BlocksOf(header) /\ FreeOf(header') = FreeOf(header)
          /\ MergedOf(header') = {}
        BY <1>1, Facts, Forgotten
    <1>3. Position'
        BY <1>1, <1>2 DEF Position
    <1> QED
        BY <1>1, <1>2, <1>3, Facts, Assembled

\* Every step keeps the invariant.
LEMMA Step ==
    ASSUME IInv, [Next]_vars
    PROVE  IInv'
    <1>1. CASE DropRoot \/ StoreWord \/ LoadWord
        <2>1. UNCHANGED <<header, gc_heaps, free_list, pc, request, p, prevp, i, cur>>
            BY <1>1 DEF DropRoot, StoreWord, LoadWord, search, sweep
        <2>2. DOMAIN word' = DOMAIN word
            BY <1>1 DEF DropRoot, StoreWord, LoadWord
        <2> QED
            BY <2>1, <2>2, SameHeap
    <1>2. CASE SweepSwallows \/ TakeCorrupts
        <2>1. pc' = "corrupt" /\ UNCHANGED <<header, gc_heaps, free_list, word, request>>
            BY <1>2 DEF SweepSwallows, TakeCorrupts, client, search
        <2> QED
            BY <2>1, Stopped DEF IInv
    <1>3. CASE Ended \/ UNCHANGED vars
        <2>1. UNCHANGED <<header, gc_heaps, free_list, word, pc, request, p, prevp, i, cur>>
            BY <1>3 DEF Ended, vars, client, search, sweep
        <2> QED
            BY <2>1, SameHeap
    <1> QED
        BY <1>1, <1>2, <1>3, ClientFreeStep, CollectNowStep, MallocStep, TakeBlockStep,
           SplitBlockStep, TryNextStep, CollectFirstStep, GrowStep, GrowFailsStep, SweepKeptStep,
           SweepFreeStep, SweepNextHeapStep, SweepDoneStep
        DEF Next, Client, Search, Sweep

LEMMA InitHolds ==
    ASSUME Init
    PROVE  IInv
    <1>1. /\ DOMAIN header = {} /\ gc_heaps = <<>> /\ free_list = Nil /\ DOMAIN word = {}
          /\ pc = "run" /\ request = 0
        BY DEF Init
    <1>2. BlocksOf(header) = {} /\ FreeOf(header) = {} /\ MergedOf(header) = {}
        BY <1>1 DEF BlocksOf, FreeOf, MergedOf
    <1>3. DOMAIN gc_heaps = {} /\ gc_heaps \in Seq(Heap)
        BY <1>1, EmptySeq
    <1>4. HeapsInOrder(gc_heaps)
        BY <1>3 DEF HeapsInOrder
    <1>5. Intact(header, gc_heaps)
        BY <1>1, <1>2, <1>3 DEF Intact, Typed, Tiled, Linked, LinksLead
    <1>6. Adjacent(header) = {}
        BY <1>2 DEF Adjacent
    <1>7. Position
        BY <1>1, <1>2 DEF Position
    <1> QED
        BY <1>1, <1>2, <1>4, <1>5, <1>6, <1>7, Names DEF IInv

--------------------------------------------------------------------------------

\* What Follows says of a list is what BlocksExact says with Max and Min.
LEMMA FollowsIsNext ==
    ASSUME IInv, NEW a \in Free
    PROVE  NextFree(a) = IF a = Max(Free) THEN Min(Free) ELSE Min({b \in Free : b > a})
    <1> DEFINE n == NextFree(a)
    <1>1. Free \in SUBSET Nat /\ Follows(a, n, Free) /\ n \in Free
        BY Facts, Names, TypesOfBlocks DEF Linked, Follows, NextFree
    <1>2. Max(Free) \in Free /\ \A c \in Free : c <= Max(Free)
        BY Facts, MaxFree
    <1> HIDE DEF n
    <1>3. CASE a = Max(Free)
        <2> DEFINE m == Min(Free)
        <2>1. \A b \in Free : n <= b
            BY <1>1, <1>2, <1>3 DEF Follows
        <2>2. \E x \in Free : \A y \in Free : x <= y
            BY <1>1, <2>1
        <2>3. m \in Free /\ \A y \in Free : m <= y
            BY <2>2, Zenon DEF Min
        <2> HIDE DEF m
        <2>4. n = m
            BY <1>1, <2>1, <2>3
        <2> QED
            BY <1>3, <2>4 DEF n, m
    <1>4. CASE a # Max(Free)
        <2> DEFINE Above == {b \in Free : b > a}
                   last == Max(Free)
                   m == Min(Above)
        <2> HIDE DEF last
        <2>1. ~(\A b \in Free : b <= a)
            <3>1. last \in Free /\ last # a /\ a <= last
                BY <1>2, <1>4 DEF last
            <3>2. ~(last <= a)
                BY <1>1, <3>1
            <3> QED
                BY <3>1, <3>2
        <2>2. a < n /\ \A b \in Free : a < b => n <= b
            BY <1>1, <2>1 DEF Follows
        <2>3. n \in Above /\ (\A y \in Above : n <= y) /\ Above \in SUBSET Nat
            BY <1>1, <2>2
        <2> HIDE DEF Above
        <2>4. m \in Above /\ \A y \in Above : m <= y
            BY <2>3, Zenon DEF Min
        <2> HIDE DEF m
        <2>5. n = m
            BY <2>3, <2>4
        <2> QED
            BY <1>4, <2>5 DEF n, m, Above
    <1> QED
        BY <1>3, <1>4

LEMMA InvIsExact ==
    ASSUME IInv
    PROVE  BlocksExact
    <1>1. \A k \in DOMAIN gc_heaps : gc_heaps[k].slot \in Block
        BY Facts, Names DEF Tiled
    <1>2. ASSUME NEW a \in Block
          PROVE  \/ NEXT_HEADER(a) \in Block
                 \/ \E k \in DOMAIN gc_heaps : NEXT_HEADER(a) = HeapEnd(k)
        BY Facts, Names DEF Tiled, Within
    <1>3. \A a, b \in Block : a < b => NEXT_HEADER(a) <= b
        BY Facts, Names DEF Tiled
    <1>4. \A a \in Free : NEXT_HEADER(a) \notin Free
        BY Facts, Names DEF Adjacent
    <1>5. IF free_list = Nil THEN gc_heaps = <<>> ELSE free_list \in Free
        BY Facts, Names
    <1>6. DOMAIN word = InUse
        BY Facts, Names
    <1> QED
        BY <1>1, <1>2, <1>3, <1>4, <1>5, <1>6, FollowsIsNext DEF BlocksExact

\* The blocks of the heaps lie end to end and the free list is every free block in
\* the order of addresses, no two of them adjacent: between any two steps of
\* mini_gc_malloc, of gc_sweep with its merges, and of the client.
THEOREM BlocksCorrect == Spec => []BlocksExact
    <1>1. Init => IInv
        BY InitHolds
    <1>2. IInv /\ [Next]_vars => IInv'
        BY Step
    <1>3. IInv => BlocksExact
        BY InvIsExact
    <1> QED
        BY <1>1, <1>2, <1>3, PTL DEF Spec
--------------------------------------------------------------------------------
(* What a collection frees.                                                *)

InUseOf(h) == BlocksOf(h) \ FreeOf(h)
TargetOf(h, q) == {a \in InUseOf(h) : a + HEADER_SIZE <= q /\ q < EndOf(h, a)}
Pointed(heaps, q) ==
    \E k \in DOMAIN heaps : heaps[k].slot <= q /\ q < heaps[k].slot + heaps[k].size
AnyOf(T) == CHOOSE b \in T : TRUE

\* What Reached and Safe are for the headers h, the words w, the roots R and the
\* blocks O that gc_mark does not look into.
FieldsOf(h, w, B, O) ==
    [a \in B |-> IF /\ a \notin O
                    /\ TargetOf(h, w[a]) \subseteq B /\ TargetOf(h, w[a]) # {}
                 THEN <<AnyOf(TargetOf(h, w[a]))>> ELSE <<>>]
ReachedOf(h, w, B, O, P) ==
    Reachable(B, FieldsOf(h, w, B, O), B \cap UNION {TargetOf(h, q) : q \in P})
ScannedOf(h, heaps) == {a \in InUseOf(h) : Pointed(heaps, a + HEADER_SIZE)}
SafeOf(h, heaps, w, R, O) ==
    ReachedOf(h, w, ScannedOf(h, heaps), O, {q \in R : Pointed(heaps, q)})

\* During a sweep the blocks that are marked, and those among the ones it has passed
\* that are in use, are what the client could reach when the collection began and what
\* was given out with the mark, and that is what it can reach now: freeing the others
\* changes nothing.
SweepKeeps ==
    /\ cur <= TopOf(gc_heaps[i])
    /\ \A a \in InUseOf(header) : a < cur => header[a].flags = "alloc"
    /\ SafeOf(header, gc_heaps, word, roots, premarked) \cup premarked =
        {a \in InUseOf(header) : a < cur \/ header[a].flags = "marked"}

\* Outside of a collection the blocks given out with the mark have it, and no others.
MarkedEarly ==
    \A a \in InUseOf(header) : header[a].flags = IF a \in premarked THEN "marked" ELSE "alloc"

Marks ==
    /\ \A a \in InUseOf(header) : header[a].size # 0
    /\ premarked \subseteq InUseOf(header)
    /\ pc \in {"run", "search"} => MarkedEarly
    /\ pc = "sweep" => SweepKeeps
    /\ pc = "search" => request # 0
    /\ \A a \in DOMAIN word : word[a] \in Nat
    /\ roots \subseteq Nat

\* What is reachable in a part of the graph that holds all that is reachable in the
\* whole is the same.
LEMMA ReachableInPart ==
    ASSUME NEW Objects, NEW field, NEW Part \in SUBSET Objects, NEW newField,
           NEW R \in SUBSET Part,
           Closed(field, Objects), Closed(newField, Part),
           Reachable(Objects, field, R) \subseteq Part,
           \A n \in Reachable(Objects, field, R) : newField[n] = field[n]
    PROVE  Reachable(Part, newField, R) = Reachable(Objects, field, R)
    <1> DEFINE Old == Reachable(Objects, field, R)
               New == Reachable(Part, newField, R)
    <1>1. Old \in SUBSET Part /\ New \in SUBSET Part
        BY DEF Reachable
    <1>2. R \subseteq Old \cup {Nil} /\ R \subseteq New \cup {Nil}
        BY RootsAreReachable
    <1>3. Closed(field, Old) /\ Closed(newField, New)
        BY ReachableIsClosed
    <1>4. Closed(newField, Old)
        BY <1>3 DEF Closed
    <1>5. New \subseteq Old
        BY <1>1, <1>2, <1>4, ReachableIsLeast
    <1>6. Closed(field, New)
        BY <1>3, <1>5 DEF Closed
    <1>7. Old \subseteq New
        BY <1>1, <1>2, <1>6, ReachableIsLeast
    <1> QED
        BY <1>5, <1>7

\* What is reachable in a part of the graph from some of the roots is reachable.
LEMMA ReachableInMore ==
    ASSUME NEW Objects, NEW field, NEW Part \in SUBSET Objects, NEW partField,
           NEW R \in SUBSET Part, NEW T \in SUBSET Objects, R \subseteq T,
           Closed(field, Objects), Closed(partField, Part),
           \A n \in Part : \A l \in DOMAIN partField[n] :
               l \in DOMAIN field[n] /\ partField[n][l] = field[n][l]
    PROVE  Reachable(Part, partField, R) \subseteq Reachable(Objects, field, T)
    <1> DEFINE All == Reachable(Objects, field, T)
               S == All \cap Part
    <1>1. T \subseteq All \cup {Nil} /\ Closed(field, All)
        BY RootsAreReachable, ReachableIsClosed
    <1>2. Closed(partField, S)
        BY <1>1 DEF Closed
    <1>3. R \subseteq S \cup {Nil}
        BY <1>1
    <1>4. Reachable(Part, partField, R) \subseteq S
        BY <1>2, <1>3, ReachableIsLeast
    <1> QED
        BY <1>4

LEMMA AnyOfIsMember ==
    ASSUME NEW T, T # {}
    PROVE  AnyOf(T) \in T
    <1>1. \E b \in T : TRUE
        OBVIOUS
    <1> QED
        BY <1>1, Zenon DEF AnyOf

\* A word leads to a block of the set or nowhere.
LEMMA FieldsAreClosed ==
    ASSUME NEW h, NEW w, NEW B, NEW O
    PROVE  /\ Closed(FieldsOf(h, w, B, O), B)
           /\ \A a \in B : \/ FieldsOf(h, w, B, O)[a] = <<>>
                           \/ /\ a \notin O
                              /\ TargetOf(h, w[a]) \subseteq B /\ TargetOf(h, w[a]) # {}
                              /\ FieldsOf(h, w, B, O)[a] = <<AnyOf(TargetOf(h, w[a]))>>
                              /\ AnyOf(TargetOf(h, w[a])) \in B
    <1> DEFINE F == FieldsOf(h, w, B, O)
    <1>1. ASSUME NEW a \in B
          PROVE  \/ F[a] = <<>>
                 \/ /\ a \notin O
                    /\ TargetOf(h, w[a]) \subseteq B /\ TargetOf(h, w[a]) # {}
                    /\ F[a] = <<AnyOf(TargetOf(h, w[a]))>>
                    /\ AnyOf(TargetOf(h, w[a])) \in B
        <2> DEFINE T == TargetOf(h, w[a])
        <2>1. F[a] = IF a \notin O /\ T \subseteq B /\ T # {} THEN <<AnyOf(T)>> ELSE <<>>
            BY DEF FieldsOf
        <2> HIDE DEF T, F
        <2>2. CASE a \notin O /\ T \subseteq B /\ T # {}
            BY <2>1, <2>2, AnyOfIsMember DEF T
        <2>3. CASE ~(a \notin O /\ T \subseteq B /\ T # {})
            BY <2>1, <2>3
        <2> QED
            BY <2>2, <2>3
    <1> HIDE DEF F
    <1>2. Closed(F, B)
        <2>1. SUFFICES ASSUME NEW a \in B, NEW l \in DOMAIN F[a]
                       PROVE  F[a][l] \in B
            BY DEF Closed
        <2>2. F[a] # <<>>
            BY <2>1
        <2>3. PICK b \in B : F[a] = <<b>>
            BY <1>1, <2>2
        <2> QED
            BY <2>1, <2>3
    <1> QED
        BY <1>1, <1>2 DEF F

\* A pointer leads into one block.
LEMMA OneTarget ==
    ASSUME NEW h, NEW heaps, Typed(h), Tiled(h, heaps), NEW q \in Nat,
           NEW a \in TargetOf(h, q), NEW b \in TargetOf(h, q)
    PROVE  a = b
    <1>1. a \in BlocksOf(h) /\ b \in BlocksOf(h)
        BY DEF TargetOf, InUseOf
    <1>2. /\ a \in Nat /\ EndOf(h, a) \in Nat /\ b \in Nat /\ EndOf(h, b) \in Nat
        BY <1>1, TypesOfBlocks
    <1>3. a <= q /\ q < EndOf(h, a) /\ b <= q /\ q < EndOf(h, b)
        BY <1>2 DEF TargetOf, HEADER_SIZE
    <1>4. (a < b => EndOf(h, a) <= b) /\ (b < a => EndOf(h, b) <= a)
        BY <1>1 DEF Tiled
    <1> QED
        BY <1>2, <1>3, <1>4

\* The client's view depends on the blocks in use and their sizes only.
LEMMA SafeUnchanged ==
    ASSUME NEW h, NEW g, NEW heaps, NEW w, NEW R, NEW O, InUseOf(g) = InUseOf(h),
           \A a \in InUseOf(h) : g[a].size = h[a].size
    PROVE  SafeOf(g, heaps, w, R, O) = SafeOf(h, heaps, w, R, O)
    <1>1. \A q : TargetOf(g, q) = TargetOf(h, q)
        BY DEF TargetOf, EndOf
    <1>2. \A B : FieldsOf(g, w, B, O) = FieldsOf(h, w, B, O)
        BY <1>1 DEF FieldsOf
    <1>3. \A P : UNION {TargetOf(g, q) : q \in P} = UNION {TargetOf(h, q) : q \in P}
        BY <1>1
    <1>4. ScannedOf(g, heaps) = ScannedOf(h, heaps)
        BY DEF ScannedOf
    <1> QED
        BY <1>2, <1>3, <1>4 DEF SafeOf, ReachedOf

\* Freeing a block that the client cannot reach changes nothing of what it can reach.
LEMMA SafeSurvives ==
    ASSUME NEW h, NEW heaps, Typed(h), Tiled(h, heaps),
           NEW w, \A a \in InUseOf(h) : w[a] \in Nat, NEW R \in SUBSET Nat, NEW O,
           NEW c \in InUseOf(h), c \notin SafeOf(h, heaps, w, R, O),
           NEW g, InUseOf(g) = InUseOf(h) \ {c}, \A a \in InUseOf(g) : g[a].size = h[a].size,
           NEW u, \A a \in InUseOf(g) : u[a] = w[a]
    PROVE  SafeOf(g, heaps, u, R, O) = SafeOf(h, heaps, w, R, O)
    <1> DEFINE S == SafeOf(h, heaps, w, R, O)
               B == ScannedOf(h, heaps)
               C == ScannedOf(g, heaps)
               P == {q \in R : Pointed(heaps, q)}
               X == B \cap UNION {TargetOf(h, q) : q \in P}
               Y == C \cap UNION {TargetOf(g, q) : q \in P}
               F == FieldsOf(h, w, B, O)
               G == FieldsOf(g, u, C, O)
    <1>1. S = Reachable(B, F, X) /\ SafeOf(g, heaps, u, R, O) = Reachable(C, G, Y)
        BY DEF SafeOf, ReachedOf
    <1>2. B \subseteq InUseOf(h) /\ C = B \ {c}
        BY DEF ScannedOf
    <1>3. \A q : TargetOf(g, q) = TargetOf(h, q) \ {c}
        BY DEF TargetOf, EndOf
    <1>4. InUseOf(h) \subseteq Nat \ {Nil}
        BY TypesOfBlocks DEF InUseOf
    <1>5. Closed(F, B) /\ Closed(G, C)
        BY FieldsAreClosed
    <1>6. Y = X \ {c}
        BY <1>2, <1>3
    <1> HIDE DEF S, B, C, F, G, X, Y
    <1>7. S \subseteq B /\ X \subseteq B
        BY <1>1 DEF Reachable, X
    <1>8. X \subseteq S
        <2>1. X \subseteq S \cup {Nil}
            BY <1>1, <1>7, RootsAreReachable
        <2> QED
            BY <1>2, <1>4, <1>7, <2>1
    <1>9. c \notin S
        BY DEF S
    <1>10. Y = X
        BY <1>6, <1>8, <1>9
    <1>11. S \subseteq C /\ C \subseteq B /\ X \subseteq C
        BY <1>2, <1>7, <1>8, <1>9
    <1>12. Closed(F, S)
        BY <1>1, <1>5, ReachableIsClosed
    <1>13. ASSUME NEW a \in S
           PROVE  G[a] = F[a]
        <2> DEFINE T == TargetOf(h, w[a])
                   V == TargetOf(g, u[a])
        <2>1. a \in B /\ a \in C /\ a \in InUseOf(h) /\ a \in InUseOf(g)
            BY <1>2, <1>9, <1>11
        <2>2. u[a] = w[a] /\ w[a] \in Nat
            BY <2>1
        <2>3. V = T \ {c}
            BY <1>3, <2>2
        <2>4. /\ F[a] = IF a \notin O /\ T \subseteq B /\ T # {} THEN <<AnyOf(T)>> ELSE <<>>
              /\ G[a] = IF a \notin O /\ V \subseteq C /\ V # {} THEN <<AnyOf(V)>> ELSE <<>>
            BY <2>1 DEF F, G, FieldsOf
        <2>5. \A x, y \in T : x = y
            BY <2>2, OneTarget
        <2> HIDE DEF T, V
        <2>6. CASE c \notin T
            <3>1. V = T
                BY <2>3, <2>6
            <3>2. T \subseteq B <=> T \subseteq C
                BY <1>2, <2>6
            <3> QED
                BY <2>4, <3>1, <3>2
        <2>7. CASE c \in T
            <3>1. V = {} /\ T # {}
                BY <2>3, <2>5, <2>7
            <3>2. ~(a \notin O /\ T \subseteq B)
                <4>1. SUFFICES ASSUME a \notin O, T \subseteq B
                               PROVE  FALSE
                    OBVIOUS
                <4>2. F[a] = <<AnyOf(T)>> /\ AnyOf(T) \in T
                    BY <2>4, <3>1, <4>1, AnyOfIsMember
                <4>3. AnyOf(T) = c
                    BY <2>5, <2>7, <4>2
                <4>4. 1 \in DOMAIN F[a] /\ F[a][1] = c
                    BY <4>2, <4>3
                <4>5. c \in S \cup {Nil}
                    BY <1>12, <4>4 DEF Closed
                <4> QED
                    BY <1>4, <1>9, <4>5
            <3> QED
                BY <2>4, <3>1, <3>2
        <2> QED
            BY <2>6, <2>7
    <1>14. Reachable(C, G, X) = Reachable(B, F, X)
        BY <1>1, <1>5, <1>11, <1>13, ReachableInPart
    <1> QED
        BY <1>1, <1>10, <1>14 DEF S

\* The names of the model.
LEMMA SafeNames ==
    /\ Safe = SafeOf(header, gc_heaps, word, roots, premarked)
    /\ Marked = SafeOf(header, gc_heaps, word, roots,
                       {a \in InUseOf(header) : header[a].flags = "marked"})
    /\ Usable = ReachedOf(header, word, InUseOf(header), {}, roots)
    /\ InUse = InUseOf(header)
    <1>1. InUse = InUseOf(header)
        BY Names DEF InUseOf
    <1>2. \A q : Target(q) = TargetOf(header, q)
        BY <1>1, Names DEF Target, TargetOf, Data
    <1>3. ASSUME NEW B, NEW O, NEW P
          PROVE  Reached(B, O, P) = ReachedOf(header, word, B, O, P)
        <2> DEFINE F == [a \in B |-> IF /\ a \notin O
                                        /\ Target(word[a]) \subseteq B /\ Target(word[a]) # {}
                                    THEN <<AnyOf(Target(word[a]))>> ELSE <<>>]
                   X == B \cap UNION {Target(q) : q \in P}
        <2>1. Reached(B, O, P) = Reachable(B, F, X)
            BY Zenon DEF Reached, AnyOf
        <2>2. F = FieldsOf(header, word, B, O)
            BY <1>2 DEF FieldsOf
        <2>3. X = B \cap UNION {TargetOf(header, q) : q \in P}
            BY <1>2
        <2> HIDE DEF F, X
        <2> QED
            BY <2>1, <2>2, <2>3 DEF ReachedOf
    <1>4. \A q : IsPointerToHeap(q) <=> Pointed(gc_heaps, q)
        BY DEF IsPointerToHeap, Pointed
    <1>5. {a \in InUse : IsPointerToHeap(Data(a))} = ScannedOf(header, gc_heaps)
        BY <1>1, <1>4 DEF ScannedOf, Data
    <1>6. {q \in roots : IsPointerToHeap(q)} = {q \in roots : Pointed(gc_heaps, q)}
        BY <1>4
    <1>7. Safe = SafeOf(header, gc_heaps, word, roots, premarked)
        BY <1>3, <1>5, <1>6 DEF Safe, SafeOf
    <1>8. Marked = SafeOf(header, gc_heaps, word, roots,
                          {a \in InUseOf(header) : header[a].flags = "marked"})
        BY <1>1, <1>3, <1>5, <1>6 DEF Marked, SafeOf
    <1>9. Usable = ReachedOf(header, word, InUseOf(header), {}, roots)
        BY <1>1, <1>3 DEF Usable
    <1> QED
        BY <1>1, <1>7, <1>8, <1>9

\* gc_mark marks what the client can reach without a pointer that is_pointer_to_heap
\* does not know and without one out of a block that was given out with the mark.
LEMMA MarkedIsSafe ==
    ASSUME Marks, pc \in {"run", "search"}
    PROVE  Marked = SafeOf(header, gc_heaps, word, roots, premarked)
    <1>1. {a \in InUseOf(header) : header[a].flags = "marked"} = premarked
        BY DEF Marks, MarkedEarly
    <1> QED
        BY <1>1, SafeNames

LEMMA SafeIsUsable ==
    SafeOf(header, gc_heaps, word, roots, premarked) \subseteq Usable
    <1> DEFINE B == ScannedOf(header, gc_heaps)
               O == InUseOf(header)
               P == {q \in roots : Pointed(gc_heaps, q)}
               R == B \cap UNION {TargetOf(header, q) : q \in P}
               T == O \cap UNION {TargetOf(header, q) : q \in roots}
               F == FieldsOf(header, word, O, {})
               G == FieldsOf(header, word, B, premarked)
    <1>1. SafeOf(header, gc_heaps, word, roots, premarked) = Reachable(B, G, R)
        BY DEF SafeOf, ReachedOf
    <1>2. Usable = Reachable(O, F, T)
        BY SafeNames DEF ReachedOf
    <1>3. B \in SUBSET O /\ R \in SUBSET B /\ T \in SUBSET O /\ R \subseteq T
        BY DEF ScannedOf
    <1>4. Closed(F, O) /\ Closed(G, B)
        BY FieldsAreClosed
    <1>5. ASSUME NEW a \in B, NEW l \in DOMAIN G[a]
          PROVE  l \in DOMAIN F[a] /\ G[a][l] = F[a][l]
        <2> DEFINE V == TargetOf(header, word[a])
        <2>1. a \in O
            BY <1>3
        <2>2. /\ F[a] = IF V \subseteq O /\ V # {} THEN <<AnyOf(V)>> ELSE <<>>
              /\ G[a] = IF a \notin premarked /\ V \subseteq B /\ V # {} THEN <<AnyOf(V)>> ELSE <<>>
            BY <2>1 DEF FieldsOf
        <2> HIDE DEF V, F, G, O, B
        <2>3. V \subseteq B /\ V # {} /\ G[a] = <<AnyOf(V)>>
            BY <1>5, <2>2
        <2>4. V \subseteq O
            BY <1>3, <2>3
        <2>5. F[a] = G[a]
            BY <2>2, <2>3, <2>4
        <2> QED
            BY <2>5
    <1> HIDE DEF B, O, R, T, F, G
    <1> QED
        BY <1>1, <1>2, <1>3, <1>4, <1>5, ReachableInMore

LEMMA TypesOfUsed ==
    ASSUME IInv
    PROVE  /\ InUseOf(header) \subseteq Nat \ {0} /\ InUseOf(header) \subseteq BlocksOf(header)
           /\ InUseOf(header) \subseteq DOMAIN header
           /\ InUseOf(header) \cap FreeOf(header) = {} /\ FreeOf(header) \subseteq DOMAIN header
           /\ \A a \in DOMAIN header : header[a] \in Header
           /\ InUse = InUseOf(header) /\ DOMAIN word = InUseOf(header)
    <1>1. /\ BlocksOf(header) \subseteq DOMAIN header /\ DOMAIN header \subseteq Nat \ {0}
          /\ FreeOf(header) \subseteq BlocksOf(header)
          /\ \A a \in DOMAIN header : header[a] \in Header
        BY Facts, TypesOfBlocks DEF Typed
    <1> QED
        BY <1>1, Facts, Names DEF InUseOf

LEMMA ForgottenInUse ==
    ASSUME NEW h
    PROVE  /\ InUseOf(WithoutMerged(h)) = InUseOf(h)
           /\ \A a \in InUseOf(h) : WithoutMerged(h)[a] = h[a]
    BY DEF InUseOf, BlocksOf, FreeOf, WithoutMerged

\* A step with no collection that gives out no block.
LEMMA QuietStep ==
    ASSUME Marks, pc \in {"run", "search"} \/ pc' \in {"abort", "corrupt"}, pc' # "sweep",
           InUseOf(header') \subseteq InUseOf(header),
           \A a \in InUseOf(header') : /\ header'[a].size = header[a].size
                                       /\ header'[a].flags = header[a].flags
                                       /\ a \in premarked' <=> a \in premarked,
           premarked' \subseteq InUseOf(header'),
           pc' = "search" => request' # 0,
           \A a \in DOMAIN word' : word'[a] \in Nat, roots' \subseteq Nat
    PROVE  Marks'
    <1>1. \A a \in InUseOf(header') : header'[a].size # 0
        BY DEF Marks
    <1>2. pc' \in {"run", "search"} => MarkedEarly'
        BY DEF Marks, MarkedEarly
    <1> QED
        BY <1>1, <1>2 DEF Marks

LEMMA ClientMarks ==
    ASSUME IInv, Marks, DropRoot \/ StoreWord \/ LoadWord \/ TakeCorrupts \/ SweepSwallows \/ TryNext
    PROVE  Marks'
    <1>1. UNCHANGED <<header, premarked>> /\ premarked \subseteq InUseOf(header)
        BY DEF DropRoot, StoreWord, LoadWord, TakeCorrupts, SweepSwallows, TryNext, memory, Marks
    <1>2. /\ pc \in {"run", "search"} \/ pc' \in {"abort", "corrupt"}
          /\ pc' # "sweep" /\ (pc' = "search" => request' # 0)
        BY DEF DropRoot, StoreWord, LoadWord, TakeCorrupts, SweepSwallows, TryNext, search, Marks
    <1>3. Usable \subseteq Nat
        BY SafeNames, TypesOfUsed DEF ReachedOf, Reachable
    <1>4. \A a \in Usable : Data(a) \in Nat
        BY <1>3 DEF Data, HEADER_SIZE
    <1>5. \A a \in DOMAIN word' : word'[a] \in Nat
        <2>1. CASE StoreWord
            <3>1. PICK a \in Usable, b \in Usable : word' = [word EXCEPT ![a] = Data(b)]
                BY <2>1 DEF StoreWord
            <3> QED
                BY <1>4, <3>1 DEF Marks
        <2>2. CASE ~StoreWord
            <3>1. UNCHANGED word
                BY <2>2 DEF DropRoot, StoreWord, LoadWord, TakeCorrupts, SweepSwallows, TryNext, client
            <3> QED
                BY <3>1 DEF Marks
        <2> QED
            BY <2>1, <2>2
    <1>6. roots' \subseteq Nat
        <2>1. CASE LoadWord
            <3>1. PICK a \in Usable : roots' = roots \cup {Data(a)}
                BY <2>1 DEF LoadWord
            <3> QED
                BY <1>4, <3>1 DEF Marks
        <2>2. CASE ~LoadWord
            <3>1. roots' \subseteq roots
                BY <2>2 DEF DropRoot, StoreWord, LoadWord, TakeCorrupts, SweepSwallows, TryNext, client
            <3> QED
                BY <3>1 DEF Marks
        <2> QED
            BY <2>1, <2>2
    <1> QED
        BY <1>1, <1>2, <1>5, <1>6, QuietStep

LEMMA ClientFreeMarks ==
    ASSUME IInv, Marks, ClientFree
    PROVE  Marks'
    <1>1. PICK target \in InUse :
            IF Swallowed(target)
            THEN pc' = "corrupt" /\ UNCHANGED <<header, free_list, client, premarked>>
            ELSE /\ header' = WithoutMerged(Freed(target))
                 /\ free_list' = Hit(target)
                 /\ roots' = roots \ {Data(target)}
                 /\ word' = [a \in InUse \ {target} |-> word[a]]
                 /\ premarked' = premarked \ {target}
                 /\ UNCHANGED pc
        BY DEF ClientFree
    <1>2. pc = "run" /\ UNCHANGED gc_heaps
        BY DEF ClientFree
    <1>3. CASE Swallowed(target)
        BY <1>1, <1>2, <1>3, QuietStep DEF client, Marks
    <1>4. CASE ~Swallowed(target)
        <2> DEFINE g == Freed(target)
        <2>1. header' = WithoutMerged(g) /\ pc' = "run" /\ roots' = roots \ {Data(target)}
              /\ word' = [a \in InUse \ {target} |-> word[a]] /\ premarked' = premarked \ {target}
            BY <1>1, <1>2, <1>4
        <2>2. Free # {}
            <3>1. target \in BlocksOf(header)
                BY Names
            <3> QED
                BY <3>1, Facts, BelowTop
        <2>3. InUseOf(g) = InUse \ {target} /\ \A x \in InUse \ {target} : g[x] = header[x]
            BY <1>4, <2>2, Facts, FreedKeeps DEF InUseOf
        <2> HIDE DEF g
        <2>4. InUseOf(header') = InUse \ {target} /\ \A x \in InUse \ {target} : header'[x] = header[x]
            BY <2>1, <2>3, ForgottenInUse
        <2>5. \A a \in DOMAIN word' : word'[a] \in Nat
            BY <2>1, TypesOfUsed DEF Marks
        <2>6. roots' \subseteq Nat
            BY <2>1 DEF Marks
        <2>7. premarked' \subseteq InUseOf(header')
            BY <2>1, <2>4, SafeNames DEF Marks
        <2> QED
            BY <1>2, <2>1, <2>4, <2>5, <2>6, <2>7, TypesOfUsed, QuietStep
    <1> QED
        BY <1>3, <1>4

LEMMA MallocMarks ==
    ASSUME IInv, Marks, mini_gc_malloc
    PROVE  Marks'
    <1>1. PICK req_size \in Request : request' = ALIGN(req_size, PTRSIZE)
        BY DEF mini_gc_malloc
    <1>2. request' # 0
        <2>1. req_size \in Nat \ {0}
            BY SizeAssumption
        <2>2. request' = ((req_size + 8 - 1) \div 8) * 8
            BY <1>1 DEF ALIGN, PTRSIZE
        <2> QED
            BY <2>1, <2>2
    <1>3. pc = "run" /\ pc' = "search" /\ UNCHANGED <<word, roots, premarked>>
        BY DEF mini_gc_malloc, client, memory
    <1>4. /\ InUseOf(header') \subseteq InUseOf(header) /\ premarked \subseteq InUseOf(header')
          /\ \A a \in InUseOf(header') : header'[a] = header[a]
        <2>1. CASE UNCHANGED header
            BY <2>1 DEF Marks
        <2>2. CASE /\ free_list = Nil
                   /\ header' = [a \in {NewSlot} |-> [flags |-> "free", size |-> TINY_HEAP_SIZE,
                                                      next_free |-> NewSlot]]
            <3>1. InUseOf(header') = {}
                BY <2>2 DEF InUseOf, BlocksOf, FreeOf
            <3>2. BlocksOf(header) = {}
                BY <2>2, Facts, BelowTop
            <3>3. premarked = {}
                BY <3>2 DEF Marks, InUseOf
            <3> QED
                BY <3>1, <3>3
        <2> QED
            BY <2>1, <2>2 DEF mini_gc_malloc
    <1> QED
        BY <1>2, <1>3, <1>4, QuietStep DEF Marks

LEMMA GrowMarks ==
    ASSUME IInv, Marks, Grow
    PROVE  Marks'
    <1>1. /\ pc = "search" /\ pc' = "search" /\ header' = GrownHeader(request)
          /\ UNCHANGED <<word, roots, request, premarked>>
        BY DEF Grow, client, memory
    <1>2. request \in Nat /\ Free # {}
        BY <1>1, SearchAt, Facts DEF IInv
    <1>3. /\ NewSlot \notin BlocksOf(header)
          /\ BlocksOf(header') = BlocksOf(header) \cup {NewSlot}
          /\ FreeOf(header') = FreeOf(header) \cup {NewSlot}
        BY <1>1, <1>2, Facts, GrownKeeps
    <1>4. InUseOf(header') = InUseOf(header)
        BY <1>3 DEF InUseOf
    <1>5. \A a \in InUseOf(header) : header'[a] = header[a]
        <2>1. Max(Free) \in FreeOf(header)
            BY <1>2, Facts, MaxFree, Names
        <2> SUFFICES ASSUME NEW a \in InUseOf(header)
                     PROVE  header'[a] = header[a]
            OBVIOUS
        <2>2. a \in DOMAIN header /\ a # Max(Free) /\ a # NewSlot
            BY <1>3, <2>1, TypesOfUsed
        <2> QED
            BY <1>1, <2>2 DEF GrownHeader
    <1> QED
        BY <1>1, <1>4, <1>5, QuietStep DEF Marks

LEMMA GrowFailsMarks ==
    ASSUME IInv, Marks, GrowFails
    PROVE  Marks'
    <1>1. /\ pc = "search" /\ pc' \in {"run", "abort"} /\ header' = WithoutMerged(header)
          /\ UNCHANGED <<word, roots, premarked>>
        BY DEF GrowFails, client, memory
    <1> QED
        BY <1>1, ForgottenInUse, QuietStep DEF Marks

\* mini_gc_malloc returns a block.
LEMMA ReturnMarks ==
    ASSUME IInv, Marks, pc = "search", NEW h, NEW block \in DOMAIN h \ InUseOf(header),
           NEW f \in {"alloc", "marked"}, Return(h, block, f),
           block \in Nat, h[block] \in Header, h[block].size # 0,
           InUseOf(header) \subseteq DOMAIN h,
           \A x \in InUseOf(header) : h[x] = header[x],
           \A x \in DOMAIN h \ (InUseOf(header) \cup {block}) : h[x].flags \in {"free", "merged"}
    PROVE  Marks'
    <1> DEFINE g == [h EXCEPT ![block].flags = f]
    <1>1. /\ header' = WithoutMerged(g) /\ pc' = "run" /\ roots' = roots \cup {Data(block)}
          /\ word' = [a \in InUse \cup {block} |-> IF a = block THEN Nil ELSE word[a]]
          /\ premarked' = IF f = "marked" THEN premarked \cup {block} ELSE premarked
        BY DEF Return
    <1>2. DOMAIN g = DOMAIN h /\ \A x \in DOMAIN h \ {block} : g[x] = h[x]
        OBVIOUS
    <1>3. g[block].flags = f /\ g[block].size # 0
        BY DEF Header
    <1> HIDE DEF g
    <1>4. ASSUME NEW x \in InUseOf(header)
          PROVE  /\ x \in InUseOf(g) /\ x # block /\ x \in DOMAIN g
                 /\ g[x].flags = (IF x \in premarked THEN "marked" ELSE "alloc") /\ g[x].size # 0
        <2>1. x # block /\ x \in DOMAIN g /\ g[x] = header[x]
            BY <1>2
        <2> QED
            BY <2>1 DEF Marks, MarkedEarly, InUseOf, BlocksOf, FreeOf
    <1>5. block \in InUseOf(g)
        BY <1>2, <1>3 DEF InUseOf, BlocksOf, FreeOf
    <1>6. InUseOf(g) = InUseOf(header) \cup {block}
        <2>1. ASSUME NEW x \in DOMAIN g, x \notin InUseOf(header) \cup {block}
              PROVE  g[x].flags \in {"free", "merged"}
            BY <1>2, <2>1
        <2>2. InUseOf(g) \subseteq InUseOf(header) \cup {block}
            BY <2>1 DEF InUseOf, BlocksOf, FreeOf
        <2> QED
            BY <1>4, <1>5, <2>2
    <1>7. block \notin premarked /\ premarked \subseteq InUseOf(header)
        BY DEF Marks
    <1>8. \A x \in InUseOf(g) : /\ g[x].flags = IF x \in premarked' THEN "marked" ELSE "alloc"
                               /\ g[x].size # 0
        <2> SUFFICES ASSUME NEW x \in InUseOf(g)
                     PROVE  /\ g[x].flags = IF x \in premarked' THEN "marked" ELSE "alloc"
                            /\ g[x].size # 0
            OBVIOUS
        <2>1. CASE x = block
            BY <1>1, <1>3, <1>7, <2>1
        <2>2. CASE x # block
            BY <1>1, <1>4, <1>6, <2>2
        <2> QED
            BY <2>1, <2>2
    <1>9. InUseOf(header') = InUseOf(g) /\ \A x \in InUseOf(g) : header'[x] = g[x]
        BY <1>1, ForgottenInUse
    <1>10. MarkedEarly' /\ \A x \in InUseOf(header') : header'[x].size # 0
        BY <1>8, <1>9 DEF MarkedEarly
    <1>11. premarked' \subseteq InUseOf(header')
        BY <1>1, <1>6, <1>7, <1>9
    <1>12. \A a \in DOMAIN word' : word'[a] \in Nat
        BY <1>1, TypesOfUsed DEF Marks, Nil
    <1>13. roots' \subseteq Nat
        <2>1. Data(block) \in Nat
            BY DEF Data, HEADER_SIZE
        <2>2. roots \subseteq Nat
            BY DEF Marks
        <2> QED
            BY <1>1, <2>1, <2>2
    <1> QED
        BY <1>1, <1>10, <1>11, <1>12, <1>13 DEF Marks

LEMMA TakeBlockMarks ==
    ASSUME IInv, Marks, TakeBlock
    PROVE  Marks'
    <1>1. pc = "search" /\ prevp # p /\ Followed /\ header[p].size = request
          /\ Return([header EXCEPT ![prevp].next_free = NextFree(p)], p, "alloc")
        BY DEF TakeBlock, OnlyBlock, JustFits, Size
    <1>2. p \in FreeOf(header) /\ prevp \in FreeOf(header)
        BY <1>1, SearchAt
    <1> DEFINE h == [header EXCEPT ![prevp].next_free = NextFree(p)]
    <1>3. DOMAIN h = DOMAIN header /\ \A x \in DOMAIN header \ {prevp} : h[x] = header[x]
        OBVIOUS
    <1>4. h[prevp].flags = header[prevp].flags
        BY <1>2, TypesOfUsed DEF Header
    <1> HIDE DEF h
    <1>5. p \in DOMAIN h /\ p \in Nat /\ h[p] \in Header /\ h[p].size # 0
        <2>1. p \in DOMAIN header /\ p \in Nat /\ header[p] \in Header
            BY <1>2, Facts, TypesOfUsed, TypesOfBlocks
        <2> QED
            BY <1>1, <1>3, <2>1 DEF Marks
    <1>6. \A x \in DOMAIN h \ (InUseOf(header) \cup {p}) : h[x].flags \in {"free", "merged"}
        BY <1>2, <1>3, <1>4 DEF InUseOf, BlocksOf, FreeOf
    <1>7. /\ p \notin InUseOf(header) /\ InUseOf(header) \subseteq DOMAIN h
          /\ \A x \in InUseOf(header) : h[x] = header[x]
        BY <1>2, <1>3, TypesOfUsed
    <1>8. Return(h, p, "alloc")
        BY <1>1 DEF h
    <1> QED
        BY <1>1, <1>5, <1>6, <1>7, <1>8, ReturnMarks

\* The block that SplitBlock carves begins where none did.
LEMMA SplitIsNew ==
    ASSUME IInv, pc = "search", Enough, Followed
    PROVE  p + HEADER_SIZE + (Size(p) - (request + HEADER_SIZE)) \notin BlocksOf(header)
    <1> DEFINE block == p + HEADER_SIZE + (Size(p) - (request + HEADER_SIZE))
    <1>1. p \in FreeOf(header) /\ FreeOf(header) \subseteq BlocksOf(header)
        BY SearchAt, Facts, TypesOfBlocks
    <1>2. /\ request \in Nat /\ header[p].size \in Nat /\ p \in Nat
          /\ header[p].size >= request + 24 /\ EndOf(header, p) = p + 24 + header[p].size
        BY <1>1, Facts, TypesOfBlocks DEF IInv, Enough, Size, EndOf, HEADER_SIZE
    <1>3. block \in Nat /\ p < block /\ block < EndOf(header, p)
        BY <1>2 DEF Size, HEADER_SIZE
    <1> HIDE DEF block
    <1>4. block \in BlocksOf(header) => EndOf(header, p) <= block
        BY <1>1, <1>3, Facts DEF Tiled
    <1> QED
        BY <1>2, <1>3, <1>4 DEF block

LEMMA SplitBlockMarks ==
    ASSUME IInv, Marks, SplitBlock
    PROVE  Marks'
    <1> DEFINE rest == Size(p) - (request + HEADER_SIZE)
               block == p + HEADER_SIZE + rest
               h == [a \in DOMAIN header \cup {block} |->
                        IF a = p THEN [header[a] EXCEPT !.size = rest]
                        ELSE IF a = block
                        THEN [flags |-> "free", size |-> request, next_free |-> Nil]
                        ELSE header[a]]
    <1>1. pc = "search" /\ Enough /\ Followed
        BY DEF SplitBlock
    <1>2. PICK f \in {"alloc", "marked"} : Return(h, block, f)
        BY DEF SplitBlock, CarvedFlags
    <1>3. block \notin BlocksOf(header)
        BY <1>1, SplitIsNew
    <1>4. p \in FreeOf(header) /\ p \in DOMAIN header /\ p \in Nat
        BY <1>1, SearchAt, Facts, TypesOfUsed, TypesOfBlocks
    <1>5. request \in Nat /\ request # 0 /\ Size(p) >= request + HEADER_SIZE /\ Size(p) \in Nat
        BY <1>1, <1>4, TypesOfUsed DEF IInv, Enough, Size, Marks, Header
    <1>6. block \in Nat /\ p < block
        BY <1>4, <1>5 DEF HEADER_SIZE
    <1>7. /\ DOMAIN h = DOMAIN header \cup {block}
          /\ h[p] = [header[p] EXCEPT !.size = rest]
          /\ h[block] = [flags |-> "free", size |-> request, next_free |-> Nil]
          /\ \A x \in DOMAIN header \ {p, block} : h[x] = header[x]
        BY <1>4, <1>6
    <1> HIDE DEF h, rest, block
    <1>8. h[p].flags = "free"
        BY <1>4, <1>7, TypesOfUsed DEF Header, FreeOf
    <1>9. block \in DOMAIN h /\ h[block] \in Header /\ h[block].size # 0
        BY <1>5, <1>7 DEF Header, Nil
    <1>10. \A x \in DOMAIN h \ (InUseOf(header) \cup {block}) : h[x].flags \in {"free", "merged"}
        BY <1>7, <1>8 DEF InUseOf, BlocksOf, FreeOf
    <1>11. /\ block \notin InUseOf(header) /\ InUseOf(header) \subseteq DOMAIN h
           /\ \A x \in InUseOf(header) : h[x] = header[x]
        BY <1>3, <1>4, <1>7, TypesOfUsed
    <1> QED
        BY <1>1, <1>2, <1>6, <1>9, <1>10, <1>11, ReturnMarks

\* gc_mark.
LEMMA MarkMarks ==
    ASSUME IInv, Marks, pc \in {"run", "search"}, gc_heaps # <<>>, gc_mark,
           UNCHANGED <<gc_heaps, client, memory>>
    PROVE  Marks'
    <1> DEFINE S == SafeOf(header, gc_heaps, word, roots, premarked)
    <1>1. /\ header' = [a \in DOMAIN header |->
                    IF a \in S THEN [header[a] EXCEPT !.flags = "marked"] ELSE header[a]]
          /\ i' = 1 /\ cur' = gc_heaps[1].slot /\ pc' = "sweep"
          /\ UNCHANGED <<gc_heaps, word, roots, premarked>>
        BY MarkedIsSafe DEF gc_mark, client, memory
    <1>2. S \subseteq InUseOf(header)
        BY DEF SafeOf, ReachedOf, Reachable, ScannedOf
    <1> HIDE DEF S
    <1>3. DOMAIN header' = DOMAIN header /\ \A a \in DOMAIN header \ S : header'[a] = header[a]
        BY <1>1
    <1>4. \A a \in S : header'[a].flags = "marked" /\ header'[a].size = header[a].size
        BY <1>1, <1>2, TypesOfUsed DEF Header
    <1>5. InUseOf(header') = InUseOf(header)
        BY <1>2, <1>3, <1>4 DEF InUseOf, BlocksOf, FreeOf
    <1>6. \A a \in InUseOf(header) : /\ header'[a].size = header[a].size
                                     /\ header'[a].flags = IF a \in S \cup premarked THEN "marked" ELSE "alloc"
        BY <1>3, <1>4, TypesOfUsed DEF Marks, MarkedEarly
    <1>7. SafeOf(header', gc_heaps', word', roots', premarked') = S
        <2>1. \A a \in InUseOf(header) : header'[a].size = header[a].size
            BY <1>6
        <2>2. SafeOf(header', gc_heaps, word, roots, premarked) = SafeOf(header, gc_heaps, word, roots, premarked)
            BY <1>5, <2>1, SafeUnchanged
        <2> QED
            BY <1>1, <2>2 DEF S
    <1>8. \A a \in InUseOf(header) : ~(a < cur')
        <2> SUFFICES ASSUME NEW a \in InUseOf(header)
                     PROVE  ~(a < cur')
            OBVIOUS
        <2>1. a \in BlocksOf(header) /\ a \in Nat
            BY TypesOfUsed
        <2>2. PICK k \in DOMAIN gc_heaps : Within(header, a, gc_heaps[k])
            BY <2>1, Facts DEF Tiled
        <2>3. gc_heaps[k].slot <= a
            BY <2>2 DEF Within
        <2>4. gc_heaps[1].slot <= gc_heaps[k].slot
            <3>1. k \in Nat /\ 1 <= k /\ 1 \in DOMAIN gc_heaps
                BY Facts, TypesOfHeaps
            <3>2. /\ gc_heaps[1].slot \in Nat /\ gc_heaps[k].slot \in Nat
                  /\ TopOf(gc_heaps[1]) \in Nat /\ gc_heaps[1].slot < TopOf(gc_heaps[1])
                BY <3>1, Facts, TypesOfHeaps
            <3>3. 1 < k => TopOf(gc_heaps[1]) < gc_heaps[k].slot
                BY <3>1, Facts DEF HeapsInOrder
            <3>4. CASE k = 1
                BY <3>2, <3>4
            <3>5. CASE 1 < k
                BY <3>2, <3>3, <3>5
            <3> QED
                BY <3>1, <3>4, <3>5
        <2>5. gc_heaps[1].slot \in Nat /\ gc_heaps[k].slot \in Nat
            BY Facts, TypesOfHeaps
        <2> QED
            BY <1>1, <2>1, <2>3, <2>4, <2>5
    <1>9. cur' <= TopOf(gc_heaps'[i'])
        <2>1. 1 \in DOMAIN gc_heaps
            BY Facts
        <2>2. gc_heaps[1].slot \in Nat /\ TopOf(gc_heaps[1]) \in Nat
              /\ gc_heaps[1].slot < TopOf(gc_heaps[1])
            BY <2>1, Facts, TypesOfHeaps
        <2>3. gc_heaps[1].slot <= TopOf(gc_heaps[1])
            BY <2>2
        <2> QED
            BY <1>1, <2>3
    <1>10. S \cup premarked = {a \in InUseOf(header') : a < cur' \/ header'[a].flags = "marked"}
        BY <1>2, <1>5, <1>6, <1>8 DEF Marks
    <1>11. SweepKeeps'
        BY <1>1, <1>5, <1>7, <1>8, <1>9, <1>10 DEF SweepKeeps
    <1>12. \A a \in InUseOf(header') : header'[a].size # 0
        BY <1>5, <1>6 DEF Marks
    <1> QED
        BY <1>1, <1>5, <1>11, <1>12 DEF Marks

\* gc_sweep at the end of a heap has passed all blocks of it.
LEMMA HeapPassed ==
    ASSUME IInv, Marks, pc = "sweep", ~InHeap
    PROVE  /\ i \in DOMAIN gc_heaps /\ cur \in Nat /\ cur <= TopOf(gc_heaps[i])
           /\ \A a \in InUseOf(header) :
                a < cur \/ \E k \in DOMAIN gc_heaps : i < k /\ gc_heaps[k].slot <= a
    <1>1. /\ i \in DOMAIN gc_heaps /\ gc_heaps[i].slot <= cur
          /\ cur \in BlocksOf(header) \/ cur = TopOf(gc_heaps[i])
        BY Names DEF IInv, Position
    <1>2. /\ i \in Nat /\ gc_heaps[i].slot \in Nat /\ gc_heaps[i].size \in Nat
          /\ TopOf(gc_heaps[i]) \in Nat
          /\ TopOf(gc_heaps[i]) = gc_heaps[i].slot + 24 + gc_heaps[i].size
        BY <1>1, Facts, TypesOfHeaps DEF TopOf, HEADER_SIZE
    <1>3. cur \in Nat /\ cur <= TopOf(gc_heaps[i])
        BY <1>1, <1>2, Facts, TypesOfBlocks DEF Marks, SweepKeeps
    <1>4. gc_heaps[i].slot + gc_heaps[i].size <= cur
        BY <1>2, <1>3 DEF InHeap
    <1>5. ASSUME NEW a \in InUseOf(header), ~(a < cur)
          PROVE  \E k \in DOMAIN gc_heaps : i < k /\ gc_heaps[k].slot <= a
        <2>1. a \in BlocksOf(header) /\ a \in Nat /\ a \in DOMAIN header /\ header[a].size \in Nat
            BY <1>5, TypesOfUsed DEF Header
        <2>2. EndOf(header, a) = a + 24 + header[a].size /\ header[a].size # 0
            BY <1>5 DEF EndOf, HEADER_SIZE, Marks
        <2>3. PICK k \in DOMAIN gc_heaps : Within(header, a, gc_heaps[k])
            BY <2>1, Facts DEF Tiled
        <2>4. gc_heaps[k].slot <= a /\ EndOf(header, a) <= TopOf(gc_heaps[k])
            BY <2>3 DEF Within
        <2>5. k \in Nat /\ gc_heaps[k].slot \in Nat /\ TopOf(gc_heaps[k]) \in Nat
            BY Facts, TypesOfHeaps
        <2>6. k # i
            BY <1>2, <1>3, <1>4, <1>5, <2>1, <2>2, <2>4
        <2>7. ~(k < i)
            <3>1. k < i => TopOf(gc_heaps[k]) < gc_heaps[i].slot
                BY <1>1, Facts DEF HeapsInOrder
            <3> QED
                BY <1>1, <1>2, <1>3, <1>5, <2>1, <2>2, <2>4, <2>5, <3>1
        <2> QED
            BY <1>2, <2>4, <2>5, <2>6, <2>7
    <1> QED
        BY <1>1, <1>3, <1>5

LEMMA SweepNextHeapMarks ==
    ASSUME IInv, Marks, SweepNextHeap
    PROVE  Marks'
    <1>1. /\ pc = "sweep" /\ ~InHeap /\ i < Len(gc_heaps) /\ i' = i + 1
          /\ cur' = gc_heaps[i + 1].slot /\ pc' = "sweep"
          /\ UNCHANGED <<header, gc_heaps, word, roots, premarked>>
        BY DEF SweepNextHeap, client, memory
    <1> DEFINE l == i + 1
    <1>2. /\ i \in DOMAIN gc_heaps /\ cur \in Nat /\ cur <= TopOf(gc_heaps[i])
          /\ \A a \in InUseOf(header) :
                a < cur \/ \E k \in DOMAIN gc_heaps : i < k /\ gc_heaps[k].slot <= a
        BY <1>1, HeapPassed
    <1>3. l \in DOMAIN gc_heaps /\ l \in Nat /\ i \in Nat /\ i < l
        BY <1>1, <1>2, Facts, TypesOfHeaps
    <1>4. /\ gc_heaps[l].slot \in Nat /\ TopOf(gc_heaps[l]) \in Nat /\ TopOf(gc_heaps[i]) \in Nat
          /\ gc_heaps[l].slot < TopOf(gc_heaps[l])
        BY <1>2, <1>3, Facts, TypesOfHeaps
    <1>5. cur < gc_heaps[l].slot
        <2>1. TopOf(gc_heaps[i]) < gc_heaps[l].slot
            BY <1>2, <1>3, Facts DEF HeapsInOrder
        <2> QED
            BY <1>2, <1>4, <2>1
    <1>6. ASSUME NEW a \in InUseOf(header)
          PROVE  a < cur' <=> a < cur
        <2>1. a \in Nat /\ cur' \in Nat /\ cur < cur'
            BY <1>1, <1>4, <1>5, <1>6, TypesOfUsed
        <2>2. ASSUME NEW k \in DOMAIN gc_heaps, i < k
              PROVE  cur' <= gc_heaps[k].slot
            <3>1. k \in Nat /\ gc_heaps[k].slot \in Nat
                BY Facts, TypesOfHeaps
            <3>2. CASE k = l
                BY <1>1, <3>1, <3>2
            <3>3. CASE l < k
                <4>1. TopOf(gc_heaps[l]) < gc_heaps[k].slot
                    BY <1>3, <3>3, Facts DEF HeapsInOrder
                <4> QED
                    BY <1>1, <1>4, <3>1, <4>1
            <3> QED
                BY <1>3, <2>2, <3>1, <3>2, <3>3
        <2>3. CASE a < cur
            BY <1>2, <2>1, <2>3
        <2>4. CASE ~(a < cur)
            <3>1. PICK k \in DOMAIN gc_heaps : i < k /\ gc_heaps[k].slot <= a
                BY <1>2, <2>4
            <3>2. cur' <= gc_heaps[k].slot /\ gc_heaps[k].slot \in Nat
                BY <2>2, <3>1, Facts, TypesOfHeaps
            <3> QED
                BY <2>1, <2>4, <3>1, <3>2
        <2> QED
            BY <2>3, <2>4
    <1>7. cur' <= TopOf(gc_heaps'[i'])
        BY <1>1, <1>4
    <1>8. SweepKeeps'
        BY <1>1, <1>6, <1>7 DEF Marks, SweepKeeps
    <1> QED
        BY <1>1, <1>8 DEF Marks

LEMMA SweepKeptMarks ==
    ASSUME IInv, Marks, SweepKept
    PROVE  Marks'
    <1>1. /\ pc = "sweep" /\ InHeap /\ header[cur].flags # "alloc"
          /\ header' = [header EXCEPT ![cur].flags = Unmarked(@)]
          /\ cur' = NEXT_HEADER(cur) /\ pc' = "sweep"
          /\ UNCHANGED <<gc_heaps, word, roots, i, premarked>>
        BY DEF SweepKept, client, memory
    <1>2. /\ cur \in BlocksOf(header) /\ Within(header, cur, gc_heaps[i])
          /\ NEXT_HEADER(cur) = EndOf(header, cur)
          /\ cur \in Nat /\ EndOf(header, cur) \in Nat /\ cur < EndOf(header, cur)
        BY <1>1, SweepAt
    <1>3. cur \in DOMAIN header /\ header[cur] \in Header /\ header[cur].flags # "merged"
        BY <1>2, Facts, TypesOfBlocks DEF BlocksOf, Typed
    <1>4. /\ DOMAIN header' = DOMAIN header
          /\ \A x \in DOMAIN header \ {cur} : header'[x] = header[x]
          /\ header'[cur].flags = Unmarked(header[cur].flags)
          /\ header'[cur].size = header[cur].size
        BY <1>1, <1>3 DEF Header
    <1>5. /\ header[cur].flags = "free" => header'[cur].flags = "free"
          /\ header[cur].flags # "free" =>
                header[cur].flags = "marked" /\ header'[cur].flags = "alloc"
        BY <1>1, <1>3, <1>4 DEF Unmarked, Header
    <1>6. InUseOf(header') = InUseOf(header)
        BY <1>3, <1>4, <1>5 DEF InUseOf, BlocksOf, FreeOf
    <1>7. \A a \in InUseOf(header) : header'[a].size = header[a].size
        BY <1>4, TypesOfUsed
    <1>8. SafeOf(header', gc_heaps', word', roots', premarked') = SafeOf(header, gc_heaps, word, roots, premarked)
        <2>1. SafeOf(header', gc_heaps, word, roots, premarked) = SafeOf(header, gc_heaps, word, roots, premarked)
            BY <1>6, <1>7, SafeUnchanged
        <2> QED
            BY <1>1, <2>1
    <1>9. ASSUME NEW a \in InUseOf(header)
          PROVE  a < cur' <=> a < cur \/ a = cur
        <2>1. a \in Nat /\ a \in BlocksOf(header)
            BY TypesOfUsed
        <2>2. cur < a => EndOf(header, cur) <= a
            BY <1>2, <2>1, Facts DEF Tiled
        <2> QED
            BY <1>1, <1>2, <2>1, <2>2
    <1>10. ASSUME NEW a \in InUseOf(header), a # cur
           PROVE  header'[a] = header[a]
        BY <1>4, <1>10, TypesOfUsed
    <1>11. cur \in InUseOf(header) => header[cur].flags = "marked" /\ header'[cur].flags = "alloc"
        BY <1>5 DEF InUseOf, FreeOf
    <1>12. \A a \in InUseOf(header) : a < cur' => header'[a].flags = "alloc"
        BY <1>1, <1>9, <1>10, <1>11 DEF Marks, SweepKeeps
    <1>13. \A a \in InUseOf(header) :
                a < cur' \/ header'[a].flags = "marked" <=> a < cur \/ header[a].flags = "marked"
        BY <1>9, <1>10, <1>11
    <1>14. cur' <= TopOf(gc_heaps'[i'])
        BY <1>1, <1>2 DEF Within
    <1>15. SweepKeeps'
        <2>1. SafeOf(header, gc_heaps, word, roots, premarked) \cup premarked =
                {a \in InUseOf(header) : a < cur \/ header[a].flags = "marked"}
            BY <1>1 DEF Marks, SweepKeeps
        <2>2. SafeOf(header', gc_heaps', word', roots', premarked') \cup premarked' =
                {a \in InUseOf(header') : a < cur' \/ header'[a].flags = "marked"}
            BY <1>1, <1>6, <1>8, <1>13, <2>1
        <2> QED
            BY <1>6, <1>12, <1>14, <2>2 DEF SweepKeeps
    <1>16. \A a \in InUseOf(header') : header'[a].size # 0
        BY <1>6, <1>7 DEF Marks
    <1> QED
        BY <1>1, <1>6, <1>15, <1>16 DEF Marks

\* gc_sweep frees a block that the client cannot reach, and no other.
LEMMA SweepFreeFacts ==
    ASSUME IInv, Marks, SweepFree
    PROVE  /\ cur \in InUseOf(header) /\ cur \notin premarked
           /\ cur \notin SafeOf(header, gc_heaps, word, roots, premarked)
           /\ InUseOf(header') = InUseOf(header) \ {cur}
           /\ FreeOf(header') \subseteq FreeOf(header) \cup {cur}
           /\ \A x \in InUseOf(header') : header'[x] = header[x] /\ (cur < x => cur' <= x)
           /\ cur \in Nat /\ cur' \in Nat /\ cur < cur' /\ cur' <= TopOf(gc_heaps[i])
    <1>1. /\ pc = "sweep" /\ InHeap /\ header[cur].flags = "alloc"
          /\ ~Swallowed(cur) /\ header' = Freed(cur)
          /\ cur' = cur + HEADER_SIZE + header'[cur].size
        BY DEF SweepFree, mini_gc_free
    <1>2. /\ i \in DOMAIN gc_heaps /\ cur \in BlocksOf(header) /\ Within(header, cur, gc_heaps[i])
          /\ cur \in Nat
        BY <1>1, SweepAt
    <1>3. cur \in InUseOf(header) /\ cur \in InUse
        BY <1>1, <1>2, Names DEF FreeOf, InUseOf
    <1>4. gc_heaps # <<>>
        BY <1>1 DEF IInv, Position
    <1>5. Free # {}
        BY <1>4, Facts
    <1> DEFINE g == Freed(cur)
               n == cur + HEADER_SIZE + g[cur].size
    <1>6. /\ BlocksOf(g) \ FreeOf(g) = InUse \ {cur}
          /\ n \in Nat /\ cur < n
          /\ \A k \in DOMAIN gc_heaps : Within(header, cur, gc_heaps[k]) => n <= TopOf(gc_heaps[k])
          /\ FreeOf(g) \subseteq FreeOf(header) \cup {cur}
          /\ \A x \in InUse \ {cur} : g[x] = header[x] /\ (cur < x => n <= x)
        BY <1>1, <1>3, <1>5, Facts, FreedKeeps
    <1>7. g = header' /\ n = cur'
        BY <1>1
    <1> HIDE DEF g, n
    <1>8. InUseOf(header') = InUseOf(header) \ {cur}
        BY <1>6, <1>7, TypesOfUsed DEF InUseOf
    <1>9. cur \notin SafeOf(header, gc_heaps, word, roots, premarked) \cup premarked
        BY <1>1, <1>2 DEF Marks, SweepKeeps
    <1> QED
        BY <1>2, <1>3, <1>6, <1>7, <1>8, <1>9, TypesOfUsed

LEMMA SweepFreeMarks ==
    ASSUME IInv, Marks, SweepFree
    PROVE  Marks'
    <1>1. /\ pc = "sweep" /\ pc' = "sweep" /\ word' = [a \in InUse \ {cur} |-> word[a]]
          /\ UNCHANGED <<gc_heaps, roots, i, premarked>>
        BY DEF SweepFree, memory
    <1>2. /\ cur \in InUseOf(header) /\ cur \notin premarked
          /\ cur \notin SafeOf(header, gc_heaps, word, roots, premarked)
          /\ InUseOf(header') = InUseOf(header) \ {cur}
          /\ \A x \in InUseOf(header') : header'[x] = header[x] /\ (cur < x => cur' <= x)
          /\ cur \in Nat /\ cur' \in Nat /\ cur < cur' /\ cur' <= TopOf(gc_heaps[i])
        BY SweepFreeFacts
    <1>3. InUse = InUseOf(header) /\ DOMAIN word = InUseOf(header) /\ InUseOf(header) \subseteq Nat
        BY TypesOfUsed
    <1>4. \A a \in InUseOf(header') : word'[a] = word[a]
        BY <1>1, <1>2, <1>3
    <1>5. /\ \A a \in InUseOf(header) : word[a] \in Nat
          /\ roots \in SUBSET Nat
        BY <1>3 DEF Marks
    <1>6. SafeOf(header', gc_heaps', word', roots', premarked') = SafeOf(header, gc_heaps, word, roots, premarked)
        <2>1. Typed(header) /\ Tiled(header, gc_heaps)
            BY Facts
        <2>2. \A a \in InUseOf(header') : header'[a].size = header[a].size
            BY <1>2
        <2>3. SafeOf(header', gc_heaps, word', roots, premarked) = SafeOf(header, gc_heaps, word, roots, premarked)
            BY <1>2, <1>4, <1>5, <2>1, <2>2, SafeSurvives
        <2> QED
            BY <1>1, <2>3
    <1>7. ASSUME NEW a \in InUseOf(header')
          PROVE  (a < cur' <=> a < cur) /\ header'[a] = header[a] /\ a \in InUseOf(header)
        <2>1. a \in Nat /\ a # cur
            BY <1>2, <1>3
        <2> QED
            BY <1>2, <2>1
    <1>8. SafeOf(header, gc_heaps, word, roots, premarked) \cup premarked =
                {a \in InUseOf(header) : a < cur \/ header[a].flags = "marked"}
        BY <1>1 DEF Marks, SweepKeeps
    <1>9. {a \in InUseOf(header) : a < cur \/ header[a].flags = "marked"} =
                {a \in InUseOf(header') : a < cur' \/ header'[a].flags = "marked"}
        BY <1>2, <1>7, <1>8
    <1>10. \A a \in InUseOf(header') : a < cur' => header'[a].flags = "alloc"
        BY <1>1, <1>7 DEF Marks, SweepKeeps
    <1>11. SweepKeeps'
        BY <1>1, <1>2, <1>6, <1>8, <1>9, <1>10 DEF SweepKeeps
    <1>12. \A a \in InUseOf(header') : header'[a].size # 0
        BY <1>7 DEF Marks
    <1>13. \A a \in DOMAIN word' : word'[a] \in Nat
        BY <1>1, <1>3, <1>5
    <1>14. premarked' \subseteq InUseOf(header')
        BY <1>1, <1>2 DEF Marks
    <1> QED
        BY <1>1, <1>5, <1>11, <1>12, <1>13, <1>14 DEF Marks

\* At the end of a sweep every block in use is one that the client can reach or was
\* given out with the mark.
LEMMA SweepDoneFacts ==
    ASSUME IInv, Marks, SweepDone
    PROVE  /\ InUseOf(header) = SafeOf(header, gc_heaps, word, roots, premarked) \cup premarked
           /\ \A a \in InUseOf(header) : header[a].flags = "alloc"
    <1>1. pc = "sweep" /\ ~InHeap /\ i = Len(gc_heaps)
        BY DEF SweepDone
    <1>2. ASSUME NEW a \in InUseOf(header)
          PROVE  a < cur
        <2>1. SUFFICES ASSUME NEW k \in DOMAIN gc_heaps, i < k
                       PROVE  FALSE
            BY <1>1, HeapPassed
        <2>2. k \in 1..Len(gc_heaps) /\ Len(gc_heaps) \in Nat
            BY Facts, TypesOfHeaps
        <2> QED
            BY <1>1, <2>1, <2>2
    <1> QED
        BY <1>1, <1>2 DEF Marks, SweepKeeps

LEMMA SweepDoneMarks ==
    ASSUME IInv, Marks, SweepDone
    PROVE  Marks'
    <1>1. /\ header' = WithoutMerged(header) \/ header' = header
          /\ UNCHANGED <<gc_heaps, word, roots>> /\ premarked' = {}
          /\ pc' \in {"run", "search"} /\ (pc' = "search" => request' # 0)
        BY DEF SweepDone, client
    <1>2. InUseOf(header') = InUseOf(header) /\ \A a \in InUseOf(header) : header'[a] = header[a]
        BY <1>1, ForgottenInUse
    <1>3. \A a \in InUseOf(header') : header'[a].flags = "alloc" /\ header'[a].size # 0
        BY <1>2, SweepDoneFacts DEF Marks
    <1>4. MarkedEarly'
        BY <1>1, <1>3 DEF MarkedEarly
    <1> QED
        BY <1>1, <1>3, <1>4 DEF Marks

LEMMA MarksStep ==
    ASSUME IInv, Marks, [Next]_vars
    PROVE  Marks'
    <1>1. CASE CollectNow \/ CollectFirst
        <2>1. /\ pc \in {"run", "search"} /\ gc_heaps # <<>> /\ gc_mark
              /\ UNCHANGED <<gc_heaps, client, memory>>
            BY <1>1, SearchAt DEF CollectNow, CollectFirst
        <2> QED
            BY <2>1, MarkMarks
    <1>2. CASE Ended \/ UNCHANGED vars
        <2>1. UNCHANGED <<header, gc_heaps, word, roots, pc, request, i, cur, premarked>>
            BY <1>2 DEF Ended, vars, client, search, sweep, memory
        <2> QED
            BY <2>1 DEF Marks, SweepKeeps, MarkedEarly
    <1> QED
        BY <1>1, <1>2, ClientMarks, ClientFreeMarks, MallocMarks, TakeBlockMarks, SplitBlockMarks,
           GrowMarks, GrowFailsMarks, SweepKeptMarks, SweepFreeMarks, SweepNextHeapMarks,
           SweepDoneMarks
        DEF Next, Client, Search, Sweep

LEMMA InitMarks ==
    ASSUME Init
    PROVE  Marks
    <1>1. InUseOf(header) = {}
        BY DEF Init, InUseOf, BlocksOf
    <1> QED
        BY <1>1 DEF Init, Marks, MarkedEarly

\* A step of gc_sweep, for CollectionExact.
LEMMA SweepStepExact ==
    ASSUME IInv, Marks, Next, pc = "sweep"
    PROVE  /\ Safe \cap Free' = {}
           /\ pc' \in {"run", "search"} => InUse \subseteq Usable \cup premarked
    <1> DEFINE S == SafeOf(header, gc_heaps, word, roots, premarked)
    <1>1. Safe = S /\ S \subseteq InUseOf(header) /\ S \subseteq Usable /\ InUse = InUseOf(header)
        BY SafeNames, SafeIsUsable DEF SafeOf, ReachedOf, Reachable, ScannedOf
    <1> HIDE DEF S
    <1>2. Free' = FreeOf(header') /\ InUseOf(header) \cap FreeOf(header) = {}
        BY NamesNext, TypesOfUsed
    <1>3. CASE SweepFree
        <2>1. cur \notin S /\ FreeOf(header') \subseteq FreeOf(header) \cup {cur}
            BY <1>3, SweepFreeFacts DEF S
        <2>2. pc' = "sweep"
            BY <1>3 DEF SweepFree
        <2> QED
            BY <1>1, <1>2, <2>1, <2>2
    <1>4. CASE SweepDone
        <2>1. header' = WithoutMerged(header) \/ header' = header
            BY <1>4 DEF SweepDone
        <2>2. FreeOf(header') \subseteq FreeOf(header)
            BY <2>1 DEF FreeOf, BlocksOf, WithoutMerged
        <2>3. InUseOf(header) = S \cup premarked
            BY <1>4, SweepDoneFacts DEF S
        <2> QED
            BY <1>1, <1>2, <2>2, <2>3
    <1>5. CASE SweepKept
        <2>1. header' = [header EXCEPT ![cur].flags = Unmarked(@)] /\ header[cur].flags # "alloc"
              /\ pc' = "sweep"
            BY <1>5 DEF SweepKept
        <2>2. FreeOf(header') \subseteq FreeOf(header)
            <3> SUFFICES ASSUME NEW x \in FreeOf(header')
                         PROVE  x \in FreeOf(header)
                OBVIOUS
            <3>1. x \in DOMAIN header /\ header'[x].flags = "free" /\ header[x] \in Header
                BY <2>1, TypesOfUsed DEF FreeOf, BlocksOf
            <3>2. header[x].flags = "free"
                BY <2>1, <3>1 DEF Unmarked, Header
            <3> QED
                BY <3>1, <3>2 DEF FreeOf, BlocksOf
        <2> QED
            BY <1>1, <1>2, <2>1, <2>2
    <1>6. CASE SweepNextHeap \/ SweepSwallows
        <2>1. UNCHANGED header /\ pc' \notin {"run", "search"}
            BY <1>6 DEF SweepNextHeap, SweepSwallows
        <2> QED
            BY <1>1, <1>2, <2>1
    <1>7. SweepFree \/ SweepDone \/ SweepKept \/ SweepNextHeap \/ SweepSwallows
        BY DEF Next, Client, Search, Sweep, Ended, DropRoot, StoreWord, LoadWord, ClientFree, CollectNow,
               mini_gc_malloc, TakeBlock, SplitBlock, TakeCorrupts, TryNext, CollectFirst, Grow, GrowFails
    <1> QED
        BY <1>3, <1>4, <1>5, <1>6, <1>7

\* gc_sweep frees nothing that the client can reach by pointers that are not into the
\* last bytes of a heap and not in blocks given out with the mark, whatever it merges
\* on the way, and when it is through, only what the client can reach and what was
\* given out with the mark is in use.
THEOREM CollectionCorrect == Spec => CollectionExact
    <1>1. Init => IInv /\ Marks
        BY InitHolds, InitMarks
    <1>2. IInv /\ Marks /\ [Next]_vars => IInv' /\ Marks'
        BY Step, MarksStep
    <1>3. IInv /\ Marks /\ [Next]_vars =>
            [pc = "sweep" =>
                /\ Safe \cap Free' = {}
                /\ pc' \in {"run", "search"} => InUse \subseteq Usable \cup premarked]_vars
        BY SweepStepExact
    <1> QED
        BY <1>1, <1>2, <1>3, PTL DEF Spec, CollectionExact
================================================================================
