---------------------------- MODULE MarkSweepProofs ----------------------------
(***************************************************************************)
(* What holds of MarkSweep for every heap size, root table and set of      *)
(* classes: types, and the safety of the collector.                        *)
(***************************************************************************)
EXTENDS MarkSweep, Sequences, FiniteSetTheorems, SequenceTheorems,
        WellFoundedInduction, TLAPS

--------------------------------------------------------------------------------
(* The object graph.                                                       *)

\* Storing NULL in every reference field makes an object of the class (the
\* loop of gc_alloc), which refers to nothing.
LEMMA NullFieldsType ==
    ASSUME NEW Classes, NEW k \in Classes, NEW Pointers, Nil \in Pointers
    PROVE  /\ NullFields(k) \in ObjectOf(Classes, Pointers)
           /\ DOMAIN NullFields(k) = 1..k
           /\ \A i \in 1..k : NullFields(k)[i] = Nil
    BY DEF NullFields, ObjectOf

\* Storing a pointer in a field of an object leaves an object of its class.
LEMMA StoreType ==
    ASSUME NEW Classes, NEW Pointers, NEW o \in ObjectOf(Classes, Pointers),
           NEW i, NEW p \in Pointers
    PROVE  [o EXCEPT ![i] = p] \in ObjectOf(Classes, Pointers)
    <1>1. PICK k \in Classes : o \in [1..k -> Pointers]
        BY DEF ObjectOf
    <1>2. [o EXCEPT ![i] = p] \in [1..k -> Pointers]
        BY <1>1
    <1> QED
        BY <1>2 DEF ObjectOf

\* The references an object holds are pointers.
LEMMA FieldType ==
    ASSUME NEW Classes, NEW Pointers, NEW o \in ObjectOf(Classes, Pointers),
           NEW i \in DOMAIN o
    PROVE  o[i] \in Pointers
    BY DEF ObjectOf

\* The fields of an object are numbered by positive integers.
LEMMA DomainType ==
    ASSUME NEW Classes \in SUBSET Nat, NEW Pointers,
           NEW o \in ObjectOf(Classes, Pointers)
    PROVE  \E k \in Classes : DOMAIN o = 1..k
    BY DEF ObjectOf

\* What is closed and holds the roots holds everything reachable: this is why
\* a collector that keeps such a set takes back only garbage.
LEMMA ReachableIsLeast ==
    ASSUME NEW Nodes, NEW f, NEW R, NEW S \in SUBSET Nodes,
           R \subseteq S \cup {Nil}, Closed(f, S)
    PROVE  Reachable(Nodes, f, R) \subseteq S
    BY DEF Reachable

\* The roots are reachable.
LEMMA RootsAreReachable ==
    ASSUME NEW Nodes, NEW f, NEW R, R \subseteq Nodes \cup {Nil}
    PROVE  R \subseteq Reachable(Nodes, f, R) \cup {Nil}
    BY DEF Reachable

\* Following a reference from a reachable object leads to a reachable object.
LEMMA ReachableIsClosed ==
    ASSUME NEW Nodes, NEW f, NEW R, Closed(f, Nodes)
    PROVE  Closed(f, Reachable(Nodes, f, R))
    <1> SUFFICES ASSUME NEW n \in Reachable(Nodes, f, R),
                        NEW i \in DOMAIN f[n], f[n][i] # Nil
                 PROVE  f[n][i] \in Reachable(Nodes, f, R)
        BY DEF Closed
    <1>1. n \in Nodes
        BY DEF Reachable
    <1>2. f[n][i] \in Nodes
        BY <1>1 DEF Closed
    <1>3. ASSUME NEW S \in SUBSET Nodes, R \subseteq S \cup {Nil},
                 Closed(f, S)
          PROVE  f[n][i] \in S
        <2>1. n \in S
            BY <1>3, ReachableIsLeast
        <2> QED
            BY <1>3, <2>1 DEF Closed
    <1> QED
        BY <1>2, <1>3 DEF Reachable

\* Clearing or overwriting unreachable objects changes nothing that is reachable:
\* sweeping does not disturb the graph it decides by.
LEMMA GarbageIsIrrelevant ==
    ASSUME NEW Nodes, NEW f, NEW f2, NEW R,
           R \subseteq Nodes \cup {Nil},
           Closed(f, Nodes), Closed(f2, Nodes),
           \A n \in Reachable(Nodes, f, R) : f2[n] = f[n]
    PROVE  Reachable(Nodes, f2, R) = Reachable(Nodes, f, R)
    <1> DEFINE Old == Reachable(Nodes, f, R)
               New == Reachable(Nodes, f2, R)
    <1>1. Old \in SUBSET Nodes /\ New \in SUBSET Nodes
        BY DEF Reachable
    <1>2. R \subseteq Old \cup {Nil} /\ R \subseteq New \cup {Nil}
        BY RootsAreReachable
    <1>3. Closed(f, Old) /\ Closed(f2, New)
        BY ReachableIsClosed
    <1>4. Closed(f2, Old)
        BY <1>3 DEF Closed
    <1>5. New \subseteq Old
        BY <1>1, <1>2, <1>4, ReachableIsLeast
    <1>6. Closed(f, New)
        BY <1>3, <1>5 DEF Closed
    <1>7. Old \subseteq New
        BY <1>1, <1>2, <1>6, ReachableIsLeast
    <1> QED
        BY <1>5, <1>7

--------------------------------------------------------------------------------
(* Searches and stacks.                                                    *)

\* A set of natural numbers that is not empty has a least element.
LEMMA LeastElement ==
    ASSUME NEW T \in SUBSET Nat, T # {}
    PROVE  \E m \in T : \A k \in T : m <= k
    <1> DEFINE R == StrictSubsetOrdering(Nat)
               Up == {0..m : m \in T}
    <1>1. Up \subseteq FiniteSubsetsOf(Nat) /\ Up # {}
        <2>1. ASSUME NEW m \in T
              PROVE  0..m \in SUBSET Nat /\ IsFiniteSet(0..m)
            <3>1. 0 \in Int /\ m \in Int
                OBVIOUS
            <3>2. IsFiniteSet(0..m)
                BY <3>1, FS_Interval, Zenon
            <3> QED
                BY <3>2
        <2> QED
            BY <2>1, Zenon DEF FiniteSubsetsOf
    <1>2. IsWellFoundedOn(R, FiniteSubsetsOf(Nat))
        BY FS_StrictSubsetOrderingWellFounded
    <1>3. PICK x \in Up : \A y \in Up : <<y, x>> \notin R
        BY <1>1, <1>2, WFMin
    <1>4. PICK m \in T : x = 0..m
        BY <1>3
    <1>5. ASSUME NEW k \in T, k < m
          PROVE  FALSE
        <2>1. 0..k \in SUBSET Nat /\ 0..m \in SUBSET Nat
            OBVIOUS
        <2>2. 0..k \subseteq 0..m /\ m \in 0..m /\ m \notin 0..k
            BY <1>5
        <2>3. <<0..k, 0..m>> \in R
            BY <2>1, <2>2 DEF StrictSubsetOrdering
        <2> QED
            BY <1>3, <1>4, <2>3
    <1> QED
        BY <1>5

\* A search from n to m that passes what is used stops somewhere.
LEMMA FirstUnused ==
    ASSUME NEW U, NEW n \in Nat, NEW m \in Nat, ~(n..m \subseteq U)
    PROVE  \E k \in (n..m) \ U : n..(k - 1) \subseteq U
    <1> DEFINE Idle == (n..m) \ U
    <1>1. Idle \in SUBSET Nat /\ Idle # {}
        OBVIOUS
    <1>2. PICK k \in Idle : \A l \in Idle : k <= l
        BY <1>1, LeastElement
    <1>3. n..(k - 1) \subseteq U
        BY <1>1, <1>2
    <1> QED
        BY <1>2, <1>3

\* All but the last element of a sequence.
LEMMA FrontProperties ==
    ASSUME NEW S, NEW s \in Seq(S), Len(s) # 0
    PROVE  /\ SubSeq(s, 1, Len(s) - 1) \in Seq(S)
           /\ Len(SubSeq(s, 1, Len(s) - 1)) = Len(s) - 1
           /\ \A j \in 1..(Len(s) - 1) : SubSeq(s, 1, Len(s) - 1)[j] = s[j]
    <1> DEFINE n == Len(s) - 1
    <1>1. n \in Nat /\ n + 1 = Len(s)
        BY LenProperties
    <1> HIDE DEF n
    <1>2. SubSeq(s, 1, n) \in Seq(S)
        BY <1>1, SMT
    <1>3. Len(SubSeq(s, 1, n)) = n
        BY <1>1, SMT
    <1>4. \A j \in 1..n : SubSeq(s, 1, n)[j] = s[j]
        BY <1>1, SMT
    <1> QED
        BY <1>2, <1>3, <1>4 DEF n

--------------------------------------------------------------------------------
(* The list of nodes, for every heap size.                                 *)

\* The heap is a whole number of nodes, at least one and at most four for each
\* root, whatever size gc_init is given (resolve_heap_size).
LEMMA HeapSizeBounds ==
    /\ free_list_size \in Nat \ {0}
    /\ free_list_size <= MAX_ROOTS * 4
    <1> DEFINE M == MAX_ROOTS * 4
    <1>1. M \in Nat /\ M >= 1
        BY MAX_ROOTSAssumption
    <1>2. MAX_HEAP_SIZE = M * 128
        BY DEF MAX_HEAP_SIZE, NODE_SIZE
    <1> HIDE DEF M
    <1>3. \A c \in Int : 128 <= c /\ c <= M * 128 =>
            /\ c \div 128 \in Int
            /\ 1 <= c \div 128
            /\ c \div 128 <= M
            /\ ((c \div 128) * 128) \div 128 = c \div 128
        BY <1>1
    <1> QED
        BY <1>1, <1>2, <1>3, HeapSizeAssumption
        DEF free_list_size, resolve_heap_size, NODE_SIZE, M

LEMMA NodeFacts ==
    /\ Node \subseteq Nat
    /\ head \in Node
    /\ Nil \notin Node
    /\ \A n \in Node : next(n) \in Node \cup {Nil}
    /\ \A n \in Node, m \in Node :
          (next(n) = Nil \/ m < next(n)) <=> (m < n \/ m = n)
    BY HeapSizeBounds DEF Node, head, Nil, next

\* Where find_idle_node stops is an idle node of the list, or NULL when there is
\* no idle node from its starting point on.
LEMMA FirstIdleSpec ==
    ASSUME NEW used_nodes, NEW n \in Nat \ {0}
    PROVE  \/ FirstIdle(used_nodes, n) = Nil /\ n..free_list_size \subseteq used_nodes
           \/ FirstIdle(used_nodes, n) \in Node \ used_nodes
    <1>1. CASE n..free_list_size \subseteq used_nodes
        BY <1>1 DEF FirstIdle
    <1>2. CASE ~(n..free_list_size \subseteq used_nodes)
        <2>1. n \in Nat /\ free_list_size \in Nat
            BY HeapSizeBounds
        <2>2. \E k \in (n..free_list_size) \ used_nodes : n..(k - 1) \subseteq used_nodes
            BY <1>2, <2>1, FirstUnused
        <2>3. FirstIdle(used_nodes, n) \in (n..free_list_size) \ used_nodes
            BY <1>2, <2>2, Zenon DEF FirstIdle
        <2>4. n..free_list_size \subseteq Node
            BY <2>1 DEF Node
        <2> QED
            BY <2>3, <2>4
    <1> QED
        BY <1>1, <1>2

--------------------------------------------------------------------------------
(* Type correctness.                                                       *)

\* Placing an object keeps the types (gc_alloc after the search).
LEMMA PlaceType ==
    ASSUME TypeOK, NEW n \in Node, NEW k \in Class, Place(n, k)
    PROVE  /\ used' \in SUBSET Node
           /\ field' \in [Node -> Contents]
           /\ marked' \in SUBSET Node
           /\ next_free' \in Pointer
    <1>1. NullFields(k) \in Contents
        BY NullFieldsType DEF Contents, Pointer
    <1> QED
        BY <1>1, NodeFacts DEF TypeOK, Place, Pointer

\* A call of mark() keeps the types.
LEMMA CallType ==
    ASSUME TypeOK, NEW p \in Pointer, NEW fs \in Seq(Frame), Call(p, fs)
    PROVE  stack' \in Seq(Frame) /\ marked' \in SUBSET Node
    <1>1. CASE p = Nil \/ p \in marked
        BY <1>1 DEF TypeOK, Call
    <1>2. CASE ~(p = Nil \/ p \in marked)
        <2>1. p \in Node /\ [obj |-> p, i |-> 1] \in Frame
            BY <1>2 DEF Frame, Pointer
        <2>2. stack' = Append(fs, [obj |-> p, i |-> 1]) /\ marked' = marked \cup {p}
            BY <1>2 DEF Call
        <2>3. stack' \in Seq(Frame)
            BY <2>1, <2>2, AppendProperties
        <2> QED
            BY <2>1, <2>2, <2>3 DEF TypeOK
    <1> QED
        BY <1>1, <1>2

\* What is left of the recursion when the innermost call of mark() returns.
LEMMA TopType ==
    ASSUME TypeOK, stack # <<>>
    PROVE  /\ Len(stack) \in Nat \ {0}
           /\ Top \in Frame
           /\ Callers \in Seq(Frame)
           /\ Len(Callers) = Len(stack) - 1
           /\ \A j \in 1..(Len(stack) - 1) : Callers[j] = stack[j]
    <1>1. stack \in Seq(Frame)
        BY DEF TypeOK
    <1>2. Len(stack) \in Nat \ {0}
        BY <1>1, EmptySeq
    <1>3. Top \in Frame
        BY <1>1, <1>2, ElementOfSeq DEF Top
    <1>4. /\ SubSeq(stack, 1, Len(stack) - 1) \in Seq(Frame)
          /\ Len(SubSeq(stack, 1, Len(stack) - 1)) = Len(stack) - 1
          /\ \A j \in 1..(Len(stack) - 1) : SubSeq(stack, 1, Len(stack) - 1)[j] = stack[j]
        BY <1>1, <1>2, FrontProperties
    <1> QED
        BY <1>2, <1>3, <1>4 DEF Callers

\* Every step keeps the types.
LEMMA TypeStep ==
    ASSUME TypeOK, [Next]_vars
    PROVE  TypeOK'
    <1> USE DEF heap, collector
    <1>1. CASE AddRoot
        <2>1. PICK p \in used \cup {Nil} : roots' = Append(roots, p)
            BY <1>1 DEF AddRoot
        <2>2. p \in Pointer
            BY DEF TypeOK, Pointer
        <2>3. roots' \in Seq(Pointer) /\ Len(roots') = Len(roots) + 1
            BY <2>1, <2>2, AppendProperties DEF TypeOK
        <2>4. Len(roots) \in Nat
            BY LenProperties DEF TypeOK
        <2> QED
            BY <1>1, <2>3, <2>4, MAX_ROOTSAssumption DEF TypeOK, AddRoot
    <1>2. CASE RestoreRoots
        <2>1. PICK k \in 0..Len(roots) : roots' = SubSeq(roots, 1, k)
            BY <1>2 DEF RestoreRoots
        <2>2. roots' \in Seq(Pointer) /\ Len(roots') <= MAX_ROOTS
            BY <2>1, MAX_ROOTSAssumption DEF TypeOK
        <2> QED
            BY <1>2, <2>2 DEF TypeOK, RestoreRoots
    <1>3. CASE Write
        <2>1. PICK o \in used, p \in used \cup {Nil} : \E i \in DOMAIN field[o] :
                field' = [field EXCEPT ![o][i] = p]
            BY <1>3 DEF Write
        <2>2. PICK i \in DOMAIN field[o] : field' = [field EXCEPT ![o][i] = p]
            BY <2>1
        <2>3. o \in Node /\ p \in Pointer /\ field[o] \in Contents
            BY DEF TypeOK, Pointer, Contents
        <2>4. [field[o] EXCEPT ![i] = p] \in Contents
            BY <2>3, StoreType DEF Contents
        <2>5. field' \in [Node -> Contents]
            BY <2>2, <2>3, <2>4 DEF TypeOK, Contents
        <2> QED
            BY <1>3, <2>5 DEF TypeOK, Write, Contents
    <1>4. CASE CollectNow
        BY <1>4 DEF TypeOK, CollectNow, StartGC
    <1>5. CASE AllocNextFree
        <2>1. PICK k \in Class : Place(next_free, k)
            BY <1>5 DEF AllocNextFree
        <2>2. next_free \in Node
            BY <1>5 DEF AllocNextFree, TypeOK, Pointer
        <2> QED
            BY <1>5, <2>1, <2>2, PlaceType DEF TypeOK, AllocNextFree, Contents
    <1>6. CASE FindIdle
        <2>1. next_free' \in Pointer
            BY <1>6, FirstIdleSpec, NodeFacts DEF FindIdle, head, Pointer
        <2>2. PICK k \in Class :
                IF next_free' = Nil THEN StartGC(k)
                ELSE pc' = "search" /\ request' = k /\ UNCHANGED ri
            BY <1>6 DEF FindIdle
        <2>3. k # NoRequest
            BY ClassAssumption DEF NoRequest
        <2> QED
            BY <1>6, <2>1, <2>2, <2>3 DEF TypeOK, FindIdle, StartGC
    <1>7. CASE SearchAgain
        <2> DEFINE n == FirstIdle(used, head + 1)
        <2>1. n = Nil \/ n \in Node
            BY FirstIdleSpec DEF head
        <2>2. CASE n = Nil
            BY <1>7, <2>2 DEF TypeOK, SearchAgain, Pointer
        <2>3. CASE n \in Node
            BY <1>7, <2>3, NodeFacts, PlaceType
            DEF TypeOK, SearchAgain, Contents
        <2> QED
            BY <2>1, <2>2, <2>3
    <1>8. CASE MarkRoot
        <2>1. roots[ri] \in Pointer
            BY <1>8, ElementOfSeq DEF TypeOK, MarkRoot
        <2>2. stack' \in Seq(Frame) /\ marked' \in SUBSET Node
            BY <1>8, <2>1, CallType, EmptySeq DEF MarkRoot
        <2> QED
            BY <1>8, <2>1, <2>2 DEF TypeOK, MarkRoot
    <1>9. CASE MarkField
        <2> DEFINE p == field[Top.obj][Top.i]
                   f == [obj |-> Top.obj, i |-> Top.i + 1]
        <2>1. Top \in Frame /\ Callers \in Seq(Frame)
            BY <1>9, TopType DEF MarkField
        <2>2. p \in Pointer
            BY <1>9, <2>1, FieldType DEF MarkField, TypeOK, Contents, Frame
        <2>3. f \in Frame
            BY <2>1 DEF Frame
        <2>4. Append(Callers, f) \in Seq(Frame)
            BY <2>1, <2>3, AppendProperties
        <2>5. Call(p, Append(Callers, f))
            BY <1>9 DEF MarkField
        <2>6. stack' \in Seq(Frame) /\ marked' \in SUBSET Node
            BY <2>2, <2>4, <2>5, CallType
        <2> QED
            BY <1>9, <2>6 DEF TypeOK, MarkField
    <1>10. CASE MarkReturn
        BY <1>10, TopType DEF TypeOK, MarkReturn
    <1>11. CASE MarkDone
        BY <1>11, NodeFacts DEF TypeOK, MarkDone, Pointer
    <1>12. CASE SweepIdle
        BY <1>12, NodeFacts DEF TypeOK, SweepIdle, Pointer
    <1>13. CASE SweepMarked
        BY <1>13, NodeFacts DEF TypeOK, SweepMarked, Pointer
    <1>14. CASE SweepReclaim
        <2>1. NullFields(0) \in Contents
            BY NullFieldsType DEF Contents, Pointer
        <2> QED
            BY <1>14, <2>1, NodeFacts DEF TypeOK, SweepReclaim, Pointer
    <1>15. CASE SweepDone
        BY <1>15 DEF TypeOK, SweepDone
    <1>16. CASE UNCHANGED vars
        BY <1>16 DEF TypeOK, vars
    <1> QED
        BY <1>1, <1>2, <1>3, <1>4, <1>5, <1>6, <1>7, <1>8, <1>9, <1>10, <1>11,
           <1>12, <1>13, <1>14, <1>15, <1>16
        DEF Next, Client, Mark, Sweep, Aborted

\* TypeOK holds of the initial state.
LEMMA TypeInit == Init => TypeOK
    <1>1. NullFields(0) \in Contents
        BY NullFieldsType DEF Contents, Pointer
    <1> QED
        BY <1>1, NodeFacts, EmptySeq, MAX_ROOTSAssumption
        DEF Init, TypeOK, Pointer

\* The types hold in every reachable state, for every heap size: next_free and
\* the cursor of sweep() never leave the list.
THEOREM TypeCorrect == Spec => []TypeOK
    <1> QED
        BY TypeInit, TypeStep, PTL DEF Spec

--------------------------------------------------------------------------------
(* The inductive invariant.                                                *)

IInv == TypeOK /\ CollectorInvariant

\* Pushing a root adds it to what the root array holds.
LEMMA AppendPointees ==
    ASSUME NEW S, NEW s \in Seq(S), NEW p \in S
    PROVE  Pointees(Append(s, p)) = Pointees(s) \cup {p}
    <1> DEFINE n == Len(s)
               t == Append(s, p)
    <1>1. n \in Nat /\ DOMAIN s = 1..n
        BY LenProperties
    <1>2. t \in Seq(S) /\ Len(t) = n + 1 /\ (\A i \in 1..n : t[i] = s[i]) /\ t[n + 1] = p
        BY AppendProperties
    <1>3. DOMAIN t = 1..(n + 1)
        BY <1>2, LenProperties
    <1> HIDE DEF n, t
    <1>4. Pointees(t) \subseteq Pointees(s) \cup {p}
        BY <1>1, <1>2, <1>3 DEF Pointees
    <1>5. Pointees(s) \subseteq Pointees(t)
        <2> SUFFICES ASSUME NEW i \in DOMAIN s PROVE s[i] \in Pointees(t)
            BY DEF Pointees
        <2>1. i \in DOMAIN t /\ t[i] = s[i]
            BY <1>1, <1>2, <1>3
        <2> QED
            BY <2>1 DEF Pointees
    <1>6. p \in Pointees(t)
        <2>1. n + 1 \in DOMAIN t
            BY <1>1, <1>3
        <2> QED
            BY <1>2, <2>1 DEF Pointees
    <1> QED
        BY <1>4, <1>5, <1>6 DEF t

\* References and roots stay among the nodes.
LEMMA FieldsInNodes ==
    ASSUME NEW f \in [Node -> Contents]
    PROVE  Closed(f, Node)
    BY FieldType DEF Contents, Pointer, Closed

LEMMA GraphInNodes ==
    ASSUME TypeOK
    PROVE  Closed(field, Node) /\ Pointees(roots) \subseteq Node \cup {Nil}
    <1>1. Closed(field, Node)
        BY FieldsInNodes DEF TypeOK
    <1>2. ASSUME NEW i \in DOMAIN roots
          PROVE  roots[i] \in Node \cup {Nil}
        BY ElementOfSeq DEF TypeOK, Pointer
    <1> QED
        BY <1>1, <1>2 DEF Pointees

\* Everything reachable will be left by sweep().
LEMMA LiveIsKept ==
    ASSUME TypeOK, KeptIsClosed
    PROVE  Live \subseteq Kept /\ Kept \subseteq used
    <1>1. Kept \in SUBSET Node /\ Kept \subseteq used
        BY DEF Kept, TypeOK
    <1> QED
        BY <1>1, ReachableIsLeast DEF KeptIsClosed, Live

\* The roots are live, and so is what a live object refers to.
LEMMA LiveIsClosed ==
    ASSUME TypeOK
    PROVE  /\ Closed(field, Live)
           /\ Pointees(roots) \subseteq Live \cup {Nil}
           /\ Live \subseteq Node
    <1>1. Live \subseteq Node
        BY DEF Live, Reachable
    <1> QED
        BY <1>1, GraphInNodes, ReachableIsClosed, RootsAreReachable DEF Live

\* What the client and gc_alloc do between collections.
LEMMA ClientStep ==
    ASSUME IInv, Client \/ SearchAgain
    PROVE  CollectorInvariant'
    <1> USE DEF heap, collector
    <1>1. pc \in {"run", "search"} /\ marked = {} /\ Kept = used /\ stack = <<>>
        BY DEF IInv, CollectorInvariant, MarksInPlace, Kept, Client, SearchAgain,
               AddRoot, RestoreRoots, Write, CollectNow, AllocNextFree, FindIdle
    <1>2. /\ pc' \in {"run", "search", "mark", "abort"}
          /\ pc' = "mark" => ri' = 1
          /\ marked' = {} /\ stack' = <<>> /\ used \subseteq used'
        BY <1>1 DEF Client, SearchAgain, AddRoot, RestoreRoots, Write, CollectNow,
               AllocNextFree, FindIdle, StartGC, Place
    <1>3. Pointees(roots) \subseteq used \cup {Nil} /\ Closed(field, used)
        BY <1>1 DEF IInv, CollectorInvariant, KeptIsClosed
    <1>4. Pointees(roots') \subseteq used' \cup {Nil} /\ Closed(field', used')
        <2>1. CASE AddRoot
            <3>1. PICK p \in used \cup {Nil} : roots' = Append(roots, p)
                BY <2>1 DEF AddRoot
            <3>2. Pointees(roots') = Pointees(roots) \cup {p}
                <4>1. p \in Pointer
                    BY DEF IInv, TypeOK, Pointer
                <4> QED
                    BY <3>1, <4>1, AppendPointees DEF IInv, TypeOK
            <3> QED
                BY <1>3, <2>1, <3>1, <3>2 DEF AddRoot
        <2>2. CASE RestoreRoots
            <3>1. PICK k \in 0..Len(roots) : roots' = SubSeq(roots, 1, k)
                BY <2>2 DEF RestoreRoots
            <3>2. Pointees(roots') \subseteq Pointees(roots)
                BY <3>1 DEF Pointees, IInv, TypeOK
            <3> QED
                BY <1>3, <2>2, <3>2 DEF RestoreRoots
        <2>3. CASE Write
            <3>1. PICK o \in used, p \in used \cup {Nil} : \E i \in DOMAIN field[o] :
                    field' = [field EXCEPT ![o][i] = p]
                BY <2>3 DEF Write
            <3>2. PICK i \in DOMAIN field[o] : field' = [field EXCEPT ![o][i] = p]
                BY <3>1
            <3>3. ASSUME NEW n \in used, NEW j \in DOMAIN field'[n]
                  PROVE  field'[n][j] \in used \cup {Nil}
                BY <1>3, <3>2, <3>3 DEF Closed, IInv, TypeOK
            <3> QED
                BY <1>3, <2>3, <3>3 DEF Write, Closed
        <2>4. ASSUME NEW n \in Node, NEW k \in Class, Place(n, k), UNCHANGED roots
              PROVE  Pointees(roots') \subseteq used' \cup {Nil} /\ Closed(field', used')
            <3>1. ASSUME NEW m \in used', NEW j \in DOMAIN field'[m]
                  PROVE  field'[m][j] \in used' \cup {Nil}
                <4>1. CASE m = n
                    BY <2>4, <3>1, <4>1, NullFieldsType DEF Place, IInv, TypeOK
                <4>2. CASE m # n
                    BY <1>3, <2>4, <3>1, <4>2 DEF Place, Closed, IInv, TypeOK
                <4> QED
                    BY <4>1, <4>2
            <3> QED
                BY <1>2, <1>3, <2>4, <3>1 DEF Closed
        <2>5. CASE UNCHANGED <<used, field, roots>>
            BY <1>3, <2>5
        <2>6. CASE AllocNextFree
            <3>1. next_free \in Node
                BY <2>6 DEF AllocNextFree, IInv, TypeOK, Pointer
            <3> QED
                BY <2>4, <2>6, <3>1 DEF AllocNextFree
        <2>7. CASE SearchAgain
            <3> DEFINE n == FirstIdle(used, head + 1)
            <3>1. n = Nil \/ n \in Node
                BY FirstIdleSpec DEF head
            <3>2. request \in Class
                BY <2>7 DEF SearchAgain, IInv, TypeOK
            <3>3. CASE n = Nil
                BY <2>5, <2>7, <3>3 DEF SearchAgain
            <3>4. CASE n \in Node
                BY <2>4, <2>7, <3>2, <3>4, NodeFacts DEF SearchAgain
            <3> QED
                BY <3>1, <3>3, <3>4
        <2>8. CASE CollectNow \/ FindIdle
            BY <2>5, <2>8 DEF CollectNow, FindIdle
        <2> QED
            BY <2>1, <2>2, <2>3, <2>6, <2>7, <2>8 DEF Client
    <1>5. MarksInPlace'
        BY <1>2, <1>4 DEF MarksInPlace
    <1>6. MarkFrontier'
        BY <1>2 DEF MarkFrontier
    <1>7. KeptIsClosed'
        BY <1>2, <1>4 DEF KeptIsClosed, Kept
    <1>8. KeptIsLive'
        BY <1>2 DEF KeptIsLive
    <1> QED
        BY <1>5, <1>6, <1>7, <1>8 DEF CollectorInvariant

\* A call of mark(p) on a reachable pointer marks only reachable objects in use
\* and keeps the frontier, provided the frames fs kept it before the call.
LEMMA CallStep ==
    ASSUME IInv, pc = "mark",
           NEW p \in Pointer, p \in Live \cup {Nil},
           NEW fs \in Seq(Frame), Call(p, fs),
           UNCHANGED field,
           \A j \in DOMAIN fs : fs[j].obj \in marked,
           \A n \in marked : \A k \in DOMAIN field[n] :
              \/ field[n][k] \in marked \cup {Nil, p}
              \/ \E j \in DOMAIN fs : fs[j].obj = n /\ fs[j].i <= k
    PROVE  /\ marked \subseteq marked' /\ marked' \subseteq marked \cup {p}
           /\ marked' \subseteq Live
           /\ p \in marked' \cup {Nil}
           /\ \A j \in DOMAIN stack' : stack'[j].obj \in marked'
           /\ \A n \in marked' : \A k \in DOMAIN field[n] :
                 \/ field[n][k] \in marked' \cup {Nil}
                 \/ \E j \in DOMAIN stack' : stack'[j].obj = n /\ stack'[j].i <= k
    <1>1. marked \subseteq Live
        BY DEF IInv, CollectorInvariant, KeptIsLive
    <1>2. CASE p = Nil \/ p \in marked
        BY <1>1, <1>2 DEF Call
    <1>3. CASE ~(p = Nil \/ p \in marked)
        <2> DEFINE f == [obj |-> p, i |-> 1]
        <2>1. stack' = Append(fs, f) /\ marked' = marked \cup {p} /\ p \in Live
            BY <1>3 DEF Call
        <2>2. f \in Frame
            BY <1>3 DEF Frame, Pointer
        <2>3. /\ Len(fs) \in Nat
              /\ DOMAIN fs = 1..Len(fs)
              /\ DOMAIN stack' = 1..(Len(fs) + 1)
              /\ \A j \in 1..Len(fs) : stack'[j] = fs[j]
              /\ stack'[Len(fs) + 1] = f
            BY <2>1, <2>2, AppendProperties, LenProperties
        <2>4. \A j \in DOMAIN stack' : stack'[j].obj \in marked'
            BY <2>1, <2>3
        <2>5. ASSUME NEW n \in marked', NEW k \in DOMAIN field[n]
              PROVE  \/ field[n][k] \in marked' \cup {Nil}
                     \/ \E j \in DOMAIN stack' :
                           stack'[j].obj = n /\ stack'[j].i <= k
            <3>1. CASE n = p
                <4>1. k \in Nat /\ 1 <= k
                    <5>1. n \in Node
                        BY <1>3, <3>1 DEF Pointer
                    <5>2. \E c \in Class \cup {0} : DOMAIN field[n] = 1..c
                        BY <5>1, ClassAssumption, DomainType
                        DEF IInv, TypeOK, Contents
                    <5> QED
                        BY <5>2, ClassAssumption
                <4> QED
                    BY <2>3, <3>1, <4>1
            <3>2. CASE n # p
                BY <2>1, <2>3, <3>2
            <3> QED
                BY <3>1, <3>2
        <2> QED
            BY <1>1, <2>1, <2>4, <2>5
    <1> QED
        BY <1>2, <1>3

\* What gc() does while it marks.
LEMMA MarkStep ==
    ASSUME IInv, Mark
    PROVE  CollectorInvariant'
    <1> USE DEF heap
    <1>1. /\ pc = "mark" /\ pc' \in {"mark", "sweep"}
          /\ UNCHANGED <<used, field, roots>>
        BY DEF Mark, MarkRoot, MarkField, MarkReturn, MarkDone
    <1>2. /\ Kept = used /\ marked \subseteq used
          /\ Pointees(roots) \subseteq used \cup {Nil} /\ Closed(field, used)
        BY <1>1 DEF IInv, CollectorInvariant, MarksInPlace, KeptIsClosed, Kept
    <1>3. Live \subseteq used /\ Live' = Live
        BY <1>1, LiveIsKept DEF IInv, CollectorInvariant, Live
    <1>4. /\ marked \subseteq Live
          /\ \A j \in DOMAIN roots : j < ri => roots[j] \in marked \cup {Nil}
          /\ \A j \in DOMAIN stack : stack[j].obj \in marked
          /\ \A n \in marked : \A k \in DOMAIN field[n] :
                \/ field[n][k] \in marked \cup {Nil}
                \/ \E j \in DOMAIN stack : stack[j].obj = n /\ stack[j].i <= k
        BY <1>1 DEF IInv, CollectorInvariant, KeptIsLive, MarkFrontier
    \* A step that stays in mark() keeps the invariant if it keeps the frontier.
    <1>5. ASSUME pc' = "mark", marked' \subseteq Live,
                 \A j \in DOMAIN roots : j < ri' => roots[j] \in marked' \cup {Nil},
                 \A j \in DOMAIN stack' : stack'[j].obj \in marked',
                 \A n \in marked' : \A k \in DOMAIN field[n] :
                    \/ field[n][k] \in marked' \cup {Nil}
                    \/ \E j \in DOMAIN stack' : stack'[j].obj = n /\ stack'[j].i <= k
          PROVE  CollectorInvariant'
        <2>1. MarksInPlace'
            BY <1>1, <1>3, <1>5 DEF MarksInPlace
        <2>2. MarkFrontier'
            BY <1>1, <1>5 DEF MarkFrontier
        <2>3. KeptIsClosed'
            BY <1>1, <1>2, <1>5 DEF KeptIsClosed, Kept
        <2>4. KeptIsLive'
            BY <1>3, <1>5 DEF KeptIsLive
        <2> QED
            BY <2>1, <2>2, <2>3, <2>4 DEF CollectorInvariant
    <1>6. CASE MarkRoot
        <2> DEFINE p == roots[ri]
        <2>1. /\ ri \in DOMAIN roots /\ p \in Pointer
              /\ stack = <<>> /\ Call(p, <<>>) /\ ri' = ri + 1 /\ pc' = "mark"
            BY <1>6, ElementOfSeq, LenProperties DEF MarkRoot, IInv, TypeOK
        <2>2. p \in Live \cup {Nil}
            BY <2>1, LiveIsClosed DEF IInv, Pointees
        <2>3. /\ <<>> \in Seq(Frame)
              /\ \A j \in DOMAIN <<>> : <<>>[j].obj \in marked
              /\ \A n \in marked : \A k \in DOMAIN field[n] :
                    field[n][k] \in marked \cup {Nil, p}
            BY <1>4, <2>1, EmptySeq
        <2>4. /\ marked \subseteq marked' /\ marked' \subseteq Live
              /\ p \in marked' \cup {Nil}
              /\ \A j \in DOMAIN stack' : stack'[j].obj \in marked'
              /\ \A n \in marked' : \A k \in DOMAIN field[n] :
                    \/ field[n][k] \in marked' \cup {Nil}
                    \/ \E j \in DOMAIN stack' : stack'[j].obj = n /\ stack'[j].i <= k
            BY <1>1, <2>1, <2>2, <2>3, CallStep
        <2>5. ASSUME NEW j \in DOMAIN roots, j < ri'
              PROVE  roots[j] \in marked' \cup {Nil}
            <3>1. j < ri \/ j = ri
                BY <2>1, <2>5, LenProperties DEF IInv, TypeOK
            <3> QED
                BY <1>4, <2>4, <3>1
        <2> QED
            BY <1>5, <2>1, <2>4, <2>5
    <1>7. CASE MarkField
        <2> DEFINE p == field[Top.obj][Top.i]
                   f == [obj |-> Top.obj, i |-> Top.i + 1]
                   fs == Append(Callers, f)
                   d == Len(stack)
        <2>1. /\ stack # <<>> /\ Top.i \in DOMAIN field[Top.obj]
              /\ Call(p, fs) /\ UNCHANGED ri /\ pc' = "mark"
            BY <1>7 DEF MarkField
        <2>2. /\ d \in Nat \ {0} /\ Top \in Frame /\ Callers \in Seq(Frame)
              /\ Len(Callers) = d - 1
              /\ \A j \in 1..(d - 1) : Callers[j] = stack[j]
              /\ Top = stack[d] /\ DOMAIN stack = 1..d
            BY <2>1, TopType, LenProperties DEF IInv, TypeOK, Top
        <2>3. f \in Frame
            BY <2>2 DEF Frame
        <2>4. /\ fs \in Seq(Frame) /\ DOMAIN fs = 1..d
              /\ \A j \in 1..(d - 1) : fs[j] = stack[j]
              /\ fs[d] = f
            BY <2>2, <2>3, AppendProperties, LenProperties
        <2>5. p \in Pointer
            BY <2>1, <2>2, FieldType DEF IInv, TypeOK, Contents, Frame
        <2>6. Top.obj \in marked
            BY <1>4, <2>2
        <2>7. p \in Live \cup {Nil}
            BY <1>4, <2>1, <2>6, LiveIsClosed DEF IInv, Closed
        <2>8. \A j \in DOMAIN fs : fs[j].obj \in marked
            BY <1>4, <2>2, <2>4, <2>6
        <2>9. ASSUME NEW n \in marked, NEW k \in DOMAIN field[n]
              PROVE  \/ field[n][k] \in marked \cup {Nil, p}
                     \/ \E j \in DOMAIN fs : fs[j].obj = n /\ fs[j].i <= k
            <3>1. CASE field[n][k] \in marked \cup {Nil}
                BY <3>1
            <3>2. ASSUME NEW j \in DOMAIN stack, stack[j].obj = n, stack[j].i <= k
                  PROVE  \/ field[n][k] = p
                         \/ \E l \in DOMAIN fs : fs[l].obj = n /\ fs[l].i <= k
                <4>1. CASE j < d
                    BY <2>2, <2>4, <3>2, <4>1
                <4>2. CASE j = d /\ k = Top.i
                    BY <2>2, <3>2, <4>2
                <4>3. CASE j = d /\ k # Top.i
                    <5>1. k \in Nat
                        BY ClassAssumption, DomainType
                        DEF IInv, TypeOK, Contents
                    <5>2. f.obj = n /\ f.i <= k
                        BY <2>2, <3>2, <4>3, <5>1 DEF Frame
                    <5> QED
                        BY <2>2, <2>4, <5>2
                <4> QED
                    BY <2>2, <4>1, <4>2, <4>3
            <3> QED
                BY <1>4, <3>1, <3>2
        <2>10. /\ marked \subseteq marked' /\ marked' \subseteq Live
               /\ \A j \in DOMAIN stack' : stack'[j].obj \in marked'
               /\ \A n \in marked' : \A k \in DOMAIN field[n] :
                     \/ field[n][k] \in marked' \cup {Nil}
                     \/ \E j \in DOMAIN stack' : stack'[j].obj = n /\ stack'[j].i <= k
            <3>1. \A n \in marked : \A k \in DOMAIN field[n] :
                    \/ field[n][k] \in marked \cup {Nil, p}
                    \/ \E j \in DOMAIN fs : fs[j].obj = n /\ fs[j].i <= k
                BY <2>9
            <3>2. /\ pc = "mark" /\ UNCHANGED field /\ fs \in Seq(Frame) /\ Call(p, fs)
                  /\ p \in Pointer /\ p \in Live \cup {Nil}
                BY <1>1, <2>1, <2>4, <2>5, <2>7
            <3> HIDE DEF p, fs
            <3> QED
                BY <2>8, <3>1, <3>2, CallStep
        <2>11. \A j \in DOMAIN roots : j < ri' => roots[j] \in marked' \cup {Nil}
            BY <1>4, <2>1, <2>10
        <2> QED
            BY <1>5, <2>1, <2>10, <2>11
    <1>8. CASE MarkReturn
        <2> DEFINE d == Len(stack)
        <2>1. /\ stack # <<>> /\ Top.i \notin DOMAIN field[Top.obj]
              /\ stack' = Callers /\ UNCHANGED <<marked, ri>> /\ pc' = "mark"
            BY <1>8 DEF MarkReturn
        <2>2. /\ d \in Nat \ {0} /\ Top \in Frame /\ Callers \in Seq(Frame)
              /\ Len(Callers) = d - 1
              /\ \A j \in 1..(d - 1) : Callers[j] = stack[j]
              /\ Top = stack[d] /\ DOMAIN stack = 1..d
            BY <2>1, TopType, LenProperties DEF IInv, TypeOK, Top
        <2>3. DOMAIN stack' = 1..(d - 1) /\ \A j \in 1..(d - 1) : stack'[j] = stack[j]
            BY <2>1, <2>2, LenProperties
        <2>4. ASSUME NEW n \in marked, NEW k \in DOMAIN field[n]
              PROVE  \/ field[n][k] \in marked \cup {Nil}
                     \/ \E j \in DOMAIN stack' :
                           stack'[j].obj = n /\ stack'[j].i <= k
            <3>1. ASSUME NEW j \in DOMAIN stack, stack[j].obj = n, stack[j].i <= k
                  PROVE  j < d
                <4>1. CASE j = d
                    <5>1. \E c \in Nat : DOMAIN field[n] = 1..c
                        BY ClassAssumption, DomainType
                        DEF IInv, TypeOK, Contents
                    <5>2. Top.obj = n /\ Top.i <= k /\ Top.i \in Nat \ {0}
                        BY <2>2, <3>1, <4>1 DEF Frame
                    <5> QED
                        BY <2>1, <5>1, <5>2
                <4> QED
                    BY <2>2, <4>1
            <3> QED
                BY <1>4, <2>2, <2>3, <3>1
        <2> QED
            BY <1>4, <1>5, <2>1, <2>2, <2>3, <2>4
    <1>9. CASE MarkDone
        <2>1. /\ stack = <<>> /\ ri > Len(roots) /\ UNCHANGED <<marked, stack>>
              /\ pc' = "sweep" /\ cursor' = head
            BY <1>9 DEF MarkDone
        <2>2. Kept' = marked
            <3>1. head # Nil /\ \A n \in Node : ~(n < head)
                BY HeapSizeBounds DEF head, Nil, Node
            <3> QED
                BY <1>1, <1>2, <2>1, <3>1 DEF Kept, IInv, TypeOK
        <2>3. Pointees(roots) \subseteq marked \cup {Nil} /\ Closed(field, marked)
            BY <1>4, <2>1, LenProperties DEF Pointees, Closed, IInv, TypeOK
        <2>4. MarksInPlace'
            BY <1>1, <1>2, <2>1, NodeFacts DEF MarksInPlace, head, Node, IInv, TypeOK
        <2>5. MarkFrontier'
            BY <2>1 DEF MarkFrontier
        <2>6. KeptIsClosed'
            BY <1>1, <2>2, <2>3 DEF KeptIsClosed
        <2>7. KeptIsLive'
            BY <1>3, <1>4, <2>1, <2>2 DEF KeptIsLive
        <2> QED
            BY <2>4, <2>5, <2>6, <2>7 DEF CollectorInvariant
    <1> QED
        BY <1>6, <1>7, <1>8, <1>9 DEF Mark

\* What gc() does while it sweeps.
LEMMA SweepStep ==
    ASSUME IInv, Sweep
    PROVE  CollectorInvariant' /\ Live' = Live
    <1> USE DEF heap
    <1>1. pc = "sweep" /\ UNCHANGED <<roots, stack>> /\ stack = <<>>
        BY DEF Sweep, SweepIdle, SweepMarked, SweepReclaim, SweepDone,
               IInv, CollectorInvariant, MarksInPlace
    <1>2. /\ marked \subseteq used
          /\ \A n \in marked : cursor # Nil /\ cursor <= n
          /\ Pointees(roots) \subseteq Kept \cup {Nil} /\ Closed(field, Kept)
          /\ Live = Kept
        BY <1>1, LiveIsKept DEF IInv, CollectorInvariant, MarksInPlace,
               KeptIsClosed, KeptIsLive
    <1>3. Kept = {n \in used : n \in marked \/ cursor = Nil \/ n < cursor}
        BY <1>1 DEF Kept
    \* A step that keeps what will be left, and its fields, keeps the invariant.
    <1>4. ASSUME Kept' = Kept, \A n \in Kept : field'[n] = field[n],
                 marked' \subseteq used',
                 pc' \in {"sweep", "run", "search"},
                 pc' # "sweep" => marked' = {},
                 pc' = "sweep" => \A n \in marked' : cursor' # Nil /\ cursor' <= n,
                 Closed(field', Node)
          PROVE  CollectorInvariant' /\ Live' = Live
        <2>1. Live' = Live
            <3>1. Closed(field, Node) /\ Pointees(roots) \subseteq Node \cup {Nil}
                BY GraphInNodes DEF IInv
            <3>2. \A n \in Reachable(Node, field, Pointees(roots)) : field'[n] = field[n]
                BY <1>2, <1>4 DEF Live
            <3>3. Reachable(Node, field', Pointees(roots))
                    = Reachable(Node, field, Pointees(roots))
                BY <1>4, <3>1, <3>2, GarbageIsIrrelevant
            <3> QED
                BY <1>1, <3>3 DEF Live
        <2>2. MarksInPlace' /\ MarkFrontier'
            BY <1>1, <1>4 DEF MarksInPlace, MarkFrontier
        <2>3. KeptIsClosed'
            BY <1>1, <1>2, <1>4 DEF KeptIsClosed, Closed
        <2>4. KeptIsLive'
            BY <1>2, <1>4, <2>1 DEF KeptIsLive
        <2> QED
            BY <2>1, <2>2, <2>3, <2>4 DEF CollectorInvariant
    <1>5. used \subseteq Nat \ {0} /\ cursor \in Nat
        BY HeapSizeBounds DEF IInv, TypeOK, Pointer, Nil, Node
    <1>6. Closed(field', Node)
        <2>1. TypeOK'
            BY TypeStep DEF IInv, Next
        <2> QED
            BY <2>1, FieldsInNodes DEF TypeOK
    <1>7. CASE SweepIdle
        <2>1. /\ cursor \in Node \ used /\ cursor' = next(cursor)
              /\ UNCHANGED <<used, field, marked, pc>>
            BY <1>7 DEF SweepIdle, IInv, TypeOK, Pointer
        <2>2. \A n \in Node : (next(cursor) = Nil \/ n < next(cursor))
                                  <=> (n < cursor \/ n = cursor)
            BY <2>1, NodeFacts
        <2>3. Kept' = Kept
            <3>1. Kept' = {n \in used : n \in marked \/ next(cursor) = Nil
                                           \/ n < next(cursor)}
                BY <1>1, <2>1 DEF Kept
            <3>2. \A n \in used : (next(cursor) = Nil \/ n < next(cursor))
                                      <=> (cursor = Nil \/ n < cursor)
                BY <2>1, <2>2, NodeFacts DEF IInv, TypeOK
            <3> QED
                BY <1>3, <3>1, <3>2
        <2>4. ASSUME NEW n \in marked
              PROVE  cursor' # Nil /\ cursor' <= n
            <3>1. n \in Node /\ ~(n < cursor) /\ n # cursor
                BY <1>2, <1>5, <2>1 DEF IInv, TypeOK
            <3>2. next(cursor) # Nil /\ ~(n < next(cursor))
                BY <2>2, <3>1
            <3>3. next(cursor) \in Nat /\ n \in Nat
                BY <2>1, <3>1, <3>2, NodeFacts DEF Pointer
            <3> QED
                BY <2>1, <3>2, <3>3
        <2> QED
            BY <1>1, <1>2, <1>4, <1>6, <2>1, <2>3, <2>4
    <1>8. CASE SweepMarked
        <2>1. /\ cursor \in Node /\ cursor \in used \cap marked
              /\ cursor' = next(cursor) /\ marked' = marked \ {cursor}
              /\ UNCHANGED <<used, field, pc>>
            BY <1>8 DEF SweepMarked, IInv, TypeOK
        <2>2. \A n \in Node : (next(cursor) = Nil \/ n < next(cursor))
                                  <=> (n < cursor \/ n = cursor)
            BY <2>1, NodeFacts
        <2>3. Kept' = Kept
            BY <1>1, <1>3, <2>1, <2>2, NodeFacts DEF Kept, IInv, TypeOK
        <2>4. ASSUME NEW n \in marked'
              PROVE  cursor' # Nil /\ cursor' <= n
            <3>1. n \in Node /\ ~(n < cursor) /\ n # cursor
                BY <1>2, <1>5, <2>1 DEF IInv, TypeOK
            <3>2. next(cursor) # Nil /\ ~(n < next(cursor))
                BY <2>2, <3>1
            <3>3. next(cursor) \in Nat /\ n \in Nat
                BY <2>1, <3>1, <3>2, NodeFacts DEF Pointer
            <3> QED
                BY <2>1, <3>2, <3>3
        <2> QED
            BY <1>1, <1>2, <1>4, <1>6, <2>1, <2>3, <2>4
    <1>9. CASE SweepReclaim
        <2>1. /\ cursor \in Node /\ cursor \in used \ marked
              /\ cursor' = next(cursor) /\ used' = used \ {cursor}
              /\ field' = [field EXCEPT ![cursor] = NullFields(0)]
              /\ UNCHANGED <<marked, pc>>
            BY <1>9 DEF SweepReclaim, IInv, TypeOK
        <2>2. \A n \in Node : (next(cursor) = Nil \/ n < next(cursor))
                                  <=> (n < cursor \/ n = cursor)
            BY <2>1, NodeFacts
        <2>3. cursor \notin Kept
            BY <1>3, <1>5, <2>1, NodeFacts
        <2>4. Kept' = Kept
            <3>1. Kept' = {n \in used' : n \in marked \/ next(cursor) = Nil
                                            \/ n < next(cursor)}
                BY <1>1, <2>1 DEF Kept
            <3>2. \A n \in used' : (next(cursor) = Nil \/ n < next(cursor))
                                       <=> (cursor = Nil \/ n < cursor)
                BY <2>1, <2>2, NodeFacts DEF IInv, TypeOK
            <3> QED
                BY <1>3, <2>1, <2>3, <3>1, <3>2
        <2>5. ASSUME NEW n \in marked
              PROVE  cursor' # Nil /\ cursor' <= n
            <3>1. n \in Node /\ ~(n < cursor) /\ n # cursor
                BY <1>2, <1>5, <2>1 DEF IInv, TypeOK
            <3>2. next(cursor) # Nil /\ ~(n < next(cursor))
                BY <2>2, <3>1
            <3>3. next(cursor) \in Nat /\ n \in Nat
                BY <2>1, <3>1, <3>2, NodeFacts DEF Pointer
            <3> QED
                BY <2>1, <3>2, <3>3
        <2>6. \A n \in Kept : field'[n] = field[n]
            BY <2>1, <2>3 DEF IInv, TypeOK
        <2> QED
            BY <1>1, <1>2, <1>4, <1>6, <2>1, <2>4, <2>5, <2>6
    <1>10. CASE SweepDone
        <2>1. /\ cursor = Nil /\ pc' \in {"run", "search"}
              /\ UNCHANGED <<used, field, marked, cursor>>
            BY <1>10 DEF SweepDone
        <2>2. marked = {} /\ Kept = used /\ Kept' = used
            BY <1>2, <1>3, <2>1 DEF Kept
        <2> QED
            BY <1>2, <1>4, <1>6, <2>1, <2>2
    <1> QED
        BY <1>7, <1>8, <1>9, <1>10 DEF Sweep

\* The invariant holds initially and every step keeps it.
LEMMA IInvInit == Init => IInv
    <1> SUFFICES ASSUME Init
                 PROVE  CollectorInvariant
        BY TypeInit DEF IInv
    <1>1. Kept = {} /\ Pointees(roots) = {}
        BY EmptySeq DEF Init, Kept, Pointees
    <1> QED
        BY <1>1 DEF Init, CollectorInvariant, MarksInPlace, MarkFrontier,
                    KeptIsClosed, KeptIsLive, Closed

LEMMA IInvStep ==
    ASSUME IInv, [Next]_vars
    PROVE  IInv'
    <1>1. TypeOK'
        BY TypeStep DEF IInv
    <1>2. CASE Client \/ SearchAgain
        BY <1>1, <1>2, ClientStep DEF IInv
    <1>3. CASE Mark
        BY <1>1, <1>3, MarkStep DEF IInv
    <1>4. CASE Sweep
        BY <1>1, <1>4, SweepStep DEF IInv
    <1>5. CASE UNCHANGED vars
        <2>1. Kept' = Kept /\ Live' = Live
            BY <1>5 DEF vars, Kept, Live
        <2> QED
            BY <1>1, <1>5, <2>1
            DEF vars, IInv, CollectorInvariant, MarksInPlace, MarkFrontier,
                KeptIsClosed, KeptIsLive
    <1> QED
        BY <1>2, <1>3, <1>4, <1>5 DEF Next, Aborted

\* The marks, the recursion and the cursor determine the reachable objects at
\* every step of every collection, for every heap and root table.
THEOREM InvariantCorrect == Spec => [](TypeOK /\ CollectorInvariant)
    <1>1. Spec => []IInv
        BY IInvInit, IInvStep, PTL DEF Spec
    <1> QED
        BY <1>1, PTL DEF IInv

--------------------------------------------------------------------------------
(* What the invariant gives.                                               *)

\* No node that the roots lead to is ever reclaimed or reused.
THEOREM Safety == Spec => []NoDanglingReference
    <1>1. IInv => NoDanglingReference
        BY LiveIsKept DEF IInv, CollectorInvariant, NoDanglingReference
    <1> QED
        BY <1>1, IInvInit, IInvStep, PTL DEF Spec

\* A collection takes back every unreachable object and leaves no mark behind.
THEOREM Exactness == Spec => CollectionExact
    <1>1. ASSUME IInv, pc = "sweep", pc' # "sweep", [Next]_vars
          PROVE  used = Live /\ marked = {}
        <2>1. cursor = Nil
            BY <1>1 DEF Next, Client, AddRoot, RestoreRoots, Write, CollectNow,
                AllocNextFree, FindIdle, SearchAgain, Mark, MarkRoot, MarkField,
                MarkReturn, MarkDone, Sweep, SweepIdle, SweepMarked, SweepReclaim,
                SweepDone, Aborted, vars
        <2>2. Kept = used
            BY <1>1, <2>1 DEF Kept
        <2>3. Live \subseteq Kept /\ Kept \subseteq Live
            BY <1>1, LiveIsKept DEF IInv, CollectorInvariant, KeptIsLive
        <2>4. marked = {}
            BY <1>1, <2>1 DEF IInv, CollectorInvariant, MarksInPlace
        <2> QED
            BY <2>2, <2>3, <2>4
    <1>2. IInv /\ [Next]_vars => [pc = "sweep" /\ pc' # "sweep"
                                    => used = Live /\ marked = {}]_vars
        BY <1>1
    <1> QED
        BY <1>2, IInvInit, IInvStep, PTL DEF Spec, CollectionExact

\* When gc_alloc aborts, no node but head is idle.
THEOREM AbortCorrect == Spec => []AbortOnlyWhenRestIsUsed
    <1>1. Init => AbortOnlyWhenRestIsUsed
        BY DEF Init, AbortOnlyWhenRestIsUsed
    <1>2. ASSUME AbortOnlyWhenRestIsUsed, [Next]_vars
          PROVE  AbortOnlyWhenRestIsUsed'
        <2>1. CASE SearchAgain
            <3>1. CASE FirstIdle(used, head + 1) = Nil
                <4>1. (head + 1)..free_list_size \subseteq used
                    BY <3>1, FirstIdleSpec, NodeFacts DEF head
                <4> QED
                    BY <2>1, <3>1, <4>1, HeapSizeBounds
                    DEF SearchAgain, AbortOnlyWhenRestIsUsed, Node, head
            <3>2. CASE FirstIdle(used, head + 1) # Nil
                BY <2>1, <3>2 DEF SearchAgain, AbortOnlyWhenRestIsUsed
            <3> QED
                BY <3>1, <3>2
        <2>2. CASE pc' # "abort"
            BY <2>2 DEF AbortOnlyWhenRestIsUsed
        <2>3. CASE UNCHANGED vars
            BY <1>2, <2>3 DEF AbortOnlyWhenRestIsUsed, vars
        <2> QED
            BY <1>2, <2>1, <2>2, <2>3
            DEF Next, Client, AddRoot, RestoreRoots, Write, CollectNow,
                AllocNextFree, FindIdle, StartGC, Mark, MarkRoot, MarkField,
                MarkReturn, MarkDone, Sweep, SweepIdle, SweepMarked, SweepReclaim,
                SweepDone, Aborted
    <1> QED
        BY <1>1, <1>2, PTL DEF Spec

\* A call that mark() makes while the frames fs are active on marked objects,
\* each on another one, leaves them on different objects.
LEMMA CallDistinct ==
    ASSUME TypeOK, NEW p \in Pointer, NEW fs \in Seq(Frame), Call(p, fs),
           \A j \in DOMAIN fs : fs[j].obj \in marked,
           \A i, j \in DOMAIN fs : fs[i].obj = fs[j].obj => i = j
    PROVE  \A i, j \in DOMAIN stack' : stack'[i].obj = stack'[j].obj => i = j
    <1>1. CASE p = Nil \/ p \in marked
        BY <1>1 DEF Call
    <1>2. CASE ~(p = Nil \/ p \in marked)
        <2> DEFINE f == [obj |-> p, i |-> 1]
        <2>1. stack' = Append(fs, f) /\ f \in Frame
            BY <1>2 DEF Call, Frame, Pointer
        <2>2. /\ Len(fs) \in Nat
              /\ DOMAIN fs = 1..Len(fs)
              /\ DOMAIN stack' = 1..(Len(fs) + 1)
              /\ \A j \in 1..Len(fs) : stack'[j] = fs[j]
              /\ stack'[Len(fs) + 1].obj = p
            BY <2>1, AppendProperties, LenProperties
        <2>3. \A j \in 1..Len(fs) : stack'[j].obj # p
            BY <1>2, <2>2
        <2> QED
            BY <2>2, <2>3
    <1> QED
        BY <1>1, <1>2

\* mark() is never active twice on one object, so its recursion is no deeper
\* than the number of nodes, whatever cycles the client builds.
THEOREM RecursionDepth == Spec => []RecursionBounded
    <1> DEFINE Distinct == \A i, j \in DOMAIN stack : stack[i].obj = stack[j].obj => i = j
    <1>1. TypeOK => (Distinct <=> RecursionBounded)
        BY LenProperties DEF RecursionBounded, TypeOK
    <1>2. Init => Distinct
        BY EmptySeq DEF Init
    <1>3. ASSUME IInv, Distinct, [Next]_vars
          PROVE  Distinct'
        <2>1. CASE MarkRoot
            <3>1. roots[ri] \in Pointer /\ Call(roots[ri], <<>>)
                BY <1>3, <2>1, ElementOfSeq DEF MarkRoot, IInv, TypeOK
            <3>2. <<>> \in Seq(Frame) /\ DOMAIN <<>> = {}
                BY EmptySeq
            <3> QED
                BY <1>3, <3>1, <3>2, CallDistinct DEF IInv
        <2>2. CASE MarkField
            <3> DEFINE p == field[Top.obj][Top.i]
                       f == [obj |-> Top.obj, i |-> Top.i + 1]
                       fs == Append(Callers, f)
                       d == Len(stack)
            <3>1. stack # <<>> /\ Top.i \in DOMAIN field[Top.obj] /\ Call(p, fs)
                BY <2>2 DEF MarkField
            <3>2. /\ d \in Nat \ {0} /\ Top \in Frame /\ Callers \in Seq(Frame)
                  /\ Len(Callers) = d - 1
                  /\ \A j \in 1..(d - 1) : Callers[j] = stack[j]
                  /\ Top = stack[d] /\ DOMAIN stack = 1..d
                BY <1>3, <3>1, TopType, LenProperties DEF IInv, TypeOK, Top
            <3>3. f \in Frame
                BY <3>2 DEF Frame
            <3>4. /\ fs \in Seq(Frame) /\ DOMAIN fs = 1..d
                  /\ \A j \in 1..(d - 1) : fs[j] = stack[j]
                  /\ fs[d] = f
                BY <3>2, <3>3, AppendProperties, LenProperties
            <3>5. p \in Pointer
                BY <1>3, <3>1, <3>2, FieldType DEF IInv, TypeOK, Contents, Frame
            <3>6. \A j \in DOMAIN fs : fs[j].obj = stack[j].obj
                BY <3>2, <3>4
            <3>7. \A j \in DOMAIN stack : stack[j].obj \in marked
                BY <1>3, <2>2 DEF IInv, CollectorInvariant, MarkFrontier, MarkField
            <3>8. /\ \A j \in DOMAIN fs : fs[j].obj \in marked
                  /\ \A i, j \in DOMAIN fs : fs[i].obj = fs[j].obj => i = j
                BY <1>3, <3>2, <3>4, <3>6, <3>7
            <3> HIDE DEF p, fs
            <3> QED
                BY <1>3, <3>1, <3>4, <3>5, <3>8, CallDistinct DEF IInv
        <2>3. CASE MarkReturn
            <3>1. stack # <<>> /\ stack' = Callers
                BY <2>3 DEF MarkReturn
            <3>2. /\ DOMAIN stack' = 1..(Len(stack) - 1)
                  /\ DOMAIN stack = 1..Len(stack) /\ Len(stack) \in Nat
                  /\ \A j \in 1..(Len(stack) - 1) : stack'[j] = stack[j]
                BY <1>3, <3>1, TopType, LenProperties DEF IInv, TypeOK
            <3> QED
                BY <1>3, <3>2
        <2>4. CASE UNCHANGED stack
            BY <1>3, <2>4
        <2> QED
            BY <1>3, <2>1, <2>2, <2>3, <2>4
            DEF Next, Client, AddRoot, RestoreRoots, Write, CollectNow,
                AllocNextFree, FindIdle, SearchAgain, Mark, MarkDone, Sweep,
                SweepIdle, SweepMarked, SweepReclaim, SweepDone, Aborted,
                collector, vars
    <1>4. Spec => [](IInv /\ Distinct)
        BY <1>2, <1>3, IInvInit, IInvStep, PTL DEF Spec
    <1> QED
        BY <1>1, <1>4, PTL DEF IInv

--------------------------------------------------------------------------------
(* The refinement: used is the set of allocated objects; marks, recursion, *)
(* cursor and search are hidden, and reclaiming one node in sweep() is one *)
(* Reclaim step.                                                           *)

\* The instance's graph operators are those of the collector.
LEMMA HeapOperators ==
    /\ Heap!Nil = Nil
    /\ Heap!NullFields(0) = NullFields(0)
    /\ \A k \in Class : Heap!NullFields(k) = NullFields(k)
    /\ Heap!Live = Live
    /\ Heap!Usable = {o \in used : Reachable(Node, field, {o}) \subseteq used}
    <1>1. Heap!Nil = Nil
        BY DEF Heap!Nil, Nil
    <1>2. Heap!NullFields(0) = NullFields(0)
        BY <1>1 DEF Heap!NullFields, NullFields
    <1>3. \A k \in Class : Heap!NullFields(k) = NullFields(k)
        BY <1>1 DEF Heap!NullFields, NullFields
    <1>4. Heap!Live = Live
        BY <1>1 DEF Heap!Live, Live, Heap!Reachable, Reachable, Heap!Closed, Closed
    <1>5. Heap!Usable = {o \in used : Reachable(Node, field, {o}) \subseteq used}
        BY <1>1 DEF Heap!Usable, Heap!Reachable, Reachable, Heap!Closed, Closed
    <1> QED
        BY <1>1, <1>2, <1>3, <1>4, <1>5

\* Between collections the client may use any object that is in use.
LEMMA AllUsable ==
    ASSUME IInv, pc = "run"
    PROVE  Heap!Usable = used
    <1>1. used \in SUBSET Node /\ Closed(field, used)
        BY DEF IInv, TypeOK, CollectorInvariant, KeptIsClosed, Kept
    <1>2. ASSUME NEW o \in used
          PROVE  Reachable(Node, field, {o}) \subseteq used
        BY <1>1, ReachableIsLeast
    <1> QED
        BY <1>2, HeapOperators

LEMMA HeapInit == Init => Heap!Init
    BY HeapOperators, EmptySeq DEF Init, Heap!Init, Pointees

LEMMA HeapStep ==
    ASSUME IInv, [Next]_vars
    PROVE  [Heap!Next]_Heap!vars
    <1> USE DEF heap
    <1>1. ASSUME NEW n \in Node, NEW k \in Class, n \notin used,
                 Place(n, k), UNCHANGED roots
          PROVE  Heap!Alloc
        BY <1>1, HeapOperators DEF Place, Heap!Alloc
    <1> DEFINE Rooted == Pointees(roots) \ {Nil}
    <1>2. CASE AddRoot
        <2>1. PICK p \in used \cup {Nil} : roots' = Append(roots, p)
            BY <1>2 DEF AddRoot
        <2>2. p \in Pointer
            BY DEF IInv, TypeOK, Pointer
        <2>3. Pointees(roots') = Pointees(roots) \cup {p}
            BY <2>1, <2>2, AppendPointees DEF IInv, TypeOK
        <2>4. CASE p = Nil
            BY <1>2, <2>3, <2>4 DEF AddRoot, Heap!vars
        <2>5. CASE p # Nil
            <3>1. p \in Heap!Usable
                BY <1>2, <2>5, AllUsable DEF AddRoot
            <3>2. Rooted' = Rooted \cup {p}
                BY <2>3, <2>5
            <3> QED
                BY <1>2, <3>1, <3>2 DEF AddRoot, Heap!Next, Heap!AddRoot
        <2> QED
            BY <2>4, <2>5
    <1>3. CASE RestoreRoots
        <2>1. PICK k \in 0..Len(roots) : roots' = SubSeq(roots, 1, k)
            BY <1>3 DEF RestoreRoots
        <2>2. Rooted' \in SUBSET Rooted
            BY <2>1 DEF Pointees, IInv, TypeOK
        <2> QED
            BY <1>3, <2>2 DEF RestoreRoots, Heap!Next, Heap!DropRoots
    <1>4. CASE Write
        BY <1>4, HeapOperators, AllUsable DEF Write, Heap!Next, Heap!Write
    <1>5. CASE AllocNextFree
        <2>1. next_free \in Node /\ next_free \notin used
            BY <1>5 DEF AllocNextFree, IInv, TypeOK, Pointer
        <2> QED
            BY <1>1, <1>5, <2>1 DEF AllocNextFree, Heap!Next
    <1>6. CASE SearchAgain
        <2> DEFINE n == FirstIdle(used, head + 1)
        <2>1. n = Nil \/ n \in Node \ used
            BY FirstIdleSpec DEF head
        <2>2. request \in Class
            BY <1>6 DEF SearchAgain, IInv, TypeOK
        <2>3. CASE n = Nil
            BY <1>6, <2>3 DEF SearchAgain, Heap!vars
        <2>4. CASE n \in Node \ used
            BY <1>1, <1>6, <2>2, <2>4, NodeFacts DEF SearchAgain, Heap!Next
        <2> QED
            BY <2>1, <2>3, <2>4
    <1>7. CASE SweepReclaim
        <2>1. cursor \notin Live
            <3>1. cursor \notin Kept
                BY <1>7, HeapSizeBounds
                DEF SweepReclaim, Kept, IInv, TypeOK, Node, Nil
            <3> QED
                BY <3>1, LiveIsKept DEF IInv, CollectorInvariant
        <2>2. Heap!Live = Live
            BY HeapOperators
        <2>3. /\ cursor \in used /\ used' = used \ {cursor} /\ UNCHANGED roots
              /\ field' = [field EXCEPT ![cursor] = NullFields(0)]
            BY <1>7 DEF SweepReclaim
        <2>4. field' = [o \in Node |-> IF o \in {cursor} THEN NullFields(0) ELSE field[o]]
            BY <2>3 DEF IInv, TypeOK
        <2>5. {cursor} \in SUBSET (used \ Heap!Live)
            BY <2>1, <2>2, <2>3
        <2> QED
            BY <2>3, <2>4, <2>5, HeapOperators DEF Heap!Next, Heap!Reclaim
    <1>8. CASE UNCHANGED <<used, field, roots>>
        BY <1>8 DEF Heap!vars
    <1> QED
        BY <1>2, <1>3, <1>4, <1>5, <1>6, <1>7, <1>8
        DEF Next, Client, CollectNow, FindIdle, Mark, MarkRoot, MarkField,
            MarkReturn, MarkDone, Sweep, SweepIdle, SweepMarked, SweepDone,
            Aborted, vars

\* The collector implements the interface: what the client sees is a heap from
\* which only unreachable objects disappear.
THEOREM Refinement == Spec => ImplementsHeap
    BY HeapInit, HeapStep, IInvInit, IInvStep, PTL
    DEF Spec, ImplementsHeap, Heap!Spec

--------------------------------------------------------------------------------
(* The promise itself is sound: a collector that takes back unreachable    *)
(* objects only, at any time, never leaves the client a dangling           *)
(* reference.  Nothing of the collector is used: the steps are those of    *)
(* GCHeap, over a heap of any size and with any classes.                   *)

HeapRoots == Pointees(roots) \ {Nil}

HeapTyped ==
    /\ used \in SUBSET Node
    /\ field \in [Node -> ObjectOf(Class \cup {0}, Pointer)]
    /\ HeapRoots \in SUBSET Node

\* The steps of the instance, in the names of the module.
LEMMA HeapActions ==
    /\ Heap!Alloc =>
        \E o \in Node \ used, k \in Class :
            /\ used' = used \cup {o} /\ HeapRoots' = HeapRoots
            /\ field' = [field EXCEPT ![o] = NullFields(k)]
    /\ Heap!Write =>
        \E o \in Heap!Usable, p \in Heap!Usable \cup {Nil} : \E i \in DOMAIN field[o] :
            /\ used' = used /\ HeapRoots' = HeapRoots
            /\ field' = [field EXCEPT ![o][i] = p]
    /\ Heap!AddRoot =>
        \E p \in Heap!Usable :
            HeapRoots' = HeapRoots \cup {p} /\ used' = used /\ field' = field
    /\ Heap!DropRoots =>
        HeapRoots' \subseteq HeapRoots /\ used' = used /\ field' = field
    /\ Heap!Reclaim =>
        \E garbage \in SUBSET (used \ Live) :
            /\ used' = used \ garbage /\ HeapRoots' = HeapRoots
            /\ field' = [o \in Node |-> IF o \in garbage THEN NullFields(0) ELSE field[o]]
    /\ UNCHANGED Heap!vars => used' = used /\ field' = field /\ HeapRoots' = HeapRoots
    /\ Heap!Init =>
        used = {} /\ field = [o \in Node |-> NullFields(0)] /\ HeapRoots = {}
    <1> USE DEF HeapRoots
    <1>1. Heap!Alloc =>
            \E o \in Node \ used, k \in Class :
                /\ used' = used \cup {o} /\ HeapRoots' = HeapRoots
                /\ field' = [field EXCEPT ![o] = NullFields(k)]
        BY HeapOperators DEF Heap!Alloc
    <1>2. Heap!Write =>
            \E o \in Heap!Usable, p \in Heap!Usable \cup {Nil} : \E i \in DOMAIN field[o] :
                /\ used' = used /\ HeapRoots' = HeapRoots
                /\ field' = [field EXCEPT ![o][i] = p]
        <2> SUFFICES ASSUME Heap!Write
                     PROVE  \E o \in Heap!Usable, p \in Heap!Usable \cup {Nil} :
                             \E i \in DOMAIN field[o] :
                                /\ used' = used /\ HeapRoots' = HeapRoots
                                /\ field' = [field EXCEPT ![o][i] = p]
            OBVIOUS
        <2>1. PICK o \in Heap!Usable, p \in Heap!Usable \cup {Nil} :
                \E i \in DOMAIN field[o] :
                    /\ field' = [field EXCEPT ![o][i] = p]
                    /\ UNCHANGED <<used, HeapRoots>>
            BY HeapOperators, Zenon DEF Heap!Write
        <2> QED
            BY <2>1
    <1>3. Heap!AddRoot =>
            \E p \in Heap!Usable :
                HeapRoots' = HeapRoots \cup {p} /\ used' = used /\ field' = field
        BY DEF Heap!AddRoot
    <1>4. Heap!DropRoots =>
            HeapRoots' \subseteq HeapRoots /\ used' = used /\ field' = field
        BY DEF Heap!DropRoots
    <1>5. Heap!Reclaim =>
            \E garbage \in SUBSET (used \ Live) :
                /\ used' = used \ garbage /\ HeapRoots' = HeapRoots
                /\ field' = [o \in Node |->
                                IF o \in garbage THEN NullFields(0) ELSE field[o]]
        BY HeapOperators DEF Heap!Reclaim
    <1>6. /\ UNCHANGED Heap!vars => used' = used /\ field' = field /\ HeapRoots' = HeapRoots
          /\ Heap!Init =>
                used = {} /\ field = [o \in Node |-> NullFields(0)] /\ HeapRoots = {}
        BY HeapOperators DEF Heap!vars, Heap!Init
    <1> QED
        BY <1>1, <1>2, <1>3, <1>4, <1>5, <1>6

LEMMA HeapTypeStep ==
    ASSUME HeapTyped, [Heap!Next]_Heap!vars
    PROVE  HeapTyped'
    <1> USE DEF Contents
    <1>1. CASE Heap!Alloc
        <2>1. PICK o \in Node \ used, k \in Class :
                /\ used' = used \cup {o} /\ HeapRoots' = HeapRoots
                /\ field' = [field EXCEPT ![o] = NullFields(k)]
            BY <1>1, HeapActions
        <2>2. NullFields(k) \in Contents
            BY NullFieldsType DEF Pointer
        <2> QED
            BY <2>1, <2>2 DEF HeapTyped
    <1>2. CASE Heap!Write
        <2>1. PICK o \in Heap!Usable, p \in Heap!Usable \cup {Nil} : \E i \in DOMAIN field[o] :
                /\ used' = used /\ HeapRoots' = HeapRoots
                /\ field' = [field EXCEPT ![o][i] = p]
            BY <1>2, HeapActions
        <2>2. PICK i \in DOMAIN field[o] : field' = [field EXCEPT ![o][i] = p]
            BY <2>1
        <2>3. o \in Node /\ p \in Pointer
            BY HeapOperators DEF HeapTyped, Pointer
        <2>4. [field[o] EXCEPT ![i] = p] \in Contents
            BY <2>3, StoreType DEF HeapTyped
        <2> QED
            BY <2>1, <2>2, <2>3, <2>4 DEF HeapTyped
    <1>3. CASE Heap!AddRoot
        BY <1>3, HeapActions, HeapOperators DEF HeapTyped
    <1>4. CASE Heap!DropRoots
        BY <1>4, HeapActions DEF HeapTyped
    <1>5. CASE Heap!Reclaim
        <2>1. NullFields(0) \in Contents
            BY NullFieldsType DEF Pointer
        <2> QED
            BY <1>5, <2>1, HeapActions DEF HeapTyped
    <1>6. CASE UNCHANGED Heap!vars
        BY <1>6, HeapActions DEF HeapTyped
    <1> QED
        BY <1>1, <1>2, <1>3, <1>4, <1>5, <1>6 DEF Heap!Next

\* The reachable objects of a well-typed heap are closed and hold the roots.
LEMMA HeapLiveFacts ==
    ASSUME HeapTyped
    PROVE  /\ Live \subseteq Node
           /\ Closed(field, Live)
           /\ HeapRoots \subseteq Live \cup {Nil}
           /\ \A p \in Node :
                 /\ Reachable(Node, field, {p}) \subseteq Node
                 /\ Closed(field, Reachable(Node, field, {p}))
                 /\ p \in Reachable(Node, field, {p}) \cup {Nil}
    <1>1. Closed(field, Node)
        BY FieldType DEF HeapTyped, Closed, Pointer
    <1>2. Pointees(roots) \subseteq Node \cup {Nil}
        BY DEF HeapTyped, HeapRoots
    <1>3. \A R : Reachable(Node, field, R) \subseteq Node
        BY DEF Reachable
    <1>4. \A R : Closed(field, Reachable(Node, field, R))
        BY <1>1, ReachableIsClosed
    <1>5. ASSUME NEW p \in Node
          PROVE  p \in Reachable(Node, field, {p}) \cup {Nil}
        <2>1. {p} \subseteq Node \cup {Nil}
            OBVIOUS
        <2> QED
            BY <2>1, RootsAreReachable
    <1>6. HeapRoots \subseteq Live \cup {Nil}
        BY <1>2, RootsAreReachable DEF Live, HeapRoots
    <1> QED
        BY <1>3, <1>4, <1>5, <1>6 DEF Live

\* A step that leaves a closed set of allocated objects around its new roots
\* leaves no dangling reference.
LEMMA HeapSoundStep ==
    ASSUME NEW S \in SUBSET Node, S \subseteq used',
           HeapRoots' \subseteq S \cup {Nil}, Closed(field', S)
    PROVE  (Live \subseteq used)'
    <1>1. Pointees(roots') \subseteq S \cup {Nil}
        BY DEF HeapRoots
    <1>2. Reachable(Node, field', Pointees(roots')) \subseteq S
        BY <1>1, ReachableIsLeast
    <1> QED
        BY <1>2 DEF Live

\* Nothing the client can reach is ever taken back, whatever the collector does
\* within its promise and whatever the client does within the interface.
THEOREM HeapSound == Heap!Spec => []Heap!NoDanglingReference
    <1> DEFINE Safe == Live \subseteq used
               Inv == HeapTyped /\ Safe
    <1>1. Heap!Init => Inv
        <2> SUFFICES ASSUME Heap!Init PROVE Inv
            OBVIOUS
        <2>1. HeapTyped
            <3>1. NullFields(0) \in ObjectOf(Class \cup {0}, Pointer)
                BY NullFieldsType DEF Pointer
            <3> QED
                BY <3>1, HeapActions DEF HeapTyped
        <2>2. Live \subseteq {}
            <3>1. Pointees(roots) \subseteq {} \cup {Nil} /\ Closed(field, {})
                BY HeapActions DEF HeapRoots, Closed
            <3> QED
                BY <3>1, ReachableIsLeast DEF Live
        <2> QED
            BY <2>1, <2>2
    <1>2. ASSUME Inv, [Heap!Next]_Heap!vars
          PROVE  Inv'
        <2>1. HeapTyped'
            BY <1>2, HeapTypeStep
        <2>2. Live \subseteq used
            BY <1>2
        <2>3. CASE Heap!Alloc
            <3>1. PICK o \in Node \ used, k \in Class :
                    /\ used' = used \cup {o}
                    /\ field' = [field EXCEPT ![o] = NullFields(k)]
                    /\ HeapRoots' = HeapRoots
                BY <2>3, HeapActions
            <3>2. \A n \in Live : field'[n] = field[n]
                BY <1>2, <2>2, <3>1 DEF HeapTyped
            <3>3. Closed(field', Live)
                BY <1>2, <3>2, HeapLiveFacts DEF Closed
            <3>4. Live \in SUBSET Node /\ Live \subseteq used'
                BY <1>2, <2>2, <3>1, HeapLiveFacts
            <3>5. HeapRoots' \subseteq Live \cup {Nil}
                BY <1>2, <3>1, HeapLiveFacts
            <3>6. Safe'
                BY <3>3, <3>4, <3>5, HeapSoundStep
            <3> QED
                BY <2>1, <3>6
        <2>4. CASE Heap!Write
            <3>1. PICK o \in Heap!Usable, p \in Heap!Usable \cup {Nil} : \E i \in DOMAIN field[o] :
                    /\ field' = [field EXCEPT ![o][i] = p]
                    /\ used' = used /\ HeapRoots' = HeapRoots
                BY <2>4, HeapActions
            <3>2. PICK i \in DOMAIN field[o] : field' = [field EXCEPT ![o][i] = p]
                BY <3>1
            <3> DEFINE S == IF p \in Heap!Usable
                            THEN Live \cup Reachable(Node, field, {p}) ELSE Live
            <3>3. S \in SUBSET Node /\ S \subseteq used' /\ p \in S \cup {Nil}
                BY <1>2, <2>2, <3>1, HeapLiveFacts, HeapOperators DEF HeapTyped
            <3>4. Closed(field, S)
                BY <1>2, HeapLiveFacts, HeapOperators DEF Closed, HeapTyped
            <3>5. ASSUME NEW n \in S, NEW j \in DOMAIN field'[n]
                  PROVE  field'[n][j] \in S \cup {Nil}
                <4>1. CASE n = o /\ j = i
                    BY <1>2, <3>2, <3>3, <3>5, <4>1, HeapOperators DEF HeapTyped
                <4>2. CASE ~(n = o /\ j = i)
                    BY <1>2, <3>2, <3>3, <3>4, <3>5, <4>2, HeapOperators DEF HeapTyped, Closed
                <4> QED
                    BY <4>1, <4>2
            <3>6. Closed(field', S)
                BY <3>5 DEF Closed
            <3>7. HeapRoots' \subseteq S \cup {Nil}
                BY <1>2, <3>1, HeapLiveFacts
            <3>8. Safe'
                BY <3>3, <3>6, <3>7, HeapSoundStep
            <3> QED
                BY <2>1, <3>8
        <2>5. CASE Heap!AddRoot
            <3>1. PICK p \in Heap!Usable :
                    HeapRoots' = HeapRoots \cup {p} /\ used' = used /\ field' = field
                BY <2>5, HeapActions
            <3> DEFINE S == Live \cup Reachable(Node, field, {p})
            <3>2. S \in SUBSET Node /\ S \subseteq used' /\ p \in S \cup {Nil}
                BY <1>2, <2>2, <3>1, HeapLiveFacts, HeapOperators DEF HeapTyped
            <3>3. Closed(field', S)
                BY <1>2, <3>1, HeapLiveFacts, HeapOperators DEF Closed, HeapTyped
            <3>4. HeapRoots' \subseteq S \cup {Nil}
                BY <1>2, <3>1, <3>2, HeapLiveFacts
            <3>5. Safe'
                BY <3>2, <3>3, <3>4, HeapSoundStep
            <3> QED
                BY <2>1, <3>5
        <2>6. CASE Heap!DropRoots
            <3>2. HeapRoots' \subseteq HeapRoots
                BY <2>6, HeapActions
            <3>3. Live \in SUBSET Node /\ Live \subseteq used'
                BY <1>2, <2>2, <2>6, HeapLiveFacts, HeapActions
            <3>4. Closed(field', Live) /\ HeapRoots' \subseteq Live \cup {Nil}
                BY <1>2, <2>6, <3>2, HeapLiveFacts, HeapActions
            <3>5. Safe'
                BY <3>3, <3>4, HeapSoundStep
            <3> QED
                BY <2>1, <3>5
        <2>7. CASE Heap!Reclaim
            <3>1. PICK garbage \in SUBSET (used \ Live) :
                    /\ used' = used \ garbage
                    /\ field' = [o \in Node |->
                                    IF o \in garbage THEN NullFields(0) ELSE field[o]]
                    /\ HeapRoots' = HeapRoots
                BY <2>7, HeapActions
            <3>2. Live \in SUBSET Node /\ Live \subseteq used'
                BY <1>2, <2>2, <3>1, HeapLiveFacts
            <3>3. \A n \in Live : field'[n] = field[n]
                BY <3>1, <3>2
            <3>4. Closed(field', Live) /\ HeapRoots' \subseteq Live \cup {Nil}
                BY <1>2, <3>1, <3>3, HeapLiveFacts DEF Closed
            <3>5. Safe'
                BY <3>2, <3>4, HeapSoundStep
            <3> QED
                BY <2>1, <3>5
        <2>8. CASE UNCHANGED Heap!vars
            <3>1. used' = used /\ field' = field /\ HeapRoots' = HeapRoots
                BY <2>8, HeapActions
            <3>2. Live \in SUBSET Node /\ Live \subseteq used'
                BY <1>2, <2>2, <3>1, HeapLiveFacts
            <3>3. Closed(field', Live) /\ HeapRoots' \subseteq Live \cup {Nil}
                BY <1>2, <3>1, HeapLiveFacts
            <3>4. Safe'
                BY <3>2, <3>3, HeapSoundStep
            <3> QED
                BY <2>1, <3>4
        <2> QED
            BY <1>2, <2>3, <2>4, <2>5, <2>6, <2>7, <2>8 DEF Heap!Next
    <1>3. Safe => Heap!NoDanglingReference
        BY HeapOperators DEF Heap!NoDanglingReference
    <1> QED
        BY <1>1, <1>2, <1>3, PTL DEF Heap!Spec
================================================================================
