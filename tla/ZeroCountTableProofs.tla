------------------------- MODULE ZeroCountTableProofs -------------------------
(***************************************************************************)
(* What holds of ZeroCountTable for every set of addresses and length of   *)
(* the table: a client that leaves deferred objects alone is safe, and no  *)
(* object is lost.                                                         *)
(***************************************************************************)
EXTENDS ZeroCountTable, SequenceTheorems, TLAPS

\* The entry j has still to be looked at, by this collection or by the next one.
Waiting(j) == pc = "collect" => i <= j

\* The table of a client that leaves deferred objects alone: its entries are
\* different objects without references, which are freed one by one.
TableInOrder ==
    /\ pc # "undefined"
    /\ \A o \in Object \ allocated : ref_count[o] = 0
    /\ \A j \in DOMAIN zct : ref_count[zct[j]] = 0
    /\ \A j, k \in DOMAIN zct : zct[j] = zct[k] => j = k
    /\ \A j \in DOMAIN zct : Waiting(j) => zct[j] \in allocated

\* An object that lost its last reference is among the entries to be looked at.
InTable ==
    pc # "undefined" =>
        \A o \in allocated \cap is_live : ref_count[o] = 0 =>
            \E j \in DOMAIN zct : zct[j] = o /\ Waiting(j)

IInv ==
    /\ TypeOK
    /\ ~resurrected => TableInOrder
    /\ InTable

LEMMA IInvInit == Init => IInv
    <1> SUFFICES ASSUME Init PROVE IInv
        OBVIOUS
    <1>1. DOMAIN zct = {} /\ Len(zct) = 0 /\ zct \in Seq(Object)
        BY EmptySeq DEF Init
    <1>2. TypeOK
        <2>1. ref_count \in [Object -> 0..MaxCount] /\ i \in 1..(ZCT_SIZE + 1) /\ Len(zct) <= ZCT_SIZE
            BY <1>1, ZCTAssumption DEF Init
        <2>2. resurrected \in BOOLEAN
            BY DEF Init
        <2> QED
            BY <1>1, <2>1, <2>2 DEF Init, TypeOK, Deferred
    <1> QED
        BY <1>1, <1>2 DEF Init, IInv, TableInOrder, InTable

\* Taking references, and objects from malloc, while no collection runs.
LEMMA MutatorStep ==
    ASSUME IInv, init_object \/ increase_ref_count
    PROVE  IInv'
    <1>1. CASE init_object
        <2>1. PICK o \in Object \ allocated :
                /\ allocated' = allocated \cup {o}
                /\ ref_count' = [ref_count EXCEPT ![o] = 0]
                /\ is_live' = is_live \ {o}
            BY <1>1 DEF init_object
        <2>2. pc = "run" /\ UNCHANGED <<zct, pc, i, resurrected>>
            BY <1>1 DEF init_object
        <2>3. TypeOK'
            BY <2>1, <2>2, ZCTAssumption DEF IInv, TypeOK, Deferred
        <2>4. \A n \in Object : ref_count'[n] = IF n = o THEN 0 ELSE ref_count[n]
            BY <2>1 DEF IInv, TypeOK
        <2>5. \A j \in DOMAIN zct : zct[j] \in Object
            BY DEF IInv, TypeOK
        <2>6. ~resurrected' => TableInOrder'
            BY <2>1, <2>2, <2>4, <2>5 DEF IInv, TableInOrder, Waiting
        <2>7. InTable'
            BY <2>1, <2>2, <2>4 DEF IInv, TypeOK, InTable, Waiting
        <2> QED
            BY <2>3, <2>6, <2>7 DEF IInv
    <1>2. CASE increase_ref_count
        <2>1. PICK o \in allocated :
                /\ ref_count[o] < MaxCount
                /\ ref_count' = [ref_count EXCEPT ![o] = @ + 1]
                /\ resurrected' = (resurrected \/ o \in Deferred)
            BY <1>2 DEF increase_ref_count
        <2>2. pc = "run" /\ UNCHANGED <<allocated, is_live, zct, pc, i>>
            BY <1>2 DEF increase_ref_count
        <2>3. TypeOK'
            BY <2>1, <2>2, ZCTAssumption DEF IInv, TypeOK, Deferred
        <2>4. \A n \in Object : n # o => ref_count'[n] = ref_count[n]
            BY <2>1 DEF IInv, TypeOK
        <2>5. ref_count'[o] # 0
            BY <2>1, ZCTAssumption DEF IInv, TypeOK
        <2>6. \A j \in DOMAIN zct : zct[j] \in Object
            BY DEF IInv, TypeOK
        <2>7. ~resurrected' => TableInOrder'
            BY <2>1, <2>2, <2>4, <2>6 DEF IInv, TableInOrder, Waiting, Deferred
        <2>8. InTable'
            BY <2>1, <2>2, <2>4, <2>5 DEF IInv, TypeOK, InTable, Waiting
        <2> QED
            BY <2>3, <2>7, <2>8 DEF IInv
    <1> QED
        BY <1>1, <1>2

\* Dropping a reference; the last one defers the object.
LEMMA DecreaseStep ==
    ASSUME IInv, decrease_ref_count
    PROVE  IInv'
    <1>1. PICK o \in allocated :
            /\ ref_count[o] > 0
            /\ ref_count' = [ref_count EXCEPT ![o] = @ - 1]
            /\ IF ref_count'[o] = 0
               THEN /\ Len(zct) < ZCT_SIZE
                    /\ is_live' = is_live \cup {o}
                    /\ zct' = Append(zct, o)
               ELSE UNCHANGED <<is_live, zct>>
        BY DEF decrease_ref_count
    <1>2. pc = "run" /\ UNCHANGED <<allocated, pc, i, resurrected>>
        BY DEF decrease_ref_count
    <1>3. o \in Object /\ ref_count[o] \in 0..MaxCount
        BY DEF IInv, TypeOK
    <1>4. ref_count' \in [Object -> 0..MaxCount]
        BY <1>1, <1>3, ZCTAssumption DEF IInv, TypeOK
    <1>5. /\ \A n \in Object : n # o => ref_count'[n] = ref_count[n]
          /\ \A j \in DOMAIN zct : zct[j] \in Object
        BY <1>1 DEF IInv, TypeOK
    <1>6. CASE ref_count'[o] # 0
        <2>1. TypeOK'
            BY <1>1, <1>2, <1>4, <1>6 DEF IInv, TypeOK, Deferred
        <2>2. ~resurrected' => TableInOrder'
            BY <1>1, <1>2, <1>3, <1>5, <1>6 DEF IInv, TableInOrder, Waiting
        <2>3. InTable'
            BY <1>1, <1>2, <1>5, <1>6 DEF IInv, TypeOK, InTable, Waiting
        <2> QED
            BY <2>1, <2>2, <2>3 DEF IInv
    <1>7. CASE ref_count'[o] = 0
        <2>1. zct' = Append(zct, o) /\ Len(zct) < ZCT_SIZE /\ is_live' = is_live \cup {o}
            BY <1>1, <1>7
        <2>2. /\ zct \in Seq(Object) /\ Len(zct) \in Nat /\ DOMAIN zct = 1..Len(zct)
              /\ zct' \in Seq(Object) /\ Len(zct') = Len(zct) + 1
              /\ DOMAIN zct' = 1..(Len(zct) + 1)
              /\ \A j \in DOMAIN zct : j \in DOMAIN zct' /\ zct'[j] = zct[j]
              /\ Len(zct) + 1 \in DOMAIN zct' /\ zct'[Len(zct) + 1] = o
            BY <1>3, <2>1, AppendProperties, LenProperties DEF IInv, TypeOK
        <2>3. \A j \in DOMAIN zct' : j \in DOMAIN zct \/ j = Len(zct) + 1
            BY <2>2
        <2>4. TypeOK'
            <3>1. Len(zct') <= ZCT_SIZE
                BY <2>1, <2>2, ZCTAssumption
            <3>2. \A j \in DOMAIN zct' : zct'[j] \in allocated
                BY <1>2, <2>2, <2>3 DEF IInv, TypeOK, Deferred
            <3> QED
                BY <1>2, <1>3, <1>4, <2>1, <2>2, <3>1, <3>2 DEF IInv, TypeOK, Deferred
        <2>5. ASSUME ~resurrected'
              PROVE  TableInOrder'
            <3>1. TableInOrder
                BY <1>2, <2>5 DEF IInv
            <3>2. \A j \in DOMAIN zct : zct[j] # o
                BY <1>1, <3>1 DEF TableInOrder
            <3>3. \A j \in DOMAIN zct' : ref_count'[zct'[j]] = 0
                BY <1>5, <1>7, <2>2, <2>3, <3>1, <3>2 DEF TableInOrder
            <3>4. \A j, k \in DOMAIN zct' : zct'[j] = zct'[k] => j = k
                BY <2>2, <2>3, <3>1, <3>2 DEF TableInOrder
            <3>5. \A j \in DOMAIN zct' : zct'[j] \in allocated
                BY <1>2, <2>4 DEF TypeOK, Deferred
            <3> QED
                BY <1>2, <1>5, <3>1, <3>3, <3>4, <3>5 DEF TableInOrder
        <2>6. InTable'
            <3>1. ASSUME NEW n \in allocated' \cap is_live', ref_count'[n] = 0
                  PROVE  \E j \in DOMAIN zct' : zct'[j] = n
                <4>1. CASE n = o
                    BY <2>2, <4>1
                <4>2. CASE n # o
                    <5>1. n \in allocated \cap is_live /\ ref_count[n] = 0
                        BY <1>2, <1>5, <2>1, <3>1, <4>2 DEF IInv, TypeOK
                    <5>2. PICK j \in DOMAIN zct : zct[j] = n
                        BY <1>2, <5>1 DEF IInv, InTable
                    <5> QED
                        BY <2>2, <5>2
                <4> QED
                    BY <4>1, <4>2
            <3> QED
                BY <1>2, <3>1 DEF InTable, Waiting
        <2> QED
            BY <2>4, <2>5, <2>6 DEF IInv
    <1> QED
        BY <1>6, <1>7

\* The collection, and the client's use of a freed object.
LEMMA CollectStep ==
    ASSUME IInv, collect_garbage \/ CollectEntry \/ CollectDone \/ UseFreed
    PROVE  IInv'
    <1>1. zct \in Seq(Object) /\ Len(zct) \in Nat /\ DOMAIN zct = 1..Len(zct) /\ Len(zct) <= ZCT_SIZE
        BY LenProperties DEF IInv, TypeOK
    <1>2. CASE collect_garbage
        <2>1. TypeOK'
            BY <1>2, ZCTAssumption DEF collect_garbage, IInv, TypeOK
        <2>2. \A j \in DOMAIN zct : Waiting(j) /\ Waiting(j)'
            BY <1>1, <1>2 DEF collect_garbage, Waiting
        <2> QED
            BY <1>2, <2>1, <2>2 DEF collect_garbage, IInv, TableInOrder, InTable
    <1>3. CASE CollectEntry
        <2>1. /\ pc = "collect" /\ i \in DOMAIN zct /\ i \in Nat /\ zct[i] \in Object
              /\ UNCHANGED <<ref_count, is_live, zct, resurrected>>
            BY <1>1, <1>3, ZCTAssumption DEF CollectEntry, IInv, TypeOK
        <2>2. CASE zct[i] \notin allocated
            <3>1. pc' = "undefined" /\ UNCHANGED <<allocated, i>>
                BY <1>3, <2>2 DEF CollectEntry
            <3>2. resurrected
                BY <2>1, <2>2 DEF IInv, TableInOrder, Waiting, TypeOK
            <3> QED
                BY <2>1, <3>1, <3>2 DEF IInv, TypeOK, InTable
        <2>3. CASE zct[i] \in allocated
            <3>1. /\ allocated' = IF zct[i] \in is_live THEN allocated \ {zct[i]} ELSE allocated
                  /\ i' = i + 1 /\ pc' = pc
                BY <1>3, <2>3 DEF CollectEntry
            <3>2. TypeOK'
                <4>1. i' \in 1..(ZCT_SIZE + 1)
                    BY <1>1, <2>1, <3>1, ZCTAssumption
                <4> QED
                    BY <2>1, <3>1, <4>1 DEF IInv, TypeOK
            <3>3. \A j \in DOMAIN zct : (i + 1 <= j) <=> (i <= j /\ j # i)
                BY <1>1, <2>1
            <3>4. ~resurrected' => TableInOrder'
                BY <2>1, <2>3, <3>1, <3>3 DEF IInv, TypeOK, TableInOrder, Waiting
            <3>5. InTable'
                BY <2>1, <3>1, <3>3 DEF IInv, InTable, Waiting
            <3> QED
                BY <3>2, <3>4, <3>5 DEF IInv
        <2> QED
            BY <2>2, <2>3
    <1>4. CASE CollectDone
        <2>1. /\ pc = "collect" /\ pc' = "run" /\ zct' = <<>>
              /\ UNCHANGED <<allocated, ref_count, is_live, i, resurrected>>
            BY <1>4 DEF CollectDone
        <2>2. DOMAIN zct' = {} /\ Len(zct') = 0 /\ zct' \in Seq(Object)
            BY <2>1, EmptySeq
        <2>3. TypeOK'
            BY <2>1, <2>2, ZCTAssumption DEF IInv, TypeOK, Deferred
        <2>4. ~resurrected' => TableInOrder'
            BY <2>1, <2>2 DEF IInv, TableInOrder
        <2>5. \A j \in DOMAIN zct : ~(i <= j)
            BY <1>1, <1>4, ZCTAssumption DEF CollectDone, IInv, TypeOK
        <2>6. InTable'
            BY <2>1, <2>5 DEF IInv, InTable, Waiting
        <2> QED
            BY <2>3, <2>4, <2>6 DEF IInv
    <1>5. CASE UseFreed
        <2>1. resurrected
            BY <1>5 DEF UseFreed, IInv, TypeOK, TableInOrder
        <2> QED
            BY <1>5, <2>1 DEF UseFreed, IInv, TypeOK, InTable
    <1> QED
        BY <1>2, <1>3, <1>4, <1>5

LEMMA IInvStep == IInv /\ [Next]_vars => IInv'
    <1>1. ASSUME IInv, UNCHANGED vars
          PROVE  IInv'
        BY <1>1 DEF vars, IInv, TypeOK, Deferred, TableInOrder, InTable, Waiting
    <1> QED
        BY <1>1, MutatorStep, DecreaseStep, CollectStep DEF Next, Undefined

--------------------------------------------------------------------------------
(* The theorems.                                                           *)

\* A client that leaves deferred objects alone never has a reference to a freed
\* object, and collect_garbage frees none twice.
THEOREM Soundness == Spec => []Sound
    <1>1. IInv => Sound
        BY DEF IInv, Sound, TableInOrder
    <1> QED
        BY <1>1, IInvInit, IInvStep, PTL DEF Spec

\* Whatever the client does, an object that lost its last reference is in the
\* table until collect_garbage frees it.
THEOREM Completeness == Spec => []NothingLost
    <1>1. IInv => NothingLost
        BY DEF IInv, NothingLost, InTable, Deferred
    <1> QED
        BY <1>1, IInvInit, IInvStep, PTL DEF Spec
================================================================================
