---------------------------- MODULE ZeroCountTable ----------------------------
(***************************************************************************)
(* Deferred reference counting, reference_counting_2_zct: an object whose  *)
(* count falls to 0 goes into the zero count table, and collect_garbage    *)
(* frees what the table holds.                                             *)
(*                                                                         *)
(* The objects are addresses that malloc returns and may return again once *)
(* they are freed.  What the code reads or writes in freed memory is       *)
(* undefined and ends the model.                                           *)
(***************************************************************************)
EXTENDS Naturals, Sequences, FiniteSets

CONSTANTS
    Object,    \* the addresses malloc returns
    ZCT_SIZE,  \* the length of zct.objects
    MaxCount   \* bound: references to one object at a time

ASSUME ZCTAssumption == ZCT_SIZE \in Nat \ {0} /\ MaxCount \in Nat \ {0}

VARIABLES
    allocated, \* the objects malloc returned and nobody freed
    ref_count, \* the count of each object, which is also the number of references
               \* that the program has to it
    is_live,   \* the objects whose is_live is 1
    zct,       \* zct.objects[0 .. zct.count - 1]
    pc,        \* "run" (the client), "collect" (collect_garbage) or "undefined"
    i,         \* collect_garbage: the index of the next entry, from 1
    resurrected \* ghost: the client took a reference to a deferred object

vars == <<allocated, ref_count, is_live, zct, pc, i, resurrected>>

Init ==
    /\ allocated = {}
    /\ ref_count = [o \in Object |-> 0]
    /\ is_live = {}
    /\ zct = <<>>
    /\ pc = "run"
    /\ i = 1
    /\ resurrected = FALSE

Deferred == {zct[j] : j \in DOMAIN zct}

\* malloc and init_object.
init_object ==
    /\ pc = "run"
    /\ \E o \in Object \ allocated :
        /\ allocated' = allocated \cup {o}
        /\ ref_count' = [ref_count EXCEPT ![o] = 0]
        /\ is_live' = is_live \ {o}
    /\ UNCHANGED <<zct, pc, i, resurrected>>

\* The client takes a reference to an object that it knows: a new one, one it has
\* a reference to, or one it kept the address of while its count was 0.
increase_ref_count ==
    /\ pc = "run"
    /\ \E o \in allocated :
        /\ ref_count[o] < MaxCount
        /\ ref_count' = [ref_count EXCEPT ![o] = @ + 1]
        /\ resurrected' = (resurrected \/ o \in Deferred)
    /\ UNCHANGED <<allocated, is_live, zct, pc, i>>

\* Mutant: an object is deferred only while another reference is left.
decrease_ref_count_BeforeZero ==
    /\ pc = "run"
    /\ \E o \in allocated :
        /\ ref_count[o] > 0
        /\ ref_count' = [ref_count EXCEPT ![o] = @ - 1]
        /\ IF ref_count[o] = 2
           THEN /\ Len(zct) < ZCT_SIZE
                /\ is_live' = is_live \cup {o}
                /\ zct' = Append(zct, o)
           ELSE UNCHANGED <<is_live, zct>>
    /\ UNCHANGED <<allocated, pc, i, resurrected>>

\* Mutant: an entry is dropped when the table is full.
decrease_ref_count_EntryDropped ==
    /\ pc = "run"
    /\ \E o \in allocated :
        /\ ref_count[o] > 0
        /\ ref_count' = [ref_count EXCEPT ![o] = @ - 1]
        /\ IF ref_count'[o] = 0
           THEN /\ is_live' = is_live \cup {o}
                /\ zct' = IF Len(zct) < ZCT_SIZE THEN Append(zct, o) ELSE zct
           ELSE UNCHANGED <<is_live, zct>>
    /\ UNCHANGED <<allocated, pc, i, resurrected>>

\* The client drops a reference.  The code does not test zct.count: that the table
\* has room is the client's to see to, by calling collect_garbage.
decrease_ref_count ==
    /\ pc = "run"
    /\ \E o \in allocated :
        /\ ref_count[o] > 0
        /\ ref_count' = [ref_count EXCEPT ![o] = @ - 1]
        /\ IF ref_count'[o] = 0
           THEN /\ Len(zct) < ZCT_SIZE
                /\ is_live' = is_live \cup {o}
                /\ zct' = Append(zct, o)
           ELSE UNCHANGED <<is_live, zct>>
    /\ UNCHANGED <<allocated, pc, i, resurrected>>

\* The client uses a reference to an object that has been freed.
UseFreed ==
    /\ pc = "run"
    /\ \E o \in Object \ allocated : ref_count[o] > 0
    /\ pc' = "undefined"
    /\ UNCHANGED <<allocated, ref_count, is_live, zct, i, resurrected>>

collect_garbage ==
    /\ pc = "run"
    /\ pc' = "collect"
    /\ i' = 1
    /\ UNCHANGED <<allocated, ref_count, is_live, zct, resurrected>>

CollectEntry ==
    /\ pc = "collect"
    /\ i <= Len(zct)
    /\ IF zct[i] \in allocated
       THEN /\ allocated' = IF zct[i] \in is_live THEN allocated \ {zct[i]} ELSE allocated
            /\ i' = i + 1
            /\ UNCHANGED pc
       ELSE pc' = "undefined" /\ UNCHANGED <<allocated, i>>
    /\ UNCHANGED <<ref_count, is_live, zct, resurrected>>

\* Mutant: the table is not emptied.
CollectDone_KeepsTable ==
    /\ pc = "collect"
    /\ i > Len(zct)
    /\ pc' = "run"
    /\ UNCHANGED <<allocated, ref_count, is_live, zct, i, resurrected>>

CollectDone ==
    /\ pc = "collect"
    /\ i > Len(zct)
    /\ zct' = <<>>
    /\ pc' = "run"
    /\ UNCHANGED <<allocated, ref_count, is_live, i, resurrected>>

Undefined == pc = "undefined" /\ UNCHANGED vars

Next ==
    \/ init_object \/ increase_ref_count \/ decrease_ref_count \/ UseFreed
    \/ collect_garbage \/ CollectEntry \/ CollectDone \/ Undefined

Spec == Init /\ [][Next]_vars

\* collect_garbage runs to its end: it is a loop of the one thread.
FairSpec == Spec /\ WF_vars(CollectEntry \/ CollectDone)

--------------------------------------------------------------------------------
(* Properties.                                                             *)

\* Every variable has its type, and between collections the table points to
\* objects that exist (decrease_ref_count, collect_garbage).
TypeOK ==
    /\ allocated \in SUBSET Object
    /\ ref_count \in [Object -> 0..MaxCount]
    /\ is_live \in SUBSET Object
    /\ zct \in Seq(Object) /\ Len(zct) <= ZCT_SIZE
    /\ pc \in {"run", "collect", "undefined"}
    /\ i \in 1..(ZCT_SIZE + 1)
    /\ resurrected \in BOOLEAN
    /\ pc = "run" => Deferred \subseteq allocated

\* As long as the client leaves deferred objects alone, no object is freed twice
\* or while the program has a reference to it (collect_garbage looks at no count).
Sound ==
    ~resurrected =>
        /\ pc # "undefined"
        /\ \A o \in Object \ allocated : ref_count[o] = 0

\* An object that lost its last reference is in the table until it is freed, or
\* nobody would ever free it (decrease_ref_count, collect_garbage).
NothingLost ==
    pc = "run" =>
        \A o \in allocated \cap is_live : ref_count[o] = 0 => o \in Deferred

\* What is deferred when a collection starts has been freed when it ends.
DeferredIsFreed ==
    \A o \in Object : pc = "collect" /\ o \in Deferred 
                            ~> o \notin allocated \/ pc = "undefined"

\* The table records the objects whose count is 0, says the comment before main.
TableListsZeroCounts == \A o \in Deferred : ref_count[o] = 0
==============================================================================
