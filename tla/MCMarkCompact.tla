---------------------------- MODULE MCMarkCompact ----------------------------
(***************************************************************************)
(* MarkCompact with the two structures of mark_compact_test.c: dept (no    *)
(* reference) and emp (one), in a heap of three of them.                   *)
(***************************************************************************)
EXTENDS MarkCompact

dept == [size |-> 32, num_fields |-> 0]
emp == [size |-> 40, num_fields |-> 1]

TestClass == {dept, emp}
==============================================================================
