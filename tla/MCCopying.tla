------------------------------- MODULE MCCopying -------------------------------
(***************************************************************************)
(* Copying with the two structures of copying_test.c: dept (no reference)  *)
(* and emp (one), and halves in which three of them fit.                   *)
(***************************************************************************)
EXTENDS Copying

dept == [size |-> 32, num_fields |-> 0]
emp == [size |-> 40, num_fields |-> 1]

TestClass == {dept, emp}
================================================================================
