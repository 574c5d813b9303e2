----------------------------- MODULE MCGenerational -----------------------------
(***************************************************************************)
(* Generational with emp and dept of generational_test.c, of which a       *)
(* survivor space holds three, and an object that fills eden but for one   *)
(* emp.                                                                    *)
(***************************************************************************)
EXTENDS Generational

emp == [size |-> 40, num_fields |-> 1]
dept == [size |-> 32, num_fields |-> 0]
block == [size |-> 920, num_fields |-> 0]

TestClass == {emp, dept, block}
================================================================================
