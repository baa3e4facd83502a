------------------------------- MODULE Amounts -------------------------------
(* Numbers that may be missing: an SQL NULL is not zero. *)
EXTENDS Integers

CONSTANT Null

ASSUME NullIsNoNumber == Null \notin Int

Amount == Int \cup {Null}

Abs(n) == IF n < 0 THEN -n ELSE n
==============================================================================
