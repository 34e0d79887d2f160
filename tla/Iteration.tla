------------------------------ MODULE Iteration -------------------------------
(***************************************************************************)
(* A number of steps taken one after another: the form in which the other  *)
(* modules write a loop of the code that computes a value.                 *)
(***************************************************************************)
EXTENDS Integers

\* What n steps, step[1] to step[n], make of base.
After(n, base, step) ==
  LET after[k \in 0 .. n] == IF k = 0 THEN base ELSE step[k][after[k - 1]]
  IN after[n]
=============================================================================
