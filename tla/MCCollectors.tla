---- MODULE MCCollectors ----
(***************************************************************************)
(* An instance of Collectors for TLC: one processor and one interface.     *)
(* Both constants are sets of model values.                                *)
(***************************************************************************)
EXTENDS Collectors
====
