-------------------------------- MODULE MCLog --------------------------------
(***************************************************************************)
(* Instances of Log for TLC.                                               *)
(***************************************************************************)
EXTENDS Log, TLC

\* Odd days are the first of a month and even days the second: day 2 stands
\* for all the days of the first month but its first.
Calendar == [d \in 1 .. MaxDay |-> IF d % 2 = 1 THEN 1 ELSE 2]

\* The writers are interchangeable; used by the runs of invariants.
WriterSymmetry == Permutations(Writers)
=============================================================================
