--------------------------- MODULE MCDequeClients ---------------------------
(***************************************************************************)
(* Instances of DequeClients for TLC.                                      *)
(***************************************************************************)
EXTENDS DequeClients, TLC

\* Threads of one kind are interchangeable; used by the runs that check no
\* temporal property.
ThreadSymmetry == Permutations(Producers) \cup Permutations(Consumers)

AllButClear == {"push_front", "flush", "close"}

AllCalls == {"push_front", "clear", "flush", "close"}
=============================================================================
