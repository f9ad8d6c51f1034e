----------------------------- MODULE MCLogBuffer -----------------------------
(***************************************************************************)
(* An instance of LogBuffer for TLC.  Every byte of a chunk differs from   *)
(* its neighbours, and the messages reach from empty to two bytes more     *)
(* than the initial memory has left after the head.                        *)
(***************************************************************************)
EXTENDS LogBuffer

FirstBytes(n) == [i \in 1 .. n |-> i]

TheChunks == {FirstBytes(1), FirstBytes(3)}

TheMessages == {FirstBytes(n) : n \in 0 .. 4}

TheHead == <<7, 8>>

TheTitle == <<9>>
=============================================================================
