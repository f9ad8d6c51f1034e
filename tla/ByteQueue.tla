------------------------------ MODULE ByteQueue ------------------------------
(***************************************************************************)
(* What the log buffer promises: bytes are appended at one end, taken from *)
(* the other in the same order, and none is changed in between.            *)
(***************************************************************************)
EXTENDS Integers, Sequences

CONSTANT Chunks   \* the byte sequences that may be appended at once

VARIABLE bytes

Init == bytes = <<>>

Extend == \E s \in Chunks : bytes' = bytes \o s

Drop == \E n \in 1 .. Len(bytes) : bytes' = SubSeq(bytes, n + 1, Len(bytes))

Next == Extend \/ Drop

Spec == Init /\ [][Next]_bytes
=============================================================================
