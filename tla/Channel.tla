------------------------------- MODULE Channel -------------------------------
(***************************************************************************)
(* What BlockDeque promises to the threads that share it, with no locks,   *)
(* no condition variables and no blocked calls: a bounded sequence of      *)
(* items into which each item is put once, at either end, and from which   *)
(* items are taken from the front, until they are discarded.               *)
(***************************************************************************)
EXTENDS Integers, Sequences

CONSTANTS Items, Capacity

VARIABLES
  queue,      \* the items in the channel, front first
  accepted,   \* the items ever put
  delivered   \* the items taken, in order

chanVars == <<queue, accepted, delivered>>

Init ==
  /\ queue = <<>>
  /\ accepted = {}
  /\ delivered = <<>>

Put(item) ==
  /\ Len(queue) < Capacity
  /\ item \notin accepted
  /\ queue' \in {Append(queue, item), <<item>> \o queue}
  /\ accepted' = accepted \cup {item}
  /\ UNCHANGED delivered

Take ==
  /\ queue # <<>>
  /\ queue' = Tail(queue)
  /\ delivered' = Append(delivered, Head(queue))
  /\ UNCHANGED accepted

Discard ==
  /\ queue # <<>>
  /\ queue' = <<>>
  /\ UNCHANGED <<accepted, delivered>>

Next == (\E item \in Items : Put(item)) \/ Take \/ Discard

Spec == Init /\ [][Next]_chanVars
=============================================================================
