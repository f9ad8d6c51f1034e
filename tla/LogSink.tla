------------------------------- MODULE LogSink -------------------------------
(***************************************************************************)
(* What a log promises: a line that was accepted is written to the log     *)
(* once or, if the process dies first, not at all; the log only grows; and *)
(* what has reached the disk survives the process.                         *)
(***************************************************************************)
EXTENDS Integers, Sequences

CONSTANT Ids

VARIABLES
  accepted,   \* the lines ever accepted
  held,       \* accepted lines that are not in the log yet
  written,    \* the lines of the log, in the order written
  synced      \* how many of them have reached the disk

sinkVars == <<accepted, held, written, synced>>

Init ==
  /\ accepted = {}
  /\ held = {}
  /\ written = <<>>
  /\ synced = 0

Accept(id) ==
  /\ id \notin accepted
  /\ accepted' = accepted \cup {id}
  /\ held' = held \cup {id}
  /\ UNCHANGED <<written, synced>>

Write(id) ==
  /\ id \in held
  /\ held' = held \ {id}
  /\ written' = Append(written, id)
  /\ UNCHANGED <<accepted, synced>>

Sync ==
  /\ synced' = Len(written)
  /\ UNCHANGED <<accepted, held, written>>

\* The process dies: of the lines not yet on the disk any number is lost,
\* the last ones first.
Die ==
  \E n \in synced .. Len(written) :
    /\ held' = {}
    /\ written' = SubSeq(written, 1, n)
    /\ synced' = n
    /\ UNCHANGED accepted

Next == (\E id \in Ids : Accept(id) \/ Write(id)) \/ Sync \/ Die

Spec == Init /\ [][Next]_sinkVars
=============================================================================
