---------------------------- MODULE LogOrderProofs ----------------------------
(***************************************************************************)
(* Proofs about what becomes of the lines of Log: their order, where each  *)
(* of them is, and that the log is a LogSink.  They rest on LogProofs,     *)
(* which says what a step of Log does with the lines (LineStep).           *)
(***************************************************************************)
EXTENDS LogProofs

-----------------------------------------------------------------------------
(***************************************************************************)
(* The inductive invariants.                                               *)
(***************************************************************************)
\* The numbers in use are below that of the next line.
NumbersInv ==
  /\ \A i \in DOMAIN written : written[i].id < nextId
  /\ \A i \in DOMAIN deq_ : deq_[i].id < nextId
  /\ flusher = "write" => str.id < nextId
  /\ \A w \in Writers : wr[w].pc \in ActivePcs => wr[w].line.id < nextId

\* A writer that has not passed on its line has the newest of all.
HolderInv ==
  \A w \in Writers : wr[w].pc \in HoldingPcs =>
    /\ wr[w].line.id = nextId - 1
    /\ \A i \in DOMAIN written : written[i].id < nextId - 1
    /\ \A i \in DOMAIN deq_ : deq_[i].id < nextId - 1
    /\ flusher = "write" => str.id < nextId - 1

\* The lines that go through the deque stay in order, and a line is in one place.
QueueInv ==
  /\ \A i, j \in DOMAIN deq_ : i < j => deq_[i].id < deq_[j].id
  /\ flusher = "write" => \A i \in DOMAIN deq_ : str.id < deq_[i].id
  /\ \A i \in DOMAIN written : \A j \in DOMAIN deq_ :
       /\ written[i].id # deq_[j].id
       /\ written[i].by = "flusher" => written[i].id < deq_[j].id
  /\ flusher = "write" => \A i \in DOMAIN written :
       /\ written[i].id # str.id
       /\ written[i].by = "flusher" => written[i].id < str.id

\* No line is written twice, and those written by the same kind of thread are in
\* order.
WrittenInv ==
  \A i, j \in DOMAIN written : i < j =>
    /\ written[i].id # written[j].id
    /\ written[i].by = written[j].by => written[i].id < written[j].id

OrderInv == NumbersInv /\ HolderInv /\ QueueInv /\ WrittenInv

\* The lines before line i in number that come after it in the log, or will.
Behind(i) ==
  {id \in 1 .. MaxCalls :
     /\ id < written[i].id
     /\ id \in HeldIds \/ \E j \in i + 1 .. Len(written) : written[j].id = id}

BehindInv == \A i \in DOMAIN written : Cardinality(Behind(i)) <= InFlight

\* The numbers of the lines whose macros are under way differ, and are not those of
\* macros that have returned.
ReturnedInv ==
  /\ \A v, w \in Writers :
       wr[v].pc \in ActivePcs /\ wr[w].pc \in ActivePcs /\ wr[v].line.id = wr[w].line.id
         => v = w
  /\ \A w \in Writers : wr[w].pc \in ActivePcs => wr[w].line.id \notin returned
  /\ \A id \in returned : id < nextId

\* A line that its writer wrote and that is not on the disk yet has its writer
\* still to come to the fflush, on an open file.
DurableInv ==
  \A i \in DOMAIN written :
    written[i].by = "writer" /\ synced < i =>
      \E w \in Writers :
        /\ wr[w].pc \in {"notify", "load", "fflush"}
        /\ wr[w].line.id = written[i].id
        /\ wr[w].pc = "fflush" => wr[w].handle = "open"

\* The first process has lost no line.
CompleteInv == runs = 1 => \A id \in 1 .. nextId - 1 : id \in HeldIds \/ Written(id)

-----------------------------------------------------------------------------
(***************************************************************************)
(* The order of the lines.                                                 *)
(***************************************************************************)

\* The types of what OrderInv is about, and that one writer at most has a line that
\* it has not passed on.
LinesTyped ==
  /\ Len(deq_) \in Nat /\ DOMAIN deq_ = 1 .. Len(deq_)
  /\ \A i \in DOMAIN deq_ : deq_[i].id \in Nat
  /\ Len(written) \in Nat /\ DOMAIN written = 1 .. Len(written)
  /\ \A i \in DOMAIN written : written[i].id \in Nat /\ written[i].by \in {"writer", "flusher"}
  /\ flusher = "write" => str.id \in Nat
  /\ \A w \in Writers : wr[w].pc \in ActivePcs => wr[w].line.id \in Nat
  /\ nextId \in Nat
  /\ \A v, w \in Writers :
       /\ wr[v].pc \in HoldingPcs \cup {"format"}
       /\ wr[w].pc \in HoldingPcs \cup {"format"}
       => v = w

LEMMA AreLinesTyped == CtlInv => LinesTyped
<1> SUFFICES ASSUME CtlInv PROVE LinesTyped
  OBVIOUS
<1>1. WritersOK /\ SharedOK /\ LocalsInv
  BY TypeParts DEF CtlInv, TypeInv
<1>2. /\ Len(deq_) \in Nat /\ DOMAIN deq_ = 1 .. Len(deq_)
      /\ \A i \in DOMAIN deq_ : deq_[i] \in Lines
  BY <1>1 DEF SharedOK
<1>3. /\ Len(written) \in Nat /\ DOMAIN written = 1 .. Len(written)
      /\ \A i \in DOMAIN written : written[i] \in Records
  BY <1>1 DEF SharedOK
<1>4. \A w \in Writers : wr[w].pc \in ActivePcs => wr[w].line \in Lines
  BY <1>1 DEF LocalsInv, LocalsOf
<1>5. flusher = "write" => str \in Lines
  BY <1>1 DEF LocalsInv
<1>6. \A l \in Lines : l.id \in Nat
  BY DEF Lines
<1>7. \A r \in Records : r.id \in Nat /\ r.by \in {"writer", "flusher"}
  BY DEF Records
<1>8. nextId \in Nat
  BY <1>1 DEF SharedOK
<1>9. \A v, w \in Writers :
        /\ wr[v].pc \in HoldingPcs \cup {"format"}
        /\ wr[w].pc \in HoldingPcs \cup {"format"}
        => v = w
  BY <1>1, MutualExclusion DEF HoldingPcs, Critical
<1> QED
  BY <1>2, <1>3, <1>4, <1>5, <1>6, <1>7, <1>8, <1>9 DEF LinesTyped

LEMMA QuietOrder ==
  ASSUME LinesTyped, OrderInv, QuietStep
  PROVE  OrderInv'
<1> USE DEF QuietStep, OrderInv
<1>1. NumbersInv'
  BY DEF NumbersInv
<1>2. HolderInv'
  BY DEF HolderInv, HoldingPcs, ActivePcs
<1>3. QueueInv'
  BY DEF QueueInv
<1>4. WrittenInv'
  BY DEF WrittenInv
<1> QED
  BY <1>1, <1>2, <1>3, <1>4

LEMMA FormatOrder ==
  ASSUME LinesTyped, OrderInv, NEW w \in Writers, FormatLine(w)
  PROVE  OrderInv'
<1> USE DEF FormatLine, OnlyWriter, OrderInv
<1>1. \A v \in Writers : v # w => wr'[v].pc \notin HoldingPcs
  BY DEF LinesTyped
<1>2. wr'[w].line.id = nextId /\ nextId \in Nat
  BY DEF LinesTyped
<1>3. NumbersInv'
  BY <1>2 DEF NumbersInv, LinesTyped, ActivePcs
<1>4. HolderInv'
  BY <1>1, <1>2 DEF HolderInv, NumbersInv
<1>5. QueueInv'
  BY DEF QueueInv
<1>6. WrittenInv'
  BY DEF WrittenInv
<1> QED
  BY <1>3, <1>4, <1>5, <1>6

LEMMA QueueOrder ==
  ASSUME LinesTyped, OrderInv, NEW w \in Writers, QueueLine(w)
  PROVE  OrderInv'
<1> DEFINE last == Len(deq_) + 1
<1>1. wr[w].pc \in HoldingPcs /\ wr[w].pc \in ActivePcs /\ wr'[w].pc \notin HoldingPcs
  BY DEF QueueLine, HoldingPcs, ActivePcs
<1>2. \A v \in Writers : wr'[v].pc \notin HoldingPcs
  BY <1>1 DEF QueueLine, OnlyWriter, LinesTyped
<1>3. /\ wr[w].line.id = nextId - 1 /\ nextId \in Nat
      /\ \A i \in DOMAIN written : written[i].id < nextId - 1
      /\ \A i \in DOMAIN deq_ : deq_[i].id < nextId - 1
      /\ flusher = "write" => str.id < nextId - 1
  BY <1>1 DEF OrderInv, HolderInv, LinesTyped
<1>4. /\ DOMAIN deq_' = DOMAIN deq_ \cup {last} /\ last \notin DOMAIN deq_
      /\ \A i \in DOMAIN deq_ : deq_'[i] = deq_[i] /\ i < last /\ i \in Nat
      /\ deq_'[last].id = nextId - 1 /\ last \in Nat
  BY <1>3 DEF QueueLine, LinesTyped
<1> HIDE DEF last
<1>5. UNCHANGED <<written, nextId, str, flusher>>
  BY DEF QueueLine
<1>6. NumbersInv'
  <2>1. \A v \in Writers : wr'[v].pc \in ActivePcs => wr'[v].line.id < nextId
    BY <1>1, <1>3 DEF OrderInv, NumbersInv, QueueLine, OnlyWriter
  <2> QED
    BY <1>3, <1>4, <1>5, <2>1 DEF OrderInv, NumbersInv
<1>7. HolderInv'
  BY <1>2 DEF HolderInv
<1>8. QueueInv'
  <2>1. \A i, j \in DOMAIN deq_' : i < j => deq_'[i].id < deq_'[j].id
    BY <1>3, <1>4 DEF OrderInv, QueueInv, LinesTyped
  <2>2. flusher = "write" => \A i \in DOMAIN deq_' : str.id < deq_'[i].id
    BY <1>3, <1>4 DEF OrderInv, QueueInv
  <2>3. \A i \in DOMAIN written : \A j \in DOMAIN deq_' :
          /\ written[i].id # deq_'[j].id
          /\ written[i].by = "flusher" => written[i].id < deq_'[j].id
    BY <1>3, <1>4 DEF OrderInv, QueueInv
  <2> QED
    BY <1>5, <2>1, <2>2, <2>3 DEF OrderInv, QueueInv
<1>9. WrittenInv'
  BY <1>5 DEF OrderInv, WrittenInv
<1> QED
  BY <1>6, <1>7, <1>8, <1>9 DEF OrderInv

\* A line that is written is not lower than those that its kind of thread has
\* written, and not among them.
LEMMA WriteOrder ==
  ASSUME LinesTyped, WrittenInv, NEW l, NEW by, WriteLine(l, by), l.id \in Nat,
         \A i \in DOMAIN written :
           written[i].id # l.id /\ (written[i].by = by => written[i].id < l.id)
  PROVE  WrittenInv'
<1> DEFINE last == Len(written) + 1
<1>1. /\ DOMAIN written' = DOMAIN written \cup {last} /\ last \notin DOMAIN written
      /\ \A i \in DOMAIN written : written'[i] = written[i] /\ i < last /\ i \in Nat
      /\ written'[last].id = l.id /\ written'[last].by = by /\ last \in Nat
  BY DEF WriteLine, LinesTyped
<1> HIDE DEF last
<1>2. SUFFICES ASSUME NEW i \in DOMAIN written', NEW j \in DOMAIN written', i < j
               PROVE  /\ written'[i].id # written'[j].id
                      /\ written'[i].by = written'[j].by => written'[i].id < written'[j].id
  BY DEF WrittenInv
<1>3. i \in DOMAIN written
  BY <1>1, <1>2
<1>4. CASE j \in DOMAIN written
  BY <1>1, <1>2, <1>3, <1>4 DEF WrittenInv
<1>5. CASE j = last
  BY <1>1, <1>3, <1>5
<1> QED
  BY <1>1, <1>4, <1>5

LEMMA WriteOwnOrder ==
  ASSUME LinesTyped, OrderInv, NEW w \in Writers, WriteOwnLine(w)
  PROVE  OrderInv'
<1> DEFINE last == Len(written) + 1
<1>1. wr[w].pc \in HoldingPcs /\ wr[w].pc \in ActivePcs /\ wr'[w].pc \notin HoldingPcs
  BY DEF WriteOwnLine, HoldingPcs, ActivePcs
<1>2. \A v \in Writers : wr'[v].pc \notin HoldingPcs
  BY <1>1 DEF WriteOwnLine, OnlyWriter, LinesTyped
<1>3. /\ wr[w].line.id = nextId - 1 /\ nextId \in Nat /\ wr[w].line.id \in Nat
      /\ \A i \in DOMAIN written : written[i].id < nextId - 1
      /\ \A i \in DOMAIN deq_ : deq_[i].id < nextId - 1
      /\ flusher = "write" => str.id < nextId - 1
  BY <1>1 DEF OrderInv, HolderInv, LinesTyped
<1>4. /\ DOMAIN written' = DOMAIN written \cup {last} /\ last \notin DOMAIN written
      /\ \A i \in DOMAIN written : written'[i] = written[i]
      /\ written'[last].id = nextId - 1 /\ written'[last].by = "writer"
  BY <1>3 DEF WriteOwnLine, WriteLine, LinesTyped
<1> HIDE DEF last
<1>5. UNCHANGED <<deq_, nextId, str, flusher>>
  BY DEF WriteOwnLine
<1>6. NumbersInv'
  <2>1. \A v \in Writers : wr'[v].pc \in ActivePcs => wr'[v].line.id < nextId
    BY <1>1, <1>3 DEF OrderInv, NumbersInv, WriteOwnLine, OnlyWriter
  <2> QED
    BY <1>3, <1>4, <1>5, <2>1 DEF OrderInv, NumbersInv
<1>7. HolderInv'
  BY <1>2 DEF HolderInv
<1>8. QueueInv'
  <2>1. \A i \in DOMAIN written' : \A j \in DOMAIN deq_ :
          /\ written'[i].id # deq_[j].id
          /\ written'[i].by = "flusher" => written'[i].id < deq_[j].id
    BY <1>3, <1>4 DEF OrderInv, QueueInv, LinesTyped
  <2>2. flusher = "write" => \A i \in DOMAIN written' :
          /\ written'[i].id # str.id
          /\ written'[i].by = "flusher" => written'[i].id < str.id
    BY <1>3, <1>4 DEF OrderInv, QueueInv, LinesTyped
  <2> QED
    BY <1>5, <2>1, <2>2 DEF OrderInv, QueueInv
<1>9. WrittenInv'
  <2>1. \A i \in DOMAIN written :
          written[i].id # wr[w].line.id
            /\ (written[i].by = "writer" => written[i].id < wr[w].line.id)
    BY <1>3 DEF LinesTyped
  <2> QED
    BY <1>3, <2>1, WriteOrder DEF OrderInv, WriteOwnLine
<1> QED
  BY <1>6, <1>7, <1>8, <1>9 DEF OrderInv

LEMMA ReturnOrder ==
  ASSUME LinesTyped, OrderInv, NEW w \in Writers, ReturnLine(w)
  PROVE  OrderInv'
<1>1. \A v \in Writers :
        /\ wr'[v].pc \in ActivePcs => wr[v].pc \in ActivePcs /\ wr'[v].line = wr[v].line
        /\ wr'[v].pc \in HoldingPcs => wr[v].pc \in HoldingPcs /\ wr'[v].line = wr[v].line
  BY DEF ReturnLine, OnlyWriter, ActivePcs, HoldingPcs
<1>2. UNCHANGED <<deq_, written, nextId, str, flusher>>
  BY DEF ReturnLine
<1>3. NumbersInv'
  BY <1>1, <1>2 DEF OrderInv, NumbersInv
<1>4. HolderInv'
  BY <1>1, <1>2 DEF OrderInv, HolderInv
<1>5. QueueInv' /\ WrittenInv'
  BY <1>2 DEF OrderInv, QueueInv, WrittenInv
<1> QED
  BY <1>3, <1>4, <1>5 DEF OrderInv

LEMMA TakeOrder ==
  ASSUME LinesTyped, OrderInv, TakeLine
  PROVE  OrderInv'
<1>1. /\ 1 \in DOMAIN deq_ /\ str' = deq_[1] /\ flusher' = "write"
      /\ \A i \in DOMAIN deq_' : i + 1 \in DOMAIN deq_ /\ deq_'[i] = deq_[i + 1]
                                 /\ 1 < i + 1 /\ i \in Nat
  BY DEF TakeLine, LinesTyped
<1>2. UNCHANGED <<written, nextId, wr>>
  BY DEF TakeLine
<1>3. NumbersInv'
  BY <1>1, <1>2 DEF OrderInv, NumbersInv
<1>4. HolderInv'
  BY <1>1, <1>2 DEF OrderInv, HolderInv
<1>5. QueueInv'
  <2>1. \A i, j \in DOMAIN deq_' : i < j => deq_'[i].id < deq_'[j].id
    BY <1>1 DEF OrderInv, QueueInv
  <2>2. \A i \in DOMAIN deq_' : str'.id < deq_'[i].id
    BY <1>1 DEF OrderInv, QueueInv
  <2>3. \A i \in DOMAIN written : \A j \in DOMAIN deq_' :
          /\ written[i].id # deq_'[j].id
          /\ written[i].by = "flusher" => written[i].id < deq_'[j].id
    BY <1>1 DEF OrderInv, QueueInv
  <2>4. \A i \in DOMAIN written :
          /\ written[i].id # str'.id
          /\ written[i].by = "flusher" => written[i].id < str'.id
    BY <1>1 DEF OrderInv, QueueInv
  <2> QED
    BY <1>2, <2>1, <2>2, <2>3, <2>4 DEF QueueInv
<1>6. WrittenInv'
  BY <1>2 DEF OrderInv, WrittenInv
<1> QED
  BY <1>3, <1>4, <1>5, <1>6 DEF OrderInv

LEMMA WriteTakenOrder ==
  ASSUME LinesTyped, OrderInv, WriteTaken
  PROVE  OrderInv'
<1> DEFINE last == Len(written) + 1
<1>1. flusher = "write" /\ flusher' = "pop" /\ str.id \in Nat
  BY DEF WriteTaken, LinesTyped
<1>2. UNCHANGED <<deq_, nextId, wr>>
  BY DEF WriteTaken
<1>3. /\ DOMAIN written' = DOMAIN written \cup {last}
      /\ \A i \in DOMAIN written : written'[i] = written[i]
      /\ written'[last].id = str.id
  BY DEF WriteTaken, WriteLine, LinesTyped
<1> HIDE DEF last
<1>4. NumbersInv'
  BY <1>1, <1>2, <1>3 DEF OrderInv, NumbersInv
<1>5. HolderInv'
  BY <1>1, <1>2, <1>3 DEF OrderInv, HolderInv
<1>6. QueueInv'
  <2>1. \A i \in DOMAIN written' : \A j \in DOMAIN deq_ :
          /\ written'[i].id # deq_[j].id
          /\ written'[i].by = "flusher" => written'[i].id < deq_[j].id
    BY <1>1, <1>3 DEF OrderInv, QueueInv, LinesTyped
  <2> QED
    BY <1>1, <1>2, <2>1 DEF OrderInv, QueueInv
<1>7. WrittenInv'
  <2>1. \A i \in DOMAIN written :
          written[i].id # str.id /\ (written[i].by = "flusher" => written[i].id < str.id)
    BY <1>1 DEF OrderInv, QueueInv
  <2> QED
    BY <1>1, <2>1, WriteOrder DEF OrderInv, WriteTaken
<1> QED
  BY <1>4, <1>5, <1>6, <1>7 DEF OrderInv

LEMMA LoseOrder ==
  ASSUME LinesTyped, OrderInv, LoseLines
  PROVE  OrderInv'
<1>1. /\ DOMAIN written' \subseteq DOMAIN written
      /\ \A i \in DOMAIN written' : written'[i] = written[i]
  BY DEF LoseLines, LinesTyped
<1>2. /\ DOMAIN deq_' = {} /\ flusher' # "write" /\ nextId' = nextId
      /\ \A w \in Writers : wr'[w].pc \notin ActivePcs /\ wr'[w].pc \notin HoldingPcs
  BY DEF LoseLines, ActivePcs, HoldingPcs
<1>3. NumbersInv' /\ HolderInv'
  BY <1>1, <1>2 DEF OrderInv, NumbersInv, HolderInv
<1>4. QueueInv'
  BY <1>2 DEF QueueInv
<1>5. WrittenInv'
  BY <1>1 DEF OrderInv, WrittenInv
<1> QED
  BY <1>3, <1>4, <1>5 DEF OrderInv

LEMMA NextOrder ==
  ASSUME LinesTyped, OrderInv, LineStep
  PROVE  OrderInv'
  BY QuietOrder, FormatOrder, QueueOrder, WriteOwnOrder, ReturnOrder, TakeOrder,
     WriteTakenOrder, LoseOrder DEF LineStep

LEMMA InitOrder ==
  ASSUME Init
  PROVE  OrderInv
<1>1. /\ DOMAIN written = {} /\ DOMAIN deq_ = {} /\ flusher = "none"
      /\ \A w \in Writers : wr[w].pc = "idle"
  BY IdleIsLocal DEF Init, ProcessInit, Q!DequeInit
<1> QED
  BY <1>1 DEF OrderInv, NumbersInv, HolderInv, QueueInv, WrittenInv, ActivePcs, HoldingPcs

LEMMA AlwaysOrder == Spec => []OrderInv
<1>1. Init => OrderInv
  BY InitOrder
<1>2. CtlInv /\ OrderInv /\ [Next]_vars => OrderInv'
  BY AreLinesTyped, NextLineStep, NextOrder
<1> QED
  BY <1>1, <1>2, AlwaysCtlInv, PTL DEF Spec

-----------------------------------------------------------------------------
(***************************************************************************)
(* The lines on their way.                                                 *)
(***************************************************************************)
LEMMA Held ==
  ASSUME NEW id
  PROVE  id \in HeldIds <=>
           \/ \E w \in Writers : wr[w].pc \in HoldingPcs /\ wr[w].line.id = id
           \/ \E i \in DOMAIN deq_ : deq_[i].id = id
           \/ flusher = "write" /\ str.id = id
  BY DEF HeldIds, HoldingPcs

LEMMA HeldNext ==
  ASSUME NEW id
  PROVE  id \in HeldIds' <=>
           \/ \E w \in Writers : wr'[w].pc \in HoldingPcs /\ wr'[w].line.id = id
           \/ \E i \in DOMAIN deq_' : deq_'[i].id = id
           \/ flusher' = "write" /\ str'.id = id
  BY DEF HeldIds, HoldingPcs

\* What is held has the number of a line already formatted.
LEMMA HeldIsFormatted ==
  ASSUME LinesTyped, OrderInv, NEW id \in HeldIds
  PROVE  id \in Nat /\ id < nextId /\ \A i \in DOMAIN written : written[i].id # id
<1>1. CASE \E w \in Writers : wr[w].pc \in HoldingPcs /\ wr[w].line.id = id
  BY <1>1 DEF LinesTyped, OrderInv, NumbersInv, HolderInv, ActivePcs
<1>2. CASE \E i \in DOMAIN deq_ : deq_[i].id = id
  BY <1>2 DEF LinesTyped, OrderInv, NumbersInv, QueueInv
<1>3. CASE flusher = "write" /\ str.id = id
  BY <1>3 DEF LinesTyped, OrderInv, NumbersInv, QueueInv
<1> QED
  BY <1>1, <1>2, <1>3, Held

LEMMA QuietHeld ==
  ASSUME QuietStep PROVE HeldIds' = HeldIds
<1>1. \A id : id \in HeldIds' <=> id \in HeldIds
  BY Held, HeldNext DEF QuietStep, ActivePcs
<1> QED
  BY <1>1

LEMMA FormatHeld ==
  ASSUME LinesTyped, NEW w \in Writers, FormatLine(w)
  PROVE  HeldIds' = HeldIds \cup {nextId}
<1>1. wr[w].pc \notin HoldingPcs /\ wr'[w].pc \in HoldingPcs /\ wr'[w].line.id = nextId
  BY DEF FormatLine, HoldingPcs
<1>2. \A v \in Writers : v # w => wr'[v].pc = wr[v].pc /\ wr'[v].line = wr[v].line
  BY DEF FormatLine, OnlyWriter
<1>3. \A id : id \in HeldIds' <=> id \in HeldIds \/ id = nextId
  BY <1>1, <1>2, Held, HeldNext DEF FormatLine
<1> QED
  BY <1>3

LEMMA QueueHeld ==
  ASSUME LinesTyped, NEW w \in Writers, QueueLine(w)
  PROVE  HeldIds' = HeldIds
<1> DEFINE last == Len(deq_) + 1
<1>1. wr[w].pc \in HoldingPcs /\ wr'[w].pc \notin HoldingPcs
  BY DEF QueueLine, HoldingPcs
<1>2. \A v \in Writers : v # w => wr'[v].pc = wr[v].pc /\ wr'[v].line = wr[v].line
  BY DEF QueueLine, OnlyWriter
<1>3. /\ DOMAIN deq_' = DOMAIN deq_ \cup {last}
      /\ \A i \in DOMAIN deq_ : deq_'[i] = deq_[i]
      /\ deq_'[last] = wr[w].line
  BY DEF QueueLine, LinesTyped
<1> HIDE DEF last
<1>4. flusher' = flusher /\ str' = str
  BY DEF QueueLine
<1>5. \A id : id \in HeldIds' => id \in HeldIds
  BY <1>1, <1>2, <1>3, <1>4, Held, HeldNext
<1>6. \A id : id \in HeldIds => id \in HeldIds'
  <2> SUFFICES ASSUME NEW id \in HeldIds PROVE id \in HeldIds'
    OBVIOUS
  <2>1. CASE \E i \in DOMAIN deq_ : deq_[i].id = id
    BY <1>3, <2>1, HeldNext
  <2>2. CASE \E v \in Writers : wr[v].pc \in HoldingPcs /\ wr[v].line.id = id
    BY <1>2, <1>3, <2>2, HeldNext
  <2>3. CASE flusher = "write" /\ str.id = id
    BY <1>4, <2>3, HeldNext
  <2> QED
    BY <2>1, <2>2, <2>3, Held
<1> QED
  BY <1>5, <1>6

LEMMA WriteOwnHeld ==
  ASSUME LinesTyped, OrderInv, NEW w \in Writers, WriteOwnLine(w)
  PROVE  HeldIds' = HeldIds \ {wr[w].line.id} /\ wr[w].line.id \in HeldIds
<1>1. wr[w].pc \in HoldingPcs /\ wr'[w].pc \notin HoldingPcs
  BY DEF WriteOwnLine, HoldingPcs
<1>2. \A v \in Writers : v # w => wr[v].pc \notin HoldingPcs /\ wr'[v].pc \notin HoldingPcs
  BY <1>1 DEF WriteOwnLine, OnlyWriter, LinesTyped
<1>3. /\ \A i \in DOMAIN deq_ : deq_[i].id # wr[w].line.id
      /\ flusher = "write" => str.id # wr[w].line.id
  BY <1>1 DEF OrderInv, HolderInv, LinesTyped
<1>4. \A id : id \in HeldIds' <=> id \in HeldIds /\ id # wr[w].line.id
  BY <1>1, <1>2, <1>3, Held, HeldNext DEF WriteOwnLine
<1>5. wr[w].line.id \in HeldIds
  BY <1>1, Held
<1> QED
  BY <1>4, <1>5

LEMMA ReturnHeld ==
  ASSUME NEW w \in Writers, ReturnLine(w)
  PROVE  HeldIds' = HeldIds
<1>1. wr[w].pc \notin HoldingPcs /\ wr'[w].pc \notin HoldingPcs
  BY DEF ReturnLine, HoldingPcs
<1>2. \A id : id \in HeldIds' <=> id \in HeldIds
  BY <1>1, Held, HeldNext DEF ReturnLine, OnlyWriter
<1> QED
  BY <1>2

LEMMA TakeHeld ==
  ASSUME LinesTyped, TakeLine
  PROVE  HeldIds' = HeldIds
<1>1. /\ 1 \in DOMAIN deq_ /\ str' = deq_[1] /\ flusher # "write" /\ flusher' = "write"
      /\ \A i \in DOMAIN deq_' : i + 1 \in DOMAIN deq_ /\ deq_'[i] = deq_[i + 1]
      /\ \A i \in DOMAIN deq_ : i = 1 \/ (i - 1 \in DOMAIN deq_' /\ deq_'[i - 1] = deq_[i])
      /\ wr' = wr
  BY DEF TakeLine, LinesTyped
<1>2. \A id : id \in HeldIds' => id \in HeldIds
  BY <1>1, Held, HeldNext
<1>3. \A id : id \in HeldIds => id \in HeldIds'
  BY <1>1, Held, HeldNext
<1> QED
  BY <1>2, <1>3

LEMMA WriteTakenHeld ==
  ASSUME LinesTyped, OrderInv, WriteTaken
  PROVE  HeldIds' = HeldIds \ {str.id} /\ str.id \in HeldIds
<1>1. /\ flusher = "write" /\ flusher' = "pop" /\ wr' = wr /\ deq_' = deq_
      /\ \A i \in DOMAIN deq_ : deq_[i].id # str.id
      /\ \A w \in Writers : wr[w].pc \in HoldingPcs => wr[w].line.id # str.id
  BY DEF WriteTaken, LinesTyped, OrderInv, QueueInv, HolderInv
<1>2. \A id : id \in HeldIds' <=> id \in HeldIds /\ id # str.id
  BY <1>1, Held, HeldNext
<1>3. str.id \in HeldIds
  BY <1>1, Held
<1> QED
  BY <1>2, <1>3

LEMMA LoseHeld ==
  ASSUME LoseLines PROVE HeldIds' = {}
<1>1. \A id : id \notin HeldIds'
  BY HeldNext DEF LoseLines, HoldingPcs
<1> QED
  BY <1>1

-----------------------------------------------------------------------------
(***************************************************************************)
(* How far a line can overtake others.                                     *)
(***************************************************************************)
LEMMA BehindFinite ==
  ASSUME NEW i
  PROVE  /\ IsFiniteSet(Behind(i)) /\ Cardinality(Behind(i)) \in Nat
         /\ IsFiniteSet(Behind(i)') /\ Cardinality(Behind(i)') \in Nat
<1>1. IsFiniteSet(1 .. MaxCalls)
  BY Bounds, FS_Interval
<1>2. Behind(i) \subseteq 1 .. MaxCalls /\ Behind(i)' \subseteq 1 .. MaxCalls
  BY DEF Behind
<1> QED
  BY <1>1, <1>2, FS_Subset, FS_CardinalityType

LEMMA InFlightIsNat == InFlight \in Nat
<1>1. QueueCapacity + 1 \in Nat
  BY Bounds
<1> QED
  BY <1>1, Zenon DEF InFlight

\* No step puts a line behind another that is in the log already.
LEMMA BehindKept ==
  ASSUME BehindInv, NEW i \in DOMAIN written, Behind(i)' \subseteq Behind(i)
  PROVE  Cardinality(Behind(i)') <= InFlight
<1>1. Cardinality(Behind(i)') <= Cardinality(Behind(i))
  BY BehindFinite, FS_Subset
<1> QED
  BY <1>1, BehindFinite, InFlightIsNat DEF BehindInv

\* The lines that go through the deque and the flusher are InFlight at most.
LEMMA QueuedBound ==
  ASSUME CtlInv, NEW S,
         \A x \in S : \/ \E k \in DOMAIN deq_ : deq_[k].id = x
                      \/ flusher = "write" /\ x = str.id
  PROVE  IsFiniteSet(S) /\ Cardinality(S) <= InFlight
<1>1. CASE flusher = "none"
  <2>1. S = {}
    BY <1>1 DEF CtlInv, PhaseInv
  <2> QED
    BY <2>1, FS_EmptySet, InFlightIsNat
<1>2. CASE flusher # "none"
  <2> DEFINE n == Len(deq_) + 1
             Place(x) == CHOOSE k \in DOMAIN deq_ : deq_[k].id = x
             f == [x \in S |-> IF \E k \in DOMAIN deq_ : deq_[k].id = x THEN Place(x) ELSE n]
  <2>1. /\ Len(deq_) \in Nat /\ Len(deq_) <= QueueCapacity /\ DOMAIN deq_ = 1 .. Len(deq_)
    BY TypeParts DEF CtlInv, TypeInv, SharedOK
  <2>0. InFlight = QueueCapacity + 1
    <3>1. TRUE \in Modes
      BY <1>2 DEF CtlInv, PhaseInv
    <3> QED
      BY <3>1, Zenon DEF InFlight
  <2>2. \A x \in S : (\E k \in DOMAIN deq_ : deq_[k].id = x) =>
          f[x] \in 1 .. Len(deq_) /\ deq_[f[x]].id = x
    BY <2>1
  <2>3. \A x \in S : ~(\E k \in DOMAIN deq_ : deq_[k].id = x) => f[x] = n /\ x = str.id
    OBVIOUS
  <2>4. f \in [S -> 1 .. n]
    BY <2>1, <2>2, <2>3
  <2>5. \A x, y \in S : f[x] = f[y] => x = y
    <3>0. n \notin 1 .. Len(deq_)
      BY <2>1
    <3> HIDE DEF f, n
    <3> SUFFICES ASSUME NEW x \in S, NEW y \in S, f[x] = f[y] PROVE x = y
      OBVIOUS
    <3>1. CASE \E k \in DOMAIN deq_ : deq_[k].id = x
      <4>1. f[y] \in 1 .. Len(deq_) /\ f[y] # n
        <5>1. f[x] \in 1 .. Len(deq_)
          BY <2>2, <3>1
        <5>2. f[y] # n
          BY <3>0, <5>1
        <5> QED
          BY <5>1, <5>2, Zenon
      <4>2. \E k \in DOMAIN deq_ : deq_[k].id = y
        BY <2>3, <4>1
      <4> QED
        BY <2>2, <3>1, <4>2
    <3>2. CASE ~\E k \in DOMAIN deq_ : deq_[k].id = x
      <4>1. f[x] = n /\ x = str.id
        BY <2>3, <3>2
      <4>2. ~\E k \in DOMAIN deq_ : deq_[k].id = y
        BY <2>2, <3>0, <4>1
      <4> QED
        BY <2>3, <4>1, <4>2
    <3> QED
      BY <3>1, <3>2
  <2>6. f \in Injection(S, 1 .. n)
    BY <2>4, <2>5 DEF Injection, IsInjective
  <2>7. IsFiniteSet(1 .. n) /\ Cardinality(1 .. n) = n
    BY <2>1, FS_Interval
  <2>8. IsFiniteSet(S) /\ Cardinality(S) <= n
    BY <2>6, <2>7, FS_Injection
  <2> QED
    <3>1. Cardinality(S) \in Nat
      BY <2>8, FS_CardinalityType
    <3> QED
      BY <2>0, <2>1, <2>8, <3>1, Bounds
<1> QED
  BY <1>1, <1>2

\* A step that changes neither what is held nor what is written.
LEMMA StillBehind ==
  ASSUME BehindInv, HeldIds' \subseteq HeldIds, written' = written
  PROVE  BehindInv'
<1>1. \A i \in DOMAIN written' : i \in DOMAIN written /\ Behind(i)' \subseteq Behind(i)
  BY DEF Behind
<1> QED
  BY <1>1, BehindKept DEF BehindInv

LEMMA FormatBehind ==
  ASSUME LinesTyped, OrderInv, BehindInv, NEW w \in Writers, FormatLine(w)
  PROVE  BehindInv'
<1>1. HeldIds' = HeldIds \cup {nextId} /\ written' = written
  BY FormatHeld DEF FormatLine
<1>2. \A i \in DOMAIN written : ~(nextId < written[i].id)
  BY DEF LinesTyped, OrderInv, NumbersInv
<1>3. \A i \in DOMAIN written' : i \in DOMAIN written /\ Behind(i)' \subseteq Behind(i)
  BY <1>1, <1>2 DEF Behind
<1> QED
  BY <1>3, BehindKept DEF BehindInv

\* A line that is written takes its place behind the lines it was to come behind.
LEMMA WriteBehind ==
  ASSUME LinesTyped, BehindInv, NEW l, NEW by, WriteLine(l, by), l.id \in HeldIds,
         HeldIds' = HeldIds \ {l.id},
         NEW S, IsFiniteSet(S), Cardinality(S) <= InFlight,
         {x \in HeldIds : x \in 1 .. MaxCalls /\ x < l.id /\ x # l.id} \subseteq S
  PROVE  BehindInv'
<1>0. PICK last \in Nat : last = Len(written) + 1
  BY DEF LinesTyped
<1>1. /\ DOMAIN written' = DOMAIN written \cup {last}
      /\ \A i \in DOMAIN written : written'[i] = written[i] /\ i <= Len(written)
      /\ written'[last].id = l.id /\ DOMAIN written = 1 .. Len(written)
      /\ Len(written') = last
  BY <1>0 DEF WriteLine, LinesTyped
<1>2. ASSUME NEW i \in DOMAIN written PROVE Cardinality(Behind(i)') <= InFlight
  <2>1. Behind(i)' \subseteq Behind(i)
    <3> SUFFICES ASSUME NEW x \in Behind(i)' PROVE x \in Behind(i)
      OBVIOUS
    <3>1. x \in 1 .. MaxCalls /\ x < written[i].id
      BY <1>1, <1>2 DEF Behind
    <3>2. CASE x \in HeldIds'
      BY <3>1, <3>2 DEF Behind
    <3>3. CASE \E j \in i + 1 .. Len(written') : written'[j].id = x
      <4>1. PICK j \in i + 1 .. last : written'[j].id = x
        BY <1>1, <3>3
      <4>2. CASE j = last
        BY <1>1, <3>1, <4>1, <4>2 DEF Behind
      <4>3. CASE j # last
        <5>1. j \in i + 1 .. Len(written) /\ j \in DOMAIN written
          BY <1>1, <1>2, <4>1, <4>3
        <5> QED
          BY <1>1, <3>1, <4>1, <5>1 DEF Behind
      <4> QED
        BY <4>2, <4>3
    <3> QED
      BY <3>2, <3>3 DEF Behind
  <2> QED
    BY <1>2, <2>1, BehindKept
<1>3. Cardinality(Behind(last)') <= InFlight
  <2>1. Behind(last)' \subseteq S
    <3> SUFFICES ASSUME NEW x \in Behind(last)' PROVE x \in S
      OBVIOUS
    <3>1. x \in 1 .. MaxCalls /\ x < l.id
      BY <1>1 DEF Behind
    <3>2. last + 1 .. Len(written') = {}
      BY <1>1
    <3>3. x \in HeldIds'
      BY <3>2 DEF Behind
    <3> QED
      BY <3>1, <3>3
  <2>2. Cardinality(Behind(last)') <= Cardinality(S)
    BY <2>1, FS_Subset
  <2> QED
    BY <2>2, BehindFinite, FS_CardinalityType, InFlightIsNat
<1> QED
  BY <1>1, <1>2, <1>3 DEF BehindInv

\* A writer's own line overtakes those that it left to the deque and the flusher.
LEMMA WriteOwnBehind ==
  ASSUME CtlInv, LinesTyped, OrderInv, BehindInv, NEW w \in Writers, WriteOwnLine(w)
  PROVE  BehindInv'
<1> DEFINE S == {x \in HeldIds : x \in 1 .. MaxCalls /\ x < wr[w].line.id /\ x # wr[w].line.id}
<1>1. HeldIds' = HeldIds \ {wr[w].line.id} /\ wr[w].line.id \in HeldIds
  BY WriteOwnHeld
<1>2. \A v \in Writers : wr[v].pc \in HoldingPcs => v = w
  BY DEF LinesTyped, WriteOwnLine, HoldingPcs
<1>3. \A x \in S : \/ \E k \in DOMAIN deq_ : deq_[k].id = x
                   \/ flusher = "write" /\ x = str.id
  BY <1>2, Held
<1>4. IsFiniteSet(S) /\ Cardinality(S) <= InFlight
  <2> HIDE DEF S
  <2> QED
    BY <1>3, QueuedBound
<1> QED
  BY <1>1, <1>4, WriteBehind DEF WriteOwnLine

\* The flusher's line overtakes none.
LEMMA WriteTakenBehind ==
  ASSUME LinesTyped, OrderInv, BehindInv, WriteTaken
  PROVE  BehindInv'
<1>1. HeldIds' = HeldIds \ {str.id} /\ str.id \in HeldIds
  BY WriteTakenHeld
<1>2. flusher = "write" /\ str.id \in Nat /\ nextId \in Nat
  BY DEF WriteTaken, LinesTyped
<1>3. \A v \in Writers : wr[v].pc \in HoldingPcs =>
        wr[v].line.id \in Nat /\ ~(wr[v].line.id < str.id)
  BY <1>2 DEF OrderInv, HolderInv, LinesTyped, ActivePcs
<1>4. \A k \in DOMAIN deq_ : ~(deq_[k].id < str.id)
  BY <1>2 DEF OrderInv, QueueInv, LinesTyped
<1>5. {x \in HeldIds : x \in 1 .. MaxCalls /\ x < str.id /\ x # str.id} \subseteq {}
  BY <1>3, <1>4, Held
<1>6. IsFiniteSet({}) /\ Cardinality({}) <= InFlight
  BY FS_EmptySet, InFlightIsNat
<1> QED
  BY <1>1, <1>5, <1>6, WriteBehind DEF WriteTaken

LEMMA LoseBehind ==
  ASSUME LinesTyped, BehindInv, LoseLines
  PROVE  BehindInv'
<1>1. HeldIds' = {}
  BY LoseHeld
<1>2. /\ DOMAIN written' \subseteq DOMAIN written /\ DOMAIN written' = 1 .. Len(written')
      /\ Len(written') \in Nat /\ Len(written') <= Len(written)
      /\ \A i \in DOMAIN written' : written'[i] = written[i]
  BY DEF LoseLines, LinesTyped
<1>3. ASSUME NEW i \in DOMAIN written' PROVE i \in DOMAIN written /\ Behind(i)' \subseteq Behind(i)
  <2>1. \A j \in i + 1 .. Len(written') :
          j \in i + 1 .. Len(written) /\ written'[j] = written[j]
    BY <1>2, <1>3 DEF LinesTyped
  <2>2. written'[i] = written[i] /\ i \in DOMAIN written
    BY <1>2, <1>3
  <2> QED
    BY <1>1, <2>1, <2>2 DEF Behind
<1> QED
  BY <1>3, BehindKept DEF BehindInv

LEMMA NextBehind ==
  ASSUME CtlInv, OrderInv, BehindInv, LineStep
  PROVE  BehindInv'
<1>1. LinesTyped
  BY AreLinesTyped
<1>2. CASE QuietStep
  BY <1>2, QuietHeld, StillBehind DEF QuietStep
<1>3. ASSUME NEW w \in Writers, FormatLine(w) \/ QueueLine(w) \/ WriteOwnLine(w) \/ ReturnLine(w)
      PROVE  BehindInv'
  <2>1. CASE FormatLine(w)
    BY <1>1, <2>1, FormatBehind
  <2>2. CASE QueueLine(w)
    BY <1>1, <2>2, QueueHeld, StillBehind DEF QueueLine
  <2>3. CASE WriteOwnLine(w)
    BY <1>1, <2>3, WriteOwnBehind
  <2>4. CASE ReturnLine(w)
    BY <2>4, ReturnHeld, StillBehind DEF ReturnLine
  <2> QED
    BY <1>3, <2>1, <2>2, <2>3, <2>4
<1>4. CASE TakeLine
  BY <1>1, <1>4, TakeHeld, StillBehind DEF TakeLine
<1>5. CASE WriteTaken
  BY <1>1, <1>5, WriteTakenBehind
<1>6. CASE LoseLines
  BY <1>1, <1>6, LoseBehind
<1> QED
  BY <1>2, <1>3, <1>4, <1>5, <1>6 DEF LineStep

\* The lines that come later in the log are among those that are behind.
LEMMA OvertakenAreBehind ==
  ASSUME LinesTyped, SharedOK, WrittenInv, BehindInv, NEW i \in DOMAIN written
  PROVE  Cardinality({j \in i + 1 .. Len(written) : written[j].id < written[i].id}) <= InFlight
<1> DEFINE S == {j \in i + 1 .. Len(written) : written[j].id < written[i].id}
           f == [j \in S |-> written[j].id]
<1>1. S \subseteq DOMAIN written /\ DOMAIN written = 1 .. Len(written) /\ i \in Nat /\ Len(written) \in Nat
  BY DEF LinesTyped
<1>2. \A j \in DOMAIN written : written[j].id \in 1 .. MaxCalls
  <2>1. \A j \in DOMAIN written : written[j] \in Records
    BY <1>1 DEF SharedOK
  <2> QED
    BY <2>1 DEF Records
<1>3. f \in [S -> Behind(i)]
  BY <1>1, <1>2 DEF Behind
<1>4. \A j, k \in S : f[j] = f[k] => j = k
  <2> SUFFICES ASSUME NEW j \in S, NEW k \in S, j # k PROVE written[j].id # written[k].id
    OBVIOUS
  <2>1. j \in DOMAIN written /\ k \in DOMAIN written /\ (j < k \/ k < j)
    BY <1>1
  <2> QED
    BY <2>1 DEF WrittenInv
<1>5. f \in Injection(S, Behind(i))
  BY <1>3, <1>4 DEF Injection, IsInjective
<1>6. IsFiniteSet(S) /\ Cardinality(S) <= Cardinality(Behind(i))
  BY <1>5, BehindFinite, FS_Injection
<1>7. Cardinality(S) \in Nat /\ Cardinality(Behind(i)) <= InFlight
  BY <1>6, FS_CardinalityType DEF BehindInv
<1> QED
  BY <1>6, <1>7, BehindFinite, InFlightIsNat

\* The lines that went through the deque are in order in the log, those that were
\* written directly are, and a direct line overtakes no more than the deque and the
\* flusher hold, for any number of writers and any capacity.
THEOREM OvertakesFew == Spec => []OvertakeBounded
<1>1. Init => BehindInv
  BY DEF Init, BehindInv
<1>2. CtlInv /\ OrderInv /\ BehindInv /\ [Next]_vars => BehindInv'
  BY NextLineStep, NextBehind
<1>3. CtlInv /\ OrderInv /\ BehindInv => OvertakeBounded
  <2> SUFFICES ASSUME CtlInv, OrderInv, BehindInv PROVE OvertakeBounded
    OBVIOUS
  <2>1. LinesTyped /\ SharedOK /\ WrittenInv
    BY AreLinesTyped, TypeParts DEF CtlInv, TypeInv, OrderInv
  <2> QED
    BY <2>1, OvertakenAreBehind DEF OvertakeBounded, WrittenInv
<1> QED
  BY <1>1, <1>2, <1>3, AlwaysCtlInv, AlwaysOrder, PTL DEF Spec

-----------------------------------------------------------------------------
(***************************************************************************)
(* Lines on the disk.                                                      *)
(***************************************************************************)

\* A writer that is about to flush and has a closed file in hand got it from a
\* rotation, an exit or an init that has put all there was on the disk.
HandleStep ==
  \A v \in Writers : wr'[v].pc = "fflush" /\ wr'[v].handle # "open" =>
    \/ wr[v].pc = "fflush" /\ wr[v].handle # "open"
    \/ synced' = Len(written')

LEMMA WriterHandle ==
  ASSUME CtlInv, NEW w \in Writers, CallLog(w) \/ WriterStep(w)
  PROVE  HandleStep
<1>1. WritersOK /\ SharedOK /\ wr \in [Writers -> Locals]
  BY TypeParts DEF CtlInv, TypeInv, WritersOK
<1>2. CASE FlushLoad(w)
  <2>1. /\ wr'[w].handle # "open" => ~fp_.open
        /\ \A v \in Writers : v # w => wr'[v] = wr[v]
        /\ synced' = synced /\ written' = written
    BY <1>1, <1>2 DEF FlushLoad, Goto, Locals, diskVars
  <2> QED
    BY <2>1 DEF HandleStep, CtlInv, PhaseInv, OpenInv
<1>3. CASE RotateClose(w)
  BY <1>3 DEF RotateClose, FlushAndClose, HandleStep
<1>4. CASE ~FlushLoad(w) /\ ~RotateClose(w)
  <2>1. \A v \in Writers : v # w => wr'[v] = wr[v]
    BY <1>1, <1>4 DEF CallLog, WriterStep, RotateStep, Check, Relock, RotateTest, RotateDay,
       RotateZero, RotateOpen, Body, Format, Push, WriteDirectly, FlushNotify, Fflush, Goto
  <2>2. wr'[w].pc # "fflush"
    <3>1. CASE CallLog(w)
      BY <1>1, <3>1, PcMoves
    <3>2. CASE Check(w) \/ RotateStep(w)
      BY <1>1, <1>4, <3>2, PcMoves DEF RotateStep
    <3>3. CASE Body(w) \/ Format(w) \/ Push(w) \/ WriteDirectly(w) \/ FlushNotify(w) \/ Fflush(w)
      BY <1>1, <3>3, PcMoves, IdleIsLocal
    <3> QED
      BY <1>4, <3>1, <3>2, <3>3 DEF WriterStep
  <2> QED
    BY <2>1, <2>2 DEF HandleStep
<1> QED
  BY <1>2, <1>3, <1>4

LEMMA OthersHandle ==
  ASSUME CtlInv, OthersStep
  PROVE  HandleStep
<1>1. CASE wr' = wr
  BY <1>1 DEF HandleStep
<1>2. CASE InitFile
  <2>1. synced' = Len(written')
    BY <1>2 DEF InitFile, FlushAndClose, CtlInv, PhaseInv, OpenInv, diskVars
  <2> QED
    BY <2>1 DEF HandleStep
<1>3. CASE FinalClose
  BY <1>3 DEF FinalClose, FlushAndClose, HandleStep
<1> QED
  BY <1>1, <1>2, <1>3 DEF OthersStep, FlusherStep, FlusherTake, FlusherWait, FlusherExit,
     FlusherWrite, InitFields, SetLevel, BeginDestroy, DestroyStep, Drain, CloseDeque, Join,
     NextDay, Spurious, vars

LEMMA NextHandle ==
  ASSUME CtlInv, [Next]_vars
  PROVE  HandleStep
<1>1. CASE Crash
  <2>1. \A w \in Writers : wr'[w].pc = "idle"
    BY <1>1, CrashLineStep DEF LoseLines
  <2> QED
    BY <2>1 DEF HandleStep
<1> QED
  BY <1>1, NextSteps, WriterHandle, OthersHandle

LEMMA NextReturned ==
  ASSUME SharedOK, LinesTyped, OrderInv, ReturnedInv, LineStep
  PROVE  ReturnedInv'
<1>1. CASE /\ returned' = returned /\ nextId' = nextId
           /\ \A w \in Writers : wr'[w].pc \in ActivePcs =>
                wr[w].pc \in ActivePcs /\ wr'[w].line = wr[w].line
  BY <1>1 DEF ReturnedInv
<1>2. CASE QuietStep
  BY <1>1, <1>2 DEF QuietStep
<1>3. ASSUME NEW w \in Writers, FormatLine(w) PROVE ReturnedInv'
  <2>1. /\ wr'[w].line.id = nextId /\ nextId' = nextId + 1 /\ returned' = returned
        /\ \A v \in Writers : v # w => wr'[v].pc = wr[v].pc /\ wr'[v].line = wr[v].line
    BY <1>3 DEF FormatLine, OnlyWriter
  <2>2. /\ \A id \in returned : id < nextId
        /\ \A v \in Writers : wr[v].pc \in ActivePcs => wr[v].line.id < nextId
        /\ nextId \in Nat
    BY DEF ReturnedInv, OrderInv, NumbersInv, LinesTyped
  <2>3. \A id \in returned : id # nextId /\ id < nextId + 1
    <3> SUFFICES ASSUME NEW id \in returned PROVE id # nextId /\ id < nextId + 1
      OBVIOUS
    <3>1. id < nextId /\ id \in Nat
      BY <2>2 DEF SharedOK
    <3> QED
      BY <2>2, <3>1
  <2>4. \A v \in Writers : wr[v].pc \in ActivePcs => wr[v].line.id # nextId
    BY <2>2 DEF LinesTyped
  <2> QED
    BY <2>1, <2>3, <2>4 DEF ReturnedInv
<1>4. ASSUME NEW w \in Writers, QueueLine(w) \/ WriteOwnLine(w) PROVE ReturnedInv'
  BY <1>1, <1>4 DEF QueueLine, WriteOwnLine, OnlyWriter, ActivePcs, HoldingPcs
<1>5. ASSUME NEW w \in Writers, ReturnLine(w) PROVE ReturnedInv'
  <2>1. /\ wr[w].pc \in ActivePcs /\ wr'[w].pc \notin ActivePcs
        /\ returned' = returned \cup {wr[w].line.id} /\ nextId' = nextId
        /\ \A v \in Writers : v # w => wr'[v].pc = wr[v].pc /\ wr'[v].line = wr[v].line
    BY <1>5 DEF ReturnLine, OnlyWriter, ActivePcs, HoldingPcs
  <2>2. wr[w].line.id < nextId
    BY <2>1 DEF OrderInv, NumbersInv
  <2> QED
    BY <2>1, <2>2 DEF ReturnedInv
<1>6. CASE TakeLine \/ WriteTaken
  BY <1>1, <1>6 DEF TakeLine, WriteTaken
<1>7. CASE LoseLines
  BY <1>1, <1>7 DEF LoseLines, ActivePcs, HoldingPcs
<1> QED
  BY <1>2, <1>3, <1>4, <1>5, <1>6, <1>7 DEF LineStep

FlushingPcs == {"notify", "load", "fflush"}

\* Writer w has written line id, and will put it on the disk.
Coming(w, id) ==
  /\ wr[w].pc \in FlushingPcs /\ wr[w].line.id = id
  /\ wr[w].pc = "fflush" => wr[w].handle = "open"

LEMMA DurableMeans ==
  DurableInv <=>
    \A i, id : i \in DOMAIN written /\ written[i].id = id /\ written[i].by = "writer"
                 /\ synced < i => \E w \in Writers : Coming(w, id)
  BY DEF DurableInv, Coming, FlushingPcs

LEMMA DurableMeansNext ==
  DurableInv' <=>
    \A i, id : i \in DOMAIN written' /\ written'[i].id = id /\ written'[i].by = "writer"
                 /\ synced' < i => \E w \in Writers : Coming(w, id)'
  BY DEF DurableInv, Coming, FlushingPcs

LEMMA StillComing ==
  ASSUME HandleStep, synced' # Len(written'), NEW w \in Writers, NEW id, Coming(w, id),
         wr'[w].pc \in FlushingPcs, wr'[w].line = wr[w].line
  PROVE  Coming(w, id)'
  BY DEF HandleStep, Coming

LEMMA NextDurable ==
  ASSUME LinesTyped, DurableInv, LineStep, HandleStep
  PROVE  DurableInv'
<1> DEFINE Kept(w) == wr[w].pc \in FlushingPcs =>
             wr'[w].pc \in FlushingPcs /\ wr'[w].line = wr[w].line
           \* the lines of the log that were there before
           Old(i, id) == /\ i \in DOMAIN written /\ written[i].id = id
                         /\ written[i].by = "writer" /\ synced < i
           New(i, id) == /\ i \in DOMAIN written' /\ written'[i].id = id
                         /\ written'[i].by = "writer" /\ synced' < i
<1>0. DOMAIN written = 1 .. Len(written) /\ Len(written) \in Nat
  BY DEF LinesTyped
<1> SUFFICES ASSUME NEW i, NEW id, New(i, id) PROVE \E w \in Writers : Coming(w, id)'
  BY DurableMeansNext
<1>1. CASE synced' = Len(written') /\ DOMAIN written' = 1 .. Len(written') /\ Len(written') \in Nat
  BY <1>1
<1>2. ASSUME synced' # Len(written'), Old(i, id), \A w \in Writers : Kept(w)
      PROVE  \E w \in Writers : Coming(w, id)'
  <2>1. PICK w \in Writers : Coming(w, id)
    BY <1>2, DurableMeans
  <2> QED
    BY <1>2, <2>1, StillComing DEF Coming
<1>3. CASE written' = written /\ synced' \in {synced, Len(written)} /\ \A w \in Writers : Kept(w)
  BY <1>0, <1>1, <1>2, <1>3
<1>4. CASE QuietStep
  <2>1. \A w \in Writers : Kept(w)
    BY <1>4 DEF QuietStep, ActivePcs, HoldingPcs, FlushingPcs
  <2> QED
    BY <1>3, <1>4, <2>1 DEF QuietStep
<1>5. ASSUME NEW w \in Writers, FormatLine(w) \/ QueueLine(w)
      PROVE  \E v \in Writers : Coming(v, id)'
  <2>1. wr[w].pc \notin FlushingPcs /\ OnlyWriter(w)
    BY <1>5 DEF FormatLine, QueueLine, FlushingPcs
  <2>2. \A v \in Writers : Kept(v)
    BY <2>1 DEF OnlyWriter
  <2> QED
    BY <1>3, <1>5, <2>2 DEF FormatLine, QueueLine
<1>6. ASSUME NEW w \in Writers, WriteOwnLine(w)
      PROVE  \E v \in Writers : Coming(v, id)'
  <2>1. wr[w].pc \notin FlushingPcs /\ OnlyWriter(w) /\ wr'[w].pc = "notify"
    BY <1>6 DEF WriteOwnLine, FlushingPcs
  <2>2. \A v \in Writers : Kept(v)
    BY <2>1 DEF OnlyWriter
  <2>3. CASE i \in DOMAIN written
    <3>1. Old(i, id)
      BY <1>6, <2>3 DEF WriteOwnLine, WriteLine
    <3> QED
      BY <1>0, <1>1, <1>2, <1>6, <2>2, <3>1 DEF WriteOwnLine, WriteLine
  <2>4. CASE i \notin DOMAIN written
    <3>1. id = wr[w].line.id /\ wr'[w].line = wr[w].line
      BY <1>0, <1>6, <2>4 DEF WriteOwnLine, WriteLine
    <3> QED
      BY <2>1, <3>1 DEF Coming, FlushingPcs
  <2> QED
    BY <2>3, <2>4
<1>7. ASSUME NEW w \in Writers, ReturnLine(w)
      PROVE  \E v \in Writers : Coming(v, id)'
  <2>1. OnlyWriter(w) /\ written' = written /\ wr[w].pc = "fflush"
    BY <1>7 DEF ReturnLine
  <2>2. CASE wr[w].handle = "open"
    BY <1>0, <1>1, <1>7, <2>2 DEF ReturnLine
  <2>3. CASE wr[w].handle # "open"
    <3>1. synced' = synced /\ Old(i, id)
      BY <1>7, <2>3 DEF ReturnLine
    <3>2. PICK v \in Writers : Coming(v, id)
      BY <3>1, DurableMeans
    <3>3. v # w
      BY <2>1, <2>3, <3>2 DEF Coming
    <3>4. wr'[v].pc \in FlushingPcs /\ wr'[v].line = wr[v].line
      BY <2>1, <3>2, <3>3 DEF OnlyWriter, Coming
    <3> QED
      BY <1>0, <1>1, <2>1, <3>2, <3>4, StillComing
  <2> QED
    BY <2>2, <2>3
<1>8. CASE TakeLine
  BY <1>3, <1>8 DEF TakeLine
<1>9. CASE WriteTaken
  <2>1. Old(i, id) /\ \A w \in Writers : Kept(w)
    BY <1>0, <1>9 DEF WriteTaken, WriteLine
  <2> QED
    BY <1>0, <1>1, <1>2, <1>9, <2>1 DEF WriteTaken, WriteLine
<1>10. CASE LoseLines
  BY <1>0, <1>1, <1>10 DEF LoseLines
<1> QED
  BY <1>4, <1>5, <1>6, <1>7, <1>8, <1>9, <1>10 DEF LineStep

\* What a caller wrote itself is on the disk when its macro returns, whatever the
\* other writers rotate meanwhile and however often the process dies.
THEOREM DirectLinesDurable == Spec => []DirectDurable
<1>1. Init => ReturnedInv /\ DurableInv
  BY IdleIsLocal DEF Init, ProcessInit, ReturnedInv, DurableInv, ActivePcs, HoldingPcs
<1>2. CtlInv /\ OrderInv /\ ReturnedInv /\ DurableInv /\ [Next]_vars
        => ReturnedInv' /\ DurableInv'
  <2> SUFFICES ASSUME CtlInv, OrderInv, ReturnedInv, DurableInv, [Next]_vars
               PROVE  ReturnedInv' /\ DurableInv'
    OBVIOUS
  <2>1. LinesTyped /\ SharedOK /\ LineStep /\ HandleStep
    BY AreLinesTyped, NextLineStep, NextHandle, TypeParts DEF CtlInv, TypeInv
  <2> QED
    BY <2>1, NextReturned, NextDurable
<1>3. CtlInv /\ ReturnedInv /\ DurableInv => DirectDurable
  <2> SUFFICES ASSUME CtlInv, ReturnedInv, DurableInv, NEW i \in DOMAIN written,
                      written[i].by = "writer", written[i].id \in returned
               PROVE  i <= synced
    BY DEF DirectDurable
  <2>1. ~(synced < i)
    BY DEF ReturnedInv, DurableInv, ActivePcs, HoldingPcs
  <2>2. i \in Nat /\ synced \in Nat
    BY TypeParts DEF CtlInv, TypeInv, SharedOK
  <2> QED
    BY <2>1, <2>2
<1> QED
  BY <1>1, <1>2, <1>3, AlwaysCtlInv, AlwaysOrder, PTL DEF Spec

-----------------------------------------------------------------------------
(***************************************************************************)
(* No line is lost.                                                        *)
(***************************************************************************)
LEMMA WriteLineWritten ==
  ASSUME LinesTyped, NEW l, NEW by, WriteLine(l, by), NEW id
  PROVE  Written(id)' <=> Written(id) \/ id = l.id
<1> DEFINE last == Len(written) + 1
<1>1. /\ DOMAIN written' = DOMAIN written \cup {last}
      /\ \A i \in DOMAIN written : written'[i] = written[i]
      /\ written'[last].id = l.id
  BY DEF WriteLine, LinesTyped
<1> HIDE DEF last
<1> QED
  BY <1>1 DEF Written

LEMMA NextComplete ==
  ASSUME LinesTyped, OrderInv, CompleteInv, runs \in Nat \ {0}, LineStep
  PROVE  CompleteInv'
<1>1. CASE LoseLines
  BY <1>1 DEF LoseLines, CompleteInv
<1> SUFFICES ASSUME ~LoseLines, runs' = 1, NEW id \in 1 .. nextId' - 1
             PROVE  id \in HeldIds' \/ Written(id)'
  BY <1>1 DEF CompleteInv
<1>2. runs = 1
  BY DEF LineStep, QuietStep, FormatLine, QueueLine, WriteOwnLine, ReturnLine, TakeLine, WriteTaken
<1>3. nextId \in Nat /\ \A i \in 1 .. nextId - 1 : i \in HeldIds \/ Written(i)
  BY <1>2 DEF CompleteInv, LinesTyped
<1>4. CASE nextId' = nextId /\ HeldIds' = HeldIds /\ written' = written
  BY <1>3, <1>4 DEF Written
<1>5. CASE QuietStep
  BY <1>4, <1>5, QuietHeld DEF QuietStep
<1>6. ASSUME NEW w \in Writers, FormatLine(w) PROVE id \in HeldIds' \/ Written(id)'
  <2>1. HeldIds' = HeldIds \cup {nextId} /\ nextId' = nextId + 1 /\ written' = written
    BY <1>6, FormatHeld DEF FormatLine
  <2>2. id \in 1 .. nextId - 1 \/ id = nextId
    BY <1>3, <2>1
  <2> QED
    BY <1>3, <2>1, <2>2 DEF Written
<1>7. ASSUME NEW w \in Writers, QueueLine(w) \/ ReturnLine(w)
      PROVE  id \in HeldIds' \/ Written(id)'
  BY <1>4, <1>7, QueueHeld, ReturnHeld DEF QueueLine, ReturnLine
<1>8. ASSUME NEW l, NEW by, WriteLine(l, by), HeldIds' = HeldIds \ {l.id}, nextId' = nextId
      PROVE  id \in HeldIds' \/ Written(id)'
  BY <1>3, <1>8, WriteLineWritten
<1>9. ASSUME NEW w \in Writers, WriteOwnLine(w) PROVE id \in HeldIds' \/ Written(id)'
  BY <1>8, <1>9, WriteOwnHeld DEF WriteOwnLine
<1>10. CASE TakeLine
  BY <1>4, <1>10, TakeHeld DEF TakeLine
<1>11. CASE WriteTaken
  BY <1>8, <1>11, WriteTakenHeld DEF WriteTaken
<1> QED
  BY <1>5, <1>6, <1>7, <1>9, <1>10, <1>11 DEF LineStep

LEMMA AlwaysComplete == Spec => []CompleteInv
<1>1. Init => CompleteInv
  BY DEF Init, CompleteInv
<1>2. CtlInv /\ OrderInv /\ CompleteInv /\ [Next]_vars => CompleteInv'
  <2>1. CtlInv => runs \in Nat \ {0}
    BY TypeParts, Bounds DEF CtlInv, TypeInv, SharedOK
  <2> QED
    BY <2>1, AreLinesTyped, NextLineStep, NextComplete
<1> QED
  BY <1>1, <1>2, AlwaysCtlInv, AlwaysOrder, PTL DEF Spec

\* When ~Log has returned nothing is held, and all that was written is on the disk.
LEMMA DoneIsEmpty ==
  ASSUME CtlInv, owner = "done"
  PROVE  HeldIds = {} /\ synced = Len(written)
<1>1. deq_ = <<>> /\ flusher \in {"none", "exit"} /\ AllIdle /\ ~fp_.open
  BY DEF CtlInv, PhaseInv, DestroyPlaces
<1>2. \A w \in Writers : wr[w].pc \notin HoldingPcs
  BY <1>1, IdleIsLocal DEF AllIdle, HoldingPcs
<1>3. \A id : id \notin HeldIds
  BY <1>1, <1>2, Held
<1> QED
  BY <1>1, <1>3 DEF CtlInv, PhaseInv, OpenInv

\* A process that exits leaves no line behind: what its writers ever formatted is on
\* the disk when ~Log returns.
THEOREM ExitLosesNothing == Spec => []ExitKeepsLines
<1>1. CtlInv /\ CompleteInv => ExitKeepsLines
  <2> SUFFICES ASSUME CtlInv, CompleteInv, owner = "done", runs = 1, NEW id \in 1 .. nextId - 1
               PROVE  \E i \in 1 .. synced : written[i].id = id
    BY DEF ExitKeepsLines
  <2>1. HeldIds = {} /\ DOMAIN written = 1 .. synced
    BY DoneIsEmpty, AreLinesTyped DEF LinesTyped
  <2> QED
    BY <2>1 DEF CompleteInv, Written
<1> QED
  BY <1>1, AlwaysCtlInv, AlwaysComplete, PTL

-----------------------------------------------------------------------------
(***************************************************************************)
(* The log is a LogSink.                                                   *)
(***************************************************************************)

\* The log as LogSink sees it.
WrittenIds == [i \in DOMAIN written |-> written[i].id]

LEMMA WrittenIdsTyped ==
  ASSUME LinesTyped
  PROVE  /\ WrittenIds \in Seq(Nat) /\ Len(WrittenIds) = Len(written)
         /\ DOMAIN WrittenIds = 1 .. Len(written) /\ Len(written) \in Nat
         /\ \A i \in DOMAIN written : WrittenIds[i] = written[i].id
<1>1. WrittenIds \in [1 .. Len(written) -> Nat] /\ Len(written) \in Nat
  BY DEF WrittenIds, LinesTyped
<1>2. WrittenIds \in Seq(Nat)
  BY <1>1
<1> QED
  BY <1>1, <1>2 DEF WrittenIds, LinesTyped

\* Nothing happens to the lines, but that they may reach the disk.
LEMMA SinkStill ==
  ASSUME LinesTyped, written' = written, HeldIds' = HeldIds, nextId' = nextId,
         synced' \in {synced, Len(written)}
  PROVE  [Sink!Next]_(Sink!sinkVars)
<1>1. Len(WrittenIds) = Len(written) /\ WrittenIds' = WrittenIds
  BY WrittenIdsTyped DEF WrittenIds
<1> QED
  BY <1>1 DEF Sink!Next, Sink!Sync, Sink!sinkVars, WrittenIds

LEMMA SinkWrite ==
  ASSUME LinesTyped, NEW l, NEW by, WriteLine(l, by), l.id \in HeldIds, l.id \in 1 .. MaxCalls,
         HeldIds' = HeldIds \ {l.id}, nextId' = nextId
  PROVE  [Sink!Next]_(Sink!sinkVars)
<1>1. WrittenIds' = Append(WrittenIds, l.id)
  <2>1. /\ DOMAIN written' = 1 .. Len(written) + 1
        /\ \A i \in 1 .. Len(written) : written'[i].id = WrittenIds[i]
        /\ written'[Len(written) + 1].id = l.id
    BY WrittenIdsTyped DEF WriteLine, WrittenIds, LinesTyped
  <2>2. /\ DOMAIN WrittenIds' = 1 .. Len(written) + 1
        /\ \A i \in 1 .. Len(written) : WrittenIds'[i] = WrittenIds[i]
        /\ WrittenIds'[Len(written) + 1] = l.id
    BY <2>1, WrittenIdsTyped DEF WrittenIds
  <2>3. WrittenIds' = [i \in 1 .. Len(written) + 1 |-> WrittenIds'[i]]
    BY <2>2 DEF WrittenIds
  <2> DEFINE after == Append(WrittenIds, l.id)
  <2>4. /\ after = [i \in 1 .. Len(written) + 1 |-> after[i]]
        /\ \A i \in 1 .. Len(written) : after[i] = WrittenIds[i]
        /\ after[Len(written) + 1] = l.id
    <3>1. WrittenIds \in Seq(Nat) /\ l.id \in Nat /\ Len(WrittenIds) = Len(written)
      BY WrittenIdsTyped
    <3> HIDE DEF WrittenIds
    <3> QED
      BY <3>1
  <2>5. \A i \in 1 .. Len(written) + 1 : i \in 1 .. Len(written) \/ i = Len(written) + 1
    BY WrittenIdsTyped
  <2> HIDE DEF after
  <2>6. \A i \in 1 .. Len(written) + 1 : WrittenIds'[i] = after[i]
    BY <2>2, <2>4, <2>5
  <2>7. WrittenIds' = after
    BY <2>3, <2>4, <2>6
  <2> QED
    BY <2>7 DEF after
<1> QED
  BY <1>1 DEF Sink!Next, Sink!Write, WriteLine, WrittenIds

LEMMA SinkAccept ==
  ASSUME LinesTyped, NEW w \in Writers, FormatLine(w), nextId \in 1 .. MaxCalls
  PROVE  [Sink!Next]_(Sink!sinkVars)
<1>1. HeldIds' = HeldIds \cup {nextId}
  BY FormatHeld
<1>2. written' = written /\ synced' = synced /\ nextId' = nextId + 1
  BY DEF FormatLine
<1>3. nextId \notin 1 .. nextId - 1 /\ 1 .. nextId' - 1 = (1 .. nextId - 1) \cup {nextId}
  BY <1>2
<1>4. Sink!Accept(nextId)
  BY <1>1, <1>2, <1>3 DEF Sink!Accept
<1> QED
  BY <1>4 DEF Sink!Next

LEMMA SinkDie ==
  ASSUME LinesTyped, synced \in 0 .. Len(written), LoseLines
  PROVE  [Sink!Next]_(Sink!sinkVars)
<1>1. HeldIds' = {} /\ nextId' = nextId
  BY LoseHeld DEF LoseLines
<1>2. /\ synced' \in synced .. Len(WrittenIds) /\ synced' \in 0 .. Len(written)
      /\ DOMAIN written' = 1 .. synced' /\ synced' <= Len(written)
      /\ \A i \in 1 .. synced' : written'[i] = written[i] /\ i \in DOMAIN written
  BY WrittenIdsTyped DEF LoseLines, LinesTyped
<1>3. WrittenIds' = [i \in 1 .. synced' |-> WrittenIds[i]]
  BY <1>2 DEF WrittenIds
<1>4. SubSeq(WrittenIds, 1, synced') = [i \in 1 .. synced' |-> WrittenIds[i]]
  <2>1. synced' \in Nat /\ WrittenIds \in Seq(Nat)
    BY <1>2, WrittenIdsTyped
  <2> HIDE DEF WrittenIds
  <2> QED
    BY <2>1
<1>5. WrittenIds' = SubSeq(WrittenIds, 1, synced')
  BY <1>3, <1>4
<1>6. Sink!Die
  BY <1>1, <1>2, <1>5 DEF Sink!Die, WrittenIds
<1> QED
  BY <1>6 DEF Sink!Next

LEMMA SinkSteps ==
  ASSUME CtlInv, CtlInv', OrderInv, LineStep
  PROVE  [Sink!Next]_(Sink!sinkVars)
<1>1. LinesTyped /\ SharedOK /\ SharedOK' /\ synced \in 0 .. Len(written)
  BY AreLinesTyped, TypeParts, TypePartsNext DEF CtlInv, TypeInv, SharedOK
<1>2. nextId \in 1 .. MaxCalls + 1 /\ nextId' \in 1 .. MaxCalls + 1
  BY <1>1 DEF SharedOK
<1>3. \A id \in HeldIds : id \in 1 .. MaxCalls
  <2>1. \A l \in Lines : l.id \in 1 .. MaxCalls
    BY DEF Lines
  <2>2. \A i \in DOMAIN deq_ : deq_[i] \in Lines
    <3>1. deq_ \in Seq(Lines) /\ DOMAIN deq_ = 1 .. Len(deq_)
      BY <1>1 DEF SharedOK, LinesTyped
    <3> QED
      BY <3>1
  <2>3. /\ flusher = "write" => str \in Lines
        /\ \A w \in Writers : wr[w].pc \in HoldingPcs => wr[w].line \in Lines
    BY DEF CtlInv, TypeInv, LocalsInv, LocalsOf, ActivePcs
  <2> QED
    BY <2>1, <2>2, <2>3, Held
<1>4. CASE QuietStep
  BY <1>1, <1>4, QuietHeld, SinkStill DEF QuietStep
<1>5. ASSUME NEW w \in Writers, FormatLine(w) PROVE [Sink!Next]_(Sink!sinkVars)
  <2>1. nextId \in 1 .. MaxCalls
    BY <1>2, <1>5, Bounds DEF FormatLine
  <2> QED
    BY <1>1, <1>5, <2>1, SinkAccept
<1>6. ASSUME NEW w \in Writers, QueueLine(w) PROVE [Sink!Next]_(Sink!sinkVars)
  BY <1>1, <1>6, QueueHeld, SinkStill DEF QueueLine
<1>7. ASSUME NEW w \in Writers, WriteOwnLine(w) PROVE [Sink!Next]_(Sink!sinkVars)
  BY <1>1, <1>3, <1>7, WriteOwnHeld, SinkWrite DEF WriteOwnLine
<1>8. ASSUME NEW w \in Writers, ReturnLine(w) PROVE [Sink!Next]_(Sink!sinkVars)
  BY <1>1, <1>8, ReturnHeld, SinkStill DEF ReturnLine
<1>9. CASE TakeLine
  BY <1>1, <1>9, TakeHeld, SinkStill DEF TakeLine
<1>10. CASE WriteTaken
  BY <1>1, <1>3, <1>10, WriteTakenHeld, SinkWrite DEF WriteTaken
<1>11. CASE LoseLines
  BY <1>1, <1>11, SinkDie
<1> QED
  BY <1>4, <1>5, <1>6, <1>7, <1>8, <1>9, <1>10, <1>11 DEF LineStep

LEMMA SinkInit ==
  ASSUME Init
  PROVE  Sink!Init
<1>1. \A id : id \notin HeldIds
  BY Held, IdleIsLocal DEF Init, ProcessInit, Q!DequeInit, HoldingPcs
<1> QED
  BY <1>1 DEF Init, Sink!Init

\* The logger implements a LogSink: each line that is formatted is given to stdio
\* once or lost with its process, the log only grows, and what is on the disk stays.
THEOREM ImplementsLogSink == Spec => ImplementsSink
<1>1. Init => Sink!Init
  BY SinkInit
<1>2. CtlInv /\ OrderInv /\ [Next]_vars => [Sink!Next]_(Sink!sinkVars)
  BY NextCtlInv, NextLineStep, SinkSteps
<1> QED
  BY <1>1, <1>2, AlwaysCtlInv, AlwaysOrder, PTL DEF Spec, ImplementsSink, Sink!Spec
=============================================================================
