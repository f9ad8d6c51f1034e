------------------------------ MODULE LogProofs ------------------------------
(***************************************************************************)
(* Proofs about Log, for any writers, capacity, modes and bounds.          *)
(***************************************************************************)
EXTENDS Log, FiniteSetTheorems, SequenceTheorems, TLAPS

-----------------------------------------------------------------------------
(***************************************************************************)
(* The inductive invariant, in three parts.                                *)
(***************************************************************************)
Pcs == {"idle", "check", "relock", "test", "day", "zero", "close", "body",
        "notify", "load", "fflush"} \cup Critical

Locals == [pc : Pcs, day : 0 .. MaxDay, file : Files \cup {NoFile}, count : 0 .. MaxCalls,
           line : Lines \cup {NoLine}, handle : {"none", "open", "closed"}]

EnteringPcs == {"check", "relock", "test", "day", "zero", "close", "open", "body", "format"}
RotatingPcs == {"day", "zero", "close", "open"}

\* The writer has formatted its line, and has not yet passed it on.
HoldingPcs == {"push", "fputs"}

\* The writer has formatted its line, and the macro has not returned.
ActivePcs == HoldingPcs \cup {"notify", "load", "fflush"}

\* The locals are those that the place calls for.
LocalsOf(r) ==
  /\ r.pc \in EnteringPcs => r.day \in 1 .. MaxDay
  /\ r.pc \in RotatingPcs => r.file \in Files
  /\ r.pc \in ActivePcs => r.line \in Lines
  /\ r.pc = "format" => r.count < nextId

\* The values in hand have their types where they are used, and the numbers of the
\* lines still to be formatted suffice for the calls that are under way.
LocalsInv ==
  /\ \A w \in Writers : LocalsOf(wr[w])
  /\ lineCount_ < nextId
  /\ nextId + Cardinality(Entering) <= MaxCalls + 1
  /\ fp_.open => fp_.name \in Files
  /\ flusher = "write" => str \in Lines
  /\ owner = "init" => initDay \in 1 .. MaxDay

TypeInv == TypeOK /\ LocalsInv

DestroyPlaces == {"close", "wake producers", "wake consumers", "join", "final", "done"}

\* A file that is closed is about to be opened by a writer, or nobody has a line.
OpenInv ==
  ~fp_.open =>
    /\ synced = Len(written)
    /\ \/ \E w \in Writers : wr[w].pc = "open"
       \/ owner \in {"boot", "init"} /\ deq_ = <<>> /\ flusher # "write"
       \/ owner = "done"

\* Who runs when: the writers only while the log is open, the flusher once it was
\* started, until ~Log has ended it.
PhaseInv ==
  /\ owner # "run" => AllIdle
  /\ owner = "boot" => flusher = "none"
  /\ flusher = "none" => deq_ = <<>> /\ ~isAsync_
  /\ flusher # "none" => TRUE \in Modes
  /\ flusher = "exit" => isClose_
  /\ isClose_ => owner \in DestroyPlaces \ {"close"}
  /\ owner \in DestroyPlaces => deq_ = <<>>
  /\ owner \in {"final", "done"} => flusher \in {"none", "exit"}
  /\ owner = "done" => ~fp_.open
  /\ \A w \in Writers : wr[w].pc = "push" => isAsync_ /\ ~Q!full
  /\ OpenInv

-----------------------------------------------------------------------------
(***************************************************************************)
(* Type correctness.                                                       *)
(***************************************************************************)
WritersOK ==
  /\ wr \in [Writers -> Locals]
  /\ mtx_ \in Writers \cup {NoOne}
  /\ \A w \in Writers : mtx_ = w <=> wr[w].pc \in Critical

Owners == {"boot", "init", "run", "drain"} \cup DestroyPlaces
Records == [id : 1 .. MaxCalls, day : 1 .. MaxDay, by : {"writer", "flusher"},
            file : Files \cup {NoFile}]

\* The types of what a writer has not to itself.
SharedOK ==
  /\ deq_ \in Seq(Lines) /\ Len(deq_) <= QueueCapacity
  /\ isClose_ \in BOOLEAN
  /\ thr \in [Writers \cup {Flusher} -> {"out", "waiting", "woken"}]
  /\ isAsync_ \in BOOLEAN
  /\ level_ \in {0} \cup Settings
  /\ lineCount_ \in 0 .. MaxCalls
  /\ toDay_ \in 0 .. 31
  /\ fp_ \in [name : Files \cup {NoFile}, open : BOOLEAN]
  /\ flusher \in {"none", "pop", "write", "exit"}
  /\ str \in Lines \cup {NoLine}
  /\ owner \in Owners
  /\ inits \in 0 .. MaxInits
  /\ initDay \in 0 .. MaxDay
  /\ runs \in 1 .. MaxRuns
  /\ day \in 1 .. MaxDay
  /\ written \in Seq(Records) /\ synced \in 0 .. Len(written)
  /\ nextId \in 1 .. MaxCalls + 1
  /\ returned \subseteq 1 .. MaxCalls

LEMMA TypeParts == TypeOK <=> WritersOK /\ SharedOK
  BY DEF TypeOK, Locals, Pcs, DestroyPlaces, Owners, Records, WritersOK, SharedOK

LEMMA TypePartsNext == TypeOK' <=> WritersOK' /\ SharedOK'
  BY DEF TypeOK, Locals, Pcs, DestroyPlaces, Owners, Records, WritersOK, SharedOK

\* A step of one writer, within mtx_ or without, or locking or unlocking it.
LEMMA WriterMoves ==
  ASSUME WritersOK, NEW w \in Writers, NEW from, NEW next \in Locals, Goto(w, from, next)
  PROVE  /\ wr[w].pc = from
         /\ wr' \in [Writers -> Locals]
         /\ wr'[w] = next
         /\ \A v \in Writers : v # w => wr'[v] = wr[v]
  BY DEF WritersOK, Goto

LEMMA WriterMoveOK ==
  ASSUME WritersOK, NEW w \in Writers, NEW from, NEW next \in Locals, Goto(w, from, next),
         \/ mtx_' = mtx_ /\ (from \in Critical <=> next.pc \in Critical)
         \/ mtx_ = NoOne /\ mtx_' = w /\ next.pc \in Critical
         \/ from \in Critical /\ mtx_' = NoOne /\ next.pc \notin Critical
  PROVE  WritersOK'
<1>1. /\ wr[w].pc = from
      /\ wr' \in [Writers -> Locals]
      /\ wr'[w] = next
      /\ \A v \in Writers : v # w => wr'[v] = wr[v]
  BY WriterMoves
<1> QED
  BY <1>1, LogAssumption DEF WritersOK, NoOne

LEMMA PcOnly ==
  ASSUME NEW r \in Locals, NEW p \in Pcs
  PROVE  /\ [r EXCEPT !.pc = p] \in Locals
         /\ [r EXCEPT !.pc = p].pc = p
         /\ [r EXCEPT !.pc = p].day = r.day
         /\ [r EXCEPT !.pc = p].file = r.file
         /\ [r EXCEPT !.pc = p].count = r.count
         /\ [r EXCEPT !.pc = p].line = r.line
         /\ [r EXCEPT !.pc = p].handle = r.handle
  BY DEF Locals

LEMMA Bounds ==
  /\ QueueCapacity \in Nat \ {0} /\ MaxLines \in Nat \ {0}
  /\ MaxDay \in Nat \ {0} /\ MaxInits \in Nat \ {0} /\ MaxRuns \in Nat \ {0}
  /\ MaxCalls \in Nat
  BY LogAssumption

LEMMA IdleIsLocal ==
  /\ Idle \in Locals
  /\ Idle.pc = "idle" /\ Idle.handle = "none"
<1>1. 0 \in 0 .. MaxDay /\ 0 \in 0 .. MaxCalls
  BY Bounds
<1> QED
  BY <1>1 DEF Idle, Locals, Pcs

\* What toDay_ is set to is a day of the month.
LEMMA MdayTyped == \A d \in 1 .. MaxDay : Mday[d] \in 0 .. 31 /\ d \in 0 .. MaxDay
<1>1. Mday \in [1 .. MaxDay -> 1 .. 31] /\ MaxDay \in Nat
  BY LogAssumption
<1> QED
  BY <1>1

\* The part of a file's name is a natural number.
LEMMA QuotientBound ==
  ASSUME NEW a \in Nat, NEW b \in Nat \ {0}
  PROVE  a \div b \in 0 .. a
  OBVIOUS

LEMMA NewFileIsFile ==
  ASSUME TypeInv, NEW w \in Writers, wr[w].day \in 1 .. MaxDay
  PROVE  NewFile(w) \in Files
<1>1. lineCount_ \in 0 .. MaxCalls /\ MaxLines \in Nat \ {0}
  BY TypeParts, LogAssumption DEF TypeInv, SharedOK
<1>2. lineCount_ \div MaxLines \in 0 .. lineCount_
  BY <1>1, QuotientBound
<1>3. lineCount_ \div MaxLines \in 0 .. MaxCalls
  BY <1>1, <1>2, LogAssumption
<1> QED
  BY <1>3 DEF NewFile, Files

\* The writers that are entering the macro are finitely many.
LEMMA EnteringFinite == IsFiniteSet(Entering) /\ Cardinality(Entering) \in Nat
<1>1. Entering \subseteq Writers
  BY DEF Entering
<1> QED
  BY <1>1, FS_Subset, FS_CardinalityType, LogAssumption

\* While a call is under way the number of the next line is within the bound.
LEMMA FormatsWithinBound ==
  ASSUME TypeInv, NEW w \in Writers, wr[w].pc \in EnteringPcs
  PROVE  nextId \in 1 .. MaxCalls
<1>1. w \in Entering /\ IsFiniteSet(Entering)
  BY EnteringFinite DEF Entering, EnteringPcs
<1>2. Cardinality(Entering) \in Nat /\ Cardinality(Entering) # 0
  BY <1>1, FS_CardinalityType, FS_EmptySet
<1>3. nextId + Cardinality(Entering) <= MaxCalls + 1
  BY DEF TypeInv, LocalsInv
<1>4. nextId \in 1 .. MaxCalls + 1 /\ MaxCalls \in Nat
  BY TypeParts, Bounds DEF TypeInv, SharedOK
<1> QED
  BY <1>2, <1>3, <1>4

LEMMA FormatTypes ==
  ASSUME TypeInv, NEW w \in Writers, Format(w)
  PROVE  /\ WritersOK'
         /\ wr'[w].line = [id |-> nextId, day |-> wr[w].day]
         /\ wr'[w].line \in Lines
<1> DEFINE line == [id |-> nextId, day |-> wr[w].day]
           next == [Idle EXCEPT !.pc = IF Queueing THEN "push" ELSE "fputs", !.line = line]
<1>1. WritersOK /\ wr[w] \in Locals /\ wr[w].pc = "format" /\ LocalsOf(wr[w])
  BY TypeParts DEF TypeInv, WritersOK, Format, Goto, LocalsInv
<1>2. line \in Lines
  BY <1>1, FormatsWithinBound DEF Lines, LocalsOf, EnteringPcs
<1>3. next \in Locals /\ next.pc \in HoldingPcs /\ next.line = line
  <2> HIDE DEF line
  <2>1. {"push", "fputs"} \subseteq Pcs
    BY DEF Pcs, Critical
  <2> QED
    BY <1>2, <2>1, IdleIsLocal DEF Locals, HoldingPcs, Idle
<1>4. Goto(w, "format", next) /\ mtx_' = mtx_
  BY DEF Format
<1> HIDE DEF next
<1>5. WritersOK'
  BY <1>1, <1>3, <1>4, WriterMoveOK DEF Critical, HoldingPcs
<1> QED
  BY <1>1, <1>2, <1>3, <1>4, <1>5, WriterMoves

LEMMA RotateCloseTypes ==
  ASSUME TypeInv, NEW w \in Writers, RotateClose(w)
  PROVE  WritersOK'
<1>1. WritersOK /\ wr[w].pc = "close" /\ mtx_ = NoOne /\ mtx_' = w
  BY TypeParts DEF TypeInv, RotateClose, Free
<1>2. Dangling \in [Writers -> Locals] /\ \A v \in Writers : Dangling[v].pc = wr[v].pc
  BY <1>1 DEF Dangling, WritersOK, Locals
<1>3. "open" \in Pcs
  BY DEF Pcs, Critical
<1>4. wr' = [Dangling EXCEPT ![w] = [Dangling[w] EXCEPT !.pc = "open"]]
  BY <1>2 DEF RotateClose
<1>5. [Dangling[w] EXCEPT !.pc = "open"] \in Locals /\ [Dangling[w] EXCEPT !.pc = "open"].pc = "open"
  BY <1>2, <1>3, PcOnly
<1>6. /\ wr' \in [Writers -> Locals] /\ wr'[w].pc = "open"
      /\ \A v \in Writers : v # w => wr'[v].pc = wr[v].pc
  BY <1>2, <1>4, <1>5
<1> QED
  BY <1>1, <1>6, LogAssumption DEF WritersOK, NoOne, Critical

\* A writer's step leaves it with locals of their types, and it holds mtx_ where
\* the code does.
LEMMA WriterTypes ==
  ASSUME TypeInv, NEW w \in Writers, CallLog(w) \/ WriterStep(w)
  PROVE  WritersOK'
<1>1. WritersOK /\ SharedOK /\ wr[w] \in Locals /\ LocalsOf(wr[w])
  BY TypeParts DEF TypeInv, WritersOK, LocalsInv
<1> USE DEF Critical
<1>2. CASE CallLog(w)
  <2> DEFINE next == [Idle EXCEPT !.pc = "check", !.day = day]
  <2>1. day \in 0 .. MaxDay
    BY <1>1 DEF SharedOK
  <2>2. next \in Locals /\ next.pc = "check"
    BY <2>1, IdleIsLocal DEF Locals, Pcs, Idle
  <2>3. Goto(w, "idle", next) /\ mtx_' = mtx_
    BY <1>2 DEF CallLog
  <2> QED
    BY <1>1, <2>2, <2>3, WriterMoveOK
<1>3. CASE Check(w)
  <2> DEFINE next == [wr[w] EXCEPT !.pc = IF MustRotate(w) THEN "relock" ELSE "body"]
  <2>1. next \in Locals /\ next.pc \in {"relock", "body"}
    BY <1>1 DEF Locals, Pcs
  <2>2. Goto(w, "check", next) /\ mtx_' = mtx_
    BY <1>3 DEF Check
  <2> QED
    BY <1>1, <2>1, <2>2, WriterMoveOK
<1>4. CASE Relock(w)
  <2> DEFINE next == [wr[w] EXCEPT !.pc = "test"]
  <2>1. next \in Locals /\ next.pc = "test"
    BY <1>1, PcOnly DEF Pcs
  <2>2. Goto(w, "relock", next) /\ mtx_' = mtx_
    BY <1>4 DEF Relock
  <2> QED
    BY <1>1, <2>1, <2>2, WriterMoveOK
<1>5. CASE RotateTest(w)
  <2> DEFINE next == [wr[w] EXCEPT !.pc = IF AnotherDay(w) THEN "day" ELSE "close",
                                   !.file = NewFile(w)]
  <2>1. wr[w].day \in 1 .. MaxDay
    BY <1>1, <1>5 DEF RotateTest, Goto, LocalsOf, EnteringPcs
  <2>2. NewFile(w) \in Files
    BY <2>1, NewFileIsFile
  <2>3. next \in Locals /\ next.pc \in {"day", "close"}
    BY <1>1, <2>2 DEF Locals, Pcs
  <2>4. Goto(w, "test", next) /\ mtx_' = mtx_
    BY <1>5 DEF RotateTest
  <2> QED
    BY <1>1, <2>3, <2>4, WriterMoveOK
<1>6. CASE RotateDay(w)
  <2> DEFINE next == [wr[w] EXCEPT !.pc = "zero"]
  <2>1. next \in Locals /\ next.pc = "zero"
    BY <1>1, PcOnly DEF Pcs
  <2>2. Goto(w, "day", next) /\ mtx_' = mtx_
    BY <1>6 DEF RotateDay
  <2> QED
    BY <1>1, <2>1, <2>2, WriterMoveOK
<1>7. CASE RotateZero(w)
  <2> DEFINE next == [wr[w] EXCEPT !.pc = "close"]
  <2>1. next \in Locals /\ next.pc = "close"
    BY <1>1, PcOnly DEF Pcs
  <2>2. Goto(w, "zero", next) /\ mtx_' = mtx_
    BY <1>7 DEF RotateZero
  <2> QED
    BY <1>1, <2>1, <2>2, WriterMoveOK
<1>8. CASE RotateOpen(w)
  <2> DEFINE next == [wr[w] EXCEPT !.pc = "body", !.file = NoFile]
  <2>1. next \in Locals /\ next.pc = "body"
    BY <1>1 DEF Locals, Pcs
  <2>2. Goto(w, "open", next) /\ mtx_' = NoOne
    BY <1>8 DEF RotateOpen
  <2> QED
    BY <1>1, <2>1, <2>2, WriterMoveOK
<1>9. CASE Body(w)
  <2> DEFINE next == [wr[w] EXCEPT !.pc = "format", !.count = lineCount_]
  <2>1. lineCount_ \in 0 .. MaxCalls
    BY <1>1 DEF SharedOK
  <2>2. next \in Locals /\ next.pc = "format"
    BY <1>1, <2>1 DEF Locals, Pcs
  <2>3. Goto(w, "body", next) /\ mtx_ = NoOne /\ mtx_' = w
    BY <1>9 DEF Body, Free
  <2> QED
    BY <1>1, <2>2, <2>3, WriterMoveOK
<1>10. CASE Push(w) \/ WriteDirectly(w)
  <2> DEFINE next == [wr[w] EXCEPT !.pc = "notify"]
  <2>1. next \in Locals /\ next.pc = "notify"
    BY <1>1, PcOnly DEF Pcs
  <2>2. PICK from \in {"push", "fputs"} : Goto(w, from, next) /\ mtx_' = NoOne
    BY <1>10 DEF Push, WriteDirectly
  <2> QED
    BY <1>1, <2>1, <2>2, WriterMoveOK
<1>11. CASE FlushNotify(w)
  <2> DEFINE next == [wr[w] EXCEPT !.pc = "load"]
  <2>1. next \in Locals /\ next.pc = "load"
    BY <1>1, PcOnly DEF Pcs
  <2>2. Goto(w, "notify", next) /\ mtx_' = mtx_
    BY <1>11 DEF FlushNotify
  <2> QED
    BY <1>1, <2>1, <2>2, WriterMoveOK
<1>12. CASE FlushLoad(w)
  <2> DEFINE next == [wr[w] EXCEPT !.pc = "fflush",
                                   !.handle = IF fp_.open THEN "open" ELSE "closed"]
  <2>1. next \in Locals /\ next.pc = "fflush"
    BY <1>1 DEF Locals, Pcs
  <2>2. Goto(w, "load", next) /\ mtx_' = mtx_
    BY <1>12 DEF FlushLoad
  <2> QED
    BY <1>1, <2>1, <2>2, WriterMoveOK
<1>13. CASE Fflush(w)
  <2>1. Goto(w, "fflush", Idle) /\ mtx_' = mtx_
    BY <1>13 DEF Fflush
  <2> QED
    BY <1>1, <2>1, IdleIsLocal, WriterMoveOK
<1> QED
  BY <1>2, <1>3, <1>4, <1>5, <1>6, <1>7, <1>8, <1>9, <1>10, <1>11, <1>12, <1>13,
     FormatTypes, RotateCloseTypes DEF WriterStep, RotateStep

\* A notification wakes threads and changes nothing else.
LEMMA NotifyTypes ==
  ASSUME SharedOK, NotifyFlusher
  PROVE  /\ thr' \in [Writers \cup {Flusher} -> {"out", "waiting", "woken"}]
         /\ UNCHANGED <<deq_, isClose_>>
<1>1. CASE isAsync_
  <2>1. PICK W \in Q!NotifyOne({Flusher}) : thr' = Q!Wake(W)
    BY <1>1 DEF NotifyFlusher, Q!flush
  <2> QED
    BY <1>1, <2>1 DEF NotifyFlusher, Q!flush, Q!Wake, Q!Threads, SharedOK
<1>2. CASE ~isAsync_
  BY <1>2 DEF NotifyFlusher, dequeVars, SharedOK
<1> QED
  BY <1>1, <1>2

\* The log after an fputs.
LEMMA FputsTypes ==
  ASSUME SharedOK, NEW l \in Lines, NEW by \in {"writer", "flusher"}, Fputs(l, by)
  PROVE  /\ written' \in Seq(Records) /\ synced' \in 0 .. Len(written')
         /\ Len(written') = Len(written) + 1
         /\ \A i \in 1 .. Len(written) : written'[i] = written[i]
         /\ written'[Len(written) + 1] =
              [id |-> l.id, day |-> l.day, by |-> by,
               file |-> IF fp_.open THEN fp_.name ELSE NoFile]
<1> DEFINE record == [id |-> l.id, day |-> l.day, by |-> by,
                      file |-> IF fp_.open THEN fp_.name ELSE NoFile]
<1>1. (IF fp_.open THEN fp_.name ELSE NoFile) \in Files \cup {NoFile}
  BY DEF SharedOK
<1>2. l.id \in 1 .. MaxCalls /\ l.day \in 1 .. MaxDay
  BY DEF Lines
<1>3. record \in Records
  BY <1>1, <1>2 DEF Records
<1>4. written' = Append(written, record) /\ synced' = synced
  BY DEF Fputs
<1> HIDE DEF record
<1>5. /\ written' \in Seq(Records)
      /\ Len(written') = Len(written) + 1
      /\ \A i \in 1 .. Len(written) : written'[i] = written[i]
      /\ written'[Len(written) + 1] = record
  BY <1>3, <1>4 DEF SharedOK
<1> QED
  BY <1>4, <1>5 DEF SharedOK, record

\* A writer's step leaves the rest with its types.
LEMMA WriterSharedTypes ==
  ASSUME TypeInv, NEW w \in Writers, CallLog(w) \/ WriterStep(w)
  PROVE  SharedOK'
<1>1. WritersOK /\ SharedOK /\ wr[w] \in Locals /\ LocalsOf(wr[w])
  BY TypeParts DEF TypeInv, WritersOK, LocalsInv
<1> USE DEF sharedVars, diskVars, otherVars, historyVars, ownerVars, flusherVars
<1>2. CASE CallLog(w) \/ Check(w) \/ Relock(w) \/ RotateTest(w) \/ Body(w) \/ FlushLoad(w)
  BY <1>1, <1>2 DEF CallLog, Check, Relock, RotateTest, Body, FlushLoad, SharedOK, dequeVars
<1>3. CASE RotateDay(w)
  <2>1. wr[w].day \in 1 .. MaxDay /\ toDay_' = Mday[wr[w].day]
    BY <1>1, <1>3 DEF RotateDay, Goto, LocalsOf, EnteringPcs
  <2>2. toDay_' \in 0 .. 31
    BY <2>1, MdayTyped
  <2> QED
    BY <1>1, <1>3, <2>2 DEF RotateDay, SharedOK, dequeVars
<1>4. CASE RotateZero(w)
  BY <1>1, <1>4, Bounds DEF RotateZero, SharedOK, dequeVars
<1>5. CASE RotateClose(w)
  <2>1. NotifyFlusher /\ synced' = Len(written) /\ UNCHANGED written
    BY <1>5 DEF RotateClose, FlushAndClose
  <2>2. fp_' \in [name : Files \cup {NoFile}, open : BOOLEAN]
    BY <1>1, <1>5 DEF RotateClose, SharedOK
  <2> QED
    BY <1>1, <1>5, <2>1, <2>2, NotifyTypes DEF RotateClose, SharedOK
<1>6. CASE RotateOpen(w)
  <2>1. wr[w].file \in Files \cup {NoFile}
    BY <1>1 DEF Locals
  <2>2. fp_' \in [name : Files \cup {NoFile}, open : BOOLEAN]
    BY <1>6, <2>1 DEF RotateOpen
  <2> QED
    BY <1>1, <1>6, <2>2 DEF RotateOpen, SharedOK, dequeVars
<1>7. CASE Format(w)
  <2>1. wr[w].pc = "format"
    BY <1>7 DEF Format, Goto
  <2>2. wr[w].count < nextId /\ wr[w].count \in Nat
    BY <1>1, <2>1 DEF LocalsOf, Locals
  <2>3. nextId \in 1 .. MaxCalls
    BY <2>1, FormatsWithinBound DEF EnteringPcs
  <2>4. lineCount_' \in 0 .. MaxCalls /\ nextId' \in 1 .. MaxCalls + 1
    BY <1>7, <2>2, <2>3, Bounds DEF Format
  <2> QED
    BY <1>1, <1>7, <2>4 DEF Format, SharedOK, dequeVars
<1>8. CASE Push(w)
  <2>1. wr[w].line \in Lines
    BY <1>1, <1>8 DEF LocalsOf, ActivePcs, HoldingPcs, Push, Goto
  <2>2. deq_' = Append(deq_, wr[w].line) /\ Len(deq_) < QueueCapacity /\ isClose_' = isClose_
    BY <1>1, <1>8, Bounds DEF Push, Q!push_back, Q!Insert, Q!full, SharedOK
  <2>3. thr' \in [Writers \cup {Flusher} -> {"out", "waiting", "woken"}]
    BY <1>1, <1>8 DEF Push, Q!push_back, Q!Insert, Q!Wake, Q!Threads, SharedOK
  <2>4. deq_' \in Seq(Lines) /\ Len(deq_') <= QueueCapacity
    BY <1>1, <2>1, <2>2, Bounds DEF SharedOK
  <2> QED
    BY <1>1, <1>8, <2>2, <2>3, <2>4 DEF Push, SharedOK
<1>9. CASE WriteDirectly(w)
  <2>1. wr[w].line \in Lines
    BY <1>1, <1>9 DEF LocalsOf, ActivePcs, HoldingPcs, WriteDirectly, Goto
  <2>2. written' \in Seq(Records) /\ synced' \in 0 .. Len(written')
    BY <1>1, <1>9, <2>1, FputsTypes DEF WriteDirectly
  <2> QED
    BY <1>1, <1>9, <2>2 DEF WriteDirectly, SharedOK, dequeVars
<1>10. CASE FlushNotify(w)
  BY <1>1, <1>10, NotifyTypes DEF FlushNotify, SharedOK
<1>11. CASE Fflush(w)
  <2>1. wr[w].line.id \in 1 .. MaxCalls
    BY <1>1, <1>11 DEF LocalsOf, ActivePcs, Fflush, Goto, Lines
  <2>2. returned' \subseteq 1 .. MaxCalls
    BY <1>1, <1>11, <2>1 DEF Fflush, SharedOK
  <2>3. synced' \in 0 .. Len(written')
    BY <1>1, <1>11 DEF Fflush, SharedOK
  <2> QED
    BY <1>1, <1>11, <2>2, <2>3 DEF Fflush, SharedOK, dequeVars
<1> QED
  BY <1>2, <1>3, <1>4, <1>5, <1>6, <1>7, <1>8, <1>9, <1>10, <1>11 DEF WriterStep, RotateStep

\* They are the same after a step that does not cross the boundary.
LEMMA EnteringSame ==
  ASSUME \A v \in Writers : wr'[v].pc \in EnteringPcs <=> wr[v].pc \in EnteringPcs
  PROVE  Entering' = Entering
  BY DEF Entering, EnteringPcs

\* Where each action of the macro takes its writer.
LEMMA PcMoves ==
  ASSUME wr \in [Writers -> Locals], NEW w \in Writers
  PROVE  /\ CallLog(w) => wr[w].pc = "idle" /\ wr'[w].pc = "check"
         /\ Check(w) => wr[w].pc = "check" /\ wr'[w].pc \in {"relock", "body"}
         /\ Relock(w) => wr[w].pc = "relock" /\ wr'[w].pc = "test"
         /\ RotateTest(w) => wr[w].pc = "test" /\ wr'[w].pc \in {"day", "close"}
         /\ RotateDay(w) => wr[w].pc = "day" /\ wr'[w].pc = "zero"
         /\ RotateZero(w) => wr[w].pc = "zero" /\ wr'[w].pc = "close"
         /\ RotateClose(w) => wr[w].pc = "close" /\ wr'[w].pc = "open"
         /\ RotateOpen(w) => wr[w].pc = "open" /\ wr'[w].pc = "body"
         /\ Body(w) => wr[w].pc = "body" /\ wr'[w].pc = "format"
         /\ Format(w) => wr[w].pc = "format" /\ wr'[w].pc = IF Queueing THEN "push" ELSE "fputs"
         /\ Push(w) => wr[w].pc = "push" /\ wr'[w].pc = "notify" /\ wr'[w].line = wr[w].line
         /\ WriteDirectly(w) =>
              wr[w].pc = "fputs" /\ wr'[w].pc = "notify" /\ wr'[w].line = wr[w].line
         /\ FlushNotify(w) =>
              wr[w].pc = "notify" /\ wr'[w].pc = "load" /\ wr'[w].line = wr[w].line
         /\ FlushLoad(w) =>
              wr[w].pc = "load" /\ wr'[w].pc = "fflush" /\ wr'[w].line = wr[w].line
         /\ Fflush(w) => wr[w].pc = "fflush" /\ wr'[w] = Idle
<1> USE DEF Goto, Locals
<1>1. CallLog(w) => wr[w].pc = "idle" /\ wr'[w].pc = "check"
  BY IdleIsLocal DEF CallLog
<1>2. Check(w) => wr[w].pc = "check" /\ wr'[w].pc \in {"relock", "body"}
  BY DEF Check
<1>3. Relock(w) => wr[w].pc = "relock" /\ wr'[w].pc = "test"
  BY DEF Relock
<1>4. RotateTest(w) => wr[w].pc = "test" /\ wr'[w].pc \in {"day", "close"}
  BY DEF RotateTest
<1>5. RotateDay(w) => wr[w].pc = "day" /\ wr'[w].pc = "zero"
  BY DEF RotateDay
<1>6. RotateZero(w) => wr[w].pc = "zero" /\ wr'[w].pc = "close"
  BY DEF RotateZero
<1>7. RotateClose(w) => wr[w].pc = "close" /\ wr'[w].pc = "open"
  BY DEF RotateClose, Dangling
<1>8. RotateOpen(w) => wr[w].pc = "open" /\ wr'[w].pc = "body"
  BY DEF RotateOpen
<1>9. Body(w) => wr[w].pc = "body" /\ wr'[w].pc = "format"
  BY DEF Body
<1>10. Format(w) => wr[w].pc = "format" /\ wr'[w].pc = IF Queueing THEN "push" ELSE "fputs"
  BY IdleIsLocal DEF Format
<1>11. Push(w) => wr[w].pc = "push" /\ wr'[w].pc = "notify" /\ wr'[w].line = wr[w].line
  BY DEF Push
<1>12. WriteDirectly(w) =>
         wr[w].pc = "fputs" /\ wr'[w].pc = "notify" /\ wr'[w].line = wr[w].line
  BY DEF WriteDirectly
<1>13. FlushNotify(w) =>
         wr[w].pc = "notify" /\ wr'[w].pc = "load" /\ wr'[w].line = wr[w].line
  BY DEF FlushNotify
<1>14. FlushLoad(w) =>
         wr[w].pc = "load" /\ wr'[w].pc = "fflush" /\ wr'[w].line = wr[w].line
  BY DEF FlushLoad
<1>15. Fflush(w) => wr[w].pc = "fflush" /\ wr'[w] = Idle
  BY DEF Fflush
<1> QED
  BY <1>1, <1>2, <1>3, <1>4, <1>5, <1>6, <1>7, <1>8, <1>9, <1>10, <1>11, <1>12, <1>13,
     <1>14, <1>15

\* The other writers stay where they are, but for their FILE*.
LEMMA OthersStay ==
  ASSUME wr \in [Writers -> Locals], NEW w \in Writers, CallLog(w) \/ WriterStep(w),
         NEW v \in Writers, v # w
  PROVE  /\ wr'[v].pc = wr[v].pc /\ wr'[v].day = wr[v].day /\ wr'[v].file = wr[v].file
         /\ wr'[v].count = wr[v].count /\ wr'[v].line = wr[v].line
         /\ RotateClose(w) \/ wr'[v] = wr[v]
<1>1. CASE RotateClose(w)
  BY <1>1 DEF RotateClose, Dangling, Locals
<1>2. CASE ~RotateClose(w)
  <2>1. \E from, next : Goto(w, from, next)
    BY <1>2 DEF CallLog, WriterStep, RotateStep, Check, Relock, RotateTest, RotateDay,
       RotateZero, RotateOpen, Body, Format, Push, WriteDirectly, FlushNotify, FlushLoad, Fflush
  <2> QED
    BY <2>1 DEF Goto
<1> QED
  BY <1>1, <1>2

\* A writer's step leaves it with the locals that its place calls for.
LEMMA WriterLocalsInv ==
  ASSUME TypeInv, NEW w \in Writers, CallLog(w) \/ WriterStep(w)
  PROVE  LocalsInv'
<1>1. /\ WritersOK /\ SharedOK /\ wr[w] \in Locals /\ LocalsOf(wr[w])
      /\ wr \in [Writers -> Locals]
  BY TypeParts DEF TypeInv, WritersOK, LocalsInv
<1>2. wr' \in [Writers -> Locals] /\ SharedOK'
  BY WriterTypes, WriterSharedTypes DEF WritersOK
<1>3. nextId \in Nat /\ nextId' \in Nat
  BY <1>1, <1>2 DEF SharedOK
<1> USE DEF sharedVars, diskVars, otherVars, historyVars, ownerVars, flusherVars
<1>4. nextId <= nextId'
  <2>1. CASE Format(w)
    BY <1>3, <2>1 DEF Format
  <2>2. CASE ~Format(w)
    BY <1>3, <2>2 DEF CallLog, WriterStep, RotateStep, Check, Relock, RotateTest, RotateDay,
       RotateZero, RotateClose, RotateOpen, Body, Push, WriteDirectly, FlushNotify, FlushLoad, Fflush
  <2> QED
    BY <2>1, <2>2
<1>5. \A v \in Writers : v # w =>
        /\ wr'[v].pc = wr[v].pc /\ wr'[v].day = wr[v].day /\ wr'[v].file = wr[v].file
        /\ wr'[v].count = wr[v].count /\ wr'[v].line = wr[v].line
  BY <1>1, OthersStay
<1>6. \A v \in Writers : v # w => LocalsOf(wr[v])'
  <2> SUFFICES ASSUME NEW v \in Writers, v # w PROVE LocalsOf(wr[v])'
    OBVIOUS
  <2>1. LocalsOf(wr[v])
    BY DEF TypeInv, LocalsInv
  <2>2. wr[v].count \in Nat
    BY <1>1 DEF Locals
  <2> QED
    BY <1>3, <1>4, <1>5, <2>1, <2>2 DEF LocalsOf
<1>7. LocalsOf(wr[w])'
  <2> USE DEF LocalsOf, EnteringPcs, RotatingPcs, ActivePcs, HoldingPcs, Critical
  <2>1. CASE CallLog(w)
    <3>1. wr'[w].pc = "check" /\ wr'[w].day = day
      BY <1>1, <2>1, IdleIsLocal DEF CallLog, Goto, Locals
    <3> QED
      BY <1>1, <3>1 DEF SharedOK
  <2>2. CASE Check(w)
    BY <1>1, <2>2 DEF Check, Goto, Locals
  <2>3. CASE Relock(w)
    BY <1>1, <2>3 DEF Relock, Goto, Locals
  <2>4. CASE RotateTest(w)
    <3>1. wr[w].day \in 1 .. MaxDay
      BY <1>1, <2>4 DEF RotateTest, Goto
    <3>2. NewFile(w) \in Files
      BY <3>1, NewFileIsFile
    <3> QED
      BY <1>1, <2>4, <3>1, <3>2 DEF RotateTest, Goto, Locals
  <2>5. CASE RotateDay(w) \/ RotateZero(w)
    BY <1>1, <2>5 DEF RotateDay, RotateZero, Goto, Locals
  <2>6. CASE RotateClose(w)
    <3>1. /\ wr[w].pc = "close" /\ wr'[w].pc = "open"
          /\ wr'[w].day = wr[w].day /\ wr'[w].file = wr[w].file
      BY <1>1, <2>6 DEF RotateClose, Dangling, Locals
    <3> QED
      BY <1>1, <3>1
  <2>7. CASE RotateOpen(w)
    BY <1>1, <2>7 DEF RotateOpen, Goto, Locals
  <2>8. CASE Body(w)
    <3>1. lineCount_ < nextId /\ nextId' = nextId
      BY <2>8 DEF Body, TypeInv, LocalsInv
    <3> QED
      BY <1>1, <2>8, <3>1 DEF Body, Goto, Locals
  <2>9. CASE Format(w)
    <3>1. wr'[w].line \in Lines
      BY <2>9, FormatTypes
    <3>2. wr'[w].pc \in {"push", "fputs"}
      BY <1>1, <2>9, IdleIsLocal DEF Format, Goto, Locals
    <3> QED
      BY <3>1, <3>2
  <2>10. CASE Push(w) \/ WriteDirectly(w) \/ FlushNotify(w) \/ FlushLoad(w)
    BY <1>1, <2>10, PcMoves
  <2>11. CASE Fflush(w)
    <3>1. wr'[w].pc = "idle"
      BY <1>1, <2>11, IdleIsLocal DEF Fflush, Goto
    <3> QED
      BY <3>1
  <2> QED
    BY <2>1, <2>2, <2>3, <2>4, <2>5, <2>6, <2>7, <2>8, <2>9, <2>10, <2>11
    DEF WriterStep, RotateStep
<1>8. lineCount_' < nextId'
  <2>0. lineCount_ < nextId /\ lineCount_ \in Nat /\ nextId > 0
    BY <1>1 DEF TypeInv, LocalsInv, SharedOK
  <2>1. CASE RotateZero(w)
    BY <2>0, <2>1 DEF RotateZero
  <2>2. CASE Format(w)
    <3>1. wr[w].count < nextId /\ wr[w].count \in Nat
      BY <1>1, <2>2 DEF Format, Goto, LocalsOf, Locals
    <3> QED
      BY <1>3, <2>2, <3>1 DEF Format
  <2>3. CASE ~RotateZero(w) /\ ~Format(w)
    BY <2>0, <2>3 DEF CallLog, WriterStep, RotateStep, Check, Relock, RotateTest, RotateDay,
       RotateClose, RotateOpen, Body, Push, WriteDirectly, FlushNotify, FlushLoad, Fflush
  <2> QED
    BY <2>1, <2>2, <2>3
<1>9. nextId' + Cardinality(Entering') <= MaxCalls + 1
  <2>0. nextId + Cardinality(Entering) <= MaxCalls + 1 /\ Cardinality(Entering) \in Nat
    BY EnteringFinite DEF TypeInv, LocalsInv
  <2>1. CASE CallLog(w)
    <3>1. wr[w].pc = "idle" /\ wr'[w].pc = "check"
      BY <1>1, <2>1, IdleIsLocal DEF CallLog, Goto, Locals
    <3>2. Entering' = Entering \cup {w} /\ w \notin Entering
      BY <1>5, <3>1 DEF Entering
    <3>3. Cardinality(Entering') = Cardinality(Entering) + 1
      BY <3>2, FS_AddElement, EnteringFinite
    <3> QED
      BY <1>3, <2>0, <2>1, <3>3, Bounds DEF CallLog
  <2>2. CASE Format(w)
    <3>1. wr[w].pc = "format" /\ wr'[w].pc \in {"push", "fputs"}
      BY <1>1, <2>2, IdleIsLocal DEF Format, Goto, Locals
    <3>2. Entering' = Entering \ {w} /\ w \in Entering
      BY <1>5, <3>1 DEF Entering
    <3>3. Cardinality(Entering') = Cardinality(Entering) - 1
      BY <3>2, FS_RemoveElement, EnteringFinite
    <3> QED
      BY <1>3, <2>0, <2>2, <3>3, Bounds DEF Format
  <2>3. CASE ~CallLog(w) /\ ~Format(w)
    <3>1. nextId' = nextId
      BY <2>3 DEF WriterStep, RotateStep, Check, Relock, RotateTest, RotateDay,
         RotateZero, RotateClose, RotateOpen, Body, Push, WriteDirectly, FlushNotify, FlushLoad, Fflush
    <3>2. wr'[w].pc \in EnteringPcs <=> wr[w].pc \in EnteringPcs
      BY <1>1, <2>3, PcMoves, IdleIsLocal DEF EnteringPcs, WriterStep, RotateStep
    <3>3. Entering' = Entering
      BY <1>5, <3>2, EnteringSame
    <3> QED
      BY <2>0, <3>1, <3>3
  <2> QED
    BY <2>1, <2>2, <2>3
<1>10. (fp_.open => fp_.name \in Files)'
  <2>0. fp_.open => fp_.name \in Files
    BY DEF TypeInv, LocalsInv
  <2>1. CASE RotateClose(w)
    BY <1>1, <2>1 DEF RotateClose, SharedOK
  <2>2. CASE RotateOpen(w)
    BY <1>1, <2>2 DEF RotateOpen, Goto, LocalsOf, RotatingPcs
  <2>3. CASE ~RotateClose(w) /\ ~RotateOpen(w)
    BY <2>0, <2>3 DEF CallLog, WriterStep, RotateStep, Check, Relock, RotateTest, RotateDay,
       RotateZero, Body, Format, Push, WriteDirectly, FlushNotify, FlushLoad, Fflush
  <2> QED
    BY <2>1, <2>2, <2>3
<1>11. (flusher = "write" => str \in Lines)'
  BY DEF TypeInv, LocalsInv, CallLog, WriterStep, RotateStep, Check, Relock, RotateTest, RotateDay,
     RotateZero, RotateClose, RotateOpen, Body, Format, Push, WriteDirectly, FlushNotify,
     FlushLoad, Fflush
<1>12. (owner = "init" => initDay \in 1 .. MaxDay)'
  <2>1. UNCHANGED <<owner, initDay>>
    BY DEF CallLog, WriterStep, RotateStep, Check, Relock, RotateTest, RotateDay, RotateZero,
       RotateClose, RotateOpen, Body, Format, Push, WriteDirectly, FlushNotify, FlushLoad, Fflush,
       otherVars, ownerVars
  <2> QED
    BY <2>1 DEF TypeInv, LocalsInv
<1> QED
  BY <1>6, <1>7, <1>8, <1>9, <1>10, <1>11, <1>12 DEF LocalsInv

\* Closing the file touches nothing of a writer but its FILE*.
LEMMA DanglingTypes ==
  ASSUME wr \in [Writers -> Locals]
  PROVE  /\ Dangling \in [Writers -> Locals]
         /\ \A v \in Writers :
              /\ Dangling[v].pc = wr[v].pc /\ Dangling[v].day = wr[v].day
              /\ Dangling[v].file = wr[v].file /\ Dangling[v].count = wr[v].count
              /\ Dangling[v].line = wr[v].line
              /\ wr[v].handle # "open" => Dangling[v] = wr[v]
  BY DEF Dangling, Locals

\* The steps of the other threads, in which no writer moves.
OthersStep ==
  \/ FlusherStep
  \/ InitFields \/ InitFile \/ SetLevel
  \/ BeginDestroy \/ DestroyStep
  \/ NextDay \/ Spurious
  \/ UNCHANGED vars

LEMMA NextSteps ==
  ASSUME [Next]_vars
  PROVE  (\E w \in Writers : CallLog(w) \/ WriterStep(w)) \/ OthersStep \/ Crash
  BY DEF Next, OthersStep

LEMMA OthersWriters ==
  ASSUME wr \in [Writers -> Locals], OthersStep
  PROVE  /\ wr' \in [Writers -> Locals]
         /\ \A v \in Writers :
              /\ wr'[v].pc = wr[v].pc /\ wr'[v].day = wr[v].day
              /\ wr'[v].file = wr[v].file /\ wr'[v].count = wr[v].count
              /\ wr'[v].line = wr[v].line
              /\ wr[v].handle # "open" \/ ~(InitFile \/ FinalClose) => wr'[v] = wr[v]
         /\ mtx_' = mtx_ /\ nextId' = nextId /\ returned' = returned
<1> USE DEF historyVars, vars, otherVars
<1>1. CASE InitFile \/ FinalClose
  <2>1. wr' = Dangling /\ mtx_' = mtx_ /\ nextId' = nextId /\ returned' = returned
    BY <1>1 DEF InitFile, FinalClose
  <2> QED
    BY <1>1, <2>1, DanglingTypes
<1>2. CASE ~(InitFile \/ FinalClose)
  <2>1. wr' = wr /\ mtx_' = mtx_ /\ nextId' = nextId /\ returned' = returned
    BY <1>2 DEF OthersStep, FlusherStep, FlusherTake, FlusherWait, FlusherExit, FlusherWrite,
       InitFields, SetLevel, BeginDestroy, DestroyStep, Drain, CloseDeque, Join, NextDay, Spurious
  <2> QED
    BY <1>2, <2>1
<1> QED
  BY <1>1, <1>2

\* The head of the deque is taken.
LEMMA TakeTypes ==
  ASSUME SharedOK, FlusherTake
  PROVE  /\ Len(deq_) > 0
         /\ str' = deq_[1] /\ str' \in Lines
         /\ deq_' \in Seq(Lines) /\ Len(deq_') = Len(deq_) - 1
         /\ \A i \in 1 .. Len(deq_') : deq_'[i] = deq_[i + 1]
         /\ isClose_' = isClose_
         /\ thr' \in [Writers \cup {Flusher} -> {"out", "waiting", "woken"}]
<1>1. deq_ \in Seq(Lines) /\ deq_ # <<>> /\ deq_' = Tail(deq_) /\ str' = Head(deq_)
      /\ isClose_' = isClose_
  BY DEF FlusherTake, Q!PopItem, Q!empty, SharedOK
<1>2. thr' \in [Writers \cup {Flusher} -> {"out", "waiting", "woken"}]
  BY DEF FlusherTake, Q!PopItem, Q!Wake, Q!Threads, SharedOK
<1> QED
  BY <1>1, <1>2

LEMMA OthersSharedTypes ==
  ASSUME TypeInv, OthersStep
  PROVE  SharedOK'
<1>1. SharedOK
  BY TypeParts DEF TypeInv
<1> USE DEF sharedVars, diskVars, otherVars, historyVars, ownerVars, flusherVars
<1>2. CASE FlusherTake
  <2>1. deq_' \in Seq(Lines) /\ Len(deq_') <= QueueCapacity
    BY <1>1, <1>2, TakeTypes, Bounds DEF SharedOK
  <2> QED
    BY <1>1, <1>2, <2>1, TakeTypes DEF FlusherTake, SharedOK
<1>3. CASE FlusherWait
  <2>1. thr' \in [Writers \cup {Flusher} -> {"out", "waiting", "woken"}]
        /\ UNCHANGED <<deq_, isClose_>>
    BY <1>1, <1>3 DEF FlusherWait, Q!PopWait, SharedOK
  <2> QED
    BY <1>1, <1>3, <2>1 DEF FlusherWait, SharedOK
<1>4. CASE FlusherExit
  <2>1. thr' \in [Writers \cup {Flusher} -> {"out", "waiting", "woken"}]
        /\ UNCHANGED <<deq_, isClose_>>
    BY <1>1, <1>4 DEF FlusherExit, Q!PopClosed, SharedOK
  <2> QED
    BY <1>1, <1>4, <2>1 DEF FlusherExit, SharedOK
<1>5. CASE FlusherWrite
  <2>1. str \in Lines
    BY <1>5 DEF FlusherWrite, TypeInv, LocalsInv
  <2>2. written' \in Seq(Records) /\ synced' \in 0 .. Len(written')
    BY <1>1, <1>5, <2>1, FputsTypes DEF FlusherWrite
  <2> QED
    BY <1>1, <1>5, <2>2 DEF FlusherWrite, SharedOK, dequeVars
<1>6. CASE InitFields
  <2>1. isAsync_' \in BOOLEAN /\ level_' \in {0} \cup Settings
    BY <1>6, LogAssumption DEF InitFields
  <2>2. lineCount_' \in 0 .. MaxCalls /\ inits' \in 0 .. MaxInits
    BY <1>1, <1>6, Bounds DEF InitFields, SharedOK
  <2>4. toDay_' \in 0 .. 31 /\ initDay' \in 0 .. MaxDay
    BY <1>1, <1>6, MdayTyped DEF InitFields, SharedOK
  <2>3. flusher' \in {"none", "pop", "write", "exit"} /\ owner' \in Owners
    BY <1>1, <1>6 DEF InitFields, SharedOK, Owners
  <2> QED
    BY <1>1, <1>6, <2>1, <2>2, <2>3, <2>4 DEF InitFields, SharedOK, dequeVars
<1>7. CASE InitFile
  <2>1. /\ thr' \in [Writers \cup {Flusher} -> {"out", "waiting", "woken"}]
        /\ UNCHANGED <<deq_, isClose_, written>> /\ synced' \in 0 .. Len(written')
    <3>1. CASE fp_.open
      BY <1>1, <1>7, <3>1, NotifyTypes DEF InitFile, FlushAndClose, SharedOK
    <3>2. CASE ~fp_.open
      BY <1>1, <1>7, <3>2 DEF InitFile, SharedOK, dequeVars
    <3> QED
      BY <3>1, <3>2
  <2>2. initDay \in 1 .. MaxDay
    BY <1>7 DEF InitFile, TypeInv, LocalsInv
  <2>3. [day |-> initDay, part |-> Main] \in Files
    BY <2>2 DEF Files
  <2>4. fp_' \in [name : Files \cup {NoFile}, open : BOOLEAN]
    BY <1>7, <2>3 DEF InitFile
  <2>5. owner' \in Owners /\ initDay' \in 0 .. MaxDay
    BY <1>7, Bounds DEF InitFile, Owners
  <2> QED
    BY <1>1, <1>7, <2>1, <2>4, <2>5 DEF InitFile, SharedOK
<1>8. CASE SetLevel
  BY <1>1, <1>8 DEF SetLevel, SharedOK, dequeVars
<1>9. CASE BeginDestroy \/ Join
  BY <1>1, <1>9 DEF BeginDestroy, Join, OwnerGoto, SharedOK, dequeVars, Owners, DestroyPlaces
<1>10. CASE Drain
  <2>1. /\ thr' \in [Writers \cup {Flusher} -> {"out", "waiting", "woken"}]
        /\ UNCHANGED <<deq_, isClose_>>
    BY <1>1, <1>10 DEF Drain, Q!flush, Q!Wake, Q!Threads, SharedOK, dequeVars
  <2>2. owner' \in Owners /\ UNCHANGED <<inits, initDay, runs>>
    BY <1>1, <1>10 DEF Drain, OwnerGoto, SharedOK, Owners, DestroyPlaces
  <2> QED
    BY <1>1, <1>10, <2>1, <2>2 DEF Drain, SharedOK
<1>11. CASE CloseDeque
  <2>1. owner' \in Owners /\ UNCHANGED <<inits, initDay, runs>>
    BY <1>1, <1>11 DEF CloseDeque, OwnerGoto, Owners, DestroyPlaces
  <2>2. /\ thr' \in [Writers \cup {Flusher} -> {"out", "waiting", "woken"}]
        /\ deq_' \in {deq_, <<>>} /\ isClose_' \in BOOLEAN
    BY <1>1, <1>11 DEF CloseDeque, Q!CloseMark, Q!CloseNotify, Q!Wake, Q!Threads, SharedOK
  <2>3. CASE deq_' = deq_
    BY <1>1, <1>11, <2>1, <2>2, <2>3 DEF CloseDeque, SharedOK
  <2>4. CASE deq_' = <<>>
    <3>1. deq_' \in Seq(Lines) /\ Len(deq_') <= QueueCapacity
      BY <2>4, Bounds
    <3> QED
      BY <1>1, <1>11, <2>1, <2>2, <3>1 DEF CloseDeque, SharedOK
  <2> QED
    BY <2>2, <2>3, <2>4
<1>12. CASE FinalClose
  <2>1. /\ thr' \in [Writers \cup {Flusher} -> {"out", "waiting", "woken"}]
        /\ UNCHANGED <<deq_, isClose_, written>> /\ synced' = Len(written)
    BY <1>1, <1>12, NotifyTypes DEF FinalClose, FlushAndClose
  <2>2. fp_' \in [name : Files \cup {NoFile}, open : BOOLEAN]
    BY <1>1, <1>12 DEF FinalClose, SharedOK
  <2>3. owner' \in Owners /\ UNCHANGED <<inits, initDay, runs>>
    BY <1>12 DEF FinalClose, OwnerGoto, Owners, DestroyPlaces
  <2> QED
    BY <1>1, <1>12, <2>1, <2>2, <2>3 DEF FinalClose, SharedOK
<1>13. CASE NextDay
  <2>1. day' \in 1 .. MaxDay
    BY <1>1, <1>13, Bounds DEF NextDay, SharedOK
  <2> QED
    BY <1>1, <1>13, <2>1 DEF NextDay, SharedOK, dequeVars
<1>14. CASE Spurious
  <2>1. /\ thr' \in [Writers \cup {Flusher} -> {"out", "waiting", "woken"}]
        /\ UNCHANGED <<deq_, isClose_>>
    BY <1>1, <1>14 DEF Spurious, Q!SpuriousWakeup, Q!Threads, SharedOK
  <2> QED
    BY <1>1, <1>14, <2>1 DEF Spurious, SharedOK
<1>15. CASE UNCHANGED vars
  BY <1>1, <1>15 DEF vars, SharedOK, dequeVars
<1> QED
  BY <1>2, <1>3, <1>4, <1>5, <1>6, <1>7, <1>8, <1>9, <1>10, <1>11, <1>12, <1>13, <1>14, <1>15
  DEF OthersStep, FlusherStep, DestroyStep

LEMMA OthersTypeInv ==
  ASSUME TypeInv, OthersStep
  PROVE  TypeInv'
<1>1. WritersOK /\ SharedOK /\ wr \in [Writers -> Locals] /\ LocalsInv
  BY TypeParts DEF TypeInv, WritersOK
<1>2. SharedOK'
  BY OthersSharedTypes
<1>3. /\ wr' \in [Writers -> Locals]
      /\ \A v \in Writers :
           /\ wr'[v].pc = wr[v].pc /\ wr'[v].day = wr[v].day /\ wr'[v].file = wr[v].file
           /\ wr'[v].count = wr[v].count /\ wr'[v].line = wr[v].line
      /\ mtx_' = mtx_ /\ nextId' = nextId
  BY <1>1, OthersWriters
<1>4. WritersOK'
  BY <1>1, <1>3 DEF WritersOK
<1>5. \A v \in Writers : LocalsOf(wr[v])'
  BY <1>1, <1>3 DEF LocalsInv, LocalsOf
<1>6. Entering' = Entering
  BY <1>3, EnteringSame
<1> USE DEF sharedVars, diskVars, otherVars, historyVars, ownerVars, flusherVars
<1>7. CASE FlusherStep
  <2>1. (flusher = "write" => str \in Lines)'
    BY <1>1, <1>7, TakeTypes DEF FlusherStep, FlusherTake, FlusherWait, FlusherExit, FlusherWrite,
       LocalsInv
  <2>2. UNCHANGED <<lineCount_, fp_, owner, initDay>>
    BY <1>7 DEF FlusherStep, FlusherTake, FlusherWait, FlusherExit, FlusherWrite
  <2> QED
    BY <1>1, <1>2, <1>3, <1>4, <1>5, <1>6, <2>1, <2>2, TypePartsNext DEF TypeInv, LocalsInv
<1>8. CASE InitFields
  <2>1. lineCount_' < nextId' /\ initDay' \in 1 .. MaxDay
    BY <1>1, <1>3, <1>8 DEF InitFields, SharedOK
  <2>2. UNCHANGED <<fp_, str>> /\ (flusher' = "write" => flusher = "write")
    BY <1>8 DEF InitFields
  <2> QED
    BY <1>1, <1>2, <1>3, <1>4, <1>5, <1>6, <2>1, <2>2, TypePartsNext DEF TypeInv, LocalsInv
<1>9. CASE InitFile
  <2>1. fp_'.name \in Files
    BY <1>1, <1>9 DEF InitFile, LocalsInv, Files
  <2>2. UNCHANGED <<lineCount_, flusher, str>> /\ owner' = "run"
    BY <1>9 DEF InitFile
  <2> QED
    BY <1>1, <1>2, <1>3, <1>4, <1>5, <1>6, <2>1, <2>2, TypePartsNext DEF TypeInv, LocalsInv
<1>10. CASE FinalClose
  <2>1. ~fp_'.open
    BY <1>1, <1>10 DEF FinalClose, SharedOK
  <2>2. UNCHANGED <<lineCount_, flusher, str>> /\ owner' = "done"
    BY <1>10 DEF FinalClose, OwnerGoto
  <2> QED
    BY <1>1, <1>2, <1>3, <1>4, <1>5, <1>6, <2>1, <2>2, TypePartsNext DEF TypeInv, LocalsInv
<1>11. CASE SetLevel \/ BeginDestroy \/ Drain \/ CloseDeque \/ Join \/ NextDay \/ Spurious
              \/ UNCHANGED vars
  <2>1. UNCHANGED <<lineCount_, flusher, str, initDay, fp_>> /\ (owner' = "init" => owner = "init")
    BY <1>11 DEF SetLevel, BeginDestroy, Drain, CloseDeque, Join, NextDay, Spurious, OwnerGoto, vars
  <2> QED
    BY <1>1, <1>2, <1>3, <1>4, <1>5, <1>6, <2>1, TypePartsNext DEF TypeInv, LocalsInv
<1> QED
  BY <1>7, <1>8, <1>9, <1>10, <1>11 DEF OthersStep, DestroyStep

\* What a process starts with.
LEMMA FreshWriters ==
  ASSUME wr' = [w \in Writers |-> Idle], mtx_' = NoOne
  PROVE  WritersOK' /\ Entering' = {} /\ \A w \in Writers : LocalsOf(wr[w])'
<1>1. WritersOK'
  BY IdleIsLocal, LogAssumption DEF WritersOK, Critical, NoOne
<1>2. Entering' = {} /\ \A w \in Writers : LocalsOf(wr[w])'
  BY IdleIsLocal DEF Entering, LocalsOf, EnteringPcs, RotatingPcs, ActivePcs, HoldingPcs
<1> QED
  BY <1>1, <1>2

\* What a crash leaves of the log.
LEMMA CrashTypes ==
  ASSUME SharedOK, Crash
  PROVE  /\ written' \in Seq(Records) /\ Len(written') <= Len(written)
         /\ synced' = Len(written') /\ synced <= synced'
         /\ \A i \in 1 .. Len(written') : written'[i] = written[i]
<1>1. PICK n \in synced .. Len(written) : written' = SubSeq(written, 1, n) /\ synced' = n
  BY DEF Crash
<1>2. written \in Seq(Records) /\ n \in 0 .. Len(written)
  BY DEF SharedOK
<1> QED
  BY <1>1, <1>2

LEMMA CrashTypeInv ==
  ASSUME TypeInv, Crash
  PROVE  TypeInv'
<1>1. SharedOK /\ LocalsInv
  BY TypeParts DEF TypeInv
<1>2. WritersOK' /\ Entering' = {} /\ \A w \in Writers : LocalsOf(wr[w])'
  BY FreshWriters DEF Crash
<1>3. written' \in Seq(Records) /\ synced' \in 0 .. Len(written')
  BY <1>1, CrashTypes DEF SharedOK
<1>4. /\ deq_' \in Seq(Lines) /\ Len(deq_') <= QueueCapacity
      /\ thr' \in [Writers \cup {Flusher} -> {"out", "waiting", "woken"}]
  BY Bounds DEF Crash, Q!Threads
<1>5. lineCount_' \in 0 .. MaxCalls /\ toDay_' \in 0 .. 31 /\ initDay' \in 0 .. MaxDay /\ inits' \in 0 .. MaxInits
      /\ runs' \in 1 .. MaxRuns
  BY <1>1, Bounds DEF Crash, SharedOK
<1>6. fp_' \in [name : Files \cup {NoFile}, open : BOOLEAN] /\ ~fp_'.open
  BY DEF Crash
<1>7. SharedOK'
  BY <1>1, <1>3, <1>4, <1>5, <1>6 DEF Crash, SharedOK, historyVars, Owners
<1>8. nextId' + Cardinality(Entering') <= MaxCalls + 1
  BY <1>1, <1>2, FS_EmptySet, Bounds DEF Crash, historyVars, SharedOK
<1> QED
  BY <1>1, <1>2, <1>5, <1>6, <1>7, <1>8, TypePartsNext DEF TypeInv, LocalsInv, Crash, historyVars, SharedOK

LEMMA InitTypeInv ==
  ASSUME Init
  PROVE  TypeInv
<1>1. WritersOK
  BY IdleIsLocal, LogAssumption DEF Init, ProcessInit, WritersOK, Critical, NoOne
<1>2. Entering = {} /\ \A w \in Writers : LocalsOf(wr[w])
  BY IdleIsLocal DEF Init, ProcessInit, Entering, LocalsOf, EnteringPcs, RotatingPcs, ActivePcs,
     HoldingPcs
<1>3. /\ deq_ \in Seq(Lines) /\ Len(deq_) <= QueueCapacity
      /\ thr \in [Writers \cup {Flusher} -> {"out", "waiting", "woken"}] /\ isClose_ = FALSE
  BY Bounds DEF Init, ProcessInit, Q!DequeInit, Q!Threads
<1>4. fp_ \in [name : Files \cup {NoFile}, open : BOOLEAN] /\ ~fp_.open
  BY DEF Init, ProcessInit
<1>5. written \in Seq(Records) /\ synced \in 0 .. Len(written)
  BY DEF Init
<1>6. SharedOK
  <2>1. /\ lineCount_ \in 0 .. MaxCalls /\ toDay_ \in 0 .. 31 /\ initDay \in 0 .. MaxDay
        /\ inits \in 0 .. MaxInits
        /\ runs \in 1 .. MaxRuns /\ day \in 1 .. MaxDay /\ nextId \in 1 .. MaxCalls + 1
    BY Bounds DEF Init, ProcessInit
  <2>2. /\ isAsync_ \in BOOLEAN /\ level_ \in {0} \cup Settings
        /\ flusher \in {"none", "pop", "write", "exit"} /\ str \in Lines \cup {NoLine}
        /\ owner \in Owners /\ returned \subseteq 1 .. MaxCalls
    BY DEF Init, ProcessInit, Owners
  <2> QED
    BY <1>3, <1>4, <1>5, <2>1, <2>2 DEF SharedOK
<1>7. nextId + Cardinality(Entering) <= MaxCalls + 1
  BY <1>2, FS_EmptySet, Bounds DEF Init
<1> QED
  BY <1>1, <1>2, <1>4, <1>6, <1>7, TypeParts DEF TypeInv, LocalsInv, Init, ProcessInit

LEMMA NextTypeInv ==
  ASSUME TypeInv, [Next]_vars
  PROVE  TypeInv'
<1>1. ASSUME NEW w \in Writers, CallLog(w) \/ WriterStep(w)
      PROVE  TypeInv'
  BY <1>1, WriterTypes, WriterSharedTypes, WriterLocalsInv, TypePartsNext DEF TypeInv
<1> QED
  BY <1>1, NextSteps, OthersTypeInv, CrashTypeInv

\* Every variable of the logger keeps its type, and a writer is between the lock
\* and the unlock of mtx_ exactly when it owns it: also while other writers rotate
\* the file, init is called again, and the process dies and is started again.
THEOREM TypeCorrect == Spec => []TypeOK
<1>1. Init => TypeInv
  BY InitTypeInv
<1>2. TypeInv /\ [Next]_vars => TypeInv'
  BY NextTypeInv
<1>3. TypeInv => TypeOK
  BY DEF TypeInv
<1> QED
  BY <1>1, <1>2, <1>3, PTL DEF Spec

-----------------------------------------------------------------------------
(***************************************************************************)
(* Who runs when.                                                          *)
(***************************************************************************)

\* mtx_ excludes: two writers are not both between its lock and its unlock.
LEMMA MutualExclusion ==
  ASSUME WritersOK, NEW v \in Writers, NEW w \in Writers,
         wr[v].pc \in Critical, wr[w].pc \in Critical
  PROVE  v = w
  BY DEF WritersOK

LEMMA WriterRuns ==
  ASSUME TypeInv, PhaseInv, NEW w \in Writers, CallLog(w) \/ WriterStep(w)
  PROVE  owner = "run" /\ owner' = "run"
<1>1. wr \in [Writers -> Locals]
  BY TypeParts DEF TypeInv, WritersOK
<1>2. owner = "run"
  <2>1. CASE CallLog(w)
    BY <2>1 DEF CallLog
  <2>2. CASE ~CallLog(w)
    <3>1. wr[w].pc # "idle"
      BY <1>1, <2>2, PcMoves DEF WriterStep, RotateStep
    <3> QED
      BY <3>1, IdleIsLocal DEF PhaseInv, AllIdle
  <2> QED
    BY <2>1, <2>2
<1>3. owner' = owner
  BY DEF otherVars, ownerVars, CallLog, WriterStep, RotateStep, Check, Relock, RotateTest,
     RotateDay, RotateZero, RotateClose, RotateOpen, Body, Format, Push, WriteDirectly,
     FlushNotify, FlushLoad, Fflush
<1> QED
  BY <1>2, <1>3

LEMMA WriterPhaseInv ==
  ASSUME TypeInv, PhaseInv, NEW w \in Writers, CallLog(w) \/ WriterStep(w)
  PROVE  PhaseInv'
<1>1. WritersOK /\ SharedOK /\ wr \in [Writers -> Locals]
  BY TypeParts DEF TypeInv, WritersOK
<1>2. wr' \in [Writers -> Locals]
  BY WriterTypes DEF WritersOK
<1>3. owner = "run" /\ owner' = "run"
  BY WriterRuns
<1>4. \A v \in Writers : v # w => wr'[v].pc = wr[v].pc
  BY <1>1, OthersStay
<1> USE DEF sharedVars, diskVars, otherVars, historyVars, ownerVars, flusherVars, dequeVars
<1>5. UNCHANGED <<isAsync_, flusher, isClose_>>
  BY DEF CallLog, WriterStep, RotateStep, Check, Relock, RotateTest, RotateDay, RotateZero,
     RotateClose, RotateOpen, Body, Format, Push, WriteDirectly, FlushNotify, FlushLoad, Fflush,
     FlushAndClose, NotifyFlusher, Q!push_back, Q!Insert, Q!flush
<1>6. ~Push(w) => deq_' = deq_
  BY DEF CallLog, WriterStep, RotateStep, Check, Relock, RotateTest, RotateDay, RotateZero,
     RotateClose, RotateOpen, Body, Format, WriteDirectly, FlushNotify, FlushLoad, Fflush,
     FlushAndClose, NotifyFlusher, Q!flush
<1>7. flusher' = "none" => deq_' = <<>> /\ ~isAsync_'
  BY <1>1, <1>5, <1>6, PcMoves DEF PhaseInv
<1>8. \A v \in Writers : wr'[v].pc = "push" => isAsync_' /\ ~(Q!full)'
  <2> SUFFICES ASSUME NEW v \in Writers, wr'[v].pc = "push"
               PROVE  isAsync_' /\ ~(Q!full)'
    OBVIOUS
  <2>1. CASE v = w
    <3>1. Format(w) /\ Queueing
      BY <1>1, <2>1, PcMoves, IdleIsLocal DEF WriterStep, RotateStep
    <3> QED
      BY <1>5, <1>6, <3>1 DEF Queueing, Format, Q!full
  <2>2. CASE v # w
    <3>1. wr[v].pc = "push"
      BY <1>4, <2>2
    <3>2. ~Push(w)
      BY <1>1, <2>2, <3>1, PcMoves, MutualExclusion DEF Critical
    <3> QED
      BY <1>5, <1>6, <3>1, <3>2 DEF PhaseInv, Q!full
  <2> QED
    BY <2>1, <2>2
<1>9. OpenInv'
  <2>1. CASE RotateClose(w)
    <3>1. wr'[w].pc = "open" /\ synced' = Len(written) /\ written' = written
      BY <1>1, <2>1, PcMoves DEF RotateClose, FlushAndClose
    <3> QED
      BY <3>1 DEF OpenInv
  <2>2. CASE RotateOpen(w)
    BY <2>2 DEF OpenInv, RotateOpen
  <2>3. CASE WriteDirectly(w)
    <3>1. wr[w].pc = "fputs"
      BY <1>1, <2>3, PcMoves
    <3>2. \A v \in Writers : wr[v].pc # "open"
      BY <1>1, <3>1, MutualExclusion DEF Critical
    <3>3. fp_.open
      BY <1>3, <3>2 DEF PhaseInv, OpenInv
    <3> QED
      BY <2>3, <3>3 DEF OpenInv, WriteDirectly
  <2>4. CASE ~RotateClose(w) /\ ~RotateOpen(w) /\ ~WriteDirectly(w)
    <3>1. fp_' = fp_ /\ written' = written /\ synced' \in {synced, Len(written)}
      BY <2>4 DEF CallLog, WriterStep, RotateStep, Check, Relock, RotateTest, RotateDay,
         RotateZero, Body, Format, Push, FlushNotify, FlushLoad, Fflush
    <3>2. \A v \in Writers : wr[v].pc = "open" => wr'[v].pc = "open"
      BY <1>1, <1>4, <2>4, PcMoves DEF WriterStep, RotateStep
    <3> QED
      BY <1>3, <3>1, <3>2 DEF OpenInv, PhaseInv
  <2> QED
    BY <2>1, <2>2, <2>3, <2>4
<1> QED
  BY <1>3, <1>5, <1>7, <1>8, <1>9 DEF PhaseInv, OpenInv, DestroyPlaces

\* Nobody is between the lock and the unlock of mtx_ when another thread has it.
LEMMA FreeMeansNobody ==
  ASSUME WritersOK, Free
  PROVE  \A w \in Writers : wr[w].pc \notin Critical
  BY LogAssumption DEF WritersOK, Free

LEMMA OthersPhaseInv ==
  ASSUME TypeInv, PhaseInv, OthersStep
  PROVE  PhaseInv'
<1>1. WritersOK /\ SharedOK /\ wr \in [Writers -> Locals]
  BY TypeParts DEF TypeInv, WritersOK
<1>2. \A v \in Writers : wr'[v].pc = wr[v].pc
  BY <1>1, OthersWriters
<1>3. AllIdle => AllIdle'
  <2> SUFFICES ASSUME AllIdle, NEW v \in Writers PROVE wr'[v] = Idle
    BY DEF AllIdle
  <2>1. wr[v].handle # "open" /\ wr[v] = Idle
    BY IdleIsLocal DEF AllIdle
  <2> QED
    BY <1>1, <2>1, OthersWriters
<1>4. OpenInv
  BY DEF PhaseInv, OpenInv
<1> USE DEF sharedVars, diskVars, otherVars, historyVars, ownerVars, flusherVars, dequeVars
<1>5. CASE FlusherTake
  <2>1. deq_ # <<>> /\ flusher = "pop" /\ flusher' = "write"
        /\ UNCHANGED <<owner, isClose_, isAsync_, fp_, written, synced, wr>>
    BY <1>5 DEF FlusherTake, Q!PopItem, Q!empty
  <2>2. Len(deq_') < Len(deq_) /\ Len(deq_) \in Nat /\ Len(deq_') \in Nat
    BY <1>1, <1>5, TakeTypes DEF SharedOK
  <2>3. owner \notin DestroyPlaces /\ owner # "boot"
    BY <2>1 DEF PhaseInv
  <2>4. \A w \in Writers : wr'[w].pc = "push" => isAsync_' /\ ~(Q!full)'
    BY <2>1, <2>2, Bounds DEF PhaseInv, Q!full
  <2>5. OpenInv'
    BY <1>4, <2>1, <2>3 DEF OpenInv, DestroyPlaces
  <2> QED
    BY <1>3, <2>1, <2>3, <2>4, <2>5 DEF PhaseInv, OpenInv, DestroyPlaces
<1>6. CASE FlusherWait \/ FlusherExit \/ Spurious \/ SetLevel \/ NextDay \/ UNCHANGED vars
  <2>1. /\ UNCHANGED <<deq_, isClose_, isAsync_, owner, fp_, written, synced, wr>>
        /\ flusher' = flusher \/ (flusher = "pop" /\ flusher' = "exit" /\ isClose_)
    BY <1>6 DEF FlusherWait, FlusherExit, Spurious, SetLevel, NextDay, vars, Q!PopWait,
       Q!PopClosed, Q!SpuriousWakeup
  <2>2. \A w \in Writers : wr'[w].pc = "push" => isAsync_' /\ ~(Q!full)'
    BY <2>1 DEF PhaseInv, Q!full
  <2>3. OpenInv'
    BY <1>4, <2>1 DEF OpenInv
  <2> QED
    BY <1>3, <2>1, <2>2, <2>3 DEF PhaseInv, OpenInv
<1>7. CASE FlusherWrite
  <2>1. flusher = "write" /\ flusher' = "pop" /\ Free
        /\ UNCHANGED <<deq_, isClose_, isAsync_, owner, fp_, wr>>
    BY <1>7 DEF FlusherWrite
  <2>2. owner \notin {"boot", "final", "done"}
    BY <2>1 DEF PhaseInv
  <2>3. fp_.open
    BY <1>1, <1>4, <2>1, <2>2, FreeMeansNobody DEF OpenInv, Critical
  <2>4. \A w \in Writers : wr'[w].pc = "push" => isAsync_' /\ ~(Q!full)'
    BY <2>1 DEF PhaseInv, Q!full
  <2>5. OpenInv'
    BY <2>1, <2>3 DEF OpenInv
  <2> QED
    BY <1>3, <2>1, <2>2, <2>4, <2>5 DEF PhaseInv, OpenInv
<1>8. CASE InitFields
  <2>1. owner' = "init" /\ UNCHANGED <<deq_, isClose_, fp_, wr, written, synced>> /\ AllIdle
    BY <1>8 DEF InitFields, PhaseInv
  <2>2. isAsync_' => TRUE \in Modes
    BY <1>8 DEF InitFields
  <2>3. ~isClose_
    BY <1>8 DEF InitFields, PhaseInv, DestroyPlaces
  <2>4. flusher' = (IF isAsync_' /\ flusher = "none" THEN "pop" ELSE flusher)
    BY <1>8 DEF InitFields
  <2>5. flusher' = "none" => deq_' = <<>> /\ ~isAsync_'
    BY <2>1, <2>4 DEF PhaseInv
  <2>6. flusher' # "none" => TRUE \in Modes
    BY <2>2, <2>4 DEF PhaseInv
  <2>7. flusher' # "exit"
    BY <2>3, <2>4 DEF PhaseInv
  <2>8. \A w \in Writers : wr'[w].pc # "push" /\ wr[w].pc # "open"
    BY <2>1, IdleIsLocal DEF AllIdle
  <2>9. OpenInv'
    <3>1. CASE fp_.open
      BY <2>1, <3>1 DEF OpenInv
    <3>2. CASE ~fp_.open
      <4>1. owner \in {"boot", "init"} /\ deq_ = <<>> /\ flusher # "write"
        BY <1>4, <1>8, <2>8, <3>2 DEF OpenInv, InitFields
      <4> QED
        BY <1>4, <2>1, <2>4, <3>2, <4>1 DEF OpenInv
    <3> QED
      BY <3>1, <3>2
  <2> QED
    BY <1>3, <2>1, <2>3, <2>5, <2>6, <2>7, <2>8, <2>9 DEF PhaseInv, OpenInv, DestroyPlaces
<1>9. CASE InitFile
  <2>1. owner = "init" /\ owner' = "run" /\ fp_'.open /\ UNCHANGED <<isAsync_, flusher>>
        /\ UNCHANGED <<deq_, isClose_>>
    BY <1>9 DEF InitFile, FlushAndClose, NotifyFlusher, Q!flush
  <2>2. \A w \in Writers : wr'[w].pc = "push" => isAsync_' /\ ~(Q!full)'
    BY <1>2, <2>1 DEF PhaseInv, Q!full
  <2> QED
    BY <1>3, <2>1, <2>2 DEF PhaseInv, DestroyPlaces, OpenInv
<1>10. CASE BeginDestroy \/ Drain \/ Join
  <2>1. AllIdle
    BY <1>10 DEF BeginDestroy, Drain, Join, OwnerGoto, PhaseInv
  <2>2. UNCHANGED <<deq_, isClose_, isAsync_, flusher, fp_, wr, written, synced>>
    BY <1>10 DEF BeginDestroy, Drain, Join, Q!flush
  <2>3. \/ owner = "run" /\ owner' = IF flusher # "none" THEN "drain" ELSE "final"
        \/ owner = "drain" /\ owner' = "drain"
        \/ owner = "drain" /\ owner' = "close" /\ deq_ = <<>>
        \/ owner = "join" /\ owner' = "final" /\ flusher = "exit"
    BY <1>10 DEF BeginDestroy, Drain, Join, OwnerGoto, Q!empty
  <2>4. \A w \in Writers : wr'[w].pc # "push" /\ wr[w].pc # "open"
    BY <2>1, <2>2, IdleIsLocal DEF AllIdle
  <2>5. OpenInv'
    BY <1>4, <2>2, <2>3, <2>4 DEF OpenInv
  <2> QED
    BY <1>3, <2>1, <2>2, <2>3, <2>4, <2>5 DEF PhaseInv, OpenInv, DestroyPlaces
<1>11. CASE CloseDeque
  <2>1. UNCHANGED <<isAsync_, flusher, fp_, wr, written, synced>> /\ deq_ = <<>> /\ deq_' = <<>>
    BY <1>11 DEF CloseDeque, OwnerGoto, Q!CloseMark, Q!CloseNotify, PhaseInv, DestroyPlaces
  <2>2. AllIdle /\ owner \in DestroyPlaces \ {"final", "done"}
        /\ owner' \in DestroyPlaces \ {"close", "final", "done"}
    BY <1>11 DEF CloseDeque, OwnerGoto, PhaseInv, DestroyPlaces
  <2>3. isClose_ => isClose_'
    BY <1>11 DEF CloseDeque, Q!CloseMark, Q!CloseNotify
  <2>4. \A w \in Writers : wr'[w].pc # "push" /\ wr[w].pc # "open"
    BY <2>1, <2>2, IdleIsLocal DEF AllIdle
  <2>5. OpenInv'
    BY <1>4, <2>1, <2>2, <2>4 DEF OpenInv, DestroyPlaces
  <2> QED
    BY <1>3, <2>1, <2>2, <2>3, <2>4, <2>5 DEF PhaseInv, OpenInv, DestroyPlaces
<1>12. CASE FinalClose
  <2>1. owner = "final" /\ owner' = "done" /\ UNCHANGED <<deq_, isClose_, isAsync_, flusher>>
        /\ synced' = Len(written) /\ written' = written
    BY <1>12 DEF FinalClose, OwnerGoto, FlushAndClose, NotifyFlusher, Q!flush
  <2>2. ~fp_'.open
    BY <1>1, <1>12 DEF FinalClose, SharedOK
  <2>3. AllIdle
    BY <2>1 DEF PhaseInv
  <2>4. \A w \in Writers : wr'[w].pc # "push"
    BY <1>2, <2>3, IdleIsLocal DEF AllIdle
  <2> QED
    BY <1>3, <2>1, <2>2, <2>3, <2>4 DEF PhaseInv, DestroyPlaces, OpenInv
<1> QED
  BY <1>5, <1>6, <1>7, <1>8, <1>9, <1>10, <1>11, <1>12 DEF OthersStep, FlusherStep, DestroyStep

LEMMA CrashPhaseInv ==
  ASSUME TypeInv, PhaseInv, Crash
  PROVE  PhaseInv'
<1>1. SharedOK
  BY TypeParts DEF TypeInv
<1>2. synced' = Len(written')
  BY <1>1, CrashTypes
<1>3. \A w \in Writers : wr'[w] = Idle
  BY DEF Crash
<1> QED
  BY <1>2, <1>3, IdleIsLocal DEF Crash, PhaseInv, AllIdle, DestroyPlaces, OpenInv

LEMMA InitPhaseInv ==
  ASSUME Init
  PROVE  PhaseInv
<1>1. AllIdle /\ deq_ = <<>> /\ isClose_ = FALSE
  BY DEF Init, ProcessInit, AllIdle, Q!DequeInit
<1>2. synced = Len(written)
  BY DEF Init
<1> QED
  BY <1>1, <1>2, IdleIsLocal DEF Init, ProcessInit, PhaseInv, AllIdle, DestroyPlaces, OpenInv

CtlInv == TypeInv /\ PhaseInv

LEMMA NextCtlInv ==
  ASSUME CtlInv, [Next]_vars
  PROVE  CtlInv'
<1>1. TypeInv /\ PhaseInv /\ TypeInv'
  BY NextTypeInv DEF CtlInv
<1>2. PhaseInv'
  BY <1>1, NextSteps, WriterPhaseInv, OthersPhaseInv, CrashPhaseInv
<1> QED
  BY <1>1, <1>2 DEF CtlInv

LEMMA AlwaysCtlInv == Spec => []CtlInv
<1>1. Init => CtlInv
  BY InitTypeInv, InitPhaseInv DEF CtlInv
<1>2. CtlInv /\ [Next]_vars => CtlInv'
  BY NextCtlInv
<1> QED
  BY <1>1, <1>2, PTL DEF Spec

\* A writer never waits inside push_back, where it would hold mtx_ while the flusher
\* waits for mtx_: nobody fills the deque between a writer's test of full() and its
\* push_back, whatever the number of writers and the capacity.
THEOREM NoPushWaits == Spec => []PushNeverWaits
<1>1. CtlInv => PushNeverWaits
  BY DEF CtlInv, PhaseInv, PushNeverWaits
<1> QED
  BY <1>1, AlwaysCtlInv, PTL

-----------------------------------------------------------------------------
(***************************************************************************)
(* What a step does with the lines.                                        *)
(***************************************************************************)

\* A step that leaves every line where it is.
QuietStep ==
  /\ UNCHANGED <<deq_, written, nextId, returned, runs, str>>
  /\ synced' \in {synced, Len(written)}
  /\ flusher' = "write" <=> flusher = "write"
  /\ \A v \in Writers :
       /\ wr'[v].pc \in ActivePcs <=> wr[v].pc \in ActivePcs
       /\ wr'[v].pc \in HoldingPcs <=> wr[v].pc \in HoldingPcs
       /\ wr[v].pc \in ActivePcs => wr'[v].line = wr[v].line

\* The writers but w stay as they are.
OnlyWriter(w) ==
  /\ w \in Writers
  /\ \A v \in Writers : v # w => wr'[v].pc = wr[v].pc /\ wr'[v].line = wr[v].line

FormatLine(w) ==
  /\ OnlyWriter(w)
  /\ wr[w].pc = "format" /\ wr'[w].pc \in HoldingPcs
  /\ wr'[w].line = [id |-> nextId, day |-> wr[w].day]
  /\ nextId' = nextId + 1
  /\ UNCHANGED <<deq_, written, synced, returned, runs, str, flusher>>

QueueLine(w) ==
  /\ OnlyWriter(w)
  /\ wr[w].pc = "push" /\ wr'[w].pc = "notify" /\ wr'[w].line = wr[w].line
  /\ DOMAIN deq_' = 1 .. Len(deq_) + 1
  /\ \A i \in DOMAIN deq_ : deq_'[i] = deq_[i]
  /\ deq_'[Len(deq_) + 1] = wr[w].line
  /\ UNCHANGED <<written, synced, nextId, returned, runs, str, flusher>>

WriteLine(l, by) ==
  /\ DOMAIN written' = 1 .. Len(written) + 1 /\ Len(written') = Len(written) + 1
  /\ \A i \in DOMAIN written : written'[i] = written[i]
  /\ written'[Len(written) + 1].id = l.id
  /\ written'[Len(written) + 1].day = l.day
  /\ written'[Len(written) + 1].by = by
  /\ written'[Len(written) + 1].file = fp_.name /\ fp_.name # NoFile
  /\ synced' = synced

WriteOwnLine(w) ==
  /\ OnlyWriter(w)
  /\ wr[w].pc = "fputs" /\ wr'[w].pc = "notify" /\ wr'[w].line = wr[w].line
  /\ WriteLine(wr[w].line, "writer")
  /\ UNCHANGED <<deq_, nextId, returned, runs, str, flusher>>

ReturnLine(w) ==
  /\ OnlyWriter(w)
  /\ wr[w].pc = "fflush" /\ wr'[w].pc = "idle"
  /\ returned' = returned \cup {wr[w].line.id}
  /\ synced' = IF wr[w].handle = "open" THEN Len(written) ELSE synced
  /\ UNCHANGED <<deq_, written, nextId, runs, str, flusher>>

TakeLine ==
  /\ Len(deq_) > 0
  /\ flusher = "pop" /\ flusher' = "write" /\ str' = deq_[1]
  /\ DOMAIN deq_' = 1 .. Len(deq_) - 1
  /\ \A i \in DOMAIN deq_' : deq_'[i] = deq_[i + 1]
  /\ UNCHANGED <<written, synced, nextId, returned, runs, wr>>

WriteTaken ==
  /\ flusher = "write" /\ flusher' = "pop"
  /\ WriteLine(str, "flusher")
  /\ UNCHANGED <<deq_, nextId, returned, runs, wr>>

LoseLines ==
  /\ deq_' = <<>> /\ flusher' = "none"
  /\ \A w \in Writers : wr'[w].pc = "idle"
  /\ DOMAIN written' = 1 .. synced' /\ synced' \in synced .. Len(written)
  /\ synced' = Len(written')
  /\ \A i \in DOMAIN written' : written'[i] = written[i]
  /\ runs' = runs + 1
  /\ UNCHANGED <<nextId, returned>>

LineStep ==
  \/ QuietStep
  \/ \E w \in Writers : FormatLine(w) \/ QueueLine(w) \/ WriteOwnLine(w) \/ ReturnLine(w)
  \/ TakeLine \/ WriteTaken \/ LoseLines

\* fputs finds the file open.
LEMMA FputsOpen ==
  ASSUME CtlInv, \/ FlusherWrite
                 \/ \E w \in Writers : WriteDirectly(w)
  PROVE  fp_.open /\ fp_.name # NoFile
<1>1. WritersOK /\ SharedOK /\ wr \in [Writers -> Locals]
  BY TypeParts DEF CtlInv, TypeInv, WritersOK
<1>2. \A w \in Writers : wr[w].pc # "open"
  <2>1. CASE FlusherWrite
    BY <1>1, <2>1, FreeMeansNobody DEF FlusherWrite, Critical
  <2>2. ASSUME NEW w \in Writers, WriteDirectly(w) PROVE wr[w].pc = "fputs"
    BY <1>1, <2>2, PcMoves
  <2> QED
    BY <1>1, <2>1, <2>2, MutualExclusion DEF Critical
<1>3. owner \notin {"boot", "init", "done"} \/ flusher = "write"
  <2>1. ASSUME NEW w \in Writers, WriteDirectly(w) PROVE owner = "run"
    BY <2>1, WriterRuns DEF CtlInv, WriterStep
  <2> QED
    BY <2>1 DEF FlusherWrite
<1>4. fp_.open
  BY <1>2, <1>3 DEF CtlInv, PhaseInv, OpenInv
<1>5. fp_.name \in Files
  BY <1>4 DEF CtlInv, TypeInv, LocalsInv
<1> QED
  BY <1>4, <1>5, Bounds DEF Files, NoFile

LEMMA FputsLine ==
  ASSUME SharedOK, NEW l \in Lines, NEW by \in {"writer", "flusher"}, Fputs(l, by),
         fp_.open, fp_.name # NoFile
  PROVE  WriteLine(l, by)
<1>1. /\ written' \in Seq(Records)
      /\ Len(written') = Len(written) + 1
      /\ \A i \in 1 .. Len(written) : written'[i] = written[i]
      /\ written'[Len(written) + 1] = [id |-> l.id, day |-> l.day, by |-> by,
                                       file |-> fp_.name]
  BY FputsTypes
<1>2. written \in Seq(Records)
  BY DEF SharedOK
<1> QED
  BY <1>1, <1>2 DEF WriteLine, Fputs

LEMMA WriterLineStep ==
  ASSUME CtlInv, NEW w \in Writers, CallLog(w) \/ WriterStep(w)
  PROVE  LineStep
<1>1. WritersOK /\ SharedOK /\ wr \in [Writers -> Locals] /\ LocalsOf(wr[w])
  BY TypeParts DEF CtlInv, TypeInv, WritersOK, LocalsInv
<1>2. OnlyWriter(w)
  BY <1>1, OthersStay DEF OnlyWriter
<1> USE DEF sharedVars, diskVars, otherVars, historyVars, ownerVars, flusherVars, dequeVars
<1>3. CASE Format(w)
  <2>1. wr'[w].line = [id |-> nextId, day |-> wr[w].day]
    BY <1>3, FormatTypes DEF CtlInv
  <2> QED
    BY <1>1, <1>2, <1>3, <2>1, PcMoves DEF Format, FormatLine, LineStep, HoldingPcs
<1>4. CASE Push(w)
  <2>1. deq_' = Append(deq_, wr[w].line) /\ deq_ \in Seq(Lines) /\ wr[w].line \in Lines
    BY <1>1, <1>4, PcMoves
    DEF Push, Q!push_back, Q!Insert, SharedOK, LocalsOf, ActivePcs, HoldingPcs
  <2>2. /\ DOMAIN deq_' = 1 .. Len(deq_) + 1
        /\ \A i \in DOMAIN deq_ : deq_'[i] = deq_[i]
        /\ deq_'[Len(deq_) + 1] = wr[w].line
    BY <2>1
  <2> QED
    BY <1>1, <1>2, <1>4, <2>2, PcMoves DEF Push, QueueLine, LineStep
<1>5. CASE WriteDirectly(w)
  <2>1. wr[w].line \in Lines
    BY <1>1, <1>5, PcMoves DEF LocalsOf, ActivePcs, HoldingPcs
  <2>2. WriteLine(wr[w].line, "writer")
    BY <1>1, <1>5, <2>1, FputsOpen, FputsLine DEF WriteDirectly
  <2> QED
    BY <1>1, <1>2, <1>5, <2>2, PcMoves DEF WriteDirectly, WriteOwnLine, LineStep
<1>6. CASE Fflush(w)
  BY <1>1, <1>2, <1>6, PcMoves, IdleIsLocal DEF Fflush, ReturnLine, LineStep
<1>7. CASE ~Format(w) /\ ~Push(w) /\ ~WriteDirectly(w) /\ ~Fflush(w)
  <2>1. /\ UNCHANGED <<deq_, written, nextId, returned, runs, str, flusher>>
        /\ synced' \in {synced, Len(written)}
    BY <1>7 DEF CallLog, WriterStep, RotateStep, Check, Relock, RotateTest,
       RotateDay, RotateZero, RotateClose, RotateOpen, Body, FlushNotify, FlushLoad,
       FlushAndClose, NotifyFlusher, Q!flush
  <2>2. /\ wr'[w].pc \in ActivePcs <=> wr[w].pc \in ActivePcs
        /\ wr'[w].pc \in HoldingPcs <=> wr[w].pc \in HoldingPcs
        /\ wr[w].pc \in ActivePcs => wr'[w].line = wr[w].line
    BY <1>1, <1>7, PcMoves DEF ActivePcs, HoldingPcs, WriterStep, RotateStep
  <2> QED
    BY <1>2, <2>1, <2>2 DEF QuietStep, OnlyWriter, LineStep
<1> QED
  BY <1>3, <1>4, <1>5, <1>6, <1>7

LEMMA OthersLineStep ==
  ASSUME CtlInv, OthersStep
  PROVE  LineStep
<1>1. WritersOK /\ SharedOK /\ wr \in [Writers -> Locals]
  BY TypeParts DEF CtlInv, TypeInv, WritersOK
<1>2. /\ \A v \in Writers : wr'[v].pc = wr[v].pc /\ wr'[v].line = wr[v].line
      /\ nextId' = nextId /\ returned' = returned
  BY <1>1, OthersWriters
<1> USE DEF sharedVars, diskVars, otherVars, historyVars, ownerVars, flusherVars, dequeVars
<1>3. CASE FlusherTake
  <2>1. deq_ \in Seq(Lines) /\ deq_' \in Seq(Lines)
    BY <1>1, <1>3, TakeTypes DEF SharedOK
  <2> QED
    BY <1>1, <1>3, <2>1, TakeTypes DEF FlusherTake, TakeLine, LineStep
<1>4. CASE FlusherWrite
  <2>1. str \in Lines
    BY <1>4 DEF FlusherWrite, CtlInv, TypeInv, LocalsInv
  <2>2. WriteLine(str, "flusher")
    BY <1>1, <1>4, <2>1, FputsOpen, FputsLine DEF FlusherWrite
  <2> QED
    BY <1>4, <2>2 DEF FlusherWrite, WriteTaken, LineStep
<1>5. CASE ~FlusherTake /\ ~FlusherWrite
  <2>1. deq_' = deq_
    <3>1. CASE CloseDeque
      BY <3>1 DEF CloseDeque, OwnerGoto, Q!CloseMark, Q!CloseNotify, CtlInv, PhaseInv,
         DestroyPlaces
    <3>2. CASE ~CloseDeque
      BY <1>5, <3>2 DEF OthersStep, FlusherStep, FlusherWait, FlusherExit, InitFields, InitFile,
         SetLevel, BeginDestroy, DestroyStep, Drain, Join, FinalClose, NextDay, Spurious, vars,
         FlushAndClose, NotifyFlusher, Q!flush, Q!PopWait, Q!PopClosed, Q!SpuriousWakeup
    <3> QED
      BY <3>1, <3>2
  <2>2. /\ UNCHANGED <<written, runs, str>> /\ synced' \in {synced, Len(written)}
        /\ flusher' = "write" <=> flusher = "write"
    BY <1>5 DEF OthersStep, FlusherStep, FlusherWait, FlusherExit, InitFields, InitFile,
       SetLevel, BeginDestroy, DestroyStep, Drain, CloseDeque, Join, FinalClose, NextDay,
       Spurious, vars, OwnerGoto, FlushAndClose
  <2> QED
    BY <1>2, <2>1, <2>2 DEF QuietStep, LineStep
<1> QED
  BY <1>3, <1>4, <1>5

LEMMA CrashLineStep ==
  ASSUME CtlInv, Crash
  PROVE  LoseLines
<1>1. SharedOK
  BY TypeParts DEF CtlInv, TypeInv
<1>2. \A w \in Writers : wr'[w].pc = "idle"
  BY IdleIsLocal DEF Crash
<1>3. /\ written' \in Seq(Records) /\ Len(written') <= Len(written)
      /\ synced' = Len(written') /\ synced <= synced'
      /\ \A i \in 1 .. Len(written') : written'[i] = written[i]
  BY <1>1, CrashTypes
<1>4. written \in Seq(Records) /\ synced \in 0 .. Len(written)
  BY <1>1 DEF SharedOK
<1>5. DOMAIN written' = 1 .. synced' /\ synced' \in synced .. Len(written)
  BY <1>3, <1>4
<1> QED
  BY <1>2, <1>3, <1>5 DEF LoseLines, Crash, historyVars

LEMMA NextLineStep ==
  ASSUME CtlInv, [Next]_vars
  PROVE  LineStep
  BY NextSteps, WriterLineStep, OthersLineStep, CrashLineStep DEF LineStep

\* Nothing is written to a closed file, although a rotation closes the file in one
\* step and opens the next in another.
THEOREM FputsFindsFile == Spec => []FputsToOpenFile
<1>1. Init => FputsToOpenFile
  BY DEF Init, FputsToOpenFile
<1>2. CtlInv /\ FputsToOpenFile /\ [Next]_vars => FputsToOpenFile'
  <2> SUFFICES ASSUME CtlInv, FputsToOpenFile, [Next]_vars PROVE FputsToOpenFile'
    OBVIOUS
  <2>1. written \in Seq(Records) /\ DOMAIN written = 1 .. Len(written)
    BY TypeParts DEF CtlInv, TypeInv, SharedOK
  <2>2. CASE written' = written
    BY <2>2 DEF FputsToOpenFile
  <2>3. ASSUME NEW l, NEW by, WriteLine(l, by) PROVE FputsToOpenFile'
    BY <2>1, <2>3 DEF FputsToOpenFile, WriteLine
  <2>4. CASE LoseLines
    BY <2>1, <2>4 DEF FputsToOpenFile, LoseLines
  <2> QED
    BY <2>2, <2>3, <2>4, NextLineStep DEF LineStep, QuietStep, FormatLine, QueueLine,
       WriteOwnLine, ReturnLine, TakeLine, WriteTaken
<1> QED
  BY <1>1, <1>2, AlwaysCtlInv, PTL DEF Spec
=============================================================================
