----------------------------- MODULE LogFileProofs -----------------------------
(***************************************************************************)
(* Proofs about the files that one writer's lines go to.                   *)
(***************************************************************************)
EXTENDS LogProofs

-----------------------------------------------------------------------------
(***************************************************************************)
(* The day of the file.                                                    *)
(***************************************************************************)

\* The current file is of a day with the number toDay_, that of the last rotation or
\* init, and a writer on its way to the file leaves it with the date that it read, or
\* with an earlier one of the same number.
WriterDays(w) ==
  /\ wr[w].day <= day
  /\ wr[w].pc \in EnteringPcs => fp_.name.day <= wr[w].day
  /\ owner = "run" /\ wr[w].pc \notin {"zero", "close", "open"} => toDay_ = Mday[fp_.name.day]
  /\ wr[w].pc \in {"zero", "close", "open"} => toDay_ = Mday[wr[w].day]
  /\ wr[w].pc \in RotatingPcs => wr[w].file.day = wr[w].day
  /\ wr[w].pc \in {"body", "format"} => Mday[wr[w].day] = Mday[fp_.name.day]

\* The current file is never of a day to come, nor is init's.
DayInv ==
  /\ fp_.name.day <= day
  /\ initDay <= day
  /\ owner = "init" => fp_.name.day <= initDay /\ toDay_ = Mday[initDay]
  /\ \A w \in Writers : WriterDays(w)

LEMMA DaysTyped ==
  ASSUME CtlInv
  PROVE  /\ wr \in [Writers -> Locals]
         /\ day \in Nat /\ initDay \in Nat /\ fp_.name.day \in Nat
         /\ \A w \in Writers : wr[w].day \in Nat /\ wr[w].file.day \in Nat
<1>1. WritersOK /\ SharedOK
  BY TypeParts DEF CtlInv, TypeInv
<1>2. \A f \in Files \cup {NoFile} : f.day \in Nat
  BY DEF Files, NoFile
<1>4. day \in Nat /\ initDay \in Nat /\ fp_.name \in Files \cup {NoFile}
  BY <1>1, Bounds DEF SharedOK
<1>7. \A w \in Writers : wr[w].day \in 0 .. MaxDay /\ wr[w].file \in Files \cup {NoFile}
  BY <1>1 DEF WritersOK, Locals
<1> QED
  BY <1>1, <1>2, <1>4, <1>7, Bounds DEF WritersOK

\* What the actions of the macro do to the locals, besides moving the writer.
LEMMA LocalsMove ==
  ASSUME wr \in [Writers -> Locals], NEW w \in Writers
  PROVE  /\ CallLog(w) => wr'[w].day = day
         /\ RotateTest(w) => wr'[w].day = wr[w].day /\ wr'[w].file = NewFile(w)
         /\ Check(w) \/ Relock(w) => wr'[w].day = wr[w].day
         /\ RotateDay(w) \/ RotateZero(w) \/ RotateClose(w)
              => wr'[w].day = wr[w].day /\ wr'[w].file = wr[w].file
         /\ RotateOpen(w) => wr'[w].day = wr[w].day
         /\ Body(w) => wr'[w].day = wr[w].day /\ wr'[w].count = lineCount_
         /\ Format(w) => wr'[w].day = 0 /\ wr'[w].line = [id |-> nextId, day |-> wr[w].day]
         /\ Push(w) \/ WriteDirectly(w) \/ FlushNotify(w) \/ FlushLoad(w)
              => wr'[w].day = wr[w].day
         /\ Fflush(w) => wr'[w].day = 0
<1> USE DEF Goto, Locals
<1>0. Idle.day = 0 /\ Idle \in Locals
  BY IdleIsLocal DEF Idle
<1>1. CallLog(w) => wr'[w].day = day
  BY <1>0 DEF CallLog
<1>2. RotateTest(w) => wr'[w].day = wr[w].day /\ wr'[w].file = NewFile(w)
  BY DEF RotateTest
<1>3. Check(w) \/ Relock(w) => wr'[w].day = wr[w].day
  BY DEF Check, Relock
<1>4. RotateDay(w) \/ RotateZero(w) \/ RotateClose(w)
        => wr'[w].day = wr[w].day /\ wr'[w].file = wr[w].file
  BY DEF RotateDay, RotateZero, RotateClose, Dangling
<1>5. RotateOpen(w) => wr'[w].day = wr[w].day
  BY DEF RotateOpen
<1>6. Body(w) => wr'[w].day = wr[w].day /\ wr'[w].count = lineCount_
  BY DEF Body
<1>7. Format(w) => wr'[w].day = 0 /\ wr'[w].line = [id |-> nextId, day |-> wr[w].day]
  BY <1>0 DEF Format
<1>8. Push(w) \/ WriteDirectly(w) \/ FlushNotify(w) \/ FlushLoad(w) => wr'[w].day = wr[w].day
  BY DEF Push, WriteDirectly, FlushNotify, FlushLoad
<1>9. Fflush(w) => wr'[w].day = 0
  BY <1>0 DEF Fflush
<1> QED
  BY <1>1, <1>2, <1>3, <1>4, <1>5, <1>6, <1>7, <1>8, <1>9

\* The writer's own steps: it names the file after the date that it read.
LEMMA WriterDayInv ==
  ASSUME CtlInv, DayInv, NEW w, Writers = {w}, CallLog(w) \/ WriterStep(w)
  PROVE  DayInv'
<1>1. /\ wr \in [Writers -> Locals] /\ w \in Writers
      /\ day \in Nat /\ initDay \in Nat /\ fp_.name.day \in Nat
      /\ wr[w].day \in Nat /\ wr[w].file.day \in Nat
  BY DaysTyped
<1>2. fp_.name.day <= day /\ initDay <= day /\ WriterDays(w)
  BY <1>1 DEF DayInv
<1>3. owner = "run" /\ owner' = "run" /\ UNCHANGED <<initDay, day>>
  BY <1>1, WriterRuns DEF CtlInv, CallLog, WriterStep, RotateStep, Check, Relock, RotateTest, RotateDay,
     RotateZero, RotateClose, RotateOpen, Body, Format, Push, WriteDirectly, FlushNotify,
     FlushLoad, Fflush, otherVars, ownerVars
<1>4. SUFFICES fp_'.name.day <= day /\ WriterDays(w)'
  BY <1>1, <1>2, <1>3 DEF DayInv
<1> USE DEF EnteringPcs, RotatingPcs
<1>5. CASE CallLog(w)
  <2>1. UNCHANGED <<fp_, toDay_>>
    BY <1>5 DEF CallLog, sharedVars
  <2> QED
    BY <1>1, <1>2, <1>3, <1>5, <2>1, PcMoves, LocalsMove DEF WriterDays
<1>6. CASE Check(w) \/ Relock(w)
  <2>1. UNCHANGED <<fp_, toDay_>>
    BY <1>6 DEF Check, Relock, sharedVars
  <2>2. wr[w].pc \in {"check", "relock"} /\ wr'[w].pc \in {"relock", "test", "body"}
        /\ (wr'[w].pc = "body" => toDay_ = Mday[wr[w].day])
    <3>1. CASE Check(w)
      BY <1>1, <3>1, PcMoves DEF Check, MustRotate, AnotherDay, Goto, Locals
    <3>2. CASE Relock(w)
      BY <1>1, <3>2, PcMoves
    <3> QED
      BY <1>6, <3>1, <3>2
  <2> QED
    BY <1>1, <1>2, <1>3, <1>6, <2>1, <2>2, LocalsMove DEF WriterDays
<1>7. CASE RotateTest(w)
  <2>1. UNCHANGED <<fp_, toDay_>>
    BY <1>7 DEF RotateTest, sharedVars
  <2>2. wr[w].pc = "test" /\ wr'[w].pc \in {"day", "close"}
        /\ (wr'[w].pc = "close" => toDay_ = Mday[wr[w].day])
    BY <1>1, <1>7, PcMoves DEF RotateTest, AnotherDay, Goto, Locals
  <2>3. NewFile(w).day = wr[w].day
    BY DEF NewFile
  <2> QED
    BY <1>1, <1>2, <1>3, <1>7, <2>1, <2>2, <2>3, LocalsMove DEF WriterDays
<1>8. CASE RotateDay(w)
  <2>1. fp_' = fp_ /\ toDay_' = Mday[wr[w].day]
    BY <1>8 DEF RotateDay
  <2> QED
    BY <1>1, <1>2, <1>3, <1>8, <2>1, PcMoves, LocalsMove DEF WriterDays
<1>9. CASE RotateZero(w)
  <2>1. UNCHANGED <<fp_, toDay_>>
    BY <1>9 DEF RotateZero
  <2> QED
    BY <1>1, <1>2, <1>3, <1>9, <2>1, PcMoves, LocalsMove DEF WriterDays
<1>10. CASE RotateClose(w)
  <2>1. toDay_' = toDay_ /\ fp_'.name = fp_.name
    <3>1. fp_ \in [name : Files \cup {NoFile}, open : BOOLEAN]
      BY TypeParts DEF CtlInv, TypeInv, SharedOK
    <3> QED
      BY <1>10, <3>1 DEF RotateClose
  <2> QED
    BY <1>1, <1>2, <1>3, <1>10, <2>1, PcMoves, LocalsMove DEF WriterDays
<1>11. CASE RotateOpen(w)
  <2>1. toDay_' = toDay_ /\ fp_'.name.day = wr[w].file.day
    BY <1>11 DEF RotateOpen
  <2>2. wr[w].pc = "open" /\ wr'[w].pc = "body" /\ wr'[w].day = wr[w].day
    BY <1>1, <1>11, PcMoves, LocalsMove
  <2>3. fp_'.name.day = wr[w].day /\ toDay_ = Mday[wr[w].day] /\ wr[w].day <= day
    BY <1>2, <2>1, <2>2 DEF WriterDays
  <2> QED
    BY <1>1, <1>3, <2>1, <2>2, <2>3 DEF WriterDays
<1>12. CASE Body(w)
  <2>1. UNCHANGED <<fp_, toDay_>>
    BY <1>12 DEF Body, sharedVars
  <2> QED
    BY <1>1, <1>2, <1>3, <1>12, <2>1, PcMoves, LocalsMove DEF WriterDays
<1>13. CASE Format(w) \/ Push(w) \/ WriteDirectly(w) \/ FlushNotify(w) \/ FlushLoad(w)
              \/ Fflush(w)
  <2>1. UNCHANGED <<fp_, toDay_>>
    BY <1>13 DEF Format, Push, WriteDirectly, FlushNotify, FlushLoad, Fflush, sharedVars
  <2>2. wr[w].pc \notin {"zero", "close", "open"} /\ wr[w].day <= day
        /\ wr'[w].pc \in {"push", "fputs", "notify", "load", "fflush", "idle"}
    BY <1>1, <1>2, <1>13, PcMoves, IdleIsLocal DEF HoldingPcs, WriterDays
  <2>3. wr'[w].day \in {0, wr[w].day}
    BY <1>1, <1>13, LocalsMove
  <2> QED
    BY <1>1, <1>2, <1>3, <2>1, <2>2, <2>3 DEF WriterDays
<1> QED
  BY <1>5, <1>6, <1>7, <1>8, <1>9, <1>10, <1>11, <1>12, <1>13 DEF WriterStep, RotateStep

LEMMA OthersDayInv ==
  ASSUME CtlInv, DayInv, OthersStep
  PROVE  DayInv'
<1>1. /\ wr \in [Writers -> Locals]
      /\ day \in Nat /\ initDay \in Nat /\ fp_.name.day \in Nat
      /\ \A w \in Writers : wr[w].day \in Nat /\ wr[w].file.day \in Nat
  BY DaysTyped
<1>2. \A w \in Writers : /\ wr'[w].pc = wr[w].pc /\ wr'[w].day = wr[w].day
                         /\ wr'[w].file = wr[w].file
  BY <1>1, OthersWriters
<1>3. /\ fp_.name.day <= day /\ initDay <= day
      /\ owner = "init" => fp_.name.day <= initDay /\ toDay_ = Mday[initDay]
      /\ \A w \in Writers : WriterDays(w)
  BY DEF DayInv
<1> USE DEF EnteringPcs, RotatingPcs
<1>4. ASSUME owner # "run" \/ AllIdle
      PROVE  \A w \in Writers : wr[w].pc = "idle" /\ wr[w].day <= day
  BY <1>3, <1>4, IdleIsLocal DEF CtlInv, PhaseInv, AllIdle, WriterDays
<1>5. CASE InitFields
  <2>1. owner' = "init" /\ toDay_' = Mday[day] /\ initDay' = day /\ UNCHANGED <<fp_, day>>
    BY <1>5 DEF InitFields
  <2>2. \A w \in Writers : wr[w].pc = "idle" /\ wr[w].day <= day
    BY <1>4, <1>5 DEF InitFields
  <2>3. \A w \in Writers : WriterDays(w)'
    BY <1>1, <1>2, <2>1, <2>2 DEF WriterDays
  <2> QED
    BY <1>1, <1>3, <2>1, <2>3 DEF DayInv
<1>6. CASE InitFile
  <2>1. /\ owner = "init" /\ owner' = "run" /\ fp_'.name.day = initDay /\ initDay' = 0
        /\ UNCHANGED <<day, toDay_>>
    BY <1>6 DEF InitFile
  <2>2. \A w \in Writers : WriterDays(w)'
    BY <1>1, <1>2, <1>3, <1>4, <2>1 DEF WriterDays
  <2> QED
    BY <1>1, <1>3, <2>1, <2>2 DEF DayInv
<1>7. CASE ~InitFields /\ ~InitFile
  <2>1. /\ fp_'.name = fp_.name /\ toDay_' = toDay_ /\ initDay' = initDay
        /\ day' \in Nat /\ day <= day'
        /\ owner' = "init" => owner = "init"
        /\ owner' = "run" => owner = "run"
    <3>1. fp_ \in [name : Files \cup {NoFile}, open : BOOLEAN] /\ day \in Nat
      BY TypeParts, <1>1 DEF CtlInv, TypeInv, SharedOK
    <3>2. CASE FinalClose
      BY <3>1, <3>2 DEF FinalClose, OwnerGoto
    <3>3. CASE NextDay
      BY <3>1, <3>3 DEF NextDay, ownerVars, sharedVars
    <3>4. CASE ~FinalClose /\ ~NextDay
      <4>1. fp_' = fp_ /\ toDay_' = toDay_ /\ day' = day
        BY <1>7, <3>4 DEF OthersStep, FlusherStep, FlusherTake, FlusherWait, FlusherExit,
         FlusherWrite, SetLevel, BeginDestroy, DestroyStep, Drain, CloseDeque, Join,
         Spurious, vars, otherVars, sharedVars
      <4>2. initDay' = initDay /\ (owner' = "init" => owner = "init")
            /\ (owner' = "run" => owner = "run")
       BY <1>7, <3>4 DEF OthersStep, FlusherStep, FlusherTake, FlusherWait, FlusherExit,
         FlusherWrite, SetLevel, BeginDestroy, DestroyStep, Drain, CloseDeque, Join,
         Spurious, vars, otherVars, ownerVars, OwnerGoto
      <4> QED
        BY <3>1, <4>1, <4>2
    <3> QED
      BY <3>2, <3>3, <3>4
  <2>2. \A w \in Writers : WriterDays(w)'
    BY <1>1, <1>2, <1>3, <2>1 DEF WriterDays
  <2> QED
    BY <1>1, <1>3, <2>1, <2>2 DEF DayInv
<1> QED
  BY <1>5, <1>6, <1>7

LEMMA CrashDayInv ==
  ASSUME CtlInv, Crash
  PROVE  DayInv'
<1>1. /\ day \in Nat /\ day' = day /\ fp_'.name.day = 0 /\ owner' = "boot" /\ initDay' = 0
  BY DaysTyped DEF Crash, NoFile
<1>2. \A w \in Writers : wr'[w].pc = "idle" /\ wr'[w].day = 0
  BY IdleIsLocal DEF Crash, Idle
<1> QED
  BY <1>1, <1>2 DEF DayInv, WriterDays, EnteringPcs, RotatingPcs

LEMMA InitDayInv ==
  ASSUME Init
  PROVE  DayInv
<1>1. \A w \in Writers : wr[w].pc = "idle" /\ wr[w].day = 0
  BY IdleIsLocal DEF Init, ProcessInit, Idle
<1>2. owner = "boot" /\ initDay = 0 /\ day = 1 /\ fp_.name.day = 0
  BY DEF Init, ProcessInit, NoFile
<1> QED
  BY <1>1, <1>2 DEF DayInv, WriterDays, EnteringPcs, RotatingPcs

-----------------------------------------------------------------------------
(***************************************************************************)
(* The days of the lines and of their files.                               *)
(***************************************************************************)

\* The days of the lines that are written or on their way.
LineDays ==
  {written[i].day : i \in DOMAIN written}
    \cup {deq_[i].day : i \in DOMAIN deq_}
    \cup {str.day : f \in {g \in {flusher} : g = "write"}}
    \cup {wr[v].line.day : v \in {u \in Writers : wr[u].pc \in HoldingPcs}}

\* No line is of a day to come, and none is of a later day than the line that
\* writer w is about to format or than the file that init is about to open.
NoLaterLine(w) ==
  \A d \in LineDays :
    /\ d <= day
    /\ wr[w].pc \in EnteringPcs => d <= wr[w].day
    /\ owner = "init" => d <= initDay

\* The lines from the date of the current file on are all of days with its number.
LinesOfCurrent ==
  \A d \in LineDays :
    fp_.name # NoFile /\ fp_.name.day <= d => Mday[d] = Mday[fp_.name.day]

\* The same for a file that a line went to, up to the date of that line: also of
\* the lines that are still to be written.
LinesOfFiles ==
  \A i \in DOMAIN written : \A d \in LineDays :
    written[i].file.day <= d /\ d <= written[i].day
      => written[i].file # NoFile /\ Mday[d] = Mday[written[i].file.day]

LineDayInv(w) == NoLaterLine(w) /\ LinesOfCurrent /\ LinesOfFiles

LEMMA LineDaysTyped ==
  ASSUME CtlInv
  PROVE  /\ LineDays \subseteq Nat
         /\ \A i \in DOMAIN written : /\ written[i].file.day \in Nat
                                      /\ written[i].day \in LineDays
         /\ fp_.name \in Files \cup {NoFile}
<1>1. SharedOK /\ wr \in [Writers -> Locals]
  BY TypeParts DEF CtlInv, TypeInv, WritersOK
<1>2. \A l \in Lines \cup {NoLine} : l.day \in Nat
  BY DEF Lines, NoLine
<1>3. \A i \in DOMAIN written : written[i].day \in Nat /\ written[i].file.day \in Nat
  <2>1. written \in Seq(Records)
    BY <1>1 DEF SharedOK
  <2>2. \A i \in DOMAIN written : written[i] \in Records
    BY <2>1
  <2> QED
    BY <2>2 DEF Records, Files, NoFile
<1>4. \A i \in DOMAIN deq_ : deq_[i].day \in Nat
  <2>1. deq_ \in Seq(Lines)
    BY <1>1 DEF SharedOK
  <2>2. \A i \in DOMAIN deq_ : deq_[i] \in Lines
    BY <2>1
  <2> QED
    BY <1>2, <2>2
<1>5. str.day \in Nat /\ \A v \in Writers : wr[v].line.day \in Nat
  BY <1>1, <1>2 DEF SharedOK, Locals
<1>6. fp_.name \in Files \cup {NoFile}
  BY <1>1 DEF SharedOK
<1> QED
  BY <1>3, <1>4, <1>5, <1>6 DEF LineDays

\* The lines that there are after a step were there before, but for the one that
\* Format has made.
LEMMA LineDaysStep ==
  ASSUME CtlInv, [Next]_vars
  PROVE  \/ LineDays' \subseteq LineDays
         \/ \E w \in Writers : FormatLine(w) /\ LineDays' \subseteq LineDays \cup {wr[w].day}
<1>1. DOMAIN written = 1 .. Len(written) /\ Len(written) \in Nat
      /\ DOMAIN deq_ = 1 .. Len(deq_) /\ Len(deq_) \in Nat
  BY TypeParts DEF CtlInv, TypeInv, SharedOK
<1> USE DEF LineDays, ActivePcs, HoldingPcs
<1>2. CASE QuietStep
  BY <1>2 DEF QuietStep
<1>3. ASSUME NEW w \in Writers, FormatLine(w)
      PROVE  LineDays' \subseteq LineDays \cup {wr[w].day}
  BY <1>3 DEF FormatLine, OnlyWriter
<1>4. ASSUME NEW w \in Writers, QueueLine(w)
      PROVE  LineDays' \subseteq LineDays
  BY <1>1, <1>4 DEF QueueLine, OnlyWriter
<1>5. ASSUME NEW w \in Writers, WriteOwnLine(w)
      PROVE  LineDays' \subseteq LineDays
  BY <1>1, <1>5 DEF WriteOwnLine, OnlyWriter, WriteLine
<1>6. ASSUME NEW w \in Writers, ReturnLine(w)
      PROVE  LineDays' \subseteq LineDays
  BY <1>6 DEF ReturnLine, OnlyWriter
<1>7. CASE TakeLine
  <2>1. /\ \A i \in DOMAIN deq_' : i + 1 \in DOMAIN deq_ /\ deq_'[i] = deq_[i + 1]
        /\ 1 \in DOMAIN deq_ /\ str' = deq_[1]
    BY <1>1, <1>7 DEF TakeLine
  <2> QED
    BY <1>7, <2>1 DEF TakeLine
<1>8. CASE WriteTaken
  BY <1>1, <1>8 DEF WriteTaken, WriteLine
<1>9. CASE LoseLines
  <2>1. \A i \in DOMAIN written' : i \in DOMAIN written /\ written'[i] = written[i]
    BY <1>1, <1>9, TypeParts DEF LoseLines, CtlInv, TypeInv, SharedOK
  <2> QED
    BY <1>9, <2>1 DEF LoseLines
<1> QED
  BY <1>2, <1>3, <1>4, <1>5, <1>6, <1>7, <1>8, <1>9, NextLineStep DEF LineStep

\* What is written was on its way, and goes to the current file.
LEMMA WrittenStep ==
  ASSUME CtlInv, [Next]_vars
  PROVE  \A i \in DOMAIN written' :
           \/ i \in DOMAIN written /\ written'[i] = written[i]
           \/ /\ written'[i].day \in LineDays
              /\ written'[i].file = fp_.name /\ fp_.name # NoFile
<1>1. DOMAIN written = 1 .. Len(written) /\ Len(written) \in Nat /\ synced \in Nat
  BY TypeParts DEF CtlInv, TypeInv, SharedOK
<1>2. CASE written' = written
  BY <1>2
<1>3. ASSUME NEW l, NEW by, WriteLine(l, by), l.day \in LineDays
      PROVE  \A i \in DOMAIN written' :
               \/ i \in DOMAIN written /\ written'[i] = written[i]
               \/ /\ written'[i].day \in LineDays
                  /\ written'[i].file = fp_.name /\ fp_.name # NoFile
  BY <1>1, <1>3 DEF WriteLine
<1>4. ASSUME NEW w \in Writers, WriteOwnLine(w)
      PROVE  wr[w].line.day \in LineDays
  BY <1>4 DEF WriteOwnLine, LineDays, HoldingPcs
<1>5. WriteTaken => str.day \in LineDays
  BY DEF WriteTaken, LineDays
<1>6. CASE LoseLines
  BY <1>1, <1>6 DEF LoseLines
<1> QED
  BY <1>2, <1>3, <1>4, <1>5, <1>6, NextLineStep
  DEF LineStep, QuietStep, FormatLine, QueueLine, WriteOwnLine, ReturnLine, TakeLine, WriteTaken

\* The date of the current file changes only to the latest of all.
LEMMA CurrentFileStep ==
  ASSUME CtlInv, DayInv, NEW w, Writers = {w}, NoLaterLine(w), [Next]_vars
  PROVE  \/ fp_'.name \in {fp_.name, NoFile}
         \/ /\ LineDays' \subseteq LineDays
            /\ \A d \in LineDays : d <= fp_'.name.day
<1>1. /\ wr \in [Writers -> Locals] /\ w \in Writers
      /\ fp_ \in [name : Files \cup {NoFile}, open : BOOLEAN]
  BY TypeParts DEF CtlInv, TypeInv, WritersOK, SharedOK
<1>2. CASE RotateOpen(w)
  <2>1. wr[w].pc = "open" /\ wr'[w].pc = "body" /\ fp_'.name = wr[w].file
    BY <1>1, <1>2, PcMoves DEF RotateOpen
  <2>2. fp_'.name.day = wr[w].day
    BY <1>1, <2>1 DEF DayInv, WriterDays, RotatingPcs
  <2>3. ~FormatLine(w)
    BY <2>1 DEF FormatLine
  <2> QED
    BY <2>1, <2>2, <2>3, LineDaysStep DEF NoLaterLine, EnteringPcs
<1>3. CASE InitFile
  <2>1. owner = "init" /\ fp_'.name.day = initDay
    BY <1>3 DEF InitFile
  <2>2. ~FormatLine(w)
    <3>1. wr[w].pc = "idle"
      BY <1>1, <2>1, IdleIsLocal DEF CtlInv, PhaseInv, AllIdle
    <3> QED
      BY <3>1 DEF FormatLine
  <2> QED
    BY <2>1, <2>2, LineDaysStep DEF NoLaterLine
<1>4. CASE ~RotateOpen(w) /\ ~InitFile
  <2>1. ASSUME CallLog(w) \/ WriterStep(w) PROVE fp_'.name = fp_.name
    BY <1>1, <1>4, <2>1 DEF CallLog, WriterStep, RotateStep, Check, Relock, RotateTest, RotateDay,
       RotateZero, RotateClose, Body, Format, Push, WriteDirectly, FlushNotify, FlushLoad, Fflush,
       sharedVars
  <2>2. ASSUME OthersStep PROVE fp_'.name = fp_.name
    BY <1>1, <1>4, <2>2 DEF OthersStep, FlusherStep, FlusherTake, FlusherWait, FlusherExit,
       FlusherWrite, InitFields, SetLevel, BeginDestroy, DestroyStep, Drain, CloseDeque, Join,
       FinalClose, NextDay, Spurious, vars, sharedVars
  <2>3. Crash => fp_'.name = NoFile
    BY DEF Crash
  <2> QED
    BY <1>1, <2>1, <2>2, <2>3, NextSteps
<1> QED
  BY <1>2, <1>3, <1>4

\* A line is formatted on a day that is not before those of the other lines: the
\* clock does not go back while its writer is on the way to the file.
LEMMA NextNoLaterLine ==
  ASSUME CtlInv, DayInv, NEW w, Writers = {w}, NoLaterLine(w), [Next]_vars
  PROVE  NoLaterLine(w)'
<1>1. /\ wr \in [Writers -> Locals] /\ w \in Writers
      /\ day \in Nat /\ initDay \in Nat /\ wr[w].day \in Nat /\ LineDays \subseteq Nat
  BY DaysTyped, LineDaysTyped
<1>2. WriterDays(w)
  BY <1>1 DEF DayInv
<1>3. \A d \in LineDays' :
        d \in LineDays \/ (FormatLine(w) /\ d = wr[w].day)
  BY LineDaysStep
<1>4. CASE CallLog(w) \/ WriterStep(w)
  <2>1. owner' = "run" /\ day' = day
    BY <1>1, <1>4, WriterRuns DEF CtlInv, CallLog, WriterStep, RotateStep, Check, Relock,
       RotateTest, RotateDay, RotateZero, RotateClose, RotateOpen, Body, Format, Push,
       WriteDirectly, FlushNotify, FlushLoad, Fflush, otherVars
  <2>2. wr'[w].pc \in EnteringPcs =>
          \/ CallLog(w) /\ wr'[w].day = day
          \/ wr[w].pc \in EnteringPcs /\ wr'[w].day = wr[w].day
    BY <1>1, <1>4, PcMoves, LocalsMove, IdleIsLocal
    DEF WriterStep, RotateStep, EnteringPcs, HoldingPcs
  <2>3. FormatLine(w) => wr'[w].pc \notin EnteringPcs /\ wr[w].day <= day
    BY <1>2 DEF FormatLine, WriterDays, HoldingPcs, EnteringPcs
  <2>4. CASE CallLog(w)
    <3>1. ~FormatLine(w)
      BY <1>1, <2>4, PcMoves DEF FormatLine
    <3> QED
      BY <1>1, <1>3, <2>1, <2>2, <3>1 DEF NoLaterLine
  <2>5. CASE ~CallLog(w)
    BY <1>1, <1>3, <2>1, <2>2, <2>3, <2>5 DEF NoLaterLine
  <2> QED
    BY <2>4, <2>5
<1>5. CASE OthersStep
  <2>1. wr'[w].pc = wr[w].pc /\ wr'[w].day = wr[w].day
    BY <1>1, <1>5, OthersWriters
  <2>2. ~FormatLine(w)
    BY <2>1 DEF FormatLine, HoldingPcs
  <2>3. day' \in Nat /\ day <= day'
    <3>1. NextDay \/ day' = day
      BY <1>5 DEF OthersStep, FlusherStep, FlusherTake, FlusherWait, FlusherExit,
         FlusherWrite, InitFields, InitFile, SetLevel, BeginDestroy, DestroyStep, Drain,
         CloseDeque, Join, FinalClose, Spurious, vars, otherVars
    <3> QED
      BY <1>1, <3>1 DEF NextDay
  <2>4. owner' = "init" => \/ initDay' = day
                           \/ owner = "init" /\ initDay' = initDay
    BY <1>5 DEF OthersStep, FlusherStep, FlusherTake, FlusherWait, FlusherExit,
       FlusherWrite, InitFields, InitFile, SetLevel, BeginDestroy, DestroyStep, Drain, CloseDeque,
       Join, FinalClose, NextDay, Spurious, vars, otherVars, ownerVars, OwnerGoto
  <2> SUFFICES ASSUME NEW d \in LineDays'
               PROVE  /\ d <= day'
                      /\ wr'[w].pc \in EnteringPcs => d <= wr'[w].day
                      /\ owner' = "init" => d <= initDay'
    BY DEF NoLaterLine, EnteringPcs
  <2>5. d \in LineDays /\ d \in Nat
    BY <1>1, <1>3, <2>2
  <2> QED
    BY <1>1, <2>1, <2>3, <2>4, <2>5 DEF NoLaterLine
<1>6. CASE Crash
  <2>1. wr'[w].pc = "idle" /\ owner' = "boot" /\ day' = day
    BY <1>1, <1>6, IdleIsLocal DEF Crash
  <2>2. ~FormatLine(w)
    BY <2>1 DEF FormatLine, HoldingPcs
  <2> QED
    BY <1>1, <1>3, <2>1, <2>2 DEF NoLaterLine, EnteringPcs
<1> QED
  BY <1>4, <1>5, <1>6, NextSteps

LEMMA NextLineDayInv ==
  ASSUME CtlInv, CtlInv', DayInv, NEW w, Writers = {w}, LineDayInv(w), [Next]_vars
  PROVE  LineDayInv(w)'
<1>1. /\ wr \in [Writers -> Locals] /\ w \in Writers /\ fp_.name.day \in Nat
      /\ LineDays \subseteq Nat /\ wr[w].day \in Nat
      /\ \A i \in DOMAIN written : /\ written[i].file.day \in Nat
                                   /\ written[i].day \in LineDays
  BY DaysTyped, LineDaysTyped
<1>0. fp_'.name.day \in Nat
  <2>1. fp_'.name \in Files \cup {NoFile}
    BY TypePartsNext DEF CtlInv, TypeInv, SharedOK
  <2> QED
    BY <2>1 DEF Files, NoFile
<1>2. NoLaterLine(w) /\ LinesOfCurrent /\ LinesOfFiles
  BY DEF LineDayInv
<1>3. NoLaterLine(w)'
  BY <1>2, NextNoLaterLine
\* The line that Format makes is not before any other.
<1>4. \A e \in LineDays' \ LineDays :
        /\ FormatLine(w) /\ e = wr[w].day /\ e \in Nat
        /\ Mday[e] = Mday[fp_.name.day]
        /\ \A d \in LineDays : d <= e
  <2>1. FormatLine(w) => /\ Mday[wr[w].day] = Mday[fp_.name.day]
                         /\ \A d \in LineDays : d <= wr[w].day
    BY <1>1, <1>2 DEF FormatLine, DayInv, WriterDays, NoLaterLine, EnteringPcs
  <2>2. \A e \in LineDays' \ LineDays : FormatLine(w) /\ e = wr[w].day
    BY LineDaysStep
  <2> QED
    BY <1>1, <2>1, <2>2
<1>5. LinesOfCurrent'
  <2>1. CASE fp_'.name = fp_.name
    BY <1>1, <1>2, <1>4, <2>1 DEF LinesOfCurrent
  <2>2. CASE fp_'.name = NoFile
    BY <2>2 DEF LinesOfCurrent
  <2>3. ASSUME LineDays' \subseteq LineDays, \A d \in LineDays : d <= fp_'.name.day
        PROVE  LinesOfCurrent'
    <3> SUFFICES ASSUME NEW d \in LineDays', fp_'.name.day <= d PROVE d = fp_'.name.day
      BY DEF LinesOfCurrent
    <3>1. d \in Nat /\ d <= fp_'.name.day
      BY <1>1, <2>3
    <3> QED
      BY <1>0, <3>1
  <2> QED
    BY <1>2, <2>1, <2>2, <2>3, CurrentFileStep
<1>6. LinesOfFiles'
  <2> SUFFICES ASSUME NEW i \in DOMAIN written', NEW d \in LineDays',
                      written'[i].file.day <= d, d <= written'[i].day
               PROVE  written'[i].file # NoFile /\ Mday[d] = Mday[written'[i].file.day]
    BY DEF LinesOfFiles
  <2>1. CASE i \in DOMAIN written /\ written'[i] = written[i]
    <3>1. CASE d \in LineDays
      BY <1>2, <2>1, <3>1 DEF LinesOfFiles
    <3>2. CASE d \notin LineDays
      <4>1. written[i].day \in LineDays /\ written[i].day \in Nat
        BY <1>1, <2>1
      <4>2. d \in Nat /\ written[i].day <= d
        BY <1>4, <3>2, <4>1
      <4> QED
        BY <2>1, <3>2, <4>1, <4>2
    <3> QED
      BY <3>1, <3>2
  <2>2. CASE /\ written'[i].day \in LineDays
             /\ written'[i].file = fp_.name /\ fp_.name # NoFile
    <3>1. CASE d \in LineDays
      BY <1>2, <2>2, <3>1 DEF LinesOfCurrent
    <3>2. CASE d \notin LineDays
      BY <1>4, <2>2, <3>2
    <3> QED
      BY <3>1, <3>2
  <2> QED
    BY <2>1, <2>2, WrittenStep
<1> QED
  BY <1>3, <1>5, <1>6 DEF LineDayInv

\* With one writer a line goes to the file of an earlier date only if every line from
\* the date of that file to its own is of a day with the same number in its month:
\* whatever the deque holds when the day changes, and whatever the calendar is.
THEOREM OneWriterOlderFile ==
  ASSUME NEW w, Writers = {w}
  PROVE  Spec => []OlderFileOnlyAfterSilence
<1>1. Init => DayInv /\ LineDayInv(w)
  <2> SUFFICES ASSUME Init PROVE LineDayInv(w)
    BY InitDayInv
  <2>1. LineDays = {}
    BY IdleIsLocal DEF Init, ProcessInit, Q!DequeInit, LineDays, HoldingPcs
  <2> QED
    BY <2>1 DEF Init, LineDayInv, NoLaterLine, LinesOfCurrent, LinesOfFiles
<1>2. CtlInv /\ CtlInv' /\ DayInv /\ LineDayInv(w) /\ [Next]_vars => DayInv' /\ LineDayInv(w)'
  <2> SUFFICES ASSUME CtlInv, CtlInv', DayInv, LineDayInv(w), [Next]_vars
               PROVE  DayInv' /\ LineDayInv(w)'
    OBVIOUS
  <2>1. DayInv'
    <3>1. CASE \E v \in Writers : CallLog(v) \/ WriterStep(v)
      BY <3>1, WriterDayInv
    <3> QED
      BY <3>1, NextSteps, OthersDayInv, CrashDayInv
  <2> QED
    BY <2>1, NextLineDayInv
<1>3. CtlInv /\ LineDayInv(w) => OlderFileOnlyAfterSilence
  BY LineDaysTyped DEF LineDayInv, LinesOfFiles, OlderFileOnlyAfterSilence
<1> QED
  BY <1>1, <1>2, <1>3, AlwaysCtlInv, PTL DEF Spec

-----------------------------------------------------------------------------
(***************************************************************************)
(* The number of lines in a file, with one writer in one process that      *)
(* calls init once.                                                        *)
(***************************************************************************)

\* What is written goes to the current file.
LEMMA WritesToCurrent ==
  ASSUME CtlInv, NEW l \in Lines, NEW by \in {"writer", "flusher"}, Fputs(l, by),
         \/ FlusherWrite
         \/ \E w \in Writers : WriteDirectly(w)
  PROVE  /\ DOMAIN written' = DOMAIN written \cup {Len(written) + 1}
         /\ Len(written) + 1 \notin DOMAIN written
         /\ \A i \in DOMAIN written : written'[i] = written[i]
         /\ written'[Len(written) + 1].day = l.day
         /\ written'[Len(written) + 1].file = fp_.name
<1>1. SharedOK /\ fp_.open
  BY FputsOpen, TypeParts DEF CtlInv, TypeInv
<1>2. /\ Len(written') = Len(written) + 1
      /\ \A i \in 1 .. Len(written) : written'[i] = written[i]
      /\ written'[Len(written) + 1].day = l.day
      /\ written'[Len(written) + 1].file = fp_.name
  <2>1. written'[Len(written) + 1] =
          [id |-> l.id, day |-> l.day, by |-> by, file |-> IF fp_.open THEN fp_.name ELSE NoFile]
    BY <1>1, FputsTypes
  <2>2. Len(written') = Len(written) + 1 /\ \A i \in 1 .. Len(written) : written'[i] = written[i]
    BY <1>1, FputsTypes
  <2> QED
    BY <1>1, <2>1, <2>2
<1>3. written \in Seq(Records) /\ written' \in Seq(Records)
  BY <1>1, FputsTypes DEF SharedOK
<1>4. DOMAIN written = 1 .. Len(written) /\ DOMAIN written' = 1 .. Len(written')
      /\ Len(written) \in Nat
  BY <1>3
<1> QED
  BY <1>2, <1>4

\* The lines of the log that went to file f.
InFile(f) == {j \in DOMAIN written : written[j].file = f}

\* lineCount_ when file f is opened.
Base(f) == IF f.part = Main THEN 0 ELSE f.part * MaxLines

\* The lines that are held by the deque, the flusher and writer w.
OnTheWay(w) ==
  Len(deq_) + (IF flusher = "write" THEN 1 ELSE 0)
    + (IF wr[w].pc \in HoldingPcs THEN 1 ELSE 0)

\* File f is opened after file g.
Later(f, g) == g.day < f.day \/ (g.day = f.day /\ g.part < f.part)

\* The count of lines belongs to the file that is about to be opened.
Opening == {"close", "open"}

\* Nothing has been written or formatted.
Untouched ==
  /\ DOMAIN written = {} /\ deq_ = <<>> /\ flusher # "write"
  /\ lineCount_ = 0 /\ fp_.name = NoFile

\* Before init has opened a file, and afterwards never again.
OnceInv ==
  /\ owner = "boot" => inits = 0
  /\ owner # "boot" => inits = 1
  /\ runs = 1
  /\ owner \in {"boot", "init"} => Untouched

\* What lineCount_ says of the current file, and of the one about to be opened.
CountInv(w) ==
  /\ wr[w].pc \notin Opening => lineCount_ <= Base(fp_.name) + MaxLines
  /\ wr[w].pc \in {"body", "format"} =>
       Base(fp_.name) <= lineCount_ /\ lineCount_ < Base(fp_.name) + MaxLines
  /\ wr[w].pc = "format" => wr[w].count = lineCount_
  /\ wr[w].pc \notin Opening \cup {"body", "format"} =>
       Base(fp_.name) < lineCount_ \/ (lineCount_ = 0 /\ fp_.name.part = Main)
  /\ wr[w].pc \in {"relock", "test"} => MustRotate(w)
  /\ wr[w].pc \in RotatingPcs => Later(wr[w].file, fp_.name)
  /\ wr[w].pc \in {"day", "zero"} => wr[w].file.part = Main
  /\ wr[w].pc \in Opening => lineCount_ = Base(wr[w].file)

\* The lines in the current file and those that may still come to it.
RoomInv(w) ==
  /\ \A j \in DOMAIN written : ~Later(written[j].file, fp_.name)
  /\ Cardinality(InFile(fp_.name)) + OnTheWay(w) <= InFlight + MaxLines
  /\ wr[w].pc \notin Opening =>
       Cardinality(InFile(fp_.name)) + OnTheWay(w) <= InFlight + (lineCount_ - Base(fp_.name))

LEMMA BaseIsNat ==
  ASSUME NEW f \in Files \cup {NoFile}
  PROVE  Base(f) \in Nat /\ f.day \in Nat /\ f.part \in Int
<1>1. f.part = Main \/ f.part \in Nat
  BY Bounds DEF Files, NoFile
<1>2. f.part \in Nat => f.part * MaxLines \in Nat
  BY Bounds
<1> QED
  BY <1>1, <1>2 DEF Base, Main, Files, NoFile

LEMMA CountTyped ==
  ASSUME CtlInv, NEW w \in Writers
  PROVE  /\ wr \in [Writers -> Locals]
         /\ lineCount_ \in Nat /\ Base(fp_.name) \in Nat
         /\ fp_.name.day \in Nat /\ fp_.name.part \in Int
         /\ wr[w].file.day \in Nat /\ wr[w].file.part \in Int
<1>1. /\ wr \in [Writers -> Locals] /\ wr[w].file \in Files \cup {NoFile}
      /\ lineCount_ \in Nat /\ fp_.name \in Files \cup {NoFile}
  <2>1. wr \in [Writers -> Locals] /\ SharedOK
    BY TypeParts DEF CtlInv, TypeInv, WritersOK
  <2>2. wr[w].file \in Files \cup {NoFile}
    BY <2>1 DEF Locals
  <2>3. lineCount_ \in Nat /\ fp_.name \in Files \cup {NoFile}
    BY <2>1, Bounds DEF SharedOK
  <2> QED
    BY <2>1, <2>2, <2>3
<1> QED
  BY <1>1, BaseIsNat

\* The first multiple of MaxLines after the start of part k is the start of the next.
LEMMA NextPart ==
  ASSUME NEW c \in Nat, NEW m \in Nat \ {0}, NEW k \in Nat,
         c % m = 0, k * m < c, c <= k * m + m
  PROVE  c \div m = k + 1 /\ (c \div m) * m = c
<1>1. PICK q \in Nat : q = c \div m /\ c = m * q
  OBVIOUS
<1>2. k < q
  <2>1. SUFFICES ASSUME q <= k PROVE FALSE
    OBVIOUS
  <2>2. m * q <= m * k
    BY <2>1
  <2> QED
    BY <1>1, <2>2
<1>3. q <= k + 1
  <2>1. SUFFICES ASSUME q >= k + 2 PROVE FALSE
    OBVIOUS
  <2>2. m * q >= m * (k + 2)
    BY <2>1
  <2>3. m * (k + 2) = k * m + m + m
    OBVIOUS
  <2> QED
    BY <1>1, <2>2, <2>3
<1> QED
  BY <1>1, <1>2, <1>3

\* Within a part lineCount_ is not a multiple of MaxLines.
LEMMA PartNotFull ==
  ASSUME NEW c \in Nat, NEW m \in Nat \ {0}, NEW k \in Nat, c = k * m + m
  PROVE  c # 0 /\ c % m = 0
<1>1. c = m * (k + 1)
  OBVIOUS
<1>2. (m * (k + 1)) % m = 0
  OBVIOUS
<1> QED
  BY <1>1, <1>2

\* The current file as parts count: part 0 stands for the file without a part.
LEMMA BaseIsMultiple ==
  ASSUME NEW f \in Files \cup {NoFile}
  PROVE  \E k \in Nat : Base(f) = k * MaxLines /\ (IF f.part = Main THEN k = 0 ELSE k = f.part)
<1>1. f.part = Main \/ f.part \in Nat
  BY Bounds DEF Files, NoFile
<1>2. 0 * MaxLines = 0
  BY Bounds
<1> QED
  BY <1>1, <1>2 DEF Base, Main

\* Without a rotation there is room in the file.
LEMMA RoomWithoutRotation ==
  ASSUME NEW f \in Files \cup {NoFile}, NEW c \in Nat, c <= Base(f) + MaxLines,
         ~(c # 0 /\ c % MaxLines = 0)
  PROVE  c < Base(f) + MaxLines
<1>1. PICK k \in Nat : Base(f) = k * MaxLines
  BY BaseIsMultiple
<1>2. MaxLines \in Nat \ {0}
  BY Bounds
<1>3. c # k * MaxLines + MaxLines
  BY <1>2, PartNotFull
<1>4. Base(f) \in Nat
  BY BaseIsNat
<1> QED
  BY <1>1, <1>2, <1>3, <1>4

\* A rotation on the same day opens the next part.
LEMMA RotationIsLater ==
  ASSUME NEW f \in Files \cup {NoFile}, NEW c \in Nat, c <= Base(f) + MaxLines,
         Base(f) < c, c % MaxLines = 0
  PROVE  f.part < c \div MaxLines /\ (c \div MaxLines) * MaxLines = c
<1>1. PICK k \in Nat : Base(f) = k * MaxLines /\ (IF f.part = Main THEN k = 0 ELSE k = f.part)
  BY BaseIsMultiple
<1>2. MaxLines \in Nat \ {0}
  BY Bounds
<1>3. k * MaxLines < c /\ c <= k * MaxLines + MaxLines
  BY <1>1
<1>4. c \div MaxLines = k + 1 /\ (c \div MaxLines) * MaxLines = c
  BY <1>2, <1>3, NextPart
<1> QED
  BY <1>1, <1>4 DEF Main

\* What a step that is not the opening of a file leaves.
LEMMA WriterCount ==
  ASSUME CtlInv, DayInv, NEW w \in Writers, OnceInv, CountInv(w), CallLog(w) \/ WriterStep(w)
  PROVE  CountInv(w)'
<1>1. /\ wr \in [Writers -> Locals]
      /\ lineCount_ \in Nat /\ Base(fp_.name) \in Nat
      /\ fp_.name.day \in Nat /\ fp_.name.part \in Int
      /\ wr[w].file.day \in Nat /\ wr[w].file.part \in Int
      /\ fp_.name \in Files \cup {NoFile} /\ MaxLines \in Nat \ {0}
      /\ fp_ \in [name : Files \cup {NoFile}, open : BOOLEAN]
  BY CountTyped, Bounds, TypeParts DEF CtlInv, TypeInv, SharedOK
<1> USE DEF RotatingPcs, Opening, sharedVars
<1>2. CASE CallLog(w)
  <2>1. wr[w].pc = "idle" /\ wr'[w].pc = "check" /\ UNCHANGED <<lineCount_, fp_>>
    BY <1>1, <1>2, PcMoves DEF CallLog
  <2> QED
    BY <1>1, <2>1 DEF CountInv
<1>3. CASE Check(w)
  <2>1. /\ wr[w].pc = "check" /\ wr'[w].pc = IF MustRotate(w) THEN "relock" ELSE "body"
        /\ UNCHANGED <<lineCount_, fp_, toDay_>> /\ wr'[w].day = wr[w].day
    BY <1>1, <1>3, LocalsMove DEF Check, Goto, Locals
  <2>2. CASE MustRotate(w)
    <3>1. wr'[w].pc = "relock"
      BY <2>1, <2>2
    <3>2. MustRotate(w)'
      BY <2>1, <2>2 DEF MustRotate, AnotherDay
    <3> QED
      BY <1>1, <2>1, <3>1, <3>2 DEF CountInv
  <2>3. CASE ~MustRotate(w)
    <3>1. lineCount_ <= Base(fp_.name) + MaxLines /\ ~(lineCount_ # 0 /\ lineCount_ % MaxLines = 0)
      BY <2>1, <2>3 DEF CountInv, MustRotate
    <3>2. lineCount_ < Base(fp_.name) + MaxLines /\ Base(fp_.name) <= lineCount_
      <4>1. lineCount_ < Base(fp_.name) + MaxLines
        BY <1>1, <3>1, RoomWithoutRotation
      <4>2. fp_.name.part = Main => Base(fp_.name) = 0
        BY DEF Base
      <4> QED
        BY <1>1, <2>1, <4>1, <4>2 DEF CountInv
    <3>3. wr'[w].pc = "body"
      BY <2>1, <2>3
    <3> QED
      BY <1>1, <2>1, <3>2, <3>3 DEF CountInv
  <2> QED
    BY <2>2, <2>3
<1>4. CASE Relock(w)
  <2>1. /\ wr[w].pc = "relock" /\ wr'[w].pc = "test"
        /\ UNCHANGED <<lineCount_, fp_, toDay_>> /\ wr'[w].day = wr[w].day
    BY <1>1, <1>4, PcMoves, LocalsMove DEF Relock
  <2>2. MustRotate(w)'
    BY <2>1 DEF CountInv, MustRotate, AnotherDay
  <2> QED
    BY <1>1, <2>1, <2>2 DEF CountInv
<1>5. CASE RotateTest(w)
  <2>1. /\ wr[w].pc = "test" /\ wr'[w].pc = IF AnotherDay(w) THEN "day" ELSE "close"
        /\ wr'[w].file = NewFile(w) /\ UNCHANGED <<lineCount_, fp_>>
    <3>1. wr[w] \in Locals
      BY <1>1
    <3>2. wr'[w].pc = IF AnotherDay(w) THEN "day" ELSE "close"
      BY <1>1, <1>5, <3>1 DEF RotateTest, Goto, Locals
    <3> QED
      BY <1>1, <1>5, <3>2, PcMoves, LocalsMove DEF RotateTest
  <2>2. /\ owner = "run" /\ toDay_ = Mday[fp_.name.day] /\ fp_.name.day <= wr[w].day
        /\ wr[w].day \in Nat
    BY <1>5, <2>1, DaysTyped, WriterRuns DEF CtlInv, WriterStep, RotateStep, DayInv, WriterDays,
       EnteringPcs
  <2>3. CASE AnotherDay(w)
    <3>1. wr'[w].pc = "day" /\ NewFile(w) = [day |-> wr[w].day, part |-> Main]
      BY <2>1, <2>3 DEF NewFile
    <3>2. Later(NewFile(w), fp_.name)
      BY <1>1, <2>2, <2>3, <3>1 DEF Later, AnotherDay
    <3>3. Later(wr[w].file, fp_.name)' /\ wr'[w].file.part = Main
      BY <2>1, <3>1, <3>2 DEF Later
    <3> QED
      BY <1>1, <2>1, <3>1, <3>3 DEF CountInv
  <2>4. CASE ~AnotherDay(w)
    <3>1. /\ wr'[w].pc = "close"
          /\ NewFile(w) = [day |-> wr[w].day, part |-> lineCount_ \div MaxLines]
      BY <2>1, <2>4 DEF NewFile
    <3>2. lineCount_ # 0 /\ lineCount_ % MaxLines = 0 /\ Base(fp_.name) < lineCount_
          /\ lineCount_ <= Base(fp_.name) + MaxLines
      BY <2>1, <2>4 DEF CountInv, MustRotate, AnotherDay
    <3>3. fp_.name.part < lineCount_ \div MaxLines
          /\ (lineCount_ \div MaxLines) * MaxLines = lineCount_
      BY <1>1, <3>2, RotationIsLater
    <3>4. Later(wr[w].file, fp_.name)'
      <4>1. /\ wr'[w].file.day = wr[w].day /\ wr'[w].file.part = lineCount_ \div MaxLines
            /\ fp_'.name = fp_.name
        BY <2>1, <3>1
      <4>2. fp_.name.day < wr[w].day \/ fp_.name.day = wr[w].day
        BY <1>1, <2>2
      <4> QED
        BY <3>3, <4>1, <4>2 DEF Later
    <3>5. lineCount_ \div MaxLines # Main
      BY <1>1 DEF Main
    <3>6. lineCount_' = Base(wr[w].file)'
      BY <2>1, <3>1, <3>3, <3>5 DEF Base
    <3> QED
      BY <2>1, <3>1, <3>4, <3>6 DEF CountInv
  <2> QED
    BY <2>3, <2>4
<1>6. CASE RotateDay(w)
  <2>1. /\ wr[w].pc = "day" /\ wr'[w].pc = "zero" /\ wr'[w].file = wr[w].file
        /\ UNCHANGED <<lineCount_, fp_>>
    BY <1>1, <1>6, PcMoves, LocalsMove DEF RotateDay
  <2>2. Later(wr[w].file, fp_.name)' /\ wr'[w].file.part = Main
    BY <2>1 DEF CountInv, Later
  <2> QED
    BY <1>1, <2>1, <2>2 DEF CountInv
<1>7. CASE RotateZero(w)
  <2>1. /\ wr[w].pc = "zero" /\ wr'[w].pc = "close" /\ wr'[w].file = wr[w].file
        /\ lineCount_' = 0 /\ fp_' = fp_
    BY <1>1, <1>7, PcMoves, LocalsMove DEF RotateZero
  <2>2. Later(wr[w].file, fp_.name)' /\ wr'[w].file.part = Main
    BY <2>1 DEF CountInv, Later
  <2>3. lineCount_' = Base(wr[w].file)'
    BY <2>1, <2>2 DEF Base
  <2> QED
    BY <1>1, <2>1, <2>2, <2>3 DEF CountInv
<1>8. CASE RotateClose(w)
  <2>1. /\ wr[w].pc = "close" /\ wr'[w].pc = "open" /\ wr'[w].file = wr[w].file
        /\ lineCount_' = lineCount_ /\ fp_'.name = fp_.name
    BY <1>1, <1>8, PcMoves, LocalsMove DEF RotateClose
  <2>2. Later(wr[w].file, fp_.name)' /\ lineCount_' = Base(wr[w].file)'
    BY <2>1 DEF CountInv, Later, Base
  <2> QED
    BY <2>1, <2>2 DEF CountInv
<1>9. CASE RotateOpen(w)
  <2>1. /\ wr[w].pc = "open" /\ wr'[w].pc = "body"
        /\ lineCount_' = lineCount_ /\ fp_'.name = wr[w].file
    BY <1>1, <1>9, PcMoves DEF RotateOpen
  <2>2. lineCount_' = Base(fp_.name)' /\ lineCount_' \in Nat
    BY <1>1, <2>1 DEF CountInv, Base
  <2>3. lineCount_' < Base(fp_.name)' + MaxLines
    BY <1>1, <2>2
  <2> QED
    BY <1>1, <2>1, <2>2, <2>3 DEF CountInv
<1>10. CASE Body(w)
  <2>1. /\ wr[w].pc = "body" /\ wr'[w].pc = "format" /\ wr'[w].count = lineCount_
        /\ UNCHANGED <<lineCount_, fp_>>
    BY <1>1, <1>10, PcMoves, LocalsMove DEF Body
  <2> QED
    BY <1>1, <2>1 DEF CountInv
<1>11. CASE Format(w)
  <2>1. /\ wr[w].pc = "format" /\ wr'[w].pc \in HoldingPcs
        /\ lineCount_' = lineCount_ + 1 /\ fp_' = fp_
    BY <1>1, <1>11, PcMoves DEF Format, CountInv, HoldingPcs
  <2>2. Base(fp_.name)' = Base(fp_.name)
    BY <2>1 DEF Base
  <2> QED
    BY <1>1, <2>1, <2>2 DEF CountInv, HoldingPcs
<1>12. CASE Push(w) \/ WriteDirectly(w) \/ FlushNotify(w) \/ FlushLoad(w) \/ Fflush(w)
  <2>1. /\ wr[w].pc \in ActivePcs /\ wr'[w].pc \in {"notify", "load", "fflush", "idle"}
        /\ UNCHANGED <<lineCount_, fp_>>
    BY <1>1, <1>12, PcMoves, IdleIsLocal DEF Push, WriteDirectly, FlushNotify, FlushLoad, Fflush,
       ActivePcs, HoldingPcs
  <2> QED
    BY <1>1, <2>1 DEF CountInv, ActivePcs, HoldingPcs
<1> QED
  BY <1>2, <1>3, <1>4, <1>5, <1>6, <1>7, <1>8, <1>9, <1>10, <1>11, <1>12 DEF WriterStep, RotateStep

LEMMA NextOnce ==
  ASSUME CtlInv, OnceInv, MaxInits = 1, MaxRuns = 1, [Next]_vars
  PROVE  OnceInv' /\ ~Crash /\ (InitFields => owner = "boot")
<1>1. ~Crash /\ (InitFields => owner = "boot")
  BY DEF OnceInv, Crash, InitFields
<1> SUFFICES OnceInv'
  BY <1>1
<1>2. ASSUME NEW w \in Writers, CallLog(w) \/ WriterStep(w) PROVE OnceInv'
  <2>1. owner = "run" /\ owner' = "run"
    BY <1>2, WriterRuns DEF CtlInv
  <2>2. UNCHANGED <<inits, runs>>
    BY <1>2 DEF CallLog, WriterStep, RotateStep, Check, Relock, RotateTest, RotateDay, RotateZero,
       RotateClose, RotateOpen, Body, Format, Push, WriteDirectly, FlushNotify, FlushLoad,
       Fflush, otherVars, ownerVars
  <2> QED
    BY <2>1, <2>2 DEF OnceInv
<1>3. CASE InitFields
  <2>1. Untouched'
    BY <1>1, <1>3 DEF InitFields, OnceInv, Untouched, dequeVars, diskVars
  <2>2. inits = 0 /\ inits' = inits + 1 /\ owner' = "init" /\ runs' = 1
    BY <1>1, <1>3 DEF InitFields, OnceInv
  <2> QED
    BY <2>1, <2>2 DEF OnceInv
<1>4. CASE InitFile
  BY <1>4 DEF InitFile, OnceInv
<1>5. CASE OthersStep /\ ~InitFields /\ ~InitFile
  <2>1. CASE owner \in {"boot", "init"}
    <3>1. ~FlusherTake /\ ~FlusherWrite
      BY <2>1 DEF OnceInv, Untouched, FlusherTake, FlusherWrite, Q!PopItem, Q!empty
    <3>2. /\ owner' = owner /\ UNCHANGED <<inits, runs, written, deq_, lineCount_, fp_>>
          /\ flusher' \in {flusher, "exit"}
      BY <1>5, <2>1, <3>1 DEF OthersStep, FlusherStep, FlusherWait, FlusherExit, SetLevel,
         BeginDestroy, DestroyStep, Drain, CloseDeque, Join, FinalClose, NextDay, Spurious, vars,
         otherVars, sharedVars, ownerVars, flusherVars, dequeVars, diskVars, OwnerGoto,
         Q!PopWait, Q!PopClosed, Q!SpuriousWakeup
    <3>3. Untouched'
      BY <2>1, <3>2 DEF OnceInv, Untouched
    <3> QED
      BY <2>1, <3>2, <3>3 DEF OnceInv
  <2>2. CASE owner \notin {"boot", "init"}
    <3>1. owner' \notin {"boot", "init"} /\ UNCHANGED <<inits, runs>>
      BY <1>5, <2>2 DEF OthersStep, FlusherStep, FlusherTake, FlusherWait, FlusherExit,
         FlusherWrite, SetLevel, BeginDestroy, DestroyStep, Drain, CloseDeque, Join, FinalClose,
         NextDay, Spurious, vars, otherVars, ownerVars, OwnerGoto
    <3>2. owner # "boot" /\ owner' # "boot"
      BY <2>2, <3>1
    <3> QED
      BY <3>1, <3>2 DEF OnceInv
  <2> QED
    BY <2>1, <2>2
<1> QED
  BY <1>1, <1>2, <1>3, <1>4, <1>5, NextSteps

LEMMA IdleOutsideRun ==
  ASSUME CtlInv, owner # "run", NEW w \in Writers
  PROVE  wr[w].pc = "idle"
  BY IdleIsLocal DEF CtlInv, PhaseInv, AllIdle

\* The steps of the other threads keep the name of the file and lineCount_.
LEMMA OthersFile ==
  ASSUME CtlInv, OthersStep, ~InitFields, ~InitFile
  PROVE  fp_'.name = fp_.name /\ lineCount_' = lineCount_ /\ toDay_' = toDay_
<1>1. fp_ \in [name : Files \cup {NoFile}, open : BOOLEAN]
  BY TypeParts DEF CtlInv, TypeInv, SharedOK
<1>2. CASE FinalClose
  BY <1>1, <1>2 DEF FinalClose
<1>3. CASE ~FinalClose
  BY <1>3 DEF OthersStep, FlusherStep, FlusherTake, FlusherWait, FlusherExit, FlusherWrite,
     SetLevel, BeginDestroy, DestroyStep, Drain, CloseDeque, Join, NextDay, Spurious, vars,
     otherVars, sharedVars
<1> QED
  BY <1>2, <1>3

LEMMA OthersCount ==
  ASSUME CtlInv, NEW w \in Writers, OnceInv, CountInv(w), OthersStep,
         InitFields => owner = "boot"
  PROVE  CountInv(w)'
<1>1. /\ wr \in [Writers -> Locals] /\ MaxLines \in Nat \ {0}
      /\ Base(NoFile) = 0 /\ NoFile.part = Main
  BY DaysTyped, Bounds DEF Base, NoFile
<1>2. wr'[w].pc = wr[w].pc /\ wr'[w].day = wr[w].day /\ wr'[w].file = wr[w].file
      /\ wr'[w].count = wr[w].count
  BY <1>1, OthersWriters
<1> USE DEF RotatingPcs, Opening
<1>3. CASE InitFields
  <2>1. wr'[w].pc = "idle" /\ lineCount_' = 0 /\ fp_'.name = NoFile
    BY <1>2, <1>3, IdleOutsideRun DEF InitFields, OnceInv, Untouched
  <2>2. Base(fp_.name)' = 0 /\ fp_'.name.part = Main
    BY <1>1, <2>1 DEF Base
  <2> QED
    BY <1>1, <2>1, <2>2 DEF CountInv
<1>4. CASE InitFile
  <2>1. wr'[w].pc = "idle" /\ lineCount_' = 0 /\ fp_'.name.part = Main
    BY <1>2, <1>4, IdleOutsideRun DEF InitFile, OnceInv, Untouched
  <2>2. Base(fp_.name)' = 0
    BY <2>1 DEF Base
  <2> QED
    BY <1>1, <2>1, <2>2 DEF CountInv
<1>5. CASE ~InitFields /\ ~InitFile
  <2>1. fp_'.name = fp_.name /\ lineCount_' = lineCount_ /\ toDay_' = toDay_
    BY <1>5, OthersFile
  <2>2. /\ Base(fp_.name)' = Base(fp_.name) /\ Base(wr[w].file)' = Base(wr[w].file)
        /\ MustRotate(w)' = MustRotate(w)
        /\ Later(wr[w].file, fp_.name)' = Later(wr[w].file, fp_.name)
    BY <1>2, <2>1 DEF Base, MustRotate, AnotherDay, Later
  <2> QED
    BY <1>2, <2>1, <2>2 DEF CountInv
<1> QED
  BY <1>3, <1>4, <1>5

InCurrent == Cardinality(InFile(fp_.name))

LEMMA InFileFinite ==
  ASSUME CtlInv, NEW f
  PROVE  IsFiniteSet(InFile(f)) /\ Cardinality(InFile(f)) \in Nat
<1>1. DOMAIN written = 1 .. Len(written) /\ Len(written) \in Nat
  BY TypeParts DEF CtlInv, TypeInv, SharedOK
<1>2. IsFiniteSet(1 .. Len(written)) /\ InFile(f) \subseteq 1 .. Len(written)
  BY <1>1, FS_Interval DEF InFile
<1> QED
  BY <1>2, FS_Subset, FS_CardinalityType

\* A line is written to file g.
GoesTo(g) ==
  /\ DOMAIN written' = DOMAIN written \cup {Len(written) + 1}
  /\ Len(written) + 1 \notin DOMAIN written
  /\ \A i \in DOMAIN written : written'[i] = written[i]
  /\ written'[Len(written) + 1].file = g

LEMMA InFileGrows ==
  ASSUME CtlInv, NEW g, GoesTo(g), NEW f
  PROVE  /\ f = g => Cardinality(InFile(f)') = Cardinality(InFile(f)) + 1
         /\ f # g => InFile(f)' = InFile(f)
<1> DEFINE last == Len(written) + 1
<1>1. last \notin InFile(f)
  BY DEF GoesTo, InFile
<1>2. CASE f = g
  <2>1. InFile(f)' = InFile(f) \cup {last}
    BY <1>2 DEF GoesTo, InFile
  <2> HIDE DEF last
  <2>2. Cardinality(InFile(f) \cup {last}) = Cardinality(InFile(f)) + 1
    BY <1>1, FS_AddElement, InFileFinite
  <2> QED
    BY <1>2, <2>1, <2>2
<1>3. CASE f # g
  BY <1>3 DEF GoesTo, InFile
<1> QED
  BY <1>2, <1>3

LEMMA CurrentGrows ==
  ASSUME CtlInv, GoesTo(fp_.name), fp_' = fp_
  PROVE  InCurrent' = InCurrent + 1
<1>1. PICK f : f = fp_.name
  OBVIOUS
<1>2. Cardinality(InFile(f)') = Cardinality(InFile(f)) + 1
  BY <1>1, InFileGrows
<1>3. InCurrent = Cardinality(InFile(f))
  BY <1>1 DEF InCurrent
<1>4. InFile(fp_.name)' = InFile(f)'
  BY <1>1 DEF InFile
<1> QED
  BY <1>2, <1>3, <1>4 DEF InCurrent

LEMMA CurrentSame ==
  ASSUME written' = written, fp_'.name = fp_.name
  PROVE  InCurrent' = InCurrent
<1>1. InFile(fp_.name)' = InFile(fp_.name)
  BY DEF InFile
<1> QED
  BY <1>1 DEF InCurrent

\* The lines that the deque and the flusher hold are InFlight at most.
LEMMA RoomTyped ==
  ASSUME CtlInv, NEW w \in Writers
  PROVE  /\ InCurrent \in Nat /\ OnTheWay(w) \in Nat /\ InFlight \in Nat
         /\ Len(deq_) \in Nat
         /\ wr[w].pc \notin HoldingPcs => OnTheWay(w) <= InFlight
         /\ wr[w].pc \in HoldingPcs => OnTheWay(w) >= 1
         /\ flusher = "write" => OnTheWay(w) >= 1
<1>1. Len(deq_) \in Nat /\ Len(deq_) <= QueueCapacity
  BY TypeParts DEF CtlInv, TypeInv, SharedOK
<1>2. InFlight \in Nat
  <2>1. QueueCapacity + 1 \in Nat
    BY Bounds
  <2> QED
    BY <2>1, Zenon DEF InFlight
<1>3. Len(deq_) + (IF flusher = "write" THEN 1 ELSE 0) <= InFlight
  <2>1. CASE flusher = "none"
    BY <1>1, <1>2, <2>1 DEF CtlInv, PhaseInv
  <2>2. CASE flusher # "none"
    <3>1. TRUE \in Modes
      BY <2>2 DEF CtlInv, PhaseInv
    <3>2. InFlight = QueueCapacity + 1
      BY <3>1, Zenon DEF InFlight
    <3> QED
      BY <1>1, <3>2, Bounds
  <2> QED
    BY <2>1, <2>2
<1>4. InCurrent \in Nat
  BY InFileFinite DEF InCurrent
<1> DEFINE taken == IF flusher = "write" THEN 1 ELSE 0
           made == IF wr[w].pc \in HoldingPcs THEN 1 ELSE 0
<1>5. /\ taken \in {0, 1} /\ made \in {0, 1}
      /\ flusher = "write" => taken = 1
      /\ wr[w].pc \in HoldingPcs => made = 1
      /\ wr[w].pc \notin HoldingPcs => made = 0
  OBVIOUS
<1>6. OnTheWay(w) = Len(deq_) + taken + made /\ Len(deq_) + taken <= InFlight
  BY <1>3 DEF OnTheWay
<1> HIDE DEF taken, made
<1> QED
  BY <1>1, <1>2, <1>4, <1>5, <1>6

LEMMA RoomTypedNext ==
  ASSUME CtlInv', NEW w \in Writers
  PROVE  OnTheWay(w)' \in Nat
<1>1. Len(deq_') \in Nat
  BY TypePartsNext DEF CtlInv, TypeInv, SharedOK
<1> DEFINE taken == IF flusher' = "write" THEN 1 ELSE 0
           made == IF wr'[w].pc \in HoldingPcs THEN 1 ELSE 0
<1>2. taken \in Nat /\ made \in Nat /\ OnTheWay(w)' = Len(deq_') + taken + made
  BY DEF OnTheWay
<1> HIDE DEF taken, made
<1> QED
  BY <1>1, <1>2

\* Nothing moves that the counts are about.
LEMMA RoomSame ==
  ASSUME CtlInv, NEW w \in Writers, RoomInv(w), written' = written, fp_'.name = fp_.name,
         OnTheWay(w)' = OnTheWay(w),
         wr'[w].pc \notin Opening => wr[w].pc \notin Opening /\ lineCount_' = lineCount_
  PROVE  RoomInv(w)'
<1>1. InCurrent' = InCurrent /\ Base(fp_.name)' = Base(fp_.name)
  BY CurrentSame DEF Base
<1>2. \A j \in DOMAIN written : Later(written[j].file, fp_.name)' = Later(written[j].file, fp_.name)
  BY DEF Later
<1> QED
  BY <1>1, <1>2 DEF RoomInv, InCurrent

\* A line on its way gets to the current file.
LEMMA RoomWritten ==
  ASSUME CtlInv, CtlInv', NEW w \in Writers, RoomInv(w), GoesTo(fp_.name), fp_' = fp_,
         OnTheWay(w)' = OnTheWay(w) - 1, wr'[w].pc \in Opening <=> wr[w].pc \in Opening,
         lineCount_' = lineCount_
  PROVE  RoomInv(w)'
<1>1. InCurrent' = InCurrent + 1 /\ Base(fp_.name)' = Base(fp_.name)
  BY CurrentGrows DEF Base
<1>2. InCurrent \in Nat /\ OnTheWay(w) \in Nat
  BY RoomTyped
<1>3. InCurrent' + OnTheWay(w)' = InCurrent + OnTheWay(w)
  BY <1>1, <1>2
<1>4. \A j \in DOMAIN written' : ~Later(written[j].file, fp_.name)'
  <2>1. fp_.name.day \in Nat /\ fp_.name.part \in Int
    BY CountTyped
  <2> QED
    BY <2>1 DEF GoesTo, RoomInv, Later
<1> QED
  BY <1>1, <1>3, <1>4 DEF RoomInv, InCurrent

LEMMA WriterRoom ==
  ASSUME CtlInv, CtlInv', NEW w \in Writers, CountInv(w), CountInv(w)', RoomInv(w),
         CallLog(w) \/ WriterStep(w)
  PROVE  RoomInv(w)'
<1>1. /\ wr \in [Writers -> Locals]
      /\ lineCount_ \in Nat /\ Base(fp_.name) \in Nat
      /\ fp_.name.day \in Nat /\ fp_.name.part \in Int
      /\ wr[w].file.day \in Nat /\ wr[w].file.part \in Int
      /\ InCurrent \in Nat /\ OnTheWay(w) \in Nat /\ InFlight \in Nat /\ Len(deq_) \in Nat
  BY CountTyped, RoomTyped
<1>2. flusher' = flusher
  BY DEF CallLog, WriterStep, RotateStep, Check, Relock, RotateTest, RotateDay, RotateZero,
     RotateClose, RotateOpen, Body, Format, Push, WriteDirectly, FlushNotify, FlushLoad,
     Fflush, otherVars, flusherVars
<1> USE DEF Opening, sharedVars, diskVars, dequeVars
<1>3. CASE RotateOpen(w)
  <2>1. /\ wr[w].pc = "open" /\ wr'[w].pc = "body" /\ fp_'.name = wr[w].file
        /\ lineCount_' = lineCount_ /\ UNCHANGED <<written, deq_>>
    BY <1>1, <1>3, PcMoves DEF RotateOpen
  <2>2. Later(wr[w].file, fp_.name) /\ lineCount_ = Base(wr[w].file)
    BY <2>1 DEF CountInv, RotatingPcs
  <2>3. \A j \in DOMAIN written : /\ written[j].file # wr[w].file
                                  /\ ~Later(written[j].file, wr[w].file)
    <3>1. \A j \in DOMAIN written : written[j].file.day \in Nat /\ written[j].file.part \in Int
      <4>1. \A j \in DOMAIN written : written[j].file \in Files \cup {NoFile}
        <5>1. written \in Seq(Records)
          BY TypeParts DEF CtlInv, TypeInv, SharedOK
        <5>2. \A j \in DOMAIN written : written[j] \in Records
          BY <5>1
        <5> QED
          BY <5>2 DEF Records
      <4> QED
        BY <4>1, BaseIsNat
    <3> QED
      BY <1>1, <2>2, <3>1 DEF RoomInv, Later
  <2>4. InCurrent' = 0
    <3>1. InFile(fp_.name)' = {}
      BY <2>1, <2>3 DEF InFile
    <3> QED
      BY <3>1, FS_EmptySet DEF InCurrent
  <2>5. OnTheWay(w)' = OnTheWay(w) /\ OnTheWay(w) <= InFlight
    BY <1>2, <2>1, RoomTyped DEF OnTheWay, HoldingPcs
  <2>6. Base(fp_.name)' = lineCount_'
    BY <2>1, <2>2 DEF Base
  <2>7. \A j \in DOMAIN written' : ~Later(written[j].file, fp_.name)'
    BY <2>1, <2>3 DEF Later
  <2>8. MaxLines \in Nat
    BY Bounds
  <2>9. /\ InCurrent' + OnTheWay(w)' <= InFlight + MaxLines
        /\ InCurrent' + OnTheWay(w)' <= InFlight + (lineCount_' - Base(fp_.name)')
    BY <1>1, <2>1, <2>4, <2>5, <2>6, <2>8
  <2> QED
    BY <2>7, <2>9 DEF RoomInv, InCurrent
<1>4. CASE Format(w)
  <2>1. /\ wr[w].pc = "format" /\ wr'[w].pc \in HoldingPcs
        /\ UNCHANGED <<written, deq_, fp_>> /\ lineCount_' = lineCount_ + 1
    BY <1>1, <1>4, PcMoves DEF Format, HoldingPcs, CountInv
  <2>2. InCurrent' = InCurrent /\ Base(fp_.name)' = Base(fp_.name)
    BY <2>1, CurrentSame DEF Base
  <2>3. OnTheWay(w)' = OnTheWay(w) + 1
    BY <1>1, <1>2, <2>1 DEF OnTheWay, HoldingPcs
  <2>4. InCurrent + OnTheWay(w) <= InFlight + (lineCount_ - Base(fp_.name))
    BY <2>1 DEF RoomInv, InCurrent
  <2>5. lineCount_' <= Base(fp_.name)' + MaxLines /\ MaxLines \in Nat
    BY <2>1, Bounds DEF CountInv, HoldingPcs
  <2>6. InCurrent' + OnTheWay(w)' <= InFlight + (lineCount_' - Base(fp_.name)')
    BY <1>1, <2>1, <2>2, <2>3, <2>4
  <2>8. InCurrent' + OnTheWay(w)' <= InFlight + MaxLines
    <3>1. lineCount_ + 1 - Base(fp_.name) <= MaxLines
      BY <1>1, <2>1, <2>2, <2>5
    <3> QED
      BY <1>1, <2>2, <2>3, <2>4, <2>5, <3>1
  <2>7. \A j \in DOMAIN written' : ~Later(written[j].file, fp_.name)'
    BY <2>1 DEF RoomInv, Later
  <2> QED
    BY <2>6, <2>7, <2>8 DEF RoomInv, InCurrent
<1>5. CASE Push(w)
  <2>1. /\ wr[w].pc = "push" /\ wr'[w].pc = "notify" /\ UNCHANGED <<written, fp_, lineCount_>>
    BY <1>1, <1>5, PcMoves DEF Push
  <2>2. Len(deq_') = Len(deq_) + 1
    <3>1. deq_' = Append(deq_, wr[w].line) /\ deq_ \in Seq(Lines) /\ wr[w].line \in Lines
      BY <1>5, <2>1, TypeParts
      DEF Push, Q!push_back, Q!Insert, CtlInv, TypeInv, SharedOK, LocalsInv, LocalsOf, ActivePcs,
          HoldingPcs
    <3> QED
      BY <3>1
  <2>3. OnTheWay(w)' = OnTheWay(w)
    BY <1>1, <1>2, <2>1, <2>2 DEF OnTheWay, HoldingPcs
  <2> QED
    BY <2>1, <2>3, RoomSame
<1>6. CASE WriteDirectly(w)
  <2>1. /\ wr[w].pc = "fputs" /\ wr'[w].pc = "notify" /\ UNCHANGED <<deq_, fp_, lineCount_>>
    BY <1>1, <1>6, PcMoves DEF WriteDirectly
  <2>2. wr[w].line \in Lines
    BY <2>1 DEF CtlInv, TypeInv, LocalsInv, LocalsOf, ActivePcs, HoldingPcs
  <2>3. GoesTo(fp_.name)
    BY <1>6, <2>2, WritesToCurrent DEF WriteDirectly, GoesTo
  <2>4. OnTheWay(w)' = OnTheWay(w) - 1
    BY <1>1, <1>2, <2>1 DEF OnTheWay, HoldingPcs
  <2> QED
    BY <2>1, <2>3, <2>4, RoomWritten
<1>7. CASE ~RotateOpen(w) /\ ~Format(w) /\ ~Push(w) /\ ~WriteDirectly(w)
  <2>1. UNCHANGED <<written, deq_>> /\ fp_'.name = fp_.name
    <3>1. fp_ \in [name : Files \cup {NoFile}, open : BOOLEAN]
      BY TypeParts DEF CtlInv, TypeInv, SharedOK
    <3> QED
      BY <1>7, <3>1 DEF CallLog, WriterStep, RotateStep, Check, Relock, RotateTest, RotateDay, RotateZero,
         RotateClose, Body, FlushNotify, FlushLoad, Fflush, FlushAndClose, NotifyFlusher, Q!flush
  <2>2. /\ wr'[w].pc \in HoldingPcs <=> wr[w].pc \in HoldingPcs
        /\ wr'[w].pc \notin Opening => wr[w].pc \notin Opening /\ ~RotateZero(w)
    BY <1>1, <1>7, PcMoves, IdleIsLocal DEF WriterStep, RotateStep, HoldingPcs
  <2>3. ~RotateZero(w) => lineCount_' = lineCount_
    BY <1>7 DEF CallLog, WriterStep, RotateStep, Check, Relock, RotateTest, RotateDay,
       RotateClose, Body, FlushNotify, FlushLoad, Fflush
  <2>4. OnTheWay(w)' = OnTheWay(w)
    BY <1>2, <2>1, <2>2 DEF OnTheWay
  <2> QED
    BY <2>1, <2>2, <2>3, <2>4, RoomSame
<1> QED
  BY <1>3, <1>4, <1>5, <1>6, <1>7

LEMMA OthersRoom ==
  ASSUME CtlInv, CtlInv', NEW w \in Writers, OnceInv, RoomInv(w), OthersStep,
         InitFields => owner = "boot"
  PROVE  RoomInv(w)'
<1>1. /\ wr \in [Writers -> Locals] /\ MaxLines \in Nat \ {0}
      /\ lineCount_ \in Nat /\ Base(fp_.name) \in Nat
      /\ InCurrent \in Nat /\ OnTheWay(w) \in Nat /\ InFlight \in Nat /\ Len(deq_) \in Nat
  BY CountTyped, RoomTyped, Bounds
<1>2. wr'[w].pc = wr[w].pc
  BY <1>1, OthersWriters
<1> USE DEF Opening, sharedVars, diskVars, dequeVars
<1>3. CASE owner \in {"boot", "init"} /\ (InitFields \/ InitFile)
  <2>1. /\ Untouched /\ wr[w].pc = "idle"
        /\ DOMAIN written' = {} /\ deq_' = <<>> /\ flusher' # "write"
    <3>1. Untouched
      BY <1>3 DEF OnceInv
    <3>2. wr[w].pc = "idle"
      BY <1>3, IdleOutsideRun
    <3>3. fp_.open = FALSE \/ written' = written
      BY <1>3 DEF InitFields, InitFile, FlushAndClose
    <3>4. written' = written
      BY <1>3, <3>3 DEF InitFields, InitFile, FlushAndClose
    <3>5. deq_' = deq_
      BY <1>3 DEF InitFields, InitFile, FlushAndClose, NotifyFlusher, Q!flush
    <3>6. flusher' # "write"
      BY <1>3, <3>1 DEF InitFields, InitFile, Untouched, flusherVars
    <3> QED
      BY <3>1, <3>2, <3>4, <3>5, <3>6 DEF Untouched
  <2>2. OnTheWay(w)' = 0
    <3>1. Len(deq_') = 0
      BY <2>1
    <3> QED
      BY <1>2, <2>1, <3>1 DEF OnTheWay, HoldingPcs
  <2>3. InCurrent' = 0
    <3>1. InFile(fp_.name)' = {}
      BY <2>1 DEF InFile
    <3> QED
      BY <3>1, FS_EmptySet DEF InCurrent
  <2>4. lineCount_' = 0 /\ Base(fp_.name)' = 0
    <3>1. lineCount_' = 0
      BY <1>3, <2>1 DEF InitFields, InitFile, Untouched
    <3>2. fp_'.name.part = Main
      BY <1>3, <2>1 DEF InitFields, InitFile, Untouched, NoFile
    <3> QED
      BY <3>1, <3>2 DEF Base
  <2>5. \A j \in DOMAIN written' : ~Later(written[j].file, fp_.name)'
    BY <2>1
  <2>6. /\ InCurrent' + OnTheWay(w)' <= InFlight + MaxLines
        /\ InCurrent' + OnTheWay(w)' <= InFlight + (lineCount_' - Base(fp_.name)')
    BY <1>1, <2>2, <2>3, <2>4
  <2> QED
    BY <2>5, <2>6 DEF RoomInv, InCurrent
<1>4. CASE ~InitFields /\ ~InitFile
  <2>1. fp_'.name = fp_.name /\ lineCount_' = lineCount_
    BY <1>4, OthersFile
  <2>2. CASE FlusherTake
    <3>1. /\ written' = written /\ flusher # "write" /\ flusher' = "write"
          /\ deq_ # <<>> /\ deq_' = Tail(deq_)
      BY <2>2 DEF FlusherTake, Q!PopItem, Q!empty
    <3>2. Len(deq_') = Len(deq_) - 1
      <4>1. deq_ \in Seq(Lines)
        BY TypeParts DEF CtlInv, TypeInv, SharedOK
      <4> QED
        BY <3>1, <4>1
    <3>3. OnTheWay(w)' = OnTheWay(w)
      BY <1>1, <1>2, <3>1, <3>2 DEF OnTheWay
    <3> QED
      BY <1>2, <2>1, <3>1, <3>3, RoomSame
  <2>3. CASE FlusherWrite
    <3>1. /\ flusher = "write" /\ flusher' = "pop" /\ UNCHANGED <<deq_, fp_, lineCount_>>
      BY <2>3 DEF FlusherWrite
    <3>2. str \in Lines
      BY <3>1 DEF CtlInv, TypeInv, LocalsInv
    <3>3. GoesTo(fp_.name)
      BY <2>3, <3>2, WritesToCurrent DEF FlusherWrite, GoesTo
    <3>4. OnTheWay(w)' = OnTheWay(w) - 1
      BY <1>1, <1>2, <3>1 DEF OnTheWay
    <3> QED
      BY <1>2, <3>1, <3>3, <3>4, RoomWritten
  <2>4. CASE ~FlusherTake /\ ~FlusherWrite
    <3>1. UNCHANGED <<written, deq_>>
      <4>1. CASE FinalClose
        BY <4>1 DEF FinalClose, FlushAndClose, NotifyFlusher, Q!flush
      <4>2. CASE Drain \/ Join
        BY <4>2 DEF Drain, Join, Q!flush
      <4>6. CASE CloseDeque
        BY <4>6 DEF CloseDeque, OwnerGoto, Q!CloseMark, Q!CloseNotify, CtlInv, PhaseInv,
           DestroyPlaces
      <4>3. CASE FlusherWait \/ FlusherExit
        BY <4>3 DEF FlusherWait, FlusherExit, Q!PopWait, Q!PopClosed
      <4>4. CASE Spurious
        BY <4>4 DEF Spurious, Q!SpuriousWakeup
      <4>5. CASE SetLevel \/ BeginDestroy \/ NextDay \/ UNCHANGED vars
        BY <4>5 DEF SetLevel, BeginDestroy, NextDay, vars
      <4> QED
        BY <1>4, <2>4, <4>1, <4>2, <4>3, <4>4, <4>5, <4>6 DEF OthersStep, FlusherStep, DestroyStep
    <3>2. flusher' = "write" <=> flusher = "write"
      BY <1>4, <2>4 DEF OthersStep, FlusherStep, FlusherWait, FlusherExit, SetLevel, BeginDestroy,
         DestroyStep, Drain, CloseDeque, Join, FinalClose, NextDay, Spurious, vars, otherVars,
         flusherVars
    <3>3. OnTheWay(w)' = OnTheWay(w)
      BY <1>2, <3>1, <3>2 DEF OnTheWay
    <3> QED
      BY <1>2, <2>1, <3>1, <3>3, RoomSame
  <2> QED
    BY <2>2, <2>3, <2>4
<1> QED
  BY <1>3, <1>4 DEF InitFields, InitFile

LEMMA InitCounts ==
  ASSUME Init, NEW w \in Writers
  PROVE  OnceInv /\ CountInv(w) /\ RoomInv(w) /\ FileWithinBound
<1>1. /\ DOMAIN written = {} /\ deq_ = <<>> /\ flusher = "none" /\ lineCount_ = 0
      /\ fp_.name = NoFile /\ wr[w].pc = "idle" /\ owner = "boot" /\ inits = 0 /\ runs = 1
  BY DEF Init, ProcessInit, Q!DequeInit, Idle
<1>2. Base(fp_.name) = 0 /\ fp_.name.part = Main
  BY <1>1 DEF Base, NoFile
<1>3. InFile(fp_.name) = {} /\ Cardinality({}) = 0
  BY <1>1, FS_EmptySet DEF InFile
<1>4. OnTheWay(w) = 0
  BY <1>1 DEF OnTheWay, HoldingPcs
<1>5. InFlight \in Nat /\ MaxLines \in Nat
  <2>1. QueueCapacity + 1 \in Nat
    BY Bounds
  <2> QED
    BY <2>1, Bounds, Zenon DEF InFlight
<1>6. OnceInv
  BY <1>1 DEF OnceInv, Untouched
<1>7. CountInv(w)
  BY <1>1, <1>2, <1>5 DEF CountInv, Opening, RotatingPcs
<1>8. RoomInv(w)
  BY <1>1, <1>2, <1>3, <1>4, <1>5 DEF RoomInv, Opening
<1> QED
  BY <1>1, <1>6, <1>7, <1>8 DEF FileWithinBound

\* A line goes to the current file, which has room for it.
LEMMA WrittenWithinBound ==
  ASSUME CtlInv, CtlInv', NEW w \in Writers, RoomInv(w)', FileWithinBound,
         GoesTo(fp_.name), fp_' = fp_
  PROVE  FileWithinBound'
<1>1. PICK g : g = fp_.name
  OBVIOUS
<1>2. GoesTo(g)
  BY <1>1 DEF GoesTo
<1>3. FileWithinBound <=>
        \A i \in DOMAIN written : Cardinality(InFile(written[i].file)) <= MaxLines + InFlight
  BY Zenon DEF FileWithinBound, InFile
<1>4. SUFFICES ASSUME NEW i \in DOMAIN written'
               PROVE  Cardinality({j \in DOMAIN written' : written'[j].file = written'[i].file})
                        <= MaxLines + InFlight
  BY DEF FileWithinBound
<1>5. PICK f : f = written'[i].file
  OBVIOUS
<1>6. InFile(f)' = {j \in DOMAIN written' : written'[j].file = written'[i].file}
  BY <1>5 DEF InFile
<1>7. CASE f = g
  <2>1. InFile(f)' = InFile(fp_.name)'
    BY <1>1, <1>7 DEF InFile
  <2>2. Cardinality(InFile(fp_.name)') + OnTheWay(w)' <= InFlight + MaxLines
    BY DEF RoomInv
  <2>3. /\ Cardinality(InFile(f)') \in Nat /\ OnTheWay(w)' \in Nat /\ InFlight \in Nat
        /\ MaxLines \in Nat
    <3>1. Cardinality(InFile(f)) \in Nat /\ InFlight \in Nat /\ MaxLines \in Nat
      BY InFileFinite, RoomTyped, Bounds
    <3>2. Cardinality(InFile(f)') = Cardinality(InFile(f)) + 1
      BY <1>2, <1>7, InFileGrows
    <3>3. OnTheWay(w)' \in Nat
      BY RoomTypedNext
    <3> QED
      BY <3>1, <3>2, <3>3
  <2> QED
    BY <1>6, <2>1, <2>2, <2>3
<1>8. CASE f # g
  <2>1. InFile(f)' = InFile(f)
    BY <1>2, <1>8, InFileGrows
  <2>2. i \in DOMAIN written /\ written[i].file = f
    BY <1>2, <1>5, <1>8 DEF GoesTo
  <2> QED
    BY <1>3, <1>6, <2>1, <2>2
<1> QED
  BY <1>7, <1>8

LEMMA NextWithinBound ==
  ASSUME CtlInv, CtlInv', NEW w, Writers = {w}, RoomInv(w)', FileWithinBound, ~Crash, [Next]_vars
  PROVE  FileWithinBound'
<1>1. CASE written' = written
  BY <1>1 DEF FileWithinBound
<1>2. CASE WriteDirectly(w)
  <2>1. wr[w].line \in Lines /\ fp_' = fp_
    <3>1. wr[w].pc = "fputs" /\ w \in Writers
      BY <1>2, DaysTyped, PcMoves
    <3> QED
      BY <1>2, <3>1 DEF WriteDirectly, sharedVars, CtlInv, TypeInv, LocalsInv, LocalsOf, ActivePcs,
         HoldingPcs
  <2>2. GoesTo(fp_.name)
    BY <1>2, <2>1, WritesToCurrent DEF WriteDirectly, GoesTo
  <2> QED
    BY <2>1, <2>2, WrittenWithinBound
<1>3. CASE FlusherWrite
  <2>1. str \in Lines /\ fp_' = fp_
    BY <1>3 DEF FlusherWrite, sharedVars, CtlInv, TypeInv, LocalsInv
  <2>2. GoesTo(fp_.name)
    BY <1>3, <2>1, WritesToCurrent DEF FlusherWrite, GoesTo
  <2> QED
    BY <2>1, <2>2, WrittenWithinBound
<1>4. CASE ~WriteDirectly(w) /\ ~FlusherWrite
  BY <1>1, <1>4 DEF Next, vars, diskVars, otherVars, CallLog, WriterStep, RotateStep, Check, Relock,
     RotateTest, RotateDay, RotateZero, RotateClose, RotateOpen, Body, Format, Push, FlushNotify,
     FlushLoad, Fflush, FlushAndClose, FlusherStep, FlusherTake, FlusherWait, FlusherExit,
     InitFields, InitFile, SetLevel, BeginDestroy, DestroyStep, Drain, CloseDeque, Join,
     FinalClose, NextDay, Spurious
<1> QED
  BY <1>2, <1>3, <1>4

\* One process, one call of init and one writer: a file never holds more than
\* MAX_LINES lines and those that were on their way when it was opened.
THEOREM FilesBounded ==
  ASSUME NEW w, Writers = {w}, MaxInits = 1, MaxRuns = 1
  PROVE  Spec => []FileWithinBound
<1> DEFINE IInv == DayInv /\ OnceInv /\ CountInv(w) /\ RoomInv(w) /\ FileWithinBound
<1>1. Init => IInv
  <2>1. w \in Writers
    OBVIOUS
  <2> QED
    BY <2>1, InitDayInv, InitCounts DEF Init
<1>2. CtlInv /\ CtlInv' /\ IInv /\ [Next]_vars => IInv'
  <2> SUFFICES ASSUME CtlInv, CtlInv', DayInv, OnceInv, CountInv(w), RoomInv(w), FileWithinBound,
                      [Next]_vars
               PROVE  DayInv' /\ OnceInv' /\ CountInv(w)' /\ RoomInv(w)' /\ FileWithinBound'
    OBVIOUS
  <2>1. OnceInv' /\ ~Crash /\ (InitFields => owner = "boot")
    BY NextOnce
  <2>2. CASE CallLog(w) \/ WriterStep(w)
    <3>1. DayInv'
      BY <2>2, WriterDayInv
    <3>2. CountInv(w)'
      BY <2>2, WriterCount
    <3>3. RoomInv(w)'
      BY <2>2, <3>2, WriterRoom
    <3> QED
      BY <2>1, <3>1, <3>2, <3>3, NextWithinBound
  <2>3. CASE OthersStep
    <3>1. DayInv'
      BY <2>3, OthersDayInv
    <3>2. CountInv(w)'
      BY <2>1, <2>3, OthersCount
    <3>3. RoomInv(w)'
      BY <2>1, <2>3, OthersRoom
    <3> QED
      BY <2>1, <3>1, <3>2, <3>3, NextWithinBound
  <2> QED
    BY <2>1, <2>2, <2>3, NextSteps
<1> HIDE DEF IInv
<1>3. IInv => FileWithinBound
  BY DEF IInv
<1> QED
  BY <1>1, <1>2, <1>3, AlwaysCtlInv, PTL DEF Spec
=============================================================================
