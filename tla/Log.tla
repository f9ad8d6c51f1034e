--------------------------------- MODULE Log ---------------------------------
(***************************************************************************)
(* The logger Log of log_manager/log_manager.{h,cpp}: the threads of one   *)
(* process that call the LOG macros, the thread AsyncWrite_ that takes     *)
(* lines from the deque to the file, the thread that initialises and       *)
(* destroys the singleton, and the process dying and being started again.  *)
(*                                                                         *)
(* Granularity.  lineCount_, toDay_ and fp_ are read and written outside   *)
(* mtx_ by write() and flush(), so each such access is a step of its own,  *)
(* and "lineCount_++" is a read and a write.  What is done while holding   *)
(* mtx_ is split where an unlocked access of another thread, or the deque, *)
(* can tell.  buff_ is touched only under mtx_: the line it holds is       *)
(* wr[w].line of the holder w, and its layout is the subject of LogBuffer. *)
(*                                                                         *)
(* written is the sequence of lines given to stdio over the life of the    *)
(* log.  Only one file is open at a time and closing it flushes it, so     *)
(* what is on the disk is always a prefix of it, of length synced.         *)
(***************************************************************************)
EXTENDS Integers, Sequences, FiniteSets

CONSTANTS
  Writers,         \* threads that call the LOG macros
  Flusher,         \* the thread running AsyncWrite_
  Modes,           \* the values of maxQueueCapacity > 0 that init is called with
  QueueCapacity,   \* capacity_ of the deque
  MaxLines,        \* MAX_LINES
  Levels,          \* levels of the LOG calls
  Settings,        \* levels given to init and SetLevel
  MaxCalls,        \* bound on the LOG calls that write
  MaxDay,          \* bound on the clock, which counts days
  Mday,            \* Mday[d]: the day of the month (tm_mday) of day d
  MaxInits,        \* bound on the calls of init in one process
  MaxRuns,         \* bound on the processes, the first included
  Exits            \* whether a process may exit, running ~Log

NoOne == "nobody"                \* the holder of mtx_ when nobody holds it

ASSUME LogAssumption ==
  /\ IsFiniteSet(Writers)
  /\ Flusher \notin Writers
  /\ NoOne \notin Writers
  /\ Modes \subseteq BOOLEAN
  /\ Exits \in BOOLEAN
  /\ {QueueCapacity, MaxLines, MaxDay, MaxInits, MaxRuns} \subseteq Nat \ {0}
  /\ MaxCalls \in Nat
  /\ Mday \in [1 .. MaxDay -> 1 .. 31]
  /\ Levels \cup Settings \subseteq 0 .. 3

VARIABLES
  deq_, isClose_, thr,   \* the deque
  mtx_,        \* the writer that holds mtx_ between two steps, or NoOne
  isAsync_,    \* the mode set by init
  level_,      \* the level set by init or SetLevel
  lineCount_,  \* lines formatted since the last reset
  toDay_,      \* the day of the month of the current file
  fp_,         \* the current file and whether it is open
  wr,          \* wr[w]: where writer w is in the macro, and its locals
  flusher,     \* where AsyncWrite_ is
  str,         \* the line AsyncWrite_ has popped
  owner,       \* where the initialising and destroying thread is
  inits,       \* calls of init in this process
  initDay,     \* init's t: the date it has read, while it runs
  runs,        \* processes so far
  day,         \* the clock
  written,     \* lines given to stdio
  synced,      \* how many of them are on the disk
  nextId,      \* number of the next line
  returned     \* history: the lines whose macro has returned

dequeVars == <<deq_, isClose_, thr>>
sharedVars == <<isAsync_, level_, lineCount_, toDay_, fp_>>
flusherVars == <<flusher, str>>
ownerVars == <<owner, inits, initDay, runs>>
diskVars == <<written, synced>>
historyVars == <<nextId, returned>>
otherVars == <<flusherVars, ownerVars, day, historyVars>>

vars == <<dequeVars, mtx_, sharedVars, wr, diskVars, otherVars>>

Q == INSTANCE BlockDeque WITH
       Producers <- Writers, Consumers <- {Flusher}, Capacity <- QueueCapacity

NoLine == [id |-> 0, day |-> 0]
Main == -1                       \* the file without "-<part>" in its name
NoFile == [day |-> 0, part |-> Main]

Lines == [id : 1 .. MaxCalls, day : 1 .. MaxDay]
Files == [day : 1 .. MaxDay, part : {Main} \cup 0 .. MaxCalls]

Free == mtx_ = NoOne

\* The locals of write() and flush(): t's date, the name of the file about to
\* be opened, lineCount_ as read by "lineCount_++", the line from its
\* formatting to the return, and whether the FILE* read for fflush is open.
Idle == [pc |-> "idle", day |-> 0, file |-> NoFile, count |-> 0, line |-> NoLine,
         handle |-> "none"]

\* The writers between the macro's test and the formatting of their line.
Entering == {w \in Writers : wr[w].pc \in {"check", "relock", "test", "day", "zero",
                                           "close", "open", "body", "format"}}

AllIdle == \A w \in Writers : wr[w] = Idle

ProcessInit ==
  /\ Q!DequeInit
  /\ mtx_ = NoOne
  /\ isAsync_ = FALSE
  /\ level_ = 0
  /\ lineCount_ = 0
  /\ toDay_ = 0
  /\ fp_ = [name |-> NoFile, open |-> FALSE]
  /\ wr = [w \in Writers |-> Idle]
  /\ flusher = "none"
  /\ str = NoLine
  /\ owner = "boot"
  /\ inits = 0
  /\ initDay = 0

Init ==
  /\ ProcessInit
  /\ runs = 1
  /\ day = 1
  /\ written = <<>>
  /\ synced = 0
  /\ nextId = 1
  /\ returned = {}

-----------------------------------------------------------------------------
(***************************************************************************)
(* Files.                                                                  *)
(***************************************************************************)

\* fputs(l, fp_).  NoFile stands for a file that is already closed.
Fputs(l, by) ==
  /\ written' = Append(written, [id |-> l.id, day |-> l.day, by |-> by,
                                 file |-> IF fp_.open THEN fp_.name ELSE NoFile])
  /\ UNCHANGED synced

\* deque_->flush() of Log::flush: a notification, in asynchronous mode only.
NotifyFlusher ==
  IF isAsync_ THEN Q!flush ELSE UNCHANGED dequeVars

\* Log::flush() and fclose(fp_), with mtx_ held.
FlushAndClose ==
  /\ NotifyFlusher
  /\ synced' = Len(written)
  /\ UNCHANGED written

\* A FILE* that a writer has read for its own fflush dangles once it is closed.
Dangling == [w \in Writers |->
  IF wr[w].handle = "open" THEN [wr[w] EXCEPT !.handle = "closed"] ELSE wr[w]]

-----------------------------------------------------------------------------
(***************************************************************************)
(* LOG_BASE: if (IsOpen() && GetLevel() <= level) { write(); flush(); }    *)
(***************************************************************************)
Goto(w, from, next) ==
  /\ wr[w].pc = from
  /\ wr' = [wr EXCEPT ![w] = next]

\* IsOpen, GetLevel (which locks mtx_) and the clock reading of write().
CallLog(w) ==
  /\ owner = "run"
  /\ Free
  /\ \E level \in Levels : level_ <= level
  /\ nextId + Cardinality(Entering) <= MaxCalls
  /\ Goto(w, "idle", [Idle EXCEPT !.pc = "check", !.day = day])
  /\ UNCHANGED <<dequeVars, mtx_, sharedVars, diskVars, otherVars>>

\* toDay_ != t.tm_mday: the month and the year are not looked at.
AnotherDay(w) == toDay_ # Mday[wr[w].day]

\* Slip: the day is tested on the last line of a file only.
MustRotateWhenFull(w) ==
  /\ AnotherDay(w)
  /\ lineCount_ # 0 /\ lineCount_ % MaxLines = 0

MustRotate(w) ==
  \/ AnotherDay(w)
  \/ lineCount_ # 0 /\ lineCount_ % MaxLines = 0

Check(w) ==
  /\ Goto(w, "check", [wr[w] EXCEPT !.pc = IF MustRotate(w) THEN "relock" ELSE "body"])
  /\ UNCHANGED <<dequeVars, mtx_, sharedVars, diskVars, otherVars>>

\* mtx_ is locked and unlocked at once.
Relock(w) ==
  /\ Free
  /\ Goto(w, "relock", [wr[w] EXCEPT !.pc = "test"])
  /\ UNCHANGED <<dequeVars, mtx_, sharedVars, diskVars, otherVars>>

\* The name has the whole date of t.
NewFile(w) ==
  [day |-> wr[w].day,
   part |-> IF AnotherDay(w) THEN Main ELSE lineCount_ \div MaxLines]

\* The second test of toDay_; without a change of day the name of the next
\* part comes from lineCount_ as it is now.
RotateTest(w) ==
  /\ Goto(w, "test", [wr[w] EXCEPT !.pc = IF AnotherDay(w) THEN "day" ELSE "close",
                                   !.file = NewFile(w)])
  /\ UNCHANGED <<dequeVars, mtx_, sharedVars, diskVars, otherVars>>

RotateDay(w) ==
  /\ Goto(w, "day", [wr[w] EXCEPT !.pc = "zero"])
  /\ toDay_' = Mday[wr[w].day]
  /\ UNCHANGED <<dequeVars, mtx_, isAsync_, level_, lineCount_, fp_, diskVars, otherVars>>

RotateZero(w) ==
  /\ Goto(w, "zero", [wr[w] EXCEPT !.pc = "close"])
  /\ lineCount_' = 0
  /\ UNCHANGED <<dequeVars, mtx_, isAsync_, level_, toDay_, fp_, diskVars, otherVars>>

\* Slip: the file is closed and reopened without mtx_.
RotateCloseUnlocked(w) ==
  /\ wr[w].pc = "close"
  /\ wr' = [Dangling EXCEPT ![w].pc = "open"]
  /\ FlushAndClose
  /\ fp_' = [fp_ EXCEPT !.open = FALSE]
  /\ UNCHANGED <<mtx_, isAsync_, level_, lineCount_, toDay_, otherVars>>

RotateClose(w) ==
  /\ Free
  /\ wr[w].pc = "close"
  /\ wr' = [Dangling EXCEPT ![w].pc = "open"]
  /\ mtx_' = w
  /\ FlushAndClose
  /\ fp_' = [fp_ EXCEPT !.open = FALSE]
  /\ UNCHANGED <<isAsync_, level_, lineCount_, toDay_, otherVars>>

\* Slip: lineCount_ starts again with every file.
RotateOpenResets(w) ==
  /\ Goto(w, "open", [wr[w] EXCEPT !.pc = "body", !.file = NoFile])
  /\ fp_' = [name |-> wr[w].file, open |-> TRUE]
  /\ lineCount_' = 0
  /\ mtx_' = NoOne
  /\ UNCHANGED <<dequeVars, isAsync_, level_, toDay_, diskVars, otherVars>>

RotateOpen(w) ==
  /\ Goto(w, "open", [wr[w] EXCEPT !.pc = "body", !.file = NoFile])
  /\ fp_' = [name |-> wr[w].file, open |-> TRUE]
  /\ mtx_' = NoOne
  /\ UNCHANGED <<dequeVars, isAsync_, level_, lineCount_, toDay_, diskVars, otherVars>>

\* lineCount_++ begins
Body(w) ==
  /\ Free
  /\ Goto(w, "body", [wr[w] EXCEPT !.pc = "format", !.count = lineCount_])
  /\ mtx_' = w
  /\ UNCHANGED <<dequeVars, sharedVars, diskVars, otherVars>>

\* Slip: no test of full() before push_back.
QueueingNoFullTest == isAsync_

\* isAsync_ && deque_ && !deque_->full()
Queueing == isAsync_ /\ ~Q!full

\* lineCount_++ ends, the line is laid out in buff_, and the deque is asked
\* whether it is full.
Format(w) ==
  /\ Goto(w, "format", [Idle EXCEPT !.pc = IF Queueing THEN "push" ELSE "fputs",
                                    !.line = [id |-> nextId, day |-> wr[w].day]])
  /\ lineCount_' = wr[w].count + 1
  /\ nextId' = nextId + 1
  /\ UNCHANGED <<dequeVars, mtx_, isAsync_, level_, toDay_, fp_, diskVars, flusherVars,
                 ownerVars, day, returned>>

\* Slip: push_front for push_back.
PushFront(w) ==
  /\ Goto(w, "push", [wr[w] EXCEPT !.pc = "notify"])
  /\ Q!push_front(w, wr[w].line)
  /\ mtx_' = NoOne
  /\ UNCHANGED <<sharedVars, diskVars, otherVars>>

\* Slip: the "else" before fputs is missing.
PushThenFputs(w) ==
  /\ Goto(w, "push", [wr[w] EXCEPT !.pc = "fputs"])
  /\ Q!push_back(w, wr[w].line)
  /\ UNCHANGED <<mtx_, sharedVars, diskVars, otherVars>>

\* deque_->push_back, with mtx_ held.  While the deque is full the writer
\* would be blocked here, and the action is disabled.
Push(w) ==
  /\ Goto(w, "push", [wr[w] EXCEPT !.pc = "notify"])
  /\ Q!push_back(w, wr[w].line)
  /\ mtx_' = NoOne
  /\ UNCHANGED <<sharedVars, diskVars, otherVars>>

WriteDirectly(w) ==
  /\ Goto(w, "fputs", [wr[w] EXCEPT !.pc = "notify"])
  /\ Fputs(wr[w].line, "writer")
  /\ mtx_' = NoOne
  /\ UNCHANGED <<dequeVars, sharedVars, otherVars>>

\* Log::flush, called by the macro without mtx_: the notification, the
\* reading of fp_, and fflush.
FlushNotify(w) ==
  /\ Goto(w, "notify", [wr[w] EXCEPT !.pc = "load"])
  /\ NotifyFlusher
  /\ UNCHANGED <<mtx_, sharedVars, diskVars, otherVars>>

FlushLoad(w) ==
  /\ Goto(w, "load", [wr[w] EXCEPT !.pc = "fflush",
                                   !.handle = IF fp_.open THEN "open" ELSE "closed"])
  /\ UNCHANGED <<dequeVars, mtx_, sharedVars, diskVars, otherVars>>

\* Slip: fflush(fp_) is commented out, as it is in AsyncWrite_.
FflushSkipped(w) ==
  /\ Goto(w, "fflush", Idle)
  /\ returned' = returned \cup {wr[w].line.id}
  /\ UNCHANGED <<dequeVars, mtx_, sharedVars, diskVars, flusherVars, ownerVars, day,
                 nextId>>

\* fflush of a closed FILE is undefined; here it has no effect, and
\* FlushesOpenFile says whether it can happen.
Fflush(w) ==
  /\ Goto(w, "fflush", Idle)
  /\ synced' = IF wr[w].handle = "open" THEN Len(written) ELSE synced
  /\ returned' = returned \cup {wr[w].line.id}
  /\ UNCHANGED <<dequeVars, mtx_, sharedVars, written, flusherVars, ownerVars, day, nextId>>

-----------------------------------------------------------------------------
(***************************************************************************)
(* AsyncWrite_: while (deque_->pop(str)) { lock mtx_; fputs(str, fp_); }   *)
(***************************************************************************)
FlusherTake ==
  /\ flusher = "pop"
  /\ Q!PopItem(Flusher)
  /\ str' = Head(deq_)
  /\ flusher' = "write"
  /\ UNCHANGED <<mtx_, sharedVars, wr, diskVars, ownerVars, day, historyVars>>

FlusherWait ==
  /\ flusher = "pop"
  /\ Q!PopWait(Flusher)
  /\ UNCHANGED <<mtx_, sharedVars, wr, diskVars, otherVars>>

FlusherExit ==
  /\ flusher = "pop"
  /\ Q!PopClosed(Flusher)
  /\ flusher' = "exit"
  /\ UNCHANGED <<mtx_, sharedVars, wr, diskVars, str, ownerVars, day, historyVars>>

\* Slip: AsyncWrite_ writes without mtx_.
FlusherWriteUnlocked ==
  /\ flusher = "write"
  /\ Fputs(str, "flusher")
  /\ str' = NoLine
  /\ flusher' = "pop"
  /\ UNCHANGED <<dequeVars, mtx_, sharedVars, wr, ownerVars, day, historyVars>>

FlusherWrite ==
  /\ flusher = "write"
  /\ Free
  /\ Fputs(str, "flusher")
  /\ str' = NoLine
  /\ flusher' = "pop"
  /\ UNCHANGED <<dequeVars, mtx_, sharedVars, wr, ownerVars, day, historyVars>>

-----------------------------------------------------------------------------
(***************************************************************************)
(* init, called before any other thread logs, and again while none logs.   *)
(* The fields are set without mtx_, while AsyncWrite_ may be running.      *)
(***************************************************************************)
InitFields ==
  /\ owner = "boot" \/ (owner = "run" /\ AllIdle)
  /\ inits < MaxInits
  /\ owner' = "init"
  /\ inits' = inits + 1
  /\ level_' \in Settings
  /\ isAsync_' \in Modes
  /\ flusher' = IF isAsync_' /\ flusher = "none" THEN "pop" ELSE flusher
  /\ lineCount_' = 0
  /\ initDay' = day
  /\ toDay_' = Mday[day]
  /\ UNCHANGED <<dequeVars, mtx_, fp_, wr, diskVars, str, runs, day, historyVars>>

InitFile ==
  /\ owner = "init"
  /\ Free
  /\ IF fp_.open THEN FlushAndClose ELSE UNCHANGED <<dequeVars, diskVars>>
  /\ fp_' = [name |-> [day |-> initDay, part |-> Main], open |-> TRUE]
  /\ wr' = Dangling
  /\ owner' = "run"
  /\ initDay' = 0
  /\ UNCHANGED <<mtx_, isAsync_, level_, lineCount_, toDay_, flusherVars, inits, runs,
                 day, historyVars>>

SetLevel ==
  /\ owner = "run"
  /\ Free
  /\ level_' \in Settings \ {level_}
  /\ UNCHANGED <<dequeVars, mtx_, isAsync_, lineCount_, toDay_, fp_, wr, diskVars,
                 otherVars>>

-----------------------------------------------------------------------------
(***************************************************************************)
(* ~Log, run at exit when no other thread logs any more.                   *)
(***************************************************************************)
OwnerGoto(from, to) ==
  /\ owner = from
  /\ owner' = to
  /\ UNCHANGED <<inits, initDay, runs>>

BeginDestroy ==
  /\ Exits
  /\ AllIdle
  /\ OwnerGoto("run", IF flusher # "none" THEN "drain" ELSE "final")
  /\ UNCHANGED <<dequeVars, mtx_, sharedVars, wr, diskVars, flusherVars, day, historyVars>>

\* Slip: the deque is closed at once.
DrainSkipped ==
  /\ OwnerGoto("drain", "close")
  /\ UNCHANGED <<dequeVars, mtx_, sharedVars, wr, diskVars, flusherVars, day, historyVars>>

\* while (!deque_->empty()) deque_->flush();
Drain ==
  /\ \/ /\ owner = "drain"
        /\ ~Q!empty
        /\ Q!flush
        /\ UNCHANGED ownerVars
     \/ /\ OwnerGoto("drain", "close")
        /\ Q!empty
        /\ UNCHANGED dequeVars
  /\ UNCHANGED <<mtx_, sharedVars, wr, diskVars, flusherVars, day, historyVars>>

\* deque_->close();
CloseDeque ==
  /\ \/ OwnerGoto("close", "wake producers") /\ Q!CloseMark
     \/ OwnerGoto("wake producers", "wake consumers") /\ Q!CloseNotify(Writers)
     \/ OwnerGoto("wake consumers", "join") /\ Q!CloseNotify({Flusher})
  /\ UNCHANGED <<mtx_, sharedVars, wr, diskVars, flusherVars, day, historyVars>>

\* writeThread_->join();
Join ==
  /\ OwnerGoto("join", "final")
  /\ flusher = "exit"
  /\ UNCHANGED <<dequeVars, mtx_, sharedVars, wr, diskVars, flusherVars, day, historyVars>>

FinalClose ==
  /\ OwnerGoto("final", "done")
  /\ Free
  /\ FlushAndClose
  /\ wr' = Dangling
  /\ fp_' = [fp_ EXCEPT !.open = FALSE]
  /\ UNCHANGED <<mtx_, isAsync_, level_, lineCount_, toDay_, flusherVars, day, historyVars>>

-----------------------------------------------------------------------------
(***************************************************************************)
(* The environment.                                                        *)
(***************************************************************************)
NextDay ==
  /\ day < MaxDay
  /\ day' = day + 1
  /\ UNCHANGED <<dequeVars, mtx_, sharedVars, wr, diskVars, flusherVars, ownerVars,
                 historyVars>>

\* The process dies without running ~Log (an exception that nobody catches,
\* a signal) and is started again.  stdio may have written out more of its
\* buffer than it was asked to.
Crash ==
  /\ runs < MaxRuns
  /\ owner # "boot"
  /\ runs' = runs + 1
  /\ \E n \in synced .. Len(written) :
       /\ written' = SubSeq(written, 1, n)
       /\ synced' = n
  /\ deq_' = <<>> /\ isClose_' = FALSE /\ thr' = [x \in Q!Threads |-> "out"]
  /\ mtx_' = NoOne
  /\ isAsync_' = FALSE /\ level_' = 0 /\ lineCount_' = 0 /\ toDay_' = 0
  /\ fp_' = [name |-> NoFile, open |-> FALSE]
  /\ wr' = [w \in Writers |-> Idle]
  /\ flusher' = "none" /\ str' = NoLine
  /\ owner' = "boot" /\ inits' = 0 /\ initDay' = 0
  /\ UNCHANGED <<day, historyVars>>

Spurious ==
  /\ \E x \in Q!Threads : Q!SpuriousWakeup(x)
  /\ UNCHANGED <<mtx_, sharedVars, wr, diskVars, otherVars>>

-----------------------------------------------------------------------------
RotateStep(w) ==
  \/ Relock(w) \/ RotateTest(w) \/ RotateDay(w) \/ RotateZero(w)
  \/ RotateClose(w) \/ RotateOpen(w)

\* What a writer does once it is inside the macro.
WriterStep(w) ==
  \/ Check(w) \/ RotateStep(w)
  \/ Body(w) \/ Format(w) \/ Push(w) \/ WriteDirectly(w)
  \/ FlushNotify(w) \/ FlushLoad(w) \/ Fflush(w)

FlusherStep == FlusherTake \/ FlusherWait \/ FlusherExit \/ FlusherWrite

DestroyStep == Drain \/ CloseDeque \/ Join \/ FinalClose

Next ==
  \/ \E w \in Writers : CallLog(w) \/ WriterStep(w)
  \/ FlusherStep
  \/ InitFields \/ InitFile \/ SetLevel
  \/ BeginDestroy \/ DestroyStep
  \/ NextDay \/ Crash \/ Spurious

Spec == Init /\ [][Next]_vars

(***************************************************************************)
(* Every thread that can take a step is eventually scheduled, and a thread *)
(* that waits for mtx_ eventually gets it.  Nobody has to log or to exit.  *)
(***************************************************************************)
FairSpec ==
  /\ Spec
  /\ \A w \in Writers : WF_vars(WriterStep(w))
  /\ WF_vars(FlusherStep)
  /\ WF_vars(InitFile)
  /\ WF_vars(DestroyStep)

-----------------------------------------------------------------------------
(***************************************************************************)
(* Properties.                                                             *)
(***************************************************************************)

Critical == {"open", "format", "push", "fputs"}

\* The lines that may be on their way through the deque and the flusher.
InFlight == IF TRUE \in Modes THEN QueueCapacity + 1 ELSE 0

Written(id) == \E i \in DOMAIN written : written[i].id = id

\* The lines formatted and not yet given to fputs: held by their writer, by
\* the deque or by the flusher.
HeldIds ==
  {wr[w].line.id : w \in {v \in Writers : wr[v].pc \in {"push", "fputs"}}}
    \cup {deq_[i].id : i \in DOMAIN deq_}
    \cup {str.id : f \in {g \in {flusher} : g = "write"}}

Queued(id) == \E i \in DOMAIN deq_ : deq_[i].id = id

\* Every variable has its type, and a writer is between the lock and the
\* unlock of mtx_ exactly when it owns it.
TypeOK ==
  /\ deq_ \in Seq(Lines) /\ Len(deq_) <= QueueCapacity
  /\ isClose_ \in BOOLEAN
  /\ thr \in [Writers \cup {Flusher} -> {"out", "waiting", "woken"}]
  /\ mtx_ \in Writers \cup {NoOne}
  /\ \A w \in Writers : mtx_ = w <=> wr[w].pc \in Critical
  /\ isAsync_ \in BOOLEAN
  /\ level_ \in {0} \cup Settings
  /\ lineCount_ \in 0 .. MaxCalls
  /\ toDay_ \in 0 .. 31
  /\ fp_ \in [name : Files \cup {NoFile}, open : BOOLEAN]
  /\ wr \in [Writers ->
       [pc : {"idle", "check", "relock", "test", "day", "zero", "close", "body",
              "notify", "load", "fflush"} \cup Critical,
        day : 0 .. MaxDay, file : Files \cup {NoFile}, count : 0 .. MaxCalls,
        line : Lines \cup {NoLine}, handle : {"none", "open", "closed"}]]
  /\ flusher \in {"none", "pop", "write", "exit"}
  /\ str \in Lines \cup {NoLine}
  /\ owner \in {"boot", "init", "run", "drain", "close", "wake producers",
                "wake consumers", "join", "final", "done"}
  /\ inits \in 0 .. MaxInits
  /\ initDay \in 0 .. MaxDay
  /\ runs \in 1 .. MaxRuns
  /\ day \in 1 .. MaxDay
  /\ written \in Seq([id : 1 .. MaxCalls, day : 1 .. MaxDay,
                      by : {"writer", "flusher"}, file : Files \cup {NoFile}])
  /\ synced \in 0 .. Len(written)
  /\ nextId \in 1 .. MaxCalls + 1
  /\ returned \subseteq 1 .. MaxCalls

\* A writer never waits inside push_back, where it would hold mtx_ and the
\* flusher could be waiting for mtx_ with a line in hand: the test of full()
\* is separate from push_back, but only the holder of mtx_ pushes.
PushNeverWaits == \A w \in Writers : wr[w].pc = "push" => ~Q!full

\* Nothing is written to a closed file: although rotations close and open
\* fp_ in two steps, fputs always finds it open.
FputsToOpenFile == \A i \in DOMAIN written : written[i].file # NoFile

\* The lines that went through the deque are in the log in the order they
\* were formatted, and so are the lines written directly; a direct line
\* overtakes no more lines than the deque and the flusher hold.
OvertakeBounded ==
  /\ \A i, j \in DOMAIN written :
       i < j /\ written[i].by = written[j].by => written[i].id < written[j].id
  /\ \A i \in DOMAIN written :
       Cardinality({j \in i + 1 .. Len(written) : written[j].id < written[i].id})
         <= InFlight

\* A line that its own caller wrote, as all are in synchronous mode, is on
\* the disk when the macro returns, although another writer may have closed
\* the file in between.
DirectDurable ==
  \A i \in DOMAIN written :
    written[i].by = "writer" /\ written[i].id \in returned => i <= synced

\* A process that exits leaves no line behind in the deque, in the flusher
\* or in stdio.  (The lines of earlier processes may have died with them.)
ExitKeepsLines ==
  owner = "done" /\ runs = 1 =>
    \A id \in 1 .. nextId - 1 : \E i \in 1 .. synced : written[i].id = id

\* One process with one writer: a file holds at most MAX_LINES lines, plus,
\* in asynchronous mode, those that were on their way when it was opened.
FileWithinBound ==
  \A i \in DOMAIN written :
    Cardinality({j \in DOMAIN written : written[j].file = written[i].file})
      <= MaxLines + InFlight

\* With one writer a line goes to the file of an earlier date only after a
\* silence: of all the days from the date of the file to its own, lines were
\* logged only on those that have the same number in their month.  A change of
\* the day that a line was logged on is never missed, however long the lines
\* of the days before stay in the deque.
OlderFileOnlyAfterSilence ==
  \A i, j \in DOMAIN written :
    written[j].day \in written[i].file.day .. written[i].day
      => written[i].file # NoFile
         /\ Mday[written[j].day] = Mday[written[i].file.day]

\* Every call of a LOG macro returns: the writers, the flusher and the deque
\* never wait for each other in a circle.
CallsReturn == \A w \in Writers : (wr[w].pc # "idle") ~> (wr[w].pc = "idle")

\* A line in the deque is eventually given to stdio, with the writers busy
\* rotating and the process exiting as well.
QueuedWritten == \A id \in 1 .. MaxCalls : Queued(id) ~> Written(id)

\* The log is a LogSink.
Sink == INSTANCE LogSink WITH
          Ids <- 1 .. MaxCalls, accepted <- 1 .. nextId - 1, held <- HeldIds,
          written <- [i \in DOMAIN written |-> written[i].id]

\* Each line is written once, or lost with its process; nothing else changes
\* the log, and nothing that is on the disk is ever lost.
ImplementsSink == Sink!Spec

(***************************************************************************)
(* What the comments of the code say and the code does not do.             *)
(***************************************************************************)

\* "Thread shutdown" (log_manager.cpp:179): ~Log ends the flusher thread and
\* returns.
DestroyReturns == (owner = "drain") ~> (owner = "done")

\* "File operations take the lock" (log_manager.cpp:106): fflush is called on
\* a FILE that is open.
FlushesOpenFile == \A w \in Writers : wr[w].pc = "fflush" => wr[w].handle = "open"
=============================================================================
