# LinuxMonitor in TLA+

A verification project for LinuxMonitor: TLA+ models of the program's own
code, TLC runs that check them on small instances, and TLAPS proofs of the
properties that matter most.

## 1. The system

LinuxMonitor samples the state of a Linux host every three seconds and sends
it over gRPC to a server. It has four parts, each a library or an executable.

| part | source | state | operations | talks to |
|---|---|---|---|---|
| blocking deque | `log_manager/block_queue.h` | `deq_`, `isClose_`, one mutex, two condition variables | `push_back`, `push_front`, `pop`, timed `pop`, `clear`, `close`, `flush` | used by the logger |
| log buffer | `log_manager/log_buffer.*` | `buffer_`, `readPos_`, `writePos_` | `Append`, `EnsureWriteable`, `HasWritten`, `Retrieve*`, `ReadFd`, `WriteFd` | used by the logger under its mutex |
| logger | `log_manager/log_manager.*` | `fp_`, `lineCount_`, `toDay_`, `level_`, `mtx_`, the deque, the flusher thread | `LOG_*` macros, `write`, `flush`, `init`, `SetLevel`, `~Log`, `AsyncWrite_` | client and server log through one instance per process |
| collectors | `monitor_work/src/monitor/*.cpp` | the previous sample (softirq, cpu stat, net); the other six keep nothing | `UpdateOnce` | fill one `MonitorInfo` |
| file reader | `monitor_work/*/utils` | an input stream: its buffer, its flags, its place in the file | `ReadLine`, `ReadLineBySplitchar`, `IsEnd` | used by the collectors |
| agent | `monitor_work/src/main.cpp` | the list of collectors | the sampling loop | collectors, then RPC client |
| RPC client | `rpc_manager/client` | the stub | constructor, `SetMonitorInfo`, `GetMonitorInfo` | logger, server |
| server | `rpc_manager/server` | `monitorInfos_` | handlers `SetMonitorInfo`, `GetMonitorInfo` | gRPC's thread pool |

The interactions that make it hard:

* the logger has a mutex and a flusher thread, so that several threads may log at
  once (client and server each log from one thread today; what is said of several
  is about the class), but it guards only some of its fields: the test for a new
  file and the final `fflush` run without `mtx_`;
* a writer holds `mtx_` while it talks to the deque, the flusher holds a line
  while it waits for `mtx_`;
* the exit of a process drains, closes and joins the flusher;
* a process may die on an uncaught exception with lines in the deque, in the
  flusher and in stdio;
* the server's handlers run concurrently on an unprotected `monitorInfos_`;
  the agent has no deadline, no keepalive and no retry, requests may be lost after
  they were executed, and a connection may be lost without a sign;
* the collectors compute rates from the previous sample, with counters that
  are reset and interfaces that come and go;
* the other collectors read files that end in different ways, a file that another
  program is writing, and directories whose entries vanish between two calls; what
  they find may end the agent or keep it in a loop.

What makes each part correct: the deque never exceeds its capacity, hands over
each item once and in order, and loses no wakeup; the logger writes each line
once, keeps the order but for a bounded overtaking, never waits in a circle,
never touches a closed file, keeps files within `MAX_LINES` and to one day, and on
exit leaves nothing behind; the buffer is a byte queue, and a line is laid out
within its memory; a reader of the server sees one agent's complete sample; a rate
is what the two samples say; an entry of the message is what its file says, and a
file of metrics in the making neither ends nor stops the agent. Not all of this is
so: section 5 says where the code differs. Other files do end the agent or stop it: it
dies when `/proc/softirqs` or `/proc/loadavg` is missing or empty, and reads for ever
when `/proc/cpuinfo` cannot be opened.

Hard to test, in short (PROJECT.json lists every hazard with its line): lost
or misdirected wakeups; a lock taken twice with a gap between (`full()` and
`push_back`); fields read before a lock and used after it; a flusher that enters
`pop` after `close()`; a process that dies with lines in three places; handlers
that overlap, or outlive their call; counters that start again between two
samples; loops over a stream that ask it for three different things, a line, its
end, and whether it is open.

## 2. The modules

| module | models | depends on |
|---|---|---|
| `BlockDeque` | the deque: its state, and each operation as an action of a thread | |
| `DequeClients` | producers, consumers and a closer around one deque; its properties | `BlockDeque` |
| `Channel` | what the deque promises: a bounded channel | |
| `DequeProofs` | theorems about `DequeClients` | `DequeClients` |
| `LogBuffer` | the buffer, its member functions, and the layout of a line | |
| `ByteQueue` | what the buffer promises | |
| `BufferProofs` | theorems about `LogBuffer` | `LogBuffer` |
| `Log` | the logger with its writers, flusher, owner, clock, crashes; its properties | `BlockDeque` |
| `LogSink` | what a log promises | |
| `LogProofs` | theorems about `Log`: types, phases, what a step does with lines | `Log` |
| `LogOrderProofs` | the order and the durability of lines, and that `Log` is a `LogSink` | `LogProofs` |
| `LogFileProofs` | the files that one writer's lines go to | `LogProofs` |
| `GrpcManager` | the server's handlers, its clients and the calls between them | |
| `GrpcProofs` | theorems about `GrpcManager` | `GrpcManager` |
| `Collectors` | the agent's rounds and the collectors that remember a sample | |
| `CollectorsProofs` | theorems about `Collectors` | `Collectors` |
| `ReadFile` | the input stream over a file and its division into lines and words | |
| `Agent` | the agent's process, its rounds, and the collectors that copy files | `ReadFile` |
| `AgentProofs` | theorems about `Agent` | `Agent` |
| `MC*` | instances for TLC | |

Definitions whose name says what differs (`InsertAfterIf`, `FflushSkipped`) and
whose comment starts with "Slip" are plausible mistakes in the definition that
follows them. They are not part of any specification; each property has one that
breaks it, so that a property is known to depend on the code it is about.

### BlockDeque, DequeClients, Channel

`deq_` and `isClose_` are the fields of the class. Everything done between the
lock and the unlock of the deque's mutex is one action; waiting releases the
mutex, so a thread in an operation is "waiting" (blocked on its condition
variable) or "woken" (out of the wait, contending for the mutex). `notify_one`
chooses any waiter, waits may end spuriously, and `close` and `flush` notify
after the mutex was released, as steps of their own. `pop` tests `isClose_`
only on its way out of a wait, as the code does. `DequeClients` supplies the
threads: producers, the consumer loop of `AsyncWrite_`, timed consumers, and a
thread that clears, flushes and closes. `size`, `capacity`, `front` and `back`
change nothing and are left out.

The properties on wakeups count: as long as somebody waits for an element, at
least as many consumers are on their way out of a wait as there are elements, and
the same for producers and free slots. They need pops without a timeout (a timed
pop may consume a notification and give up) and no `clear` (which makes room and
tells nobody); the comments at the properties and the hazards say so.

### LogBuffer, ByteQueue

A buffer is a record of its memory and its two positions, a member function an
operator from the buffer it is called on to the one it leaves. The difference of
two positions is that of `size_t`, which has `SizeValues` values. `readv` and
`write` deliver any of a few chunks or take any part.

`LayOut` lays a line out as `Log::write` does: head by `snprintf` into the ensured
128 bytes, title by `Append`, message by `vsnprintf` into what is left, newline and
NUL by `Append`; each `snprintf` writes one NUL more than it counts. `vsnprintf`
returns the length the message would have had, so that a message longer than the
room left moves `writePos_` past the memory (the code has a "todo" there,
`log_manager.cpp:128`). `WriteableBytes` then wraps round, `EnsureWriteable` finds
room, and the newline is copied behind the memory: `damaged`. What these bytes hit
is not modelled. They may do nothing, and `PrintLine` prints the line as far as it is in
the memory, or end the process at any time after (`Abort`).

### Log, LogSink

One action per step that another thread can observe. Unlocked accesses of
`lineCount_`, `toDay_` and `fp_` are single steps, `lineCount_++` is a read and
a write. The clock counts dates; `toDay_` is the day of the month (`tm_mday`), which
`Mday` gives for each date, so that two dates may have the same. `init` reads the clock
once and names its file and sets `toDay_` by it (`initDay`). Sections under `mtx_` are split where the deque or an unlocked access
can tell. A FILE is open or closed, and a thread that has read `fp_` for
`fflush` remembers whether it has been closed since. `written` is the sequence
of lines given to stdio with the file each went to; since one file is open at a
time and `fclose` flushes it, the disk holds a prefix of length `synced`. A
crash loses the process's state and any part of `written` beyond `synced`. The
deque is the module `BlockDeque` instantiated with the writers as producers and
the flusher as the only consumer. `LogSink` is the abstract log: accept, write
once, sync, die.

Left out of `Log`: `init` running while other threads log (every caller in the
repository calls it first), failing `fopen` (the code asserts), the time of day in
a line, the one `struct tm` that all calls of `localtime` share, and the bytes of a
line (see `LogBuffer`).

### GrpcManager

A call is named by its client and its number, a sample by the call that sends
it, and a message maps each field to the samples whose values it holds, so that
a mixture of samples is visible as such. A handler is a record per thread: the
pass over the message it is in (`SetMonitorInfo` makes three: `Clear()`, the
`Clear()` inside `CopyFrom`, and the merge; `GetMonitorInfo` makes one), the fields still
to reach in any order, its call, and its response. One access of one field is
atomic; the outcomes of the data race that are worse than this, a torn string or
a crash, are covered by `ServerDies`, which may happen at any moment. Requests in
transit are a set; a call that breaks (the connection, or the agent's process)
may leave its request or its handler behind. A connection may also be lost without a
sign, as when the server's host loses power (`GoSilent`): the call has no deadline
(`rpc_client.cpp:37-40`) and the channel no keepalive (`:27`), so nothing ends such a
call but a break that is noticed. A server starts empty.

`settled`, `acked`, `abandoned` and the `expect` of a handler are history
variables: what the last Set left if it ran alone, the last call a client knows
to have succeeded, the calls that failed, and what a Get must find if no Set gets
in its way. Left out: the logging around the calls, and samples that lack a field.

### Collectors

A source is a processor with its column of `/proc/softirqs` or an interface with
its row of `/proc/net/dev`; the counters of one row are treated alike by the code
and are one counter. A round of `RpcRun` reads the first file, processes its
rows one by one with the clock going on, reads `/proc/stat`, reads the second
file and processes it, sends and sleeps, in the order in which `RpcRun` lists its collectors.
The previous row of each source is `old`, as in `net_info_` and `cpu_softirqs_`.
Only the agent looks at the kernel's counters, so what became of them is chosen
when a file is read: they grew, wrapped, or their interface went and came
back. A rate keeps its numerator and its period apart. The times of
`/proc/stat` go through floats that have `Significands` significands (2^24 in the code):
a number is rounded, half to even, to a multiple of its `Unit`, a power of two, as
`std::stof` and float addition do; six busy times of `/proc/stat` are
one. The boot history of the machine is `Uptime` idle ticks.

Left out: files that cannot be read (see `Agent`), and `/proc/stat` rows of several
processors.

### ReadFile, Agent

A file is a sequence of pieces of text, some of which end a line; a stream is
whether it is open, whether it has met the end, its buffer and its place in the
file. `GetLine` is `std::getline`: it fills the buffer when no whole line is left in it,
so that it may put the end of an old content and the middle of a new one
together. `ReadLine` adds the words of the line to the caller's vector, as the
code does, and refuses an empty line and one without a newline: to every reader
the lines behind such a one are not there. Of the words of a
line, the first is its key and the rest its value; blanks, separators and
quotes are left out. A value is a number if it does not begin with a key; a value
that is missing, or a word where a number should be, ends the process.

`Agent` is `RpcRun`: one action per line that a collector reads, per file it
opens or reads, and per entry it adds. `cur` is the structure in hand,
`CpuInfo`, `MenInfo`, `MetricInfo`, `OsInfo` or `NetcardInfo`, with `Garbage` in the
fields that the code leaves uninitialised and `Unset` in the strings; `args` is the vector
of words. An exception, or an access outside a vector, ends the process; it may be
started again. The order of a round is that of `runners`, without the collectors
of `Collectors`. What is left of those is that `CpuSoftIrqMonitor`, like `CpuLoadMonitor`,
indexes the words of its file without having asked whether a line was read: a file that is
missing, empty or unterminated ends the process. `CpuStatMonitor`
(`cpu_stat_monitor.cpp:33-42`) and `NetMonitor` (`net_monitor.cpp:20-22`) index words
without a test, or behind a test for fewer, as well, but only those of a line they have
read. The kernel's lines have them all, and without a line the loops do nothing, so the two
cannot end the agent and are not in `Agent`. An `OsInfo` that found no name leaves its field of the
message unset, here `Unset` in an entry.

The environment is the program that writes the metrics, which appends a piece or
begins the file again while it is read, and the kernel, which removes and adds
interfaces while the directory is read. `/proc/cpuinfo` and the other generated files
are of one moment. The constructor of the client takes the address from
`ip_address.txt` and drops its last character; an address without a newline is
kept as one that is not whole, like a line too long for the array of 50.

Left out: the numbers and what is computed from them (`used_percent`, the
conversion to gigabytes), numbers too large for `std::stof`, and `GetStatsLines`,
which nobody calls.

## 3. The runs

| run | instance | shows |
|---|---|---|
| `deque_wakeups` | 2 producers, 3 untimed consumers, 2 slots, 5 items, all calls but `clear` | `TypeOK`, `WakeupsCoverItems`, `WakeupsCoverRoom` |
| `deque_live` | 2 producers, an untimed and a timed consumer, 2 slots, 3 items, all calls | `ItemsLeave`, `CloseReleasesWaiters`, `ImplementsChannel` |
| `buffer` | memory of 5 to 8 bytes, chunks of 1 and 3 bytes, messages of 0 to 4 bytes | `TypeOK`, `EnsureIsEnough`, `LineWholeIfItFits`, `ImplementsByteQueue` |
| `log_two` | 2 writers, both modes, deque of 2, files of 2 lines, 4 calls, `init` twice, 2 processes | `TypeOK`, `PushNeverWaits`, `FputsToOpenFile`, `OvertakeBounded`, `DirectDurable`, `ExitKeepsLines`, `ImplementsSink` |
| `log_live` | 1 writer, both modes, deque of 1, files of 2 lines, 5 calls, 3 days, the third with the number of the first | `FileWithinBound`, `OlderFileOnlyAfterSilence`, `CallsReturn`, `QueuedWritten` |
| `log_exit` | 1 writer, asynchronous, 1 call | `DestroyReturns` is violated |
| `log_stale` | 2 writers, asynchronous, files of 1 line | `FlushesOpenFile` is violated |
| `log_parts` | 2 writers, synchronous, files of 2 lines | `FileWithinBound` is violated |
| `server` | 2 agents (2 and 1 calls), a reader, 2 threads, 2 fields, 1 connection that breaks or goes silent, 1 death | `TypeOK`, `SettledStore`, `SettledReads`, `StaleOnlyByStray`, `MergesBounded`, `CallsEnd` |
| `server_torn` | 1 agent, 1 reader, 2 threads, no failure | `ReadsWhole` is violated |
| `sampler` | 1 processor, 1 interface, 3 rounds, 1 reset each, 1 restart | `TypeOK`, `PeriodsPositive`, `RatesAddUp`, `NegativeOnlyIfReset`, `EveryKnownSource`, `SharesAddUp` |
| `agent` | 6 forms of `/proc/cpuinfo`, 3 of `/proc/meminfo` and of `os-release`, 4 of the files that are indexed, 2 metrics in 6 pieces, begun again once, 1 interface and `bonding_masters` | `TypeOK`, `ProcessorsOnce`, `TablesOfFile`, `CardsListed`, `EndsOnlyFor`, `RoundEnds` |

Why the bounds are enough to be worth something. In the deque, two producers and
three consumers allow a thread to barge in between a notification and the woken
thread, and a notification to be spent while two others wait; five items on two
slots fill and drain it more than twice. In the logger, two writers reach
every pair of unlocked accesses, two lines per file make a rotation happen on every other call,
a deque of one or two fills up so that lines are written directly,
and a second process starts on the files of a crashed one; three days are enough for a
writer to be silent over one of them and find the number of the day unchanged. In the
buffer, messages reach from one that fits with room to spare to one that is two bytes too
long for the smallest memory, which covers the last byte, the NUL and the newline
falling behind it. `size_t` has 65536 values instead of 2^64: all that matters is that a
difference that wraps is larger than any length. In the server, two
threads overlap two Sets, or a Set and a Get, in any order of the fields; one
field of each kind shows the difference between overwriting and appending. The
collectors need three rounds for sums over two periods and for an interface that
is away for one; the counters wrap at two, and the clock starts at 5 and ends at
9 so that the sums reach the 8 where floats of 8 significands start to round.
The liveness of the logger is checked with one writer; that two do not wait for
each other in a circle is `PushNeverWaits` in `log_two`. The agent keeps nothing between rounds, so
a round that begins in any state of the files is every round, and rounds are not
bounded; the forms of `/proc/cpuinfo` end a processor in each of the three ways the
code knows, and lack each kind of number once; each of the five reasons in
`EndsOnlyFor` occurs; a line of metrics in three pieces can be cut before, within and after its
value; one rewriting is enough to put two contents together, and an interface and an
entry that is none give the two ways of leaving a field as it was.
The theorems below remove the bounds where they exist.

`CHECK_DEADLOCK FALSE` is used where the system really stops: the logger's
process has exited and no new one starts, the clients of the server have made
their calls, the agent's clock has reached its bound.

## 4. Fairness

* `DequeClients`: each thread that can take a step in a call is scheduled, and one
  that contends for the mutex gets it eventually. Nobody has to call, and no
  spurious wakeup or timeout is relied on.
* `Log`: the same for writers, flusher, and the owner once it is in `init` or
  `~Log`. Nobody has to log or to exit; there is no fairness for crashes, the clock or
  spurious wakeups.
* `GrpcManager`: the threads of the pool go on with their handlers, and a call
  ends when the server is not there, or has died with it, and the connection says so: the
  operating system of a process that dies closes its connections, and the stub fails
  at once without a connection, as `wait_for_ready` is not set. A connection that was lost
  in silence is excepted, in the fairness and in `CallsEnd`: its call may wait
  for ever. Nothing says that a dead server comes back or that a request arrives.
* `Agent`: the agent's thread is scheduled, and its call of the server returns.
  `GrpcManager` shows as `CallsEnd` that it does if its connection is not lost in
  silence; `RoundEnds` is under that condition. Nothing is asked of the program that writes the
  metrics or of the kernel; nobody has to start a process that has ended.
* `Collectors` states no liveness.

## 5. Findings

* `log_exit`: `~Log` may wait in `join` for ever. The flusher that enters `pop`
  after `close()` has notified waits on an empty, closed deque.
* `log_stale`: `flush()` reads `fp_` outside `mtx_`; another writer's rotation may
  close that FILE before `fflush` runs on it.
* `log_parts`: two writers pass the unlocked test together, and the count of
  lines jumps over the multiple of `MAX_LINES` at which the next file would start.
* `server_torn`: a Get during a Set returns a part of a sample, or nothing.

Two more belong to the modules without a run of their own, since the properties say what
the code does instead:

* The date is compared by the day of the month (`log_manager.cpp:87`). A process that
  logs nothing until the same day of another month does not change the file, and its
  line goes to the file of the earlier date; `OlderFileOnlyAfterSilence` allows exactly this.
* A message longer than the buffer has left makes the newline and its NUL be copied
  behind the end of the memory (`log_manager.cpp:131`); `damaged` says that it happened, and
  `TypeOK` and `LineWholeIfItFits` what the positions and the printed line are then.

## 6. The proofs

The theorems hold for every value of the constants that satisfies the named
`ASSUME` of the module, which TLC evaluates for the instances of section 3: disjoint
sets of threads or clients, positive sizes, sequences of the right elements. A
hypothesis beyond these stands in the theorem and is named below. Each proof has the
same shape: an inductive invariant, a lemma per action (or per kind of step), and a
last step in temporal logic.

| theorem | states | under |
|---|---|---|
| `DequeProofs!TypeCorrect` | `TypeOK` | |
| `DequeProofs!WakeupsSuffice`, `RoomWakeupsSuffice` | `WakeupsCoverItems`, `WakeupsCoverRoom` | pops without timeout, no `clear` |
| `DequeProofs!DequeImplementsChannel` | `ImplementsChannel` | |
| `LogProofs!TypeCorrect`, `NoPushWaits`, `FputsFindsFile` | `TypeOK`, `PushNeverWaits`, `FputsToOpenFile` | |
| `LogOrderProofs!OvertakesFew`, `DirectLinesDurable`, `ExitLosesNothing` | `OvertakeBounded`, `DirectDurable`, `ExitKeepsLines` | |
| `LogOrderProofs!ImplementsLogSink` | `ImplementsSink` | |
| `LogFileProofs!OneWriterOlderFile` | `OlderFileOnlyAfterSilence` | one writer |
| `LogFileProofs!FilesBounded` | `FileWithinBound` | one writer, one `init`, one process |
| `BufferProofs!BufferTypeCorrect`, `EnsureIsAlwaysEnough`, `LinesAreWhole` | `TypeOK`, `EnsureIsEnough`, `LineWholeIfItFits` | |
| `BufferProofs!BufferIsByteQueue` | `ImplementsByteQueue` | |
| `GrpcProofs!TypeCorrect`, `StoreSettles`, `ReadsSettle`, `StaleIsStray` | `TypeOK`, `SettledStore`, `SettledReads`, `StaleOnlyByStray` | |
| `GrpcProofs!FieldsBounded` | `MergesBounded` | finitely many threads |
| `CollectorsProofs!TypeCorrect`, `SumsCorrect`, `RatesSane`, `PeriodsNeverZero`, `NoneMissing`, `SharesOfAll` | `TypeOK`, `RatesAddUp`, `NegativeOnlyIfReset`, `PeriodsPositive`, `EveryKnownSource`, `SharesAddUp` | |
| `AgentProofs!TypeCorrect`, `ThreadEndsOnlyFor`, `EveryCardListed`, `TablesSayTheFile`, `EveryProcessorOnce` | `TypeOK`, `EndsOnlyFor`, `CardsListed`, `TablesOfFile`, `ProcessorsOnce` | |

### The deque

`WakeupsSuffice` and `RoomWakeupsSuffice` rest on the fact that a push or a pop
changes the length by one and the number of woken threads by at least one as long
as somebody waits (`HandOver` and the lemmas that use it). A timed pop may consume a
notification and give up, and `clear` makes room and tells nobody, which is why the
hypotheses are there; without them the properties are false.
`DequeImplementsChannel` needs `FreshItems`: an item a producer has at hand is not
in the channel yet.

### The logger

`CtlInv` is the control of the logger: `TypeInv`, with the values a thread has in hand
at each of its places (`LocalsInv`), and `PhaseInv`, who runs in which phase of the
process and what holds in it. `NoPushWaits` follows: only the holder of
`mtx_` pushes, and it has just found room. The part of `PhaseInv` that `FputsFindsFile` needs is
`OpenInv`: a file is closed only while its rotation holds `mtx_`, before `init` has
opened it or after `~Log`. The
assumption `NoOne \notin Writers` is needed here, the value of `mtx_` that says it is free being a
name like those of the threads.

What a step does with lines is said once, in `LineStep`: it numbers a line, passes one
on to the deque, gives one to the flusher, writes one, syncs, loses what a crash loses, or touches
none. The order proofs use that lemma and not the actions. They go from the numbers of the lines
(`OrderInv`: numbers in use are below the next one, the line of the holder of
`mtx_` is the newest, the deque is in order, a line is in one place and written
once) to the four promises: `BehindInv`, a line has no more lines before it in number and behind
it in the log than can be in flight; `ReturnedInv` and `DurableInv`, what a synchronous call
that returned has left on the disk; `CompleteInv`, in the first process every number given out is
held by somebody or written; and the step by step simulation of `LogSink`.

`LogFileProofs` is about one writer, because with two `FileWithinBound` is false (run
`log_parts`). For `OlderFileOnlyAfterSilence`, `DayInv` relates the file at hand to the date the
writer has read: neither it nor `init`'s is of a date to come, and once the test for a new file is
past, the two dates have the same number in their month. `LineDayInv` carries this to the lines:
each line went, or will go, to a file with no line of another number between the
date of the file and its own (`LinesOfFiles`), which a new line preserves since no
line is of a later date than the writer's (`NoLaterLine`). That the number is only the day of the month
is why the theorem cannot say that a line goes to the file of its date.

For `FilesBounded`, `CountInv` and `RoomInv` relate `lineCount_` to the lines that have
gone, or will go, to the current file. A second `init`, or a second process on the
same day, begins to count in a file that already has lines, hence the other two
hypotheses of `FilesBounded`.

### The buffer

Between lines a buffer is `Good`: its positions are in order and within a memory of the first size at
least. While a line is printed that may be too long, it only `Holds` the line: `readPos_` is 0, `writePos_`
is where the line would end, in the memory or not, and up to the first NUL the memory has the
line, or the bytes of it before the memory's last (`WholeLine`, `CutLine`). Both are
`BufferInv`; the step from one to the other is the wrapping of `WriteableBytes`, whose result
exceeds every length because a line and a chunk together are shorter than `SizeValues` (`BufferAssumption`). Each
member function has a lemma that says it leaves a good buffer and what it does to
`Content`, the bytes between the positions; the steps of the specification follow without a
word about the memory, and so does the refinement of `ByteQueue`. Bytes outside
`Content` are whatever they were, which is why a `CHOOSE` in the text of a line has to be
shown to have one value.

### The server

`StoreSettles` and `ReadsSettle` follow from `StoreInv`:

* `Quiet`: when no Set is running, the store is what `settled` says;
* `LoneSet`: a Set that runs alone finds empty what it has cleared and holds its
  own sample in what it has merged, whatever was there before;
* `QuietGet`: a Get without a Set in its way has copied what it must find.

`StaleIsStray` follows from `AgeInv`: a request in transit or in a handler is either the
one its client waits for or abandoned (`Awaited`), exists once (`OnceOnly`), and
what a thread has yet to write is not older than what is acknowledged, or is
abandoned (`NoOlder`). `Awaited` ranges over all calls, an infinite set, so this
invariant is proved without having been a TLC invariant first; the theorems it
yields are checked by the run `server`.

`FieldsBounded` follows from `RoomForAll`: the entries of a field and the threads that will still
merge into it without clearing it are together not more than the threads. A thread pays
for its entry when it clears the field, which empties it.

### The collectors that remember

One invariant: the rows at hand are those the kernel had when the file was read
(`RowsOfFile`), a counter that did not start again did not go back (`NeverBack`),
a source whose row is still to come was last seen before this round
(`OlderRound`, from the sleep), and what the message must have is what has been
processed and known (`DueSoFar`). `PeriodsNeverZero` is the part of it that keeps
the collectors from dividing by zero.

`SharesOfAll` has an invariant of its own, `StatInv`: the previous row
of `/proc/stat` is the kernel's times of its reading as floats, and the clock has gone
on since then when the next row is read. The hypothesis of `SharesAddUp`, a total
below `Significands`, is about a number that has been rounded. It is enough
because rounding never takes a number of `Significands` or more below it
(`NotBelow`): what is below `Significands` after a rounding was not rounded at all, and so
neither were the sums that it is made of. The machine's 2^24 ticks are two
days of one processor; beyond them the shares need not add up, and nothing is claimed. The
other assumption is one about the kernel, that the times of a processor only grow. The
proof needs to know that every number has a unit. That is usually an
induction over exponents; here a power of two is a number all of whose divisors but 1 are
even, and one beyond every number is found by doubling the largest that is not beyond it.

### The agent

`Inv` is `TypeInv`, with the type of the structure in hand at each place, and two more
parts.

* `FileInv`: the stream stands at a place of the file, what it has buffered is the
  file from that place on, and, while the process runs, the structure in
  hand holds what the lines before that place say (`CopiedTo`). It is preserved
  by a program that appends while the file is read. A file of metrics that was
  begun again is excepted (`cuts > 0`): the stream may then hold the end of one
  content before the middle of another.
* `CardInv`: the names reported, the one in hand and those still to come are
  disjoint and together all that were listed, and each field is what the interface's
  own file said, or a default if the interface has vanished.

`TablesSayTheFile` is an action property: at the step that ends a collector, its
entry is what a definition over the whole file (`ValueOf`) says. `ReadingOver`
connects the two: what the lines up to the place where the loop
stopped say is what the file says.

`ThreadEndsOnlyFor` says which five things end the process: no `USER` in the environment; a
`/proc/softirqs` or `/proc/loadavg` without a first line; in `/proc/cpuinfo`, `/proc/meminfo` or
`os-release`, a key that is looked for without a value, or with a word in place of a
number (`HasValues`); an interface that vanishes while its `mtu` is open; a file of metrics
begun again while it is read. Nothing is assumed of what the files contain. A step that ends the
process on a line does so for that line (`LineThrows`), which is a line of
the file because of `FileInv`, so that the file lacks a value (`KeyWithoutValue`). A file of
metrics that is not begun again never does: that each of its keys has its value, as far
as the file has come, follows from how its program appends to it (`MetricsHaveValues`).

`EveryProcessorOnce` is about the two loops of `CpuInfoMonitor`, of which the inner one reads
on in the stream of the outer one. Its invariant is `CpuInv`: the stream stands at a place of
`/proc/cpuinfo`; in the outer loop the message has the processors as far as
that place, each once, in order and with its values (`ReportedTo`); in the inner
loop it has those before the one in hand, and the structure holds, while the process runs, what the lines of
that processor say so far (`InBlock`), with the words of its first line still in the
vector, which is why the line behind it is lost. `BlockOver` is the heart of it:
whichever of its ways the inner loop ends in, at an empty line, at the last key or
at the end of the file, no other processor has come since, and no line of this one
is still to come. For this the kernel's format is assumed, as
`CpuAssumption`: an empty line stands between two processors, and between a line with
the last key, "power management", and the next processor. Without it the inner loop
would take the first line of a processor for a line of the one before. What a processor's values should be is defined by position (`OwnLines`: its
lines up to the next empty one, except the first behind its number) and not by
how the loops go, so that two processors with the same number are two.

### Only model-checked

* All liveness (`ItemsLeave`, `CloseReleasesWaiters`, `CallsReturn`, `QueuedWritten`,
  `CallsEnd`, `RoundEnds`): fairness is outside what the provers can do.

Every invariant and every refinement that a passing run checks is stated by a theorem.

## 7. Not modelled

The content of the messages beyond their fields, the numbers of the collectors
that copy files, what the bytes hit that an overlong line writes behind the buffer's memory
(beyond that they may end the process), the `struct tm` that `localtime` shares between
threads, how long gRPC takes to notice that a connection is gone, tests, build files, images and scripts. The parts of the logger,
the buffer and the collectors that their modules leave out are named in section 2.

## 8. Plan

Done: the modules above, in this order: deque, logger, buffer, server, collectors
that remember, file reader and the rest of the agent.

Done as well: theorems about all of them, so that every invariant of a passing run is
stated by a theorem, and so is every refinement.

Next: properties for the hazards that have none: a timed pop that was notified after
its deadline, `clear` with producers asleep, a second process on a file of the same
day, `localtime` shared by two threads.
