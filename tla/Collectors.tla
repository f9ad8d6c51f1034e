------------------------------ MODULE Collectors ------------------------------
(***************************************************************************)
(* The collectors that remember the previous sample, and the agent's loop  *)
(* that calls them: NetMonitor and CpuSoftIrqMonitor, which turn counters  *)
(* into rates, and CpuStatMonitor, which turns times into percentages.     *)
(*                                                                         *)
(* A source is a processor, with its column of /proc/softirqs, or a        *)
(* network interface, with its row of /proc/net/dev; both are called rows  *)
(* here.  The one counter of a source stands for the fields of its row,    *)
(* which the code treats alike.  /proc/stat has one row here, with one     *)
(* counter for the busy times.  A tick of the clock is a jiffy, which the  *)
(* processor spends busy, idle or waiting for I/O.                         *)
(*                                                                         *)
(* Only the agent looks at the kernel's counters, so what became of them   *)
(* since it last did is chosen when it reads a file.                       *)
(*                                                                         *)
(* The rows of a file are those of one moment, but each is processed, and  *)
(* given its timepoint, later and on its own.                              *)
(***************************************************************************)
EXTENDS Integers, FiniteSets

CONSTANTS
  Cpus,
  Interfaces,
  Wrap,         \* a counter of the kernel starts again at Wrap
  Sleep,        \* ticks the agent sleeps
  Significands, \* how many significands a float can have (2^24)
  Uptime,       \* ticks since the start of the machine, all idle so far
  MaxClock,     \* bound on the clock
  MaxResets,    \* bound on the resets of each counter
  MaxRestarts   \* bound on the restarts of the agent

\* Every divisor of u but 1 is even.
PowerOfTwo(u) == \A d \in 2 .. u : u % d = 0 => d % 2 = 0

ASSUME CollectorsAssumption ==
  /\ Cpus \cap Interfaces = {}
  /\ {Wrap, Sleep} \subseteq Nat \ {0}
  /\ Significands \in Nat \ {0, 1} /\ PowerOfTwo(Significands)
  /\ {Uptime, MaxClock, MaxResets, MaxRestarts} \subseteq Nat

VARIABLES
  clock,
  counter,      \* counter[n]: the counter of n when its file was last read
  jiffies,      \* the row of /proc/stat when it was last read
  pc,           \* the agent: "asleep", or the last collector: "softirq", "stat", "net"
  wake,         \* when it wakes up
  rows,         \* rows of the file that are still to be processed
  old,          \* old[n]: the previous row of n (net_info_, cpu_softirqs_), or NoRow
  oldStat,      \* the previous row of /proc/stat (cpu_stat_map_), or NoStat
  rates, stat,  \* the message being filled
  restarts,
  due,          \* history: the sources whose rate this message must have
  told          \* history: told[n], the sums of the deltas and periods of n so far

kernelVars == <<clock, counter>>
memoryVars == <<old, jiffies, oldStat, told>>
agentVars == <<pc, wake, rows, rates, stat, due, restarts>>
vars == <<kernelVars, memoryVars, agentVars>>

Sources == Cpus \cup Interfaces

\* The value of a counter whose interface is away.
Absent == -1
NoRow == [value |-> 0, time |-> -1, resets |-> 0]
NoStat == [busy |-> -1, idle |-> -1, io_wait |-> -1]
NoShares == [total |-> 0, busy |-> 0, idle |-> 0, io_wait |-> 0]
Untold == [delta |-> 0, period |-> 0, value |-> 0, time |-> 0]

\* A counter: its value, and how often it started again.
Counters == [value : {Absent} \cup 0 .. Wrap - 1, resets : 0 .. MaxResets]

Known == {n \in Sources : old[n] # NoRow}

-----------------------------------------------------------------------------
(***************************************************************************)
(* Floats.                                                                 *)
(***************************************************************************)

\* The value of the last bit of x as a float: the least power of two with which
\* a significand reaches x.
Unit(x) ==
  CHOOSE u \in 1 .. x + 1 :
    /\ PowerOfTwo(u)
    /\ x < u * Significands
    /\ u = 1 \/ x >= (u \div 2) * Significands

\* A natural number as a float: rounded to its unit, half to even.
RoundNat(x) ==
  LET unit == Unit(x)
      rest == x % unit
      low == x \div unit
      up == 2 * rest > unit \/ (2 * rest = unit /\ low % 2 = 1)
  IN  unit * (IF up THEN low + 1 ELSE low)

Float(x) == IF x < 0 THEN -RoundNat(-x) ELSE RoundNat(x)

Plus(x, y) == Float(x + y)
Minus(x, y) == Float(x - y)

\* Slip: the time spent waiting for I/O is not part of the total.
TotalNoWait(s) == Plus(s.busy, s.idle)

Total(s) == Plus(Plus(s.busy, s.idle), s.io_wait)

\* The numerators of the percentages, and their common denominator.
Shares(new, prev) ==
  [total |-> Minus(Total(new), Total(prev)), busy |-> Minus(new.busy, prev.busy),
   idle |-> Minus(new.idle, prev.idle), io_wait |-> Minus(new.io_wait, prev.io_wait)]

-----------------------------------------------------------------------------
Init ==
  /\ clock = Uptime
  /\ counter = [n \in Sources |-> [value |-> 0, resets |-> 0]]
  /\ jiffies = [busy |-> 0, idle |-> Uptime, io_wait |-> 0]
  /\ pc = "asleep" /\ wake = Uptime
  /\ rows = {}
  /\ old = [n \in Sources |-> NoRow]
  /\ oldStat = NoStat
  /\ rates = {} /\ stat = NoShares
  /\ restarts = 0
  /\ due = {}
  /\ told = [n \in Sources |-> Untold]

-----------------------------------------------------------------------------
(***************************************************************************)
(* The kernel.                                                             *)
(***************************************************************************)
Tick ==
  /\ clock < MaxClock
  /\ clock' = clock + 1
  /\ UNCHANGED <<counter, memoryVars, agentVars>>

\* Counter c is what n may have come to since its file was last read.  It has
\* grown, or started again, because it wrapped or because the interface went
\* and came back; or the interface is away.
Became(n, c) ==
  /\ c.value = Absent => n \in Interfaces
  /\ c.resets >= counter[n].resets
  /\ c.resets = counter[n].resets /\ c.value # Absent =>
       counter[n].value \in 0 .. c.value

-----------------------------------------------------------------------------
(***************************************************************************)
(* The agent.                                                              *)
(***************************************************************************)

\* A file is read, with the rows of the sources that it lists.
ReadRows(listed) ==
  \E now \in [listed -> Counters] :
    LET present == {n \in listed : now[n].value # Absent}
    IN  /\ \A n \in listed : Became(n, now[n])
        /\ counter' = [n \in Sources |-> IF n \in listed THEN now[n] ELSE counter[n]]
        /\ rows' = {[name |-> n, value |-> now[n].value, resets |-> now[n].resets] :
                      n \in present}
        /\ due' = due \cup (present \cap Known)

\* A round of the loop begins; CpuSoftIrqMonitor reads its file.
OpenSoftirqs ==
  /\ pc = "asleep"
  /\ clock >= wake
  /\ pc' = "softirq"
  /\ ReadRows(Cpus)
  /\ UNCHANGED <<clock, memoryVars, wake, rates, stat, restarts>>

\* NetMonitor reads its file.
OpenNet ==
  /\ pc = "stat"
  /\ pc' = "net"
  /\ ReadRows(Interfaces)
  /\ UNCHANGED <<clock, memoryVars, wake, rates, stat, restarts>>

\* Slip: the previous row minus this one.
RateOfSwapped(r) ==
  [name |-> r.name, delta |-> old[r.name].value - r.value,
   period |-> clock - old[r.name].time, reset |-> r.resets # old[r.name].resets]

\* The rate of row r over the previous row of its source.
RateOf(r) ==
  [name |-> r.name, delta |-> r.value - old[r.name].value,
   period |-> clock - old[r.name].time, reset |-> r.resets # old[r.name].resets]

\* Slip: the entry is inserted, not assigned, and stays that of the first row.
RememberFirst(r) ==
  IF r.name \in Known THEN old
  ELSE [old EXCEPT ![r.name] = [value |-> r.value, time |-> clock, resets |-> r.resets]]

Remember(r) ==
  [old EXCEPT ![r.name] = [value |-> r.value, time |-> clock, resets |-> r.resets]]

\* Slip: nothing is said of a source without traffic.
RowQuiet(r) ==
  /\ rows' = rows \ {r}
  /\ old' = Remember(r)
  /\ IF r.name \in Known
     THEN /\ rates' = IF r.value = old[r.name].value THEN rates ELSE rates \cup {RateOf(r)}
          /\ told' = told
     ELSE /\ told' = [told EXCEPT ![r.name] =
                        [delta |-> 0, period |-> 0, value |-> r.value, time |-> clock]]
          /\ UNCHANGED rates
  /\ UNCHANGED <<kernelVars, jiffies, oldStat, pc, wake, stat, due, restarts>>

\* One row: a rate if there is a previous row, and the new previous row.
Row(r) ==
  /\ rows' = rows \ {r}
  /\ old' = Remember(r)
  /\ IF r.name \in Known
     THEN /\ rates' = rates \cup {RateOf(r)}
          /\ told' = [told EXCEPT ![r.name].delta = @ + RateOf(r).delta,
                                  ![r.name].period = @ + RateOf(r).period]
     ELSE /\ told' = [told EXCEPT ![r.name] =
                        [delta |-> 0, period |-> 0, value |-> r.value, time |-> clock]]
          /\ UNCHANGED rates
  /\ UNCHANGED <<kernelVars, jiffies, oldStat, pc, wake, stat, due, restarts>>

\* The rows that /proc/stat can have now.
StatRows ==
  {s \in [DOMAIN jiffies -> 0 .. clock] :
     /\ s.busy + s.idle + s.io_wait = clock
     /\ \A k \in DOMAIN jiffies : s[k] >= jiffies[k]}

ReadStat ==
  \E row \in StatRows :
    LET new == [k \in DOMAIN row |-> Float(row[k])]
    IN  /\ jiffies' = row
        /\ stat' = IF oldStat # NoStat THEN Shares(new, oldStat) ELSE NoShares
        /\ oldStat' = new

\* Slip: the loop over the processors ends before the last one.
StatEarly ==
  /\ pc = "softirq"
  /\ Cardinality(rows) <= 1
  /\ ReadStat
  /\ pc' = "stat"
  /\ UNCHANGED <<kernelVars, old, told, wake, rows, rates, due, restarts>>

\* CpuStatMonitor.
Stat ==
  /\ pc = "softirq"
  /\ rows = {}
  /\ ReadStat
  /\ pc' = "stat"
  /\ UNCHANGED <<kernelVars, old, told, wake, rows, rates, due, restarts>>

\* Slip: the agent does not sleep.
SendNoSleep ==
  /\ pc = "net"
  /\ rows = {}
  /\ pc' = "asleep"
  /\ wake' = clock
  /\ rates' = {} /\ stat' = NoShares /\ due' = {}
  /\ UNCHANGED <<kernelVars, memoryVars, rows, restarts>>

\* The call (see GrpcManager), which ends sooner or later, and the sleep.
Send ==
  /\ pc = "net"
  /\ rows = {}
  /\ pc' = "asleep"
  /\ wake' = clock + Sleep
  /\ rates' = {} /\ stat' = NoShares /\ due' = {}
  /\ UNCHANGED <<kernelVars, memoryVars, rows, restarts>>

\* The agent's process dies, wherever it is, and is started again.
Restart ==
  /\ restarts < MaxRestarts
  /\ restarts' = restarts + 1
  /\ pc' = "asleep" /\ wake' = clock
  /\ rows' = {} /\ rates' = {} /\ stat' = NoShares /\ due' = {}
  /\ old' = [n \in Sources |-> NoRow]
  /\ oldStat' = NoStat
  /\ told' = [n \in Sources |-> Untold]
  /\ UNCHANGED <<kernelVars, jiffies>>

Next ==
  \/ Tick
  \/ OpenSoftirqs
  \/ \E r \in rows : Row(r)
  \/ Stat
  \/ OpenNet
  \/ Send
  \/ Restart

Spec == Init /\ [][Next]_vars

-----------------------------------------------------------------------------
(***************************************************************************)
(* Properties.                                                             *)
(***************************************************************************)
RowsOf(T) == [value : 0 .. Wrap - 1, time : T, resets : Nat]

\* Every variable has its type; no row is left over when the loop over the rows
\* ends, and no previous row is of the future.
TypeOK ==
  /\ clock \in Nat
  /\ counter \in [Sources -> Counters]
  /\ jiffies \in [{"busy", "idle", "io_wait"} -> Nat]
  /\ pc \in {"asleep", "softirq", "stat", "net"}
  /\ wake \in Nat /\ restarts \in Nat
  /\ rows \subseteq [name : Sources, value : 0 .. Wrap - 1, resets : Nat]
  /\ pc \in {"asleep", "stat"} => rows = {}
  /\ old \in [Sources -> RowsOf(0 .. clock) \cup {NoRow}]
  /\ rates \subseteq [name : Sources, delta : Int, period : Int, reset : BOOLEAN]
  /\ due \subseteq Sources
  /\ told \in [Sources -> [delta : Int, period : Int, value : Int, time : Int]]

\* No division by zero: the clock has moved between two rows of a source.
PeriodsPositive == \A r \in rates : r.period > 0

\* The rates of a source, each times its period, add up to what its counter
\* has gained since the agent first saw it, and their periods to the time
\* since then: nothing is counted twice or left out, also when the interface
\* is away for some samples.
RatesAddUp ==
  \A n \in Known :
    /\ told[n].value + told[n].delta = old[n].value
    /\ told[n].time + told[n].period = old[n].time

\* A rate is negative only if the counter has started again since the last
\* sample: an interface came back under its name, or a counter wrapped.
NegativeOnlyIfReset == \A r \in rates : r.delta < 0 => r.reset

\* The message has one rate for every source that was in the file and known
\* before, and none for any other, such as one seen for the first time.
EveryKnownSource ==
  /\ {r.name : r \in rates} = due \ {r.name : r \in rows}
  /\ \A q, r \in rates : q.name = r.name => q = r

\* As long as no sum of times needs more bits than a float has, the busy, idle
\* and waiting shares are between nothing and all, and add up to all.
SharesAddUp ==
  stat # NoShares /\ Total(oldStat) < Significands =>
    /\ stat.total > 0
    /\ stat.busy >= 0 /\ stat.idle >= 0 /\ stat.io_wait >= 0
    /\ stat.busy + stat.idle + stat.io_wait = stat.total
=============================================================================
