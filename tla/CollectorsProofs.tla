--------------------------- MODULE CollectorsProofs ---------------------------
(***************************************************************************)
(* Theorems about Collectors: what its run checks for one processor and    *)
(* one interface holds for any number of them, any sleep and any counters, *)
(* and any precision of the floats.                                        *)
(***************************************************************************)
EXTENDS Collectors, WellFoundedInduction, TLAPS

-----------------------------------------------------------------------------
(***************************************************************************)
(* The inductive invariant.                                                *)
(***************************************************************************)
RowNames == {r.name : r \in rows}

\* The rows still to be processed are those of the file that is open, one for
\* a source, as the kernel's counters were when it was read.
RowsOfFile ==
  /\ RowNames \subseteq (IF pc = "softirq" THEN Cpus ELSE Interfaces)
  /\ \A q, r \in rows : q.name = r.name => q = r
  /\ \A r \in rows : /\ r.value = counter[r.name].value
                     /\ r.resets = counter[r.name].resets

\* A counter that has not started again has not gone back.
NeverBack ==
  \A n \in Known :
    /\ old[n].resets <= counter[n].resets
    /\ old[n].resets = counter[n].resets /\ counter[n].value # Absent =>
         old[n].value <= counter[n].value

\* Sources whose row of this round is still to come.
Pending(n) ==
  \/ n \in RowNames
  \/ n \in Interfaces /\ pc \in {"softirq", "stat"}

\* The previous row of a source is of an earlier moment than the round.
OlderRound ==
  \A n \in Known :
    /\ pc = "asleep" => old[n].time < wake
    /\ Pending(n) => old[n].time < clock

\* What this message must have, as far as it has been filled.
DueSoFar ==
  /\ RowNames \cap due = RowNames \cap Known
  /\ pc = "asleep" => due = {} /\ rates = {}
  /\ pc \in {"softirq", "stat"} => due \subseteq Cpus

RowsInv == RowsOfFile /\ NeverBack /\ OlderRound /\ DueSoFar

Promises == RatesAddUp /\ NegativeOnlyIfReset /\ PeriodsPositive /\ EveryKnownSource

Inv == TypeOK /\ RowsInv /\ Promises
-----------------------------------------------------------------------------
(***************************************************************************)
(* One step.                                                               *)
(***************************************************************************)
LEMMA Facts == Sleep \in Nat \ {0} /\ Wrap \in Nat \ {0} /\ Uptime \in Nat
               /\ MaxClock \in Nat /\ MaxResets \in Nat
BY CollectorsAssumption

LEMMA InitInv == Init => Inv
<1> SUFFICES ASSUME Init PROVE Inv
  OBVIOUS
<1>1. Known = {} /\ RowNames = {}
  BY DEF Init, Known, RowNames
<1>2. TypeOK
  BY Facts DEF Init, TypeOK, NoRow, Untold, Counters, RowsOf
<1> QED
  BY <1>1, <1>2 DEF Init, Inv, RowsInv, RowsOfFile, NeverBack, OlderRound, DueSoFar,
     Promises, RatesAddUp, NegativeOnlyIfReset, PeriodsPositive, EveryKnownSource, RowNames

\* A row that has been seen is not NoRow, and its fields are numbers.
LEMMA KnownRow ==
  ASSUME TypeOK, NEW n \in Known
  PROVE  /\ n \in Sources
         /\ old[n].value \in Nat /\ old[n].resets \in Nat
         /\ old[n].time \in 0 .. clock
BY Facts DEF TypeOK, Known, RowsOf

\* Reading a file leaves the previous rows and the rates alone.
LEMMA ReadStep ==
  ASSUME Inv, NEW next \in {"softirq", "net"}, NEW listed,
         listed = (IF next = "softirq" THEN Cpus ELSE Interfaces),
         pc = IF next = "softirq" THEN "asleep" ELSE "stat",
         next = "softirq" => clock >= wake,
         ReadRows(listed), pc' = next,
         UNCHANGED <<clock, memoryVars, wake, rates, stat, restarts>>
  PROVE  Inv'
<1> USE DEF memoryVars
<1>1. PICK now \in [listed -> Counters] :
        LET present == {n \in listed : now[n].value # Absent}
        IN  /\ \A n \in listed : Became(n, now[n])
            /\ counter' = [n \in Sources |-> IF n \in listed THEN now[n] ELSE counter[n]]
            /\ rows' = {[name |-> n, value |-> now[n].value, resets |-> now[n].resets] :
                          n \in present}
            /\ due' = due \cup (present \cap Known)
  BY DEF ReadRows
<1> DEFINE present == {n \in listed : now[n].value # Absent}
<1>2. listed \subseteq Sources /\ rows = {} /\ RowNames = {} /\ Known' = Known
  BY DEF Inv, TypeOK, Sources, RowNames, Known
<1>3. RowNames' = present
  <2> DEFINE row(n) == [name |-> n, value |-> now[n].value, resets |-> now[n].resets]
  <2>1. rows' = {row(n) : n \in present} /\ \A n \in present : row(n).name = n
    BY <1>1
  <2>2. RowNames' = {q.name : q \in rows'}
    BY DEF RowNames
  <2>3. \A n \in present : row(n) \in rows'
    BY <2>1
  <2>4. \A q \in rows' : q.name \in present
    BY <2>1
  <2> HIDE DEF row, present
  <2> QED BY <2>1, <2>2, <2>3, <2>4
<1>4. TypeOK'
  <2>1. counter' \in [Sources -> Counters]
    BY <1>1, <1>2 DEF Inv, TypeOK
  <2>2. rows' \subseteq [name : Sources, value : 0 .. Wrap - 1, resets : Nat]
    BY <1>1, <1>2, Facts DEF Counters, Absent
  <2> QED BY <1>1, <1>2, <2>1, <2>2 DEF Inv, TypeOK
<1>5. RowsOfFile'
  BY <1>1, <1>2, <1>3 DEF RowsOfFile
<1>6. NeverBack'
  <2> SUFFICES ASSUME NEW n \in Known
               PROVE  /\ old[n].resets <= counter'[n].resets
                      /\ old[n].resets = counter'[n].resets /\ counter'[n].value # Absent =>
                           old[n].value <= counter'[n].value
    BY <1>2 DEF NeverBack
  <2>1. CASE n \notin listed
    BY <2>1, <1>1, KnownRow DEF Inv, RowsInv, NeverBack
  <2>2. CASE n \in listed
    <3>1. counter'[n] = now[n] /\ Became(n, now[n])
      BY <2>2, <1>1, <1>2
    <3>2. counter[n] \in Counters /\ now[n] \in Counters
      BY <2>2, <1>1, KnownRow DEF Inv, TypeOK
    <3>3. /\ old[n].resets <= counter[n].resets
          /\ old[n].resets = counter[n].resets /\ counter[n].value # Absent =>
               old[n].value <= counter[n].value
      BY DEF Inv, RowsInv, NeverBack
    <3> QED BY <3>1, <3>2, <3>3, Facts, KnownRow DEF Inv, Became, Counters, Absent
  <2> QED BY <2>1, <2>2
<1>7. OlderRound'
  <2> SUFFICES ASSUME NEW n \in Known, Pending(n)' PROVE old[n].time < clock
    BY <1>2 DEF OlderRound
  <2>1. CASE next = "softirq"
    <3>1. old[n].time < wake /\ clock >= wake
      BY <2>1 DEF Inv, RowsInv, OlderRound
    <3>2. wake \in Int /\ clock \in Int
      BY DEF Inv, TypeOK
    <3>3. old[n].time \in 0 .. clock
      BY KnownRow DEF Inv
    <3> QED BY <3>1, <3>2, <3>3
  <2>2. CASE next = "net"
    BY <2>2, <1>3 DEF Inv, RowsInv, OlderRound, Pending
  <2> QED BY <2>1, <2>2
<1>8. DueSoFar'
  <2>1. due \cap listed = {}
    BY CollectorsAssumption DEF Inv, RowsInv, DueSoFar
  <2> QED BY <1>1, <1>2, <1>3, <2>1 DEF Inv, RowsInv, DueSoFar
<1>9. EveryKnownSource'
  <2>1. due \cap listed = {}
    BY CollectorsAssumption DEF Inv, RowsInv, DueSoFar
  <2>2. {q.name : q \in rates} = due
    BY <1>2 DEF Inv, Promises, EveryKnownSource
  <2>3. due' \ RowNames' = due
    <3>1. due' = due \cup (present \cap Known)
      BY <1>1
    <3> QED BY <3>1, <2>1, <1>3
  <2>4. {q.name : q \in rates}' = {q.name : q \in rates}
    OBVIOUS
  <2> QED BY <2>2, <2>3, <2>4 DEF Inv, Promises, EveryKnownSource, RowNames
<1>10. (RatesAddUp /\ NegativeOnlyIfReset /\ PeriodsPositive)'
  BY <1>2 DEF Inv, Promises, RatesAddUp, NegativeOnlyIfReset, PeriodsPositive
<1> QED BY <1>4, <1>5, <1>6, <1>7, <1>8, <1>9, <1>10 DEF Inv, RowsInv, Promises

\* One row: what it says of its own source; nothing changes for the others.
LEMMA RowStep ==
  ASSUME Inv, NEW r \in rows, Row(r)
  PROVE  Inv'
<1> DEFINE n == r.name
           new == [value |-> r.value, time |-> clock, resets |-> r.resets]
<1>1. /\ rows' = rows \ {r} /\ old' = [old EXCEPT ![n] = new]
      /\ UNCHANGED <<clock, counter, jiffies, oldStat, pc, wake, stat, due, restarts>>
  BY DEF Row, Remember, kernelVars
<1>2. /\ n \in Sources /\ r.value \in 0 .. Wrap - 1 /\ r.resets \in Nat
      /\ clock \in Nat /\ pc \in {"softirq", "net"}
      /\ r.value = counter[n].value /\ r.resets = counter[n].resets
  BY DEF Inv, TypeOK, RowsInv, RowsOfFile
<1>3. new # NoRow /\ new \in RowsOf(0 .. clock)
  BY <1>2 DEF NoRow, RowsOf
<1>4. /\ old'[n] = new
      /\ \A m \in Sources \ {n} : old'[m] = old[m]
      /\ Known' = Known \cup {n}
  <2>1. old'[n] = new /\ \A m \in Sources \ {n} : old'[m] = old[m]
    BY <1>1, <1>2 DEF Inv, TypeOK
  <2> QED BY <2>1, <1>2, <1>3 DEF Known
<1>5. n \in RowNames /\ RowNames' = RowNames \ {n}
  <2>1. RowNames' = {q.name : q \in rows \ {r}}
    BY <1>1 DEF RowNames
  <2>2. \A q \in rows \ {r} : q.name # n
    BY DEF Inv, RowsInv, RowsOfFile
  <2> QED BY <2>1, <2>2 DEF RowNames
<1>6. n \in Known => old[n].time < clock /\ old[n].time \in 0 .. clock /\ old[n].value \in Nat
                      /\ old[n].resets \in Nat
  BY <1>5, KnownRow DEF Inv, RowsInv, OlderRound, Pending
<1>7. n \in Known =>
        /\ RateOf(r) \in [name : Sources, delta : Int, period : Int, reset : BOOLEAN]
        /\ RateOf(r).name = n
        /\ RateOf(r).delta = r.value - old[n].value
        /\ RateOf(r).period = clock - old[n].time
        /\ RateOf(r).period > 0
        /\ RateOf(r).delta < 0 => RateOf(r).reset
  <2> SUFFICES ASSUME n \in Known
               PROVE  /\ r.value - old[n].value \in Int
                      /\ clock - old[n].time \in Int /\ clock - old[n].time > 0
                      /\ r.value - old[n].value < 0 => r.resets # old[n].resets
    BY <1>2 DEF RateOf
  <2>1. r.value # Absent
    BY <1>2, Facts DEF Absent
  <2> QED BY <2>1, <1>2, <1>6, Facts DEF Inv, RowsInv, NeverBack
<1>8. RowsInv'
  <2>1. RowsOfFile'
    BY <1>1, <1>5 DEF Inv, RowsInv, RowsOfFile
  <2>2. NeverBack'
    <3> SUFFICES ASSUME NEW m \in Known \cup {n}
                 PROVE  /\ old'[m].resets <= counter[m].resets
                        /\ old'[m].resets = counter[m].resets /\ counter[m].value # Absent =>
                             old'[m].value <= counter[m].value
      BY <1>1, <1>4 DEF NeverBack
    <3>1. CASE m = n
      BY <3>1, <1>2, <1>4, Facts
    <3>2. CASE m # n
      BY <3>2, <1>4 DEF Inv, RowsInv, NeverBack, Known
    <3> QED BY <3>1, <3>2
  <2>3. OlderRound'
    <3> SUFFICES ASSUME NEW m \in Known \cup {n}, Pending(m)'
                 PROVE  old'[m].time < clock
      BY <1>1, <1>2, <1>4 DEF OlderRound
    <3>1. m # n
      BY <1>1, <1>2, <1>5, CollectorsAssumption DEF Pending, Inv, RowsInv, RowsOfFile
    <3> QED BY <3>1, <1>1, <1>4, <1>5 DEF Inv, RowsInv, OlderRound, Pending, Known
  <2>4. DueSoFar'
    BY <1>1, <1>2, <1>4, <1>5 DEF Inv, RowsInv, DueSoFar
  <2> QED BY <2>1, <2>2, <2>3, <2>4 DEF RowsInv
<1>9. CASE n \in Known
  <2>1. /\ rates' = rates \cup {RateOf(r)}
        /\ told' = [told EXCEPT ![n].delta = @ + RateOf(r).delta,
                                ![n].period = @ + RateOf(r).period]
    BY <1>9 DEF Row
  <2>2. /\ told'[n] = [delta |-> told[n].delta + RateOf(r).delta,
                       period |-> told[n].period + RateOf(r).period,
                       value |-> told[n].value, time |-> told[n].time]
        /\ \A m \in Sources \ {n} : told'[m] = told[m]
        /\ DOMAIN told' = Sources
    <3>1. told \in [Sources -> [delta : Int, period : Int, value : Int, time : Int]]
      BY DEF Inv, TypeOK
    <3>2. n \in Sources /\ told[n] \in [delta : Int, period : Int, value : Int, time : Int]
      BY <1>2, <3>1
    <3> QED
      BY <2>1, <3>1, <3>2
  <2>3. TypeOK'
    <3> DEFINE Sums == [delta : Int, period : Int, value : Int, time : Int]
    <3>1. told' \in [Sources -> Sums]
      <4>1. told[n] \in Sums /\ RateOf(r).delta \in Int /\ RateOf(r).period \in Int
        BY <1>2, <1>7, <1>9 DEF Inv, TypeOK
      <4>2. told'[n] \in Sums
        BY <4>1, <2>2
      <4>3. \A m \in Sources \ {n} : told'[m] \in Sums
        BY <2>2 DEF Inv, TypeOK
      <4>4. told' = [m \in Sources |-> told'[m]]
        BY <2>1 DEF Inv, TypeOK
      <4> QED BY <4>2, <4>3, <4>4
    <3> QED BY <1>1, <1>2, <1>3, <1>7, <1>9, <2>1, <3>1 DEF Inv, TypeOK, RowsOf
  <2>4. RatesAddUp'
    <3> SUFFICES ASSUME NEW m \in Known
                 PROVE  /\ told'[m].value + told'[m].delta = old'[m].value
                        /\ told'[m].time + told'[m].period = old'[m].time
      BY <1>4, <1>9 DEF RatesAddUp
    <3>1. /\ told[m].value + told[m].delta = old[m].value
          /\ told[m].time + told[m].period = old[m].time
          /\ told[m] \in [delta : Int, period : Int, value : Int, time : Int]
      BY DEF Inv, Promises, RatesAddUp, TypeOK, Known
    <3>2. CASE m = n
      <4>1. /\ told'[m].value = told[m].value /\ told'[m].time = told[m].time
            /\ told'[m].delta = told[m].delta + (r.value - old[m].value)
            /\ told'[m].period = told[m].period + (clock - old[m].time)
        BY <2>2, <3>1, <3>2, <1>7, <1>9
      <4> QED BY <4>1, <3>1, <3>2, <1>2, <1>4, <1>6, <1>9
    <3>3. CASE m # n
      BY <3>1, <3>3, <2>2, <1>4 DEF Known
    <3> QED BY <3>2, <3>3
  <2>5. NegativeOnlyIfReset' /\ PeriodsPositive'
    BY <2>1, <1>7, <1>9 DEF Inv, Promises, NegativeOnlyIfReset, PeriodsPositive
  <2>6. EveryKnownSource'
    <3>1. {q.name : q \in rates'} = {q.name : q \in rates} \cup {n}
      BY <2>1, <1>7, <1>9
    <3>2. n \in due /\ {q.name : q \in rates} = due \ RowNames
      BY <1>5, <1>9 DEF Inv, RowsInv, DueSoFar, Promises, EveryKnownSource, RowNames
    <3>3. {q.name : q \in rates'} = due' \ RowNames'
      BY <3>1, <3>2, <1>1, <1>5
    <3>4. \A p, q \in rates' : p.name = q.name => p = q
      BY <2>1, <3>2, <1>5, <1>7, <1>9 DEF Inv, Promises, EveryKnownSource
    <3> QED BY <3>3, <3>4 DEF EveryKnownSource, RowNames
  <2> QED BY <2>3, <2>4, <2>5, <2>6, <1>8 DEF Inv, Promises
<1>10. CASE n \notin Known
  <2>1. /\ UNCHANGED rates
        /\ told' = [told EXCEPT ![n] =
                       [delta |-> 0, period |-> 0, value |-> r.value, time |-> clock]]
    BY <1>10 DEF Row
  <2>2. TypeOK'
    BY <1>1, <1>2, <1>3, <2>1 DEF Inv, TypeOK, RowsOf
  <2>3. RatesAddUp'
    <3> SUFFICES ASSUME NEW m \in Known \cup {n}
                 PROVE  /\ told'[m].value + told'[m].delta = old'[m].value
                        /\ told'[m].time + told'[m].period = old'[m].time
      BY <1>4 DEF RatesAddUp
    <3>1. CASE m = n
      BY <3>1, <2>1, <1>2, <1>4 DEF Inv, TypeOK
    <3>2. CASE m # n
      BY <3>2, <2>1, <1>4 DEF Inv, TypeOK, Promises, RatesAddUp, Known
    <3> QED BY <3>1, <3>2
  <2>4. NegativeOnlyIfReset' /\ PeriodsPositive'
    BY <2>1 DEF Inv, Promises, NegativeOnlyIfReset, PeriodsPositive
  <2>5. EveryKnownSource'
    <3>1. n \notin due /\ {q.name : q \in rates} = due \ RowNames
      BY <1>5, <1>10 DEF Inv, RowsInv, DueSoFar, Promises, EveryKnownSource, RowNames
    <3> QED BY <3>1, <2>1, <1>1, <1>5 DEF Inv, Promises, EveryKnownSource, RowNames
  <2> QED BY <2>2, <2>3, <2>4, <2>5, <1>8 DEF Inv, Promises
<1> QED BY <1>9, <1>10

LEMMA NextInv == Inv /\ [Next]_vars => Inv'
<1> SUFFICES ASSUME Inv, [Next]_vars PROVE Inv'
  OBVIOUS
<1> USE DEF vars, kernelVars, memoryVars, agentVars
<1>1. CASE Tick
  <2>1. /\ clock \in Nat /\ clock' = clock + 1
        /\ UNCHANGED <<counter, memoryVars, agentVars>> /\ Known' = Known
    BY <1>1 DEF Tick, Inv, TypeOK, Known
  <2>2. 0 .. clock \subseteq 0 .. clock'
    BY <2>1
  <2>3. TypeOK'
    BY <2>1, <2>2 DEF Inv, TypeOK, RowsOf
  <2>4. OlderRound'
    <3> SUFFICES ASSUME NEW n \in Known
                 PROVE  /\ pc = "asleep" => old[n].time < wake
                        /\ Pending(n) => old[n].time < clock'
      BY <2>1 DEF OlderRound, Pending, RowNames
    <3> QED BY <2>1, KnownRow DEF Inv, RowsInv, OlderRound
  <2> QED BY <2>1, <2>3, <2>4 DEF Inv, RowsInv, RowsOfFile, NeverBack, DueSoFar, RowNames,
          Promises, RatesAddUp, NegativeOnlyIfReset, PeriodsPositive, EveryKnownSource
<1>2. CASE OpenSoftirqs
  BY <1>2, ReadStep DEF OpenSoftirqs
<1>3. CASE OpenNet
  BY <1>3, ReadStep DEF OpenNet
<1>4. ASSUME NEW r \in rows, Row(r) PROVE Inv'
  BY <1>4, RowStep
<1>5. CASE Stat
  <2>1. /\ pc = "softirq" /\ pc' = "stat" /\ rows = {} /\ RowNames = {}
        /\ UNCHANGED <<kernelVars, old, told, wake, rows, rates, due, restarts>>
        /\ Known' = Known /\ RowNames' = {}
    BY <1>5 DEF Stat, RowNames, Known
  <2>2. jiffies' \in [{"busy", "idle", "io_wait"} -> Nat]
    <3>1. jiffies' \in StatRows
      BY <1>5 DEF Stat, ReadStat
    <3>2. clock \in Nat /\ DOMAIN jiffies = {"busy", "idle", "io_wait"}
      BY DEF Inv, TypeOK
    <3> QED BY <3>1, <3>2 DEF StatRows
  <2>3. TypeOK'
    BY <2>1, <2>2 DEF Inv, TypeOK
  <2>4. RowsInv'
    BY <2>1 DEF Inv, RowsInv, RowsOfFile, NeverBack, OlderRound, Pending, DueSoFar
  <2>5. Promises'
    BY <2>1 DEF Inv, Promises, RatesAddUp, NegativeOnlyIfReset, PeriodsPositive,
       EveryKnownSource
  <2> QED BY <2>3, <2>4, <2>5 DEF Inv
<1>6. CASE Send
  <2>1. /\ pc' = "asleep" /\ rows = {} /\ wake' = clock + Sleep
        /\ rates' = {} /\ due' = {}
        /\ UNCHANGED <<kernelVars, memoryVars, rows, restarts>>
        /\ Known' = Known /\ RowNames' = {}
    BY <1>6 DEF Send, RowNames, Known
  <2>2. TypeOK'
    BY <2>1, Facts DEF Inv, TypeOK
  <2>3. OlderRound'
    <3> SUFFICES ASSUME NEW n \in Known PROVE old[n].time < clock + Sleep
      BY <2>1 DEF OlderRound, Pending
    <3>1. old[n].time \in 0 .. clock
      BY KnownRow DEF Inv
    <3>2. clock \in Nat
      BY DEF Inv, TypeOK
    <3> QED BY <3>1, <3>2, Facts
  <2>4. RowsInv'
    BY <2>1, <2>3 DEF Inv, RowsInv, RowsOfFile, NeverBack, DueSoFar
  <2>5. Promises'
    BY <2>1 DEF Inv, Promises, RatesAddUp, NegativeOnlyIfReset, PeriodsPositive,
       EveryKnownSource
  <2> QED BY <2>2, <2>4, <2>5 DEF Inv
<1>7. CASE Restart
  <2>1. /\ pc' = "asleep" /\ rows' = {} /\ rates' = {} /\ due' = {}
        /\ Known' = {} /\ RowNames' = {}
    BY <1>7 DEF Restart, RowNames, Known
  <2>2. TypeOK'
    BY <1>7, Facts DEF Restart, Inv, TypeOK, Untold
  <2> QED BY <2>1, <2>2 DEF Inv, RowsInv, RowsOfFile, NeverBack, OlderRound, DueSoFar,
          Promises, RatesAddUp, NegativeOnlyIfReset, PeriodsPositive, EveryKnownSource
<1>8. CASE UNCHANGED vars
  BY <1>8 DEF Inv, TypeOK, RowsInv, RowsOfFile, NeverBack, OlderRound, Pending, DueSoFar,
     RowNames, Known, Promises, RatesAddUp, NegativeOnlyIfReset, PeriodsPositive,
     EveryKnownSource
<1> QED
  BY <1>1, <1>2, <1>3, <1>4, <1>5, <1>6, <1>7, <1>8 DEF Next

LEMMA Invariance == Spec => []Inv
BY InitInv, NextInv, PTL DEF Spec

-----------------------------------------------------------------------------
(***************************************************************************)
(* Floats.                                                                 *)
(***************************************************************************)
LEMMA SignificandsType == Significands \in Nat \ {0, 1}
  BY CollectorsAssumption

Less == OpToRel(<, Nat)

LEMMA LessFacts ==
  /\ IsWellFoundedOn(Less, Nat)
  /\ \A i, j \in Nat : i < j => <<i, j>> \in Less
<1>1. IsWellFoundedOn(Less, Nat)
  BY NatLessThanWellFounded, Zenon DEF Less
<1>2. \A i, j \in Nat : i < j => <<i, j>> \in Less
  BY Zenon DEF Less, OpToRel
<1> QED
  BY <1>1, <1>2

\* A set of naturals that is not empty has a least element.
LEMMA Least ==
  ASSUME NEW S \in SUBSET Nat, S # {}
  PROVE  \E m \in S : \A n \in S : m <= n
<1>1. PICK m \in S : \A n \in S : ~(<<n, m>> \in Less)
  <2>1. S \subseteq Nat /\ IsWellFoundedOn(Less, Nat)
    BY LessFacts
  <2> QED
    BY <2>1, WFMin, Zenon
<1>2. \A n \in S : ~(n < m)
  BY <1>1, LessFacts
<1> QED
  BY <1>2

\* What is divisible is a multiple.
LEMMA Multiple ==
  ASSUME NEW d \in Nat \ {0}, NEW u \in Nat
  PROVE  u % d = 0 <=> \E k \in Nat : u = d * k
<1>1. ASSUME u % d = 0 PROVE \E k \in Nat : u = d * k
  BY <1>1
<1>2. ASSUME NEW k \in Nat, u = d * k PROVE u % d = 0
  BY <1>2
<1> QED
  BY <1>1, <1>2

\* Division with a rest.
LEMMA Quotient ==
  ASSUME NEW d \in Nat \ {0}, NEW u \in Nat
  PROVE  \E q \in Nat, r \in 0 .. d - 1 : q = u \div d /\ r = u % d /\ u = d * q + r
<1> DEFINE q == u \div d
           r == u % d
<1>1. q \in Nat /\ r \in 0 .. d - 1
  OBVIOUS
<1>2. r = u - d * q
  OBVIOUS
<1> HIDE DEF q, r
<1>3. u = d * q + r
  BY <1>1, <1>2
<1>4. q = u \div d /\ r = u % d
  BY DEF q, r
<1> QED
  BY <1>1, <1>3, <1>4

\* Products, of which the solver knows little.
LEMMA TimesMonotone ==
  ASSUME NEW a \in Nat, NEW b \in Nat, NEW c \in Nat, b <= c
  PROVE  a * b <= a * c /\ b * a <= c * a /\ a * b \in Nat
  OBVIOUS

LEMMA DoubleMoves ==
  ASSUME NEW a \in Nat, NEW b \in Nat
  PROVE  a * (2 * b) = (2 * a) * b
  OBVIOUS

LEMMA OneIsPower == PowerOfTwo(1)
  BY DEF PowerOfTwo

\* Twice a power of two is one.
LEMMA DoublePower ==
  ASSUME NEW u \in Nat \ {0}, PowerOfTwo(u)
  PROVE  PowerOfTwo(2 * u)
<1> SUFFICES ASSUME NEW d \in 2 .. 2 * u, (2 * u) % d = 0, d % 2 = 1
             PROVE  FALSE
  BY DEF PowerOfTwo
<1>1. PICK k \in Nat : 2 * u = d * k
  BY Multiple
<1>2. PICK e \in Nat : d = 2 * e + 1
  OBVIOUS
<1>3. 2 * u = 2 * (e * k) + k /\ e * k \in Nat
  BY <1>1, <1>2
<1>4. PICK h \in Nat : k = 2 * h
  <2>1. k = 2 * (u - e * k) /\ u - e * k \in Int
    BY <1>3
  <2>2. u - e * k \in Nat
    BY <2>1
  <2> QED
    BY <2>1, <2>2
<1>5. d * (2 * h) = 2 * (d * h) /\ d * h \in Nat
  OBVIOUS
<1>6. u = d * h
  <2>1. 2 * u = 2 * (d * h)
    BY <1>1, <1>4, <1>5
  <2> QED
    BY <1>5, <2>1
<1>7. u % d = 0
  <2>1. \E n \in Nat : u = d * n
    BY <1>6
  <2>2. d \in Nat \ {0}
    OBVIOUS
  <2> QED
    BY <2>1, <2>2, Multiple
<1>8. d <= u
  <2>1. h # 0
    BY <1>6
  <2>2. PICK j \in Nat : h = 1 + j
    BY <2>1
  <2>3. d * h = d + d * j /\ d * j \in Nat
    BY <2>2
  <2> QED
    BY <1>6, <2>3
<1> QED
  BY <1>7, <1>8 DEF PowerOfTwo

\* Half of a power of two is one, but for 1.
LEMMA HalfPower ==
  ASSUME NEW u \in Nat \ {0, 1}, PowerOfTwo(u)
  PROVE  \E h \in Nat \ {0} : u = 2 * h /\ u \div 2 = h /\ PowerOfTwo(h)
<1>1. u % 2 = 0
  <2>1. u % u = 0 /\ u \in 2 .. u
    OBVIOUS
  <2> QED
    BY <2>1 DEF PowerOfTwo
<1>2. PICK h \in Nat \ {0} : u = 2 * h
  BY <1>1
<1>3. ASSUME NEW d \in 2 .. h, h % d = 0 PROVE d % 2 = 0
  <2>1. PICK k \in Nat : h = d * k
    BY <1>3, Multiple
  <2>2. d * (2 * k) = 2 * (d * k)
    OBVIOUS
  <2>3. u = d * (2 * k)
    BY <1>2, <2>1, <2>2
  <2>4. u % d = 0 /\ d \in 2 .. u
    <3>1. d \in Nat \ {0} /\ 2 * k \in Nat /\ d \in 2 .. u
      BY <1>2
    <3> QED
      BY <2>3, <3>1, Multiple
  <2> QED
    BY <2>4 DEF PowerOfTwo
<1>4. u \div 2 = h
  BY <1>2
<1> QED
  BY <1>2, <1>3, <1>4 DEF PowerOfTwo

\* The largest power of two up to x would have a double.
LEMMA PowersUnbounded ==
  ASSUME NEW x \in Nat
  PROVE  \E u \in Nat : PowerOfTwo(u) /\ x < u
<1> SUFFICES ASSUME \A u \in Nat : PowerOfTwo(u) => u <= x
             PROVE  FALSE
  OBVIOUS
<1> DEFINE S == {n \in Nat : n < x /\ PowerOfTwo(x - n)}
<1>1. 1 <= x
  BY OneIsPower
<1>2. x - 1 \in S
  <2>1. x - 1 \in Nat /\ x - (x - 1) = 1
    BY <1>1
  <2> QED
    BY <2>1, OneIsPower
<1>3. PICK m \in S : \A n \in S : m <= n
  BY <1>2, Least
<1> DEFINE p == x - m
<1>4. p \in Nat \ {0} /\ PowerOfTwo(p) /\ p <= x
  BY <1>3
<1>5. PowerOfTwo(2 * p) /\ 2 * p \in Nat
  BY <1>4, DoublePower
<1>6. 2 * p <= x
  BY <1>5
<1>7. x - 2 * p \in Nat /\ x - 2 * p < x /\ x - (x - 2 * p) = 2 * p
  BY <1>4, <1>6
<1>8. x - 2 * p \in S
  BY <1>5, <1>7
<1>9. x - 2 * p < m
  BY <1>3, <1>4
<1> QED
  BY <1>3, <1>8, <1>9

\* The unit of x exists: it is the least power of two that lets a significand reach x,
\* since the one before does not.
LEMMA UnitIs ==
  ASSUME NEW x \in Nat
  PROVE  /\ Unit(x) \in Nat \ {0} /\ PowerOfTwo(Unit(x)) /\ x < Unit(x) * Significands
         /\ Unit(x) = 1 \/ x >= (Unit(x) \div 2) * Significands
<1> DEFINE L == Significands
           S == {u \in Nat \ {0} : PowerOfTwo(u) /\ x < u * L}
<1>1. L \in Nat \ {0, 1}
  BY SignificandsType
<1> HIDE DEF L
<1>2. PICK m \in S : \A n \in S : m <= n
  <2>1. PICK u \in Nat : PowerOfTwo(u) /\ x < u
    BY PowersUnbounded
  <2>2. u <= u * L /\ u * L \in Nat
    BY <1>1
  <2>3. x < u * L
    BY <2>1, <2>2
  <2>4. u \in S
    BY <2>1, <2>3
  <2> QED
    BY <2>4, Least
<1>3. m = 1 \/ x >= (m \div 2) * L
  <2> SUFFICES ASSUME m # 1 PROVE x >= (m \div 2) * L
    OBVIOUS
  <2>1. PICK h \in Nat \ {0} : m = 2 * h /\ m \div 2 = h /\ PowerOfTwo(h)
    BY HalfPower
  <2>2. h \notin S
    BY <1>2, <2>1
  <2>3. h * L \in Nat
    BY <1>1
  <2> QED
    BY <2>1, <2>2, <2>3
<1>4. m \in 1 .. x + 1
  <2>1. CASE m = 1
    BY <2>1
  <2>2. CASE m # 1
    <3>1. PICK h \in Nat \ {0} : m = 2 * h /\ m \div 2 = h
      BY <2>2, HalfPower
    <3>2. h * L >= h * 2
      BY <1>1
    <3>3. x >= h * L /\ h * L \in Nat
      BY <1>1, <1>3, <2>2, <3>1
    <3> QED
      BY <3>1, <3>2, <3>3
  <2> QED
    BY <2>1, <2>2
<1>5. \E u \in 1 .. x + 1 : /\ PowerOfTwo(u)
                            /\ x < u * Significands
                            /\ u = 1 \/ x >= (u \div 2) * Significands
  BY <1>2, <1>3, <1>4 DEF L
<1>6. /\ Unit(x) \in 1 .. x + 1 /\ PowerOfTwo(Unit(x)) /\ x < Unit(x) * Significands
      /\ Unit(x) = 1 \/ x >= (Unit(x) \div 2) * Significands
  BY <1>5 DEF Unit
<1> QED
  BY <1>6

\* A number below Significands has a float of its own.
LEMMA Exact ==
  ASSUME NEW x \in Nat, x < Significands
  PROVE  RoundNat(x) = x
<1> DEFINE u == Unit(x)
<1>1. u = 1
  <2> SUFFICES ASSUME u # 1 PROVE FALSE
    OBVIOUS
  <2>1. PICK h \in Nat \ {0} : u \div 2 = h
    BY UnitIs, HalfPower
  <2>2. x >= h * Significands
    BY <2>1, UnitIs
  <2>3. h * Significands >= Significands
    BY SignificandsType
  <2> QED
    BY <2>2, <2>3, SignificandsType
<1>2. x % 1 = 0 /\ x \div 1 = x
  OBVIOUS
<1> HIDE DEF u
<1>3. ~(2 * (x % 1) > 1) /\ ~(2 * (x % 1) = 1)
  BY <1>2
<1> QED
  BY <1>1, <1>2, <1>3 DEF RoundNat, u

\* Rounding takes no number below Significands.
LEMMA NotBelow ==
  ASSUME NEW x \in Nat, x >= Significands
  PROVE  RoundNat(x) \in Nat /\ RoundNat(x) >= Significands
<1> DEFINE L == Significands
           u == Unit(x)
<1>1. L \in Nat \ {0, 1} /\ L <= x
  BY SignificandsType
<1>2. PICK k \in Nat \ {0} : L = 2 * k
  BY <1>1, HalfPower, CollectorsAssumption
<1>3. /\ u \in Nat \ {0} /\ PowerOfTwo(u) /\ x < u * L
      /\ u = 1 \/ x >= (u \div 2) * L
  BY UnitIs
<1>4. PICK low \in Nat, rest \in 0 .. u - 1 :
        low = x \div u /\ rest = x % u /\ x = u * low + rest
  BY <1>3, Quotient
<1>5. RoundNat(x) = u * low \/ RoundNat(x) = u * (low + 1)
  BY <1>4 DEF RoundNat
<1>6. PICK h \in Nat \ {0} : u = 2 * h /\ x >= h * L
  <2>1. u # 1
    BY <1>1, <1>3
  <2>2. PICK h \in Nat \ {0} : u = 2 * h /\ u \div 2 = h
    BY <1>3, <2>1, HalfPower
  <2> QED
    BY <1>3, <2>1, <2>2
<1> HIDE DEF L, u
<1>7. x >= u * k
  BY <1>2, <1>6, DoubleMoves
<1>8. k <= low
  <2> SUFFICES ASSUME low < k PROVE FALSE
    BY <1>4
  <2>1. u * (low + 1) <= u * k
    BY <1>3, TimesMonotone
  <2>2. u * (low + 1) = u * low + u /\ u * low \in Nat /\ u * k \in Nat
    BY <1>3
  <2> QED
    BY <1>3, <1>4, <1>7, <2>1, <2>2
<1>9. u * low >= L
  <2>1. u * k <= u * low
    BY <1>3, <1>8, TimesMonotone
  <2>2. 2 * k <= u * k
    BY <1>6, TimesMonotone
  <2>3. u * low \in Nat /\ u * k \in Nat
    BY <1>3
  <2> QED
    BY <1>2, <2>1, <2>2, <2>3
<1>10. u * (low + 1) = u * low + u /\ u * low \in Nat
  BY <1>3, <1>4
<1>11. RoundNat(x) \in Nat /\ RoundNat(x) >= L
  BY <1>1, <1>3, <1>5, <1>9, <1>10
<1> QED
  BY <1>11 DEF L

-----------------------------------------------------------------------------
(***************************************************************************)
(* The percentages.                                                        *)
(***************************************************************************)
Times(s) == s.busy + s.idle + s.io_wait

\* The previous row is the floats of the times last read, whose sum is the clock of
\* that moment; the sleep puts that moment before the next reading.
StatInv ==
  /\ Times(jiffies) <= clock
  /\ oldStat # NoStat =>
       /\ oldStat = [k \in DOMAIN jiffies |-> Float(jiffies[k])]
       /\ pc = "asleep" => Times(jiffies) < wake
       /\ pc = "softirq" => Times(jiffies) < clock

\* What is below Significands after rounding is what it was before.
LEMMA FloatExact ==
  ASSUME NEW x \in Nat
  PROVE  /\ x < Significands => Float(x) = x
         /\ Float(x) < Significands => Float(x) = x
<1>1. Float(x) = RoundNat(x)
  BY DEF Float
<1>2. CASE x < Significands
  BY <1>1, <1>2, Exact
<1>3. CASE x >= Significands
  BY <1>1, <1>3, NotBelow, SignificandsType
<1> QED
  BY <1>2, <1>3, SignificandsType

\* A natural number has a float that is one.
LEMMA FloatType ==
  ASSUME NEW x \in Nat
  PROVE  Float(x) \in Nat
<1>1. Float(x) = RoundNat(x)
  BY DEF Float
<1> QED
  BY <1>1, Exact, NotBelow, SignificandsType

\* A total below Significands has lost nothing, in the sum or in its terms.
LEMMA TotalExact ==
  ASSUME NEW a \in Nat, NEW b \in Nat, NEW c \in Nat,
         Plus(Plus(Float(a), Float(b)), Float(c)) < Significands
  PROVE  /\ Float(a) = a /\ Float(b) = b /\ Float(c) = c
         /\ Plus(Plus(Float(a), Float(b)), Float(c)) = a + b + c
         /\ a + b + c < Significands
<1> DEFINE s == Plus(Float(a), Float(b))
<1>1. Float(a) \in Nat /\ Float(b) \in Nat /\ Float(c) \in Nat
  BY FloatType
<1>2. s \in Nat
  BY <1>1, FloatType DEF Plus
<1>3. Plus(s, Float(c)) = s + Float(c) /\ s + Float(c) < Significands
  BY <1>1, <1>2, FloatExact DEF Plus
<1> HIDE DEF s
<1>4. s < Significands /\ Float(c) < Significands
  BY <1>1, <1>2, <1>3, SignificandsType
<1>5. s = Float(a) + Float(b)
  BY <1>1, <1>4, FloatExact DEF s, Plus
<1>6. Float(a) < Significands /\ Float(b) < Significands
  BY <1>1, <1>4, <1>5, SignificandsType
<1>7. Float(a) = a /\ Float(b) = b /\ Float(c) = c
  BY <1>4, <1>6, FloatExact
<1> QED
  BY <1>3, <1>5, <1>7 DEF s

\* The shares of one row over an earlier one, when no sum needs more bits than a
\* float has.
LEMMA SharesOf ==
  ASSUME NEW s \in [{"busy", "idle", "io_wait"} -> Nat],
         NEW t \in [{"busy", "idle", "io_wait"} -> Nat],
         \A k \in {"busy", "idle", "io_wait"} : t[k] <= s[k],
         Times(t) < Times(s),
         NEW new, new = [k \in {"busy", "idle", "io_wait"} |-> Float(s[k])],
         NEW prev, prev = [k \in {"busy", "idle", "io_wait"} |-> Float(t[k])],
         Total(new) < Significands
  PROVE  LET d == Shares(new, prev)
         IN  /\ d.total > 0
             /\ d.busy >= 0 /\ d.idle >= 0 /\ d.io_wait >= 0
             /\ d.busy + d.idle + d.io_wait = d.total
<1>1. /\ s.busy \in Nat /\ s.idle \in Nat /\ s.io_wait \in Nat
      /\ t.busy \in Nat /\ t.idle \in Nat /\ t.io_wait \in Nat
      /\ t.busy <= s.busy /\ t.idle <= s.idle /\ t.io_wait <= s.io_wait
  OBVIOUS
<1>2. /\ new.busy = Float(s.busy) /\ new.idle = Float(s.idle)
      /\ new.io_wait = Float(s.io_wait)
      /\ prev.busy = Float(t.busy) /\ prev.idle = Float(t.idle)
      /\ prev.io_wait = Float(t.io_wait)
  OBVIOUS
<1>3. /\ new.busy = s.busy /\ new.idle = s.idle /\ new.io_wait = s.io_wait
      /\ Total(new) = Times(s) /\ Times(s) < Significands
  BY <1>1, <1>2, TotalExact DEF Total, Times
<1>4. Times(s) \in Nat /\ Times(t) \in Nat /\ Significands \in Nat
  BY <1>1, SignificandsType DEF Times
<1>5. prev.busy = t.busy /\ prev.idle = t.idle /\ prev.io_wait = t.io_wait
  <2>1. t.busy < Significands /\ t.idle < Significands /\ t.io_wait < Significands
    BY <1>1, <1>3, <1>4 DEF Times
  <2> QED
    BY <1>1, <1>2, <2>1, FloatExact
<1>6. Total(prev) = Times(t)
  <2>1. t.busy + t.idle < Significands /\ Times(t) < Significands
    BY <1>1, <1>3, <1>4 DEF Times
  <2>2. Plus(t.busy, t.idle) = t.busy + t.idle
    BY <1>1, <2>1, FloatExact DEF Plus
  <2>3. Plus(t.busy + t.idle, t.io_wait) = Times(t)
    BY <1>1, <2>1, FloatExact DEF Plus, Times
  <2> QED
    BY <1>5, <2>2, <2>3 DEF Total
<1>7. \A x, y \in Nat : y <= x /\ x < Significands => Minus(x, y) = x - y
  <2> SUFFICES ASSUME NEW x \in Nat, NEW y \in Nat, y <= x, x < Significands
               PROVE  Minus(x, y) = x - y
    OBVIOUS
  <2>1. x - y \in Nat /\ x - y < Significands
    BY SignificandsType
  <2> QED
    BY <2>1, FloatExact DEF Minus
<1>8. /\ Minus(s.busy, t.busy) = s.busy - t.busy
      /\ Minus(s.idle, t.idle) = s.idle - t.idle
      /\ Minus(s.io_wait, t.io_wait) = s.io_wait - t.io_wait
  <2>1. s.busy < Significands /\ s.idle < Significands /\ s.io_wait < Significands
    BY <1>1, <1>3, <1>4 DEF Times
  <2> QED
    BY <1>1, <1>7, <2>1
<1>9. Minus(Times(s), Times(t)) = Times(s) - Times(t)
  BY <1>3, <1>4, <1>7
<1>10. Shares(new, prev) = [total |-> Times(s) - Times(t), busy |-> s.busy - t.busy,
                            idle |-> s.idle - t.idle, io_wait |-> s.io_wait - t.io_wait]
  BY <1>3, <1>5, <1>6, <1>8, <1>9 DEF Shares
<1> QED
  BY <1>1, <1>4, <1>10 DEF Times

\* CpuStatMonitor reads the times of this moment.
LEMMA StatStep ==
  ASSUME TypeOK, StatInv, pc = "softirq", ReadStat, clock' = clock, pc' = "stat"
  PROVE  StatInv' /\ SharesAddUp'
<1> DEFINE Keys == {"busy", "idle", "io_wait"}
<1>1. PICK row \in StatRows :
        LET new == [k \in DOMAIN row |-> Float(row[k])]
        IN  /\ jiffies' = row
            /\ stat' = IF oldStat # NoStat THEN Shares(new, oldStat) ELSE NoShares
            /\ oldStat' = new
  BY DEF ReadStat
<1>2. /\ jiffies \in [Keys -> Nat] /\ row \in [Keys -> Nat] /\ clock \in Nat
      /\ DOMAIN jiffies = Keys /\ DOMAIN row = Keys
      /\ \A k \in Keys : jiffies[k] <= row[k]
      /\ Times(row) = clock
  BY DEF TypeOK, StatRows, Times
<1>3. oldStat' = [k \in Keys |-> Float(row[k])]
  BY <1>1, <1>2
<1>4. StatInv'
  BY <1>1, <1>2, <1>3 DEF StatInv
<1>5. SharesAddUp'
  <2> SUFFICES ASSUME stat' # NoShares, Total(oldStat') < Significands
               PROVE  /\ stat'.total > 0
                      /\ stat'.busy >= 0 /\ stat'.idle >= 0 /\ stat'.io_wait >= 0
                      /\ stat'.busy + stat'.idle + stat'.io_wait = stat'.total
    BY DEF SharesAddUp
  <2>1. oldStat # NoStat /\ stat' = Shares(oldStat', oldStat)
    BY <1>1
  <2>2. oldStat = [k \in Keys |-> Float(jiffies[k])] /\ Times(jiffies) < Times(row)
    BY <1>2, <2>1 DEF StatInv
  <2> QED
    BY <1>2, <1>3, <2>1, <2>2, SharesOf
<1> QED
  BY <1>4, <1>5

\* Every other step leaves the rows of /proc/stat alone, or forgets them.
LEMMA NextStat ==
  ASSUME TypeOK, StatInv, SharesAddUp, [Next]_vars
  PROVE  StatInv' /\ SharesAddUp'
<1> USE DEF vars, kernelVars, memoryVars, agentVars
<1>1. Times(jiffies) \in Nat /\ clock \in Nat
  BY DEF TypeOK, Times
<1>2. CASE Stat
  BY <1>2, StatStep DEF Stat
<1>3. CASE Restart
  BY <1>3 DEF Restart, StatInv, SharesAddUp
<1>4. CASE Tick
  BY <1>1, <1>4 DEF Tick, StatInv, SharesAddUp
<1>5. CASE OpenSoftirqs
  <2>1. wake \in Nat
    BY DEF TypeOK
  <2> QED
    BY <1>1, <1>5, <2>1 DEF OpenSoftirqs, StatInv, SharesAddUp
<1>6. CASE Send
  BY <1>1, <1>6, Facts DEF Send, StatInv, SharesAddUp
<1>7. ASSUME NEW r \in rows, Row(r) PROVE StatInv' /\ SharesAddUp'
  BY <1>7 DEF Row, StatInv, SharesAddUp
<1>8. CASE OpenNet \/ UNCHANGED vars
  BY <1>8 DEF OpenNet, StatInv, SharesAddUp
<1> QED
  BY <1>2, <1>3, <1>4, <1>5, <1>6, <1>7, <1>8 DEF Next

-----------------------------------------------------------------------------
(***************************************************************************)
(* Theorems.                                                               *)
(***************************************************************************)

\* Every reachable state of the agent's collectors is well typed.
THEOREM TypeCorrect == Spec => []TypeOK
<1>1. Inv => TypeOK
  BY DEF Inv
<1> QED BY <1>1, Invariance, PTL

\* The rates of every source, each times its period, add up to what its
\* counter gained since the agent first saw it.
THEOREM SumsCorrect == Spec => []RatesAddUp
<1>1. Inv => RatesAddUp
  BY DEF Inv, Promises
<1> QED BY <1>1, Invariance, PTL

\* A rate is negative only if the counter of its source started again.
THEOREM RatesSane == Spec => []NegativeOnlyIfReset
<1>1. Inv => NegativeOnlyIfReset
  BY DEF Inv, Promises
<1> QED BY <1>1, Invariance, PTL

\* No rate is divided by zero: the agent has slept since the previous row of the
\* source, or it is a new process without previous rows.
THEOREM PeriodsNeverZero == Spec => []PeriodsPositive
<1>1. Inv => PeriodsPositive
  BY DEF Inv, Promises
<1> QED BY <1>1, Invariance, PTL

\* A message has one rate for every source that was known and is listed, and
\* no other.
THEOREM NoneMissing == Spec => []EveryKnownSource
<1>1. Inv => EveryKnownSource
  BY DEF Inv, Promises
<1> QED BY <1>1, Invariance, PTL

\* The shares of the busy, idle and waiting times add up to all, and none of them
\* is divided by zero, as long as the total of the times is below Significands: then
\* none of the float operations of CpuStatMonitor has rounded anything.
THEOREM SharesOfAll == Spec => []SharesAddUp
<1>1. Init => StatInv /\ SharesAddUp
  <2> SUFFICES ASSUME Init PROVE StatInv /\ SharesAddUp
    OBVIOUS
  <2>1. Times(jiffies) = Uptime
    BY Facts DEF Init, Times
  <2> QED
    BY <2>1, Facts DEF Init, StatInv, SharesAddUp
<1>2. TypeOK /\ StatInv /\ SharesAddUp /\ [Next]_vars => StatInv' /\ SharesAddUp'
  BY NextStat
<1> QED
  BY <1>1, <1>2, TypeCorrect, PTL DEF Spec
=============================================================================
