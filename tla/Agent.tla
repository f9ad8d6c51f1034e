-------------------------------- MODULE Agent --------------------------------
(***************************************************************************)
(* The agent's process: its client's constructor, its endless rounds, and  *)
(* the collectors that keep nothing between rounds, which copy files into  *)
(* the message: CpuInfoMonitor, CpuLoadMonitor, MemMonitor, MetricMonitor, *)
(* OsMonitor and NetcardMonitor.  The collectors that remember a sample    *)
(* are in Collectors; of them only CpuSoftIrqMonitor's use of its file is  *)
(* here, which may end the process.                                        *)
(*                                                                         *)
(* The kernel's files and /etc/os-release are those of one moment.  The    *)
(* file of metrics is written by another program, piece by piece, also     *)
(* while it is read, and network interfaces come and go.  Nobody but the   *)
(* agent looks at these, so what became of them in the meantime is chosen  *)
(* when it begins to read.                                                 *)
(***************************************************************************)
EXTENDS ReadFile, FiniteSets

CONSTANTS
  CpuFiles, MemFiles, OsFiles,   \* what these files can contain
  CpuFields, MemFields, OsFields, MetricFields,   \* the keys that are looked for
  MetricLines,   \* the keys of the file of metrics, in its order
  Cards,         \* network interfaces
  PlainFiles,    \* the other entries of /sys/class/net, such as bonding_masters
  AddressFiles,  \* what ip_address.txt can contain
  IndexedFiles,  \* what /proc/softirqs and /proc/loadavg can contain
  MaxCuts        \* bound on the rewritings of the metrics during one reading

ASSUME AgentAssumption ==
  /\ MaxCuts \in Nat
  /\ MetricLines \in Seq(STRING)
  /\ Cards \cap PlainFiles = {}
  /\ Cards \cup PlainFiles \subseteq STRING
  /\ AddressFiles \subseteq [text : STRING, newline : BOOLEAN]
  /\ CpuFields \cup MemFields \cup OsFields \cup MetricFields \subseteq STRING
  /\ CpuFiles \cup MemFiles \cup OsFiles \cup IndexedFiles \subseteq Seq(Pieces)

\* The key of the last line of a processor.
LastKey == "power management"

\* An empty line of f comes behind i and not behind j.
Apart(f, i, j) == \E b \in LineStarts(f) : i < b /\ b <= j /\ f[b].text = NoText

\* The kernel's format: an empty line is between two processors, and the line behind
\* the last of one is empty.
ProcessorsApart(f) ==
  \A i, j \in LineStarts(f) :
    /\ i < j
    /\ \/ f[i].text = KeyText("processor") /\ f[j].text = KeyText("processor")
       \/ f[i].text = KeyText(LastKey)
    => Apart(f, i, j)

ASSUME CpuAssumption ==
  /\ CpuFields \cap {"processor", LastKey} = {}
  /\ \A f \in CpuFiles : ProcessorsApart(f)

VARIABLES
  proc,        \* the process: "off", "up", or "dead" of an exception or a bad access
  user,        \* getenv("USER") is not null
  address,     \* where the client's channel goes
  pc,          \* the collector in hand and where it is
  stream, file,  \* the file in hand
  cuts,        \* how often it was rewritten since it was opened
  args,        \* the words read so far: one_cpuinfo, mem_datas, ...
  cur,         \* the entry in hand: cpu_info, mem_info, ...
  monitorInfo, \* the message
  cards,       \* the interfaces that are there
  todo,        \* names that readdir has still to return
  listed,      \* history: the names the directory had when it was opened
  steady       \* history: the interfaces that have been there since

processVars == <<proc, user, address>>
fileVars == <<stream, file, cuts>>
cardVars == <<cards, todo, listed, steady>>
vars == <<processVars, pc, fileVars, args, cur, monitorInfo, cardVars>>

-----------------------------------------------------------------------------
(***************************************************************************)
(* Entries of the message.                                                 *)
(***************************************************************************)
Garbage == <<KeyText("uninitialised")>>
Unset == <<>>

Strings == {"model name", "PRETTY_NAME", "address"}

\* What a field has before a line sets it.
Default(k) == IF k \in Strings THEN Unset ELSE Garbage

Entry(collector, name, fields) ==
  [of |-> collector, name |-> name, fields |-> [k \in fields |-> Default(k)]]

NoEntry == Entry("none", "", {})

\* The structures of the collectors.
CpuInfo(name) == Entry("cpu_info", name, CpuFields)
MenInfo == Entry("mem", "", MemFields)
MetricInfo == Entry("metric", "", MetricFields)
OsInfo == Entry("os", "", OsFields)
NetcardInfo(name) == Entry("netcard", name, {"address", "mtu"})

\* The field whose key begins the line takes its value.
Assigned(e, words) ==
  [e EXCEPT !.fields = [k \in DOMAIN @ |-> IF Is(words, k) THEN words[2] ELSE @[k]]]

\* The value of a field is missing, or should be a number and is not one.
Throws(e, words) ==
  \E k \in DOMAIN e.fields :
    Is(words, k) /\ (HasValue(words) => k \notin Strings /\ ~Number(words[2]))

-----------------------------------------------------------------------------
(***************************************************************************)
(* Files.                                                                  *)
(***************************************************************************)

\* The i-th piece of the metrics that the other program writes for the n-th time:
\* a key, the first digits of its value, and the others.
MetricPiece(i, n) ==
  LET k == MetricLines[((i - 1) \div 3) + 1]
      p == (i - 1) % 3
  IN  IF p = 0 THEN Piece(KeyText(k), FALSE)
      ELSE Piece([kind |-> "value", name |-> k, part |-> 2 * n + p], p = 2)

Metrics(n) == [i \in 1 .. 3 * Len(MetricLines) |-> MetricPiece(i, n)]

Tables == {"mem", "metric", "os"}

FilesOf(c) ==
  CASE c = "cpu_info" -> CpuFiles
    [] c = "mem" -> MemFiles
    [] c = "metric" -> {SubSeq(Metrics(0), 1, n) : n \in 0 .. 3 * Len(MetricLines)}
    [] c = "os" -> OsFiles

NewEntry(c) ==
  CASE c = "mem" -> MenInfo
    [] c = "metric" -> MetricInfo
    [] c = "os" -> OsInfo

\* The collector after c, of those that are here.
After(c) ==
  CASE c = "cpu_info" -> "softirq"
    [] c = "softirq" -> "load"
    [] c = "load" -> "mem"
    [] c = "mem" -> "metric"
    [] c = "metric" -> "os"
    [] c = "os" -> "opendir"

\* Collector c opens its file, if it can be opened.
Open(c) ==
  /\ \/ \E f \in FilesOf(c) : file' = f /\ stream' = Opened(TRUE)
     \/ file' = <<>> /\ stream' = Opened(FALSE)
  /\ cuts' = 0

\* The next collector begins.
Begin(c) ==
  /\ pc' = c
  /\ IF c \in Tables THEN Open(c) /\ cur' = NewEntry(c)
     ELSE UNCHANGED fileVars /\ cur' = NoEntry

-----------------------------------------------------------------------------
(***************************************************************************)
(* The process.                                                            *)
(***************************************************************************)

\* The client's constructor: the line of ip_address.txt without its last
\* character, which need not be a newline.
Address(f) == [text |-> f.text, whole |-> f.newline]
DefaultAddress == [text |-> "localhost:50051", whole |-> TRUE]

Init ==
  /\ proc = "off" /\ user = TRUE /\ address = DefaultAddress
  /\ pc = "asleep"
  /\ stream = Opened(FALSE) /\ file = <<>> /\ cuts = 0
  /\ args = <<>> /\ cur = NoEntry /\ monitorInfo = <<>>
  /\ cards = {} /\ todo = {} /\ listed = {} /\ steady = {}

Start ==
  /\ proc # "up"
  /\ proc' = "up"
  /\ user' \in BOOLEAN
  /\ address' \in {Address(f) : f \in AddressFiles} \cup {DefaultAddress}
  /\ pc' = "asleep"
  /\ stream' = Opened(FALSE) /\ file' = <<>> /\ cuts' = 0
  /\ args' = <<>> /\ cur' = NoEntry /\ monitorInfo' = <<>>
  /\ cards' = {} /\ todo' = {} /\ listed' = {} /\ steady' = {}

At(c) == proc = "up" /\ pc = c

\* An exception leaves the thread, or an access outside a vector.
Die ==
  /\ proc' = "dead"
  /\ UNCHANGED <<user, address, pc, args, cur, monitorInfo, cardVars>>

\* std::string(name) of a null pointer.
NoName ==
  /\ At("asleep")
  /\ ~user
  /\ Die
  /\ UNCHANGED fileVars

BeginRound ==
  /\ At("asleep")
  /\ user
  /\ pc' = "cpu_info"
  /\ Open("cpu_info")
  /\ UNCHANGED <<processVars, args, cur, monitorInfo, cardVars>>

\* SetMonitorInfo (see GrpcManager), which ends if the server answers or the loss of
\* the connection is noticed, and the sleep.
Send ==
  /\ At("send")
  /\ pc' = "asleep"
  /\ monitorInfo' = <<>>
  /\ cards' = {} /\ listed' = {} /\ steady' = {}
  /\ stream' = Opened(FALSE) /\ file' = <<>>
  /\ UNCHANGED <<processVars, cuts, args, cur, todo>>

-----------------------------------------------------------------------------
(***************************************************************************)
(* CpuInfoMonitor.                                                         *)
(***************************************************************************)

\* Slip: the words of a line that is no processor's are kept.
CpuLineNoClear ==
  /\ At("cpu_info")
  /\ LET r == ReadLineBySplitchar(stream, file, args)
     IN  /\ r.ok \/ ~IsEnd(r.stream)
         /\ stream' = r.stream
         /\ UNCHANGED <<file, cuts>>
         /\ IF Is(r.args, "processor") /\ ~HasValue(r.args) THEN Die
            ELSE /\ args' = r.args
                 /\ IF Is(r.args, "processor")
                    THEN /\ pc' = "cpu_block"
                         /\ cur' = CpuInfo(r.args[2][1].name)
                    ELSE UNCHANGED <<pc, cur>>
                 /\ UNCHANGED <<processVars, monitorInfo, cardVars>>

\* The outer loop goes on: to a processor, or past a line between two.
CpuLine ==
  /\ At("cpu_info")
  /\ LET r == ReadLineBySplitchar(stream, file, args)
     IN  /\ r.ok \/ ~IsEnd(r.stream)
         /\ stream' = r.stream
         /\ UNCHANGED <<file, cuts>>
         /\ IF Is(r.args, "processor") /\ ~HasValue(r.args) THEN Die
            ELSE /\ IF Is(r.args, "processor")
                    THEN /\ pc' = "cpu_block"
                         /\ args' = r.args
                         /\ cur' = CpuInfo(r.args[2][1].name)
                    ELSE args' = <<>> /\ UNCHANGED <<pc, cur>>
                 /\ UNCHANGED <<processVars, monitorInfo, cardVars>>

CpuEnd ==
  /\ At("cpu_info")
  /\ LET r == ReadLineBySplitchar(stream, file, args)
     IN  ~r.ok /\ IsEnd(r.stream)
  /\ Begin(After("cpu_info"))
  /\ UNCHANGED <<processVars, args, monitorInfo, cardVars>>

\* Slip: the inner loop ends like the outer one, at the end of the file.
BlockEndsAtEof(r) == (~r.ok /\ IsEnd(r.stream)) \/ Is(r.args, LastKey)

\* The inner loop ends at a line that is not one, or at the last of a processor.
BlockEnds(r) == ~r.ok \/ Is(r.args, LastKey)

\* A line of the inner loop.  The first one is added to the words of the line
\* that began the processor and counts for nothing.
BlockLine ==
  /\ At("cpu_block")
  /\ LET r == ReadLineBySplitchar(stream, file, args)
     IN  /\ ~BlockEnds(r)
         /\ stream' = r.stream
         /\ UNCHANGED <<file, cuts>>
         /\ IF Throws(cur, r.args) THEN Die
            ELSE /\ cur' = Assigned(cur, r.args)
                 /\ args' = <<>>
                 /\ UNCHANGED <<processVars, pc, monitorInfo, cardVars>>

BlockEnd ==
  /\ At("cpu_block")
  /\ LET r == ReadLineBySplitchar(stream, file, args)
     IN  /\ BlockEnds(r)
         /\ stream' = r.stream
  /\ pc' = "cpu_info"
  /\ monitorInfo' = Append(monitorInfo, cur)
  /\ cur' = NoEntry
  /\ args' = <<>>
  /\ UNCHANGED <<processVars, file, cuts, cardVars>>

-----------------------------------------------------------------------------
(***************************************************************************)
(* CpuSoftIrqMonitor and CpuLoadMonitor index the words of their files     *)
(* without asking whether a line was read: the one stops reading at the    *)
(* first line that is none, the other reads one.  A file of the kernel     *)
(* that has its first line has the others and all their words, so only the *)
(* first can be missing.  For the same reason CpuStatMonitor and           *)
(* NetMonitor, which index the words of the lines they have read, and do   *)
(* nothing without a line, are not here.                                   *)
(***************************************************************************)
IndexedSome(c) ==
  /\ At(c)
  /\ \E f \in IndexedFiles : ReadLine(Opened(TRUE), f, <<>>).ok
  /\ Begin(After(c))
  /\ UNCHANGED <<processVars, args, monitorInfo, cardVars>>

IndexedNothing(c) ==
  /\ At(c)
  /\ \/ \E f \in IndexedFiles : file' = f /\ stream' = Opened(TRUE)
     \/ file' = <<>> /\ stream' = Opened(FALSE)
  /\ ~ReadLine(stream', file', <<>>).ok
  /\ Die
  /\ UNCHANGED cuts

Softirq == IndexedSome("softirq") \/ IndexedNothing("softirq")
Load == IndexedSome("load") \/ IndexedNothing("load")

-----------------------------------------------------------------------------
(***************************************************************************)
(* MemMonitor, MetricMonitor and OsMonitor.                                *)
(***************************************************************************)

\* Slip: the words of a line are kept for the next.
TableLineNoClear(c) ==
  /\ At(c)
  /\ LET r == ReadLine(stream, file, args)
     IN  /\ r.ok
         /\ stream' = r.stream
         /\ UNCHANGED <<file, cuts>>
         /\ IF Throws(cur, r.args) THEN Die
            ELSE /\ cur' = Assigned(cur, r.args)
                 /\ args' = r.args
                 /\ UNCHANGED <<processVars, pc, monitorInfo, cardVars>>

TableLine(c) ==
  /\ At(c)
  /\ LET r == ReadLine(stream, file, args)
     IN  /\ r.ok
         /\ stream' = r.stream
         /\ UNCHANGED <<file, cuts>>
         /\ IF Throws(cur, r.args) THEN Die
            ELSE /\ cur' = Assigned(cur, r.args)
                 /\ args' = <<>>
                 /\ UNCHANGED <<processVars, pc, monitorInfo, cardVars>>

TableEnd(c) ==
  /\ At(c)
  /\ ~ReadLine(stream, file, args).ok
  /\ monitorInfo' = Append(monitorInfo, cur)
  /\ Begin(After(c))
  /\ UNCHANGED <<processVars, args, cardVars>>

MemLine == TableLine("mem")
MemEnd == TableEnd("mem")
MetricLine == TableLine("metric")
MetricEnd == TableEnd("metric")
OsLine == TableLine("os")
OsEnd == TableEnd("os")

\* The other program goes on with the file of metrics, or begins it again.
WriteMetric ==
  /\ At("metric") /\ stream.open
  /\ Len(file) < 3 * Len(MetricLines)
  /\ file' = Append(file, MetricPiece(Len(file) + 1, cuts))
  /\ UNCHANGED <<processVars, pc, stream, cuts, args, cur, monitorInfo, cardVars>>

RewriteMetrics ==
  /\ At("metric") /\ stream.open
  /\ cuts < MaxCuts
  /\ file' = <<>>
  /\ cuts' = cuts + 1
  /\ UNCHANGED <<processVars, pc, stream, args, cur, monitorInfo, cardVars>>

-----------------------------------------------------------------------------
(***************************************************************************)
(* NetcardMonitor.                                                         *)
(***************************************************************************)
\* The one line of each file of interface n.
CardText(n) == <<ValueText(n)>>

OpenDir ==
  /\ At("opendir")
  /\ \/ /\ \E present \in SUBSET Cards :
             /\ cards' = present /\ steady' = present
             /\ listed' = present \cup PlainFiles /\ todo' = present \cup PlainFiles
        /\ pc' = "netcard"
     \/ pc' = "send" /\ UNCHANGED cardVars
  /\ UNCHANGED <<processVars, fileVars, args, cur, monitorInfo>>

\* Slip: netcard_info is declared before the loop and keeps what it had.
NextCardReused(n) ==
  LET had == {i \in DOMAIN monitorInfo : monitorInfo[i].of = "netcard"}
      e == IF had = {} THEN NetcardInfo(n)
           ELSE [monitorInfo[Len(monitorInfo)] EXCEPT !.name = n]
  IN  /\ At("netcard")
      /\ n \in todo
      /\ todo' = todo \ {n}
      /\ cur' = IF n \in cards THEN [e EXCEPT !.fields["address"] = CardText(n)] ELSE e
      /\ pc' = "card"
      /\ UNCHANGED <<processVars, fileVars, args, monitorInfo, cards, listed, steady>>

\* readdir returns n, whose address is read if the interface is there.
NextCard(n) ==
  LET e == NetcardInfo(n)
  IN  /\ At("netcard")
      /\ n \in todo
      /\ todo' = todo \ {n}
      /\ cur' = IF n \in cards THEN [e EXCEPT !.fields["address"] = CardText(n)] ELSE e
      /\ pc' = "card"
      /\ UNCHANGED <<processVars, fileVars, args, monitorInfo, cards, listed, steady>>

AddCard(e) ==
  /\ monitorInfo' = Append(monitorInfo, e)
  /\ cur' = NoEntry
  /\ pc' = "netcard"
  /\ UNCHANGED <<processVars, cuts, args, cardVars>>

OpenMtu ==
  /\ At("card")
  /\ cur.name \in cards
  /\ pc' = "mtu"
  /\ stream' = Opened(TRUE) /\ file' = <<Piece(ValueText(cur.name), TRUE)>>
  /\ UNCHANGED <<processVars, cuts, args, cur, monitorInfo, cardVars>>

NoMtu ==
  /\ At("card")
  /\ cur.name \notin cards
  /\ AddCard(cur)
  /\ UNCHANGED <<stream, file>>

\* A file whose interface is gone has no line, and std::stof throws.
ReadMtu ==
  /\ At("mtu")
  /\ LET g == GetLine(stream, file)
     IN  IF g.line = <<>> THEN Die /\ UNCHANGED fileVars
         ELSE /\ AddCard([cur EXCEPT !.fields["mtu"] = g.line])
              /\ stream' = Opened(FALSE) /\ file' = <<>>

CloseDir ==
  /\ At("netcard")
  /\ todo = {}
  /\ pc' = "send"
  /\ UNCHANGED <<processVars, fileVars, args, cur, monitorInfo, cardVars>>

ReadingCards == proc = "up" /\ pc \in {"netcard", "card", "mtu"}

Vanish(c) ==
  /\ ReadingCards
  /\ c \in cards
  /\ cards' = cards \ {c} /\ steady' = steady \ {c}
  /\ file' = IF pc = "mtu" /\ cur.name = c THEN <<>> ELSE file
  /\ UNCHANGED <<processVars, pc, stream, cuts, args, cur, monitorInfo, todo, listed>>

Appear(c) ==
  /\ ReadingCards
  /\ c \in Cards \ cards
  /\ cards' = cards \cup {c}
  /\ UNCHANGED <<processVars, pc, fileVars, args, cur, monitorInfo, todo, listed, steady>>

-----------------------------------------------------------------------------
Round ==
  \/ NoName
  \/ BeginRound
  \/ CpuLine \/ CpuEnd \/ BlockLine \/ BlockEnd
  \/ Softirq
  \/ Load
  \/ MemLine \/ MemEnd
  \/ MetricLine \/ MetricEnd
  \/ OsLine \/ OsEnd
  \/ OpenDir
  \/ \E n \in Cards \cup PlainFiles : NextCard(n)
  \/ OpenMtu \/ NoMtu \/ ReadMtu
  \/ CloseDir
  \/ Send

Environment ==
  \/ Start
  \/ WriteMetric
  \/ RewriteMetrics
  \/ \E c \in Cards : Vanish(c) \/ Appear(c)

Next == Round \/ Environment

Spec == Init /\ [][Next]_vars

\* The agent's thread is scheduled, and its call of the server returns: the
\* connection is not lost without a notice (see GoSilent in GrpcManager).
FairSpec == Spec /\ WF_vars(Round)

-----------------------------------------------------------------------------
(***************************************************************************)
(* What the files say.                                                     *)
(***************************************************************************)
\* The lines that have their newline.
Whole(f) == {i \in LineStarts(f) : \E j \in Ends(f) : j >= i}

ValueAt(f, i) ==
  LET j == First({e \in Ends(f) : e >= i})
  IN  [n \in 1 .. j - i |-> f[i + n].text]

\* The value of the last of the lines, which are of key k.
LastValue(f, lines, k) ==
  IF lines = {} THEN Default(k)
  ELSE ValueAt(f, CHOOSE i \in lines : \A j \in lines : j <= i)

\* The lines of key k that the reading reaches: no empty line comes before them.
LinesOf(f, k) ==
  {i \in Whole(f) :
     /\ f[i].text = KeyText(k)
     /\ \A b \in LineStarts(f) : f[b].text = NoText => i < b}

ValueOf(f, k) == LastValue(f, LinesOf(f, k), k)

Processors(f) == {i \in Whole(f) : f[i].text = KeyText("processor")}

\* The lines of key k of the processor at i: those up to the next empty line, but for
\* the first, which is read as one with the processor's number.
OwnLines(f, i, k) ==
  {j \in Whole(f) :
     /\ f[j].text = KeyText(k)
     /\ \E b \in LineStarts(f) : i < b /\ b < j
     /\ ~Apart(f, i, j)}

ProcessorAt(f, i) ==
  [of |-> "cpu_info", name |-> f[i + 1].text.name,
   fields |-> [k \in CpuFields |-> LastValue(f, OwnLines(f, i, k), k)]]

-----------------------------------------------------------------------------
(***************************************************************************)
(* Properties.                                                             *)
(***************************************************************************)
Places == {"asleep", "cpu_info", "cpu_block", "softirq", "load", "opendir", "netcard",
           "card", "mtu", "send"} \cup Tables

\* Every variable has its type; the words of a line are not kept for the next,
\* but for those of the line that began a processor.
TypeOK ==
  /\ proc \in {"off", "up", "dead"}
  /\ user \in BOOLEAN
  /\ address \in {Address(f) : f \in AddressFiles} \cup {DefaultAddress}
  /\ pc \in Places
  /\ stream.open \in BOOLEAN /\ stream.eof \in BOOLEAN /\ stream.off \in Nat
  /\ cuts \in 0 .. MaxCuts
  /\ args # <<>> => pc = "cpu_block" /\ Is(args, "processor")
  /\ \A i \in DOMAIN monitorInfo :
       monitorInfo[i].of \in Tables \cup {"cpu_info", "netcard"}
  /\ steady \subseteq cards /\ cards \subseteq Cards
  /\ todo \subseteq listed /\ listed \subseteq Cards \cup PlainFiles

\* CpuInfoMonitor reports every processor of /proc/cpuinfo once and in order, with
\* the values of its own lines, whatever lines are missing or come between and
\* however its lines end; a field is unset or uninitialised only if it has no
\* line, or its line is the first after the processor's number.
ProcessorsOnce ==
  At("softirq") =>
    /\ Len(monitorInfo) = Cardinality(Processors(file))
    /\ \A i \in Processors(file) :
         monitorInfo[Cardinality({j \in Processors(file) : j <= i})] = ProcessorAt(file, i)

\* What MemMonitor, MetricMonitor and OsMonitor put into the message is what their
\* file says at the moment they come to its end: a value is never half a
\* number, also when the file is being written, and a field is left uninitialised
\* only if it has no line with a newline before the first empty one.  A file of
\* metrics that is begun again in the middle of the reading is excepted.
TablesOfFile ==
  [][\A c \in Tables :
       TableEnd(c) /\ cuts = 0 =>
         monitorInfo'[Len(monitorInfo')].fields =
           [k \in DOMAIN cur.fields |-> ValueOf(file, k)]]_vars

\* NetcardMonitor reports every name that the directory had once, with its own
\* address and mtu or none, and with both if the interface was there all the time.
CardsListed ==
  LET entries == {i \in DOMAIN monitorInfo : monitorInfo[i].of = "netcard"}
      name(i) == monitorInfo[i].name
  IN  pc = "send" =>
        /\ {name(i) : i \in entries} = listed
        /\ \A i, j \in entries : name(i) = name(j) => i = j
        /\ \A i \in entries : \A k \in DOMAIN monitorInfo[i].fields :
             monitorInfo[i].fields[k] \in
               {CardText(name(i))} \cup (IF name(i) \in steady THEN {} ELSE {Default(k)})

\* The keys that the collector in hand looks for.
LookedFor == IF pc = "cpu_info" THEN {"processor"} ELSE DOMAIN cur.fields

\* The first line of f is whole and not empty.
HasLine(f) == 1 \in Whole(f) /\ f[1].text # NoText

\* What ends the agent: no USER in its environment; a /proc/softirqs or /proc/loadavg
\* without a line, or one that could not be opened; a key that is looked for in one of
\* the kernel's tables or /etc/os-release and has no value there or a word in place of
\* a number; an interface that vanishes while its mtu is open; a file of metrics
\* that is begun again in the middle of the reading.  Nothing else does: not a
\* cpuinfo, meminfo, os-release or file of metrics that is missing, not a line without
\* its newline, and not a file of metrics in the making.
EndsOnlyFor ==
  proc = "dead" =>
    \/ pc = "asleep" /\ ~user
    \/ pc \in {"softirq", "load"} /\ ~HasLine(file)
    \/ pc \in {"cpu_info", "cpu_block", "mem", "os"} /\ ~HasValues(file, LookedFor)
    \/ pc = "mtu" /\ cur.name \notin steady
    \/ pc = "metric" /\ cuts > 0

\* If /proc/cpuinfo could be opened, a round comes to its end or that of the
\* process: every loop over a file ends, whatever is written and removed meanwhile.
RoundEnds ==
  (At("cpu_info") /\ stream.open) ~> (pc = "asleep" \/ proc = "dead")
=============================================================================
