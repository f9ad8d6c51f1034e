------------------------------ MODULE AgentProofs ------------------------------
(***************************************************************************)
(* Theorems about Agent: what its run checks for a few files and one       *)
(* interface holds for any files, any fields, any file of metrics and any  *)
(* interfaces.                                                             *)
(***************************************************************************)
EXTENDS Agent, SequenceTheorems, FiniteSetTheorems, WellFoundedInduction, TLAPS

-----------------------------------------------------------------------------
(***************************************************************************)
(* Types.                                                                  *)
(***************************************************************************)
Text == Texts \cup {NoText, KeyText("uninitialised")}

Streams == [open : BOOLEAN, eof : BOOLEAN, buf : Seq(Pieces), off : Nat]

\* The fields of an entry of collector c.
FieldsOf(c) ==
  CASE c = "none" -> {}
    [] c = "cpu_info" -> CpuFields
    [] c = "mem" -> MemFields
    [] c = "metric" -> MetricFields
    [] c = "os" -> OsFields
    [] c = "netcard" -> {"address", "mtu"}

\* These two are strings, which the provers do not know.
Names == STRING \cup {"", "uninitialised"}

EntriesWith(c, F) == [of : {c}, name : Names, fields : [F -> Seq(Text)]]
EntriesOf(c) == EntriesWith(c, FieldsOf(c))

Reporting == Tables \cup {"cpu_info", "netcard"}

Reports == UNION {EntriesOf(c) : c \in Reporting}

\* The collector whose structure is in hand at place c.
InHand(c) ==
  CASE c = "cpu_block" -> "cpu_info"
    [] c \in Tables -> c
    [] c \in {"card", "mtu"} -> "netcard"
    [] OTHER -> "none"

\* The words kept between two lines are those that began a processor.
ArgsInv ==
  /\ args \in Seq(Seq(Text))
  /\ args # <<>> =>
       /\ pc = "cpu_block"
       /\ Is(args, "processor")

TypeInv ==
  /\ proc \in {"off", "up", "dead"}
  /\ user \in BOOLEAN
  /\ address \in {Address(f) : f \in AddressFiles} \cup {DefaultAddress}
  /\ pc \in Places
  /\ stream \in Streams
  /\ file \in Seq(Pieces)
  /\ cuts \in 0 .. MaxCuts
  /\ ArgsInv
  /\ cur \in EntriesOf(InHand(pc))
  /\ monitorInfo \in Seq(Reports)
  /\ steady \subseteq cards /\ cards \subseteq Cards
  /\ todo \subseteq listed /\ listed \subseteq Cards \cup PlainFiles

-----------------------------------------------------------------------------
(***************************************************************************)
(* The place in a file.                                                    *)
(***************************************************************************)

\* The stream has given p pieces of f away and holds those from there to off; it
\* stands at the beginning of a line, unless it has met the end of the file.
StandsAt(s, f, p) ==
  /\ p \in 0 .. s.off
  /\ s.off \in 0 .. Len(f)
  /\ s.buf = SubSeq(f, p + 1, s.off)
  /\ ~s.eof => p = 0 \/ f[p].nl

Reading == {"cpu_info", "cpu_block"} \cup Tables

\* Line k of f as far as p, and the value that the last one has.
LinesUpTo(f, p, k) == {i \in LineStarts(f) : i <= p /\ f[i].text = KeyText(k)}

ValueUpTo(f, p, k) == LastValue(f, LinesUpTo(f, p, k), k)

\* What has been copied is what the file says so far.
CopiedTo(p) ==
  /\ ~stream.eof /\ (stream.open \/ file = <<>>)
  /\ \A b \in LineStarts(file) : b <= p => file[b].text # NoText
  /\ \A k \in DOMAIN cur.fields : cur.fields[k] = ValueUpTo(file, p, k)

MetricsSoFar ==
  Len(file) <= 3 * Len(MetricLines) /\ \A i \in DOMAIN file : file[i] = MetricPiece(i, 0)

\* A collector that reads a file which is not begun again in the meantime stands at
\* the beginning of a line, and has copied those before unless one has ended it.
FileInv ==
  pc \in Reading =>
    /\ pc # "metric" => cuts = 0
    /\ cuts = 0 =>
         /\ pc = "metric" => MetricsSoFar
         /\ \E p \in 0 .. Len(file) :
              StandsAt(stream, file, p) /\ (pc \in Tables /\ proc = "up" => CopiedTo(p))

-----------------------------------------------------------------------------
(***************************************************************************)
(* The interfaces.                                                         *)
(***************************************************************************)
CardPlaces == {"netcard", "card", "mtu", "send"}

CardEntries == {i \in DOMAIN monitorInfo : monitorInfo[i].of = "netcard"}
Reported == {monitorInfo[i].name : i \in CardEntries}

\* The name whose entry is in hand.
NameInHand == IF pc \in {"card", "mtu"} THEN {cur.name} ELSE {}

\* What field k of the entry of n may be.
CardField(n, k) == {CardText(n)} \cup (IF n \in steady THEN {} ELSE {Default(k)})

CardInv ==
  /\ pc \notin CardPlaces => CardEntries = {} /\ listed = {}
  /\ pc = "send" => todo = {}
  /\ Reported \cup NameInHand \cup todo = listed
  /\ todo \cap (Reported \cup NameInHand) = {} /\ NameInHand \cap Reported = {}
  /\ \A i, j \in CardEntries : monitorInfo[i].name = monitorInfo[j].name => i = j
  /\ \A i \in CardEntries, k \in {"address", "mtu"} :
       monitorInfo[i].fields[k] \in CardField(monitorInfo[i].name, k)
  /\ pc \in {"card", "mtu"} =>
       /\ cur.fields["address"] \in CardField(cur.name, "address")
       /\ cur.fields["mtu"] = Default("mtu")
  /\ pc = "mtu" =>
       /\ stream = Opened(TRUE)
       /\ \/ file = <<Piece(ValueText(cur.name), TRUE)>>
          \/ file = <<>> /\ cur.name \notin steady

Inv == TypeInv /\ FileInv /\ CardInv /\ EndsOnlyFor

-----------------------------------------------------------------------------
(***************************************************************************)
(* The first of a set of numbers.                                          *)
(***************************************************************************)
Less == OpToRel(<, Nat)

LEMMA LessIsWellFounded == IsWellFoundedOn(Less, Nat)
BY NatLessThanWellFounded, Zenon DEF Less

LEMMA LessIs == \A i, j \in Nat : i < j => <<i, j>> \in Less
BY Zenon DEF Less, OpToRel

\* A set of numbers that is not empty has a first.
LEMMA FirstIs ==
  ASSUME NEW S \in SUBSET Nat, S # {}
  PROVE  First(S) \in S /\ \A j \in S : First(S) <= j
<1>1. PICK m \in S : \A j \in S : ~(<<j, m>> \in Less)
  BY LessIsWellFounded, WFMin, Zenon
<1>2. \A j \in S : ~(j < m)
  BY <1>1, LessIs
<1>3. \A j \in S : m <= j
  BY <1>2
<1> QED
  BY <1>3 DEF First

\* And only one.
LEMMA FirstIsOnly ==
  ASSUME NEW S \in SUBSET Nat, NEW m \in S, \A j \in S : m <= j
  PROVE  First(S) = m
<1>1. First(S) \in S /\ First(S) <= m /\ m <= First(S)
  BY FirstIs
<1>2. First(S) \in Nat /\ m \in Nat
  BY <1>1
<1> QED
  BY <1>1, <1>2

\* A set of numbers that is bounded has a last.
LEMMA LastIs ==
  ASSUME NEW S \in SUBSET Nat, S # {}, NEW p \in Nat, \A i \in S : i <= p
  PROVE  \E i \in S : \A j \in S : j <= i
<1> DEFINE T == {p - i : i \in S}
<1>1. T \in SUBSET Nat /\ T # {}
  <2>1. \A i \in S : p - i \in Nat
    OBVIOUS
  <2>2. \A t \in T : t \in Nat
    BY <2>1
  <2>3. PICK i \in S : TRUE
    OBVIOUS
  <2>4. p - i \in T
    OBVIOUS
  <2> HIDE DEF T
  <2> QED
    BY <2>2, <2>4
<1>2. PICK i \in S : First(T) = p - i
  BY <1>1, FirstIs
<1>3. \A j \in S : p - i <= p - j
  BY <1>1, <1>2, FirstIs
<1> QED
  BY <1>3

-----------------------------------------------------------------------------
(***************************************************************************)
(* Streams and lines.                                                      *)
(***************************************************************************)
LEMMA TextFacts ==
  /\ \A k \in STRING : KeyText(k) \in Texts /\ ValueText(k) \in Texts
  /\ KeyText("uninitialised") \in Text
  /\ \A k : KeyText(k) # NoText /\ KeyText(k).kind = "key" /\ KeyText(k).name = k
  /\ \A t \in Text : t.name \in Names
<1>1. \A k \in STRING : KeyText(k) \in Texts /\ ValueText(k) \in Texts
  BY DEF Texts, KeyText, ValueText
<1>2. ASSUME NEW k
      PROVE  KeyText(k) # NoText /\ KeyText(k).kind = "key" /\ KeyText(k).name = k
  <2>1. KeyText(k).kind = "key" /\ KeyText(k).name = k
    BY DEF KeyText
  <2>2. NoText.kind = "none"
    BY DEF NoText
  <2> QED
    BY <2>1, <2>2
<1>3. ASSUME NEW t \in Text PROVE t.name \in Names
  <2>1. t \in Texts \/ t = NoText \/ t = KeyText("uninitialised")
    BY DEF Text
  <2>2. NoText.name \in Names /\ "uninitialised" \in Names
    BY Zenon DEF NoText, Names
  <2>3. t \in Texts => t.name \in STRING
    BY DEF Texts
  <2>4. STRING \subseteq Names
    BY Zenon DEF Names
  <2> QED
    BY <1>2, <2>1, <2>2, <2>3, <2>4
<1>4. KeyText("uninitialised") \in Text
  BY DEF Text
<1> QED
  BY <1>1, <1>2, <1>3, <1>4

LEMMA PieceFacts ==
  /\ \A x \in Pieces : x.text \in Text /\ x.nl \in BOOLEAN
  /\ \A t \in Texts, e \in BOOLEAN : Piece(t, e) \in Pieces
BY DEF Pieces, Piece, Text

LEMMA EndsFacts ==
  ASSUME NEW f \in Seq(Pieces)
  PROVE  /\ DOMAIN f = 1 .. Len(f) /\ Len(f) \in Nat
         /\ Ends(f) \subseteq 1 .. Len(f) /\ Ends(f) \in SUBSET Nat
         /\ \A i \in 1 .. Len(f) : i \in Ends(f) <=> f[i].nl
BY DEF Ends

LEMMA OpenedFacts ==
  ASSUME NEW can \in BOOLEAN, NEW f \in Seq(Pieces)
  PROVE  Opened(can) \in Streams /\ StandsAt(Opened(can), f, 0)
<1>1. SubSeq(f, 1, 0) = <<>> /\ Len(f) \in Nat /\ <<>> \in Seq(Pieces)
  OBVIOUS
<1> QED
  BY <1>1 DEF Opened, Streams, StandsAt

\* The stream with a filled buffer stands where it stood; if it has no whole line,
\* it holds the file to its end.
LEMMA FillFacts ==
  ASSUME NEW s \in Streams, NEW f \in Seq(Pieces)
  PROVE  /\ Fill(s, f) \in Streams
         /\ Fill(s, f).open = s.open /\ Fill(s, f).eof = s.eof
<1>1. CASE Ends(s.buf) # {}
  BY <1>1 DEF Fill
<1>2. CASE Ends(s.buf) = {}
  <2>1. PICK o \in Nat, L \in Nat : o = s.off /\ L = Len(f)
    BY DEF Streams
  <2>2. SubSeq(f, o + 1, L) \in Seq(Pieces)
    BY <2>1, SubSeqProperties
  <2>3. PICK b \in Seq(Pieces) : b = s.buf \o SubSeq(f, o + 1, L)
    BY <2>2, ConcatProperties DEF Streams
  <2>4. PICK m \in Nat : m = IF o < L THEN L ELSE o
    OBVIOUS
  <2>5. Fill(s, f) = [s EXCEPT !.buf = b, !.off = m]
    BY <1>2, <2>1, <2>3, <2>4 DEF Fill
  <2> QED
    BY <2>5 DEF Streams
<1> QED
  BY <1>1, <1>2

LEMMA FillStands ==
  ASSUME NEW s \in Streams, NEW f \in Seq(Pieces), NEW p, StandsAt(s, f, p)
  PROVE  /\ StandsAt(Fill(s, f), f, p)
         /\ Ends(Fill(s, f).buf) = {} => Fill(s, f).off = Len(f)
<1>1. CASE Ends(s.buf) # {}
  BY <1>1 DEF Fill
<1>2. CASE Ends(s.buf) = {}
  <2>1. PICK o \in Nat, L \in Nat : o = s.off /\ L = Len(f) /\ p \in 0 .. o /\ o \in 0 .. L
    BY DEF Streams, StandsAt
  <2>2. s.buf \o SubSeq(f, o + 1, L) = SubSeq(f, p + 1, L)
    <3>1. p + 1 \in 1 .. Len(f) + 1 /\ o \in (p + 1) - 1 .. Len(f) /\ L \in o .. Len(f)
      BY <2>1
    <3>2. SubSeq(f, p + 1, o) \o SubSeq(f, o + 1, L) = SubSeq(f, p + 1, L)
      BY <3>1, ConcatAdjacentSubSeq
    <3> QED
      BY <2>1, <3>2 DEF StandsAt
  <2>3. L = IF o < L THEN L ELSE o
    BY <2>1
  <2>4. Fill(s, f) = [s EXCEPT !.buf = SubSeq(f, p + 1, L), !.off = L]
    BY <1>2, <2>1, <2>2, <2>3 DEF Fill
  <2>5. /\ Fill(s, f).buf = SubSeq(f, p + 1, L) /\ Fill(s, f).off = L
        /\ Fill(s, f).eof = s.eof
    BY <2>4 DEF Streams
  <2> QED
    BY <2>1, <2>5 DEF StandsAt
<1> QED
  BY <1>1, <1>2

\* How many pieces of its buffer a filled stream gives away.
LineLength(g) == IF Ends(g.buf) = {} THEN Len(g.buf) ELSE First(Ends(g.buf))

LEMMA LineLengthFacts ==
  ASSUME NEW g \in Streams
  PROVE  /\ LineLength(g) \in 0 .. Len(g.buf)
         /\ \A i \in 1 .. LineLength(g) - 1 : ~g.buf[i].nl
         /\ Ends(g.buf) = {} => LineLength(g) = Len(g.buf)
                                /\ \A i \in 1 .. Len(g.buf) : ~g.buf[i].nl
         /\ Ends(g.buf) # {} => LineLength(g) > 0 /\ g.buf[LineLength(g)].nl
<1>1. PICK b \in Seq(Pieces) : b = g.buf
  BY DEF Streams
<1>2. /\ Len(b) \in Nat /\ Ends(b) \in SUBSET Nat /\ Ends(b) \subseteq 1 .. Len(b)
      /\ \A i \in 1 .. Len(b) : i \in Ends(b) <=> b[i].nl
  BY EndsFacts
<1>3. CASE Ends(b) = {}
  BY <1>1, <1>2, <1>3 DEF LineLength
<1>4. CASE Ends(b) # {}
  <2>1. First(Ends(b)) \in Ends(b) /\ \A j \in Ends(b) : First(Ends(b)) <= j
    BY <1>2, <1>4, FirstIs
  <2>2. PICK n \in 1 .. Len(b) : n = First(Ends(b))
    BY <1>2, <2>1
  <2>3. n \in Ends(b) /\ \A i \in 1 .. n - 1 : i \notin Ends(b)
    <3>1. \A i \in 1 .. n - 1 : ~(n <= i)
      OBVIOUS
    <3> QED
      BY <2>1, <2>2, <3>1
  <2>4. LineLength(g) = n
    BY <1>1, <1>4, <2>2 DEF LineLength
  <2>5. \A i \in 1 .. n - 1 : i \in 1 .. Len(b)
    BY <1>2
  <2> QED
    BY <1>1, <1>2, <1>4, <2>3, <2>4, <2>5
<1> QED
  BY <1>3, <1>4

\* getline in terms of the filled stream.
LEMMA GetLineIs ==
  ASSUME NEW s \in Streams, NEW f \in Seq(Pieces)
  PROVE  LET g == Fill(s, f)
             n == LineLength(g)
             r == GetLine(s, f)
         IN  IF ~s.open \/ s.eof THEN r.line = <<>> /\ r.stream = s
             ELSE /\ r.line = IF n = 0 \/ g.buf[1].text = NoText THEN <<>>
                              ELSE [i \in 1 .. n |-> g.buf[i].text]
                  /\ r.stream \in Streams
                  /\ r.stream.open = s.open /\ r.stream.off = g.off
                  /\ r.stream.buf = SubSeq(g.buf, n + 1, Len(g.buf))
                  /\ r.stream.eof <=> Ends(g.buf) = {}
<1>1. CASE ~s.open \/ s.eof
  BY <1>1 DEF GetLine
<1>2. CASE ~(~s.open \/ s.eof)
  <2> DEFINE g == Fill(s, f)
             n == LineLength(g)
             rest == SubSeq(g.buf, n + 1, Len(g.buf))
             over == (Ends(g.buf) = {})
             r == GetLine(s, f)
  <2>1. g \in Streams /\ g.open = s.open
    BY FillFacts
  <2>2. r = [line |-> IF n = 0 \/ g.buf[1].text = NoText THEN <<>>
                      ELSE [i \in 1 .. n |-> g.buf[i].text],
             stream |-> [g EXCEPT !.buf = SubSeq(g.buf, n + 1, Len(g.buf)),
                                  !.eof = (Ends(g.buf) = {})]]
    BY <1>2, Zenon DEF GetLine, LineLength
  <2>3. rest \in Seq(Pieces)
    <3>1. PICK b \in Seq(Pieces), m \in Nat, L \in Nat :
            b = g.buf /\ m = n /\ L = Len(b) /\ m <= L
      BY <2>1, LineLengthFacts DEF Streams
    <3>2. \A i \in m + 1 .. L : b[i] \in Pieces
      BY <3>1
    <3>3. SubSeq(b, m + 1, L) \in Seq(Pieces)
      BY <3>1, <3>2, SubSeqProperties
    <3> QED
      BY <3>1, <3>3
  <2>4. over \in BOOLEAN
    OBVIOUS
  <2>5. r.stream = [g EXCEPT !.buf = rest, !.eof = over]
    BY <2>2
  <2> HIDE DEF g, n, rest, over, r
  <2>6. /\ r.stream \in Streams
        /\ r.stream.open = g.open /\ r.stream.off = g.off
        /\ r.stream.buf = rest /\ r.stream.eof = over
    BY <2>1, <2>3, <2>4, <2>5 DEF Streams
  <2>7. r.line = IF n = 0 \/ g.buf[1].text = NoText THEN <<>>
                 ELSE [i \in 1 .. n |-> g.buf[i].text]
    BY <2>2
  <2> QED
    BY <1>2, <2>1, <2>6, <2>7 DEF g, n, rest, over, r
<1> QED
  BY <1>1, <1>2

LEMMA GetLineFacts ==
  ASSUME NEW s \in Streams, NEW f \in Seq(Pieces)
  PROVE  /\ GetLine(s, f).line \in Seq(Text)
         /\ GetLine(s, f).stream \in Streams
         /\ GetLine(s, f).stream.open = s.open
         /\ GetLine(s, f).line # <<>> => s.open /\ ~s.eof
<1> DEFINE g == Fill(s, f)
           n == LineLength(g)
           r == GetLine(s, f)
<1>1. CASE ~s.open \/ s.eof
  <2>1. r.line = <<>> /\ r.stream = s
    BY <1>1, GetLineIs
  <2> HIDE DEF r
  <2>2. <<>> \in Seq(Text)
    OBVIOUS
  <2> QED
    BY <1>1, <2>1, <2>2 DEF r
<1>2. CASE ~(~s.open \/ s.eof)
  <2>1. PICK b \in Seq(Pieces), m \in Nat : b = g.buf /\ m = n /\ m <= Len(b)
    <3>1. g \in Streams
      BY FillFacts
    <3>2. g.buf \in Seq(Pieces)
      BY <3>1 DEF Streams
    <3>3. n \in Nat /\ n <= Len(g.buf)
      BY <3>1, <3>2, LineLengthFacts
    <3> QED
      BY <3>2, <3>3
  <2>2. \A i \in 1 .. m : b[i].text \in Text
    BY <2>1, PieceFacts
  <2>3. [i \in 1 .. m |-> b[i].text] \in Seq(Text)
    BY <2>2
  <2>4. r.line = <<>> \/ r.line = [i \in 1 .. m |-> b[i].text]
    BY <1>2, <2>1, GetLineIs
  <2> HIDE DEF r
  <2>5. r.line \in Seq(Text)
    <3>1. <<>> \in Seq(Text)
      OBVIOUS
    <3> QED
      BY <2>3, <2>4, <3>1, Zenon
  <2> QED
    BY <1>2, <2>5, GetLineIs DEF r
<1> QED
  BY <1>1, <1>2

\* getline on a file that is only ever added to gives the pieces from p + 1 to q,
\* up to the next newline, and the next line begins behind it.
LineRead(s, f, p, q) ==
  LET r == GetLine(s, f)
  IN  /\ StandsAt(r.stream, f, q)
      /\ \A i \in p + 1 .. q - 1 : ~f[i].nl
      /\ r.stream.eof => \A i \in p + 1 .. Len(f) : ~f[i].nl
      /\ ~r.stream.eof => q > p /\ f[q].nl
      /\ r.line = IF q = p \/ f[p + 1].text = NoText THEN <<>>
                  ELSE [i \in 1 .. q - p |-> f[p + i].text]

LEMMA GetLineStands ==
  ASSUME NEW s \in Streams, NEW f \in Seq(Pieces), NEW p, StandsAt(s, f, p),
         s.open, ~s.eof
  PROVE  \E q \in p .. Len(f) : LineRead(s, f, p, q)
<1> DEFINE g == Fill(s, f)
           n == LineLength(g)
           r == GetLine(s, f)
<1>1. g \in Streams /\ StandsAt(g, f, p) /\ (Ends(g.buf) = {} => g.off = Len(f))
  BY FillFacts, FillStands
<1>2. PICK P \in Nat, O \in Nat, L \in Nat :
        P = p /\ O = g.off /\ L = Len(f) /\ P <= O /\ O <= L
  <2>1. p \in 0 .. g.off /\ g.off \in 0 .. Len(f)
    BY <1>1, Zenon DEF StandsAt
  <2>2. Len(f) \in Nat
    OBVIOUS
  <2> HIDE DEF g
  <2>3. p \in Nat /\ g.off \in Nat /\ p <= g.off /\ g.off <= Len(f)
    BY <2>1, <2>2
  <2> QED
    BY <2>2, <2>3
<1>3. g.buf = SubSeq(f, P + 1, O)
  BY <1>1, <1>2 DEF StandsAt
<1>4. \A i \in P + 1 .. O : f[i] \in Pieces
  BY <1>2
<1>5. /\ Len(g.buf) = O - P
      /\ \A i \in 1 .. O - P : g.buf[i] = f[P + i]
  <2>1. /\ Len(SubSeq(f, P + 1, O)) = IF P + 1 <= O THEN O - (P + 1) + 1 ELSE 0
        /\ \A i \in 1 .. O - (P + 1) + 1 : SubSeq(f, P + 1, O)[i] = f[P + 1 + i - 1]
    BY <1>2, <1>4, SubSeqProperties
  <2>2. \A i \in 1 .. O - P : i \in 1 .. O - (P + 1) + 1 /\ P + 1 + i - 1 = P + i
    BY <1>2
  <2>3. (IF P + 1 <= O THEN O - (P + 1) + 1 ELSE 0) = O - P
    BY <1>2
  <2> QED
    BY <1>3, <2>1, <2>2, <2>3
<1>6. PICK N \in Nat : N = n /\ N <= O - P
  BY <1>1, <1>5, LineLengthFacts
<1> DEFINE q == P + N
<1>7. q \in p .. Len(f) /\ q <= O
  BY <1>2, <1>6
<1>8. /\ r.line = IF N = 0 \/ g.buf[1].text = NoText THEN <<>>
                  ELSE [i \in 1 .. N |-> g.buf[i].text]
      /\ r.stream \in Streams
      /\ r.stream.off = O
      /\ r.stream.buf = SubSeq(g.buf, N + 1, O - P)
      /\ r.stream.eof <=> Ends(g.buf) = {}
  <2>1. /\ r.line = IF n = 0 \/ g.buf[1].text = NoText THEN <<>>
                    ELSE [i \in 1 .. n |-> g.buf[i].text]
        /\ r.stream \in Streams
        /\ r.stream.off = g.off
        /\ r.stream.buf = SubSeq(g.buf, n + 1, Len(g.buf))
        /\ r.stream.eof <=> Ends(g.buf) = {}
    BY GetLineIs
  <2> HIDE DEF r, g, n
  <2> QED
    BY <1>2, <1>5, <1>6, <2>1
<1>9. /\ \A i \in 1 .. N - 1 : ~g.buf[i].nl
      /\ Ends(g.buf) = {} => N = O - P /\ \A i \in 1 .. O - P : ~g.buf[i].nl
      /\ Ends(g.buf) # {} => N > 0 /\ g.buf[N].nl
  BY <1>1, <1>5, <1>6, LineLengthFacts
<1> HIDE DEF r, g, n
<1>10. \A i \in p + 1 .. q - 1 : ~f[i].nl
  <2> SUFFICES ASSUME NEW i \in P + 1 .. P + N - 1 PROVE ~f[i].nl
    BY <1>2
  <2>1. i - P \in 1 .. N - 1 /\ i - P \in 1 .. O - P /\ P + (i - P) = i
    BY <1>2, <1>6
  <2> QED
    BY <1>5, <1>9, <2>1
<1>11. r.stream.eof => \A i \in p + 1 .. Len(f) : ~f[i].nl
  <2> SUFFICES ASSUME r.stream.eof, NEW i \in P + 1 .. L PROVE ~f[i].nl
    BY <1>2
  <2>1. O = L
    BY <1>1, <1>2, <1>8
  <2>2. i - P \in 1 .. O - P /\ P + (i - P) = i
    BY <1>2, <2>1
  <2> QED
    BY <1>5, <1>8, <1>9, <2>2
<1>12. ~r.stream.eof => q > p /\ f[q].nl
  <2> SUFFICES ASSUME ~r.stream.eof PROVE q > p /\ f[q].nl
    OBVIOUS
  <2>1. N > 0 /\ g.buf[N].nl /\ N \in 1 .. O - P
    <3>1. Ends(g.buf) # {}
      BY <1>8
    <3>2. N > 0 /\ g.buf[N].nl
      BY <1>9, <3>1
    <3>3. N \in 1 .. O - P
      BY <1>6, <3>2
    <3> QED
      BY <3>2, <3>3
  <2> QED
    BY <1>2, <1>5, <2>1
<1>13. r.line = IF q = p \/ f[p + 1].text = NoText THEN <<>>
                ELSE [i \in 1 .. q - p |-> f[p + i].text]
  <2>1. CASE N = 0
    BY <1>2, <1>8, <2>1
  <2>2. CASE N # 0
    <3>1. g.buf[1] = f[P + 1] /\ q # p /\ q - p = N
      BY <1>2, <1>5, <1>6, <2>2
    <3>2. \A i \in 1 .. N : g.buf[i].text = f[P + i].text
      BY <1>5, <1>6
    <3>3. [i \in 1 .. N |-> g.buf[i].text] = [i \in 1 .. N |-> f[P + i].text]
      BY <3>2
    <3> HIDE DEF q
    <3> QED
      BY <1>2, <1>8, <2>2, <3>1, <3>3
  <2> QED
    BY <2>1, <2>2
<1>14. StandsAt(r.stream, f, q)
  <2>1. SubSeq(g.buf, N + 1, O - P) = SubSeq(f, q + 1, O)
    <3>1. /\ \A i \in N + 1 .. O - P : g.buf[i] \in Pieces
          /\ \A i \in q + 1 .. O : f[i] \in Pieces
      <4>1. \A i \in N + 1 .. O - P : i \in 1 .. O - P /\ P + i \in P + 1 .. O
        BY <1>6
      <4>2. \A i \in q + 1 .. O : i \in P + 1 .. O
        BY <1>6
      <4> QED
        BY <1>4, <1>5, <4>1, <4>2
    <3>2. /\ SubSeq(g.buf, N + 1, O - P) \in Seq(Pieces)
          /\ Len(SubSeq(g.buf, N + 1, O - P)) =
               IF N + 1 <= O - P THEN (O - P) - (N + 1) + 1 ELSE 0
          /\ \A i \in 1 .. (O - P) - (N + 1) + 1 :
               SubSeq(g.buf, N + 1, O - P)[i] = g.buf[N + 1 + i - 1]
      <4>1. N + 1 \in Int /\ O - P \in Int
        OBVIOUS
      <4> QED
        BY <3>1, <4>1, SubSeqProperties
    <3>3. /\ SubSeq(f, q + 1, O) \in Seq(Pieces)
          /\ Len(SubSeq(f, q + 1, O)) = IF q + 1 <= O THEN O - (q + 1) + 1 ELSE 0
          /\ \A i \in 1 .. O - (q + 1) + 1 : SubSeq(f, q + 1, O)[i] = f[q + 1 + i - 1]
      <4>1. q + 1 \in Int /\ O \in Int
        OBVIOUS
      <4> QED
        BY <3>1, <4>1, SubSeqProperties
    <3> DEFINE u == SubSeq(g.buf, N + 1, O - P)  v == SubSeq(f, q + 1, O)
    <3>4. Len(u) = Len(v) /\ Len(u) = O - P - N
      BY <1>6, <3>2, <3>3
    <3>5. ASSUME NEW i \in 1 .. O - P - N PROVE u[i] = v[i]
      <4>1. /\ i \in 1 .. (O - P) - (N + 1) + 1 /\ N + 1 + i - 1 = N + i
            /\ i \in 1 .. O - (q + 1) + 1 /\ q + 1 + i - 1 = P + (N + i)
            /\ N + i \in 1 .. O - P
        BY <1>6
      <4>2. u[i] = g.buf[N + i] /\ v[i] = f[P + (N + i)]
        BY <3>2, <3>3, <4>1
      <4> QED
        BY <1>5, <4>1, <4>2
    <3>6. u \in Seq(Pieces) /\ v \in Seq(Pieces)
      BY <3>2, <3>3
    <3> HIDE DEF u, v
    <3>7. u = v
      BY <3>4, <3>5, <3>6, SeqEqual
    <3> QED
      BY <3>7 DEF u, v
  <2>2. q \in 0 .. O /\ O \in 0 .. Len(f)
    BY <1>2, <1>6
  <2> QED
    BY <1>8, <1>12, <2>1, <2>2 DEF StandsAt
<1>15. LineRead(s, f, p, q)
  BY <1>10, <1>11, <1>12, <1>13, <1>14 DEF LineRead, r
<1> QED
  BY <1>7, <1>15

-----------------------------------------------------------------------------
(***************************************************************************)
(* The words of a line.                                                    *)
(***************************************************************************)
LEMMA WordsFacts ==
  ASSUME NEW line \in Seq(Text), line # <<>>
  PROVE  /\ Words(line) \in Seq(Seq(Text))
         /\ Len(Words(line)) = IF Len(line) < 2 THEN 1 ELSE 2
         /\ Words(line)[1][1] = line[1]
         /\ Len(line) >= 2 => Words(line)[2] = Tail(line)
<1>1. Len(line) \in Nat /\ Len(line) > 0 /\ line[1] \in Text
  OBVIOUS
<1>2. CASE Len(line) < 2
  <2>1. Words(line) = <<line>>
    BY <1>2 DEF Words
  <2> QED
    BY <1>1, <1>2, <2>1
<1>3. CASE ~(Len(line) < 2)
  <2>1. Words(line) = <<<<line[1]>>, Tail(line)>>
    BY <1>1, <1>3 DEF Words
  <2>2. <<line[1]>> \in Seq(Text) /\ Tail(line) \in Seq(Text)
    BY <1>1
  <2> QED
    BY <1>1, <1>3, <2>1, <2>2
<1> QED
  BY <1>2, <1>3

LEMMA ReadLineFacts ==
  ASSUME NEW s \in Streams, NEW f \in Seq(Pieces), NEW a \in Seq(Seq(Text))
  PROVE  LET r == ReadLine(s, f, a)
         IN  /\ r.stream = GetLine(s, f).stream
             /\ r.stream \in Streams /\ r.stream.open = s.open
             /\ r.args \in Seq(Seq(Text))
             /\ r.ok <=> ~r.stream.eof /\ GetLine(s, f).line # <<>>
             /\ r.ok => s.open /\ ~s.eof /\ r.args = a \o Words(GetLine(s, f).line)
             /\ ~r.ok => r.args = a
<1> DEFINE g == GetLine(s, f)
           ok == ~IsEnd(g.stream) /\ g.line # <<>>
           r == ReadLine(s, f, a)
<1>1. r = [ok |-> ok, args |-> IF ok THEN a \o Words(g.line) ELSE a, stream |-> g.stream]
  BY DEF ReadLine
<1>2. g.line \in Seq(Text) /\ g.stream \in Streams /\ g.stream.open = s.open
      /\ (g.line # <<>> => s.open /\ ~s.eof)
  BY GetLineFacts
<1>3. ok <=> ~g.stream.eof /\ g.line # <<>>
  BY DEF IsEnd
<1>4. g.line # <<>> => a \o Words(g.line) \in Seq(Seq(Text))
  BY <1>2, WordsFacts
<1> HIDE DEF g, ok, r
<1>5. r.ok = ok /\ r.stream = g.stream /\ r.args = IF ok THEN a \o Words(g.line) ELSE a
  BY <1>1
<1>6. CASE ok
  BY <1>2, <1>3, <1>4, <1>5, <1>6 DEF g, r
<1>7. CASE ~ok
  BY <1>2, <1>3, <1>5, <1>7 DEF g, r
<1> QED
  BY <1>6, <1>7

\* The stream moves on in the file, whatever it finds.
LEMMA ReadLineMoves ==
  ASSUME NEW s \in Streams, NEW f \in Seq(Pieces), NEW a \in Seq(Seq(Text)),
         NEW p \in 0 .. Len(f), StandsAt(s, f, p)
  PROVE  \E q \in 0 .. Len(f) : StandsAt(ReadLine(s, f, a).stream, f, q)
<1>1. ReadLine(s, f, a).stream = GetLine(s, f).stream
  BY ReadLineFacts
<1>2. CASE s.open /\ ~s.eof
  <2>1. PICK q \in p .. Len(f) : StandsAt(GetLine(s, f).stream, f, q)
    BY <1>2, GetLineStands DEF LineRead
  <2>2. q \in 0 .. Len(f)
    OBVIOUS
  <2> QED
    BY <1>1, <2>1, <2>2
<1>3. CASE ~(s.open /\ ~s.eof)
  <2>1. GetLine(s, f).stream = s
    BY <1>3, GetLineIs
  <2> QED
    BY <1>1, <2>1
<1> QED
  BY <1>2, <1>3

\* What a line says: its words are the texts of its pieces.
WordsAt(f, p, q, w) ==
  /\ w \in Seq(Seq(Text))
  /\ Len(w) = IF q = p + 1 THEN 1 ELSE 2
  /\ w[1][1] = f[p + 1].text
  /\ q > p + 1 => w[2] = [i \in 1 .. q - p - 1 |-> f[p + 1 + i].text]

\* A line that is read, as r says, goes from p + 1 to q.
LineTaken(r, f, a, p, q) ==
  /\ StandsAt(r.stream, f, q) /\ ~r.stream.eof
  /\ f[q].nl /\ \A i \in p + 1 .. q - 1 : ~f[i].nl
  /\ p + 1 \in LineStarts(f) /\ f[p + 1].text # NoText
  /\ \E w : r.args = a \o w /\ WordsAt(f, p, q, w)

LEMMA ReadLineStands ==
  ASSUME NEW s \in Streams, NEW f \in Seq(Pieces), NEW a \in Seq(Seq(Text)),
         NEW p \in 0 .. Len(f), StandsAt(s, f, p), ReadLine(s, f, a).ok
  PROVE  \E q \in p + 1 .. Len(f) : LineTaken(ReadLine(s, f, a), f, a, p, q)
<1> DEFINE r == ReadLine(s, f, a)
           line == GetLine(s, f).line
           w == Words(line)
<1>1. /\ r.stream = GetLine(s, f).stream /\ ~r.stream.eof
      /\ s.open /\ ~s.eof /\ line # <<>> /\ r.args = a \o w
  BY ReadLineFacts
<1>2. PICK q \in p .. Len(f) :
        /\ StandsAt(r.stream, f, q)
        /\ \A i \in p + 1 .. q - 1 : ~f[i].nl
        /\ q > p /\ f[q].nl
        /\ line = IF q = p \/ f[p + 1].text = NoText THEN <<>>
                  ELSE [i \in 1 .. q - p |-> f[p + i].text]
  <2>1. s.open /\ ~s.eof
    BY <1>1
  <2>2. PICK q \in p .. Len(f) : LineRead(s, f, p, q)
    BY <2>1, GetLineStands
  <2> QED
    BY <1>1, <2>2 DEF LineRead
<1>3. line \in Seq(Text)
  BY GetLineFacts
<1> HIDE DEF r, line
<1>4. q \in p + 1 .. Len(f) /\ p \in Nat /\ q \in Nat
  BY <1>2
<1>5. f[p + 1].text # NoText /\ line = [i \in 1 .. q - p |-> f[p + i].text]
  BY <1>1, <1>2
<1>6. p + 1 \in LineStarts(f)
  <2>1. p = 0 \/ f[p].nl
    BY <1>1 DEF StandsAt
  <2>2. DOMAIN f = 1 .. Len(f) /\ p + 1 \in 1 .. Len(f) /\ (p + 1) - 1 = p
    BY <1>4
  <2> QED
    BY <2>1, <2>2 DEF LineStarts
<1>7. WordsAt(f, p, q, w)
  <2>1. Len(line) = q - p /\ line[1] = f[p + 1].text
    BY <1>4, <1>5
  <2>2. /\ w \in Seq(Seq(Text))
        /\ Len(w) = IF Len(line) < 2 THEN 1 ELSE 2
        /\ w[1][1] = line[1]
        /\ Len(line) >= 2 => w[2] = Tail(line)
    BY <1>1, <1>3, WordsFacts
  <2>3. q > p + 1 => Tail(line) = [i \in 1 .. q - p - 1 |-> f[p + 1 + i].text]
    <3> SUFFICES ASSUME q > p + 1
                 PROVE  Tail(line) = [i \in 1 .. q - p - 1 |-> f[p + 1 + i].text]
      OBVIOUS
    <3> DEFINE t == [i \in 1 .. q - p - 1 |-> f[p + 1 + i].text]
    <3>1. /\ Tail(line) \in Seq(Text) /\ Len(Tail(line)) = Len(line) - 1
          /\ \A i \in 1 .. Len(Tail(line)) : Tail(line)[i] = line[i + 1]
      BY <1>1, <1>3, HeadTailProperties
    <3>2. q - p - 1 \in Nat /\ Len(Tail(line)) = q - p - 1
      BY <1>4, <2>1, <3>1
    <3>3. ASSUME NEW i \in 1 .. q - p - 1 PROVE Tail(line)[i] = f[p + 1 + i].text
      <4>1. i + 1 \in 1 .. q - p /\ p + (i + 1) = p + 1 + i
        BY <1>4
      <4>2. Tail(line)[i] = line[i + 1]
        BY <3>1, <3>2
      <4>3. line[i + 1] = f[p + (i + 1)].text
        BY <1>5, <4>1
      <4> QED
        BY <4>1, <4>2, <4>3
    <3>4. \A i \in 1 .. q - p - 1 : f[p + 1 + i].text \in Text
      <4>1. \A i \in 1 .. q - p - 1 : p + 1 + i \in 1 .. Len(f)
        BY <1>4
      <4>2. \A j \in 1 .. Len(f) : f[j] \in Pieces
        OBVIOUS
      <4> QED
        BY <4>1, <4>2, PieceFacts
    <3>5. t \in Seq(Text) /\ Len(t) = q - p - 1
      BY <3>2, <3>4
    <3>6. \A i \in 1 .. q - p - 1 : t[i] = f[p + 1 + i].text
      OBVIOUS
    <3> HIDE DEF t
    <3>7. Tail(line) = t
      BY <3>1, <3>2, <3>3, <3>5, <3>6, SeqEqual
    <3> QED
      BY <3>7 DEF t
  <2>4. /\ Len(line) < 2 <=> q = p + 1
        /\ q > p + 1 => Len(line) >= 2
    BY <1>4, <2>1
  <2> HIDE DEF w
  <2> QED
    BY <2>1, <2>2, <2>3, <2>4 DEF WordsAt
<1> HIDE DEF w
<1>8. \E v : r.args = a \o v /\ WordsAt(f, p, q, v)
  BY <1>1, <1>7
<1>9. LineTaken(r, f, a, p, q)
  BY <1>1, <1>2, <1>5, <1>6, <1>8 DEF LineTaken
<1> QED
  BY <1>4, <1>9 DEF r

\* When no line is read, none that is whole comes any more, or an empty one has been
\* taken.
NoLineTaken(t, f, p, q) ==
  \/ t.eof /\ \A i \in p + 1 .. Len(f) : ~f[i].nl
  \/ /\ ~t.eof /\ q > p /\ f[q].nl /\ \A i \in p + 1 .. q - 1 : ~f[i].nl
     /\ p + 1 \in LineStarts(f) /\ f[p + 1].text = NoText

LEMMA NoLineStands ==
  ASSUME NEW s \in Streams, NEW f \in Seq(Pieces), NEW a \in Seq(Seq(Text)),
         NEW p \in 0 .. Len(f), StandsAt(s, f, p), s.open, ~s.eof,
         ~ReadLine(s, f, a).ok
  PROVE  LET t == ReadLine(s, f, a).stream
         IN  \E q \in p .. Len(f) : StandsAt(t, f, q) /\ NoLineTaken(t, f, p, q)
<1> DEFINE t == GetLine(s, f).stream
           line == GetLine(s, f).line
<1>1. ReadLine(s, f, a).stream = t /\ (t.eof \/ line = <<>>)
  BY ReadLineFacts
<1>2. PICK q \in p .. Len(f) : LineRead(s, f, p, q)
  BY GetLineStands
<1>3. /\ StandsAt(t, f, q)
      /\ \A i \in p + 1 .. q - 1 : ~f[i].nl
      /\ t.eof => \A i \in p + 1 .. Len(f) : ~f[i].nl
      /\ ~t.eof => q > p /\ f[q].nl
      /\ line = IF q = p \/ f[p + 1].text = NoText THEN <<>>
                ELSE [i \in 1 .. q - p |-> f[p + i].text]
  BY <1>2 DEF LineRead
<1>4. p \in Nat /\ q \in Nat /\ Len(f) \in Nat /\ q <= Len(f) /\ DOMAIN f = 1 .. Len(f)
  OBVIOUS
<1>5. p = 0 \/ f[p].nl
  BY DEF StandsAt
<1> HIDE DEF t, line
<1>6. CASE t.eof
  BY <1>1, <1>3, <1>6 DEF NoLineTaken
<1>7. CASE ~t.eof
  <2>1. q > p /\ f[q].nl /\ line = <<>>
    BY <1>1, <1>3, <1>7
  <2>2. f[p + 1].text = NoText
    <3> SUFFICES ASSUME f[p + 1].text # NoText PROVE FALSE
      OBVIOUS
    <3> DEFINE h == [i \in 1 .. q - p |-> f[p + i].text]
    <3>1. q # p
      BY <1>4, <2>1
    <3>2. h = <<>>
      BY <1>3, <2>1, <3>1
    <3>3. DOMAIN h = 1 .. q - p /\ DOMAIN <<>> = {} /\ 1 \in 1 .. q - p
      BY <1>4, <2>1
    <3> HIDE DEF h
    <3> QED
      BY <3>2, <3>3
  <2>3. p + 1 \in LineStarts(f)
    <3>1. p + 1 \in 1 .. Len(f) /\ (p + 1) - 1 = p /\ (p = 0 => p + 1 = 1)
      BY <1>4, <2>1
    <3> QED
      BY <1>4, <1>5, <3>1 DEF LineStarts
  <2> QED
    BY <1>1, <1>3, <1>7, <2>1, <2>2, <2>3 DEF NoLineTaken
<1> QED
  BY <1>6, <1>7

\* The words of a line that is read begin with the key of the line, and if there are
\* two, the other is its value.
LEMMA LineWords ==
  ASSUME NEW s \in Streams, NEW f \in Seq(Pieces), NEW p \in 0 .. Len(f), StandsAt(s, f, p),
         ReadLine(s, f, <<>>).ok
  PROVE  LET x == ReadLine(s, f, <<>>).args
         IN  \E q \in p + 1 .. Len(f) :
               /\ LineTaken(ReadLine(s, f, <<>>), f, <<>>, p, q)
               /\ WordsAt(f, p, q, x)
               /\ \A k : Is(x, k) <=> f[p + 1].text = KeyText(k)
               /\ HasValue(x) <=> q > p + 1
               /\ q > p + 1 => /\ Len(x) = 2 /\ x[2] \in Seq(Text) /\ x[2] # <<>>
                               /\ x[2][1] = f[p + 2].text
<1> DEFINE r == ReadLine(s, f, <<>>)
           x == r.args
<1>1. <<>> \in Seq(Seq(Text))
  OBVIOUS
<1>2. PICK q \in p + 1 .. Len(f) : LineTaken(r, f, <<>>, p, q)
  BY <1>1, ReadLineStands
<1>3. PICK w : x = <<>> \o w /\ WordsAt(f, p, q, w)
  BY <1>2, Zenon DEF LineTaken
<1> HIDE DEF r
<1>4. /\ w \in Seq(Seq(Text)) /\ Len(w) = (IF q = p + 1 THEN 1 ELSE 2)
      /\ w[1][1] = f[p + 1].text
      /\ q > p + 1 => w[2] = [i \in 1 .. q - p - 1 |-> f[p + 1 + i].text]
  BY <1>3 DEF WordsAt
<1>5. x = w
  BY <1>3, <1>4
<1>6. p \in Nat /\ q \in Nat /\ q >= p + 1
  OBVIOUS
<1>7. (Len(w) = 1 /\ q = p + 1) \/ (Len(w) = 2 /\ q > p + 1)
  BY <1>4, <1>6
<1> HIDE DEF x
<1>8. \A k : Is(x, k) <=> f[p + 1].text = KeyText(k)
  <2>1. w # <<>>
    BY <1>4, <1>7
  <2> QED
    BY <1>4, <1>5, <2>1 DEF Is
<1>9. HasValue(x) <=> q > p + 1
  <2>1. x \in Seq(Seq(Text)) /\ Len(x) = Len(w)
    BY <1>4, <1>5
  <2>2. HasValue(x) <=> Len(w) > 1
    BY <2>1 DEF HasValue
  <2>3. CASE Len(w) = 1 /\ q = p + 1
    BY <1>6, <2>2, <2>3
  <2>4. CASE Len(w) = 2 /\ q > p + 1
    BY <2>2, <2>4
  <2> QED
    BY <1>7, <2>3, <2>4
<1>10. ASSUME q > p + 1
       PROVE  Len(x) = 2 /\ x[2] \in Seq(Text) /\ x[2] # <<>> /\ x[2][1] = f[p + 2].text
  <2>1. Len(w) = 2 /\ 2 \in DOMAIN w
    BY <1>4, <1>6, <1>7, <1>10
  <2>2. w[2] \in Seq(Text)
    <3>1. w \in Seq(Seq(Text))
      BY <1>4
    <3>2. 2 \in DOMAIN w
      BY <2>1
    <3> QED
      BY <3>1, <3>2
  <2>3. w[2] = [i \in 1 .. q - p - 1 |-> f[p + 1 + i].text]
    BY <1>4, <1>10
  <2>4. q - p - 1 \in Nat /\ q - p - 1 > 0 /\ p + 1 + 1 = p + 2
    BY <1>6, <1>10
  <2>5. Len(w[2]) = q - p - 1 /\ w[2][1] = f[p + 2].text
    BY <2>3, <2>4
  <2>6. w[2] # <<>>
    BY <2>2, <2>4, <2>5
  <2> QED
    BY <1>5, <2>1, <2>2, <2>5, <2>6
<1> QED
  BY <1>2, <1>3, <1>5, <1>8, <1>9, <1>10 DEF r, x

\* A line of a key that should have a number and does not is one that HasValues
\* denies.
LEMMA KeyWithoutValue ==
  ASSUME NEW s \in Streams, NEW f \in Seq(Pieces), NEW p \in 0 .. Len(f), StandsAt(s, f, p),
         ReadLine(s, f, <<>>).ok, NEW keys, NEW k \in keys,
         Is(ReadLine(s, f, <<>>).args, k),
         LET x == ReadLine(s, f, <<>>).args IN HasValue(x) => ~Number(x[2])
  PROVE  ~HasValues(f, keys)
<1> DEFINE x == ReadLine(s, f, <<>>).args
<1>1. PICK q \in p + 1 .. Len(f) :
        /\ LineTaken(ReadLine(s, f, <<>>), f, <<>>, p, q)
        /\ Is(x, k) <=> f[p + 1].text = KeyText(k)
        /\ HasValue(x) <=> q > p + 1
        /\ q > p + 1 => x[2][1] = f[p + 2].text
  BY LineWords
<1>2. Is(x, k) /\ (HasValue(x) => ~Number(x[2]))
  OBVIOUS
<1>3. f[q].nl /\ p + 1 \in LineStarts(f)
  BY <1>1, Zenon DEF LineTaken
<1> HIDE DEF x
<1>4. p \in Nat /\ q \in Nat /\ q >= p + 1 /\ q <= Len(f) /\ DOMAIN f = 1 .. Len(f)
  OBVIOUS
<1>5. f[p + 1].text = KeyText(k)
  BY <1>1, <1>2
<1>6. CASE q > p + 1
  <2>1. f[p + 2].text.kind # "value"
    BY <1>1, <1>2, <1>6 DEF Number
  <2>2. p + 1 + 1 = p + 2 /\ p + 2 \in DOMAIN f
    BY <1>4, <1>6
  <2> QED
    BY <1>3, <1>5, <2>1, <2>2 DEF HasValues
<1>7. CASE q = p + 1
  BY <1>3, <1>5, <1>7 DEF HasValues
<1> QED
  BY <1>4, <1>6, <1>7

LEMMA TextsDiffer ==
  /\ KeyText("processor") # KeyText(LastKey)
  /\ \A k : KeyText(k) # NoText
  /\ \A j, k : KeyText(j) = KeyText(k) => j = k
<1>1. "processor" # LastKey
  BY Zenon DEF LastKey
<1> QED
  BY <1>1 DEF KeyText, NoText

\* Words that are added do not change the first.
LEMMA FirstWord ==
  ASSUME NEW a \in Seq(Seq(Text)), NEW w \in Seq(Seq(Text)), w # <<>>
  PROVE  /\ a \o w # <<>>
         /\ a = <<>> => a \o w = w
         /\ a # <<>> => (a \o w)[1] = a[1]
<1> DEFINE x == a \o w
<1>1. Len(a) \in Nat /\ Len(w) \in Nat /\ Len(w) >= 1
  OBVIOUS
<1>2. /\ x \in Seq(Seq(Text)) /\ Len(x) = Len(a) + Len(w)
      /\ \A i \in 1 .. Len(a) + Len(w) : x[i] = IF i <= Len(a) THEN a[i] ELSE w[i - Len(a)]
  BY ConcatProperties, SMTT(30)
<1>3. a = <<>> => x = w
  OBVIOUS
<1> HIDE DEF x
<1>4. x # <<>>
  BY <1>1, <1>2
<1>5. ASSUME a # <<>> PROVE x[1] = a[1]
  <2>1. Len(a) >= 1
    BY <1>5
  <2>2. 1 \in 1 .. Len(a) + Len(w) /\ 1 <= Len(a)
    BY <1>1, <2>1
  <2> QED
    BY <1>2, <2>2
<1> QED
  BY <1>3, <1>4, <1>5 DEF x

LEMMA FirstWordStays ==
  ASSUME NEW s \in Streams, NEW f \in Seq(Pieces), NEW a \in Seq(Seq(Text)),
         NEW p \in 0 .. Len(f), StandsAt(s, f, p), ReadLine(s, f, a).ok,
         NEW k, Is(a, k)
  PROVE  Is(ReadLine(s, f, a).args, k)
<1> DEFINE r == ReadLine(s, f, a)
<1>1. PICK q \in p + 1 .. Len(f) : LineTaken(r, f, a, p, q)
  BY ReadLineStands
<1>2. PICK w : r.args = a \o w /\ WordsAt(f, p, q, w)
  BY <1>1, Zenon DEF LineTaken
<1>3. w \in Seq(Seq(Text)) /\ w # <<>>
  BY <1>2 DEF WordsAt
<1>4. a # <<>> /\ a[1][1] = KeyText(k)
  BY DEF Is
<1>5. a \o w # <<>> /\ (a \o w)[1] = a[1]
  BY <1>3, <1>4, FirstWord, Zenon
<1> HIDE DEF r
<1>6. r.args # <<>> /\ r.args[1] = a[1]
  BY <1>2, <1>5, Zenon
<1>7. Is(r.args, k)
  BY <1>4, <1>6 DEF Is
<1> QED
  BY <1>7 DEF r

-----------------------------------------------------------------------------
(***************************************************************************)
(* Entries and files.                                                      *)
(***************************************************************************)
LEMMA DefaultFacts == \A k : Default(k) \in Seq(Text)
BY TextFacts DEF Default, Unset, Garbage

LEMMA EntryFacts ==
  \A c, F : \A n \in Names :
    /\ Entry(c, n, F) \in EntriesWith(c, F)
    /\ Entry(c, n, F).name = n
    /\ \A k \in F : Entry(c, n, F).fields[k] = Default(k)
BY DefaultFacts DEF Entry, EntriesWith

LEMMA NewEntryFacts ==
  /\ NoEntry \in EntriesOf("none")
  /\ \A n \in Names : CpuInfo(n) \in EntriesOf("cpu_info")
  /\ \A c \in Tables : /\ NewEntry(c) \in EntriesOf(c)
                       /\ \A k \in FieldsOf(c) : NewEntry(c).fields[k] = Default(k)
  /\ \A n \in Names : /\ NetcardInfo(n) \in EntriesOf("netcard")
                      /\ NetcardInfo(n).name = n
                      /\ NetcardInfo(n).fields["address"] = Default("address")
                      /\ NetcardInfo(n).fields["mtu"] = Default("mtu")
<1> DEFINE E(c, n) == Entry(c, n, FieldsOf(c))
<1>1. \A c : \A n \in Names : /\ E(c, n) \in EntriesOf(c)
                              /\ E(c, n).name = n
                              /\ \A k \in FieldsOf(c) : E(c, n).fields[k] = Default(k)
  <2> TAKE c
  <2> TAKE n \in Names
  <2>1. Entry(c, n, FieldsOf(c)) \in EntriesWith(c, FieldsOf(c))
        /\ Entry(c, n, FieldsOf(c)).name = n
        /\ \A k \in FieldsOf(c) : Entry(c, n, FieldsOf(c)).fields[k] = Default(k)
    BY EntryFacts
  <2> QED
    BY <2>1 DEF EntriesOf
<1>2. "" \in Names
  BY Zenon DEF Names
<1>3. /\ FieldsOf("none") = {} /\ FieldsOf("cpu_info") = CpuFields
      /\ FieldsOf("mem") = MemFields /\ FieldsOf("metric") = MetricFields
      /\ FieldsOf("os") = OsFields /\ FieldsOf("netcard") = {"address", "mtu"}
  BY DEF FieldsOf
<1> HIDE DEF E
<1>4. NoEntry = E("none", "")
  BY <1>3, Zenon DEF NoEntry, E
<1>5. \A n : CpuInfo(n) = E("cpu_info", n) /\ NetcardInfo(n) = E("netcard", n)
  BY <1>3, Zenon DEF CpuInfo, NetcardInfo, E
<1>6. MenInfo = E("mem", "") /\ MetricInfo = E("metric", "") /\ OsInfo = E("os", "")
  BY <1>3, Zenon DEF MenInfo, MetricInfo, OsInfo, E
<1>7. NewEntry("mem") = MenInfo /\ NewEntry("metric") = MetricInfo /\ NewEntry("os") = OsInfo
  BY DEF NewEntry
<1>8. \A c \in Tables : \E n \in Names : NewEntry(c) = E(c, n)
  BY <1>2, <1>6, <1>7, Zenon DEF Tables
<1>9. NoEntry \in EntriesOf("none")
  BY <1>1, <1>2, <1>4, Zenon
<1> QED
  BY <1>1, <1>3, <1>5, <1>8, <1>9

\* A field takes its value, and nothing else does.
LEMMA AssignedFacts ==
  ASSUME NEW c, NEW e \in EntriesOf(c), NEW w \in Seq(Seq(Text)), ~Throws(e, w)
  PROVE  /\ Assigned(e, w) \in EntriesOf(c)
         /\ \A k \in FieldsOf(c) :
              Assigned(e, w).fields[k] = IF Is(w, k) THEN w[2] ELSE e.fields[k]
<1>1. PICK g \in [FieldsOf(c) -> Seq(Text)] : g = e.fields
  BY DEF EntriesOf, EntriesWith
<1>2. \A k \in FieldsOf(c) : Is(w, k) => w[2] \in Seq(Text)
  <2>1. \A k \in FieldsOf(c) : Is(w, k) => HasValue(w)
    BY <1>1 DEF Throws
  <2>2. HasValue(w) => w[2] \in Seq(Text)
    BY DEF HasValue
  <2> QED
    BY <2>1, <2>2
<1> DEFINE h == [k \in FieldsOf(c) |-> IF Is(w, k) THEN w[2] ELSE g[k]]
<1>3. h \in [FieldsOf(c) -> Seq(Text)]
  BY <1>2
<1>4. Assigned(e, w) = [e EXCEPT !.fields = h]
  BY <1>1 DEF Assigned
<1>5. \A k \in FieldsOf(c) : h[k] = IF Is(w, k) THEN w[2] ELSE g[k]
  OBVIOUS
<1> HIDE DEF h
<1>6. Assigned(e, w) \in EntriesOf(c) /\ Assigned(e, w).fields = h
  BY <1>3, <1>4 DEF EntriesOf, EntriesWith
<1> QED
  BY <1>1, <1>5, <1>6

\* The metrics are written a key and two pieces of its value at a time.
LEMMA MetricPieceFacts ==
  ASSUME NEW i \in 1 .. 3 * Len(MetricLines), NEW n \in Nat
  PROVE  /\ MetricPiece(i, n) \in Pieces
         /\ (i - 1) % 3 = 0 => ~MetricPiece(i, n).nl
         /\ (i - 1) % 3 # 0 => MetricPiece(i, n).text.kind = "value"
<1>1. PICK L \in Nat : L = Len(MetricLines) /\ i \in 1 .. 3 * L
  BY AgentAssumption
<1>2. PICK d \in Int, p \in 0 .. 2 : /\ d = (i - 1) \div 3 /\ p = (i - 1) % 3
                                     /\ i - 1 = 3 * d + p
  OBVIOUS
<1>3. d + 1 \in 1 .. L
  BY <1>1, <1>2
<1>4. MetricLines[d + 1] \in STRING
  BY <1>1, <1>3, AgentAssumption
<1>5. MetricPiece(i, n) =
        IF p = 0 THEN Piece(KeyText(MetricLines[d + 1]), FALSE)
        ELSE Piece([kind |-> "value", name |-> MetricLines[d + 1], part |-> 2 * n + p], p = 2)
  BY <1>2 DEF MetricPiece
<1> DEFINE t == [kind |-> "value", name |-> MetricLines[d + 1], part |-> 2 * n + p]
<1>6. t \in Texts /\ t.kind = "value"
  BY <1>4 DEF Texts
<1>7. KeyText(MetricLines[d + 1]) \in Texts
  BY <1>4, TextFacts
<1> HIDE DEF t
<1>8. CASE p = 0
  BY <1>2, <1>5, <1>7, <1>8, PieceFacts DEF Piece
<1>9. CASE p # 0
  <2>1. MetricPiece(i, n) = Piece(t, p = 2)
    BY <1>5, <1>9 DEF t
  <2>2. (p = 2) \in BOOLEAN
    OBVIOUS
  <2>3. Piece(t, p = 2) \in Pieces
    BY <1>6, <2>2, PieceFacts
  <2>4. Piece(t, p = 2).text = t
    BY DEF Piece
  <2> QED
    BY <1>2, <1>6, <1>9, <2>1, <2>3, <2>4
<1> QED
  BY <1>8, <1>9

\* Every part of the metrics has values for its keys, as far as they are there.
LEMMA MetricsHaveValues ==
  ASSUME NEW f \in Seq(Pieces), Len(f) <= 3 * Len(MetricLines),
         \A i \in DOMAIN f : f[i] = MetricPiece(i, 0), NEW keys
  PROVE  HasValues(f, keys)
<1> SUFFICES ASSUME NEW i \in LineStarts(f), NEW k \in keys, f[i].text = KeyText(k)
             PROVE  ~f[i].nl /\ (i + 1 \in DOMAIN f => f[i + 1].text.kind = "value")
  BY DEF HasValues
<1>1. PICK L \in Nat, m \in Nat :
        L = Len(MetricLines) /\ m = Len(f) /\ m <= 3 * L /\ DOMAIN f = 1 .. m
  BY AgentAssumption
<1>2. i \in 1 .. m /\ i \in 1 .. 3 * Len(MetricLines)
  BY <1>1 DEF LineStarts
<1>3. f[i] = MetricPiece(i, 0) /\ f[i].text.kind # "value"
  <2>1. f[i].text.kind = "key"
    BY TextFacts
  <2> QED
    BY <1>1, <1>2, <2>1
<1>4. (i - 1) % 3 = 0
  BY <1>2, <1>3, MetricPieceFacts
<1>5. ~f[i].nl
  BY <1>2, <1>3, <1>4, MetricPieceFacts
<1>6. ASSUME i + 1 \in DOMAIN f PROVE f[i + 1].text.kind = "value"
  <2>1. i + 1 \in 1 .. 3 * Len(MetricLines)
    BY <1>1, <1>6
  <2>2. ((i + 1) - 1) % 3 # 0
    BY <1>2, <1>4
  <2>3. MetricPiece(i + 1, 0).text.kind = "value"
    BY <2>1, <2>2, MetricPieceFacts
  <2> QED
    BY <1>6, <2>3
<1> QED
  BY <1>5, <1>6

\* What is in a file when a collector opens it.
LEMMA FilesFacts ==
  ASSUME NEW c \in Tables \cup {"cpu_info"}, NEW f \in FilesOf(c)
  PROVE  /\ f \in Seq(Pieces)
         /\ c = "metric" => /\ Len(f) <= 3 * Len(MetricLines)
                            /\ \A i \in DOMAIN f : f[i] = MetricPiece(i, 0)
<1>1. CASE c = "cpu_info"
  BY <1>1, AgentAssumption DEF FilesOf
<1>2. CASE c = "mem"
  BY <1>2, AgentAssumption DEF FilesOf
<1>3. CASE c = "os"
  BY <1>3, AgentAssumption DEF FilesOf
<1>4. CASE c = "metric"
  <2>1. PICK n \in 0 .. 3 * Len(MetricLines) : f = SubSeq(Metrics(0), 1, n)
    BY <1>4 DEF FilesOf
  <2>2. PICK L \in Nat : L = Len(MetricLines) /\ n \in 0 .. 3 * L
    BY <2>1, AgentAssumption
  <2>3. \A i \in 1 .. 3 * L : MetricPiece(i, 0) \in Pieces
    BY <2>2, MetricPieceFacts
  <2>4. Metrics(0) = [i \in 1 .. 3 * L |-> MetricPiece(i, 0)]
    BY <2>2 DEF Metrics
  <2>5. \A i \in 1 .. n : Metrics(0)[i] \in Pieces /\ Metrics(0)[i] = MetricPiece(i, 0)
    BY <2>2, <2>3, <2>4
  <2>6. /\ f \in Seq(Pieces) /\ Len(f) = n
        /\ \A i \in 1 .. n : f[i] = MetricPiece(i, 0)
    <3>1. /\ SubSeq(Metrics(0), 1, n) \in Seq(Pieces)
          /\ Len(SubSeq(Metrics(0), 1, n)) = IF 1 <= n THEN n - 1 + 1 ELSE 0
          /\ \A i \in 1 .. n - 1 + 1 : SubSeq(Metrics(0), 1, n)[i] = Metrics(0)[1 + i - 1]
      BY <2>2, <2>5, SubSeqProperties
    <3>2. n - 1 + 1 = n /\ (IF 1 <= n THEN n - 1 + 1 ELSE 0) = n
          /\ \A i \in 1 .. n : 1 + i - 1 = i
      BY <2>2
    <3> QED
      BY <2>1, <2>5, <3>1, <3>2
  <2>7. DOMAIN f = 1 .. n
    BY <2>6
  <2>8. Len(f) <= 3 * Len(MetricLines) /\ \A i \in DOMAIN f : f[i] = MetricPiece(i, 0)
    BY <2>2, <2>6, <2>7
  <2> QED
    BY <2>6, <2>8
<1> QED
  BY <1>1, <1>2, <1>3, <1>4 DEF Tables

\* A collector's file when it has been opened, or could not be.
LEMMA OpenFacts ==
  ASSUME NEW c \in Tables \cup {"cpu_info"}, Open(c)
  PROVE  /\ file' \in Seq(Pieces) /\ stream' \in Streams /\ cuts' = 0
         /\ StandsAt(stream', file', 0) /\ ~stream'.eof
         /\ stream'.open \/ file' = <<>>
         /\ c = "metric" => MetricsSoFar'
<1>1. CASE file' \in FilesOf(c) /\ stream' = Opened(TRUE)
  <2>1. file' \in Seq(Pieces) /\ (c = "metric" => MetricsSoFar')
    BY <1>1, FilesFacts DEF MetricsSoFar
  <2>2. stream' \in Streams /\ StandsAt(stream', file', 0)
    BY <1>1, <2>1, OpenedFacts
  <2>3. stream'.open /\ ~stream'.eof
    BY <1>1 DEF Opened
  <2> QED
    BY <2>1, <2>2, <2>3 DEF Open
<1>2. CASE file' = <<>> /\ stream' = Opened(FALSE)
  <2>1. file' \in Seq(Pieces)
    BY <1>2
  <2>2. stream' \in Streams /\ StandsAt(stream', file', 0)
    BY <1>2, <2>1, OpenedFacts
  <2>3. ~stream'.eof
    BY <1>2 DEF Opened
  <2>4. MetricsSoFar'
    <3>1. Len(MetricLines) \in Nat
      BY AgentAssumption
    <3>2. Len(file') = 0 /\ DOMAIN file' = {}
      BY <1>2
    <3>3. Len(file') <= 3 * Len(MetricLines)
      BY <3>1, <3>2
    <3> QED
      BY <3>2, <3>3 DEF MetricsSoFar
  <2> QED
    BY <1>2, <2>1, <2>2, <2>3, <2>4 DEF Open
<1> QED
  BY <1>1, <1>2 DEF Open

-----------------------------------------------------------------------------
(***************************************************************************)
(* What the lines of a file say of a key.                                  *)
(***************************************************************************)
LEMMA NothingYet ==
  ASSUME NEW f \in Seq(Pieces), NEW k
  PROVE  ValueUpTo(f, 0, k) = Default(k) /\ \A b \in LineStarts(f) : ~(b <= 0)
<1>1. \A b \in LineStarts(f) : ~(b <= 0)
  BY DEF LineStarts
<1>2. LinesUpTo(f, 0, k) = {}
  BY <1>1 DEF LinesUpTo
<1> QED
  BY <1>1, <1>2 DEF ValueUpTo, LastValue

\* The line from p + 1 to q is the only one that begins there.
LEMMA OneLine ==
  ASSUME NEW f \in Seq(Pieces), NEW p \in 0 .. Len(f), NEW q \in p + 1 .. Len(f),
         p + 1 \in LineStarts(f), \A i \in p + 1 .. q - 1 : ~f[i].nl
  PROVE  \A b \in LineStarts(f) : b <= q <=> b <= p \/ b = p + 1
<1> TAKE b \in LineStarts(f)
<1>1. b \in Nat /\ p \in Nat /\ q \in Nat /\ (b = 1 \/ f[b - 1].nl)
  BY DEF LineStarts
<1>2. ASSUME b <= q, ~(b <= p), b # p + 1 PROVE FALSE
  <2>1. b - 1 \in p + 1 .. q - 1 /\ b # 1
    BY <1>1, <1>2
  <2> QED
    BY <1>1, <2>1
<1> QED
  BY <1>1, <1>2

\* The line from p + 1 to q is the last of the lines, and its value is theirs.
LEMMA LastNext ==
  ASSUME NEW f \in Seq(Pieces), NEW p \in 0 .. Len(f), NEW q \in p + 1 .. Len(f),
         \A i \in p + 1 .. q - 1 : ~f[i].nl, f[q].nl,
         NEW M \in SUBSET Nat, p + 1 \in M, \A j \in M : j <= p + 1, NEW k
  PROVE  LastValue(f, M, k) = [i \in 1 .. q - p - 1 |-> f[p + 1 + i].text]
<1>1. p \in Nat /\ q \in Nat /\ Len(f) \in Nat /\ DOMAIN f = 1 .. Len(f)
  OBVIOUS
<1>2. p + 1 \in M /\ \A j \in M : j \in Nat /\ j <= p + 1
  BY <1>1
<1>3. \A i \in M : (\A j \in M : j <= i) => i = p + 1
  BY <1>1, <1>2
<1>4. (CHOOSE i \in M : \A j \in M : j <= i) = p + 1
  BY <1>2, <1>3
<1>5. LastValue(f, M, k) = ValueAt(f, p + 1)
  BY <1>2, <1>4 DEF LastValue
<1>6. First({e \in Ends(f) : e >= p + 1}) = q
  <2> DEFINE S == {e \in Ends(f) : e >= p + 1}
  <2>1. S \in SUBSET Nat /\ q \in S
    BY <1>1, EndsFacts
  <2>2. \A j \in S : q <= j
    <3> TAKE j \in S
    <3>1. j \in 1 .. Len(f) /\ j >= p + 1 /\ f[j].nl
      BY EndsFacts
    <3>2. j \notin p + 1 .. q - 1
      BY <3>1
    <3> QED
      BY <1>1, <3>1, <3>2
  <2> HIDE DEF S
  <2>3. First(S) = q
    BY <2>1, <2>2, FirstIsOnly
  <2> QED
    BY <2>3 DEF S
<1>7. q - (p + 1) = q - p - 1
  BY <1>1
<1> QED
  BY <1>5, <1>6, <1>7 DEF ValueAt

LEMMA ValueNext ==
  ASSUME NEW f \in Seq(Pieces), NEW p \in 0 .. Len(f), NEW q \in p + 1 .. Len(f),
         p + 1 \in LineStarts(f), \A i \in p + 1 .. q - 1 : ~f[i].nl, f[q].nl, NEW k
  PROVE  ValueUpTo(f, q, k) =
           IF f[p + 1].text = KeyText(k) THEN [i \in 1 .. q - p - 1 |-> f[p + 1 + i].text]
           ELSE ValueUpTo(f, p, k)
<1> DEFINE M == LinesUpTo(f, q, k)
<1>1. \A b \in LineStarts(f) : b <= q <=> b <= p \/ b = p + 1
  BY OneLine
<1>2. CASE f[p + 1].text # KeyText(k)
  <2>1. M = LinesUpTo(f, p, k)
    BY <1>1, <1>2 DEF LinesUpTo
  <2> QED
    BY <1>2, <2>1 DEF ValueUpTo
<1>3. CASE f[p + 1].text = KeyText(k)
  <2>1. \A b : b \in M <=> b \in LineStarts(f) /\ f[b].text = KeyText(k) /\ (b <= p \/ b = p + 1)
    BY <1>1 DEF LinesUpTo
  <2>2. \A b \in LineStarts(f) : b \in Nat
    BY DEF LineStarts
  <2> HIDE DEF M
  <2>3. M \in SUBSET Nat /\ p + 1 \in M /\ \A b \in M : b <= p + 1
    BY <1>3, <2>1, <2>2
  <2>4. LastValue(f, M, k) = [i \in 1 .. q - p - 1 |-> f[p + 1 + i].text]
    BY <2>3, LastNext
  <2> QED
    BY <1>3, <2>4 DEF ValueUpTo, M
<1> QED
  BY <1>2, <1>3

\* What is written behind the place p changes nothing before it.
LEMMA LinesKept ==
  ASSUME NEW f \in Seq(Pieces), NEW x \in Pieces, NEW p \in 0 .. Len(f)
  PROVE  /\ Append(f, x) \in Seq(Pieces) /\ Len(Append(f, x)) = Len(f) + 1
         /\ \A i \in 1 .. Len(f) : Append(f, x)[i] = f[i]
         /\ Append(f, x)[Len(f) + 1] = x
         /\ \A b : b \in LineStarts(Append(f, x)) /\ b <= p <=> b \in LineStarts(f) /\ b <= p
<1> DEFINE g == Append(f, x)
<1>1. /\ g \in Seq(Pieces) /\ Len(g) = Len(f) + 1 /\ Len(f) \in Nat
      /\ \A i \in 1 .. Len(f) : g[i] = f[i]
      /\ g[Len(f) + 1] = x
  BY AppendProperties
<1> HIDE DEF g
<1>2. DOMAIN g = 1 .. Len(f) + 1 /\ DOMAIN f = 1 .. Len(f) /\ p \in Nat /\ p <= Len(f)
  BY <1>1
<1>3. ASSUME NEW b, b \in LineStarts(g), b <= p PROVE b \in LineStarts(f)
  <2>1. b \in 1 .. Len(f) /\ (b = 1 \/ g[b - 1].nl)
    BY <1>1, <1>2, <1>3 DEF LineStarts
  <2>2. b = 1 \/ (b - 1 \in 1 .. Len(f) /\ g[b - 1] = f[b - 1])
    BY <1>1, <2>1
  <2> QED
    BY <1>2, <2>1, <2>2 DEF LineStarts
<1>4. ASSUME NEW b, b \in LineStarts(f), b <= p PROVE b \in LineStarts(g)
  <2>1. b \in 1 .. Len(f) /\ b \in 1 .. Len(f) + 1 /\ (b = 1 \/ f[b - 1].nl)
    BY <1>1, <1>2, <1>4 DEF LineStarts
  <2>2. b = 1 \/ (b - 1 \in 1 .. Len(f) /\ g[b - 1] = f[b - 1])
    BY <1>1, <2>1
  <2> QED
    BY <1>2, <2>1, <2>2 DEF LineStarts
<1> QED
  BY <1>1, <1>3, <1>4 DEF g

LEMMA ValueKept ==
  ASSUME NEW f \in Seq(Pieces), NEW x \in Pieces, NEW p \in 0 .. Len(f),
         p = 0 \/ f[p].nl, NEW k
  PROVE  ValueUpTo(Append(f, x), p, k) = ValueUpTo(f, p, k)
<1> DEFINE g == Append(f, x)
<1>1. /\ g \in Seq(Pieces) /\ Len(g) = Len(f) + 1 /\ Len(f) \in Nat
      /\ \A i \in 1 .. Len(f) : g[i] = f[i]
      /\ \A b : b \in LineStarts(g) /\ b <= p <=> b \in LineStarts(f) /\ b <= p
  BY LinesKept
<1> HIDE DEF g
<1>2. \A b \in LineStarts(f) : b \in 1 .. Len(f)
  BY DEF LineStarts
<1>3. LinesUpTo(g, p, k) = LinesUpTo(f, p, k)
  <2>1. \A b : b \in LinesUpTo(g, p, k) <=> b \in LinesUpTo(f, p, k)
    BY <1>1, <1>2 DEF LinesUpTo
  <2> QED
    BY <2>1
<1>4. ASSUME NEW i \in LinesUpTo(f, p, k) PROVE ValueAt(g, i) = ValueAt(f, i)
  <2> DEFINE S == {e \in Ends(f) : e >= i}
             T == {e \in Ends(g) : e >= i}
  <2>1. i \in 1 .. Len(f) /\ i <= p /\ p \in 1 .. Len(f) /\ p \in Nat /\ f[p].nl
    BY <1>2 DEF LinesUpTo
  <2>2. S \in SUBSET Nat /\ T \in SUBSET Nat /\ S \subseteq 1 .. Len(f) /\ p \in S
    BY <1>1, <2>1, EndsFacts
  <2>3. \A e \in S : e \in T
    <3> TAKE e \in S
    <3>1. e \in 1 .. Len(f) /\ f[e].nl /\ e >= i /\ e \in 1 .. Len(g)
      BY <1>1, EndsFacts
    <3>2. g[e].nl
      BY <1>1, <3>1
    <3> QED
      BY <1>1, <3>1, <3>2, EndsFacts
  <2>4. \A e \in T : e \in S \/ e > Len(f)
    <3> TAKE e \in T
    <3>1. e \in 1 .. Len(g) /\ g[e].nl /\ e >= i /\ e \in Nat
      BY <1>1, EndsFacts
    <3>2. CASE e \in 1 .. Len(f)
      BY <1>1, <3>1, <3>2, EndsFacts
    <3>3. CASE e \notin 1 .. Len(f)
      BY <1>1, <3>1, <3>3
    <3> QED
      BY <3>2, <3>3
  <2> HIDE DEF S, T
  <2>5. First(S) \in S /\ \A j \in S : First(S) <= j
    BY <2>2, FirstIs
  <2>6. PICK m \in 1 .. Len(f) : m = First(S)
    BY <2>2, <2>5
  <2>7. m \in T /\ \A j \in T : m <= j
    BY <1>1, <2>2, <2>3, <2>4, <2>5, <2>6
  <2>8. First(T) = m
    BY <2>2, <2>7, FirstIsOnly
  <2>9. \A n \in 1 .. m - i : g[i + n].text = f[i + n].text
    <3> TAKE n \in 1 .. m - i
    <3>1. i + n \in 1 .. Len(f)
      BY <2>1, <2>6
    <3> QED
      BY <1>1, <3>1
  <2>10. ValueAt(g, i) = [n \in 1 .. m - i |-> g[i + n].text]
    BY <2>8 DEF ValueAt, T
  <2>11. ValueAt(f, i) = [n \in 1 .. m - i |-> f[i + n].text]
    BY <2>6 DEF ValueAt, S
  <2> QED
    BY <2>9, <2>10, <2>11
<1>5. CASE LinesUpTo(f, p, k) = {}
  BY <1>3, <1>5 DEF ValueUpTo, LastValue, g
<1>6. CASE LinesUpTo(f, p, k) # {}
  <2> DEFINE last == CHOOSE i \in LinesUpTo(f, p, k) : \A j \in LinesUpTo(f, p, k) : j <= i
  <2>1. ValueUpTo(g, p, k) = ValueAt(g, last) /\ ValueUpTo(f, p, k) = ValueAt(f, last)
    BY <1>3, <1>6 DEF ValueUpTo, LastValue
  <2>2. last \in LinesUpTo(f, p, k)
    <3>1. LinesUpTo(f, p, k) \in SUBSET Nat /\ \A i \in LinesUpTo(f, p, k) : i <= p
      BY <1>2 DEF LinesUpTo
    <3>2. \E i \in LinesUpTo(f, p, k) : \A j \in LinesUpTo(f, p, k) : j <= i
      <4>1. p \in Nat
        BY <1>1
      <4> QED
        BY <1>6, <3>1, <4>1, LastIs
    <3> QED
      BY <3>2
  <2> QED
    BY <1>4, <2>1, <2>2 DEF g
<1> QED
  BY <1>5, <1>6

LEMMA StandsKept ==
  ASSUME NEW s \in Streams, NEW f \in Seq(Pieces), NEW x \in Pieces, NEW p \in 0 .. Len(f),
         StandsAt(s, f, p)
  PROVE  StandsAt(s, Append(f, x), p)
<1>1. PICK o \in Nat, L \in Nat : o = s.off /\ L = Len(f) /\ p \in 0 .. o /\ o <= L
  BY DEF Streams, StandsAt
<1>2. /\ Append(f, x) \in Seq(Pieces) /\ Len(Append(f, x)) = L + 1
      /\ \A i \in 1 .. L : Append(f, x)[i] = f[i]
  BY <1>1, LinesKept
<1> DEFINE g == Append(f, x)
<1> HIDE DEF g
<1>3. SubSeq(g, p + 1, o) = SubSeq(f, p + 1, o)
  <2>1. \A i \in p + 1 .. o : f[i] \in Pieces /\ g[i] \in Pieces
    <3>1. \A i \in p + 1 .. o : i \in 1 .. L /\ f[i] \in Pieces
      BY <1>1
    <3> QED
      BY <1>2, <3>1 DEF g
  <2>2. p + 1 \in Int /\ o \in Int
    BY <1>1
  <2>3. /\ SubSeq(f, p + 1, o) \in Seq(Pieces)
        /\ Len(SubSeq(f, p + 1, o)) = IF p + 1 <= o THEN o - (p + 1) + 1 ELSE 0
        /\ \A i \in 1 .. o - (p + 1) + 1 : SubSeq(f, p + 1, o)[i] = f[p + 1 + i - 1]
    BY <2>1, <2>2, SubSeqProperties
  <2>4. /\ SubSeq(g, p + 1, o) \in Seq(Pieces)
        /\ Len(SubSeq(g, p + 1, o)) = IF p + 1 <= o THEN o - (p + 1) + 1 ELSE 0
        /\ \A i \in 1 .. o - (p + 1) + 1 : SubSeq(g, p + 1, o)[i] = g[p + 1 + i - 1]
    BY <2>1, <2>2, SubSeqProperties
  <2> DEFINE u == SubSeq(g, p + 1, o)  v == SubSeq(f, p + 1, o)
  <2>5. Len(u) = Len(v) /\ Len(u) = o - p
    BY <1>1, <2>3, <2>4
  <2>6. ASSUME NEW i \in 1 .. o - p PROVE u[i] = v[i]
    <3>1. i \in 1 .. o - (p + 1) + 1 /\ p + 1 + i - 1 \in 1 .. L
      BY <1>1
    <3> QED
      BY <1>2, <2>3, <2>4, <3>1 DEF g
  <2>7. u \in Seq(Pieces) /\ v \in Seq(Pieces)
    BY <2>3, <2>4
  <2> HIDE DEF u, v
  <2>8. u = v
    BY <2>5, <2>6, <2>7, SeqEqual
  <2> QED
    BY <2>8 DEF u, v
<1>4. p = 0 \/ p \in 1 .. L
  BY <1>1
<1>5. ~s.eof => p = 0 \/ g[p].nl
  BY <1>2, <1>4 DEF StandsAt, g
<1>6. s.off \in 0 .. Len(g) /\ p \in 0 .. s.off
  BY <1>1, <1>2 DEF g
<1> QED
  BY <1>1, <1>3, <1>5, <1>6 DEF StandsAt, g

\* When a collector finds no further line, it has read them all.
LEMMA ReadingOver ==
  ASSUME NEW s \in Streams, NEW f \in Seq(Pieces), NEW a \in Seq(Seq(Text)),
         NEW p \in 0 .. Len(f), StandsAt(s, f, p), ~s.eof, s.open \/ f = <<>>,
         \A b \in LineStarts(f) : b <= p => f[b].text # NoText,
         ~ReadLine(s, f, a).ok, NEW k
  PROVE  ValueOf(f, k) = ValueUpTo(f, p, k)
<1>1. p \in Nat /\ Len(f) \in Nat /\ DOMAIN f = 1 .. Len(f) /\ (p = 0 \/ f[p].nl)
  BY DEF StandsAt
<1>2. ASSUME NEW i \in LineStarts(f), i <= p
      PROVE  /\ \E j \in Ends(f) : j >= i
             /\ \A b \in LineStarts(f) : f[b].text = NoText => i < b
  <2>1. i \in Nat /\ i >= 1
    BY DEF LineStarts
  <2>2. p \in Ends(f) /\ p >= i
    BY <1>1, <1>2, <2>1, EndsFacts
  <2>3. \A b \in LineStarts(f) : b \in Nat
    BY DEF LineStarts
  <2> QED
    BY <1>1, <1>2, <2>1, <2>2, <2>3
<1>3. ASSUME NEW i \in LineStarts(f), ~(i <= p),
             \E j \in Ends(f) : j >= i,
             \A b \in LineStarts(f) : f[b].text = NoText => i < b
      PROVE  FALSE
  <2>1. i \in 1 .. Len(f) /\ i > p /\ Len(f) > 0
    BY <1>1, <1>3 DEF LineStarts
  <2>2. s.open
    BY <2>1
  <2>3. PICK q \in p .. Len(f) : NoLineTaken(ReadLine(s, f, a).stream, f, p, q)
    BY <2>2, NoLineStands
  <2>4. CASE \A j \in p + 1 .. Len(f) : ~f[j].nl
    <3>1. PICK j \in Ends(f) : j >= i
      BY <1>3
    <3>2. j \in 1 .. Len(f) /\ f[j].nl
      BY EndsFacts
    <3>3. j \in p + 1 .. Len(f)
      BY <1>1, <2>1, <3>1, <3>2
    <3> QED
      BY <2>4, <3>2, <3>3
  <2>5. CASE p + 1 \in LineStarts(f) /\ f[p + 1].text = NoText
    <3>1. i < p + 1
      BY <1>3, <2>5
    <3> QED
      BY <1>1, <2>1, <3>1
  <2> QED
    BY <2>3, <2>4, <2>5, Zenon DEF NoLineTaken
<1>4. LinesOf(f, k) = LinesUpTo(f, p, k)
  <2>1. \A i : i \in LinesOf(f, k) <=> i \in LinesUpTo(f, p, k)
    BY <1>2, <1>3 DEF LinesOf, LinesUpTo, Whole
  <2> QED
    BY <2>1
<1> QED
  BY <1>4 DEF ValueOf, ValueUpTo

-----------------------------------------------------------------------------
(***************************************************************************)
(* Parts of the steps.                                                     *)
(***************************************************************************)
LEMMA EntryOf ==
  /\ \A c : \A e \in EntriesOf(c) : /\ e.of = c /\ e.name \in Names
                                    /\ e.fields \in [FieldsOf(c) -> Seq(Text)]
                                    /\ DOMAIN e.fields = FieldsOf(c)
  /\ \A c \in Reporting : EntriesOf(c) \subseteq Reports
  /\ \A r \in Reports : r.of \in Reporting /\ r \in EntriesOf(r.of)
<1>1. \A c : \A e \in EntriesOf(c) : /\ e.of = c /\ e.name \in Names
                                     /\ e.fields \in [FieldsOf(c) -> Seq(Text)]
                                     /\ DOMAIN e.fields = FieldsOf(c)
  BY DEF EntriesOf, EntriesWith
<1>2. \A c \in Reporting : EntriesOf(c) \subseteq Reports
  BY DEF Reports
<1>3. ASSUME NEW r \in Reports PROVE r.of \in Reporting /\ r \in EntriesOf(r.of)
  <2>1. PICK c \in Reporting : r \in EntriesOf(c)
    BY DEF Reports
  <2> QED
    BY <1>1, <2>1
<1> QED
  BY <1>1, <1>2, <1>3

\* An entry is added to the message.
LEMMA AppendReport ==
  ASSUME TypeInv, NEW c \in Reporting, NEW e \in EntriesOf(c),
         monitorInfo' = Append(monitorInfo, e)
  PROVE  /\ monitorInfo' \in Seq(Reports)
         /\ Len(monitorInfo') = Len(monitorInfo) + 1 /\ Len(monitorInfo) \in Nat
         /\ DOMAIN monitorInfo = 1 .. Len(monitorInfo)
         /\ DOMAIN monitorInfo' = 1 .. Len(monitorInfo) + 1
         /\ \A i \in DOMAIN monitorInfo : monitorInfo'[i] = monitorInfo[i]
         /\ monitorInfo'[Len(monitorInfo) + 1] = e
<1>1. e \in Reports /\ monitorInfo \in Seq(Reports)
  BY EntryOf DEF TypeInv
<1> HIDE DEF Reports
<1> QED
  BY <1>1, AppendProperties

LEMMA InHandIs ==
  /\ InHand("cpu_block") = "cpu_info"
  /\ \A c \in Tables : InHand(c) = c
  /\ InHand("card") = "netcard" /\ InHand("mtu") = "netcard"
  /\ \A c \in {"asleep", "cpu_info", "softirq", "load", "opendir", "netcard", "send"} :
       InHand(c) = "none"
BY DEF InHand, Tables

\* The next collector begins, at the beginning of its file if it has one here.
LEMMA BeginFacts ==
  ASSUME TypeInv, NEW c \in {"softirq", "load", "opendir"} \cup Tables, Begin(c)
  PROVE  /\ pc' = c /\ stream' \in Streams /\ file' \in Seq(Pieces) /\ cuts' \in 0 .. MaxCuts
         /\ cur' \in EntriesOf(InHand(c))
         /\ FileInv'
<1>1. CASE c \in Tables
  <2>1. Open(c) /\ cur' = NewEntry(c) /\ pc' = c
    BY <1>1 DEF Begin
  <2>2. /\ file' \in Seq(Pieces) /\ stream' \in Streams /\ cuts' = 0
        /\ StandsAt(stream', file', 0) /\ ~stream'.eof
        /\ stream'.open \/ file' = <<>>
        /\ c = "metric" => MetricsSoFar'
    BY <1>1, <2>1, OpenFacts
  <2>3. cur' \in EntriesOf(InHand(c)) /\ \A k \in FieldsOf(c) : cur'.fields[k] = Default(k)
    BY <1>1, <2>1, NewEntryFacts, InHandIs
  <2>4. DOMAIN cur'.fields = FieldsOf(c)
    BY <1>1, <2>3, InHandIs, EntryOf
  <2>5. /\ \A k : ValueUpTo(file', 0, k) = Default(k)
        /\ \A b \in LineStarts(file') : ~(b <= 0)
    BY <2>2, NothingYet
  <2>6. CopiedTo(0)'
    BY <2>2, <2>3, <2>4, <2>5 DEF CopiedTo
  <2>7. 0 \in 0 .. Len(file') /\ cuts' \in 0 .. MaxCuts
    BY <2>2, AgentAssumption
  <2>8. FileInv'
    BY <2>1, <2>2, <2>6, <2>7 DEF FileInv
  <2> QED
    BY <2>1, <2>2, <2>3, <2>7, <2>8
<1>2. CASE c \notin Tables
  <2>1. /\ pc' = c /\ UNCHANGED fileVars /\ cur' = NoEntry
        /\ c \in {"softirq", "load", "opendir"}
    BY <1>2 DEF Begin
  <2>2. cur' \in EntriesOf(InHand(c))
    BY <2>1, NewEntryFacts, InHandIs
  <2>3. FileInv'
    BY <2>1 DEF FileInv, Reading, Tables
  <2> QED
    BY <2>1, <2>2, <2>3 DEF TypeInv, fileVars
<1> QED
  BY <1>1, <1>2

\* The other collectors leave the interfaces alone.
LEMMA CardsAside ==
  ASSUME TypeInv, CardInv, pc \notin CardPlaces, pc' \notin CardPlaces,
         UNCHANGED <<todo, listed>>,
         \/ monitorInfo' = monitorInfo
         \/ \E c \in Reporting \ {"netcard"} : \E e \in EntriesOf(c) :
              monitorInfo' = Append(monitorInfo, e)
  PROVE  CardInv'
<1>1. CardEntries = {} /\ listed = {} /\ todo = {}
  BY DEF CardInv, TypeInv
<1>2. CardEntries' = {}
  <2>1. CASE monitorInfo' = monitorInfo
    BY <1>1, <2>1 DEF CardEntries
  <2>2. ASSUME NEW c \in Reporting \ {"netcard"}, NEW e \in EntriesOf(c),
               monitorInfo' = Append(monitorInfo, e)
        PROVE  CardEntries' = {}
    <3>1. e.of # "netcard"
      BY EntryOf
    <3>2. /\ DOMAIN monitorInfo = 1 .. Len(monitorInfo) /\ Len(monitorInfo) \in Nat
          /\ DOMAIN monitorInfo' = 1 .. Len(monitorInfo) + 1
          /\ \A i \in DOMAIN monitorInfo : monitorInfo'[i] = monitorInfo[i]
          /\ monitorInfo'[Len(monitorInfo) + 1] = e
      BY <2>2, AppendReport
    <3>3. \A i \in DOMAIN monitorInfo : monitorInfo[i].of # "netcard"
      BY <1>1 DEF CardEntries
    <3>4. \A i \in DOMAIN monitorInfo' : monitorInfo'[i].of # "netcard"
      <4>1. \A i \in 1 .. Len(monitorInfo) + 1 :
              i \in 1 .. Len(monitorInfo) \/ i = Len(monitorInfo) + 1
        BY <3>2
      <4> QED
        BY <3>1, <3>2, <3>3, <4>1
    <3> QED
      BY <3>4 DEF CardEntries
  <2> QED
    BY <2>1, <2>2
<1>3. listed' = {} /\ todo' = {}
  BY <1>1
<1>4. Reported' = {} /\ NameInHand' = {}
  BY <1>2 DEF Reported, NameInHand, CardPlaces
<1> QED
  BY <1>2, <1>3, <1>4 DEF CardInv, CardPlaces

\* Not much of the type is touched by a step of a collector.
LEMMA TypeKept ==
  ASSUME TypeInv, proc' \in {"up", "dead"}, UNCHANGED <<user, address>>,
         UNCHANGED cardVars, pc' \in Places,
         stream' \in Streams, file' \in Seq(Pieces), cuts' \in 0 .. MaxCuts,
         ArgsInv', cur' \in EntriesOf(InHand(pc')), monitorInfo' \in Seq(Reports)
  PROVE  TypeInv'
BY DEF TypeInv, cardVars

-----------------------------------------------------------------------------
(***************************************************************************)
(* The process and its rounds.                                             *)
(***************************************************************************)
LEMMA InitKeeps ==
  ASSUME Init
  PROVE  Inv
<1>1. stream \in Streams /\ file \in Seq(Pieces)
  <2>1. file = <<>> /\ stream = Opened(FALSE)
    BY DEF Init
  <2>2. file \in Seq(Pieces)
    BY <2>1
  <2> QED
    BY <2>1, <2>2, OpenedFacts
<1>2. cur \in EntriesOf(InHand(pc))
  BY NewEntryFacts, InHandIs DEF Init
<1>3. TypeInv
  <2>1. args = <<>> /\ monitorInfo = <<>> /\ cuts = 0 /\ pc = "asleep"
    BY DEF Init
  <2>2. ArgsInv /\ monitorInfo \in Seq(Reports) /\ cuts \in 0 .. MaxCuts /\ pc \in Places
    BY <2>1, AgentAssumption DEF ArgsInv, Places
  <2>3. /\ proc = "off" /\ user \in BOOLEAN /\ address = DefaultAddress
        /\ cards = {} /\ todo = {} /\ listed = {} /\ steady = {}
    BY DEF Init
  <2> QED
    BY <1>1, <1>2, <2>2, <2>3 DEF TypeInv
<1>4. FileInv /\ EndsOnlyFor
  BY DEF Init, FileInv, Reading, Tables, EndsOnlyFor
<1>5. CardEntries = {}
  BY DEF Init, CardEntries
<1>6. CardInv
  BY <1>5 DEF Init, CardInv, CardPlaces, Reported, NameInHand
<1> QED
  BY <1>3, <1>4, <1>6 DEF Inv

LEMMA StartKeeps ==
  ASSUME Inv, Start
  PROVE  Inv'
<1>1. stream' \in Streams /\ file' \in Seq(Pieces)
  <2>1. file' = <<>> /\ stream' = Opened(FALSE)
    BY DEF Start
  <2>2. file' \in Seq(Pieces)
    BY <2>1
  <2> QED
    BY <2>1, <2>2, OpenedFacts
<1>2. cur' \in EntriesOf(InHand(pc'))
  BY NewEntryFacts, InHandIs DEF Start
<1>3. TypeInv'
  <2>1. args' = <<>> /\ monitorInfo' = <<>> /\ cuts' = 0 /\ pc' = "asleep"
    BY DEF Start
  <2>2. ArgsInv' /\ monitorInfo' \in Seq(Reports) /\ cuts' \in 0 .. MaxCuts /\ pc' \in Places
    BY <2>1, AgentAssumption DEF ArgsInv, Places
  <2>3. /\ proc' = "up" /\ user' \in BOOLEAN
        /\ address' \in {Address(f) : f \in AddressFiles} \cup {DefaultAddress}
        /\ cards' = {} /\ todo' = {} /\ listed' = {} /\ steady' = {}
    BY DEF Start
  <2> QED
    BY <1>1, <1>2, <2>2, <2>3 DEF TypeInv
<1>4. FileInv' /\ EndsOnlyFor'
  BY DEF Start, FileInv, Reading, Tables, EndsOnlyFor
<1>5. CardEntries' = {}
  BY DEF Start, CardEntries
<1>6. CardInv'
  BY <1>5 DEF Start, CardInv, CardPlaces, Reported, NameInHand
<1> QED
  BY <1>3, <1>4, <1>6 DEF Inv

LEMMA NoNameKeeps ==
  ASSUME Inv, NoName
  PROVE  Inv'
<1>1. /\ pc = "asleep" /\ ~user /\ proc' = "dead"
      /\ UNCHANGED <<user, address, pc, args, cur, monitorInfo, cardVars, fileVars>>
  BY DEF NoName, At, Die
<1>2. TypeInv'
  BY <1>1 DEF Inv, TypeInv, ArgsInv, cardVars, fileVars
<1>3. FileInv' /\ EndsOnlyFor'
  BY <1>1 DEF FileInv, Reading, Tables, EndsOnlyFor
<1>4. CardInv'
  BY <1>1, CardsAside DEF Inv, CardPlaces, cardVars
<1> QED
  BY <1>2, <1>3, <1>4 DEF Inv

LEMMA BeginRoundKeeps ==
  ASSUME Inv, BeginRound
  PROVE  Inv'
<1>1. /\ proc = "up" /\ pc = "asleep" /\ pc' = "cpu_info" /\ Open("cpu_info")
      /\ UNCHANGED <<processVars, args, cur, monitorInfo, cardVars>>
  BY DEF BeginRound, At
<1>2. /\ file' \in Seq(Pieces) /\ stream' \in Streams /\ cuts' = 0
      /\ StandsAt(stream', file', 0)
  BY <1>1, OpenFacts
<1>3. cur' \in EntriesOf(InHand(pc'))
  BY <1>1, InHandIs DEF Inv, TypeInv
<1>4. args' = <<>> /\ args' \in Seq(Seq(Text))
  BY <1>1 DEF Inv, TypeInv, ArgsInv
<1>5. TypeInv'
  <2>1. ArgsInv' /\ monitorInfo' \in Seq(Reports) /\ cuts' \in 0 .. MaxCuts /\ pc' \in Places
    BY <1>1, <1>2, <1>4, AgentAssumption DEF Inv, TypeInv, ArgsInv, Places
  <2> QED
    BY <1>1, <1>2, <1>3, <2>1, TypeKept DEF Inv, processVars
<1>6. FileInv'
  <2>1. 0 \in 0 .. Len(file')
    BY <1>2
  <2> QED
    BY <1>1, <1>2, <2>1 DEF FileInv, Tables
<1>7. CardInv'
  BY <1>1, CardsAside DEF Inv, CardPlaces, cardVars
<1>8. EndsOnlyFor'
  BY <1>1 DEF EndsOnlyFor, processVars
<1> QED
  BY <1>5, <1>6, <1>7, <1>8 DEF Inv

-----------------------------------------------------------------------------
(***************************************************************************)
(* CpuInfoMonitor.                                                         *)
(***************************************************************************)

\* Wherever the reading of /proc/cpuinfo is, the next line begins behind the last.
LEMMA CpuRead ==
  ASSUME Inv, pc \in {"cpu_info", "cpu_block"}
  PROVE  LET r == ReadLine(stream, file, args)
         IN  /\ stream \in Streams /\ file \in Seq(Pieces) /\ args \in Seq(Seq(Text))
             /\ cuts = 0
             /\ r.stream \in Streams /\ r.args \in Seq(Seq(Text))
             /\ \E q \in 0 .. Len(file) : StandsAt(r.stream, file, q)
<1> DEFINE r == ReadLine(stream, file, args)
<1>1. stream \in Streams /\ file \in Seq(Pieces) /\ args \in Seq(Seq(Text))
  BY DEF Inv, TypeInv, ArgsInv
<1>2. cuts = 0
  BY DEF Inv, FileInv, Reading
<1>3. PICK p \in 0 .. Len(file) : StandsAt(stream, file, p)
  BY <1>2 DEF Inv, FileInv, Reading
<1>4. \E q \in 0 .. Len(file) : StandsAt(r.stream, file, q)
  BY <1>1, <1>3, ReadLineMoves
<1>5. r.stream \in Streams /\ r.args \in Seq(Seq(Text))
  BY <1>1, ReadLineFacts
<1> QED
  BY <1>1, <1>2, <1>4, <1>5

LEMMA CpuLineKeeps ==
  ASSUME Inv, CpuLine
  PROVE  Inv'
<1> DEFINE r == ReadLine(stream, file, args)
           new == Is(r.args, "processor")
<1>1. /\ proc = "up" /\ pc = "cpu_info" /\ args = <<>>
      /\ r.ok \/ ~IsEnd(r.stream)
      /\ stream' = r.stream /\ UNCHANGED <<file, cuts>>
      /\ IF new /\ ~HasValue(r.args) THEN Die
         ELSE /\ IF new THEN /\ pc' = "cpu_block" /\ args' = r.args
                             /\ cur' = CpuInfo(r.args[2][1].name)
                 ELSE args' = <<>> /\ UNCHANGED <<pc, cur>>
              /\ UNCHANGED <<processVars, monitorInfo, cardVars>>
  BY DEF CpuLine, At, ReadLineBySplitchar, Inv, TypeInv, ArgsInv
<1>2. /\ stream \in Streams /\ file \in Seq(Pieces) /\ args \in Seq(Seq(Text))
      /\ cuts = 0
      /\ r.stream \in Streams /\ r.args \in Seq(Seq(Text))
      /\ \E q \in 0 .. Len(file) : StandsAt(r.stream, file, q)
  BY <1>1, CpuRead
<1>3. new => r.ok
  <2>1. ~r.ok => r.args = <<>>
    BY <1>1, <1>2, ReadLineFacts
  <2> QED
    BY <2>1 DEF Is
<1>4. new /\ HasValue(r.args) => r.args[2] \in Seq(Text) /\ r.args[2] # <<>>
  <2> SUFFICES ASSUME new, HasValue(r.args)
               PROVE  r.args[2] \in Seq(Text) /\ r.args[2] # <<>>
    OBVIOUS
  <2>1. PICK p \in 0 .. Len(file) : StandsAt(stream, file, p)
    BY <1>1, <1>2 DEF Inv, FileInv, Reading
  <2> QED
    BY <1>1, <1>2, <1>3, <2>1, LineWords
<1>5. new /\ ~HasValue(r.args) => ~HasValues(file, {"processor"})
  <2> SUFFICES ASSUME new, ~HasValue(r.args) PROVE ~HasValues(file, {"processor"})
    OBVIOUS
  <2>1. PICK p \in 0 .. Len(file) : StandsAt(stream, file, p)
    BY <1>1, <1>2 DEF Inv, FileInv, Reading
  <2> QED
    BY <1>1, <1>2, <1>3, <2>1, KeyWithoutValue
<1> HIDE DEF r
<1>6. \/ /\ new /\ ~HasValue(r.args) /\ proc' = "dead"
         /\ UNCHANGED <<user, address, pc, args, cur, monitorInfo, cardVars>>
      \/ /\ proc' = proc /\ UNCHANGED <<user, address, monitorInfo, cardVars>>
         /\ \/ /\ new /\ HasValue(r.args) /\ pc' = "cpu_block" /\ args' = r.args
               /\ cur' = CpuInfo(r.args[2][1].name)
            \/ ~new /\ args' = <<>> /\ UNCHANGED <<pc, cur>>
  BY <1>1 DEF Die, processVars
<1>7. pc' \in {"cpu_info", "cpu_block"}
  BY <1>1, <1>6
<1>8. ArgsInv'
  <2>1. CASE args' = r.args /\ new /\ pc' = "cpu_block"
    BY <1>2, <2>1 DEF ArgsInv
  <2>2. CASE args' = <<>>
    <3>1. args' \in Seq(Seq(Text))
      BY <2>2
    <3> QED
      BY <2>2, <3>1 DEF ArgsInv
  <2> QED
    BY <1>1, <1>6, <2>1, <2>2
<1>9. cur' \in EntriesOf(InHand(pc'))
  <2>1. CASE new /\ HasValue(r.args) /\ pc' = "cpu_block" /\ cur' = CpuInfo(r.args[2][1].name)
    <3>1. r.args[2][1] \in Text
      BY <1>4, <2>1
    <3>2. r.args[2][1].name \in Names
      BY <3>1, TextFacts, Zenon
    <3> QED
      BY <2>1, <3>2, NewEntryFacts, InHandIs
  <2>2. CASE UNCHANGED <<pc, cur>>
    BY <2>2 DEF Inv, TypeInv
  <2> QED
    BY <1>6, <2>1, <2>2
<1>10. TypeInv'
  <2>1. monitorInfo' \in Seq(Reports) /\ cuts' \in 0 .. MaxCuts /\ file' \in Seq(Pieces)
        /\ stream' \in Streams
    BY <1>1, <1>2, <1>6 DEF Inv, TypeInv
  <2>2. pc' \in Places
    BY <1>7 DEF Places
  <2> QED
    BY <1>1, <1>6, <1>8, <1>9, <2>1, <2>2, TypeKept DEF Inv
<1>11. FileInv'
  BY <1>1, <1>2, <1>7 DEF FileInv, Tables
<1>12. CardInv'
  <2>1. pc \notin CardPlaces /\ pc' \notin CardPlaces
    BY <1>1, <1>7 DEF CardPlaces
  <2> QED
    BY <1>6, <2>1, CardsAside DEF Inv, cardVars
<1>13. EndsOnlyFor'
  <2>1. CASE proc' = "dead"
    <3>1. pc' = "cpu_info" /\ file' = file /\ ~HasValues(file, {"processor"})
      BY <1>1, <1>5, <1>6, <2>1
    <3> QED
      BY <3>1 DEF EndsOnlyFor, LookedFor
  <2>2. CASE proc' # "dead"
    BY <2>2 DEF EndsOnlyFor
  <2> QED
    BY <2>1, <2>2
<1> QED
  BY <1>10, <1>11, <1>12, <1>13 DEF Inv

LEMMA CpuEndKeeps ==
  ASSUME Inv, CpuEnd
  PROVE  Inv'
<1>1. /\ proc = "up" /\ pc = "cpu_info" /\ Begin("softirq")
      /\ UNCHANGED <<processVars, args, monitorInfo, cardVars>>
  BY DEF CpuEnd, At, After
<1>2. /\ pc' = "softirq" /\ stream' \in Streams /\ file' \in Seq(Pieces) /\ cuts' \in 0 .. MaxCuts
      /\ cur' \in EntriesOf(InHand("softirq"))
      /\ FileInv'
  BY <1>1, BeginFacts DEF Inv
<1>3. ArgsInv' /\ monitorInfo' \in Seq(Reports)
  BY <1>1 DEF Inv, TypeInv, ArgsInv
<1>4. TypeInv'
  BY <1>1, <1>2, <1>3, TypeKept DEF Inv, processVars, Places
<1>5. CardInv'
  BY <1>1, <1>2, CardsAside DEF Inv, CardPlaces, cardVars
<1>6. EndsOnlyFor'
  BY <1>1 DEF EndsOnlyFor, processVars
<1> QED
  BY <1>2, <1>4, <1>5, <1>6 DEF Inv

LEMMA BlockLineKeeps ==
  ASSUME Inv, BlockLine
  PROVE  Inv'
<1> DEFINE r == ReadLine(stream, file, args)
<1>1. /\ proc = "up" /\ pc = "cpu_block" /\ r.ok
      /\ stream' = r.stream /\ UNCHANGED <<file, cuts>>
      /\ IF Throws(cur, r.args) THEN Die
         ELSE /\ cur' = Assigned(cur, r.args) /\ args' = <<>>
              /\ UNCHANGED <<processVars, pc, monitorInfo, cardVars>>
  BY DEF BlockLine, BlockEnds, At, ReadLineBySplitchar
<1>2. /\ stream \in Streams /\ file \in Seq(Pieces) /\ args \in Seq(Seq(Text))
      /\ cuts = 0
      /\ r.stream \in Streams /\ r.args \in Seq(Seq(Text))
      /\ \E q \in 0 .. Len(file) : StandsAt(r.stream, file, q)
  BY <1>1, CpuRead
<1>3. cur \in EntriesOf("cpu_info") /\ DOMAIN cur.fields = CpuFields
  <2>1. cur \in EntriesOf("cpu_info")
    BY <1>1, InHandIs DEF Inv, TypeInv
  <2> QED
    BY <2>1, EntryOf DEF FieldsOf
<1>4. Throws(cur, r.args) => ~HasValues(file, DOMAIN cur.fields)
  <2> SUFFICES ASSUME Throws(cur, r.args) PROVE ~HasValues(file, DOMAIN cur.fields)
    OBVIOUS
  <2>1. PICK p \in 0 .. Len(file) : StandsAt(stream, file, p)
    BY <1>1, <1>2 DEF Inv, FileInv, Reading
  <2>2. PICK k \in DOMAIN cur.fields :
          Is(r.args, k) /\ (HasValue(r.args) => ~Number(r.args[2]))
    BY DEF Throws
  <2>3. CASE args = <<>>
    BY <1>1, <1>2, <2>1, <2>2, <2>3, KeyWithoutValue
  <2>4. CASE args # <<>>
    <3>1. Is(args, "processor")
      BY <2>4 DEF Inv, TypeInv, ArgsInv
    <3>2. Is(r.args, "processor")
      BY <1>1, <1>2, <2>1, <2>4, <3>1, FirstWordStays
    <3>3. k = "processor"
      BY <2>2, <3>2, TextsDiffer DEF Is
    <3> QED
      BY <1>3, <3>3, CpuAssumption
  <2> QED
    BY <2>3, <2>4
<1> HIDE DEF r
<1>5. \/ /\ Throws(cur, r.args) /\ proc' = "dead"
         /\ UNCHANGED <<user, address, pc, args, cur, monitorInfo, cardVars>>
      \/ /\ ~Throws(cur, r.args) /\ proc' = proc /\ args' = <<>>
         /\ cur' = Assigned(cur, r.args)
         /\ UNCHANGED <<user, address, pc, monitorInfo, cardVars>>
  BY <1>1 DEF Die, processVars
<1>6. cur' \in EntriesOf(InHand(pc'))
  <2>1. ~Throws(cur, r.args) => Assigned(cur, r.args) \in EntriesOf("cpu_info")
    BY <1>2, <1>3, AssignedFacts
  <2> QED
    BY <1>1, <1>3, <1>5, <2>1, InHandIs
<1>7. TypeInv'
  <2>1. monitorInfo' \in Seq(Reports) /\ cuts' \in 0 .. MaxCuts /\ file' \in Seq(Pieces)
        /\ stream' \in Streams /\ pc' \in Places
    BY <1>1, <1>2, <1>5 DEF Inv, TypeInv
  <2>2. ArgsInv'
    <3>1. CASE args' = <<>>
      <4>1. args' \in Seq(Seq(Text))
        BY <3>1
      <4> QED
        BY <3>1, <4>1 DEF ArgsInv
    <3>2. CASE UNCHANGED <<args, pc>>
      BY <3>2 DEF Inv, TypeInv, ArgsInv
    <3> QED
      BY <1>5, <3>1, <3>2
  <2> QED
    BY <1>1, <1>5, <1>6, <2>1, <2>2, TypeKept DEF Inv
<1>8. FileInv'
  BY <1>1, <1>2, <1>5 DEF FileInv, Tables
<1>9. CardInv'
  BY <1>1, <1>5, CardsAside DEF Inv, CardPlaces, cardVars
<1>10. EndsOnlyFor'
  <2>1. CASE proc' = "dead"
    <3>1. /\ pc' = "cpu_block" /\ UNCHANGED <<file, cur>>
          /\ ~HasValues(file, DOMAIN cur.fields)
      BY <1>1, <1>4, <1>5, <2>1
    <3> QED
      BY <3>1 DEF EndsOnlyFor, LookedFor
  <2>2. CASE proc' # "dead"
    BY <2>2 DEF EndsOnlyFor
  <2> QED
    BY <2>1, <2>2
<1> QED
  BY <1>7, <1>8, <1>9, <1>10 DEF Inv

LEMMA BlockEndKeeps ==
  ASSUME Inv, BlockEnd
  PROVE  Inv'
<1> DEFINE r == ReadLine(stream, file, args)
<1>1. /\ proc = "up" /\ pc = "cpu_block" /\ pc' = "cpu_info"
      /\ stream' = r.stream
      /\ monitorInfo' = Append(monitorInfo, cur) /\ cur' = NoEntry /\ args' = <<>>
      /\ UNCHANGED <<processVars, file, cuts, cardVars>>
  BY DEF BlockEnd, At, ReadLineBySplitchar
<1>2. /\ file \in Seq(Pieces)
      /\ cuts = 0
      /\ r.stream \in Streams
      /\ \E q \in 0 .. Len(file) : StandsAt(r.stream, file, q)
  BY <1>1, CpuRead
<1>3. cur \in EntriesOf("cpu_info") /\ "cpu_info" \in Reporting \ {"netcard"}
  BY <1>1, InHandIs DEF Inv, TypeInv, Reporting, Tables
<1> HIDE DEF r
<1>4. monitorInfo' \in Seq(Reports)
  BY <1>1, <1>3, AppendReport DEF Inv
<1>5. cur' \in EntriesOf(InHand(pc'))
  BY <1>1, NewEntryFacts, InHandIs
<1>6. TypeInv'
  <2>1. cuts' \in 0 .. MaxCuts /\ file' \in Seq(Pieces)
        /\ stream' \in Streams /\ pc' \in Places /\ ArgsInv'
    BY <1>1, <1>2 DEF Inv, TypeInv, ArgsInv, Places
  <2> QED
    BY <1>1, <1>4, <1>5, <2>1, TypeKept DEF Inv, processVars
<1>7. FileInv'
  BY <1>1, <1>2 DEF FileInv, Tables
<1>8. CardInv'
  <2>1. \E c \in Reporting \ {"netcard"} : \E e \in EntriesOf(c) :
          monitorInfo' = Append(monitorInfo, e)
    BY <1>1, <1>3
  <2> QED
    BY <1>1, <2>1, CardsAside DEF Inv, CardPlaces, cardVars
<1>9. EndsOnlyFor'
  BY <1>1 DEF EndsOnlyFor, processVars
<1> QED
  BY <1>6, <1>7, <1>8, <1>9 DEF Inv

-----------------------------------------------------------------------------
(***************************************************************************)
(* CpuSoftIrqMonitor and CpuLoadMonitor.                                   *)
(***************************************************************************)
LEMMA FirstLineMissing ==
  ASSUME NEW f \in Seq(Pieces), NEW s, ~ReadLine(s, f, <<>>).ok,
         s = Opened(TRUE) \/ (s = Opened(FALSE) /\ f = <<>>)
  PROVE  ~HasLine(f)
<1> SUFFICES ASSUME 1 \in Whole(f), f[1].text # NoText PROVE FALSE
  BY DEF HasLine
<1>1. 1 \in LineStarts(f) /\ \E j \in Ends(f) : j >= 1
  BY DEF Whole
<1>2. 1 \in 1 .. Len(f) /\ Len(f) \in Nat /\ f # <<>>
  BY <1>1 DEF LineStarts
<1>3. s \in Streams /\ StandsAt(s, f, 0) /\ s.open /\ ~s.eof
  <2>1. s = Opened(TRUE)
    BY <1>2
  <2>2. s \in Streams /\ StandsAt(s, f, 0)
    BY <2>1, OpenedFacts
  <2> QED
    BY <2>1, <2>2 DEF Opened
<1>4. 0 \in 0 .. Len(f) /\ <<>> \in Seq(Seq(Text))
  BY <1>2
<1>5. PICK q \in 0 .. Len(f) : NoLineTaken(ReadLine(s, f, <<>>).stream, f, 0, q)
  BY <1>3, <1>4, NoLineStands
<1>6. PICK j \in Ends(f) : j >= 1
  BY <1>1
<1>7. j \in 1 .. Len(f) /\ f[j].nl
  BY EndsFacts
<1>8. \/ \A i \in 1 .. Len(f) : ~f[i].nl
      \/ f[1].text = NoText
  <2>1. 0 + 1 = 1
    OBVIOUS
  <2> QED
    BY <1>5, <2>1, Zenon DEF NoLineTaken
<1> QED
  BY <1>7, <1>8

LEMMA IndexedSomeKeeps ==
  ASSUME Inv, NEW c \in {"softirq", "load"}, IndexedSome(c)
  PROVE  Inv'
<1>1. /\ proc = "up" /\ pc = c /\ Begin(After(c))
      /\ UNCHANGED <<processVars, args, monitorInfo, cardVars>>
  BY DEF IndexedSome, At
<1>2. After(c) \in {"load", "mem"}
  BY DEF After
<1>3. /\ pc' = After(c) /\ stream' \in Streams /\ file' \in Seq(Pieces) /\ cuts' \in 0 .. MaxCuts
      /\ cur' \in EntriesOf(InHand(pc'))
      /\ FileInv'
  <2>1. After(c) \in {"softirq", "load", "opendir"} \cup Tables
    BY <1>2 DEF Tables
  <2> QED
    BY <1>1, <2>1, BeginFacts DEF Inv
<1>4. ArgsInv' /\ monitorInfo' \in Seq(Reports)
  BY <1>1 DEF Inv, TypeInv, ArgsInv
<1>5. pc' \in Places /\ pc \notin CardPlaces /\ pc' \notin CardPlaces
  BY <1>1, <1>2, <1>3 DEF Places, Tables, CardPlaces
<1>6. TypeInv'
  BY <1>1, <1>3, <1>4, <1>5, TypeKept DEF Inv, processVars
<1>7. CardInv'
  BY <1>1, <1>5, CardsAside DEF Inv, cardVars
<1>8. EndsOnlyFor'
  BY <1>1 DEF EndsOnlyFor, processVars
<1> QED
  BY <1>3, <1>6, <1>7, <1>8 DEF Inv

LEMMA IndexedNothingKeeps ==
  ASSUME Inv, NEW c \in {"softirq", "load"}, IndexedNothing(c)
  PROVE  Inv'
<1>1. /\ pc = c /\ proc' = "dead"
      /\ \/ file' \in IndexedFiles /\ stream' = Opened(TRUE)
         \/ file' = <<>> /\ stream' = Opened(FALSE)
      /\ ~ReadLine(stream', file', <<>>).ok
      /\ UNCHANGED <<user, address, pc, args, cur, monitorInfo, cardVars, cuts>>
  BY DEF IndexedNothing, At, Die
<1>2. file' \in Seq(Pieces)
  <2>1. CASE file' = <<>>
    BY <2>1
  <2> QED
    BY <1>1, <2>1, AgentAssumption
<1>3. stream' \in Streams /\ ~HasLine(file')
  BY <1>1, <1>2, OpenedFacts, FirstLineMissing
<1>4. ArgsInv' /\ monitorInfo' \in Seq(Reports) /\ cuts' \in 0 .. MaxCuts
      /\ pc' \in Places /\ cur' \in EntriesOf(InHand(pc'))
  BY <1>1 DEF Inv, TypeInv, ArgsInv
<1>5. TypeInv'
  BY <1>1, <1>2, <1>3, <1>4, TypeKept DEF Inv
<1>6. FileInv'
  BY <1>1 DEF FileInv, Reading, Tables
<1>7. CardInv'
  BY <1>1, CardsAside DEF Inv, CardPlaces, cardVars
<1>8. EndsOnlyFor'
  BY <1>1, <1>3, Zenon DEF EndsOnlyFor
<1> QED
  BY <1>5, <1>6, <1>7, <1>8 DEF Inv

-----------------------------------------------------------------------------
(***************************************************************************)
(* MemMonitor, MetricMonitor and OsMonitor.                                *)
(***************************************************************************)
LEMMA TableKeys == \A c \in Tables : c \in Reading
BY DEF Tables, Reading

LEMMA TableTypes ==
  ASSUME Inv, pc \in Tables
  PROVE  /\ stream \in Streams /\ file \in Seq(Pieces) /\ args = <<>> /\ args \in Seq(Seq(Text))
         /\ cur \in EntriesOf(pc) /\ DOMAIN cur.fields = FieldsOf(pc)
         /\ cuts \in Nat
         /\ pc # "metric" => cuts = 0
<1>1. stream \in Streams /\ file \in Seq(Pieces) /\ args \in Seq(Seq(Text)) /\ cuts \in Nat
  BY AgentAssumption DEF Inv, TypeInv, ArgsInv
<1>2. args = <<>>
  BY DEF Inv, TypeInv, ArgsInv, Tables
<1>3. cur \in EntriesOf(pc)
  BY InHandIs DEF Inv, TypeInv
<1>4. pc # "metric" => cuts = 0
  BY TableKeys DEF Inv, FileInv
<1> QED
  BY <1>1, <1>2, <1>3, <1>4, EntryOf

\* A line that ends the agent has a key without a value, and is not of a file of
\* metrics that was not begun again.
LEMMA LineThrows ==
  ASSUME Inv, pc \in Tables, cuts = 0, ReadLine(stream, file, args).ok,
         Throws(cur, ReadLine(stream, file, args).args)
  PROVE  pc # "metric" /\ ~HasValues(file, DOMAIN cur.fields)
<1> DEFINE r == ReadLine(stream, file, args)
<1>1. stream \in Streams /\ file \in Seq(Pieces) /\ args = <<>>
  BY TableTypes
<1>2. PICK p \in 0 .. Len(file) : StandsAt(stream, file, p)
  BY TableKeys DEF Inv, FileInv
<1>3. PICK k \in DOMAIN cur.fields :
        Is(r.args, k) /\ (HasValue(r.args) => ~Number(r.args[2]))
  BY DEF Throws
<1>4. ~HasValues(file, DOMAIN cur.fields)
  BY <1>1, <1>2, <1>3, KeyWithoutValue
<1>5. pc = "metric" => HasValues(file, DOMAIN cur.fields)
  <2> SUFFICES ASSUME pc = "metric" PROVE HasValues(file, DOMAIN cur.fields)
    OBVIOUS
  <2>1. MetricsSoFar
    BY TableKeys DEF Inv, FileInv
  <2> QED
    BY <1>1, <2>1, MetricsHaveValues DEF MetricsSoFar
<1> QED
  BY <1>4, <1>5

\* A line that is read is copied.
LEMMA LineCopied ==
  ASSUME Inv, proc = "up", pc \in Tables, cuts = 0, ReadLine(stream, file, args).ok,
         ~Throws(cur, ReadLine(stream, file, args).args)
  PROVE  LET r == ReadLine(stream, file, args)
         IN  stream' = r.stream /\ cur' = Assigned(cur, r.args) /\ file' = file =>
               \E q \in 0 .. Len(file') : StandsAt(stream', file', q) /\ CopiedTo(q)'
<1> DEFINE r == ReadLine(stream, file, args)
<1>1. /\ stream \in Streams /\ file \in Seq(Pieces) /\ args = <<>> /\ args \in Seq(Seq(Text))
      /\ cur \in EntriesOf(pc) /\ DOMAIN cur.fields = FieldsOf(pc)
  BY TableTypes
<1>2. PICK p \in 0 .. Len(file) : StandsAt(stream, file, p) /\ CopiedTo(p)
  BY TableKeys DEF Inv, FileInv
<1>3. PICK q \in p + 1 .. Len(file) :
        /\ LineTaken(r, file, args, p, q)
        /\ HasValue(r.args) <=> q > p + 1
  BY <1>1, <1>2, LineWords
<1>4. PICK w : r.args = args \o w /\ WordsAt(file, p, q, w)
  BY <1>3 DEF LineTaken
<1>5. /\ r.stream \in Streams /\ r.args \in Seq(Seq(Text)) /\ r.stream.open = stream.open
      /\ stream.open
  BY <1>1, ReadLineFacts
<1>6. /\ StandsAt(r.stream, file, q) /\ ~r.stream.eof /\ file[q].nl
      /\ \A i \in p + 1 .. q - 1 : ~file[i].nl
      /\ p + 1 \in LineStarts(file) /\ file[p + 1].text # NoText
  BY <1>3 DEF LineTaken
<1> HIDE DEF r
<1>7. ~Throws(cur, r.args)
  BY DEF r
<1>8. \A k \in FieldsOf(pc) : Is(r.args, k) => HasValue(r.args)
  BY <1>1, <1>7 DEF Throws
<1>9. /\ r.args = w /\ w \in Seq(Seq(Text)) /\ Len(w) \in {1, 2}
      /\ w[1][1] = file[p + 1].text
      /\ q > p + 1 => w[2] = [i \in 1 .. q - p - 1 |-> file[p + 1 + i].text]
  BY <1>1, <1>4 DEF WordsAt
<1>10. \A k : Is(r.args, k) <=> file[p + 1].text = KeyText(k)
  BY <1>9 DEF Is
<1>11. ASSUME stream' = r.stream, cur' = Assigned(cur, r.args), file' = file
       PROVE  \E m \in 0 .. Len(file') : StandsAt(stream', file', m) /\ CopiedTo(m)'
  <2>1. q \in 0 .. Len(file) /\ p \in Nat /\ q \in Nat
    OBVIOUS
  <2>2. \A b \in LineStarts(file) : b <= q => file[b].text # NoText
    <3>1. \A b \in LineStarts(file) : b <= q <=> b <= p \/ b = p + 1
      BY <1>1, <1>6, OneLine
    <3> QED
      BY <1>2, <1>6, <3>1 DEF CopiedTo
  <2>3. /\ Assigned(cur, r.args) \in EntriesOf(pc)
        /\ \A k \in FieldsOf(pc) :
             Assigned(cur, r.args).fields[k] =
               IF Is(r.args, k) THEN r.args[2] ELSE cur.fields[k]
    BY <1>1, <1>5, <1>7, AssignedFacts
  <2>4. DOMAIN cur'.fields = FieldsOf(pc)
    BY <1>11, <2>3, EntryOf
  <2>5. ASSUME NEW k \in FieldsOf(pc)
        PROVE  cur'.fields[k] = ValueUpTo(file, q, k)
    <3>1. ValueUpTo(file, q, k) =
            IF file[p + 1].text = KeyText(k)
            THEN [i \in 1 .. q - p - 1 |-> file[p + 1 + i].text]
            ELSE ValueUpTo(file, p, k)
      BY <1>1, <1>6, ValueNext
    <3>2. cur.fields[k] = ValueUpTo(file, p, k)
      BY <1>1, <1>2 DEF CopiedTo
    <3>3. file[p + 1].text = KeyText(k) => q > p + 1
      BY <1>3, <1>8, <1>10 DEF r
    <3>4. CASE file[p + 1].text = KeyText(k)
      BY <1>9, <1>10, <1>11, <2>3, <3>1, <3>3, <3>4
    <3>5. CASE file[p + 1].text # KeyText(k)
      BY <1>10, <1>11, <2>3, <3>1, <3>2, <3>5
    <3> QED
      BY <3>4, <3>5
  <2>6. CopiedTo(q)'
    BY <1>5, <1>6, <1>11, <2>2, <2>4, <2>5 DEF CopiedTo
  <2> QED
    BY <1>6, <1>11, <2>1, <2>6
<1> QED
  BY <1>11 DEF r

LEMMA TableLineKeeps ==
  ASSUME Inv, NEW c \in Tables, TableLine(c)
  PROVE  Inv'
<1> DEFINE r == ReadLine(stream, file, args)
<1>1. /\ proc = "up" /\ pc = c /\ r.ok
      /\ stream' = r.stream /\ UNCHANGED <<file, cuts>>
      /\ IF Throws(cur, r.args) THEN Die
         ELSE /\ cur' = Assigned(cur, r.args) /\ args' = <<>>
              /\ UNCHANGED <<processVars, pc, monitorInfo, cardVars>>
  BY DEF TableLine, At
<1>2. /\ stream \in Streams /\ file \in Seq(Pieces) /\ args = <<>> /\ args \in Seq(Seq(Text))
      /\ cur \in EntriesOf(c) /\ cuts \in Nat /\ (c # "metric" => cuts = 0)
  BY <1>1, TableTypes
<1>3. r.stream \in Streams /\ r.args \in Seq(Seq(Text))
  BY <1>2, ReadLineFacts
<1>4. cuts = 0 /\ Throws(cur, r.args) =>
        c # "metric" /\ ~HasValues(file, DOMAIN cur.fields)
  BY <1>1, LineThrows
<1>5. cuts = 0 /\ ~Throws(cur, r.args) /\ cur' = Assigned(cur, r.args) =>
        \E q \in 0 .. Len(file') : StandsAt(stream', file', q) /\ CopiedTo(q)'
  BY <1>1, LineCopied
<1>6. cuts = 0 => \E q \in 0 .. Len(file') : StandsAt(stream', file', q)
  <2> SUFFICES ASSUME cuts = 0 PROVE \E q \in 0 .. Len(file) : StandsAt(r.stream, file, q)
    BY <1>1
  <2>1. PICK p \in 0 .. Len(file) : StandsAt(stream, file, p)
    BY <1>1, TableKeys DEF Inv, FileInv
  <2> QED
    BY <1>2, <2>1, ReadLineMoves
<1> HIDE DEF r
<1>7. /\ args' = <<>> /\ UNCHANGED <<user, address, pc, monitorInfo, cardVars>>
      /\ \/ proc' = "dead" /\ Throws(cur, r.args) /\ cur' = cur
         \/ proc' = "up" /\ ~Throws(cur, r.args) /\ cur' = Assigned(cur, r.args)
  BY <1>1, <1>2 DEF Die, processVars
<1>8. cur' \in EntriesOf(InHand(pc'))
  BY <1>1, <1>2, <1>3, <1>7, AssignedFacts, InHandIs
<1>9. TypeInv'
  <2>1. monitorInfo' \in Seq(Reports) /\ cuts' \in 0 .. MaxCuts /\ file' \in Seq(Pieces)
        /\ stream' \in Streams /\ pc' \in Places /\ ArgsInv'
    BY <1>1, <1>3, <1>7 DEF Inv, TypeInv, ArgsInv
  <2> QED
    BY <1>7, <1>8, <2>1, TypeKept DEF Inv
<1>10. FileInv'
  <2>1. CASE cuts = 0
    <3>1. \E q \in 0 .. Len(file') :
            StandsAt(stream', file', q) /\ (proc' = "up" => CopiedTo(q)')
      BY <1>5, <1>6, <1>7, <2>1
    <3>2. pc' = c /\ cuts' = 0 /\ (c = "metric" => MetricsSoFar')
      BY <1>1, <1>7, <2>1, TableKeys DEF Inv, FileInv, MetricsSoFar
    <3> QED
      BY <3>1, <3>2 DEF FileInv
  <2>2. CASE cuts # 0
    BY <1>1, <1>2, <1>7, <2>2 DEF FileInv
  <2> QED
    BY <2>1, <2>2
<1>11. CardInv'
  <2>1. pc \notin CardPlaces /\ pc' \notin CardPlaces
    BY <1>1, <1>7 DEF CardPlaces, Tables
  <2> QED
    BY <1>7, <2>1, CardsAside DEF Inv, cardVars
<1>12. EndsOnlyFor'
  <2> SUFFICES ASSUME proc' = "dead" PROVE EndsOnlyFor'
    BY DEF EndsOnlyFor
  <2>1. Throws(cur, r.args) /\ UNCHANGED <<pc, cur, file, cuts>> /\ pc = c
    BY <1>1, <1>7
  <2>2. CASE cuts = 0
    <3>1. c \in {"mem", "os"} /\ ~HasValues(file, DOMAIN cur.fields)
      BY <1>4, <2>1, <2>2 DEF Tables
    <3> QED
      BY <2>1, <3>1 DEF EndsOnlyFor, LookedFor
  <2>3. CASE cuts # 0
    BY <1>2, <2>1, <2>3 DEF EndsOnlyFor
  <2> QED
    BY <2>2, <2>3
<1> QED
  BY <1>9, <1>10, <1>11, <1>12 DEF Inv

LEMMA TableEndKeeps ==
  ASSUME Inv, NEW c \in Tables, TableEnd(c)
  PROVE  Inv'
<1>1. /\ proc = "up" /\ pc = c /\ Begin(After(c))
      /\ monitorInfo' = Append(monitorInfo, cur)
      /\ UNCHANGED <<processVars, args, cardVars>>
  BY DEF TableEnd, At
<1>2. After(c) \in {"metric", "os", "opendir"}
  BY DEF After, Tables
<1>3. /\ pc' = After(c) /\ stream' \in Streams /\ file' \in Seq(Pieces) /\ cuts' \in 0 .. MaxCuts
      /\ cur' \in EntriesOf(InHand(pc'))
      /\ FileInv'
  <2>1. After(c) \in {"softirq", "load", "opendir"} \cup Tables
    BY <1>2 DEF Tables
  <2> QED
    BY <1>1, <2>1, BeginFacts DEF Inv
<1>4. cur \in EntriesOf(c) /\ c \in Reporting \ {"netcard"}
  BY <1>1, TableTypes DEF Reporting, Tables
<1>5. monitorInfo' \in Seq(Reports)
  BY <1>1, <1>4, AppendReport DEF Inv
<1>6. ArgsInv'
  BY <1>1, TableTypes DEF ArgsInv
<1>7. pc' \in Places /\ pc \notin CardPlaces /\ pc' \notin CardPlaces
  BY <1>1, <1>2, <1>3 DEF Places, Tables, CardPlaces
<1>8. TypeInv'
  BY <1>1, <1>3, <1>5, <1>6, <1>7, TypeKept DEF Inv, processVars
<1>9. CardInv'
  <2>1. \E d \in Reporting \ {"netcard"} : \E e \in EntriesOf(d) :
          monitorInfo' = Append(monitorInfo, e)
    BY <1>1, <1>4
  <2> QED
    BY <1>1, <1>7, <2>1, CardsAside DEF Inv, cardVars
<1>10. EndsOnlyFor'
  BY <1>1 DEF EndsOnlyFor, processVars
<1> QED
  BY <1>3, <1>8, <1>9, <1>10 DEF Inv

\* The other program writes behind what has been read.
LEMMA WriteMetricKeeps ==
  ASSUME Inv, WriteMetric
  PROVE  Inv'
<1> DEFINE x == MetricPiece(Len(file) + 1, cuts)
<1>1. /\ proc = "up" /\ pc = "metric" /\ stream.open
      /\ Len(file) < 3 * Len(MetricLines)
      /\ file' = Append(file, x)
      /\ UNCHANGED <<processVars, pc, stream, cuts, args, cur, monitorInfo, cardVars>>
  BY DEF WriteMetric, At
<1>2. /\ stream \in Streams /\ file \in Seq(Pieces) /\ cuts \in Nat /\ Len(file) \in Nat
      /\ DOMAIN cur.fields = FieldsOf("metric")
  <2>1. pc \in Tables
    BY <1>1 DEF Tables
  <2> QED
    BY <1>1, <2>1, TableTypes
<1>3. Len(file) + 1 \in 1 .. 3 * Len(MetricLines)
  BY <1>1, <1>2, AgentAssumption
<1>4. x \in Pieces
  BY <1>2, <1>3, MetricPieceFacts
<1> HIDE DEF x
<1>5. /\ file' \in Seq(Pieces) /\ Len(file') = Len(file) + 1
      /\ \A i \in 1 .. Len(file) : file'[i] = file[i]
      /\ file'[Len(file) + 1] = x
  <2>1. Len(file) \in 0 .. Len(file)
    BY <1>2
  <2> QED
    BY <1>1, <1>2, <1>4, <2>1, LinesKept
<1>6. TypeInv'
  <2>1. /\ monitorInfo' \in Seq(Reports) /\ cuts' \in 0 .. MaxCuts /\ stream' \in Streams
        /\ pc' \in Places /\ ArgsInv' /\ cur' \in EntriesOf(InHand(pc'))
    BY <1>1 DEF Inv, TypeInv, ArgsInv
  <2> QED
    BY <1>1, <1>5, <2>1, TypeKept DEF Inv, processVars
<1>7. FileInv'
  <2>1. CASE cuts # 0
    BY <1>1, <2>1 DEF FileInv
  <2>2. CASE cuts = 0
    <3>1. MetricsSoFar
      BY <1>1, <2>2 DEF Inv, FileInv, Reading, Tables
    <3>2. MetricsSoFar'
      <4>1. Len(file') <= 3 * Len(MetricLines)
        BY <1>3, <1>5
      <4>2. x = MetricPiece(Len(file) + 1, 0)
        BY <2>2 DEF x
      <4>3. DOMAIN file = 1 .. Len(file) /\ DOMAIN file' = 1 .. Len(file) + 1
        BY <1>2, <1>5
      <4>4. ASSUME NEW i \in DOMAIN file' PROVE file'[i] = MetricPiece(i, 0)
        <5>1. CASE i \in 1 .. Len(file)
          BY <1>5, <3>1, <4>3, <5>1 DEF MetricsSoFar
        <5>2. CASE i = Len(file) + 1
          BY <1>5, <4>2, <5>2
        <5> QED
          BY <1>2, <4>3, <5>1, <5>2
      <4> QED
        BY <4>1, <4>4 DEF MetricsSoFar
    <3>4. PICK p \in 0 .. Len(file) : StandsAt(stream, file, p) /\ CopiedTo(p)
      BY <1>1, <2>2 DEF Inv, FileInv, Reading, Tables
    <3>5. StandsAt(stream', file', p) /\ p \in 0 .. Len(file')
      BY <1>1, <1>2, <1>4, <1>5, <3>4, StandsKept
    <3>6. p = 0 \/ file[p].nl
      BY <3>4 DEF StandsAt, CopiedTo
    <3>7. CopiedTo(p)'
      <4>1. \A b : b \in LineStarts(file') /\ b <= p <=> b \in LineStarts(file) /\ b <= p
        BY <1>1, <1>2, <1>4, LinesKept
      <4>2. \A b \in LineStarts(file') : b <= p => file'[b].text # NoText
        <5> TAKE b \in LineStarts(file')
        <5>1. b <= p => b \in LineStarts(file) /\ b \in 1 .. Len(file)
          BY <1>2, <4>1 DEF LineStarts
        <5> QED
          BY <1>5, <3>4, <5>1 DEF CopiedTo
      <4>3. \A k : ValueUpTo(file', p, k) = ValueUpTo(file, p, k)
        BY <1>1, <1>2, <1>4, <3>6, ValueKept
      <4> QED
        BY <1>1, <3>4, <4>2, <4>3 DEF CopiedTo
    <3> QED
      BY <1>1, <2>2, <3>2, <3>5, <3>7 DEF FileInv
  <2> QED
    BY <2>1, <2>2
<1>8. CardInv'
  BY <1>1, CardsAside DEF Inv, CardPlaces, cardVars
<1>9. EndsOnlyFor'
  BY <1>1 DEF EndsOnlyFor, processVars
<1> QED
  BY <1>6, <1>7, <1>8, <1>9 DEF Inv

LEMMA RewriteMetricsKeeps ==
  ASSUME Inv, RewriteMetrics
  PROVE  Inv'
<1>1. /\ proc = "up" /\ pc = "metric"
      /\ cuts < MaxCuts /\ cuts' = cuts + 1 /\ file' = <<>>
      /\ UNCHANGED <<processVars, pc, stream, args, cur, monitorInfo, cardVars>>
  BY DEF RewriteMetrics, At
<1>2. cuts' \in 0 .. MaxCuts /\ cuts' # 0
  BY <1>1, AgentAssumption DEF Inv, TypeInv
<1>3. TypeInv'
  <2>1. /\ monitorInfo' \in Seq(Reports) /\ stream' \in Streams
        /\ pc' \in Places /\ ArgsInv' /\ cur' \in EntriesOf(InHand(pc'))
    BY <1>1 DEF Inv, TypeInv, ArgsInv
  <2>2. file' \in Seq(Pieces)
    BY <1>1
  <2> QED
    BY <1>1, <1>2, <2>1, <2>2, TypeKept DEF Inv, processVars
<1>4. FileInv'
  BY <1>1, <1>2 DEF FileInv
<1>5. CardInv'
  BY <1>1, CardsAside DEF Inv, CardPlaces, cardVars
<1>6. EndsOnlyFor'
  BY <1>1 DEF EndsOnlyFor, processVars
<1> QED
  BY <1>3, <1>4, <1>5, <1>6 DEF Inv

-----------------------------------------------------------------------------
(***************************************************************************)
(* NetcardMonitor.                                                         *)
(***************************************************************************)
LEMMA OneFacts ==
  /\ \A S : \A x \in S : <<x>> \in Seq(S)
  /\ \A x : Len(<<x>>) = 1 /\ <<x>>[1] = x
OBVIOUS

\* A step that leaves the entries and what is in hand leaves this part alone.
LEMMA CardsKept ==
  ASSUME CardInv, pc' = pc, stream' = stream, file' = file, cur' = cur,
         monitorInfo' = monitorInfo, todo' = todo, listed' = listed, steady' = steady
  PROVE  CardInv'
<1>1. CardEntries' = CardEntries /\ Reported' = Reported /\ NameInHand' = NameInHand
  BY DEF CardEntries, Reported, NameInHand
<1>2. \A n, k : CardField(n, k) = {CardText(n)} \cup (IF n \in steady THEN {} ELSE {Default(k)})
  BY DEF CardField
<1>3. \A n, k : CardField(n, k)' = {CardText(n)} \cup (IF n \in steady' THEN {} ELSE {Default(k)})
  BY DEF CardField
<1>4. \A n, k : CardField(n, k)' = CardField(n, k)
  BY <1>2, <1>3
<1>5. \A i \in CardEntries', k \in {"address", "mtu"} :
        monitorInfo'[i].fields[k] \in CardField(monitorInfo[i].name, k)'
  <2>1. \A i \in CardEntries, k \in {"address", "mtu"} :
          monitorInfo[i].fields[k] \in CardField(monitorInfo[i].name, k)
    BY DEF CardInv
  <2> QED
    BY <1>1, <1>2, <1>3, <2>1
<1>6. pc \in {"card", "mtu"} => /\ cur'.fields["address"] \in CardField(cur.name, "address")'
                               /\ cur'.fields["mtu"] = Default("mtu")
  BY <1>2, <1>3 DEF CardInv
<1>7. pc' = "mtu" => /\ stream' = Opened(TRUE)
                     /\ \/ file' = <<Piece(ValueText(cur'.name), TRUE)>>
                        \/ file' = <<>> /\ cur'.name \notin steady'
  BY DEF CardInv
<1>8. /\ pc' \notin CardPlaces => CardEntries' = {} /\ listed' = {}
      /\ pc' = "send" => todo' = {}
      /\ Reported' \cup NameInHand' \cup todo' = listed'
      /\ todo' \cap (Reported' \cup NameInHand') = {} /\ NameInHand' \cap Reported' = {}
      /\ \A i, j \in CardEntries' : monitorInfo'[i].name = monitorInfo'[j].name => i = j
  BY <1>1 DEF CardInv
<1> QED
  BY <1>5, <1>6, <1>7, <1>8 DEF CardInv, CardPlaces

LEMMA CardNames ==
  ASSUME TypeInv
  PROVE  /\ todo \subseteq Names /\ todo \subseteq STRING /\ cards \subseteq STRING
         /\ \A n \in STRING : CardText(n) \in Seq(Text)
<1>1. todo \subseteq STRING /\ cards \subseteq STRING
  BY AgentAssumption DEF TypeInv
<1>2. STRING \subseteq Names
  BY Zenon DEF Names
<1>3. \A n \in STRING : ValueText(n) \in Text
  BY TextFacts DEF Text
<1>4. \A n \in STRING : CardText(n) \in Seq(Text)
  BY <1>3, OneFacts, Zenon DEF CardText
<1>5. todo \subseteq Names
  BY <1>1, <1>2, Zenon
<1> QED
  BY <1>1, <1>4, <1>5

\* Where the type says that a step of the collector leaves something alone.
LEMMA CardTypes ==
  ASSUME Inv, pc \in CardPlaces
  PROVE  /\ args = <<>> /\ args \in Seq(Seq(Text))
         /\ stream \in Streams /\ file \in Seq(Pieces) /\ cuts \in 0 .. MaxCuts
         /\ monitorInfo \in Seq(Reports)
         /\ cur \in EntriesOf(InHand(pc))
BY DEF Inv, TypeInv, ArgsInv, CardPlaces

\* What the type says of a step of the collector.
LEMMA CardTypeKept ==
  ASSUME Inv, pc \in CardPlaces, proc' \in {"up", "dead"}, UNCHANGED <<user, address, cuts, args>>,
         pc' \in CardPlaces \cup {"asleep"},
         stream' \in Streams, file' \in Seq(Pieces),
         cur' \in EntriesOf(InHand(pc')), monitorInfo' \in Seq(Reports),
         steady' \subseteq cards', cards' \subseteq Cards,
         todo' \subseteq listed', listed' \subseteq Cards \cup PlainFiles
  PROVE  TypeInv' /\ FileInv'
<1>1. ArgsInv' /\ cuts' \in 0 .. MaxCuts
  BY CardTypes DEF ArgsInv
<1>2. pc' \in Places /\ pc' \notin Reading
  BY DEF Places, CardPlaces, Reading, Tables
<1>3. TypeInv'
  BY <1>1, <1>2 DEF Inv, TypeInv
<1>4. FileInv'
  BY <1>2 DEF FileInv
<1> QED
  BY <1>3, <1>4

LEMMA OpenDirKeeps ==
  ASSUME Inv, OpenDir
  PROVE  Inv'
<1>1. /\ proc = "up" /\ pc = "opendir"
      /\ UNCHANGED <<processVars, fileVars, args, cur, monitorInfo>>
      /\ \/ /\ \E present \in SUBSET Cards :
                 /\ cards' = present /\ steady' = present
                 /\ listed' = present \cup PlainFiles /\ todo' = present \cup PlainFiles
            /\ pc' = "netcard"
         \/ pc' = "send" /\ UNCHANGED cardVars
  BY DEF OpenDir, At
<1>2. CardEntries = {} /\ listed = {} /\ todo = {} /\ CardEntries' = {}
  <2>1. pc \notin CardPlaces
    BY <1>1 DEF CardPlaces
  <2>2. CardEntries = {} /\ listed = {} /\ todo = {}
    BY <2>1 DEF Inv, CardInv, TypeInv
  <2> QED
    BY <1>1, <2>2 DEF CardEntries
<1>3. /\ pc' \in {"netcard", "send"} /\ (pc' = "send" => todo' = {})
      /\ steady' \subseteq cards' /\ cards' \subseteq Cards
      /\ todo' = listed' /\ listed' \subseteq Cards \cup PlainFiles
  BY <1>1, <1>2 DEF Inv, TypeInv, cardVars
<1>4. TypeInv'
  <2>1. ArgsInv'
    BY <1>1 DEF Inv, TypeInv, ArgsInv
  <2>2. cur' \in EntriesOf(InHand(pc'))
    BY <1>1, <1>3, InHandIs DEF Inv, TypeInv
  <2>3. pc' \in Places
    BY <1>3 DEF Places
  <2> QED
    BY <1>1, <1>3, <2>1, <2>2, <2>3 DEF Inv, TypeInv, processVars, fileVars
<1>5. FileInv' /\ EndsOnlyFor'
  BY <1>1, <1>3 DEF FileInv, Reading, Tables, EndsOnlyFor, processVars
<1>6. Reported' = {} /\ NameInHand' = {}
  BY <1>2, <1>3 DEF Reported, NameInHand
<1>7. CardInv'
  BY <1>2, <1>3, <1>6 DEF CardInv, CardPlaces
<1> QED
  BY <1>4, <1>5, <1>7 DEF Inv

LEMMA NextCardKeeps ==
  ASSUME Inv, NEW n \in Cards \cup PlainFiles, NextCard(n)
  PROVE  Inv'
<1> DEFINE e == NetcardInfo(n)
           f == IF n \in cards THEN [e EXCEPT !.fields["address"] = CardText(n)] ELSE e
<1>1. /\ proc = "up" /\ pc = "netcard" /\ n \in todo /\ todo' = todo \ {n}
      /\ cur' = f /\ pc' = "card"
      /\ UNCHANGED <<processVars, fileVars, args, monitorInfo, cards, listed, steady>>
  BY DEF NextCard, At
<1>2. /\ n \in Names /\ n \in STRING /\ CardText(n) \in Seq(Text)
      /\ DOMAIN e.fields = {"address", "mtu"}
      /\ e \in EntriesOf("netcard") /\ e.name = n
      /\ e.fields["address"] = Default("address") /\ e.fields["mtu"] = Default("mtu")
  <2>1. n \in Names /\ n \in STRING /\ CardText(n) \in Seq(Text)
    BY <1>1, CardNames DEF Inv
  <2>2. /\ e \in EntriesOf("netcard") /\ e.name = n
        /\ e.fields["address"] = Default("address") /\ e.fields["mtu"] = Default("mtu")
    BY <2>1, NewEntryFacts
  <2>3. DOMAIN e.fields = {"address", "mtu"}
    BY <2>2, EntryOf DEF FieldsOf
  <2> QED
    BY <2>1, <2>2, <2>3
<1> HIDE DEF e
<1>3. /\ f \in EntriesOf("netcard") /\ f.name = n
      /\ f.fields["address"] = IF n \in cards THEN CardText(n) ELSE Default("address")
      /\ f.fields["mtu"] = Default("mtu")
  <2>1. CASE n \in cards
    <3>1. PICK g \in [{"address", "mtu"} -> Seq(Text)] : g = e.fields
      BY <1>2, EntryOf DEF FieldsOf
    <3> DEFINE h == [g EXCEPT !["address"] = CardText(n)]
    <3>2. /\ h \in [{"address", "mtu"} -> Seq(Text)]
          /\ h["address"] = CardText(n) /\ h["mtu"] = g["mtu"]
      BY <1>2
    <3>3. f = [e EXCEPT !.fields = h]
      BY <2>1, <3>1
    <3> HIDE DEF h, f
    <3>4. f \in EntriesOf("netcard") /\ f.name = e.name /\ f.fields = h
      BY <1>2, <3>2, <3>3 DEF EntriesOf, EntriesWith, FieldsOf
    <3> QED
      BY <1>2, <2>1, <3>1, <3>2, <3>4
  <2>2. CASE n \notin cards
    BY <1>2, <2>2
  <2> QED
    BY <2>1, <2>2
<1> HIDE DEF f
<1>4. TypeInv' /\ FileInv'
  <2>1. pc \in CardPlaces /\ pc' \in CardPlaces
    BY <1>1 DEF CardPlaces
  <2>2. cur' \in EntriesOf(InHand(pc'))
    BY <1>1, <1>3, InHandIs
  <2>3. /\ stream' \in Streams /\ file' \in Seq(Pieces) /\ monitorInfo' \in Seq(Reports)
        /\ steady' \subseteq cards' /\ cards' \subseteq Cards
        /\ todo' \subseteq listed' /\ listed' \subseteq Cards \cup PlainFiles
    BY <1>1 DEF Inv, TypeInv, fileVars
  <2> QED
    BY <1>1, <2>1, <2>2, <2>3, CardTypeKept DEF processVars, fileVars
<1>5. EndsOnlyFor'
  BY <1>1 DEF EndsOnlyFor, processVars
<1>6. CardInv'
  <2>1. CardEntries' = CardEntries /\ Reported' = Reported /\ NameInHand = {}
        /\ NameInHand' = {n}
    BY <1>1, <1>3 DEF CardEntries, Reported, NameInHand
  <2>2. /\ Reported \cup todo = listed /\ todo \cap Reported = {}
        /\ \A i, j \in CardEntries : monitorInfo[i].name = monitorInfo[j].name => i = j
        /\ \A i \in CardEntries, k \in {"address", "mtu"} :
             monitorInfo[i].fields[k] \in CardField(monitorInfo[i].name, k)
    BY <1>1, <2>1 DEF Inv, CardInv
  <2>3. CardField(n, "address")' = CardField(n, "address")
        /\ \A m, k : CardField(m, k)' = CardField(m, k)
    BY <1>1 DEF CardField
  <2>4. cur'.name = n /\ cur'.fields["mtu"] = Default("mtu")
        /\ cur'.fields["address"] \in CardField(n, "address")
    BY <1>1, <1>3 DEF CardField, Inv, TypeInv
  <2>5. /\ Reported' \cup NameInHand' \cup todo' = listed'
        /\ todo' \cap (Reported' \cup NameInHand') = {} /\ NameInHand' \cap Reported' = {}
    BY <1>1, <2>1, <2>2
  <2>6. /\ pc' \in CardPlaces /\ pc' # "send" /\ pc' # "mtu"
    BY <1>1 DEF CardPlaces
  <2>7. /\ \A i, j \in CardEntries' : monitorInfo'[i].name = monitorInfo'[j].name => i = j
        /\ \A i \in CardEntries', k \in {"address", "mtu"} :
             monitorInfo'[i].fields[k] \in CardField(monitorInfo[i].name, k)'
    BY <1>1, <2>1, <2>2, <2>3
  <2>8. /\ cur'.fields["address"] \in CardField(cur.name, "address")'
        /\ cur'.fields["mtu"] = Default("mtu")
    BY <2>4, <1>1 DEF CardField
  <2> QED
    BY <1>1, <2>5, <2>6, <2>7, <2>8 DEF CardInv
<1> QED
  BY <1>4, <1>5, <1>6 DEF Inv

\* An entry that has its name's address and mtu, or none, is added.
LEMMA AddCardKeeps ==
  ASSUME Inv, proc = "up", pc \in {"card", "mtu"},
         NEW e \in EntriesOf("netcard"), e.name = cur.name,
         \A k \in {"address", "mtu"} : e.fields[k] \in CardField(cur.name, k),
         AddCard(e), stream' \in Streams, file' \in Seq(Pieces)
  PROVE  Inv'
<1>1. /\ monitorInfo' = Append(monitorInfo, e) /\ cur' = NoEntry /\ pc' = "netcard"
      /\ UNCHANGED <<processVars, cuts, args, cards, todo, listed, steady>>
  BY DEF AddCard, cardVars
<1>2. "netcard" \in Reporting /\ e.of = "netcard"
  BY EntryOf DEF Reporting
<1>3. /\ monitorInfo' \in Seq(Reports)
      /\ Len(monitorInfo) \in Nat
      /\ DOMAIN monitorInfo = 1 .. Len(monitorInfo)
      /\ DOMAIN monitorInfo' = 1 .. Len(monitorInfo) + 1
      /\ \A i \in DOMAIN monitorInfo : monitorInfo'[i] = monitorInfo[i]
      /\ monitorInfo'[Len(monitorInfo) + 1] = e
  BY <1>1, <1>2, AppendReport DEF Inv
<1> DEFINE m == Len(monitorInfo) + 1
<1>4. /\ CardEntries' = CardEntries \cup {m} /\ m \notin CardEntries
      /\ \A i \in CardEntries : monitorInfo'[i] = monitorInfo[i]
  <2>1. \A i : i \in DOMAIN monitorInfo' <=> i \in DOMAIN monitorInfo \/ i = m
    BY <1>3
  <2>2. m \notin DOMAIN monitorInfo
    BY <1>3
  <2> HIDE DEF m
  <2>3. \A i : i \in CardEntries' <=> i \in CardEntries \/ i = m
    BY <1>2, <1>3, <2>1 DEF CardEntries, m
  <2>4. m \notin CardEntries /\ \A i \in CardEntries : monitorInfo'[i] = monitorInfo[i]
    BY <1>3, <2>2 DEF CardEntries
  <2> QED
    BY <2>3, <2>4
<1>5. monitorInfo'[m] = e
  BY <1>3
<1> HIDE DEF m
<1>6. TypeInv' /\ FileInv'
  <2>1. pc \in CardPlaces /\ pc' \in CardPlaces
    BY <1>1 DEF CardPlaces
  <2>2. cur' \in EntriesOf(InHand(pc'))
    BY <1>1, InHandIs, NewEntryFacts
  <2>3. /\ steady' \subseteq cards' /\ cards' \subseteq Cards
        /\ todo' \subseteq listed' /\ listed' \subseteq Cards \cup PlainFiles
    BY <1>1 DEF Inv, TypeInv
  <2> QED
    BY <1>1, <1>3, <2>1, <2>2, <2>3, CardTypeKept DEF processVars
<1>7. EndsOnlyFor'
  BY <1>1 DEF EndsOnlyFor, processVars
<1>8. CardInv'
  <2>1. NameInHand = {cur.name} /\ NameInHand' = {}
    BY <1>1 DEF NameInHand
  <2>2. Reported' = Reported \cup {cur.name}
    <3>1. \A i \in CardEntries' : monitorInfo'[i].name \in Reported \cup {cur.name}
      BY <1>4, <1>5 DEF Reported
    <3>2. \A i \in CardEntries : monitorInfo[i].name = monitorInfo'[i].name /\ i \in CardEntries'
      BY <1>4
    <3>3. cur.name = monitorInfo'[m].name /\ m \in CardEntries'
      BY <1>4, <1>5
    <3> QED
      BY <3>1, <3>2, <3>3 DEF Reported
  <2>3. /\ Reported \cup NameInHand \cup todo = listed
        /\ todo \cap (Reported \cup NameInHand) = {} /\ NameInHand \cap Reported = {}
        /\ \A i, j \in CardEntries : monitorInfo[i].name = monitorInfo[j].name => i = j
        /\ \A i \in CardEntries, k \in {"address", "mtu"} :
             monitorInfo[i].fields[k] \in CardField(monitorInfo[i].name, k)
    BY DEF Inv, CardInv
  <2>4. \A n, k : CardField(n, k)' = CardField(n, k)
    BY <1>1 DEF CardField
  <2>5. \A i \in CardEntries : monitorInfo[i].name # cur.name
    BY <2>1, <2>3 DEF Reported
  <2>6. \A i, j \in CardEntries' : monitorInfo'[i].name = monitorInfo'[j].name => i = j
    BY <1>4, <1>5, <2>3, <2>5
  <2>7. \A i \in CardEntries', k \in {"address", "mtu"} :
          monitorInfo'[i].fields[k] \in CardField(monitorInfo'[i].name, k)
    BY <1>4, <1>5, <2>3
  <2>8. \A i \in CardEntries', k \in {"address", "mtu"} :
          monitorInfo'[i].fields[k] \in CardField(monitorInfo[i].name, k)'
    BY <2>4, <2>7
  <2>9. /\ Reported' \cup NameInHand' \cup todo' = listed'
        /\ todo' \cap (Reported' \cup NameInHand') = {} /\ NameInHand' \cap Reported' = {}
    BY <1>1, <2>1, <2>2, <2>3
  <2> QED
    BY <1>1, <2>6, <2>8, <2>9 DEF CardInv, CardPlaces
<1> QED
  BY <1>6, <1>7, <1>8 DEF Inv

LEMMA NoMtuKeeps ==
  ASSUME Inv, NoMtu
  PROVE  Inv'
<1>1. /\ proc = "up" /\ pc = "card" /\ cur.name \notin cards /\ AddCard(cur)
      /\ UNCHANGED <<stream, file>>
  BY DEF NoMtu, At
<1>2. cur \in EntriesOf("netcard") /\ stream' \in Streams /\ file' \in Seq(Pieces)
  BY <1>1, InHandIs DEF Inv, TypeInv
<1>3. cur.fields["address"] \in CardField(cur.name, "address")
      /\ cur.fields["mtu"] = Default("mtu")
  BY <1>1 DEF Inv, CardInv
<1>4. cur.fields["mtu"] \in CardField(cur.name, "mtu")
  BY <1>1, <1>3 DEF CardField, Inv, TypeInv
<1> QED
  BY <1>1, <1>2, <1>3, <1>4, AddCardKeeps

LEMMA OpenMtuKeeps ==
  ASSUME Inv, OpenMtu
  PROVE  Inv'
<1>1. /\ proc = "up" /\ pc = "card" /\ cur.name \in cards /\ pc' = "mtu"
      /\ stream' = Opened(TRUE) /\ file' = <<Piece(ValueText(cur.name), TRUE)>>
      /\ UNCHANGED <<processVars, cuts, args, cur, monitorInfo, cards, todo, listed, steady>>
  BY DEF OpenMtu, At, cardVars
<1>2. file' \in Seq(Pieces)
  <2>1. cur.name \in STRING
    BY <1>1, CardNames DEF Inv
  <2>2. Piece(ValueText(cur.name), TRUE) \in Pieces
    BY <2>1, TextFacts, PieceFacts
  <2> QED
    BY <1>1, <2>2, OneFacts, Zenon
<1>3. stream' \in Streams
  BY <1>1, <1>2, OpenedFacts
<1>4. TypeInv' /\ FileInv'
  <2>1. pc \in CardPlaces /\ pc' \in CardPlaces
    BY <1>1 DEF CardPlaces
  <2>2. cur' \in EntriesOf(InHand(pc')) /\ monitorInfo' \in Seq(Reports)
    BY <1>1, InHandIs DEF Inv, TypeInv
  <2>3. /\ steady' \subseteq cards' /\ cards' \subseteq Cards
        /\ todo' \subseteq listed' /\ listed' \subseteq Cards \cup PlainFiles
    BY <1>1 DEF Inv, TypeInv
  <2> QED
    BY <1>1, <1>2, <1>3, <2>1, <2>2, <2>3, CardTypeKept DEF processVars
<1>5. EndsOnlyFor'
  BY <1>1 DEF EndsOnlyFor, processVars
<1>6. CardInv'
  BY <1>1 DEF Inv, CardInv, CardPlaces, CardEntries, Reported, NameInHand, CardField
<1> QED
  BY <1>4, <1>5, <1>6 DEF Inv

\* The one line of an mtu, or of a file whose interface is gone.
LEMMA MtuLine ==
  /\ \A n \in STRING :
       LET f == <<Piece(ValueText(n), TRUE)>>
       IN  GetLine(Opened(TRUE), f).line = CardText(n)
  /\ GetLine(Opened(TRUE), <<>>).line = <<>>
<1>1. Opened(TRUE) \in Streams /\ Opened(TRUE).open /\ ~Opened(TRUE).eof
  <2>1. <<>> \in Seq(Pieces)
    OBVIOUS
  <2> QED
    BY <2>1, OpenedFacts DEF Opened
<1>2. ASSUME NEW n \in STRING
      PROVE  GetLine(Opened(TRUE), <<Piece(ValueText(n), TRUE)>>).line = CardText(n)
  <2> DEFINE x == Piece(ValueText(n), TRUE)
             f == <<x>>
             g == GetLine(Opened(TRUE), f)
  <2>1. x \in Pieces /\ x.nl /\ x.text = ValueText(n) /\ x.text # NoText
    <3>1. x.nl /\ x.text = ValueText(n)
      BY DEF Piece
    <3>2. ValueText(n).kind = "value" /\ NoText.kind = "none"
      BY DEF ValueText, NoText
    <3> QED
      BY <3>1, <3>2, TextFacts, PieceFacts
  <2>2. f \in Seq(Pieces) /\ Len(f) = 1 /\ f[1] = x
    BY <2>1, OneFacts, Zenon
  <2>3. PICK q \in 0 .. Len(f) : LineRead(Opened(TRUE), f, 0, q)
    BY <1>1, <2>2, OpenedFacts, GetLineStands
  <2> HIDE DEF x, f, g
  <2>4. /\ g.stream.eof => \A i \in 0 + 1 .. Len(f) : ~f[i].nl
        /\ ~g.stream.eof => q > 0 /\ f[q].nl
        /\ g.line = IF q = 0 \/ f[0 + 1].text = NoText THEN <<>>
                    ELSE [i \in 1 .. q - 0 |-> f[0 + i].text]
    BY <2>3 DEF LineRead, g
  <2>5. q = 1
    <3>1. ~g.stream.eof
      BY <2>1, <2>2, <2>4
    <3> QED
      BY <2>2, <2>4, <3>1
  <2>6. g.line = [i \in 1 .. 1 |-> f[i].text]
    <3>1. q - 0 = 1 /\ 0 + 1 = 1 /\ \A i \in 1 .. 1 : f[0 + i].text = f[i].text
      BY <2>5
    <3>2. f[1].text # NoText
      BY <2>1, <2>2
    <3> QED
      BY <2>4, <2>5, <3>1, <3>2
  <2>7. [i \in 1 .. 1 |-> f[i].text] = <<ValueText(n)>>
    BY <2>1, <2>2
  <2> QED
    BY <2>6, <2>7 DEF CardText, g, f, x
<1>3. GetLine(Opened(TRUE), <<>>).line = <<>>
  <2> DEFINE f == <<>>
             g == GetLine(Opened(TRUE), f)
  <2>1. f \in Seq(Pieces) /\ Len(f) = 0
    OBVIOUS
  <2>2. PICK q \in 0 .. Len(f) : LineRead(Opened(TRUE), f, 0, q)
    BY <1>1, <2>1, OpenedFacts, GetLineStands
  <2>3. q = 0
    BY <2>1
  <2> HIDE DEF f, g
  <2>4. g.line = IF q = 0 \/ f[0 + 1].text = NoText THEN <<>>
                 ELSE [i \in 1 .. q - 0 |-> f[0 + i].text]
    BY <2>2 DEF LineRead, g
  <2>5. g.line = <<>>
    BY <2>3, <2>4
  <2> QED
    BY <2>5 DEF g, f
<1> QED
  BY <1>2, <1>3

LEMMA ReadMtuKeeps ==
  ASSUME Inv, ReadMtu
  PROVE  Inv'
<1> DEFINE g == GetLine(stream, file)
           e == [cur EXCEPT !.fields["mtu"] = g.line]
<1>1. /\ proc = "up" /\ pc = "mtu"
      /\ IF g.line = <<>> THEN Die /\ UNCHANGED fileVars
         ELSE AddCard(e) /\ stream' = Opened(FALSE) /\ file' = <<>>
  BY DEF ReadMtu, At
<1>2. /\ stream = Opened(TRUE)
      /\ \/ file = <<Piece(ValueText(cur.name), TRUE)>>
         \/ file = <<>> /\ cur.name \notin steady
      /\ cur.fields["address"] \in CardField(cur.name, "address")
      /\ cur.name \in listed
  BY <1>1 DEF Inv, CardInv, NameInHand
<1>3. cur \in EntriesOf("netcard") /\ cur.name \in STRING
  BY <1>1, <1>2, InHandIs, AgentAssumption DEF Inv, TypeInv
<1>4. g.line = CardText(cur.name) \/ (g.line = <<>> /\ cur.name \notin steady)
  BY <1>2, <1>3, MtuLine
<1>5. CASE g.line = <<>>
  <2>1. /\ proc' = "dead" /\ UNCHANGED <<user, address, pc, args, cur, monitorInfo, fileVars>>
        /\ UNCHANGED <<cards, todo, listed, steady>>
    BY <1>1, <1>5 DEF Die, cardVars
  <2>2. cur.name \notin steady
    <3>1. CardText(cur.name) # <<>>
      BY DEF CardText
    <3> QED
      BY <1>4, <1>5, <3>1
  <2> HIDE DEF g, e
  <2>3. TypeInv' /\ FileInv'
    <3>1. ArgsInv'
      BY <1>1, <2>1 DEF Inv, TypeInv, ArgsInv
    <3>2. TypeInv'
      BY <2>1, <3>1 DEF Inv, TypeInv, fileVars
    <3>3. FileInv'
      BY <1>1, <2>1 DEF FileInv, Reading, Tables
    <3> QED
      BY <3>2, <3>3
  <2>4. EndsOnlyFor'
    BY <1>1, <2>1, <2>2 DEF EndsOnlyFor
  <2>5. CardInv'
    BY <2>1, CardsKept DEF Inv, fileVars
  <2> QED
    BY <2>3, <2>4, <2>5 DEF Inv
<1>6. CASE g.line # <<>>
  <2>1. g.line = CardText(cur.name) /\ g.line \in Seq(Text)
    <3>1. CardText(cur.name) \in Seq(Text)
      BY <1>3, CardNames DEF Inv
    <3> QED
      BY <1>4, <1>6, <3>1
  <2>2. AddCard(e) /\ stream' = Opened(FALSE) /\ file' = <<>>
    BY <1>1, <1>6
  <2>3. PICK t \in Seq(Text) : t = g.line
    BY <2>1
  <2>4. PICK h \in [{"address", "mtu"} -> Seq(Text)] : h = cur.fields
    BY <1>3, EntryOf DEF FieldsOf
  <2> DEFINE i == [h EXCEPT !["mtu"] = t]
  <2>5. i \in [{"address", "mtu"} -> Seq(Text)] /\ i["mtu"] = t /\ i["address"] = h["address"]
    OBVIOUS
  <2>6. e = [cur EXCEPT !.fields = i]
    BY <2>3, <2>4
  <2> HIDE DEF g, e, i
  <2>7. e \in EntriesOf("netcard") /\ e.name = cur.name /\ e.fields = i
    BY <1>3, <2>5, <2>6 DEF EntriesOf, EntriesWith, FieldsOf
  <2>8. \A k \in {"address", "mtu"} : e.fields[k] \in CardField(cur.name, k)
    BY <1>2, <2>1, <2>3, <2>4, <2>5, <2>7 DEF CardField
  <2>9. file' \in Seq(Pieces)
    BY <2>2
  <2>10. stream' \in Streams
    BY <2>2, <2>9, OpenedFacts
  <2> QED
    BY <1>1, <2>2, <2>7, <2>8, <2>9, <2>10, AddCardKeeps
<1> QED
  BY <1>5, <1>6

LEMMA CloseDirKeeps ==
  ASSUME Inv, CloseDir
  PROVE  Inv'
<1>1. /\ proc = "up" /\ pc = "netcard" /\ todo = {} /\ pc' = "send"
      /\ UNCHANGED <<processVars, fileVars, args, cur, monitorInfo, cards, todo, listed, steady>>
  BY DEF CloseDir, At, cardVars
<1>2. TypeInv' /\ FileInv'
  <2>1. pc \in CardPlaces /\ pc' \in CardPlaces
    BY <1>1 DEF CardPlaces
  <2>2. cur' \in EntriesOf(InHand(pc'))
    BY <1>1, InHandIs DEF Inv, TypeInv
  <2>3. /\ stream' \in Streams /\ file' \in Seq(Pieces) /\ monitorInfo' \in Seq(Reports)
        /\ steady' \subseteq cards' /\ cards' \subseteq Cards
        /\ todo' \subseteq listed' /\ listed' \subseteq Cards \cup PlainFiles
    BY <1>1 DEF Inv, TypeInv, fileVars
  <2> QED
    BY <1>1, <2>1, <2>2, <2>3, CardTypeKept DEF processVars, fileVars
<1>3. EndsOnlyFor'
  BY <1>1 DEF EndsOnlyFor, processVars
<1>4. CardInv'
  BY <1>1 DEF Inv, CardInv, CardPlaces, CardEntries, Reported, NameInHand, CardField
<1> QED
  BY <1>2, <1>3, <1>4 DEF Inv

LEMMA SendKeeps ==
  ASSUME Inv, Send
  PROVE  Inv'
<1>1. /\ proc = "up" /\ pc = "send" /\ pc' = "asleep" /\ monitorInfo' = <<>>
      /\ cards' = {} /\ listed' = {} /\ steady' = {}
      /\ stream' = Opened(FALSE) /\ file' = <<>>
      /\ UNCHANGED <<processVars, cuts, args, cur, todo>>
  BY DEF Send, At
<1>2. todo' = {}
  BY <1>1 DEF Inv, CardInv
<1>3. file' \in Seq(Pieces) /\ monitorInfo' \in Seq(Reports)
  BY <1>1
<1>4. stream' \in Streams
  BY <1>1, <1>3, OpenedFacts
<1>5. TypeInv' /\ FileInv'
  <2>1. pc \in CardPlaces /\ pc' \in CardPlaces \cup {"asleep"}
    BY <1>1 DEF CardPlaces
  <2>2. cur' \in EntriesOf(InHand(pc'))
    BY <1>1, InHandIs DEF Inv, TypeInv
  <2> QED
    BY <1>1, <1>2, <1>3, <1>4, <2>1, <2>2, CardTypeKept DEF processVars
<1>6. EndsOnlyFor'
  BY <1>1 DEF EndsOnlyFor, processVars
<1>7. CardEntries' = {}
  BY <1>1 DEF CardEntries
<1>8. Reported' = {} /\ NameInHand' = {}
  BY <1>1, <1>7 DEF Reported, NameInHand
<1>9. CardInv'
  BY <1>1, <1>2, <1>7, <1>8 DEF CardInv, CardPlaces
<1> QED
  BY <1>5, <1>6, <1>9 DEF Inv

\* Interfaces that come and go.
LEMMA VanishKeeps ==
  ASSUME Inv, NEW c \in Cards, Vanish(c)
  PROVE  Inv'
<1>1. /\ proc = "up" /\ pc \in {"netcard", "card", "mtu"}
      /\ cards' = cards \ {c} /\ steady' = steady \ {c}
      /\ file' = IF pc = "mtu" /\ cur.name = c THEN <<>> ELSE file
      /\ UNCHANGED <<processVars, pc, stream, cuts, args, cur, monitorInfo, todo, listed>>
  BY DEF Vanish, ReadingCards
<1>2. TypeInv' /\ FileInv'
  <2>1. pc \in CardPlaces /\ pc' \in CardPlaces
    BY <1>1 DEF CardPlaces
  <2>2. cur' \in EntriesOf(InHand(pc'))
    BY <1>1 DEF Inv, TypeInv
  <2>3. /\ stream' \in Streams /\ monitorInfo' \in Seq(Reports)
        /\ steady' \subseteq cards' /\ cards' \subseteq Cards
        /\ todo' \subseteq listed' /\ listed' \subseteq Cards \cup PlainFiles
    BY <1>1 DEF Inv, TypeInv
  <2>4. file' \in Seq(Pieces)
    <3>1. <<>> \in Seq(Pieces) /\ file \in Seq(Pieces)
      BY DEF Inv, TypeInv
    <3> QED
      BY <1>1, <3>1, Zenon
  <2> QED
    BY <1>1, <2>1, <2>2, <2>3, <2>4, CardTypeKept DEF processVars
<1>3. EndsOnlyFor'
  BY <1>1 DEF EndsOnlyFor, processVars
<1>4. CardInv'
  <2>1. CardEntries' = CardEntries /\ Reported' = Reported /\ NameInHand' = NameInHand
    BY <1>1 DEF CardEntries, Reported, NameInHand
  <2>2. \A n, k : CardField(n, k) \subseteq CardField(n, k)'
    BY <1>1 DEF CardField
  <2>3. \A i \in CardEntries', k \in {"address", "mtu"} :
          monitorInfo'[i].fields[k] \in CardField(monitorInfo[i].name, k)'
    <3>1. \A i \in CardEntries, k \in {"address", "mtu"} :
            monitorInfo[i].fields[k] \in CardField(monitorInfo[i].name, k)
      BY DEF Inv, CardInv
    <3>2. \A n, k : CardField(n, k)' =
                      {CardText(n)} \cup (IF n \in steady' THEN {} ELSE {Default(k)})
      BY DEF CardField
    <3> QED
      BY <1>1, <2>1, <2>2, <3>1, <3>2
  <2>4. pc \in {"card", "mtu"} =>
          /\ cur'.fields["address"] \in CardField(cur.name, "address")'
          /\ cur'.fields["mtu"] = Default("mtu")
    BY <1>1 DEF Inv, CardInv, CardField
  <2>5. pc = "mtu" =>
          /\ stream' = Opened(TRUE)
          /\ \/ file' = <<Piece(ValueText(cur'.name), TRUE)>>
             \/ file' = <<>> /\ cur'.name \notin steady'
    BY <1>1 DEF Inv, CardInv
  <2>6. /\ Reported \cup NameInHand \cup todo = listed
        /\ todo \cap (Reported \cup NameInHand) = {} /\ NameInHand \cap Reported = {}
        /\ \A i, j \in CardEntries : monitorInfo[i].name = monitorInfo[j].name => i = j
    BY DEF Inv, CardInv
  <2> QED
    BY <1>1, <2>1, <2>3, <2>4, <2>5, <2>6 DEF CardInv, CardPlaces
<1> QED
  BY <1>2, <1>3, <1>4 DEF Inv

LEMMA AppearKeeps ==
  ASSUME Inv, NEW c \in Cards, Appear(c)
  PROVE  Inv'
<1>1. /\ proc = "up" /\ pc \in {"netcard", "card", "mtu"}
      /\ cards' = cards \cup {c}
      /\ UNCHANGED <<processVars, pc, fileVars, args, cur, monitorInfo, todo, listed, steady>>
  BY DEF Appear, ReadingCards
<1>2. TypeInv' /\ FileInv'
  <2>1. pc \in CardPlaces /\ pc' \in CardPlaces
    BY <1>1 DEF CardPlaces
  <2>2. cur' \in EntriesOf(InHand(pc'))
    BY <1>1 DEF Inv, TypeInv
  <2>3. /\ stream' \in Streams /\ file' \in Seq(Pieces) /\ monitorInfo' \in Seq(Reports)
        /\ steady' \subseteq cards' /\ cards' \subseteq Cards
        /\ todo' \subseteq listed' /\ listed' \subseteq Cards \cup PlainFiles
    BY <1>1 DEF Inv, TypeInv, fileVars
  <2> QED
    BY <1>1, <2>1, <2>2, <2>3, CardTypeKept DEF processVars, fileVars
<1>3. EndsOnlyFor'
  BY <1>1 DEF EndsOnlyFor, processVars
<1>4. CardInv'
  BY <1>1, CardsKept DEF Inv, fileVars
<1> QED
  BY <1>2, <1>3, <1>4 DEF Inv

-----------------------------------------------------------------------------
(***************************************************************************)
(* The invariant holds always.                                             *)
(***************************************************************************)
LEMMA StutterKeeps ==
  ASSUME Inv, UNCHANGED vars
  PROVE  Inv'
<1>1. UNCHANGED <<proc, user, address, pc, stream, file, cuts, args, cur, monitorInfo,
                  cards, todo, listed, steady>>
  BY DEF vars, processVars, fileVars, cardVars
<1>2. TypeInv'
  BY <1>1 DEF Inv, TypeInv, ArgsInv
<1>3. FileInv'
  <2> SUFFICES ASSUME pc' \in Reading
               PROVE  /\ pc' # "metric" => cuts' = 0
                      /\ cuts' = 0 =>
                           /\ pc' = "metric" => MetricsSoFar'
                           /\ \E p \in 0 .. Len(file') :
                                /\ StandsAt(stream', file', p)
                                /\ pc' \in Tables /\ proc' = "up" => CopiedTo(p)'
    BY DEF FileInv
  <2>1. /\ pc # "metric" => cuts = 0
        /\ cuts = 0 =>
             /\ pc = "metric" => MetricsSoFar
             /\ \E p \in 0 .. Len(file) :
                  StandsAt(stream, file, p) /\ (pc \in Tables /\ proc = "up" => CopiedTo(p))
    BY <1>1 DEF Inv, FileInv
  <2>2. MetricsSoFar' <=> MetricsSoFar
    BY <1>1 DEF MetricsSoFar
  <2>3. \A p : CopiedTo(p) => CopiedTo(p)'
    BY <1>1 DEF CopiedTo
  <2> QED
    BY <1>1, <2>1, <2>2, <2>3
<1>4. CardInv'
  BY <1>1, CardsKept DEF Inv
<1>5. EndsOnlyFor'
  BY <1>1 DEF Inv, EndsOnlyFor, LookedFor
<1> QED
  BY <1>2, <1>3, <1>4, <1>5 DEF Inv

LEMMA NextKeeps ==
  ASSUME Inv, [Next]_vars
  PROVE  Inv'
<1>1. CASE NoName
  BY <1>1, NoNameKeeps
<1>2. CASE BeginRound
  BY <1>2, BeginRoundKeeps
<1>3. CASE CpuLine \/ CpuEnd
  BY <1>3, CpuLineKeeps, CpuEndKeeps
<1>4. CASE BlockLine \/ BlockEnd
  BY <1>4, BlockLineKeeps, BlockEndKeeps
<1>5. CASE Softirq \/ Load
  BY <1>5, IndexedSomeKeeps, IndexedNothingKeeps DEF Softirq, Load
<1>6. CASE MemLine \/ MetricLine \/ OsLine
  BY <1>6, TableLineKeeps DEF MemLine, MetricLine, OsLine, Tables
<1>7. CASE MemEnd \/ MetricEnd \/ OsEnd
  BY <1>7, TableEndKeeps DEF MemEnd, MetricEnd, OsEnd, Tables
<1>8. CASE OpenDir \/ CloseDir
  BY <1>8, OpenDirKeeps, CloseDirKeeps
<1>9. CASE \E n \in Cards \cup PlainFiles : NextCard(n)
  BY <1>9, NextCardKeeps
<1>10. CASE OpenMtu \/ NoMtu \/ ReadMtu
  BY <1>10, OpenMtuKeeps, NoMtuKeeps, ReadMtuKeeps
<1>11. CASE Send \/ Start
  BY <1>11, SendKeeps, StartKeeps
<1>12. CASE WriteMetric \/ RewriteMetrics
  BY <1>12, WriteMetricKeeps, RewriteMetricsKeeps
<1>13. CASE \E c \in Cards : Vanish(c) \/ Appear(c)
  BY <1>13, VanishKeeps, AppearKeeps
<1>14. CASE UNCHANGED vars
  BY <1>14, StutterKeeps
<1> QED
  BY <1>1, <1>2, <1>3, <1>4, <1>5, <1>6, <1>7, <1>8, <1>9, <1>10, <1>11, <1>12, <1>13, <1>14
     DEF Next, Round, Environment

LEMMA AlwaysInv == Spec => []Inv
<1>1. Init => Inv
  BY InitKeeps
<1>2. Inv /\ [Next]_vars => Inv'
  BY NextKeeps
<1> QED
  BY <1>1, <1>2, PTL DEF Spec

-----------------------------------------------------------------------------
(***************************************************************************)
(* The processors of /proc/cpuinfo.                                        *)
(***************************************************************************)

\* The stream stands at p, and no line that is whole comes behind its end.
CpuPlace(s, f, p) ==
  /\ StandsAt(s, f, p)
  /\ s.open \/ f = <<>>
  /\ s.eof => \A i \in Whole(f) : i <= p

Counted(f, p) == {i \in Processors(f) : i <= p}

\* The message has the processors of the file as far as p, and nothing else.
ReportedTo(p) ==
  /\ Len(monitorInfo) = Cardinality(Counted(file, p))
  /\ \A i \in Counted(file, p) :
       monitorInfo[Cardinality(Counted(file, i))] = ProcessorAt(file, i)

OwnUpTo(f, i, p, k) == {j \in OwnLines(f, i, k) : j <= p}

\* Processor i is in hand, with the values of its lines as far as p; its words are
\* kept until a line follows them.
InBlock(i, p) ==
  /\ i <= p /\ ~Apart(file, i, p)
  /\ ReportedTo(i - 1)
  /\ cur.name = file[i + 1].text.name
  /\ \A k \in CpuFields : cur.fields[k] = LastValue(file, OwnUpTo(file, i, p, k), k)
  /\ args # <<>> <=> \A b \in LineStarts(file) : ~(i < b /\ b <= p)

CpuInv ==
  /\ pc = "asleep" => monitorInfo = <<>>
  /\ pc \in {"cpu_info", "cpu_block"} => ProcessorsApart(file)
  /\ At("cpu_info") =>
       \E p \in 0 .. Len(file) : CpuPlace(stream, file, p) /\ ReportedTo(p)
  /\ At("cpu_block") =>
       \E p \in 0 .. Len(file) :
         CpuPlace(stream, file, p) /\ \E i \in Processors(file) : InBlock(i, p)
  /\ ProcessorsOnce

\* A whole line is from p + 1 to q.
LineAt(f, p, q) ==
  /\ q > p /\ p + 1 \in LineStarts(f)
  /\ f[q].nl /\ \A i \in p + 1 .. q - 1 : ~f[i].nl

\* No line that is whole comes behind p, or an empty one, as far as q.
LineLost(f, p, q) ==
  \/ \A i \in Whole(f) : i <= p
  \/ LineAt(f, p, q) /\ f[p + 1].text = NoText

LEMMA WholeFacts ==
  ASSUME NEW f \in Seq(Pieces)
  PROVE  /\ Processors(f) \subseteq Whole(f) /\ Whole(f) \subseteq LineStarts(f)
         /\ LineStarts(f) \subseteq 1 .. Len(f) /\ LineStarts(f) \subseteq Nat
         /\ \A k, i : OwnLines(f, i, k) \subseteq Whole(f)
BY DEF Processors, Whole, LineStarts, OwnLines

\* The processors that are counted are finitely many.
LEMMA CountedFacts ==
  ASSUME NEW f \in Seq(Pieces), NEW p
  PROVE  IsFiniteSet(Counted(f, p)) /\ Cardinality(Counted(f, p)) \in Nat
<1>1. Counted(f, p) \subseteq 1 .. Len(f) /\ Len(f) \in Nat
  BY WholeFacts DEF Counted
<1>2. IsFiniteSet(1 .. Len(f))
  BY <1>1, FS_Interval
<1>3. IsFiniteSet(Counted(f, p))
  BY <1>1, <1>2, FS_Subset
<1> QED
  BY <1>3, FS_CardinalityType

\* One processor more is one more in number.
LEMMA CountNext ==
  ASSUME NEW f \in Seq(Pieces), NEW i \in Processors(f)
  PROVE  /\ Cardinality(Counted(f, i)) = Cardinality(Counted(f, i - 1)) + 1
         /\ \A j \in Counted(f, i - 1) :
              Cardinality(Counted(f, j)) \in 1 .. Cardinality(Counted(f, i - 1))
<1>1. i \in Nat /\ \A j \in Processors(f) : j \in Nat
  BY WholeFacts
<1>2. Counted(f, i) = Counted(f, i - 1) \cup {i} /\ i \notin Counted(f, i - 1)
  <2>1. /\ \A j \in Processors(f) : j <= i <=> j <= i - 1 \/ j = i
        /\ i <= i /\ ~(i <= i - 1)
    BY <1>1
  <2>2. \A j : j \in Counted(f, i) <=> j \in Counted(f, i - 1) \cup {i}
    BY <2>1, Zenon DEF Counted
  <2> QED
    BY <2>1, <2>2 DEF Counted
<1>3. Cardinality(Counted(f, i)) = Cardinality(Counted(f, i - 1)) + 1
  BY <1>2, CountedFacts, FS_AddElement
<1>4. ASSUME NEW j \in Counted(f, i - 1)
      PROVE  Cardinality(Counted(f, j)) \in 1 .. Cardinality(Counted(f, i - 1))
  <2>1. Counted(f, j) \subseteq Counted(f, i - 1) /\ j \in Counted(f, j)
    <3>1. \A n \in Counted(f, i - 1) : n \in Nat /\ n <= i - 1 /\ n \in Processors(f)
      BY <1>1 DEF Counted
    <3>2. j \in Nat /\ j <= i - 1 /\ j <= j /\ j \in Processors(f)
      BY <3>1
    <3>3. \A n \in Processors(f) : n <= j => n <= i - 1
      BY <1>1, <3>2
    <3> QED
      BY <3>2, <3>3, Zenon DEF Counted
  <2>2. Cardinality(Counted(f, j)) <= Cardinality(Counted(f, i - 1))
    BY <2>1, CountedFacts, FS_Subset
  <2>3. Cardinality(Counted(f, j)) # 0
    BY <2>1, CountedFacts, FS_EmptySet
  <2> QED
    BY <2>2, <2>3, CountedFacts
<1> QED
  BY <1>3, <1>4

\* A line that is taken moves the place, and takes a processor's number or none.
LEMMA LineCounted ==
  ASSUME NEW f \in Seq(Pieces), NEW p \in 0 .. Len(f), NEW q \in 0 .. Len(f), LineAt(f, p, q)
  PROVE  /\ \A j \in LineStarts(f) : j <= q <=> j <= p \/ j = p + 1
         /\ p + 1 \in Whole(f)
         /\ \A i \in Nat : i <= p => (Apart(f, i, q) <=> Apart(f, i, p) \/ f[p + 1].text = NoText)
<1>1. p \in Nat /\ q \in Nat /\ q \in p + 1 .. Len(f)
  BY DEF LineAt
<1>2. \A j \in LineStarts(f) : j <= q <=> j <= p \/ j = p + 1
  BY <1>1, OneLine DEF LineAt
<1>3. p + 1 \in Whole(f)
  <2>1. q \in Ends(f) /\ q >= p + 1
    BY <1>1, EndsFacts DEF LineAt
  <2> QED
    BY <2>1 DEF LineAt, Whole
<1>4. ASSUME NEW i \in Nat, i <= p
      PROVE  Apart(f, i, q) <=> Apart(f, i, p) \/ f[p + 1].text = NoText
  <2>1. i < p + 1 /\ p + 1 \in LineStarts(f)
    BY <1>1, <1>4 DEF LineAt
  <2> QED
    BY <1>2, <2>1 DEF Apart
<1> QED
  BY <1>2, <1>3, <1>4

\* A processor ends with the line "power management", an empty one, or the file: no
\* other has come since, and no line of it comes any more.
LEMMA BlockOver ==
  ASSUME NEW f \in Seq(Pieces), ProcessorsApart(f), NEW p \in 0 .. Len(f), NEW q \in 0 .. Len(f),
         NEW i \in Processors(f), i <= p, ~Apart(f, i, p), p <= q,
         \/ LineLost(f, p, q)
         \/ LineAt(f, p, q) /\ f[p + 1].text = KeyText(LastKey)
  PROVE  /\ \A j \in Processors(f) : j <= q <=> j <= i
         /\ \A k \in CpuFields : \A j \in OwnLines(f, i, k) : j <= p
<1> DEFINE P == Processors(f)
           B == LineStarts(f)
<1>1. /\ P \subseteq B /\ P \subseteq Whole(f) /\ B \subseteq Nat
      /\ \A j \in P : f[j].text = KeyText("processor")
      /\ \A j, k \in B : j < k /\ f[j].text = KeyText("processor")
                                /\ f[k].text = KeyText("processor") => Apart(f, j, k)
  BY WholeFacts DEF Processors, ProcessorsApart
<1>2. ASSUME NEW j \in P, i < j, j <= p PROVE FALSE
  <2>1. Apart(f, i, j)
    BY <1>1, <1>2
  <2>2. PICK b \in B : i < b /\ b <= j /\ f[b].text = NoText
    BY <2>1 DEF Apart
  <2>3. b \in Nat /\ j \in Nat /\ p \in Nat
    BY <1>1
  <2>4. b <= p
    BY <1>2, <2>2, <2>3
  <2> QED
    BY <2>2, <2>4 DEF Apart
<1>3. ASSUME NEW k \in CpuFields, NEW j \in OwnLines(f, i, k)
      PROVE  /\ j \in Whole(f) /\ j \in LineStarts(f) /\ j \in Nat
             /\ f[j].text = KeyText(k) /\ ~Apart(f, i, j)
  BY <1>3, WholeFacts DEF OwnLines
<1>4. CASE \A j \in Whole(f) : j <= p
  BY <1>1, <1>2, <1>3, <1>4
<1>5. ASSUME LineAt(f, p, q), f[p + 1].text # KeyText("processor"),
             \A k \in CpuFields : \A j \in OwnLines(f, i, k) : j <= p
      PROVE  /\ \A j \in Processors(f) : j <= q <=> j <= i
             /\ \A k \in CpuFields : \A j \in OwnLines(f, i, k) : j <= p
  <2>1. ASSUME NEW j \in Processors(f) PROVE j <= q <=> j <= i
    <3>1. j <= q <=> j <= p \/ j = p + 1
      BY <1>1, <1>5, LineCounted
    <3>2. j # p + 1
      BY <1>1, <1>5
    <3> QED
      BY <1>1, <1>2, <3>1, <3>2
  <2> QED
    BY <1>5, <2>1
<1>6. CASE LineAt(f, p, q) /\ f[p + 1].text = NoText
  <2>1. ASSUME NEW k \in CpuFields, NEW j \in OwnLines(f, i, k), ~(j <= p) PROVE FALSE
    <3>1. j \in Nat /\ ~Apart(f, i, j)
      BY <1>3
    <3>2. i < p + 1 /\ p + 1 <= j /\ p + 1 \in LineStarts(f)
      BY <1>1, <1>6, <2>1, <3>1 DEF LineAt
    <3> QED
      BY <1>6, <3>1, <3>2 DEF Apart
  <2> QED
    BY <1>5, <1>6, <2>1, TextsDiffer
<1>7. CASE LineAt(f, p, q) /\ f[p + 1].text = KeyText(LastKey)
  <2>1. ASSUME NEW k \in CpuFields, NEW j \in OwnLines(f, i, k), ~(j <= p) PROVE FALSE
    <3>1. /\ j \in Nat /\ j \in LineStarts(f)
          /\ f[j].text = KeyText(k) /\ ~Apart(f, i, j)
      BY <1>3
    <3>2. j # p + 1
      BY <1>7, <3>1, CpuAssumption, TextsDiffer
    <3>3. p + 1 < j /\ p + 1 \in LineStarts(f)
      BY <1>1, <1>7, <2>1, <3>1, <3>2 DEF LineAt
    <3>4. Apart(f, p + 1, j)
      BY <1>7, <3>1, <3>3 DEF ProcessorsApart
    <3>5. PICK b \in LineStarts(f) : p + 1 < b /\ b <= j /\ f[b].text = NoText
      BY <3>4 DEF Apart
    <3>6. i < b
      BY <1>1, <3>5
    <3> QED
      BY <3>1, <3>5, <3>6 DEF Apart
  <2> QED
    BY <1>5, <1>7, <2>1, TextsDiffer
<1> QED
  BY <1>4, <1>6, <1>7 DEF LineLost

\* What a line adds to those of the processor in hand.
LEMMA OwnNext ==
  ASSUME NEW f \in Seq(Pieces), NEW p \in 0 .. Len(f), NEW q \in 0 .. Len(f), LineAt(f, p, q),
         NEW i \in Nat, i <= p, ~Apart(f, i, p), f[p + 1].text # NoText, NEW k
  PROVE  \A j : j \in OwnUpTo(f, i, q, k) <=>
                  \/ j \in OwnUpTo(f, i, p, k)
                  \/ /\ j = p + 1 /\ f[p + 1].text = KeyText(k)
                     /\ \E b \in LineStarts(f) : i < b /\ b <= p
<1>1. /\ \A j \in LineStarts(f) : j \in Nat /\ (j <= q <=> j <= p \/ j = p + 1)
      /\ p + 1 \in Whole(f) /\ p \in Nat /\ q \in Nat
      /\ ~Apart(f, i, q)
  BY LineCounted, WholeFacts
<1>2. /\ \A j \in OwnLines(f, i, k) : j \in LineStarts(f)
      /\ p + 1 \in LineStarts(f)
  BY <1>1, WholeFacts
<1>3. p + 1 \in OwnLines(f, i, k) <=>
        f[p + 1].text = KeyText(k) /\ \E b \in LineStarts(f) : i < b /\ b <= p
  <2>1. ~Apart(f, i, p + 1)
    <3>1. p + 1 <= q
      BY <1>1, <1>2
    <3> QED
      BY <1>1, <3>1 DEF Apart
  <2>2. \A b \in LineStarts(f) : b < p + 1 <=> b <= p
    BY <1>1
  <2> QED
    BY <1>1, <2>1, <2>2 DEF OwnLines
<1> QED
  BY <1>1, <1>2, <1>3 DEF OwnUpTo

\* Where the stream is when a line has been read, and when none has.
LEMMA CpuLineRead ==
  ASSUME NEW s \in Streams, NEW f \in Seq(Pieces), NEW a \in Seq(Seq(Text)),
         NEW p \in 0 .. Len(f), CpuPlace(s, f, p), ReadLine(s, f, a).ok
  PROVE  LET r == ReadLine(s, f, a)
         IN  \E q \in 0 .. Len(f) :
               /\ CpuPlace(r.stream, f, q) /\ LineAt(f, p, q) /\ f[p + 1].text # NoText
               /\ \E w : r.args = a \o w /\ WordsAt(f, p, q, w)
<1> DEFINE r == ReadLine(s, f, a)
<1>1. StandsAt(s, f, p) /\ (s.open \/ f = <<>>)
  BY DEF CpuPlace
<1>2. PICK q \in p + 1 .. Len(f) : LineTaken(r, f, a, p, q)
  BY <1>1, ReadLineStands
<1>3. r.stream.open = s.open
  BY ReadLineFacts
<1> HIDE DEF r
<1>4. q \in 0 .. Len(f) /\ q > p
  BY <1>2
<1>5. CpuPlace(r.stream, f, q)
  BY <1>1, <1>2, <1>3 DEF LineTaken, CpuPlace
<1>6. LineAt(f, p, q)
  BY <1>2, <1>4 DEF LineTaken, LineAt
<1> QED
  BY <1>2, <1>4, <1>5, <1>6, Zenon DEF LineTaken, r

LEMMA CpuNoLine ==
  ASSUME NEW s \in Streams, NEW f \in Seq(Pieces), NEW a \in Seq(Seq(Text)),
         NEW p \in 0 .. Len(f), CpuPlace(s, f, p), ~ReadLine(s, f, a).ok
  PROVE  LET t == ReadLine(s, f, a).stream
         IN  \E q \in 0 .. Len(f) :
               /\ p <= q /\ CpuPlace(t, f, q) /\ LineLost(f, p, q)
               /\ t.eof => \A i \in Whole(f) : i <= p
<1> DEFINE t == ReadLine(s, f, a).stream
<1>1. StandsAt(s, f, p) /\ (s.open \/ f = <<>>) /\ (s.eof => \A i \in Whole(f) : i <= p)
  BY DEF CpuPlace
<1>2. t.open = s.open /\ t = GetLine(s, f).stream /\ p \in Nat
  BY ReadLineFacts
<1>3. CASE s.open /\ ~s.eof
  <2>1. PICK q \in p .. Len(f) : StandsAt(t, f, q) /\ NoLineTaken(t, f, p, q)
    BY <1>1, <1>3, NoLineStands
  <2> HIDE DEF t
  <2>2. q \in 0 .. Len(f) /\ p <= q /\ q \in Nat
    BY <2>1
  <2>3. CASE t.eof
    <3>1. \A i \in p + 1 .. Len(f) : ~f[i].nl
      BY <2>1, <2>3 DEF NoLineTaken
    <3>2. ASSUME NEW i \in Whole(f), ~(i <= p) PROVE FALSE
      <4>1. i \in Nat /\ \E j \in Ends(f) : j >= i
        BY WholeFacts DEF Whole
      <4>2. PICK j \in Ends(f) : j >= i
        BY <4>1
      <4>3. j \in 1 .. Len(f) /\ f[j].nl
        BY EndsFacts
      <4>4. j \in p + 1 .. Len(f)
        BY <1>2, <3>2, <4>1, <4>2, <4>3
      <4> QED
        BY <3>1, <4>3, <4>4
    <3>3. \A i \in Whole(f) : i \in Nat /\ i <= p
      BY <3>2, WholeFacts
    <3>4. \A i \in Whole(f) : i <= q
      BY <1>2, <2>2, <3>3
    <3> QED
      BY <1>1, <1>2, <2>1, <2>2, <3>3, <3>4 DEF CpuPlace, LineLost, t
  <2>4. CASE ~t.eof
    <3>1. LineAt(f, p, q) /\ f[p + 1].text = NoText
      BY <2>1, <2>4 DEF NoLineTaken, LineAt
    <3> QED
      BY <1>1, <1>2, <2>1, <2>2, <2>4, <3>1 DEF CpuPlace, LineLost, t
  <2> QED
    BY <2>3, <2>4
<1>4. CASE ~(s.open /\ ~s.eof)
  <2>1. t = s
    BY <1>2, <1>4, GetLineIs
  <2>2. \A i \in Whole(f) : i <= p
    <3>1. CASE f = <<>>
      BY <3>1 DEF Whole, LineStarts
    <3>2. CASE s.open
      BY <1>1, <1>4, <3>2
    <3> QED
      BY <1>1, <3>1, <3>2
  <2> HIDE DEF t
  <2>3. p <= p
    BY <1>2
  <2> QED
    BY <2>1, <2>2, <2>3 DEF LineLost, t
<1> QED
  BY <1>3, <1>4

\* Nothing is reported anew when no processor has come.
LEMMA ReportedKept ==
  ASSUME NEW p, NEW q, ReportedTo(p), UNCHANGED <<file, monitorInfo>>,
         \A j \in Processors(file) : j <= q <=> j <= p
  PROVE  ReportedTo(q)'
<1>1. Counted(file, q) = Counted(file, p)
  BY DEF Counted
<1> QED
  BY <1>1 DEF ReportedTo

LEMMA LostCounted ==
  ASSUME NEW f \in Seq(Pieces), NEW p \in 0 .. Len(f), NEW q \in 0 .. Len(f), p <= q,
         LineLost(f, p, q)
  PROVE  \A j \in Processors(f) : j <= q <=> j <= p
<1> TAKE j \in Processors(f)
<1>1. /\ j \in Nat /\ p \in Nat /\ q \in Nat /\ j \in Whole(f) /\ j \in LineStarts(f)
      /\ f[j].text = KeyText("processor")
  BY WholeFacts DEF Processors
<1>2. CASE \A i \in Whole(f) : i <= p
  BY <1>1, <1>2
<1>3. CASE LineAt(f, p, q) /\ f[p + 1].text = NoText
  <2>1. j <= q <=> j <= p \/ j = p + 1
    BY <1>1, <1>3, LineCounted
  <2>2. j # p + 1
    BY <1>1, <1>3, TextsDiffer
  <2> QED
    BY <2>1, <2>2
<1> QED
  BY <1>2, <1>3 DEF LineLost

LEMMA BeginRoundReports ==
  ASSUME Inv, CpuInv, BeginRound
  PROVE  CpuInv'
<1>1. /\ pc' = "cpu_info" /\ Open("cpu_info") /\ monitorInfo' = <<>>
  BY DEF BeginRound, At, CpuInv
<1>2. /\ file' \in Seq(Pieces) /\ StandsAt(stream', file', 0) /\ ~stream'.eof
      /\ stream'.open \/ file' = <<>>
  BY <1>1, OpenFacts
<1>3. ProcessorsApart(file')
  <2>1. CASE file' \in CpuFiles
    BY <2>1, CpuAssumption
  <2>2. CASE file' = <<>>
    BY <2>2 DEF ProcessorsApart, LineStarts
  <2> QED
    BY <1>1, <2>1, <2>2 DEF Open, FilesOf
<1>4. Counted(file', 0) = {}
  BY <1>2, WholeFacts DEF Counted
<1>5. CpuPlace(stream', file', 0) /\ ReportedTo(0)'
  <2>1. Cardinality({}) = 0 /\ Len(<<>>) = 0
    BY FS_EmptySet
  <2> QED
    BY <1>1, <1>2, <1>4, <2>1 DEF CpuPlace, ReportedTo
<1>6. 0 \in 0 .. Len(file')
  BY <1>2
<1>7. ProcessorsOnce'
  BY <1>1 DEF ProcessorsOnce, At
<1> QED
  BY <1>1, <1>3, <1>5, <1>6, <1>7 DEF CpuInv, At

LEMMA CpuLineReports ==
  ASSUME Inv, CpuInv, CpuLine
  PROVE  CpuInv'
<1> DEFINE r == ReadLine(stream, file, args)
           new == Is(r.args, "processor")
<1>1. /\ proc = "up" /\ pc = "cpu_info" /\ args = <<>> /\ stream' = r.stream /\ UNCHANGED file
      /\ IF new /\ ~HasValue(r.args) THEN Die
         ELSE /\ IF new THEN /\ pc' = "cpu_block" /\ args' = r.args
                             /\ cur' = CpuInfo(r.args[2][1].name)
                 ELSE args' = <<>> /\ UNCHANGED <<pc, cur>>
              /\ UNCHANGED <<processVars, monitorInfo, cardVars>>
  BY DEF CpuLine, At, ReadLineBySplitchar, Inv, TypeInv, ArgsInv
<1>2. /\ stream \in Streams /\ file \in Seq(Pieces) /\ args \in Seq(Seq(Text))
  BY <1>1, CpuRead
<1>3. PICK p \in 0 .. Len(file) : CpuPlace(stream, file, p) /\ ReportedTo(p)
  BY <1>1 DEF CpuInv, At
<1>4. ProcessorsApart(file) /\ ProcessorsOnce'
  <2>1. pc' \in {"cpu_info", "cpu_block"}
    BY <1>1 DEF Die
  <2> QED
    BY <1>1, <2>1 DEF CpuInv, ProcessorsOnce, At
<1>5. CASE r.ok
  <2>1. PICK q \in 0 .. Len(file) :
          /\ CpuPlace(r.stream, file, q) /\ LineAt(file, p, q) /\ file[p + 1].text # NoText
          /\ \E w : r.args = args \o w /\ WordsAt(file, p, q, w)
    BY <1>2, <1>3, <1>5, CpuLineRead
  <2>2. /\ r.args \in Seq(Seq(Text))
        /\ Len(r.args) = IF q = p + 1 THEN 1 ELSE 2
        /\ r.args[1][1] = file[p + 1].text
        /\ q > p + 1 => r.args[2] = [i \in 1 .. q - p - 1 |-> file[p + 1 + i].text]
    <3>1. PICK w : r.args = args \o w /\ WordsAt(file, p, q, w)
      BY <2>1
    <3>2. w \in Seq(Seq(Text)) /\ r.args = w
      BY <1>1, <3>1 DEF WordsAt
    <3> QED
      BY <3>1, <3>2 DEF WordsAt
  <2> HIDE DEF r
  <2>3. /\ \A j \in LineStarts(file) : j <= q <=> j <= p \/ j = p + 1
        /\ p + 1 \in Whole(file) /\ p \in Nat /\ q \in Nat /\ p < q
        /\ \A j \in LineStarts(file) : j \in Nat
        /\ \A j \in Processors(file) : j \in LineStarts(file)
    BY <1>2, <2>1, LineCounted, WholeFacts DEF LineAt
  <2>4. new <=> file[p + 1].text = KeyText("processor")
    <3>1. r.args # <<>>
      BY <2>2
    <3> QED
      BY <2>2, <3>1 DEF Is
  <2>5. CASE new /\ HasValue(r.args)
    <3>1. q > p + 1 /\ Len(r.args) = 2
      BY <2>1, <2>2, <2>3, <2>5 DEF HasValue
    <3>2. r.args[2][1] = file[p + 2].text
      <4>1. 1 \in 1 .. q - p - 1 /\ p + 1 + 1 = p + 2
        BY <2>3, <3>1
      <4> QED
        BY <2>2, <3>1, <4>1
    <3>3. /\ pc' = "cpu_block" /\ args' = r.args /\ cur' = CpuInfo(file[p + 2].text.name)
          /\ monitorInfo' = monitorInfo
      BY <1>1, <2>5, <3>2
    <3>4. p + 1 \in Processors(file)
      BY <2>3, <2>4, <2>5 DEF Processors
    <3>5. \A b \in LineStarts(file) : ~(p + 1 < b /\ b <= q)
      BY <2>3
    <3>6. InBlock(p + 1, q)'
      <4>1. p + 1 <= q /\ ~Apart(file, p + 1, q)
        BY <3>1, <3>5 DEF Apart
      <4>2. ReportedTo(p + 1 - 1)'
        BY <1>1, <1>3, <2>3, <3>3 DEF ReportedTo
      <4>3. cur'.name = file[p + 2].text.name /\ p + 1 + 1 = p + 2
        BY <2>3, <3>3 DEF CpuInfo, Entry
      <4>4. ASSUME NEW k \in CpuFields
            PROVE  cur'.fields[k] = LastValue(file, OwnUpTo(file, p + 1, q, k), k)
        <5>1. OwnUpTo(file, p + 1, q, k) = {}
          <6> SUFFICES ASSUME NEW j \in OwnUpTo(file, p + 1, q, k) PROVE FALSE
            OBVIOUS
          <6>1. j <= q /\ j \in LineStarts(file) /\ \E b \in LineStarts(file) : p + 1 < b /\ b < j
            BY <1>2, WholeFacts DEF OwnUpTo, OwnLines
          <6> QED
            BY <2>3, <3>5, <6>1
        <5> QED
          BY <3>3, <5>1 DEF LastValue, CpuInfo, Entry
      <4>5. args' # <<>>
        BY <2>2, <3>1, <3>3
      <4> QED
        BY <1>1, <3>5, <4>1, <4>2, <4>3, <4>4, <4>5 DEF InBlock
    <3> QED
      BY <1>1, <1>4, <2>1, <3>3, <3>4, <3>6 DEF CpuInv, At
  <2>6. CASE ~new
    <3>1. pc' = "cpu_info" /\ UNCHANGED <<file, monitorInfo>>
      BY <1>1, <2>6
    <3>2. \A j \in Processors(file) : j <= q <=> j <= p
      BY <2>3, <2>4, <2>6 DEF Processors
    <3>3. ReportedTo(q)'
      BY <1>3, <3>1, <3>2, ReportedKept
    <3> QED
      BY <1>1, <1>4, <2>1, <3>1, <3>3 DEF CpuInv, At
  <2>7. CASE new /\ ~HasValue(r.args)
    <3>1. proc' = "dead" /\ pc' = "cpu_info"
      BY <1>1, <2>7 DEF Die
    <3> QED
      BY <1>1, <1>4, <3>1 DEF CpuInv, At
  <2> QED
    BY <2>5, <2>6, <2>7
<1>6. CASE ~r.ok
  <2>1. PICK q \in 0 .. Len(file) :
          p <= q /\ CpuPlace(r.stream, file, q) /\ LineLost(file, p, q)
    BY <1>2, <1>3, <1>6, CpuNoLine
  <2>2. ~new
    <3>1. r.args = <<>>
      BY <1>1, <1>2, <1>6, ReadLineFacts
    <3> QED
      BY <3>1 DEF Is
  <2>3. pc' = "cpu_info" /\ UNCHANGED <<file, monitorInfo>>
    BY <1>1, <2>2
  <2>4. \A j \in Processors(file) : j <= q <=> j <= p
    BY <1>2, <2>1, LostCounted
  <2>5. ReportedTo(q)'
    BY <1>3, <2>3, <2>4, ReportedKept
  <2> QED
    BY <1>1, <1>4, <2>1, <2>3, <2>5 DEF CpuInv, At
<1> QED
  BY <1>5, <1>6

LEMMA CpuEndReports ==
  ASSUME Inv, CpuInv, CpuEnd
  PROVE  CpuInv'
<1> DEFINE r == ReadLine(stream, file, args)
<1>1. /\ proc = "up" /\ pc = "cpu_info" /\ ~r.ok /\ r.stream.eof
      /\ pc' = "softirq" /\ UNCHANGED <<file, monitorInfo>>
  <2>1. Begin("softirq") /\ "softirq" \notin Tables
    BY DEF CpuEnd, After, Tables
  <2> QED
    BY <2>1 DEF CpuEnd, At, Begin, ReadLineBySplitchar, IsEnd, fileVars
<1>2. /\ stream \in Streams /\ file \in Seq(Pieces) /\ args \in Seq(Seq(Text))
  BY <1>1, CpuRead
<1>3. PICK p \in 0 .. Len(file) : CpuPlace(stream, file, p) /\ ReportedTo(p)
  BY <1>1 DEF CpuInv, At
<1>4. \A i \in Whole(file) : i <= p
  BY <1>1, <1>2, <1>3, CpuNoLine
<1>5. Counted(file, p) = Processors(file)
  BY <1>2, <1>4, WholeFacts DEF Counted
<1>6. ProcessorsOnce'
  BY <1>1, <1>3, <1>5 DEF ProcessorsOnce, ReportedTo, Counted
<1> QED
  BY <1>1, <1>6 DEF CpuInv, At

LEMMA BlockLineReports ==
  ASSUME Inv, CpuInv, BlockLine
  PROVE  CpuInv'
<1> DEFINE r == ReadLine(stream, file, args)
<1>1. /\ proc = "up" /\ pc = "cpu_block" /\ r.ok /\ stream' = r.stream /\ UNCHANGED file
      /\ IF Throws(cur, r.args) THEN Die
         ELSE /\ cur' = Assigned(cur, r.args) /\ args' = <<>>
              /\ UNCHANGED <<processVars, pc, monitorInfo, cardVars>>
  BY DEF BlockLine, BlockEnds, At, ReadLineBySplitchar
<1>2. /\ stream \in Streams /\ file \in Seq(Pieces) /\ args \in Seq(Seq(Text))
      /\ r.args \in Seq(Seq(Text))
  BY <1>1, CpuRead
<1>3. cur \in EntriesOf("cpu_info") /\ DOMAIN cur.fields = CpuFields
  <2>1. cur \in EntriesOf("cpu_info")
    BY <1>1, InHandIs DEF Inv, TypeInv
  <2> QED
    BY <2>1, EntryOf DEF FieldsOf
<1>4. args = <<>> \/ Is(args, "processor")
  BY DEF Inv, TypeInv, ArgsInv
<1>5. PICK p \in 0 .. Len(file) :
        CpuPlace(stream, file, p) /\ \E i \in Processors(file) : InBlock(i, p)
  BY <1>1 DEF CpuInv, At
<1>6. PICK i \in Processors(file) : InBlock(i, p)
  BY <1>5
<1>7. PICK q \in 0 .. Len(file) :
        /\ CpuPlace(r.stream, file, q) /\ LineAt(file, p, q) /\ file[p + 1].text # NoText
        /\ \E w : r.args = args \o w /\ WordsAt(file, p, q, w)
  BY <1>1, <1>2, <1>5, CpuLineRead
<1>8. PICK w : r.args = args \o w /\ WordsAt(file, p, q, w)
  BY <1>7
<1> HIDE DEF r
<1>9. CASE Throws(cur, r.args)
  <2>1. proc' = "dead" /\ pc' = "cpu_block"
    BY <1>1, <1>9 DEF Die
  <2>2. ProcessorsApart(file)
    BY <1>1 DEF CpuInv
  <2> QED
    BY <1>1, <2>1, <2>2 DEF CpuInv, ProcessorsOnce, At
<1> SUFFICES ASSUME ~Throws(cur, r.args) PROVE CpuInv'
  BY <1>9
<1>10. /\ proc' = "up" /\ pc' = "cpu_block" /\ args' = <<>> /\ monitorInfo' = monitorInfo
       /\ cur' = Assigned(cur, r.args)
  BY <1>1 DEF processVars
<1>11. /\ \A j \in LineStarts(file) : j \in Nat /\ (j <= q <=> j <= p \/ j = p + 1)
       /\ p + 1 \in LineStarts(file) /\ p \in Nat /\ q \in Nat /\ p < q /\ i \in Nat
       /\ i <= p /\ ~Apart(file, i, p) /\ ~Apart(file, i, q)
  <2>1. i \in Nat /\ i <= p /\ ~Apart(file, i, p)
    BY <1>2, <1>6, WholeFacts DEF InBlock
  <2>2. p + 1 \in LineStarts(file) /\ p \in Nat /\ q \in Nat /\ p < q
    BY <1>2, <1>7 DEF LineAt
  <2>3. \A j \in LineStarts(file) : j \in Nat
    BY <1>2, WholeFacts
  <2>4. \A j \in LineStarts(file) : j <= q <=> j <= p \/ j = p + 1
    BY <1>2, <1>7, LineCounted
  <2>5. ~Apart(file, i, q)
    BY <1>2, <1>7, <2>1, LineCounted
  <2> QED
    BY <2>1, <2>2, <2>3, <2>4, <2>5
<1>12. /\ args = <<>> => r.args = w
       /\ \A k : args = <<>> => (Is(r.args, k) <=> file[p + 1].text = KeyText(k))
       /\ \A k : args # <<>> => (Is(r.args, k) <=> k = "processor")
  <2>1. w \in Seq(Seq(Text)) /\ w # <<>> /\ w[1][1] = file[p + 1].text
    BY <1>8, <1>11 DEF WordsAt
  <2>2. r.args # <<>> /\ (args = <<>> => r.args = w) /\ (args # <<>> => r.args[1] = args[1])
    <3>1. args \in Seq(Seq(Text)) /\ r.args = args \o w
      BY <1>2, <1>8
    <3>2. /\ args \o w # <<>>
          /\ args = <<>> => args \o w = w
          /\ args # <<>> => (args \o w)[1] = args[1]
      BY <2>1, <3>1, FirstWord, Zenon
    <3> QED
      BY <3>1, <3>2
  <2>3. args # <<>> => args[1][1] = KeyText("processor")
    BY <1>4 DEF Is
  <2>4. r.args[1][1] = IF args = <<>> THEN file[p + 1].text ELSE KeyText("processor")
    BY <2>1, <2>2, <2>3
  <2> QED
    BY <2>2, <2>4, TextsDiffer DEF Is
<1>13. ASSUME NEW k \in CpuFields
       PROVE  cur'.fields[k] = LastValue(file, OwnUpTo(file, i, q, k), k)
  <2>1. /\ cur'.fields[k] = IF Is(r.args, k) THEN r.args[2] ELSE cur.fields[k]
        /\ cur.fields[k] = LastValue(file, OwnUpTo(file, i, p, k), k)
    <3>1. cur'.fields = [j \in DOMAIN cur.fields |->
                           IF Is(r.args, j) THEN r.args[2] ELSE cur.fields[j]]
      BY <1>3, <1>10 DEF Assigned, EntriesOf, EntriesWith
    <3> QED
      BY <1>3, <1>6, <3>1 DEF InBlock
  <2>2. \A j : j \in OwnUpTo(file, i, q, k) <=>
                  \/ j \in OwnUpTo(file, i, p, k)
                  \/ /\ j = p + 1 /\ file[p + 1].text = KeyText(k)
                     /\ \E b \in LineStarts(file) : i < b /\ b <= p
    BY <1>2, <1>7, <1>11, OwnNext
  <2>3. (\E b \in LineStarts(file) : i < b /\ b <= p) <=> args = <<>>
    BY <1>6 DEF InBlock
  <2>4. CASE Is(r.args, k)
    <3>1. args = <<>> /\ r.args = w /\ file[p + 1].text = KeyText(k)
      <4>1. k # "processor"
        BY CpuAssumption
      <4> QED
        BY <1>12, <2>4, <4>1
    <3> DEFINE M == OwnUpTo(file, i, q, k)
    <3>2. M \in SUBSET Nat /\ p + 1 \in M /\ \A j \in M : j <= p + 1
      <4>1. \A j \in OwnUpTo(file, i, p, k) : j \in LineStarts(file) /\ j <= p
        BY <1>2, WholeFacts DEF OwnUpTo
      <4>2. \A j \in M : j \in Nat /\ j <= p + 1
        BY <1>11, <2>2, <4>1
      <4>3. p + 1 \in M
        BY <2>2, <2>3, <3>1
      <4> HIDE DEF M
      <4> QED
        BY <4>2, <4>3
    <3> HIDE DEF M
    <3>3. q \in p + 1 .. Len(file) /\ q > p + 1
      <4>1. HasValue(r.args)
        BY <1>3, <2>4 DEF Throws
      <4>2. Len(w) > 1 /\ Len(w) = IF q = p + 1 THEN 1 ELSE 2
        BY <1>8, <3>1, <4>1 DEF HasValue, WordsAt
      <4>3. q # p + 1
        BY <4>2
      <4>4. q \in Nat /\ Len(file) \in Nat /\ q <= Len(file)
        BY <1>2, <1>11
      <4> QED
        BY <1>11, <4>3, <4>4
    <3>4. LastValue(file, M, k) = [n \in 1 .. q - p - 1 |-> file[p + 1 + n].text]
      <4>1. file[q].nl /\ \A n \in p + 1 .. q - 1 : ~file[n].nl
        BY <1>7 DEF LineAt
      <4>2. file \in Seq(Pieces)
        BY <1>2
      <4> QED
        BY <3>2, <3>3, <4>1, <4>2, LastNext
    <3>5. r.args[2] = [n \in 1 .. q - p - 1 |-> file[p + 1 + n].text]
      BY <1>8, <3>1, <3>3 DEF WordsAt
    <3> QED
      BY <2>1, <2>4, <3>4, <3>5 DEF M
  <2>5. CASE ~Is(r.args, k)
    <3>1. ~(args = <<>> /\ file[p + 1].text = KeyText(k))
      BY <1>12, <2>5
    <3>2. OwnUpTo(file, i, q, k) = OwnUpTo(file, i, p, k)
      BY <2>2, <2>3, <3>1
    <3> QED
      BY <2>1, <2>5, <3>2
  <2> QED
    BY <2>4, <2>5
<1>14. InBlock(i, q)'
  <2>1. i <= q /\ ReportedTo(i - 1)'
    BY <1>1, <1>6, <1>10, <1>11 DEF InBlock, ReportedTo
  <2>2. cur'.name = file[i + 1].text.name
    <3>1. cur'.name = cur.name
      BY <1>3, <1>10 DEF Assigned, EntriesOf, EntriesWith
    <3> QED
      BY <1>6, <3>1 DEF InBlock
  <2>3. i < p + 1 /\ p + 1 <= q
    BY <1>11
  <2> QED
    BY <1>1, <1>10, <1>11, <1>13, <2>1, <2>2, <2>3 DEF InBlock
<1>15. ProcessorsApart(file) /\ ProcessorsOnce'
  BY <1>1, <1>10 DEF CpuInv, ProcessorsOnce, At
<1> QED
  BY <1>1, <1>7, <1>10, <1>14, <1>15 DEF CpuInv, At

LEMMA BlockEndReports ==
  ASSUME Inv, CpuInv, BlockEnd
  PROVE  CpuInv'
<1> DEFINE r == ReadLine(stream, file, args)
<1>1. /\ proc = "up" /\ pc = "cpu_block" /\ pc' = "cpu_info" /\ stream' = r.stream /\ UNCHANGED file
      /\ ~r.ok \/ Is(r.args, LastKey)
      /\ monitorInfo' = Append(monitorInfo, cur)
  BY DEF BlockEnd, BlockEnds, At, ReadLineBySplitchar
<1>2. /\ stream \in Streams /\ file \in Seq(Pieces) /\ args \in Seq(Seq(Text))
  BY <1>1, CpuRead
<1>3. cur \in EntriesOf("cpu_info") /\ "cpu_info" \in Reporting
  BY <1>1, InHandIs DEF Inv, TypeInv, Reporting
<1>4. args = <<>> \/ Is(args, "processor")
  BY DEF Inv, TypeInv, ArgsInv
<1>5. PICK p \in 0 .. Len(file) :
        CpuPlace(stream, file, p) /\ \E i \in Processors(file) : InBlock(i, p)
  BY <1>1 DEF CpuInv, At
<1>6. PICK i \in Processors(file) : InBlock(i, p)
  BY <1>5
<1>7. ProcessorsApart(file) /\ i \in Nat /\ i <= p /\ ~Apart(file, i, p) /\ p \in Nat
  BY <1>1, <1>2, <1>6, WholeFacts DEF InBlock, CpuInv
<1>8. PICK q \in 0 .. Len(file) :
        /\ p <= q /\ CpuPlace(r.stream, file, q)
        /\ \/ LineLost(file, p, q)
           \/ LineAt(file, p, q) /\ file[p + 1].text = KeyText(LastKey)
  <2>1. CASE ~r.ok
    BY <1>2, <1>5, <2>1, CpuNoLine
  <2>2. CASE r.ok
    <3>1. PICK q \in 0 .. Len(file) :
            /\ CpuPlace(r.stream, file, q) /\ LineAt(file, p, q)
            /\ \E w : r.args = args \o w /\ WordsAt(file, p, q, w)
      BY <1>2, <1>5, <2>2, CpuLineRead
    <3>2. PICK w : r.args = args \o w /\ WordsAt(file, p, q, w)
      BY <3>1
    <3> HIDE DEF r
    <3>3. p <= q /\ q \in Nat
      BY <1>7, <3>1 DEF LineAt
    <3>4. w \in Seq(Seq(Text)) /\ w # <<>> /\ w[1][1] = file[p + 1].text
      BY <1>7, <3>2, <3>3 DEF WordsAt
    <3>5. r.args[1][1] = KeyText(LastKey)
      BY <1>1, <2>2 DEF Is
    <3>6. CASE args # <<>>
      <4>1. (args \o w)[1] = args[1]
        BY <1>2, <3>4, <3>6, FirstWord, Zenon
      <4>2. r.args[1][1] = KeyText("processor")
        BY <1>4, <3>2, <3>6, <4>1 DEF Is
      <4> QED
        BY <3>5, <4>2, TextsDiffer
    <3>7. CASE args = <<>>
      <4>1. args \o w = w
        BY <1>2, <3>4, <3>7, FirstWord, Zenon
      <4>2. file[p + 1].text = KeyText(LastKey)
        BY <3>2, <3>4, <3>5, <4>1
      <4> QED
        BY <3>1, <3>3, <4>2
    <3> QED
      BY <3>6, <3>7
  <2> QED
    BY <2>1, <2>2
<1> HIDE DEF r
<1>9. /\ \A j \in Processors(file) : j <= q <=> j <= i
      /\ \A k \in CpuFields : \A j \in OwnLines(file, i, k) : j <= p
  BY <1>2, <1>7, <1>8, BlockOver
<1>10. cur = ProcessorAt(file, i)
  <2>1. /\ cur.name = file[i + 1].text.name
        /\ \A k \in CpuFields : cur.fields[k] = LastValue(file, OwnUpTo(file, i, p, k), k)
    BY <1>6 DEF InBlock
  <2>2. \A k \in CpuFields : OwnUpTo(file, i, p, k) = OwnLines(file, i, k)
    BY <1>9 DEF OwnUpTo
  <2>3. /\ cur = [of |-> "cpu_info", name |-> cur.name, fields |-> cur.fields]
        /\ cur.fields = [k \in CpuFields |-> cur.fields[k]]
    BY <1>3 DEF EntriesOf, EntriesWith, FieldsOf
  <2>4. cur.fields = [k \in CpuFields |-> LastValue(file, OwnLines(file, i, k), k)]
    BY <2>1, <2>2, <2>3
  <2> QED
    BY <2>1, <2>3, <2>4, Zenon DEF ProcessorAt
<1>11. ReportedTo(q)'
  <2> DEFINE C(j) == Cardinality(Counted(file, j))
             N == Len(monitorInfo)
  <2>1. /\ N \in Nat /\ DOMAIN monitorInfo = 1 .. N /\ Len(monitorInfo') = N + 1
        /\ \A n \in 1 .. N : monitorInfo'[n] = monitorInfo[n]
        /\ monitorInfo'[N + 1] = cur
    BY <1>1, <1>3, AppendReport DEF Inv
  <2>2. /\ N = C(i - 1)
        /\ \A j \in Counted(file, i - 1) : monitorInfo[C(j)] = ProcessorAt(file, j)
    BY <1>6 DEF InBlock, ReportedTo
  <2>3. C(i) = N + 1 /\ \A j \in Counted(file, i - 1) : C(j) \in 1 .. N
    BY <1>2, <2>2, CountNext
  <2>4. Counted(file, q) = Counted(file, i)
    BY <1>9 DEF Counted
  <2>5. \A j \in Counted(file, i) : j \in Counted(file, i - 1) \/ j = i
    <3>1. \A j \in Processors(file) : j \in Nat
      BY <1>2, WholeFacts
    <3>2. \A j \in Processors(file) : j <= i => j <= i - 1 \/ j = i
      BY <1>7, <3>1
    <3> QED
      BY <3>2, Zenon DEF Counted
  <2> HIDE DEF C, N
  <2>6. \A j \in Counted(file, i) : monitorInfo'[C(j)] = ProcessorAt(file, j)
    BY <1>10, <2>1, <2>2, <2>3, <2>5
  <2>7. Len(monitorInfo') = C(q)
    BY <2>1, <2>3, <2>4 DEF C
  <2> QED
    BY <1>1, <2>4, <2>6, <2>7 DEF ReportedTo, C
<1>12. ProcessorsOnce'
  BY <1>1 DEF ProcessorsOnce, At
<1> QED
  BY <1>1, <1>7, <1>8, <1>11, <1>12 DEF CpuInv, At

\* The other collectors do not come near.
LEMMA ElsewhereReports ==
  ASSUME pc' \notin {"asleep", "cpu_info", "cpu_block"}, ~(pc' = "softirq" /\ proc' = "up")
  PROVE  CpuInv'
BY DEF CpuInv, ProcessorsOnce, At

LEMMA NextReports ==
  ASSUME Inv, CpuInv, [Next]_vars
  PROVE  CpuInv'
<1>1. CASE NoName
  BY <1>1 DEF NoName, At, Die, CpuInv, ProcessorsOnce
<1>2. CASE Start \/ Send
  BY <1>2 DEF Start, Send, CpuInv, ProcessorsOnce, At
<1>3. CASE BeginRound \/ CpuLine \/ CpuEnd \/ BlockLine \/ BlockEnd
  BY <1>3, BeginRoundReports, CpuLineReports, CpuEndReports, BlockLineReports, BlockEndReports
<1>4. CASE Softirq \/ Load
  <2>1. \/ pc' \in {"load", "mem"}
        \/ pc' \in {"softirq", "load"} /\ proc' = "dead"
    BY <1>4 DEF Softirq, Load, IndexedSome, IndexedNothing, Begin, After, Die, At
  <2> QED
    BY <2>1, ElsewhereReports
<1>5. CASE MemLine \/ MetricLine \/ OsLine
  <2>1. pc' \in Tables
    BY <1>5 DEF MemLine, MetricLine, OsLine, TableLine, Die, At, Tables
  <2> QED
    BY <2>1, ElsewhereReports DEF Tables
<1>6. CASE MemEnd \/ MetricEnd \/ OsEnd
  <2>1. pc' \in {"metric", "os", "opendir"}
    BY <1>6 DEF MemEnd, MetricEnd, OsEnd, TableEnd, Begin, After
  <2> QED
    BY <2>1, ElsewhereReports
<1>7. CASE \/ OpenDir \/ CloseDir \/ OpenMtu \/ NoMtu \/ ReadMtu
           \/ \E n \in Cards \cup PlainFiles : NextCard(n)
  <2>1. pc' \in {"netcard", "card", "mtu", "send"}
    BY <1>7 DEF OpenDir, CloseDir, OpenMtu, NoMtu, ReadMtu, NextCard, AddCard, Die, At
  <2> QED
    BY <2>1, ElsewhereReports
<1>8. CASE WriteMetric \/ RewriteMetrics \/ \E c \in Cards : Vanish(c) \/ Appear(c)
  <2>1. pc' \in {"metric", "netcard", "card", "mtu"}
    BY <1>8 DEF WriteMetric, RewriteMetrics, Vanish, Appear, ReadingCards, At
  <2> QED
    BY <2>1, ElsewhereReports
<1>9. CASE UNCHANGED vars
  BY <1>9 DEF vars, processVars, fileVars, CpuInv, ProcessorsOnce, At, InBlock, ReportedTo
<1> QED
  BY <1>1, <1>2, <1>3, <1>4, <1>5, <1>6, <1>7, <1>8, <1>9 DEF Next, Round, Environment

-----------------------------------------------------------------------------
(***************************************************************************)
(* The theorems.                                                           *)
(***************************************************************************)

\* Every variable has its type, and the words of a line are not kept for the next:
\* every collector clears them on each way out of a line (cpu_info_monitor.cpp,
\* mem_monitor.cpp, metric_monitor.cpp, os_monitor.cpp).
THEOREM TypeCorrect == Spec => []TypeOK
<1>1. ASSUME Inv PROVE TypeOK
  <2>1. stream.open \in BOOLEAN /\ stream.eof \in BOOLEAN /\ stream.off \in Nat
    BY <1>1 DEF Inv, TypeInv, Streams
  <2>2. args # <<>> => pc = "cpu_block" /\ Is(args, "processor")
    BY <1>1 DEF Inv, TypeInv, ArgsInv
  <2>3. \A i \in DOMAIN monitorInfo :
          monitorInfo[i].of \in Tables \cup {"cpu_info", "netcard"}
    <3>1. \A i \in DOMAIN monitorInfo : monitorInfo[i] \in Reports
      BY <1>1 DEF Inv, TypeInv
    <3> QED
      BY <3>1, EntryOf DEF Reporting
  <2> QED
    BY <1>1, <2>1, <2>2, <2>3 DEF TypeOK, Inv, TypeInv
<1> QED
  BY <1>1, AlwaysInv, PTL

\* For any files, any writing of the metrics and any interfaces that come and go, an
\* exception or a bad access leaves the agent's thread only where EndsOnlyFor says.
\* In particular a metric that is written while it is read, in any pieces, never gives
\* std::stof a word that is half there, as long as the file is not begun again.
THEOREM ThreadEndsOnlyFor == Spec => []EndsOnlyFor
<1>1. Inv => EndsOnlyFor
  BY DEF Inv
<1> QED
  BY <1>1, AlwaysInv, PTL

\* When NetcardMonitor::UpdateOnce ends, the message has one entry for every name the
\* directory had, with what the name's own files said, however interfaces come and
\* go between its readdir, its opens and its reads.
THEOREM EveryCardListed == Spec => []CardsListed
<1>1. ASSUME Inv PROVE CardsListed
  <2> SUFFICES ASSUME pc = "send"
               PROVE  /\ {monitorInfo[i].name : i \in CardEntries} = listed
                      /\ \A i, j \in CardEntries :
                           monitorInfo[i].name = monitorInfo[j].name => i = j
                      /\ \A i \in CardEntries : \A k \in DOMAIN monitorInfo[i].fields :
                           monitorInfo[i].fields[k] \in
                             {CardText(monitorInfo[i].name)} \cup
                               (IF monitorInfo[i].name \in steady THEN {} ELSE {Default(k)})
    BY DEF CardsListed, CardEntries
  <2>1. Reported \cup NameInHand \cup todo = listed /\ todo = {} /\ NameInHand = {}
    BY <1>1 DEF Inv, CardInv, NameInHand
  <2>2. {monitorInfo[i].name : i \in CardEntries} = listed
    BY <2>1 DEF Reported
  <2>3. \A i, j \in CardEntries : monitorInfo[i].name = monitorInfo[j].name => i = j
    BY <1>1 DEF Inv, CardInv
  <2>4. \A i \in CardEntries : DOMAIN monitorInfo[i].fields = {"address", "mtu"}
    <3> TAKE i \in CardEntries
    <3>1. monitorInfo[i] \in Reports /\ monitorInfo[i].of = "netcard"
      BY <1>1 DEF Inv, TypeInv, CardEntries
    <3>2. monitorInfo[i] \in EntriesOf("netcard")
      BY <3>1, EntryOf
    <3> QED
      BY <3>2, EntryOf DEF FieldsOf
  <2>5. \A i \in CardEntries, k \in {"address", "mtu"} :
          monitorInfo[i].fields[k] \in CardField(monitorInfo[i].name, k)
    BY <1>1 DEF Inv, CardInv
  <2> QED
    BY <2>2, <2>3, <2>4, <2>5 DEF CardField
<1> QED
  BY <1>1, AlwaysInv, PTL

\* For any file and any keys, what MemMonitor, MetricMonitor and OsMonitor put into
\* the message is the value of the last whole line of each key that comes before an
\* empty line, and nothing else.
THEOREM TablesSayTheFile == Spec => TablesOfFile
<1> DEFINE Says == \A c \in Tables :
                     TableEnd(c) /\ cuts = 0 =>
                       monitorInfo'[Len(monitorInfo')].fields =
                         [k \in DOMAIN cur.fields |-> ValueOf(file, k)]
<1>1. ASSUME Inv PROVE Says
  <2> SUFFICES ASSUME NEW c \in Tables, TableEnd(c), cuts = 0
               PROVE  monitorInfo'[Len(monitorInfo')].fields =
                        [k \in DOMAIN cur.fields |-> ValueOf(file, k)]
    OBVIOUS
  <2>1. /\ proc = "up" /\ pc = c /\ ~ReadLine(stream, file, args).ok
        /\ monitorInfo' = Append(monitorInfo, cur)
    BY DEF TableEnd, At
  <2>2. /\ stream \in Streams /\ file \in Seq(Pieces) /\ args \in Seq(Seq(Text))
        /\ cur \in EntriesOf(c)
    BY <1>1, <2>1, TableTypes
  <2>3. PICK p \in 0 .. Len(file) : StandsAt(stream, file, p) /\ CopiedTo(p)
    BY <1>1, <2>1, TableKeys DEF Inv, FileInv
  <2>4. ASSUME NEW k \in DOMAIN cur.fields PROVE cur.fields[k] = ValueOf(file, k)
    <3>1. /\ ~stream.eof /\ (stream.open \/ file = <<>>)
          /\ \A b \in LineStarts(file) : b <= p => file[b].text # NoText
          /\ cur.fields[k] = ValueUpTo(file, p, k)
      BY <2>3 DEF CopiedTo
    <3>2. ValueOf(file, k) = ValueUpTo(file, p, k)
      BY <2>1, <2>2, <2>3, <3>1, ReadingOver
    <3> QED
      BY <3>1, <3>2
  <2>5. monitorInfo'[Len(monitorInfo')] = cur
    <3>1. c \in Reporting
      BY DEF Reporting
    <3> QED
      BY <1>1, <2>1, <2>2, <3>1, AppendReport DEF Inv
  <2>6. cur.fields = [k \in DOMAIN cur.fields |-> cur.fields[k]]
    BY <2>2, EntryOf
  <2> QED
    BY <2>4, <2>5, <2>6
<1>2. Inv => Says
  BY <1>1
<1>3. [][Says]_vars <=> TablesOfFile
  BY PTL DEF TablesOfFile
<1> QED
  BY <1>2, <1>3, AlwaysInv, PTL DEF Spec

\* For any files of the kernel's format and any fields, when CpuInfoMonitor::UpdateOnce
\* ends, the message has an entry for every processor of the file, in its order, with the
\* last value of each key among the processor's own lines: none is left out, none comes
\* twice, and none has a value of another, whichever way the lines of one end.
THEOREM EveryProcessorOnce == Spec => []ProcessorsOnce
<1>1. Init => CpuInv
  BY DEF Init, CpuInv, ProcessorsOnce, At
<1>2. Inv /\ CpuInv /\ [Next]_vars => CpuInv'
  BY NextReports
<1>3. CpuInv => ProcessorsOnce
  BY DEF CpuInv
<1> QED
  BY <1>1, <1>2, <1>3, AlwaysInv, PTL DEF Spec
=============================================================================
