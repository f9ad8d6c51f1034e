----------------------------- MODULE BufferProofs -----------------------------
(***************************************************************************)
(* Proofs about LogBuffer, for memories, chunks and messages of any size:  *)
(* the positions stay in order, and within the memory unless a line is too *)
(* long for it; room is made where it is asked for; the buffer implements  *)
(* ByteQueue; and the line of the log is printed whole when it fits, and   *)
(* up to the memory's last byte when it does not.                          *)
(*                                                                         *)
(* Each member function keeps a Good buffer good, and its effect is stated *)
(* on the buffer's Content alone; the steps of the specification follow    *)
(* from those lemmas without a word about the memory.                      *)
(***************************************************************************)
EXTENDS LogBuffer, SequenceTheorems, TLAPS

Buffers == [mem : Seq(Nat), readPos_ : Nat, writePos_ : Nat]

\* The positions of b are in order and within its memory.
Good(b) ==
  /\ b \in Buffers
  /\ InitSize <= Len(b.mem)
  /\ b.readPos_ <= b.writePos_ /\ b.writePos_ <= Len(b.mem)

\* b holds the line l.
Holds(b, l) ==
  /\ b \in Buffers
  /\ InitSize <= Len(b.mem)
  /\ b.readPos_ = 0 /\ b.writePos_ = Len(l.meant) + 1
  /\ \A s \in Chunks : b.writePos_ + Len(s) < SizeValues
  /\ Text(Peek(b)) = IF Len(l.meant) <= l.size
                     THEN l.meant
                     ELSE SubSeq(l.meant, 1, l.size - 1)

BufferInv ==
  /\ printing \in BOOLEAN /\ damaged \in BOOLEAN
  /\ last = [text |-> last.text, meant |-> last.meant, size |-> last.size]
  /\ ~printing => Good(buff_)
  /\ printing => Holds(buff_, last) /\ (buff_.writePos_ <= Len(buff_.mem) \/ damaged)

-----------------------------------------------------------------------------
(***************************************************************************)
(* Memory.                                                                 *)
(***************************************************************************)
LEMMA Sizes ==
  /\ InitSize \in Nat \ {0} /\ HeadRoom \in Nat \ {0} /\ ExtraSize \in Nat \ {0}
  /\ \A s \in Chunks : s \in Seq(Nat)
  /\ LineHead \in Seq(Nat) /\ LineTitle \in Seq(Nat)
  /\ \A s \in Messages : s \in Seq(Nat)
  /\ Len(LineHead) < HeadRoom /\ Len(LineHead) + Len(LineTitle) < InitSize
  /\ SizeValues \in Nat
<1>1. \A s \in Seq(Nat \ {NUL}) : s \in Seq(Nat)
  <2>1. Nat \ {NUL} \subseteq Nat
    OBVIOUS
  <2> QED
    BY <2>1, SeqMonotonic
<1> QED
  BY <1>1, BufferAssumption

\* The constants' bytes differ from NUL.
LEMMA NoNuls ==
  ASSUME NEW s \in {LineHead, LineTitle} \cup Messages
  PROVE  \A i \in 1 .. Len(s) : s[i] # NUL
<1>1. s \in Seq(Nat \ {NUL})
  BY BufferAssumption
<1> QED
  BY <1>1, ElementOfSeq

LEMMA ZerosAre ==
  ASSUME NEW n \in Nat
  PROVE  /\ Zeros(n) \in Seq(Nat) /\ Len(Zeros(n)) = n
         /\ \A i \in 1 .. n : Zeros(n)[i] = NUL
  BY DEF Zeros, NUL

\* The byte at i after copying s to pos.
CopyAt(mem, pos, s, i) ==
  Copy(mem, pos, s)[i] = IF i \in pos + 1 .. pos + Len(s) THEN s[i - pos] ELSE mem[i]

LEMMA CopyIs ==
  ASSUME NEW mem \in Seq(Nat), NEW pos \in Nat, NEW s \in Seq(Nat)
  PROVE  /\ Copy(mem, pos, s) \in Seq(Nat) /\ Len(Copy(mem, pos, s)) = Len(mem)
         /\ \A i \in 1 .. Len(mem) : CopyAt(mem, pos, s, i)
<1>1. DOMAIN mem = 1 .. Len(mem) /\ Len(mem) \in Nat /\ Len(s) \in Nat
  BY LenProperties
<1>2. \A i \in 1 .. Len(mem) :
        (IF i \in pos + 1 .. pos + Len(s) THEN s[i - pos] ELSE mem[i]) \in Nat
  <2> SUFFICES ASSUME NEW i \in 1 .. Len(mem)
               PROVE  (IF i \in pos + 1 .. pos + Len(s) THEN s[i - pos] ELSE mem[i]) \in Nat
    OBVIOUS
  <2>1. mem[i] \in Nat
    BY ElementOfSeq
  <2>2. ASSUME i \in pos + 1 .. pos + Len(s) PROVE s[i - pos] \in Nat
    <3>1. i - pos \in 1 .. Len(s)
      BY <1>1, <2>2
    <3> QED
      BY <3>1, ElementOfSeq
  <2> QED
    BY <2>1, <2>2
<1>3. Copy(mem, pos, s) \in [1 .. Len(mem) -> Nat]
  BY <1>1, <1>2 DEF Copy
<1>4. Copy(mem, pos, s) \in Seq(Nat)
  <2>1. Copy(mem, pos, s) \in UNION {[1 .. n -> Nat] : n \in Nat}
    BY <1>1, <1>3, Zenon
  <2> QED
    BY <2>1, SeqDef, Zenon
<1>5. Len(Copy(mem, pos, s)) = Len(mem)
  BY <1>1, <1>3, <1>4, LenProperties
<1> QED
  BY <1>1, <1>4, <1>5 DEF Copy, CopyAt

LEMMA ResizeIs ==
  ASSUME NEW mem \in Seq(Nat), NEW n \in Nat, Len(mem) <= n
  PROVE  /\ Resize(mem, n) \in Seq(Nat) /\ Len(Resize(mem, n)) = n
         /\ \A i \in 1 .. Len(mem) : Resize(mem, n)[i] = mem[i]
<1>1. Len(mem) \in Nat /\ n - Len(mem) \in Nat
  BY LenProperties
<1>2. Zeros(n - Len(mem)) \in Seq(Nat) /\ Len(Zeros(n - Len(mem))) = n - Len(mem)
  BY <1>1, ZerosAre
<1> DEFINE zeros == Zeros(n - Len(mem))
<1>3. /\ mem \o zeros \in Seq(Nat)
      /\ Len(mem \o zeros) = Len(mem) + Len(zeros)
      /\ \A i \in 1 .. Len(mem) + Len(zeros) :
           (mem \o zeros)[i] = IF i <= Len(mem) THEN mem[i] ELSE zeros[i - Len(mem)]
  <2> HIDE DEF zeros
  <2> QED
    BY <1>2, ConcatProperties DEF zeros
<1>4. Resize(mem, n) = mem \o zeros
  BY DEF Resize
<1> HIDE DEF zeros
<1> QED
  BY <1>1, <1>2, <1>3, <1>4 DEF zeros

\* The size of b's memory, and its positions.
Shape(b, L, r, w) ==
  /\ Len(b.mem) = L /\ b.readPos_ = r /\ b.writePos_ = w
  /\ InitSize <= L /\ r <= w /\ w <= L
  /\ ReadableBytes(b) = w - r /\ WriteableBytes(b) = L - w /\ PrependableBytes(b) = r

LEMMA GoodIs ==
  ASSUME NEW b, Good(b)
  PROVE  b.mem \in Seq(Nat) /\ \E L, r, w \in Nat : Shape(b, L, r, w)
<1>1. b.mem \in Seq(Nat) /\ b.readPos_ \in Nat /\ b.writePos_ \in Nat
  BY DEF Good, Buffers
<1>2. Len(b.mem) \in Nat
  BY <1>1, LenProperties
<1>3. Shape(b, Len(b.mem), b.readPos_, b.writePos_)
  BY <1>1, <1>2 DEF Shape, Good, ReadableBytes, WriteableBytes, Minus, PrependableBytes
<1> QED
  BY <1>1, <1>2, <1>3

LEMMA ShapeIsGood ==
  ASSUME NEW b \in Buffers, NEW L \in Nat, NEW r \in Nat, NEW w \in Nat,
         Len(b.mem) = L, b.readPos_ = r, b.writePos_ = w, InitSize <= L, r <= w, w <= L
  PROVE  Good(b) /\ Shape(b, L, r, w)
  BY DEF Good, Shape, ReadableBytes, WriteableBytes, Minus, PrependableBytes

LEMMA ContentIs ==
  ASSUME NEW b, Good(b)
  PROVE  /\ Content(b) \in Seq(Nat) /\ Len(Content(b)) = ReadableBytes(b)
         /\ ReadableBytes(b) \in Nat
         /\ \A i \in 1 .. ReadableBytes(b) : Content(b)[i] = b.mem[b.readPos_ + i]
<1>1. PICK L, r, w \in Nat : Shape(b, L, r, w)
  BY GoodIs
<1>2. r <= w /\ w <= L /\ ReadableBytes(b) = w - r
  BY <1>1 DEF Shape
<1>3. \A i \in r + 1 .. w : b.mem[i] \in Nat
  <2>1. b.mem \in Seq(Nat) /\ Len(b.mem) = L
    BY <1>1, GoodIs DEF Shape
  <2>2. \A i \in 1 .. L : b.mem[i] \in Nat
    BY <2>1, ElementOfSeq
  <2> QED
    BY <1>2, <2>2
<1>4. /\ SubSeq(b.mem, r + 1, w) \in Seq(Nat)
      /\ Len(SubSeq(b.mem, r + 1, w)) = IF r + 1 <= w THEN w - (r + 1) + 1 ELSE 0
      /\ \A i \in 1 .. w - (r + 1) + 1 : SubSeq(b.mem, r + 1, w)[i] = b.mem[(r + 1) + i - 1]
  BY <1>3, SubSeqProperties
<1>5. Content(b) = SubSeq(b.mem, r + 1, w) /\ b.readPos_ = r
  BY <1>1 DEF Content, Shape
<1>6. \A i \in 1 .. w - r : i \in 1 .. w - (r + 1) + 1 /\ (r + 1) + i - 1 = r + i
  OBVIOUS
<1>7. w - r \in Nat /\ (IF r + 1 <= w THEN w - (r + 1) + 1 ELSE 0) = w - r
  BY <1>2
<1> QED
  BY <1>2, <1>4, <1>5, <1>6, <1>7

\* What is readable in b is c.
LEMMA ContentEqual ==
  ASSUME NEW b, Good(b), NEW c \in Seq(Nat), Len(c) = ReadableBytes(b),
         \A i \in 1 .. ReadableBytes(b) : b.mem[b.readPos_ + i] = c[i]
  PROVE  Content(b) = c
<1>1. /\ Content(b) \in Seq(Nat) /\ Len(Content(b)) = Len(c)
      /\ \A i \in 1 .. Len(Content(b)) : Content(b)[i] = c[i]
  BY ContentIs
<1> QED
  BY <1>1, SeqEqual

-----------------------------------------------------------------------------
(***************************************************************************)
(* The member functions.                                                   *)
(***************************************************************************)

\* Growing the memory keeps the positions and what is before writePos_.
LEMMA GrowSpace ==
  ASSUME NEW b, Good(b), NEW len \in Nat, WriteableBytes(b) + PrependableBytes(b) < len
  PROVE  /\ Good(MakeSpace_(b, len)) /\ WriteableBytes(MakeSpace_(b, len)) >= len
         /\ Content(MakeSpace_(b, len)) = Content(b)
<1>1. PICK L, r, w \in Nat : Shape(b, L, r, w)
  BY GoodIs
<1>2. InitSize <= L /\ r <= w /\ w <= L /\ L - w + r < len
  BY <1>1 DEF Shape
<1> DEFINE n == w + len + 1
           m == Resize(b.mem, n)
           g == [b EXCEPT !.mem = m]
<1>3. MakeSpace_(b, len) = g
  BY <1>1 DEF MakeSpace_, Shape
<1>4. n \in Nat /\ L <= n /\ w <= n /\ n - w >= len /\ InitSize <= n
  <2> HIDE DEF m, g
  <2> QED
    BY <1>2, Sizes
<1> HIDE DEF n
<1>5. b.mem \in Seq(Nat) /\ Len(b.mem) = L
  BY <1>1, GoodIs DEF Shape
<1>6. m \in Seq(Nat) /\ Len(m) = n
  BY <1>4, <1>5, ResizeIs
<1>7. \A i \in 1 .. L : m[i] = b.mem[i]
  BY <1>4, <1>5, ResizeIs
<1> HIDE DEF m
<1>8. g \in Buffers /\ g.mem = m /\ g.readPos_ = r /\ g.writePos_ = w
  BY <1>1, <1>6 DEF g, Good, Buffers, Shape
<1> HIDE DEF g
<1>9. Good(g) /\ Shape(g, n, r, w)
  BY <1>2, <1>4, <1>6, <1>8, ShapeIsGood
<1>10. Content(g) = Content(b)
  <2>1. ReadableBytes(g) = w - r /\ ReadableBytes(b) = w - r
    BY <1>1, <1>9 DEF Shape
  <2>2. \A i \in 1 .. w - r : r + i \in 1 .. L
    BY <1>2
  <2>3. \A i \in 1 .. w - r : Content(b)[i] = b.mem[r + i]
    <3>1. b.readPos_ = r
      BY <1>1 DEF Shape
    <3>2. \A i \in 1 .. ReadableBytes(b) : Content(b)[i] = b.mem[b.readPos_ + i]
      BY ContentIs
    <3> QED
      BY <2>1, <3>1, <3>2
  <2>4. \A i \in 1 .. ReadableBytes(g) : g.mem[g.readPos_ + i] = Content(b)[i]
    BY <1>7, <1>8, <2>1, <2>2, <2>3
  <2> QED
    BY <1>9, <2>1, <2>4, ContentIs, ContentEqual
<1> QED
  BY <1>3, <1>4, <1>9, <1>10 DEF Shape

\* Moving the bytes to the front keeps them and frees what was taken.
LEMMA MoveToFront ==
  ASSUME NEW b, Good(b), NEW len \in Nat, WriteableBytes(b) + PrependableBytes(b) >= len
  PROVE  /\ Good(MakeSpace_(b, len)) /\ WriteableBytes(MakeSpace_(b, len)) >= len
         /\ Content(MakeSpace_(b, len)) = Content(b)
<1>1. PICK L, r, w \in Nat : Shape(b, L, r, w)
  BY GoodIs
<1>2. InitSize <= L /\ r <= w /\ w <= L /\ L - w + r >= len
  BY <1>1 DEF Shape
<1>3. w - r \in Nat /\ w - r <= L /\ L - (w - r) >= len
  BY <1>2
<1> DEFINE c == Content(b)
           m == Copy(b.mem, 0, c)
           g == [mem |-> m, readPos_ |-> 0, writePos_ |-> w - r]
<1>4. MakeSpace_(b, len) = g
  <2>1. ~(L - w + r < len)
    BY <1>2
  <2>2. WriteableBytes(b) = L - w /\ PrependableBytes(b) = r /\ ReadableBytes(b) = w - r
    BY <1>1 DEF Shape
  <2> QED
    BY <2>1, <2>2 DEF MakeSpace_
<1>5. b.mem \in Seq(Nat) /\ Len(b.mem) = L /\ c \in Seq(Nat) /\ Len(c) = w - r
  BY <1>1, GoodIs, ContentIs DEF Shape
<1> HIDE DEF c
<1>6. /\ m \in Seq(Nat) /\ Len(m) = L
      /\ \A i \in 1 .. L : m[i] = IF i \in 0 + 1 .. 0 + (w - r) THEN c[i - 0] ELSE b.mem[i]
  <2>1. /\ Copy(b.mem, 0, c) \in Seq(Nat) /\ Len(Copy(b.mem, 0, c)) = Len(b.mem)
        /\ \A i \in 1 .. Len(b.mem) : CopyAt(b.mem, 0, c, i)
    <3> HIDE DEF m, g
    <3> QED
      BY <1>5, CopyIs
  <2>2. Len(b.mem) = L /\ Len(c) = w - r
    BY <1>5
  <2> QED
    BY <2>1, <2>2, Zenon DEF CopyAt
<1> HIDE DEF m
<1>7. g \in Buffers /\ g.mem = m /\ g.readPos_ = 0 /\ g.writePos_ = w - r
  BY <1>3, <1>6 DEF Buffers
<1> HIDE DEF g
<1>8. Good(g) /\ Shape(g, L, 0, w - r)
  BY <1>2, <1>3, <1>6, <1>7, ShapeIsGood
<1>9. ReadableBytes(g) = w - r
  <2>1. ReadableBytes(g) = (w - r) - 0
    BY <1>8 DEF Shape
  <2> QED
    BY <1>3, <2>1
<1>10. \A i \in 1 .. w - r : m[0 + i] = c[i]
  <2>1. \A i \in 1 .. w - r : i \in 1 .. L /\ i - 0 = i /\ 0 + i = i /\ i \in 0 + 1 .. 0 + (w - r)
    BY <1>3
  <2> QED
    BY <1>6, <2>1
<1>11. Content(g) = c
  BY <1>5, <1>7, <1>8, <1>9, <1>10, ContentEqual
<1> QED
  BY <1>3, <1>4, <1>8, <1>11 DEF c, Shape

LEMMA EnsureIs ==
  ASSUME NEW b, Good(b), NEW len \in Nat
  PROVE  /\ Good(EnsureWriteable(b, len)) /\ WriteableBytes(EnsureWriteable(b, len)) >= len
         /\ Content(EnsureWriteable(b, len)) = Content(b)
<1>1. PICK L, r, w \in Nat : Shape(b, L, r, w)
  BY GoodIs
<1>2. WriteableBytes(b) = L - w /\ PrependableBytes(b) = r
  BY <1>1 DEF Shape
<1>3. CASE L - w < len
  <2>1. EnsureWriteable(b, len) = MakeSpace_(b, len)
    BY <1>2, <1>3 DEF EnsureWriteable
  <2>2. L - w + r < len \/ L - w + r >= len
    OBVIOUS
  <2> QED
    BY <1>2, <2>1, <2>2, GrowSpace, MoveToFront
<1>4. CASE ~(L - w < len)
  <2>1. EnsureWriteable(b, len) = b
    BY <1>2, <1>4 DEF EnsureWriteable
  <2>2. L - w >= len
    BY <1>4
  <2> QED
    BY <1>2, <2>1, <2>2
<1> QED
  BY <1>3, <1>4

\* The bytes s are put behind writePos_.
Stored(b, s) == [b EXCEPT !.mem = Copy(@, b.writePos_, s)]

\* Storing s and moving writePos_ over the first n of its bytes, for which there is room,
\* appends them.
LEMMA WrittenIs ==
  ASSUME NEW b, Good(b), NEW s \in Seq(Nat), NEW n \in 0 .. Len(s), n <= WriteableBytes(b)
  PROVE  /\ Good(HasWritten(Stored(b, s), n))
         /\ Content(HasWritten(Stored(b, s), n)) = Content(b) \o SubSeq(s, 1, n)
         /\ WriteableBytes(HasWritten(Stored(b, s), n)) = WriteableBytes(b) - n
<1>1. PICK L, r, w \in Nat : Shape(b, L, r, w)
  BY GoodIs
<1>2. InitSize <= L /\ r <= w /\ w <= L /\ n <= L - w
  BY <1>1 DEF Shape
<1>3. Len(s) \in Nat /\ n \in Nat /\ n <= Len(s)
  BY LenProperties
<1>4. w + n \in Nat /\ r <= w + n /\ w + n <= L /\ w - r \in Nat
  BY <1>2, <1>3
<1> DEFINE h == HasWritten(Stored(b, s), n)
           m == Copy(b.mem, w, s)
           c == Content(b)
           t == SubSeq(s, 1, n)
<1>5. b.mem \in Seq(Nat) /\ Len(b.mem) = L /\ c \in Seq(Nat) /\ Len(c) = w - r
  BY <1>1, GoodIs, ContentIs DEF Shape
<1>6. t \in Seq(Nat) /\ Len(t) = n /\ \A i \in 1 .. n : t[i] = s[i]
  <2>1. \A i \in 1 .. n : s[i] \in Nat
    BY <1>3, ElementOfSeq
  <2>2. /\ t \in Seq(Nat) /\ Len(t) = IF 1 <= n THEN n - 1 + 1 ELSE 0
        /\ \A i \in 1 .. n - 1 + 1 : t[i] = s[1 + i - 1]
    BY <1>3, <2>1, SubSeqProperties
  <2>3. (IF 1 <= n THEN n - 1 + 1 ELSE 0) = n /\ n - 1 + 1 = n /\ \A i \in 1 .. n : 1 + i - 1 = i
    BY <1>3
  <2> HIDE DEF t
  <2> QED
    BY <2>2, <2>3
<1> HIDE DEF c, t
<1>7. /\ m \in Seq(Nat) /\ Len(m) = L
      /\ \A i \in 1 .. L : m[i] = IF i \in w + 1 .. w + Len(s) THEN s[i - w] ELSE b.mem[i]
  <2>1. /\ Copy(b.mem, w, s) \in Seq(Nat) /\ Len(Copy(b.mem, w, s)) = Len(b.mem)
        /\ \A i \in 1 .. Len(b.mem) : CopyAt(b.mem, w, s, i)
    <3> HIDE DEF m, h
    <3> QED
      BY <1>5, CopyIs
  <2>2. Len(b.mem) = L
    BY <1>5
  <2> QED
    BY <2>1, <2>2, Zenon DEF CopyAt
<1> HIDE DEF m
<1>8. h \in Buffers /\ h.mem = m /\ h.readPos_ = r /\ h.writePos_ = w + n
  BY <1>1, <1>4, <1>7 DEF h, m, Stored, HasWritten, Good, Buffers, Shape
<1> HIDE DEF h
<1>9. Good(h) /\ Shape(h, L, r, w + n)
  BY <1>2, <1>4, <1>7, <1>8, ShapeIsGood
<1>10. /\ ReadableBytes(h) = (w - r) + n /\ WriteableBytes(h) = (L - w) - n
       /\ WriteableBytes(b) = L - w
  <2>1. /\ ReadableBytes(h) = (w + n) - r /\ WriteableBytes(h) = L - (w + n)
        /\ WriteableBytes(b) = L - w
    BY <1>1, <1>9 DEF Shape
  <2> QED
    BY <1>3, <2>1
<1>11. /\ c \o t \in Seq(Nat) /\ Len(c \o t) = (w - r) + n
       /\ \A i \in 1 .. (w - r) + n : (c \o t)[i] = IF i <= w - r THEN c[i] ELSE t[i - (w - r)]
  <2>1. /\ c \o t \in Seq(Nat) /\ Len(c \o t) = Len(c) + Len(t)
        /\ \A i \in 1 .. Len(c) + Len(t) :
             (c \o t)[i] = IF i <= Len(c) THEN c[i] ELSE t[i - Len(c)]
    BY <1>5, <1>6, ConcatProperties, Zenon
  <2>2. Len(c) = w - r /\ Len(t) = n
    BY <1>5, <1>6
  <2> QED
    BY <2>1, <2>2, Zenon
<1>12. ASSUME NEW i \in 1 .. (w - r) + n PROVE m[r + i] = (c \o t)[i]
  <2>1. r + i \in 1 .. L
    BY <1>2, <1>3
  <2>2. CASE i <= w - r
    <3>1. r + i \notin w + 1 .. w + Len(s) /\ i \in 1 .. w - r
      BY <1>3, <1>4, <2>2
    <3>2. m[r + i] = b.mem[r + i]
      BY <1>7, <2>1, <3>1
    <3>3. c[i] = b.mem[r + i]
      <4>1. ReadableBytes(b) = w - r /\ b.readPos_ = r
        BY <1>1 DEF Shape
      <4> QED
        BY <3>1, <4>1, ContentIs DEF c
    <3> QED
      BY <1>11, <2>2, <3>2, <3>3
  <2>3. CASE ~(i <= w - r)
    <3>1. /\ r + i \in w + 1 .. w + Len(s) /\ (r + i) - w = i - (w - r)
          /\ i - (w - r) \in 1 .. n
      BY <1>2, <1>3, <1>4, <2>3
    <3>2. m[r + i] = s[i - (w - r)]
      BY <1>7, <2>1, <3>1
    <3> QED
      BY <1>6, <1>11, <2>3, <3>1, <3>2
  <2> QED
    BY <2>2, <2>3
<1>13. Content(h) = c \o t
  <2>1. \A i \in 1 .. ReadableBytes(h) : h.mem[h.readPos_ + i] = (c \o t)[i]
    BY <1>8, <1>10, <1>12
  <2>2. Len(c \o t) = ReadableBytes(h) /\ c \o t \in Seq(Nat)
    BY <1>10, <1>11
  <2> QED
    BY <1>9, <2>1, <2>2, ContentEqual
<1> QED
  BY <1>9, <1>10, <1>13 DEF h, c, t

LEMMA AppendIs ==
  ASSUME NEW b, Good(b), NEW s \in Seq(Nat)
  PROVE  Good(Append_(b, s)) /\ Content(Append_(b, s)) = Content(b) \o s
<1> DEFINE room == EnsureWriteable(b, Len(s))
<1>1. Len(s) \in Nat /\ Len(s) \in 0 .. Len(s)
  BY LenProperties
<1>2. Good(room) /\ WriteableBytes(room) >= Len(s) /\ Content(room) = Content(b)
  BY <1>1, EnsureIs
<1>3. Append_(b, s) = HasWritten(Stored(room, s), Len(s))
  BY DEF Append_, Stored
<1>4. SubSeq(s, 1, Len(s)) = s
  BY SubSeqFull
<1> HIDE DEF room
<1>5. Len(s) <= WriteableBytes(room)
  <2>1. PICK L, r, w \in Nat : Shape(room, L, r, w)
    BY <1>2, GoodIs
  <2> QED
    BY <1>1, <1>2, <2>1 DEF Shape
<1>6. /\ Good(HasWritten(Stored(room, s), Len(s)))
      /\ Content(HasWritten(Stored(room, s), Len(s))) = Content(room) \o SubSeq(s, 1, Len(s))
  BY <1>1, <1>2, <1>5, WrittenIs
<1> QED
  BY <1>2, <1>3, <1>4, <1>6

LEMMA ThreeParts ==
  \A s, t, u \in Seq(Nat) : (s \o t) \o u = s \o (t \o u)
<1> TAKE s, t, u \in Seq(Nat)
<1> QED
  BY ConcatAssociative, SMTT(30)

\* What readv delivers in two parts is appended as a whole.
LEMMA ReadFdIs ==
  ASSUME NEW b, Good(b), NEW s \in Seq(Nat)
  PROVE  Good(ReadFd(b, s)) /\ Content(ReadFd(b, s)) = Content(b) \o s
<1>1. PICK L, r, w \in Nat : Shape(b, L, r, w)
  BY GoodIs
<1>2. WriteableBytes(b) = L - w /\ L - w \in Nat /\ Len(b.mem) = L /\ b.writePos_ = w
  BY <1>1 DEF Shape
<1>3. Len(s) \in Nat
  BY LenProperties
<1>4. CASE Len(s) <= L - w
  <2>1. ReadFd(b, s) = HasWritten(Stored(b, s), Len(s))
    BY <1>2, <1>4 DEF ReadFd, Stored
  <2>2. Len(s) \in 0 .. Len(s) /\ Len(s) <= WriteableBytes(b)
    BY <1>2, <1>3, <1>4
  <2>3. SubSeq(s, 1, Len(s)) = s
    BY SubSeqFull
  <2>4. /\ Good(HasWritten(Stored(b, s), Len(s)))
        /\ Content(HasWritten(Stored(b, s), Len(s))) = Content(b) \o SubSeq(s, 1, Len(s))
    BY <2>2, WrittenIs
  <2> QED
    BY <2>1, <2>3, <2>4
<1>5. CASE ~(Len(s) <= L - w)
  <2> DEFINE n == L - w
             h == HasWritten(Stored(b, s), n)
             first == SubSeq(s, 1, n)
             rest == SubSeq(s, n + 1, Len(s))
  <2>1. n \in Nat /\ n \in 0 .. Len(s) /\ n <= WriteableBytes(b) /\ w + n = L
    BY <1>2, <1>3, <1>5
  <2>2. ReadFd(b, s) = Append_(h, rest)
    <3>1. b \in Buffers
      BY DEF Good
    <3>2. [Stored(b, s) EXCEPT !.writePos_ = Len(b.mem)] = h
      BY <1>2, <2>1, <3>1 DEF HasWritten, Stored, Buffers
    <3>3. ~(Len(s) <= WriteableBytes(b))
      BY <1>2, <1>5
    <3> HIDE DEF h
    <3> QED
      BY <1>2, <3>2, <3>3 DEF ReadFd, Stored
  <2>3. Good(h) /\ Content(h) = Content(b) \o first
    BY <2>1, WrittenIs
  <2>4. first \in Seq(Nat) /\ rest \in Seq(Nat)
    <3>1. \A i \in 1 .. Len(s) : s[i] \in Nat
      BY ElementOfSeq
    <3>2. (\A i \in 1 .. n : s[i] \in Nat) /\ (\A i \in n + 1 .. Len(s) : s[i] \in Nat)
      BY <1>3, <2>1, <3>1
    <3> HIDE DEF n
    <3> QED
      BY <1>3, <2>1, <3>2, SubSeqProperties
  <2>5. first \o rest = s
    <3>1. n \in 0 .. Len(s) /\ 1 \in 1 .. Len(s) + 1 /\ Len(s) \in n .. Len(s) /\ n \in 1 - 1 .. Len(s)
      BY <1>3, <2>1
    <3> HIDE DEF n
    <3>2. first \o rest = SubSeq(s, 1, Len(s))
      BY <3>1, ConcatAdjacentSubSeq
    <3> QED
      BY <3>2, SubSeqFull
  <2> HIDE DEF h, first, rest
  <2>6. Good(Append_(h, rest)) /\ Content(Append_(h, rest)) = Content(h) \o rest
    BY <2>3, <2>4, AppendIs
  <2>7. (Content(b) \o first) \o rest = Content(b) \o (first \o rest)
    <3>1. Content(b) \in Seq(Nat)
      BY ContentIs
    <3> QED
      BY <2>4, <3>1, ThreeParts
  <2> QED
    BY <2>2, <2>3, <2>5, <2>6, <2>7
<1> QED
  BY <1>4, <1>5

LEMMA RetrieveIs ==
  ASSUME NEW b, Good(b), NEW n \in 1 .. ReadableBytes(b)
  PROVE  /\ Good(Retrieve(b, n)) /\ n \in 1 .. Len(Content(b))
         /\ Content(Retrieve(b, n)) = SubSeq(Content(b), n + 1, Len(Content(b)))
<1>1. PICK L, r, w \in Nat : Shape(b, L, r, w)
  BY GoodIs
<1>2. /\ InitSize <= L /\ r <= w /\ w <= L /\ ReadableBytes(b) = w - r
      /\ b.readPos_ = r /\ Len(b.mem) = L /\ b.writePos_ = w
  BY <1>1 DEF Shape
<1>3. n \in Nat /\ n <= w - r /\ r + n \in Nat /\ r + n <= w /\ 1 <= n
  BY <1>2
<1> DEFINE g == Retrieve(b, n)
           c == Content(b)
           d == SubSeq(c, n + 1, Len(c))
<1>4. g \in Buffers /\ g.mem = b.mem /\ g.readPos_ = r + n /\ g.writePos_ = w
  BY <1>2, <1>3 DEF Retrieve, Good, Buffers
<1>5. /\ c \in Seq(Nat) /\ Len(c) = w - r
      /\ \A i \in 1 .. w - r : c[i] = b.mem[r + i]
  BY <1>2, ContentIs
<1> HIDE DEF g, c
<1>6. Good(g) /\ Shape(g, L, r + n, w)
  BY <1>2, <1>3, <1>4, ShapeIsGood
<1>7. ReadableBytes(g) = w - (r + n) /\ w - (r + n) = (w - r) - n
  BY <1>3, <1>6 DEF Shape
<1>8. /\ d \in Seq(Nat) /\ Len(d) = (w - r) - n
      /\ \A i \in 1 .. (w - r) - n : d[i] = c[n + i]
  <2>1. \A i \in n + 1 .. w - r : c[i] \in Nat
    <3>1. \A i \in 1 .. w - r : c[i] \in Nat
      BY <1>5, ElementOfSeq
    <3> QED
      BY <1>3, <3>1
  <2>2. d = SubSeq(c, n + 1, w - r)
    BY <1>5
  <2>3. /\ SubSeq(c, n + 1, w - r) \in Seq(Nat)
        /\ Len(SubSeq(c, n + 1, w - r)) = IF n + 1 <= w - r THEN (w - r) - (n + 1) + 1 ELSE 0
        /\ \A i \in 1 .. (w - r) - (n + 1) + 1 : SubSeq(c, n + 1, w - r)[i] = c[(n + 1) + i - 1]
    <3>1. w - r \in Int /\ n + 1 \in Int
      BY <1>3
    <3> HIDE DEF d
    <3> QED
      BY <2>1, <3>1, SubSeqProperties
  <2>4. (IF n + 1 <= w - r THEN (w - r) - (n + 1) + 1 ELSE 0) = (w - r) - n
    BY <1>3
  <2>5. \A i \in 1 .. (w - r) - n : i \in 1 .. (w - r) - (n + 1) + 1 /\ (n + 1) + i - 1 = n + i
    BY <1>3
  <2> HIDE DEF d
  <2> QED
    BY <2>2, <2>3, <2>4, <2>5
<1> HIDE DEF d
<1>9. \A i \in 1 .. ReadableBytes(g) : g.mem[g.readPos_ + i] = d[i]
  <2>1. \A i \in 1 .. (w - r) - n : n + i \in 1 .. w - r /\ r + (n + i) = (r + n) + i
    BY <1>3
  <2> QED
    BY <1>4, <1>5, <1>7, <1>8, <2>1
<1>10. Content(g) = d
  BY <1>6, <1>7, <1>8, <1>9, ContentEqual
<1>11. n \in 1 .. Len(c)
  BY <1>3, <1>5
<1> QED
  BY <1>6, <1>10, <1>11 DEF g, c, d

LEMMA EmptyIs ==
  ASSUME NEW n \in Nat, InitSize <= n
  PROVE  LET b == [mem |-> Zeros(n), readPos_ |-> 0, writePos_ |-> 0]
         IN  Good(b) /\ Content(b) = <<>>
<1> DEFINE b == [mem |-> Zeros(n), readPos_ |-> 0, writePos_ |-> 0]
<1>1. b \in Buffers /\ Len(b.mem) = n /\ b.readPos_ = 0 /\ b.writePos_ = 0
  BY ZerosAre DEF Buffers
<1> HIDE DEF b
<1>2. Good(b)
  BY <1>1, ShapeIsGood
<1>3. Content(b) = <<>>
  <2>1. Content(b) = SubSeq(b.mem, 0 + 1, 0)
    BY <1>1 DEF Content
  <2> QED
    BY <2>1, SubSeqEmpty
<1> QED
  BY <1>2, <1>3 DEF b

LEMMA RetrieveAllIs ==
  ASSUME NEW b, Good(b)
  PROVE  Good(RetrieveAll(b)) /\ Content(RetrieveAll(b)) = <<>>
<1>1. PICK L, r, w \in Nat : Shape(b, L, r, w)
  BY GoodIs
<1>2. Len(b.mem) = L /\ InitSize <= L
  BY <1>1 DEF Shape
<1> QED
  BY <1>2, EmptyIs DEF RetrieveAll

-----------------------------------------------------------------------------
(***************************************************************************)
(* A line of the log.                                                      *)
(***************************************************************************)

\* What snprintf leaves when HasWritten counts the length it returns: whole, unless
\* the room is exactly that length.
LEMMA PrintIs ==
  ASSUME NEW b, Good(b), NEW s \in Seq(Nat), Len(s) <= WriteableBytes(b),
         NEW room \in Nat, Len(s) <= room
  PROVE  /\ Good(HasWritten(PrintAt(b, s, room), Len(s)))
         /\ Len(s) < room =>
              Content(HasWritten(PrintAt(b, s, room), Len(s))) = Content(b) \o s
<1> DEFINE n == IF Len(s) < room THEN Len(s) ELSE room - 1
<1>1. PICK k \in Nat : k = Len(s)
  BY LenProperties
<1>2. n \in Int /\ n <= k /\ k <= n + 1 /\ (k < room => n = k)
  BY <1>1
<1>3. PrintAt(b, s, room) = Stored(b, Append(SubSeq(s, 1, n), NUL))
  BY DEF PrintAt, Stored
<1> HIDE DEF n
<1>4. \A i \in 1 .. n : s[i] \in Nat
  <2>1. \A i \in 1 .. n : i \in 1 .. k
    BY <1>2
  <2> QED
    BY <1>1, <2>1, ElementOfSeq
<1>5. n <= 0 => k <= 1
  BY <1>2
<1> DEFINE p == SubSeq(s, 1, n)
<1>6. p \in Seq(Nat) /\ Len(p) = IF 1 <= n THEN n - 1 + 1 ELSE 0
  BY <1>2, <1>4, SubSeqProperties
<1> HIDE DEF p
<1>7. PICK q \in Nat : q = Len(p) /\ k <= q + 1 /\ (k < room => q = k)
  <2>1. CASE 1 <= n
    <3>1. n \in Nat /\ n - 1 + 1 = n
      BY <1>2, <2>1
    <3> QED
      BY <1>2, <1>6, <2>1, <3>1
  <2>2. CASE ~(1 <= n)
    <3>1. n <= 0 /\ Len(p) = 0 /\ (n = k => k = 0)
      BY <1>2, <1>6, <2>2
    <3> QED
      BY <1>2, <1>5, <3>1
  <2> QED
    BY <2>1, <2>2
<1> DEFINE t == Append(p, NUL)
<1>8. t \in Seq(Nat) /\ Len(t) = q + 1 /\ \A i \in 1 .. q : t[i] = p[i]
  BY <1>6, <1>7 DEF NUL
<1> HIDE DEF t
<1>9. /\ Good(HasWritten(Stored(b, t), k))
      /\ Content(HasWritten(Stored(b, t), k)) = Content(b) \o SubSeq(t, 1, k)
  <2>1. k \in 0 .. Len(t)
    BY <1>7, <1>8
  <2> QED
    BY <1>1, <1>8, <2>1, WrittenIs
<1>10. ASSUME k < room PROVE SubSeq(t, 1, k) = s
  <2>1. p = s /\ q = k
    BY <1>1, <1>2, <1>7, <1>10, SubSeqFull DEF p
  <2>2. /\ SubSeq(t, 1, k) \in Seq(Nat) /\ Len(SubSeq(t, 1, k)) = k
        /\ \A i \in 1 .. k : SubSeq(t, 1, k)[i] = t[i]
    BY <1>8, <2>1
  <2>3. \A i \in 1 .. k : t[i] = s[i]
    BY <1>8, <2>1
  <2> QED
    BY <1>1, <2>2, <2>3, SeqEqual
<1> QED
  BY <1>1, <1>3, <1>9, <1>10 DEF t, p

\* The head is cut by no buffer, and the title follows it at once.
LEMMA WithHeadIs ==
  ASSUME NEW b, Good(b)
  PROVE  Good(WithHead(b)) /\ Content(WithHead(b)) = (Content(b) \o LineHead) \o LineTitle
<1> DEFINE room == EnsureWriteable(b, HeadRoom)
           printed == HasWritten(PrintAt(room, LineHead, HeadRoom), Len(LineHead))
<1>1. /\ HeadRoom \in Nat /\ LineHead \in Seq(Nat) /\ LineTitle \in Seq(Nat)
      /\ Len(LineHead) \in Nat /\ Len(LineHead) < HeadRoom /\ Len(LineHead) <= HeadRoom
  BY Sizes, LenProperties
<1>2. Good(room) /\ WriteableBytes(room) >= HeadRoom /\ Content(room) = Content(b)
  BY <1>1, EnsureIs
<1>3. WithHead(b) = Append_(printed, LineTitle)
  BY DEF WithHead
<1> HIDE DEF room
<1>4. Len(LineHead) <= WriteableBytes(room)
  <2>1. PICK L, r, w \in Nat : Shape(room, L, r, w)
    BY <1>2, GoodIs
  <2> QED
    BY <1>1, <1>2, <2>1 DEF Shape
<1>5. Good(printed) /\ Content(printed) = Content(room) \o LineHead
  BY <1>1, <1>2, <1>4, PrintIs
<1> HIDE DEF printed
<1>6. Good(Append_(printed, LineTitle)) /\ Content(Append_(printed, LineTitle)) = Content(printed) \o LineTitle
  BY <1>1, <1>5, AppendIs
<1> QED
  BY <1>2, <1>3, <1>5, <1>6

\* Only one length is the CHOICE of Text when a NUL follows the bytes of m and none is
\* among them.
LEMMA TextIs ==
  ASSUME NEW s \in Seq(Nat), NEW m \in Seq(Nat), Len(m) < Len(s), s[Len(m) + 1] = NUL,
         \A i \in 1 .. Len(m) : s[i] = m[i] /\ m[i] # NUL
  PROVE  Text(s) = m
<1> DEFINE Ends(n) == /\ n = Len(s) \/ s[n + 1] = NUL
                      /\ \A i \in 1 .. n : s[i] # NUL
<1>1. Len(m) \in Nat /\ Len(s) \in Nat
  BY LenProperties
<1>2. Text(s) = SubSeq(s, 1, CHOOSE n \in 0 .. Len(s) : Ends(n))
  BY DEF Text
<1>3. Len(m) \in 0 .. Len(s) /\ Ends(Len(m))
  <2>1. Len(m) \in 0 .. Len(s)
    BY <1>1
  <2>2. Ends(Len(m))
    BY Zenon
  <2> QED
    BY <2>1, <2>2
<1>4. ASSUME NEW n \in 0 .. Len(s), Ends(n) PROVE n = Len(m)
  <2>1. ~(n > Len(m))
    <3>1. SUFFICES ASSUME n > Len(m) PROVE FALSE
      OBVIOUS
    <3>2. Len(m) + 1 \in 1 .. n
      BY <1>1, <3>1
    <3>3. s[Len(m) + 1] # NUL
      BY <1>4, <3>2
    <3> QED
      BY <3>3
  <2>2. ~(n < Len(m))
    <3>1. SUFFICES ASSUME n < Len(m) PROVE FALSE
      OBVIOUS
    <3>2. n + 1 \in 1 .. Len(m) /\ n # Len(s)
      BY <1>1, <3>1
    <3>3. s[n + 1] # NUL
      BY <1>1, <3>2
    <3> QED
      BY <1>4, <3>2, <3>3
  <2> QED
    BY <1>1, <2>1, <2>2
<1> HIDE DEF Ends
<1>5. (CHOOSE n \in 0 .. Len(s) : Ends(n)) = Len(m)
  BY <1>3, <1>4
<1>6. SubSeq(s, 1, Len(m)) = m
  <2>1. /\ SubSeq(s, 1, Len(m)) \in Seq(Nat) /\ Len(SubSeq(s, 1, Len(m))) = Len(m)
        /\ \A i \in 1 .. Len(m) : SubSeq(s, 1, Len(m))[i] = s[i]
    BY <1>1
  <2> QED
    BY <1>1, <2>1, SeqEqual
<1> QED
  BY <1>2, <1>5, <1>6

\* The line meant is made of bytes that are not NUL.
LEMMA MeantIs ==
  ASSUME NEW message \in Messages
  PROVE  /\ Meant(message) \in Seq(Nat)
         /\ \A i \in 1 .. Len(Meant(message)) : Meant(message)[i] # NUL
<1>1. \A s, t : s \in Seq(Nat \ {NUL}) /\ t \in Seq(Nat \ {NUL}) => s \o t \in Seq(Nat \ {NUL})
  BY ConcatProperties
<1>2. /\ LineHead \in Seq(Nat \ {NUL}) /\ LineTitle \in Seq(Nat \ {NUL})
      /\ message \in Seq(Nat \ {NUL}) /\ <<NL>> \in Seq(Nat \ {NUL})
  BY BufferAssumption DEF NL, NUL
<1>3. Meant(message) \in Seq(Nat \ {NUL})
  BY <1>1, <1>2 DEF Meant
<1>4. Nat \ {NUL} \subseteq Nat
  OBVIOUS
<1>5. Meant(message) \in Seq(Nat)
  BY <1>3, <1>4, SeqMonotonic
<1> QED
  BY <1>3, <1>5, ElementOfSeq

LEMMA NothingWritten ==
  ASSUME NEW b, Good(b), b.writePos_ = 0
  PROVE  Content(b) = <<>>
<1>1. PICK L, r, w \in Nat : Shape(b, L, r, w)
  BY GoodIs
<1>2. b.readPos_ = 0
  BY <1>1 DEF Shape
<1>3. Content(b) = SubSeq(b.mem, 0 + 1, 0)
  BY <1>2 DEF Content
<1> QED
  BY <1>3, SubSeqEmpty

\* None of the functions that lay out a line moves readPos_ from the start.
LEMMA AtStart ==
  ASSUME NEW b, Good(b), b.readPos_ = 0
  PROVE  /\ \A len \in Nat : EnsureWriteable(b, len).readPos_ = 0
         /\ \A s \in Seq(Nat) : Append_(b, s).readPos_ = 0
         /\ WithHead(b).readPos_ = 0
<1>1. ASSUME NEW c \in Buffers, c.readPos_ = 0, NEW len \in Nat
      PROVE  EnsureWriteable(c, len).readPos_ = 0
  <2>1. MakeSpace_(c, len).readPos_ = 0
    BY <1>1 DEF MakeSpace_, Buffers
  <2> QED
    BY <1>1, <2>1 DEF EnsureWriteable
<1>2. ASSUME NEW c, Good(c), c.readPos_ = 0, NEW s \in Seq(Nat)
      PROVE  Append_(c, s).readPos_ = 0
  <2> DEFINE room == EnsureWriteable(c, Len(s))
  <2>1. Len(s) \in Nat
    BY LenProperties
  <2>2. Good(room) /\ room.readPos_ = 0
    BY <1>1, <1>2, <2>1, EnsureIs DEF Good
  <2>3. Append_(c, s) = HasWritten(Stored(room, s), Len(s))
    BY DEF Append_, Stored
  <2> HIDE DEF room
  <2> QED
    BY <2>2, <2>3 DEF HasWritten, Stored, Good, Buffers
<1>3. WithHead(b).readPos_ = 0
  <2> DEFINE room == EnsureWriteable(b, HeadRoom)
             printed == HasWritten(PrintAt(room, LineHead, HeadRoom), Len(LineHead))
  <2>1. /\ HeadRoom \in Nat /\ LineHead \in Seq(Nat) /\ LineTitle \in Seq(Nat)
        /\ Len(LineHead) \in Nat /\ Len(LineHead) < HeadRoom /\ Len(LineHead) <= HeadRoom
    BY Sizes, LenProperties
  <2>2. Good(room) /\ WriteableBytes(room) >= HeadRoom /\ room.readPos_ = 0
    BY <1>1, <2>1, EnsureIs DEF Good
  <2>3. WithHead(b) = Append_(printed, LineTitle)
    BY DEF WithHead
  <2> HIDE DEF room
  <2>4. Len(LineHead) <= WriteableBytes(room)
    <3>1. PICK L, r, w \in Nat : Shape(room, L, r, w)
      BY <2>2, GoodIs
    <3> QED
      BY <2>1, <2>2, <3>1 DEF Shape
  <2>5. Good(printed)
    BY <2>1, <2>2, <2>4, PrintIs
  <2>6. printed.readPos_ = 0
    BY <2>2 DEF HasWritten, PrintAt, Good, Buffers
  <2> HIDE DEF printed
  <2> QED
    BY <1>2, <2>1, <2>3, <2>5, <2>6
<1> QED
  BY <1>1, <1>2, <1>3 DEF Good

\* A buffer from its start on: positions and memory.
LEMMA FromStart ==
  ASSUME NEW b, Good(b), b.readPos_ = 0
  PROVE  /\ b.writePos_ = Len(Content(b)) /\ b.writePos_ \in Nat
         /\ b.mem \in Seq(Nat) /\ Len(b.mem) \in Nat
         /\ InitSize <= Len(b.mem) /\ b.writePos_ <= Len(b.mem)
         /\ WriteableBytes(b) = Len(b.mem) - b.writePos_
         /\ \A i \in 1 .. b.writePos_ : b.mem[i] = Content(b)[i]
<1>1. PICK L, r, w \in Nat : Shape(b, L, r, w)
  BY GoodIs
<1>2. /\ Len(b.mem) = L /\ b.writePos_ = w /\ r = 0 /\ InitSize <= L /\ w <= L
      /\ ReadableBytes(b) = w /\ WriteableBytes(b) = L - w
  BY <1>1 DEF Shape
<1>3. b.mem \in Seq(Nat)
  BY GoodIs
<1>4. \A i \in 1 .. w : b.mem[i] = Content(b)[i]
  <2>1. \A i \in 1 .. w : 0 + i = i
    OBVIOUS
  <2> QED
    BY <1>2, <2>1, ContentIs
<1> QED
  BY <1>2, <1>3, <1>4, ContentIs

\* From the start on, Peek sees the whole memory.
LEMMA PeekIs ==
  ASSUME NEW b, b.mem \in Seq(Nat), b.readPos_ = 0
  PROVE  Peek(b) = b.mem
  BY SubSeqFull DEF Peek

\* The head and the title stand at the start, and the memory reaches beyond them.
LEMMA HeadStands ==
  ASSUME NEW b, Good(b), b.writePos_ = 0
  PROVE  LET head == WithHead(b)
             top == LineHead \o LineTitle
         IN  /\ Good(head) /\ head.readPos_ = 0 /\ Content(head) = top
             /\ top \in Seq(Nat) /\ Len(top) \in Nat /\ head.writePos_ = Len(top)
             /\ Len(top) = Len(LineHead) + Len(LineTitle) /\ Len(top) < Len(head.mem)
<1> DEFINE head == WithHead(b)
           top == LineHead \o LineTitle
<1>1. /\ LineHead \in Seq(Nat) /\ LineTitle \in Seq(Nat) /\ InitSize \in Nat
      /\ Len(LineHead) + Len(LineTitle) < InitSize
  BY Sizes
<1>2. /\ top \in Seq(Nat) /\ Len(top) \in Nat
      /\ Len(top) = Len(LineHead) + Len(LineTitle)
  BY <1>1, ConcatProperties, LenProperties
<1>3. b.readPos_ = 0
  <2>1. PICK L, r, w \in Nat : Shape(b, L, r, w)
    BY GoodIs
  <2> QED
    BY <2>1 DEF Shape
<1>4. Good(head) /\ head.readPos_ = 0
  BY <1>3, WithHeadIs, AtStart
<1>5. Content(head) = top
  <2>1. Content(b) = <<>>
    <3>1. Content(b) = SubSeq(b.mem, 0 + 1, 0)
      BY <1>3 DEF Content
    <3> QED
      BY <3>1, SubSeqEmpty
  <2>2. Content(head) = (<<>> \o LineHead) \o LineTitle
    BY <2>1, WithHeadIs
  <2>3. <<>> \o LineHead = LineHead
    BY <1>1, ConcatEmptySeq
  <2> QED
    BY <2>2, <2>3
<1> HIDE DEF head, top
<1>6. head.writePos_ = Len(top) /\ InitSize <= Len(head.mem) /\ Len(head.mem) \in Nat
  BY <1>4, <1>5, FromStart
<1>7. Len(top) < Len(head.mem)
  BY <1>1, <1>2, <1>6
<1> QED
  BY <1>2, <1>4, <1>5, <1>6, <1>7 DEF head, top

LEMMA PrefixIs ==
  ASSUME NEW s \in Seq(Nat), NEW t \in Seq(Nat)
  PROVE  Len(s \o t) = Len(s) + Len(t) /\ \A i \in 1 .. Len(s) : (s \o t)[i] = s[i]
<1>1. /\ Len(s \o t) = Len(s) + Len(t)
      /\ \A i \in 1 .. Len(s) + Len(t) :
           (s \o t)[i] = IF i <= Len(s) THEN s[i] ELSE t[i - Len(s)]
  BY ConcatProperties
<1>2. Len(s) \in Nat /\ Len(t) \in Nat
  BY LenProperties
<1>3. \A i \in 1 .. Len(s) : i \in 1 .. Len(s) + Len(t) /\ i <= Len(s)
  BY <1>2
<1> QED
  BY <1>1, <1>3, Zenon

\* The bytes of the line meant.
LEMMA MeantBytes ==
  ASSUME NEW message \in Messages
  PROVE  LET top == LineHead \o LineTitle
             meant == Meant(message)
         IN  /\ Len(message) \in Nat /\ Len(meant) = Len(top) + Len(message) + 1
             /\ \A i \in 1 .. Len(top) : meant[i] = top[i]
             /\ \A i \in 1 .. Len(message) : meant[Len(top) + i] = message[i]
<1> DEFINE top == LineHead \o LineTitle
           m == top \o message
<1>1. /\ LineHead \in Seq(Nat) /\ LineTitle \in Seq(Nat) /\ message \in Seq(Nat)
      /\ <<NL>> \in Seq(Nat) /\ Len(<<NL>>) = 1
  BY Sizes DEF NL
<1>2. top \in Seq(Nat)
  BY <1>1, ConcatProperties
<1>3. Meant(message) = m \o <<NL>>
  BY DEF Meant
<1> HIDE DEF top
<1>4. Len(top) \in Nat /\ Len(message) \in Nat
  BY <1>1, <1>2, LenProperties
<1>5. /\ m \in Seq(Nat) /\ Len(m) = Len(top) + Len(message)
      /\ \A i \in 1 .. Len(top) + Len(message) :
           m[i] = IF i <= Len(top) THEN top[i] ELSE message[i - Len(top)]
  BY <1>1, <1>2, ConcatProperties
<1> HIDE DEF m
<1>6. /\ Len(m \o <<NL>>) = Len(m) + 1
      /\ \A i \in 1 .. Len(m) : (m \o <<NL>>)[i] = m[i]
  <2>1. /\ Len(m \o <<NL>>) = Len(m) + Len(<<NL>>)
        /\ \A i \in 1 .. Len(m) : (m \o <<NL>>)[i] = m[i]
    BY <1>1, <1>5, PrefixIs, Zenon
  <2> QED
    BY <1>1, <2>1
<1>7. \A i \in 1 .. Len(top) : i \in 1 .. Len(m) /\ i <= Len(top)
  BY <1>4, <1>5
<1>8. \A i \in 1 .. Len(message) :
        /\ Len(top) + i \in 1 .. Len(m) /\ ~(Len(top) + i <= Len(top))
        /\ (Len(top) + i) - Len(top) = i
  BY <1>4, <1>5
<1> QED
  BY <1>3, <1>4, <1>5, <1>6, <1>7, <1>8 DEF top

\* A message with room for its NUL: fputs finds what was meant.
LEMMA WholeLine ==
  ASSUME NEW b, Good(b), b.writePos_ = 0, NEW message \in Messages,
         Len(message) < WriteableBytes(WithHead(b))
  PROVE  LET full == WithLine(b, message)
         IN  /\ Good(full) /\ full.readPos_ = 0
             /\ full.writePos_ = Len(Meant(message)) + 1
             /\ Text(Peek(full)) = Meant(message)
             /\ Len(Meant(message)) <= Len(WithHead(b).mem)
<1> DEFINE head == WithHead(b)
           top == LineHead \o LineTitle
           printed == HasWritten(PrintAt(head, message, WriteableBytes(head)), Len(message))
           full == WithLine(b, message)
           meant == Meant(message)
<1>1. /\ message \in Seq(Nat) /\ <<NL>> \in Seq(Nat) /\ <<NUL>> \in Seq(Nat)
      /\ <<NL, NUL>> \in Seq(Nat) /\ <<NL, NUL>> = <<NL>> \o <<NUL>>
  BY Sizes DEF NL, NUL
<1>2. /\ Good(head) /\ head.readPos_ = 0 /\ Content(head) = top
      /\ top \in Seq(Nat) /\ Len(top) \in Nat /\ head.writePos_ = Len(top)
  BY HeadStands
<1>3. full = Append_(printed, <<NL, NUL>>)
  BY DEF WithLine
<1>4. meant = (top \o message) \o <<NL>>
  BY DEF Meant
<1>5. Len(message) < WriteableBytes(head)
  OBVIOUS
<1> HIDE DEF head, top
<1>6. /\ WriteableBytes(head) = Len(head.mem) - Len(top) /\ Len(head.mem) \in Nat
      /\ Len(top) <= Len(head.mem) /\ Len(message) \in Nat
  BY <1>1, <1>2, FromStart, LenProperties
<1>7. WriteableBytes(head) \in Nat /\ Len(message) <= WriteableBytes(head)
  BY <1>5, <1>6
<1>8. Good(printed) /\ Content(printed) = top \o message
  BY <1>1, <1>2, <1>5, <1>7, PrintIs
<1>9. printed.readPos_ = 0
  BY <1>2 DEF HasWritten, PrintAt, Good, Buffers
<1> HIDE DEF printed
<1>10. /\ Good(full) /\ Content(full) = (top \o message) \o <<NL, NUL>>
       /\ full.readPos_ = 0
  BY <1>1, <1>3, <1>8, <1>9, AppendIs, AtStart
<1>11. Content(full) = meant \o <<NUL>>
  <2>1. top \o message \in Seq(Nat)
    BY <1>1, <1>2, ConcatProperties
  <2>2. (top \o message) \o (<<NL>> \o <<NUL>>) = ((top \o message) \o <<NL>>) \o <<NUL>>
    BY <1>1, <2>1, ThreeParts
  <2> QED
    BY <1>1, <1>4, <1>10, <2>2
<1>12. meant \in Seq(Nat) /\ (\A i \in 1 .. Len(meant) : meant[i] # NUL) /\ Len(meant) \in Nat
  BY MeantIs, LenProperties
<1>13. Len(meant) = Len(top) + Len(message) + 1
  BY MeantBytes DEF top
<1> HIDE DEF full, meant
<1>14. /\ full.mem \in Seq(Nat) /\ full.writePos_ = Len(Content(full)) /\ Len(full.mem) \in Nat
       /\ full.writePos_ <= Len(full.mem)
       /\ \A i \in 1 .. full.writePos_ : full.mem[i] = Content(full)[i]
  BY <1>10, FromStart
<1>15. /\ Len(meant \o <<NUL>>) = Len(meant) + 1
       /\ \A i \in 1 .. Len(meant) : (meant \o <<NUL>>)[i] = meant[i]
       /\ (meant \o <<NUL>>)[Len(meant) + 1] = NUL
  BY <1>1, <1>12
<1>16. /\ Len(meant) < Len(full.mem) /\ full.mem[Len(meant) + 1] = NUL
       /\ \A i \in 1 .. Len(meant) : full.mem[i] = meant[i]
  <2>1. full.writePos_ = Len(meant) + 1 /\ Len(meant) + 1 \in 1 .. full.writePos_
    BY <1>11, <1>12, <1>14, <1>15
  <2>2. \A i \in 1 .. Len(meant) : i \in 1 .. full.writePos_
    BY <1>12, <2>1
  <2>3. Len(meant) < Len(full.mem)
    BY <1>12, <1>14, <2>1
  <2> QED
    BY <1>11, <1>14, <1>15, <2>1, <2>2, <2>3
<1>17. Text(full.mem) = meant
  BY <1>12, <1>14, <1>16, TextIs
<1>18. Peek(full) = full.mem
  BY <1>10, <1>14, PeekIs
<1>19. Len(meant) <= Len(head.mem)
  BY <1>5, <1>6, <1>13
<1>20. full.writePos_ = Len(meant) + 1
  BY <1>11, <1>14, <1>15
<1> QED
  BY <1>10, <1>17, <1>18, <1>19, <1>20 DEF full, meant, head

\* What vsnprintf leaves of a message without room for its NUL: as much as the
\* memory holds, and the NUL in its last byte.
LEMMA CutPrint ==
  ASSUME NEW b, Good(b), b.writePos_ = 0, NEW message \in Messages,
         ~(Len(message) < WriteableBytes(WithHead(b)))
  PROVE  LET head == WithHead(b)
             cut == PrintAt(head, message, WriteableBytes(head))
             L == Len(head.mem)
         IN  /\ cut \in Buffers /\ cut.readPos_ = 0 /\ cut.writePos_ = head.writePos_
             /\ Len(cut.mem) = L /\ cut.mem[L] = NUL /\ L \in Nat \ {0} /\ InitSize <= L
             /\ \A i \in 1 .. L - 1 : cut.mem[i] = Meant(message)[i]
             /\ head.writePos_ + Len(message) >= L
             /\ Len(Meant(message)) = head.writePos_ + Len(message) + 1
             /\ head.writePos_ \in Nat /\ Len(message) \in Nat
<1> DEFINE head == WithHead(b)
           top == LineHead \o LineTitle
           W == WriteableBytes(head)
           cut == PrintAt(head, message, W)
           meant == Meant(message)
<1>1. message \in Seq(Nat)
  BY Sizes
<1>2. /\ Good(head) /\ head.readPos_ = 0 /\ Content(head) = top
      /\ top \in Seq(Nat) /\ Len(top) \in Nat /\ head.writePos_ = Len(top)
      /\ Len(top) < Len(head.mem)
  BY HeadStands
<1>3. /\ Len(meant) = Len(top) + Len(message) + 1
      /\ \A i \in 1 .. Len(top) : meant[i] = top[i]
      /\ \A i \in 1 .. Len(message) : meant[Len(top) + i] = message[i]
  BY MeantBytes
<1> HIDE DEF head, top, meant
<1>4. PICK L \in Nat : L = Len(head.mem) /\ head.mem \in Seq(Nat) /\ W = L - Len(top) /\ InitSize <= L
  BY <1>2, FromStart
<1>5. \A i \in 1 .. Len(top) : head.mem[i] = top[i]
  BY <1>2, FromStart
<1>6. PICK k \in Nat : k = Len(message)
  BY <1>1, LenProperties
<1>7. ~(k < W)
  BY <1>6 DEF head
<1> HIDE DEF W
<1>8. PICK t \in Nat : t = Len(top)
  BY <1>2
<1>9. W \in Nat /\ 1 <= W /\ W <= k /\ t + W = L /\ t < L /\ W - 1 \in Nat
  BY <1>2, <1>4, <1>7, <1>8
<1> DEFINE p == SubSeq(message, 1, W - 1)
           s == Append(p, NUL)
<1>10. p \in Seq(Nat) /\ Len(p) = W - 1 /\ \A i \in 1 .. W - 1 : p[i] = message[i]
  <2>1. \A i \in 1 .. W - 1 : message[i] \in Nat
    BY <1>1, <1>6, <1>9, ElementOfSeq
  <2>2. /\ p \in Seq(Nat) /\ Len(p) = IF 1 <= W - 1 THEN W - 1 - 1 + 1 ELSE 0
        /\ \A i \in 1 .. W - 1 - 1 + 1 : p[i] = message[1 + i - 1]
    BY <1>9, <2>1, SubSeqProperties
  <2>3. (IF 1 <= W - 1 THEN W - 1 - 1 + 1 ELSE 0) = W - 1 /\ W - 1 - 1 + 1 = W - 1
    BY <1>9
  <2>4. \A i \in 1 .. W - 1 : 1 + i - 1 = i
    OBVIOUS
  <2> HIDE DEF p
  <2> QED
    BY <2>2, <2>3, <2>4
<1> HIDE DEF p
<1>11. /\ s \in Seq(Nat) /\ Len(s) = W /\ s[W] = NUL
       /\ \A i \in 1 .. W - 1 : s[i] = message[i]
  <2>1. /\ s \in Seq(Nat) /\ Len(s) = (W - 1) + 1 /\ s[(W - 1) + 1] = NUL
        /\ \A i \in 1 .. W - 1 : s[i] = p[i]
    BY <1>10 DEF NUL
  <2>2. (W - 1) + 1 = W
    BY <1>9
  <2> HIDE DEF s
  <2> QED
    BY <1>10, <2>1, <2>2
<1>12. cut = [head EXCEPT !.mem = Copy(@, head.writePos_, s)]
  <2>1. ~(Len(message) < W)
    BY <1>6, <1>7
  <2> QED
    BY <2>1 DEF PrintAt, p
<1> HIDE DEF s
<1> DEFINE m == Copy(head.mem, t, s)
<1>13. m \in Seq(Nat) /\ Len(m) = L /\ \A i \in 1 .. L : CopyAt(head.mem, t, s, i)
  BY <1>4, <1>11, CopyIs
<1>14. \A i \in 1 .. L : m[i] = IF i \in t + 1 .. t + W THEN s[i - t] ELSE head.mem[i]
  BY <1>11, <1>13, Zenon DEF CopyAt
<1>15. cut \in Buffers /\ cut.mem = m /\ cut.readPos_ = 0 /\ cut.writePos_ = t
  BY <1>2, <1>8, <1>12, <1>13 DEF Good, Buffers
<1> HIDE DEF m, cut
<1>16. m[L] = NUL
  <2>1. L \in 1 .. L /\ L \in t + 1 .. t + W /\ L - t = W
    BY <1>9
  <2> QED
    BY <1>11, <1>14, <2>1
<1>17. ASSUME NEW i \in 1 .. L - 1 PROVE m[i] = meant[i]
  <2>1. i \in 1 .. L
    OBVIOUS
  <2>2. CASE i <= t
    <3>1. i \notin t + 1 .. t + W /\ i \in 1 .. Len(top)
      BY <1>8, <2>2
    <3> QED
      BY <1>3, <1>5, <1>14, <2>1, <3>1
  <2>3. CASE ~(i <= t)
    <3>1. PICK j \in Nat : j = i - t
      BY <2>3
    <3>2. i \in t + 1 .. t + W /\ j \in 1 .. W - 1 /\ j \in 1 .. Len(message) /\ i = Len(top) + j
      BY <1>6, <1>8, <1>9, <2>3, <3>1
    <3>3. m[i] = s[j]
      BY <1>14, <2>1, <3>1, <3>2
    <3> QED
      BY <1>3, <1>11, <3>2, <3>3
  <2> QED
    BY <2>2, <2>3
<1>18. t + k >= L /\ Len(meant) = t + k + 1 /\ L \in Nat \ {0}
  BY <1>3, <1>6, <1>8, <1>9
<1> QED
  BY <1>2, <1>4, <1>6, <1>8, <1>13, <1>15, <1>16, <1>17, <1>18 DEF cut, head, W, meant

\* The newline goes behind what vsnprintf left, in a larger memory or outside of it,
\* and fputs ends at the NUL before.
LEMMA CutLine ==
  ASSUME NEW b, Good(b), b.writePos_ = 0, NEW message \in Messages,
         ~(Len(message) < WriteableBytes(WithHead(b)))
  PROVE  LET full == WithLine(b, message)
             L == Len(WithHead(b).mem)
         IN  /\ full \in Buffers /\ full.readPos_ = 0 /\ InitSize <= Len(full.mem)
             /\ full.writePos_ = Len(Meant(message)) + 1
             /\ Text(Peek(full)) = SubSeq(Meant(message), 1, L - 1)
             /\ ~(Len(Meant(message)) <= L)
<1> DEFINE head == WithHead(b)
           cut == PrintAt(head, message, WriteableBytes(head))
           printed == HasWritten(cut, Len(message))
           full == WithLine(b, message)
           meant == Meant(message)
<1>1. PICK L \in Nat : L = Len(head.mem)
  BY CutPrint
<1>2. /\ cut \in Buffers /\ cut.readPos_ = 0 /\ cut.writePos_ = head.writePos_
      /\ Len(cut.mem) = L /\ cut.mem[L] = NUL /\ L \in Nat \ {0} /\ InitSize <= L
      /\ \A i \in 1 .. L - 1 : cut.mem[i] = meant[i]
      /\ head.writePos_ + Len(message) >= L
      /\ Len(meant) = head.writePos_ + Len(message) + 1
      /\ head.writePos_ \in Nat /\ Len(message) \in Nat
  BY <1>1, CutPrint
<1>3. full = Append_(printed, <<NL, NUL>>)
  BY DEF WithLine
<1>4. <<NL, NUL>> \in Seq(Nat) /\ Len(<<NL, NUL>>) = 2
  BY DEF NL, NUL
<1>5. meant \in Seq(Nat) /\ \A i \in 1 .. Len(meant) : meant[i] # NUL
  BY MeantIs
<1>6. L = Len(WithHead(b).mem)
  BY <1>1
<1> HIDE DEF cut, full, meant, head
<1>7. PICK w \in Nat : w = head.writePos_ + Len(message)
  BY <1>2
<1>8. /\ printed \in Buffers /\ printed.mem = cut.mem /\ printed.readPos_ = 0
      /\ printed.writePos_ = w
  BY <1>2, <1>7 DEF HasWritten, Buffers
<1> HIDE DEF printed
<1>9. w >= L /\ Len(meant) = w + 1
  BY <1>2, <1>7
<1>10. cut.mem \in Seq(Nat)
  BY <1>2 DEF Buffers
<1>11. /\ full \in Buffers /\ full.readPos_ = 0 /\ full.writePos_ = w + 2
       /\ L <= Len(full.mem) /\ \A i \in 1 .. L : full.mem[i] = cut.mem[i]
  <2>1. CASE w = L
    <3>1. Good(printed)
      BY <1>2, <1>8, <2>1, ShapeIsGood
    <3>2. /\ Good(full) /\ Content(full) = Content(printed) \o <<NL, NUL>>
          /\ full.readPos_ = 0
      BY <1>3, <1>4, <1>8, <3>1, AppendIs, AtStart
    <3>3. /\ Len(Content(printed)) = L
          /\ \A i \in 1 .. L : printed.mem[i] = Content(printed)[i]
      BY <1>8, <2>1, <3>1, FromStart
    <3>4. Content(printed) \in Seq(Nat)
      BY <3>1, ContentIs
    <3>5. /\ Len(Content(full)) = L + 2
          /\ \A i \in 1 .. L : Content(full)[i] = Content(printed)[i]
      <4> DEFINE c == Content(printed)
                 n == <<NL, NUL>>
      <4>1. c \in Seq(Nat) /\ Len(c) = L /\ n \in Seq(Nat) /\ Len(n) = 2
        BY <1>4, <3>3, <3>4
      <4> HIDE DEF c, n
      <4>2. Len(c \o n) = L + 2 /\ \A i \in 1 .. L : (c \o n)[i] = c[i]
        <5>1. Len(c \o n) = Len(c) + Len(n) /\ \A i \in 1 .. Len(c) : (c \o n)[i] = c[i]
          BY <4>1, PrefixIs, Zenon
        <5> QED
          BY <4>1, <5>1
      <4> QED
        BY <3>2, <4>2 DEF c, n
    <3>6. /\ full.writePos_ = L + 2 /\ full.writePos_ <= Len(full.mem) /\ Len(full.mem) \in Nat
          /\ \A i \in 1 .. L + 2 : full.mem[i] = Content(full)[i]
      BY <3>2, <3>5, FromStart
    <3>7. L <= Len(full.mem) /\ \A i \in 1 .. L : i \in 1 .. L + 2
      BY <3>6
    <3> QED
      BY <1>8, <2>1, <3>2, <3>3, <3>5, <3>6, <3>7 DEF Good
  <2>2. CASE w > L
    <3>1. w + 2 < SizeValues
      <4>1. Len(LineHead) + Len(LineTitle) + Len(message) + Len(<<>>) + 2 < SizeValues
        BY BufferAssumption
      <4>2. head.writePos_ = Len(LineHead) + Len(LineTitle)
        BY HeadStands DEF head
      <4>3. Len(<<>>) = 0
        OBVIOUS
      <4> QED
        BY <1>2, <1>7, <4>1, <4>2, <4>3, Sizes, LenProperties
    <3>2. WriteableBytes(printed) = L - w + SizeValues
      BY <1>2, <1>8, <2>2 DEF WriteableBytes, Minus
    <3>3. ~(WriteableBytes(printed) < 2)
      BY <1>2, <3>1, <3>2, Sizes
    <3>4. EnsureWriteable(printed, 2) = printed
      BY <3>3 DEF EnsureWriteable
    <3>5. full = HasWritten(Stored(printed, <<NL, NUL>>), 2)
      BY <1>3, <1>4, <3>4 DEF Append_, Stored
    <3> DEFINE m == Copy(cut.mem, w, <<NL, NUL>>)
    <3>6. m \in Seq(Nat) /\ Len(m) = L /\ \A i \in 1 .. L : CopyAt(cut.mem, w, <<NL, NUL>>, i)
      BY <1>2, <1>4, <1>10, CopyIs
    <3>7. \A i \in 1 .. L : i \notin w + 1 .. w + 2
      BY <2>2
    <3>8. \A i \in 1 .. L : m[i] = cut.mem[i]
      BY <1>4, <3>6, <3>7 DEF CopyAt
    <3> HIDE DEF m
    <3>9. /\ full \in Buffers /\ full.mem = m /\ full.readPos_ = 0
          /\ full.writePos_ = w + 2
      <4> DEFINE stored == Stored(printed, <<NL, NUL>>)
      <4>1. /\ stored \in Buffers /\ stored.mem = m /\ stored.readPos_ = 0
            /\ stored.writePos_ = w
        <5>1. stored = [printed EXCEPT !.mem = m]
          BY <1>8 DEF Stored, m, Buffers
        <5> QED
          BY <1>8, <3>6, <5>1 DEF Buffers
      <4> HIDE DEF stored
      <4>2. full = [stored EXCEPT !.writePos_ = w + 2]
        BY <3>5, <4>1 DEF HasWritten, stored, Buffers
      <4> QED
        BY <4>1, <4>2 DEF Buffers
    <3> QED
      BY <3>6, <3>8, <3>9
  <2> QED
    BY <1>9, <2>1, <2>2
<1>12. PICK M \in Nat : M = Len(full.mem) /\ full.mem \in Seq(Nat)
  BY <1>11, LenProperties DEF Buffers
<1> DEFINE first == SubSeq(meant, 1, L - 1)
<1>13. /\ first \in Seq(Nat) /\ Len(first) = L - 1 /\ L - 1 \in Nat
       /\ \A i \in 1 .. L - 1 : first[i] = meant[i] /\ first[i] # NUL
  <2>1. \A i \in 1 .. L - 1 : i \in 1 .. Len(meant)
    BY <1>9
  <2>2. \A i \in 1 .. L - 1 : meant[i] \in Nat /\ meant[i] # NUL
    BY <1>5, <2>1, ElementOfSeq
  <2>3. /\ first \in Seq(Nat) /\ Len(first) = IF 1 <= L - 1 THEN L - 1 - 1 + 1 ELSE 0
        /\ \A i \in 1 .. L - 1 - 1 + 1 : first[i] = meant[1 + i - 1]
    BY <2>2, SubSeqProperties
  <2>4. (IF 1 <= L - 1 THEN L - 1 - 1 + 1 ELSE 0) = L - 1 /\ L - 1 - 1 + 1 = L - 1 /\ L - 1 \in Nat
    BY <1>2
  <2>5. \A i \in 1 .. L - 1 : 1 + i - 1 = i
    OBVIOUS
  <2> HIDE DEF first
  <2> QED
    BY <2>2, <2>3, <2>4, <2>5
<1> HIDE DEF first
<1>14. Text(full.mem) = first
  <2>1. Len(first) < Len(full.mem) /\ Len(first) + 1 = L /\ L \in 1 .. L
    BY <1>2, <1>11, <1>12, <1>13
  <2>2. full.mem[Len(first) + 1] = NUL
    BY <1>2, <1>11, <2>1
  <2>3. \A i \in 1 .. Len(first) : full.mem[i] = first[i] /\ first[i] # NUL
    <3>1. \A i \in 1 .. L - 1 : i \in 1 .. L
      OBVIOUS
    <3> QED
      BY <1>2, <1>11, <1>13, <3>1
  <2> QED
    BY <1>12, <1>13, <2>1, <2>2, <2>3, TextIs
<1>15. Peek(full) = full.mem
  BY <1>11, <1>12, PeekIs
<1>16. /\ ~(Len(meant) <= L) /\ full.writePos_ = Len(meant) + 1
       /\ InitSize <= Len(full.mem)
  <2>1. ~(Len(meant) <= L)
    BY <1>9
  <2>2. full.writePos_ = Len(meant) + 1
    BY <1>9, <1>11
  <2>3. InitSize <= Len(full.mem)
    <3>1. InitSize \in Nat /\ InitSize <= L /\ L <= M
      BY <1>2, <1>11, <1>12, Sizes
    <3> QED
      BY <1>12, <3>1
  <2> QED
    BY <2>1, <2>2, <2>3
<1> QED
  BY <1>6, <1>11, <1>14, <1>15, <1>16 DEF full, meant, first

\* The line laid out, whatever its message.
LEMMA LaidOut ==
  ASSUME NEW b, Good(b), b.writePos_ = 0, NEW message \in Messages
  PROVE  Holds(WithLine(b, message),
               [text |-> <<>>, meant |-> Meant(message), size |-> Len(WithHead(b).mem)])
<1> DEFINE full == WithLine(b, message)
           L == Len(WithHead(b).mem)
           meant == Meant(message)
           line == [text |-> <<>>, meant |-> meant, size |-> L]
<1>1. /\ full \in Buffers /\ full.readPos_ = 0 /\ InitSize <= Len(full.mem)
      /\ full.writePos_ = Len(meant) + 1
      /\ Text(Peek(full)) = IF Len(meant) <= L THEN meant ELSE SubSeq(meant, 1, L - 1)
  <2>1. CASE Len(message) < WriteableBytes(WithHead(b))
    BY <2>1, WholeLine DEF Good
  <2>2. CASE ~(Len(message) < WriteableBytes(WithHead(b)))
    BY <2>2, CutLine
  <2> QED
    BY <2>1, <2>2
<1>2. ASSUME NEW s \in Chunks PROVE full.writePos_ + Len(s) < SizeValues
  <2>1. Len(LineHead) + Len(LineTitle) + Len(message) + Len(s) + 2 < SizeValues
    BY BufferAssumption
  <2>2. /\ Len(meant) = Len(LineHead) + Len(LineTitle) + Len(message) + 1
        /\ Len(LineHead) + Len(LineTitle) \in Nat /\ Len(message) \in Nat
    BY MeantBytes, HeadStands
  <2>3. Len(s) \in Nat
    BY Sizes, LenProperties
  <2> HIDE DEF full, meant
  <2> QED
    BY <1>1, <2>1, <2>2, <2>3, Sizes
<1>3. line.meant = meant /\ line.size = L
  OBVIOUS
<1> HIDE DEF full, meant, L, line
<1>4. Holds(full, line)
  BY <1>1, <1>2, <1>3 DEF Holds
<1> QED
  BY <1>4 DEF full, meant, L, line

-----------------------------------------------------------------------------
(***************************************************************************)
(* The steps.                                                              *)
(***************************************************************************)

\* What a step does to the bytes of the queue.
Bytes == IF printing THEN <<>> ELSE Content(buff_)

ContentStep ==
  \/ \E s \in Chunks : Bytes' = Bytes \o s
  \/ \E n \in 1 .. Len(Bytes) : Bytes' = SubSeq(Bytes, n + 1, Len(Bytes))
  \/ Bytes' = Bytes

LEMMA InitBuffer ==
  ASSUME Init
  PROVE  BufferInv /\ Bytes = <<>>
<1>1. InitSize \in Nat /\ InitSize <= InitSize
  BY Sizes
<1> QED
  BY <1>1, EmptyIs DEF Init, NoLine, Buffer, BufferInv, Bytes

\* Taking all, or losing all with the process.
LEMMA Emptied ==
  ASSUME Bytes \in Seq(Nat), Bytes' = <<>>
  PROVE  ContentStep
<1>1. PICK k \in Nat : k = Len(Bytes)
  BY LenProperties
<1>2. CASE k = 0
  <2>1. Bytes = <<>>
    BY <1>1, <1>2, EmptySeq
  <2> QED
    BY <2>1 DEF ContentStep
<1>3. CASE k # 0
  <2>1. k \in 1 .. Len(Bytes)
    BY <1>1, <1>3
  <2>2. SubSeq(Bytes, k + 1, Len(Bytes)) = <<>>
    BY <1>1, SubSeqEmpty
  <2> QED
    BY <2>1, <2>2 DEF ContentStep
<1> QED
  BY <1>2, <1>3

\* last stays the record of a line.
LEMMA LastIs ==
  ASSUME BufferInv, [Next]_vars
  PROVE  last' = [text |-> last'.text, meant |-> last'.meant, size |-> last'.size]
<1>1. last = [text |-> last.text, meant |-> last.meant, size |-> last.size]
  BY DEF BufferInv
<1>2. CASE LayOut
  BY <1>2 DEF LayOut
<1>3. CASE PrintLine
  <2>1. last' = [last EXCEPT !.text = Text(Peek(buff_))]
    BY <1>3 DEF PrintLine
  <2> QED
    BY <1>1, <2>1
<1>4. CASE Abort
  BY <1>4 DEF Abort, NoLine
<1>5. CASE ~(LayOut \/ PrintLine \/ Abort)
  <2>1. last' = last
    BY <1>5 DEF Next, AppendChunk, ReceiveChunk, Reserve, Take, TakeAll, vars
  <2> QED
    BY <1>1, <2>1
<1> QED
  BY <1>2, <1>3, <1>4, <1>5

LEMMA NextBuffer ==
  ASSUME BufferInv, [Next]_vars
  PROVE  BufferInv' /\ ContentStep
<1>1. ASSUME ~printing PROVE Good(buff_) /\ Bytes = Content(buff_)
  BY <1>1 DEF BufferInv, Bytes
<1>2. ASSUME ~printing', damaged' \in BOOLEAN, printing' \in BOOLEAN, Good(buff_')
      PROVE  BufferInv' /\ Bytes' = Content(buff_')
  BY <1>2, LastIs DEF BufferInv, Bytes
<1>3. damaged \in BOOLEAN /\ printing \in BOOLEAN
  BY DEF BufferInv
<1>4. Bytes \in Seq(Nat)
  BY <1>1, ContentIs DEF Bytes
<1>5. CASE AppendChunk
  <2>1. PICK s \in Chunks : buff_' = Append_(buff_, s)
    BY <1>5 DEF AppendChunk
  <2>2. s \in Seq(Nat)
    BY Sizes
  <2>3. ~printing /\ ~printing' /\ damaged' \in BOOLEAN /\ printing' \in BOOLEAN
    BY <1>3, <1>5 DEF AppendChunk
  <2>4. Good(buff_') /\ Content(buff_') = Content(buff_) \o s
    BY <1>1, <2>1, <2>2, <2>3, AppendIs
  <2> QED
    BY <1>1, <1>2, <2>3, <2>4 DEF ContentStep
<1>6. CASE ReceiveChunk
  <2>1. PICK s \in Chunks : buff_' = ReadFd(buff_, s)
    BY <1>6 DEF ReceiveChunk
  <2>2. s \in Seq(Nat)
    BY Sizes
  <2>3. ~printing /\ ~printing' /\ damaged' \in BOOLEAN /\ printing' \in BOOLEAN
    BY <1>3, <1>6 DEF ReceiveChunk
  <2>4. Good(buff_') /\ Content(buff_') = Content(buff_) \o s
    BY <1>1, <2>1, <2>2, <2>3, ReadFdIs
  <2> QED
    BY <1>1, <1>2, <2>3, <2>4 DEF ContentStep
<1>7. CASE Reserve
  <2>1. PICK s \in Chunks : buff_' = EnsureWriteable(buff_, Len(s))
    BY <1>7 DEF Reserve
  <2>2. Len(s) \in Nat
    BY Sizes, LenProperties
  <2>3. ~printing /\ ~printing' /\ damaged' \in BOOLEAN /\ printing' \in BOOLEAN
    BY <1>3, <1>7 DEF Reserve
  <2>4. Good(buff_') /\ Content(buff_') = Content(buff_)
    BY <1>1, <2>1, <2>2, <2>3, EnsureIs
  <2> QED
    BY <1>1, <1>2, <2>3, <2>4 DEF ContentStep
<1>8. CASE Take
  <2>1. PICK n \in 1 .. ReadableBytes(buff_) : buff_' = Retrieve(buff_, n)
    BY <1>8 DEF Take
  <2>2. ~printing /\ ~printing' /\ damaged' \in BOOLEAN /\ printing' \in BOOLEAN
    BY <1>3, <1>8 DEF Take
  <2>3. /\ Good(buff_') /\ n \in 1 .. Len(Content(buff_))
        /\ Content(buff_') = SubSeq(Content(buff_), n + 1, Len(Content(buff_)))
    BY <1>1, <2>1, <2>2, RetrieveIs
  <2> QED
    BY <1>1, <1>2, <2>2, <2>3 DEF ContentStep
<1>9. CASE TakeAll
  <2>1. ~printing /\ ~printing' /\ damaged' \in BOOLEAN /\ printing' \in BOOLEAN
    BY <1>3, <1>9 DEF TakeAll
  <2>2. Good(buff_') /\ Content(buff_') = <<>>
    BY <1>1, <1>9, <2>1, RetrieveAllIs DEF TakeAll
  <2> QED
    BY <1>2, <1>4, <2>1, <2>2, Emptied
<1>10. CASE LayOut
  <2>1. PICK message \in Messages :
          /\ buff_' = WithLine(buff_, message)
          /\ last' = [text |-> <<>>, meant |-> Meant(message),
                      size |-> Len(WithHead(buff_).mem)]
    BY <1>10 DEF LayOut
  <2>2. ~printing /\ printing' = TRUE /\ buff_.writePos_ = 0
    BY <1>10 DEF LayOut
  <2>3. Holds(buff_', last')
    BY <1>1, <2>1, <2>2, LaidOut
  <2>4. damaged' \in BOOLEAN /\ (buff_'.writePos_ <= Len(buff_'.mem) \/ damaged')
    <3>1. damaged' = (damaged \/ buff_'.writePos_ > Len(buff_'.mem))
      BY <1>10 DEF LayOut
    <3>2. buff_'.writePos_ <= Len(buff_'.mem) \/ buff_'.writePos_ > Len(buff_'.mem)
      <4>1. buff_'.writePos_ \in Nat /\ Len(buff_'.mem) \in Nat
        BY <2>3, LenProperties DEF Holds, Buffers
      <4> QED
        BY <4>1
    <3> QED
      BY <3>1, <3>2, Zenon
  <2>5. BufferInv'
    BY <2>2, <2>3, <2>4, LastIs DEF BufferInv
  <2>6. Bytes' = <<>>
    BY <2>2 DEF Bytes
  <2> QED
    BY <1>4, <2>5, <2>6, Emptied
<1>11. CASE PrintLine
  <2>1. printing /\ ~printing' /\ damaged' \in BOOLEAN /\ printing' \in BOOLEAN
    BY <1>3, <1>11 DEF PrintLine
  <2>2. buff_.mem \in Seq(Nat) /\ InitSize <= Len(buff_.mem)
    BY <2>1 DEF BufferInv, Holds, Buffers
  <2>3. Good(buff_') /\ Content(buff_') = <<>>
    <3>1. Len(buff_.mem) \in Nat
      BY <2>2, LenProperties
    <3> QED
      BY <1>11, <2>2, <3>1, EmptyIs DEF PrintLine, RetrieveAll
  <2> QED
    BY <1>2, <1>4, <2>1, <2>3, Emptied
<1>12. CASE Abort
  <2>1. ~printing' /\ damaged' \in BOOLEAN /\ printing' \in BOOLEAN
    BY <1>12 DEF Abort
  <2>2. Good(buff_') /\ Content(buff_') = <<>>
    <3>1. InitSize \in Nat /\ InitSize <= InitSize
      BY Sizes
    <3> QED
      BY <1>12, <3>1, EmptyIs DEF Abort, Buffer
  <2> QED
    BY <1>2, <1>4, <2>1, <2>2, Emptied
<1>13. CASE UNCHANGED vars
  BY <1>13 DEF vars, ContentStep, BufferInv, Bytes
<1> QED
  BY <1>5, <1>6, <1>7, <1>8, <1>9, <1>10, <1>11, <1>12, <1>13 DEF Next

LEMMA AlwaysBufferInv == Spec => []BufferInv
<1>1. Init => BufferInv
  BY InitBuffer
<1>2. BufferInv /\ [Next]_vars => BufferInv'
  BY NextBuffer
<1> QED
  BY <1>1, <1>2, PTL DEF Spec

\* The positions stay in order, and within the memory except while a line too long for
\* it is printed; writePos_ then is where the line would have ended.
THEOREM BufferTypeCorrect == Spec => []TypeOK
<1>1. BufferInv => TypeOK
  <2> SUFFICES ASSUME BufferInv PROVE TypeOK
    OBVIOUS
  <2>1. CASE ~printing
    BY <2>1 DEF BufferInv, Good, Buffers, TypeOK
  <2>2. CASE printing
    BY <2>2 DEF BufferInv, Holds, Buffers, TypeOK
  <2> QED
    BY <2>1, <2>2
<1> QED
  BY <1>1, AlwaysBufferInv, PTL

\* The assertion at the end of EnsureWriteable never fails: within the memory because the
\* room is there, and behind it because the difference of the sizes has wrapped.
THEOREM EnsureIsAlwaysEnough == Spec => []EnsureIsEnough
<1>1. BufferInv => EnsureIsEnough
  <2> SUFFICES ASSUME BufferInv, NEW s \in Chunks
               PROVE  WriteableBytes(EnsureWriteable(buff_, Len(s))) >= Len(s)
    BY DEF EnsureIsEnough
  <2>1. Len(s) \in Nat
    BY Sizes, LenProperties
  <2>2. ASSUME Good(buff_)
        PROVE  WriteableBytes(EnsureWriteable(buff_, Len(s))) >= Len(s)
    BY <2>1, <2>2, EnsureIs
  <2>3. CASE printing /\ ~Good(buff_)
    <3>1. /\ buff_ \in Buffers /\ InitSize <= Len(buff_.mem) /\ buff_.readPos_ = 0
          /\ buff_.writePos_ + Len(s) < SizeValues
      BY <2>3 DEF BufferInv, Holds
    <3>2. PICK w, L \in Nat : w = buff_.writePos_ /\ L = Len(buff_.mem)
      BY <3>1, LenProperties DEF Buffers
    <3>3. w > L
      BY <2>3, <3>1, <3>2 DEF Good
    <3>4. WriteableBytes(buff_) = L - w + SizeValues
      BY <3>2, <3>3 DEF WriteableBytes, Minus
    <3>5. WriteableBytes(buff_) >= Len(s) /\ ~(WriteableBytes(buff_) < Len(s))
      <4>1. SizeValues \in Nat /\ w + Len(s) < SizeValues
        BY <3>1, <3>2, Sizes
      <4>2. L - w + SizeValues >= Len(s)
        BY <2>1, <3>2, <4>1
      <4> QED
        BY <2>1, <3>2, <3>4, <4>1, <4>2
    <3> QED
      BY <3>5 DEF EnsureWriteable
  <2> QED
    BY <2>2, <2>3 DEF BufferInv
<1> QED
  BY <1>1, AlwaysBufferInv, PTL

\* A line that fits into the memory with its NUL is printed whole, and of one that does
\* not, exactly the bytes before the memory's last.
THEOREM LinesAreWhole == Spec => []LineWholeIfItFits
<1>1. Init => LineWholeIfItFits
  BY DEF Init, NoLine, LineWholeIfItFits
<1>2. BufferInv /\ LineWholeIfItFits /\ [Next]_vars => LineWholeIfItFits'
  <2> SUFFICES ASSUME BufferInv, LineWholeIfItFits, [Next]_vars
               PROVE  LineWholeIfItFits'
    OBVIOUS
  <2>1. CASE LayOut
    BY <2>1 DEF LayOut, LineWholeIfItFits
  <2>2. CASE PrintLine
    <3>1. /\ Holds(buff_, last) /\ last' = [last EXCEPT !.text = Text(Peek(buff_))]
          /\ last = [text |-> last.text, meant |-> last.meant, size |-> last.size]
      BY <2>2 DEF PrintLine, BufferInv
    <3>2. /\ last'.text = Text(Peek(buff_)) /\ last'.meant = last.meant
          /\ last'.size = last.size
      BY <3>1
    <3> QED
      BY <3>1, <3>2 DEF LineWholeIfItFits, Holds
  <2>3. CASE Abort
    BY <2>3 DEF Abort, NoLine, LineWholeIfItFits
  <2>4. CASE ~(LayOut \/ PrintLine \/ Abort)
    <3>1. last' = last /\ printing' = printing
      BY <2>4 DEF Next, AppendChunk, ReceiveChunk, Reserve, Take, TakeAll, vars
    <3> QED
      BY <3>1 DEF LineWholeIfItFits
  <2> QED
    BY <2>1, <2>2, <2>3, <2>4
<1> QED
  BY <1>1, <1>2, AlwaysBufferInv, PTL DEF Spec

\* The buffer implements a byte queue: no byte is lost, changed or moved past another.
THEOREM BufferIsByteQueue == Spec => ImplementsByteQueue
<1>1. Init => AsQueue!Init
  BY InitBuffer DEF AsQueue!Init, Bytes
<1>2. BufferInv /\ [Next]_vars => [AsQueue!Next]_Bytes
  <2> SUFFICES ASSUME BufferInv, [Next]_vars
               PROVE  [AsQueue!Next]_Bytes
    OBVIOUS
  <2>1. ContentStep
    BY NextBuffer
  <2> QED
    BY <2>1 DEF ContentStep, Bytes, AsQueue!Next, AsQueue!Extend, AsQueue!Drop
<1> QED
  BY <1>1, <1>2, AlwaysBufferInv, PTL DEF Spec, ImplementsByteQueue, AsQueue!Spec, Bytes
=============================================================================
