------------------------------ MODULE LogBuffer ------------------------------
(***************************************************************************)
(* Buffer of log_manager/log_buffer.{h,cpp}, and the way Log::write lays   *)
(* out a line in it.                                                       *)
(*                                                                         *)
(* A buffer is a record of its memory and its two positions; a member      *)
(* function is an operator from the buffer it is called on to the buffer   *)
(* it leaves.  Positions count from 0 as in the code, so the readable      *)
(* bytes are mem[readPos_ + 1 .. writePos_].  A line whose message is too  *)
(* long leaves writePos_ behind the end of mem, where the size_t           *)
(* difference of WriteableBytes wraps round.                               *)
(***************************************************************************)
EXTENDS Integers, Sequences

CONSTANTS
  InitSize,    \* initBufferSize
  ExtraSize,   \* sizeof(buff) in ReadFd
  HeadRoom,    \* the 128 bytes ensured for the head of a line
  LineHead,    \* the bytes of the head
  LineTitle,   \* the bytes of the level's title
  Chunks,      \* byte sequences appended or received
  Messages,    \* the formatted messages logged
  SizeValues,  \* the number of values of size_t
  MaxSize      \* bound on the memory

NUL == 0
NL == 10

ASSUME BufferAssumption ==
  /\ {InitSize, ExtraSize, HeadRoom, MaxSize, SizeValues} \subseteq Nat \ {0}
  /\ Chunks \subseteq Seq(Nat)
  /\ {LineHead, LineTitle} \cup Messages \subseteq Seq(Nat \ {NUL})
  /\ Len(LineHead) < HeadRoom
  /\ Len(LineHead) + Len(LineTitle) < InitSize
  /\ \A message \in Messages, s \in Chunks \cup {<<>>} :
       Len(LineHead) + Len(LineTitle) + Len(message) + Len(s) + 2 < SizeValues

VARIABLES
  buff_,
  printing,   \* Log::write has laid out a line in buff_ that is not printed yet
  damaged,    \* bytes were written behind the end of the memory
  last        \* the line as it was meant, the memory it was given, the text printed

vars == <<buff_, printing, damaged, last>>

-----------------------------------------------------------------------------
(***************************************************************************)
(* Memory.                                                                 *)
(***************************************************************************)
Zeros(n) == [i \in 1 .. n |-> NUL]

\* std::copy of s to position pos; what falls behind the end of mem is not in mem.
Copy(mem, pos, s) ==
  [i \in DOMAIN mem |-> IF i \in pos + 1 .. pos + Len(s) THEN s[i - pos] ELSE mem[i]]

\* vector::resize to a larger size
Resize(mem, n) == mem \o Zeros(n - Len(mem))

-----------------------------------------------------------------------------
(***************************************************************************)
(* The member functions.                                                   *)
(***************************************************************************)
Buffer == [mem |-> Zeros(InitSize), readPos_ |-> 0, writePos_ |-> 0]

ReadableBytes(b) == b.writePos_ - b.readPos_

\* The difference of two size_t.
Minus(m, n) == IF m >= n THEN m - n ELSE m - n + SizeValues

WriteableBytes(b) == Minus(Len(b.mem), b.writePos_)
PrependableBytes(b) == b.readPos_

Content(b) == SubSeq(b.mem, b.readPos_ + 1, b.writePos_)

\* The memory from Peek() on.
Peek(b) == SubSeq(b.mem, b.readPos_ + 1, Len(b.mem))

\* Slip: the new size does not count what was written.
MakeSpace_TooSmall(b, len) ==
  IF WriteableBytes(b) + PrependableBytes(b) < len
  THEN [b EXCEPT !.mem = Resize(@, len + 1)]
  ELSE [mem |-> Copy(b.mem, 0, Content(b)), readPos_ |-> 0, writePos_ |-> ReadableBytes(b)]

\* Slip: the bytes are moved but writePos_ is not.
MakeSpace_KeepsEnd(b, len) ==
  IF WriteableBytes(b) + PrependableBytes(b) < len
  THEN [b EXCEPT !.mem = Resize(@, b.writePos_ + len + 1)]
  ELSE [b EXCEPT !.mem = Copy(@, 0, Content(b)), !.readPos_ = 0]

MakeSpace_(b, len) ==
  IF WriteableBytes(b) + PrependableBytes(b) < len
  THEN [b EXCEPT !.mem = Resize(@, b.writePos_ + len + 1)]
  ELSE [mem |-> Copy(b.mem, 0, Content(b)), readPos_ |-> 0, writePos_ |-> ReadableBytes(b)]

EnsureWriteable(b, len) == IF WriteableBytes(b) < len THEN MakeSpace_(b, len) ELSE b

HasWritten(b, len) == [b EXCEPT !.writePos_ = @ + len]

Append_(b, s) ==
  LET room == EnsureWriteable(b, Len(s))
  IN  HasWritten([room EXCEPT !.mem = Copy(@, room.writePos_, s)], Len(s))

Retrieve(b, len) == [b EXCEPT !.readPos_ = @ + len]

RetrieveAll(b) == [mem |-> Zeros(Len(b.mem)), readPos_ |-> 0, writePos_ |-> 0]

\* Slip: what did not fit into the memory is appended from the start of buff
\* without marking the memory as full.
ReadFdNotFull(b, s) ==
  LET writeable == WriteableBytes(b)
      stored == [b EXCEPT !.mem = Copy(@, b.writePos_, s)]
  IN  IF Len(s) <= writeable
      THEN HasWritten(stored, Len(s))
      ELSE Append_(stored, SubSeq(s, writeable + 1, Len(s)))

\* readv delivers s into the free memory first and then into buff.
ReadFd(b, s) ==
  LET writeable == WriteableBytes(b)
      stored == [b EXCEPT !.mem = Copy(@, b.writePos_, s)]
  IN  IF Len(s) <= writeable
      THEN HasWritten(stored, Len(s))
      ELSE Append_([stored EXCEPT !.writePos_ = Len(b.mem)], SubSeq(s, writeable + 1, Len(s)))

-----------------------------------------------------------------------------
(***************************************************************************)
(* A line of the log.                                                      *)
(***************************************************************************)

\* snprintf(BeginWrite(), room, ...): at most room - 1 bytes, and a NUL.
PrintAt(b, s, room) ==
  LET n == IF Len(s) < room THEN Len(s) ELSE room - 1
  IN  [b EXCEPT !.mem = Copy(@, b.writePos_, Append(SubSeq(s, 1, n), NUL))]

\* Slip: the NUL that snprintf writes is counted.
WithHeadCountsNul(b) ==
  LET room == EnsureWriteable(b, HeadRoom)
  IN  Append_(HasWritten(PrintAt(room, LineHead, HeadRoom), Len(LineHead) + 1), LineTitle)

\* The line up to its message.
WithHead(b) ==
  LET room == EnsureWriteable(b, HeadRoom)
  IN  Append_(HasWritten(PrintAt(room, LineHead, HeadRoom), Len(LineHead)), LineTitle)

\* The whole line.  vsnprintf returns the length of the message also when it
\* had to cut it: writePos_ may move behind the end of the memory, and then
\* EnsureWriteable finds room for the newline in the difference that wrapped.
WithLine(b, message) ==
  LET head == WithHead(b)
      printed == PrintAt(head, message, WriteableBytes(head))
  IN  Append_(HasWritten(printed, Len(message)), <<NL, NUL>>)

\* What fputs prints: the bytes before the first NUL.
Text(s) ==
  LET end == CHOOSE n \in 0 .. Len(s) :
               /\ n = Len(s) \/ s[n + 1] = NUL
               /\ \A i \in 1 .. n : s[i] # NUL
  IN  SubSeq(s, 1, end)

Meant(message) == LineHead \o LineTitle \o message \o <<NL>>

-----------------------------------------------------------------------------
NoLine == [text |-> <<>>, meant |-> <<>>, size |-> 1]

Init ==
  /\ buff_ = Buffer
  /\ printing = FALSE
  /\ damaged = FALSE
  /\ last = NoLine

AppendChunk ==
  /\ ~printing
  /\ \E s \in Chunks : buff_' = Append_(buff_, s)
  /\ UNCHANGED <<printing, damaged, last>>

ReceiveChunk ==
  /\ ~printing
  /\ \E s \in Chunks :
       /\ Len(s) <= WriteableBytes(buff_) + ExtraSize
       /\ buff_' = ReadFd(buff_, s)
  /\ UNCHANGED <<printing, damaged, last>>

Reserve ==
  /\ ~printing
  /\ \E s \in Chunks : buff_' = EnsureWriteable(buff_, Len(s))
  /\ UNCHANGED <<printing, damaged, last>>

\* WriteFd, whose write() may take only a part; Retrieve and RetrieveUntil
\* move the position alike.
Take ==
  /\ ~printing
  /\ \E n \in 1 .. ReadableBytes(buff_) : buff_' = Retrieve(buff_, n)
  /\ UNCHANGED <<printing, damaged, last>>

TakeAll ==
  /\ ~printing
  /\ buff_' = RetrieveAll(buff_)
  /\ UNCHANGED <<printing, damaged, last>>

\* Log::write lays out a line in an empty buffer.  When the message is longer
\* than the memory, the newline and its NUL fall behind the end.
LayOut ==
  /\ ~printing /\ buff_.writePos_ = 0
  /\ \E message \in Messages :
       /\ buff_' = WithLine(buff_, message)
       /\ last' = [text |-> <<>>, meant |-> Meant(message), size |-> Len(WithHead(buff_).mem)]
  /\ printing' = TRUE
  /\ damaged' = (damaged \/ buff_'.writePos_ > Len(buff_'.mem))

\* It prints the line from its first byte to its first NUL, by fputs or, with
\* a copy of it, through the deque by the flusher's fputs; and empties the buffer.
PrintLine ==
  /\ printing
  /\ last' = [last EXCEPT !.text = Text(Peek(buff_))]
  /\ buff_' = RetrieveAll(buff_)
  /\ printing' = FALSE
  /\ UNCHANGED damaged

\* What was written behind the memory may have no effect, or end the process
\* at any time after; the next one begins with a new buffer.
Abort ==
  /\ damaged
  /\ buff_' = Buffer
  /\ printing' = FALSE
  /\ damaged' = FALSE
  /\ last' = NoLine

Next ==
  /\ AppendChunk \/ ReceiveChunk \/ Reserve \/ Take \/ TakeAll \/ LayOut \/ PrintLine \/ Abort
  /\ Len(buff_.mem') <= MaxSize

Spec == Init /\ [][Next]_vars

-----------------------------------------------------------------------------
(***************************************************************************)
(* Properties.                                                             *)
(***************************************************************************)

\* The positions are in order and within the memory, except writePos_ while
\* a line is printed that was too long for the memory.
TypeOK ==
  /\ printing \in BOOLEAN /\ damaged \in BOOLEAN
  /\ buff_.mem \in Seq(Nat)
  /\ InitSize <= Len(buff_.mem)
  /\ 0 <= buff_.readPos_ /\ buff_.readPos_ <= buff_.writePos_
  /\ buff_.writePos_ <= Len(buff_.mem) \/ (printing /\ damaged)
  /\ printing => buff_.readPos_ = 0 /\ buff_.writePos_ = Len(last.meant) + 1

\* The assertion at the end of EnsureWriteable, for every buffer that occurs
\* and every length.  It holds of the buffer with an overlong line as well,
\* where the room it finds is not in the memory.
EnsureIsEnough ==
  \A s \in Chunks :
    WriteableBytes(EnsureWriteable(buff_, Len(s))) >= Len(s)

\* The buffer is a byte queue: moving the bytes to the front, growing the
\* memory and receiving in two parts neither lose nor change a byte.
AsQueue == INSTANCE ByteQueue WITH bytes <- IF printing THEN <<>> ELSE Content(buff_)

ImplementsByteQueue == AsQueue!Spec

\* A line that fits into the memory with its NUL is printed whole and ends
\* with its newline, however long the lines before it were; of one that does
\* not fit, exactly the bytes before the memory's last are printed, with no newline.
LineWholeIfItFits ==
  printing \/ last.text = IF Len(last.meant) <= last.size
                           THEN last.meant
                           ELSE SubSeq(last.meant, 1, last.size - 1)
=============================================================================
