------------------------------- MODULE ReadFile -------------------------------
(***************************************************************************)
(* ReadFile: an input stream over a file, read line by line and split into *)
(* words, with the state that decides when the collectors' loops end.      *)
(*                                                                         *)
(* A file is a sequence of pieces, a piece some text that may end its      *)
(* line; a line is written in one piece or more, and its last piece is the *)
(* one with the newline.  The stream copies what the file has into its     *)
(* buffer when the buffer has no whole line left, and goes on in the file  *)
(* where it stopped, whatever has become of the file since.                *)
(*                                                                         *)
(* The first piece of a line is its key, or the rest of a line when the    *)
(* stream has gone on in the middle of one; what follows the key is the    *)
(* value.                                                                  *)
(***************************************************************************)
EXTENDS Naturals, Sequences

Texts == [kind : {"key", "value"}, name : STRING, part : Nat]

KeyText(k) == [kind |-> "key", name |-> k, part |-> 0]
ValueText(v) == [kind |-> "value", name |-> v, part |-> 0]

\* What a blank line has for a text.
NoText == [kind |-> "none", name |-> "", part |-> 0]

Piece(text, ends) == [text |-> text, nl |-> ends]
Pieces == [text : Texts \cup {NoText}, nl : BOOLEAN]

\* Lines written at once.
Line(k, v) == <<Piece(KeyText(k), FALSE), Piece(ValueText(v), TRUE)>>
Bare(k) == <<Piece(KeyText(k), TRUE)>>
Blank == <<Piece(NoText, TRUE)>>

Ends(pieces) == {i \in DOMAIN pieces : pieces[i].nl}
LineStarts(f) == {i \in DOMAIN f : i = 1 \/ f[i - 1].nl}

\* Every line of f that begins with one of the keys has a value.
HasValues(f, keys) ==
  \A i \in LineStarts(f), k \in keys :
    f[i].text = KeyText(k) =>
      ~f[i].nl /\ (i + 1 \in DOMAIN f => f[i + 1].text.kind = "value")

-----------------------------------------------------------------------------
\* The constructor: the file is opened, or cannot be.
Opened(can) == [open |-> can, eof |-> FALSE, buf |-> <<>>, off |-> 0]

\* Slip: whether the stream is open is asked instead.
IsEndClosed(s) == ~s.open

IsEnd(s) == s.eof

First(S) == CHOOSE i \in S : \A j \in S : i <= j

\* The stream with the rest of the file in its buffer if it needs it.
Fill(s, file) ==
  IF Ends(s.buf) # {} THEN s
  ELSE [s EXCEPT !.buf = @ \o SubSeq(file, s.off + 1, Len(file)),
                 !.off = IF @ < Len(file) THEN Len(file) ELSE @]

\* std::getline: the texts of the line, and the stream after it.  A stream that
\* is not open fails without being at its end; one that has met the end of the
\* file is, with the text of a last line that has no newline.
GetLine(s, file) ==
  LET f == Fill(s, file)
      n == IF Ends(f.buf) = {} THEN Len(f.buf) ELSE First(Ends(f.buf))
      blank == n = 0 \/ f.buf[1].text = NoText
  IN  IF ~s.open \/ s.eof THEN [line |-> <<>>, stream |-> s]
      ELSE [line |-> IF blank THEN <<>> ELSE [i \in 1 .. n |-> f.buf[i].text],
            stream |-> [f EXCEPT !.buf = SubSeq(@, n + 1, Len(@)),
                                 !.eof = Ends(f.buf) = {}]]

\* The words of a line: its first text, and the texts that follow.
Words(line) == IF Len(line) < 2 THEN <<line>> ELSE <<<<Head(line)>>, Tail(line)>>

\* Slip: only an empty line is refused.
ReadLineAnyEnd(s, file, args) ==
  LET g == GetLine(s, file)
      ok == g.line # <<>>
  IN  [ok |-> ok, args |-> IF ok THEN args \o Words(g.line) ELSE args, stream |-> g.stream]

\* The words of the next line are added to args.  A line without a newline at the
\* end of the file is as good as none, and an empty line ends the reading, too.
ReadLine(s, file, args) ==
  LET g == GetLine(s, file)
      ok == ~IsEnd(g.stream) /\ g.line # <<>>
  IN  [ok |-> ok, args |-> IF ok THEN args \o Words(g.line) ELSE args, stream |-> g.stream]

\* The same for words that are between separators, not blanks.
ReadLineBySplitchar(s, file, args) == ReadLine(s, file, args)

\* The word that begins a line, and what follows it, which std::stof and std::stoll
\* take for a number unless it is a word.
Is(words, k) == words # <<>> /\ words[1][1] = KeyText(k)
HasValue(words) == Len(words) > 1
Number(value) == value[1].kind = "value"
=============================================================================
