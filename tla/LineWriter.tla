----------------------------- MODULE LineWriter -----------------------------
(***************************************************************************)
(* utils.LineWriter: an io.WriteCloser that calls a callback for every     *)
(* line.  Container output reaches it in writes of any size, so a line may *)
(* be spread over several of them.  A byte is the newline or one of a few  *)
(* others, and a nil buffer is the empty sequence: buf never holds an      *)
(* empty slice that is not nil.                                            *)
(***************************************************************************)
EXTENDS Naturals, Sequences, SequencesExt

CONSTANTS
  Newline,
  Others,    \* bytes other than the newline
  MaxBytes   \* bound on the bytes written

Bytes == Others \cup {Newline}

VARIABLES
  buf,        \* LineWriter.buf
  delivered,  \* history: what the callback was called with
  sent,       \* history: the bytes written
  closed      \* Close was called

vars == <<buf, delivered, sent, closed>>

\* How many of the first n bytes are newlines.
Newlines(text, n) == Cardinality({m \in 1 .. n : text[m] = Newline})

\* Where the k-th newline is.
Stop(text, k) ==
  IF k = 0 THEN 0
  ELSE CHOOSE n \in DOMAIN text : text[n] = Newline /\ Newlines(text, n) = k

\* The text between newlines: the last piece is not ended by one.
Pieces(text) ==
  LET ended == Append(text, Newline) IN
  [k \in 1 .. Newlines(ended, Len(ended)) |->
     SubSeq(text, Stop(ended, k - 1) + 1, Stop(ended, k) - 1)]

Init ==
  /\ buf = <<>> /\ delivered = <<>> /\ sent = <<>>
  /\ closed = FALSE

\* The loop completes the buffered line with the first piece and delivers the
\* pieces that follow.  What is left replaces the buffer, also when the loop
\* did not run and the buffer still held the beginning of the line.
Write(in) ==
  LET pieces == Pieces(in)
      lines == Front(pieces)
      rest == Last(pieces)
  IN
  /\ ~closed
  /\ sent' = sent \o in
  /\ delivered' = delivered \o (IF lines = <<>> THEN <<>>
                                ELSE <<buf \o Head(lines)>> \o Tail(lines))
  /\ buf' = IF rest = <<>> /\ lines = <<>> THEN buf ELSE rest
  /\ UNCHANGED closed

\* Mutant: a last line without a newline is dropped.
CloseSilently ==
  /\ ~closed
  /\ closed' = TRUE
  /\ buf' = <<>>
  /\ UNCHANGED <<delivered, sent>>

\* Close passes on a last line that did not end with a newline.
Close ==
  /\ ~closed
  /\ closed' = TRUE
  /\ delivered' = IF buf = <<>> THEN delivered ELSE Append(delivered, buf)
  /\ buf' = <<>>
  /\ UNCHANGED sent

Next ==
  \/ \E in \in BoundedSeq(Bytes, MaxBytes - Len(sent)) : in # <<>> /\ Write(in)
  \/ Close

Spec == Init /\ [][Next]_vars

-----------------------------------------------------------------------------
(* Properties.                                                             *)

\* The lines of what was written; Close also ends the last one.
Lines ==
  LET pieces == Pieces(sent) IN
  IF closed /\ Last(pieces) # <<>> THEN pieces ELSE Front(pieces)

\* The callback is called once for every line and in their order: each call
\* gets an end of its line, whatever the writes that brought the line.
OneCallPerLine ==
  /\ Len(delivered) = Len(Lines)
  /\ \A n \in DOMAIN delivered : IsSuffix(delivered[n], Lines[n])

\* No line gets a byte of another: what is buffered belongs to the line that
\* is still incomplete.
BufferIsCurrentLine ==
  ~closed => IsSuffix(buf, Last(Pieces(sent)))

\* What the comment on LineWriter says: it "calls the given callback for
\* every line written to it".
LinesDelivered == delivered = Lines

=============================================================================
