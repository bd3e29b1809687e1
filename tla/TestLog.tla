-------------------------------- MODULE TestLog --------------------------------
(***************************************************************************)
(* How hiveview shows the output of a test (assets/lib/testlog.js): the    *)
(* Loader fetches the first and the last lines of a test's part of a log   *)
(* file with range requests, as bytes in chunks, and decodes them to lines *)
(* from the front (LineDecoder) and from the back (ReverseBuffer).  Where  *)
(* the two meet, nothing was left out and no truncation mark is shown.     *)
(* splitHeadTail does the same for an output that is part of the suite     *)
(* file, and byteRangeToLineNumbers (app-viewer.js) finds the lines of a   *)
(* client's log that belong to a test.                                     *)
(*                                                                         *)
(* Bytes are "a", "nl", and the pair "hi", "lo" of a character of two      *)
(* bytes.  A text is a sequence of characters: the character of the pair   *)
(* is written "lo", for the decoder has it when it has the second byte.    *)
(***************************************************************************)
EXTENDS Integers, FiniteSets, Sequences, SequencesExt

Byte == {"a", "nl", "hi", "lo"}
Text == Seq(Byte)

CONSTANTS
  Logs,    \* the parts of log files that belong to a test: sequences of bytes
  Nexts,   \* what follows the test's part in the file: sequences of bytes
  Limits   \* records: chunk (LOADER_CHUNK_SIZE), lines and bytes (headAndTailLines)

\* Texts of bytes, and limits as the viewer sets them: chunks and numbers of lines
\* are not zero.
ASSUME InputsAssumption ==
  /\ Logs \subseteq Text /\ Nexts \subseteq Text
  /\ Limits \subseteq [chunk: Nat \ {0}, lines: Nat \ {0}, bytes: Nat]

VARIABLES
  log, next, limit,  \* the test's part, the bytes after it, and the limits: constant
  pc,       \* "head", "tail", "done", or "failed": the page shows the error
  dec,      \* the LineDecoder: buffer, offset in it, bytes remaining, unfinished text
  head,     \* lines read from the front, and the position after them as the code
  headEnd,  \*   counts it (headEndPosition)
  rev,      \* the ReverseBuffer: bytes before its data, offset, outputPosition; first
  tail      \* lines read from the back

input == <<log, next, limit>>
vars == <<input, pc, dec, head, headEnd, rev, tail>>

LogLen == Len(log)
Least(a, b) == IF a < b THEN a ELSE b

-----------------------------------------------------------------------------
(* Bytes, texts and lines                                                   *)

\* Where the elements of a sequence lead to from base, one after the other: FoldLeft as
\* a function, with the steps as functions of the state.
Folding(step, base) ==
  LET f[s \in Seq(DOMAIN step)] == IF s = <<>> THEN base ELSE step[Last(s)][f[Front(s)]]
  IN f

\* TextDecoder, for bytes that are valid UTF-8 in the end.
Decoding == [b \in Byte |-> [t \in Text |-> IF b = "hi" THEN t ELSE Append(t, b)]]
Decoded(bytes) == Folding(Decoding, <<>>)[bytes]

\* The lines of a text that end in a newline, and the rest.
Splitting ==
  [c \in Byte |-> [s \in [lines: Seq(Text), rest: Text] |->
     IF c = "nl" THEN [lines |-> Append(s.lines, Append(s.rest, c)), rest |-> <<>>]
                 ELSE [lines |-> s.lines, rest |-> Append(s.rest, c)]]]
Split(t) == Folding(Splitting, [lines |-> <<>>, rest |-> <<>>])[t]
Lines(t) == LET s == Split(t)
            IN IF s.rest = <<>> THEN s.lines ELSE Append(s.lines, s.rest)

Joining == [l \in Text |-> [t \in Text |-> t \o l]]
Joined(lines) == Folding(Joining, <<>>)[lines]
LineEnds(t) ==
  LET lines == Lines(t) IN [i \in DOMAIN lines |-> Len(Joined(SubSeq(lines, 1, i)))]

Terminated == log # <<>> /\ Last(log) = "nl"
SingleByte == \A i \in DOMAIN log : log[i] # "hi"

-----------------------------------------------------------------------------
(* The head                                                                 *)

Init ==
  /\ log \in Logs /\ next \in Nexts /\ limit \in Limits
  /\ pc = IF log = <<>> THEN "done" ELSE "head"
  /\ dec = [buf |-> <<>>, offset |-> 0, remaining |-> Len(log), text |-> <<>>]
  /\ head = <<>> /\ headEnd = 0
  /\ rev = [from |-> Len(log), offset |-> 0, out |-> Len(log), first |-> TRUE]
  /\ tail = <<>>

\* The bytes of the file from position a to b of the log, both included; the server
\* sends what there is of them.
Fetched(a, b) ==
  LET file == log \o next IN SubSeq(file, a + 1, Least(b + 1, Len(file)))

\* All input was consumed when a new buffer is fetched: inputPosition.
HeadChunk_Overlaps(a) == Fetched(IF a = 0 THEN 0 ELSE a - 1, Least(a + limit.chunk, LogLen))
HeadChunk(a) == Fetched(a, Least(a + limit.chunk, LogLen))
FetchHead ==
  /\ pc = "head" /\ dec.buf = <<>>
  /\ dec' = [dec EXCEPT !.buf = HeadChunk(LogLen - dec.remaining)]
  /\ UNCHANGED <<input, pc, head, headEnd, rev, tail>>

\* LineDecoder.decode: the next newline, if its index in the buffer is less than the
\* number of bytes that remain, ends a line; else the whole buffer is taken.
NextNewline(d) ==
  SelectInSubSeq(d.buf, d.offset + 1, Len(d.buf), LAMBDA b : b = "nl")
InBounds(d, nl) == nl # 0 /\ nl - 1 < d.remaining
Decode(d) ==
  LET nl == NextNewline(d)
      line == SubSeq(d.buf, d.offset + 1, nl)
      rest == SubSeq(d.buf, d.offset + 1, d.offset + Least(Len(d.buf) - d.offset, d.remaining))
  IN IF InBounds(d, nl)
     THEN [text |-> d.text \o Decoded(line),
           dec |-> [buf |-> d.buf, offset |-> nl,
                      remaining |-> d.remaining - Len(line), text |-> <<>>]]
     ELSE [text |-> IF Len(rest) = d.remaining THEN d.text \o Decoded(rest) ELSE <<>>,
           dec |-> [buf |-> <<>>, offset |-> 0,
                      remaining |-> d.remaining - Len(rest), text |-> d.text \o Decoded(rest)]]

\* iterLines, for one decoded text: its lines go to the callback of headAndTailLines
\* until that has enough.  Positions count characters from the start of the text.
DecodeHead ==
  /\ pc = "head" /\ dec.buf # <<>>
  /\ LET d == Decode(dec)
         lines == Lines(d.text)
         ends == LineEnds(d.text)
         start == LogLen - d.dec.remaining - Len(d.text)
         Enough(i) == Len(head) + i >= limit.lines \/ start + ends[i] > limit.bytes
         stops == {i \in DOMAIN lines : Enough(i)}
         taken == IF stops = {} THEN Len(lines)
                  ELSE CHOOSE i \in stops : \A j \in stops : i <= j
     IN /\ dec' = d.dec
        /\ head' = head \o SubSeq(lines, 1, taken)
        /\ headEnd' = IF taken = 0 THEN headEnd ELSE start + ends[taken]
        /\ pc' = IF stops = {} /\ d.dec.remaining > 0 THEN "head"
                 ELSE IF Len(head') < limit.lines THEN "done" ELSE "tail"
  /\ UNCHANGED <<input, rev, tail>>

-----------------------------------------------------------------------------
(* The tail                                                                 *)

\* ReverseBuffer.decode: the position, in the buffer's data, of the newline before
\* the last line that is left, counted from 0; -1 if the buffer has no whole line.
PreviousNewline(r) ==
  IF r.offset <= 0 THEN -1
  ELSE SelectLastInSubSeq(log, r.from + 1, Least(r.from + r.offset + 1, LogLen),
                          LAMBDA b : b = "nl") - r.from - 1
WantsInput(r) == PreviousNewline(r) < 0

\* The chunk before the data; when all was read, the range is "0--1" and refused.
Refused_Never(r) == FALSE
Refused(r) == r.from = 0
FetchTail ==
  /\ pc = "tail" /\ WantsInput(rev) /\ rev.out > 0
  /\ LET end == rev.from - 1
         start == IF end - limit.chunk > 0 THEN end - limit.chunk ELSE 0
     IN IF Refused(rev) THEN pc' = "failed" /\ UNCHANGED rev
        ELSE /\ rev' = [rev EXCEPT !.from = start, !.offset = @ + rev.from - start]
             /\ UNCHANGED pc
  /\ UNCHANGED <<input, dec, head, headEnd, tail>>

\* One line from the back.  The position after it is the code's count, which leaves
\* out newlines.
LineBytes_OffByOne(r, pos) == SubSeq(log, r.from + pos + 2, r.from + r.offset)
LineBytes(r, pos) == SubSeq(log, r.from + pos + 2, Least(r.from + r.offset + 1, LogLen))
Reversed(r) ==
  LET pos == PreviousNewline(r)
  IN [line |-> Decoded(LineBytes(r, pos)) \o <<"nl">>,
      rev |-> [r EXCEPT !.offset = pos - 1, !.out = @ - (r.offset - pos)]]

\* The callback of headAndTailLines: is the line in the head already?
Linked_Early(out) == out < headEnd + 2
Linked(out) == out < headEnd

DecodeTail ==
  /\ pc = "tail" /\ ~WantsInput(rev) /\ rev.out > 0
  /\ LET d == Reversed(rev)
         skipped == rev.first /\ d.line = <<"nl">>
         longer == <<d.line>> \o tail
         enough == Len(longer) >= limit.lines \/ LogLen - d.rev.out > limit.bytes
     IN /\ rev' = [d.rev EXCEPT !.first = @ /\ ~skipped]
        /\ IF skipped
           THEN /\ pc' = IF d.rev.out > 0 THEN "tail" ELSE "done"
                /\ UNCHANGED <<head, tail>>
           ELSE IF Linked(d.rev.out)
           THEN pc' = "done" /\ head' = head \o tail /\ tail' = <<>>
           ELSE /\ tail' = longer /\ UNCHANGED head
                /\ pc' = IF enough \/ d.rev.out <= 0 THEN "done" ELSE "tail"
  /\ UNCHANGED <<input, dec, headEnd>>

\* The range was refused, or the log is gone.
FetchFails ==
  /\ \/ pc = "head" /\ dec.buf = <<>>
     \/ pc = "tail" /\ WantsInput(rev) /\ rev.out > 0
  /\ pc' = "failed"
  /\ UNCHANGED <<input, dec, head, headEnd, rev, tail>>

-----------------------------------------------------------------------------

Next == FetchHead \/ DecodeHead \/ FetchTail \/ DecodeTail \/ FetchFails
Loads == FetchHead \/ DecodeHead \/ FetchTail \/ DecodeTail

\* A fetch is answered and its answer decoded.
Spec == Init /\ [][Next]_vars /\ WF_vars(Loads)

-----------------------------------------------------------------------------
(* The output in the suite file, and the part of a client's log             *)

Newlines(t, k) == Cardinality({i \in 1..k : t[i] = "nl"})
CountLines_Newlines(t) == Newlines(t, Len(t))
CountLines(t) == Newlines(t, Len(t)) + 1

\* splitHeadTail: a loop over the texts between newlines, the last one possibly empty.
LoopLines(t) == IF t = <<>> THEN <<>> ELSE Append(Split(t).lines, Split(t).rest)
Bare(line) == IF line # <<>> /\ Last(line) = "nl" THEN Front(line) ELSE line
SplitHeadTail(t, n) ==
  LET lines == LoopLines(t)
      total == CountLines(t)
      Line(i) == IF i < total THEN Append(Bare(lines[i]), "nl") ELSE Bare(lines[i])
      f[i \in 0..Len(lines)] ==
        IF i = 0 THEN [head |-> <<>>, tail |-> <<>>, hidden |-> 0]
        ELSE IF i - 1 < n THEN [f[i - 1] EXCEPT !.head = Append(@, Line(i))]
        ELSE IF i - 1 > total - n THEN [f[i - 1] EXCEPT !.tail = Append(@, Line(i))]
        ELSE [f[i - 1] EXCEPT !.hidden = @ + 1]
      split == f[Len(lines)]
  IN IF split.hidden # 0 THEN split
     ELSE [head |-> split.head \o split.tail, tail |-> <<>>, hidden |-> 0]

\* byteRangeToLineNumbers: the start and the end of what it returns.
LastLine_NoBackUp(bytes, begin, end) == 1 + Newlines(bytes, Least(end, Len(bytes)))
LastLine(bytes, begin, end) ==
  LET start == IF begin < Least(end, Len(bytes)) THEN 1 + Newlines(bytes, begin) ELSE 1
      line == 1 + Newlines(bytes, Least(end, Len(bytes)))
  IN IF end \in DOMAIN bytes /\ bytes[end] = "nl"
     THEN IF start > line - 1 THEN start ELSE line - 1
     ELSE line
FirstLine(bytes, begin, end) ==
  IF begin < Least(end, Len(bytes)) THEN 1 + Newlines(bytes, begin) ELSE 1

-----------------------------------------------------------------------------
(* Properties                                                               *)

AllLines == Lines(Decoded(log))
LastLines(k) == SubSeq(AllLines, Len(AllLines) - k + 1, Len(AllLines))

\* The load has ended with what was read from the front.
HeadOnly == pc = "done" /\ rev.from = LogLen

\* The lines read from the front are the first lines of the output, whatever the
\* chunks: a newline or a character may be split between two of them, the decoder may
\* return several lines at once, and the last chunk has a byte of what follows.  An
\* output that ends before the tail is asked for is shown whole, its last line with or
\* without a newline, unless it reaches the byte limit.
HeadIsPrefix ==
  pc \in {"head", "tail"} \/ HeadOnly =>
    /\ head = SubSeq(AllLines, 1, Len(head))
    /\ pc = "head" => IsPrefix(Joined(head) \o dec.text, Decoded(log))
    /\ HeadOnly /\ headEnd <= limit.bytes => head = AllLines

\* The lines read from the back are the last lines of an output that ends in a
\* newline, without a gap.
TailIsSuffix == Terminated => tail = LastLines(Len(tail))

\* No truncation mark, no line missing: if nothing is shown as tail, the lines from
\* front and back meet or overlap.  This is for an output with a final newline, of
\* single-byte characters and within the byte limit, see the README.
CompleteIfNoTail ==
  pc = "done" /\ tail = <<>> /\ Terminated /\ SingleByte /\ headEnd <= limit.bytes =>
    \E m, k \in 0..Len(AllLines) :
      m + k >= Len(AllLines) /\ head = SubSeq(AllLines, 1, m) \o LastLines(k)

\* The page does not load forever, also where the two readers miss each other: then
\* the range request before the first byte is refused and an error is shown.
LoadEnds == <>(pc \in {"done", "failed"})

\* An output in the suite file: shown and hidden lines are all of its lines, and
\* without hidden lines it is shown as it is.
SplitConserves ==
  LET t == Decoded(log)
      split == SplitHeadTail(t, limit.lines)
  IN /\ IsPrefix(Joined(split.head), t) /\ IsSuffix(Joined(split.tail), t)
     /\ split.hidden = 0 => Joined(split.head) = t
     /\ Len(t) > 0 => Len(split.head) + Len(split.tail) + split.hidden
                       = Len(AllLines) + (IF Last(t) = "nl" THEN 1 ELSE 0)

\* The lines highlighted for a test are those with a byte of the test: from the one
\* with the first byte to the one with the last, also if that byte is a newline.
RangeHasItsLines ==
  LET ends == LineEnds(log)
      LineOf(p) == CHOOSE i \in DOMAIN ends : p <= ends[i] /\ (i = 1 \/ p > ends[i - 1])
  IN \A begin \in 0..LogLen - 1 : \A end \in begin + 1..LogLen :
       /\ FirstLine(log, begin, end) = LineOf(begin + 1)
       /\ LastLine(log, begin, end) = LineOf(end)
=============================================================================
