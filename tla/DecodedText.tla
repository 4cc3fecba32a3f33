----------------------------- MODULE DecodedText -----------------------------
(***************************************************************************)
(* The decoder of crates/rustleaks-core/src/decoder/mod.rs and the         *)
(* location of a match in engine.rs: where in the fragment a secret stands *)
(* that was found in text decoded from it, perhaps several times.          *)
(*                                                                         *)
(* A text is a sequence of bytes.  A plain byte is a mark; the other bytes *)
(* come in encoded runs, of which each knows what it decodes to and which  *)
(* of how many bytes it is.  A run is a match of the encoding expression   *)
(* when all of it stands together.  As in the code, offsets count from 0   *)
(* and a range does not include its end.                                   *)
(***************************************************************************)
EXTENDS Integers, Sequences, FiniteSets, SequencesExt, FiniteSetsExt

CONSTANTS
  Newline,          \* the mark of a line feed
  Precedence,       \* Encoding::precedence, as a function on the encodings
  MaxDecodeDepth    \* ScanOptions.max_decode_depth

\* The mark of every encoded byte, and the encoding of a plain one.
Coded == "coded"
Unencoded == "none"

Plain(mark) == [mark |-> mark, encoding |-> Unencoded, inner |-> <<>>, at |-> 1, size |-> 1]

\* A run of `size` bytes that decodes to `inner`, which is shorter.
Encoded(encoding, inner, size) ==
  [i \in 1 .. size |->
     [mark |-> Coded, encoding |-> encoding, inner |-> inner, at |-> i, size |-> size]]

Span(start, end) == [start |-> start, end |-> end]

Bytes(text, span) == SubSeq(text, span.start + 1, span.end)
Marks(text, span) == {byte.mark : byte \in ToSet(Bytes(text, span))}

\* The parts one after another.
Concat(parts) ==
  LET upTo[i \in {0} \cup DOMAIN parts] ==
        IF i = 0 THEN <<>> ELSE upTo[i - 1] \o parts[i]
  IN upTo[Cardinality(DOMAIN parts)]

\* What is made of the elements that pass a test, the elements themselves, and the
\* numbers up to n that pass it.
Collect(s, Test(_), Value(_)) ==
  Concat([i \in DOMAIN s |-> IF Test(s[i]) THEN <<Value(s[i])>> ELSE <<>>])
Only(s, Test(_)) ==
  Concat([i \in DOMAIN s |-> IF Test(s[i]) THEN <<s[i]>> ELSE <<>>])
Numbers(n, Test(_)) ==
  Concat([i \in 1 .. n |-> IF Test(i) THEN <<i>> ELSE <<>>])

-----------------------------------------------------------------------------
(* Decoding.                                                               *)

\* StartEnd::overlaps: ranges that touch count.
Overlaps(a, b) == b.start <= a.end /\ b.end >= a.start

Encloses(a, b) == a.start <= b.start /\ b.end <= a.end

MappedFromItsStart(segment, span) ==
  Span(segment.encoded.start + span.start - segment.decoded.start,
       segment.encoded.end + span.end - segment.decoded.end)

\* The encoded range, wider by what the other range has beyond the decoded one.
Mapped(segment, span) ==
  LET decoded == segment.decoded
  IN Span(segment.encoded.start + Min({decoded.start, span.start}) - decoded.start,
          segment.encoded.end + Max({decoded.end, span.end}) - decoded.end)

\* Where in the fragment a range of a decoded text comes from: a range that only overlaps
\* segments is traced back through the texts before, until one segment encloses it.
ToOriginal(segments, span) ==
  LET Near(at) == {i \in DOMAIN at.segments : Overlaps(at.segments[i].decoded, at.span)}
      Around(at) == {i \in Near(at) : Encloses(at.segments[i].decoded, at.span)}
      Before(at) ==
        LET mapped == {Mapped(at.segments[i], at.span) : i \in Near(at)}
        IN [segments |-> at.segments[1].predecessors,
            span |-> Span(Min({m.start : m \in mapped}), Max({m.end : m \in mapped}))]
      back[n \in 0 .. MaxDecodeDepth] ==
        IF n = 0 THEN [segments |-> segments, span |-> span]
        ELSE LET at == back[n - 1]
             IN IF Near(at) = {} \/ Around(at) # {} THEN at ELSE Before(at)
      found == back[MaxDecodeDepth]
  IN IF Around(found) # {} THEN found.segments[Min(Around(found))].original ELSE found.span

IsRun(text, i) ==
  /\ text[i].encoding # Unencoded /\ text[i].at = 1
  /\ i + text[i].size - 1 <= Len(text)
  /\ \A k \in 1 .. text[i].size : text[i + k - 1] = [text[i] EXCEPT !.at = k]

\* What the expression captures, from the left.
Captures(text) ==
  LET starts == Numbers(Len(text), LAMBDA i : IsRun(text, i))
  IN [n \in DOMAIN starts |-> Span(starts[n] - 1, starts[n] - 1 + text[starts[n]].size)]

RunAt(text, span) == text[span.start + 1]

\* find_encoding_matches: a run next to one of higher precedence is left for later,
\* even when that one is itself left for later.
Shadowed(text, captures, n) ==
  \E m \in {n - 1, n + 1} \cap DOMAIN captures :
    /\ Overlaps(captures[n], captures[m])
    /\ Precedence[RunAt(text, captures[m]).encoding]
         > Precedence[RunAt(text, captures[n]).encoding]

FindEncodingMatches(text) ==
  LET captures == Captures(text)
      kept == Numbers(Len(captures), LAMBDA n : ~Shadowed(text, captures, n))
  IN [i \in DOMAIN kept |-> captures[kept[i]]]

\* find_encoded_segments: what decodes to nothing is not a segment.
FindEncodedSegments(text, predecessors) ==
  LET matches == Only(FindEncodingMatches(text), LAMBDA m : RunAt(text, m).inner # <<>>)
      Inner(n) == RunAt(text, matches[n]).inner
      shift[n \in DOMAIN matches] ==
        IF n = 1 THEN 0 ELSE shift[n - 1] + Len(Inner(n - 1)) - RunAt(text, matches[n - 1]).size
  IN [n \in DOMAIN matches |->
        [encoded |-> matches[n],
         decoded |-> Span(matches[n].start + shift[n],
                          matches[n].start + shift[n] + Len(Inner(n))),
         original |-> ToOriginal(predecessors, matches[n]),
         predecessors |-> predecessors]]

\* decode_controlled's result: the parts in the place of the segments.
Replaced(whole, segments, parts) ==
  LET From(n) == IF n = 1 THEN 0 ELSE segments[n - 1].encoded.end
  IN Concat([n \in DOMAIN segments |->
       Bytes(whole, Span(From(n), segments[n].encoded.start)) \o parts[n]])
     \o Bytes(whole, Span(From(Len(segments) + 1), Len(whole)))

-----------------------------------------------------------------------------
(* The location of a match.                                                *)

NewlinesOf(text) ==
  LET places == Numbers(Len(text), LAMBDA i : text[i].mark = Newline)
  IN [n \in DOMAIN places |-> places[n] - 1]

\* upstream_location: a line begins with the line feed before it.  A range behind
\* the last line feed is in a line that begins with the fragment.  No text has
\* carriage returns.
UpstreamLocation(raw, span) ==
  LET found == NewlinesOf(raw)
      newlines == IF found = <<>> THEN <<Len(raw)>> ELSE found
      Previous(n) == IF n = 1 THEN 0 ELSE newlines[n - 1]
      starting == {n \in DOMAIN newlines :
                     Previous(n) <= span.start /\ span.start < newlines[n]}
      ending == {n \in DOMAIN newlines :
                   Previous(n) < span.end /\ span.end <= newlines[n]}
      after == {i \in ToSet(found) : i >= span.end}
      first == Max(starting)
  IN IF starting # {}
     THEN [row |-> first - 1,
           column |-> span.start - Previous(first) + 1,
           line |-> Span(Previous(first),
                         Max({span.end, newlines[Max(starting \cup ending)]}))]
     ELSE [row |-> Len(newlines),
           column |-> span.start - Last(newlines) + 1,
           line |-> Span(0, IF after = {} THEN Len(raw) ELSE Min(after))]

\* current_line: the lines of the decoded text that the segments are in.
CurrentLine(segments, text) ==
  LET decoded == Span(Min({s.decoded.start : s \in ToSet(segments)}),
                      Max({s.decoded.end : s \in ToSet(segments)}))
      newlines == ToSet(NewlinesOf(text))
      before == {i \in newlines : i <= decoded.start}
      after == {i \in newlines : i >= decoded.end}
  IN Span(IF before = {} THEN 0 ELSE Max(before),
          IF after = {} THEN Len(text) ELSE Min(after))

\* find_all: the longest runs of plain bytes that the expression has in its marks.
Matches(text, regex) ==
  LET In(i) == i \in DOMAIN text /\ text[i].mark \in regex
      starts == Numbers(Len(text), LAMBDA i : In(i) /\ ~In(i - 1))
      End(i) == Min({j \in i .. Len(text) : ~In(j + 1)})
  IN [n \in DOMAIN starts |-> Span(starts[n] - 1, End(starts[n]))]

\* trim_newlines.
Trimmed(text, span) ==
  LET kept == {i \in span.start + 1 .. span.end : text[i].mark # Newline}
  IN IF kept = {} THEN Span(span.end, span.end) ELSE Span(Min(kept) - 1, Max(kept))

\* The segments of a pass that a match is near to.
NearTo(segments, span) == Only(segments, LAMBDA s : Overlaps(s.decoded, span))

\* Where a match is reported.  In the fragment itself it is as long as what was left
\* when it was trimmed, from where it began before.
Adjusted(segments, text, span) ==
  IF segments = <<>>
  THEN LET trimmed == Trimmed(text, span)
       IN Span(span.start, span.start + trimmed.end - trimmed.start)
  ELSE ToOriginal(NearTo(segments, span), span)

=============================================================================
