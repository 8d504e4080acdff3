------------------------------ MODULE Chunker ------------------------------
(***************************************************************************)
(* split_text (chunker.rs): the text of a document cut into overlapping    *)
(* segments, one round of the loop per step.  Offsets count bytes from 0.  *)
(* A character is one byte, or two that must not be separated.             *)
(***************************************************************************)
EXTENDS Naturals, Sequences, FiniteSetsExt, SequencesExt

CONSTANTS
    Target,       \* ChunkerConfig::target_chars, 1600 in the code
    Overlap,      \* ChunkerConfig::overlap_chars, 200 in the code
    Window,       \* how far a cut looks back, 200 in the code
    Bodies        \* bound: the texts to be cut

\* What chunk_document passes on: a trimmed text that is not empty.
IsBody(body) ==
    /\ body \in Seq({"letter", "first", "second", "blank", "stop"}) /\ body # <<>>
    /\ body[1] \notin {"second", "blank"} /\ body[Len(body)] \notin {"first", "blank"}
    /\ \A i \in 1..(Len(body) - 1) : body[i + 1] = "second" <=> body[i] = "first"

\* Everybody uses the default sizes, where the window is a part of the target.
ASSUME ChunkerAssumption ==
    /\ Target \in Nat /\ Overlap \in Nat /\ Window \in Nat /\ Window < Target
    /\ \A body \in Bodies : IsBody(body)

VARIABLES
    text,         \* the trimmed body, byte by byte
    from,         \* start
    segments,     \* the byte ranges pushed so far
    cpc           \* "cutting", "cut", or "panicked" at a bad slice

kvars == <<text, from, segments, cpc>>

TextLen == Len(text)
Byte(i) == text[i + 1]
Blank(i) == Byte(i) = "blank"

\* str::is_char_boundary
Boundary(i) == i = TextLen \/ Byte(i) # "second"

ChunkerInit ==
    /\ text \in Bodies
    /\ from = 0
    /\ segments = <<>>
    /\ cpc = "cutting"

\* find_sentence_end: the last full stop with a blank behind it.
SentenceEnds(low, high) == {i \in (low + 2)..high : Byte(i - 2) = "stop" /\ Blank(i - 1)}

\* find_space
Spaces(high) == {i \in 1..high : i + Window >= high /\ Blank(i - 1)}

\* Where the segment that starts at from ends.
WantedEnd ==
    LET end == Min({from + Target, TextLen})
        low == Max({IF end > Window THEN end - Window ELSE 0, from + Target \div 2})
    IN IF end = TextLen THEN end
       ELSE IF SentenceEnds(low, end) # {} THEN Max(SentenceEnds(low, end))
       ELSE IF Spaces(end) # {} THEN Max(Spaces(end))
       ELSE end

\* Mutant: the cut is made where it falls.
SegmentEndAnywhere == WantedEnd

\* The next character boundary.
SegmentEnd == Min({i \in WantedEnd..TextLen : Boundary(i)})

\* str::trim of the slice: nothing is pushed for a blank one.
Pushed(a, b) ==
    LET ink == {i \in a..(b - 1) : ~Blank(i)}
    IN IF ink = {} THEN <<>> ELSE <<[low |-> Min(ink), high |-> Max(ink) + 1]>>

\* Where the next segment starts, before it is moved to a boundary.
Advance(end) ==
    from + Max({1, IF end - from > Overlap THEN end - from - Overlap ELSE 0})

CutSegment ==
    /\ cpc = "cutting" /\ from < TextLen
    /\ LET end == SegmentEnd
           next == Min({TextLen, Advance(end)})
       IN IF end < from \/ ~Boundary(end) \/ ~Boundary(from)
          THEN cpc' = "panicked" /\ UNCHANGED <<from, segments>>
          ELSE /\ segments' = segments \o Pushed(from, end)
               /\ IF end >= TextLen
                  THEN cpc' = "cut" /\ UNCHANGED from
                  ELSE /\ from' = Min({i \in next..TextLen : Boundary(i)})
                       /\ cpc' = IF from' < TextLen THEN "cutting" ELSE "cut"
    /\ UNCHANGED text

ChunkerDone == cpc # "cutting" /\ UNCHANGED kvars

ChunkerNext == CutSegment \/ ChunkerDone

ChunkerSpec == ChunkerInit /\ [][ChunkerNext]_kvars

-----------------------------------------------------------------------------

\* Whatever the sentences, blanks and two-byte characters are, no slice is cut
\* inside a character or backwards, the segments come in the order of the text,
\* and every character that is not blank is in some segment (chunker.rs:79-107).
SplitLosesNothing ==
    /\ cpc # "panicked"
    /\ \A k \in 1..(Len(segments) - 1) : segments[k].low <= segments[k + 1].low
    /\ cpc = "cut" =>
         \A i \in 0..(TextLen - 1) :
            Blank(i) \/ \E k \in DOMAIN segments : i >= segments[k].low /\ i < segments[k].high
=============================================================================
