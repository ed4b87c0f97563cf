----------------------------- MODULE TextChunker -----------------------------
(***************************************************************************)
(* TextChunkerService.chunkTemplate.  A text is a sequence of pieces that   *)
(* no chunk takes apart, fixed windows excepted: what stands between two    *)
(* full stops, bars and ends of paragraphs.  A piece knows how it ends and  *)
(* what comes between it and the next.                                      *)
(***************************************************************************)
EXTENDS Integers, Sequences, FiniteSets, SequencesExt

CONSTANTS Templates,        \* [channel, marketing, subject, text]; the subject is empty or
                            \* one piece
          Strategies,       \* DEFAULT_STRATEGIES: per type, [maxTokens, overlapTokens,
                            \* overlapPercentage, sentences, paragraphs, subject]
          Requested,        \* types callers ask for, "none" among them
          MegaFrom          \* 800: tokens from which marketing mail gets MEGA chunks

\* `at` is the place in the text; the full stop of an abbreviation is a stop too.
\* A blank and a bar are one character, a blank line is two.
Pieces == [at : Nat, length : Nat \ {0}, mark : {"none", "stop"}, gap : {"blank", "bar", "break"}]

ASSUME ChunkerAssumption ==
    /\ MegaFrom \in Nat /\ {"micro", "macro", "mega"} \subseteq DOMAIN Strategies
    /\ Requested \subseteq DOMAIN Strategies \cup {"none"}
    /\ \A type \in DOMAIN Strategies :
         LET strategy == Strategies[type]
         IN  /\ strategy.maxTokens \in Nat /\ strategy.overlapPercentage \in 0 .. 100
             /\ strategy.overlapTokens \in 0 .. strategy.maxTokens - 1
             /\ {strategy.sentences, strategy.paragraphs, strategy.subject} \subseteq BOOLEAN
    /\ \A t \in Templates :
         /\ t.text \in Seq(Pieces) /\ t.text # << >>
         /\ \A i \in DOMAIN t.text : t.text[i].at = i
         /\ t.subject \in Seq(Pieces) /\ Len(t.subject) <= 1 /\ \A i \in DOMAIN t.subject : t.subject[i].at = 0

VARIABLES template, wanted,     \* the call of chunkTemplate
          chunks                \* its result, empty before

chunkerVars == <<template, wanted, chunks>>
ChunkerInit == template \in Templates /\ wanted \in Requested /\ chunks = << >>

Sum(seq) == SumFunctionOnSet(seq, DOMAIN seq)
Width(gap) == IF gap = "break" THEN 2 ELSE 1
TextLength(text) ==
    Sum([i \in DOMAIN text |->
            text[i].length + IF i = Len(text) THEN 0 ELSE Width(text[i].gap)])
\* estimateTokens: four characters are a token.
Tokens(characters) == (characters + 3) \div 4
EstimateTokens(text) == Tokens(TextLength(text))

\* The parts of a text that end with the pieces in `ends`, and with the last one.
Cut(text, ends) ==
    LET parts[n \in 0 .. Len(text)] ==
            IF n = 0 THEN << >>
            ELSE IF n = 1 \/ n - 1 \in ends THEN Append(parts[n - 1], <<text[n]>>)
            ELSE [parts[n - 1] EXCEPT ![Len(parts[n - 1])] = Append(@, text[n])]
    IN  parts[Len(text)]
\* The text with another gap behind it; and texts one after the other with that gap.
Followed(text, gap) == [text EXCEPT ![Len(text)].gap = gap]
Joined(texts) == FlattenSeq([i \in DOMAIN texts |-> Followed(texts[i], "blank")])

\* splitIntoSentences puts a bar for the blanks behind a full stop, and cuts at
\* every bar: the text's own bars are lost.
Boundary(piece) == piece.mark = "stop" \/ piece.gap = "bar"
SplitIntoSentences(text) == Cut(text, {i \in DOMAIN text : Boundary(text[i])})
SplitIntoParagraphs(text) == Cut(text, {i \in DOMAIN text : text[i].gap = "break"})

\* selectOptimalStrategy.
SelectOptimalStrategy(t) ==
    CASE t.channel \in {"sms", "push"} -> "micro"
      [] t.channel = "email" /\ t.marketing /\ EstimateTokens(t.text) > MegaFrom -> "mega"
      [] OTHER -> "macro"
Strategy(t, type) == Strategies[IF type = "none" THEN SelectOptimalStrategy(t) ELSE type]

\* The subject of a mail goes in front when the strategy says so.
Content(t, strategy) ==
    IF strategy.subject /\ t.subject # << >> /\ t.channel = "email"
    THEN Followed(t.subject, "break") \o t.text ELSE t.text

\* createSingleChunk: the number is part of the chunk's id.
Chunk(text, index, start) == [text |-> text, index |-> index, start |-> start]

\* Where the two loops stand: the chunks so far, and what the next one is made of,
\* with its tokens as the loop counts them.
Nothing == [chunks |-> << >>, current |-> << >>, tokens |-> 0, index |-> 0, start |-> 0]
Closed(state, text) ==
    [state EXCEPT !.chunks = Append(@, Chunk(text, state.index, state.start)), !.index = @ + 1]

\* chunkBySentences: a chunk takes sentences while they fit.  The next one starts
\* with the last tenth of its sentences; slice(-0) is all of them.
Overlap(sentences, percentage) ==
    LET n == (Len(sentences) * percentage + 99) \div 100
    IN  IF n = 0 THEN sentences ELSE SubSeq(sentences, Len(sentences) - n + 1, Len(sentences))
TakeSentence(state, s, strategy) ==
    LET t == EstimateTokens(s)
        kept == Overlap(state.current, strategy.overlapPercentage)
        text == Joined(state.current)
    IN  IF state.tokens + t <= strategy.maxTokens \/ state.current = << >>
        THEN [state EXCEPT !.current = Append(@, s), !.tokens = @ + t]
        ELSE [Closed(state, text) EXCEPT
                !.current = Append(kept, s), !.tokens = EstimateTokens(Joined(kept)) + t,
                !.start = @ + TextLength(text) - TextLength(Joined(kept))]
ChunkBySentences(text, strategy) ==
    LET all == SplitIntoSentences(text)
        after[n \in 0 .. Len(all)] ==
            IF n = 0 THEN Nothing ELSE TakeSentence(after[n - 1], all[n], strategy)
        end == after[Len(all)]
    IN  Closed(end, Joined(end.current)).chunks

\* A slip: the overlap is the beginning of the chunk.
OverlapTextFromStart(text, overlapTokens) ==
    LET all == SplitIntoSentences(text)
        Fits(n) == Sum([i \in 1 .. n |-> EstimateTokens(all[i])]) <= overlapTokens
        n == CHOOSE k \in 0 .. Len(all) : Fits(k) /\ (k = Len(all) \/ ~Fits(k + 1))
    IN  Joined(SubSeq(all, 1, n))

\* getOverlapText: the last sentences that fit into the overlap, stopping at the
\* first that does not.
OverlapText(text, overlapTokens) ==
    LET all == SplitIntoSentences(text)
        Final(n) == SubSeq(all, Len(all) - n + 1, Len(all))
        Fits(n) == Sum([i \in 1 .. n |-> EstimateTokens(Final(n)[i])]) <= overlapTokens
        n == CHOOSE k \in 0 .. Len(all) : Fits(k) /\ (k = Len(all) \/ ~Fits(k + 1))
    IN  Joined(Final(n))

\* chunkByParagraphs: a chunk takes paragraphs while they fit, a paragraph longer
\* than a chunk is cut into sentence chunks, numbered from 0 again.
WithParagraph(text, p) == IF text = << >> THEN p ELSE Followed(text, "break") \o p
Flushed(state) == IF state.current = << >> THEN state ELSE Closed(state, state.current)
\* A slip: the overlap is not counted.
NextParagraphUncounted(state, p, kept) ==
    [Flushed(state) EXCEPT !.current = WithParagraph(kept, p), !.tokens = EstimateTokens(p)]

NextParagraph(state, p, kept) ==
    LET next == WithParagraph(kept, p)
    IN  [Flushed(state) EXCEPT !.current = next, !.tokens = EstimateTokens(next),
                               !.start = @ + TextLength(next) - TextLength(p)]
TakeParagraph(state, p, strategy) ==
    LET t == EstimateTokens(p)
    IN  IF t > strategy.maxTokens
        THEN [Flushed(state) EXCEPT !.chunks = @ \o ChunkBySentences(p, strategy),
                                    !.current = << >>, !.tokens = 0,
                                    !.start = @ + TextLength(p) + 2]
        ELSE IF state.tokens + t <= strategy.maxTokens
        THEN [state EXCEPT !.current = WithParagraph(@, p), !.tokens = @ + t]
        ELSE NextParagraph(state, p, OverlapText(state.current, strategy.overlapTokens))
ChunkByParagraphs(text, strategy) ==
    LET all == SplitIntoParagraphs(text)
        after[n \in 0 .. Len(all)] ==
            IF n = 0 THEN Nothing ELSE TakeParagraph(after[n - 1], all[n], strategy)
    IN  Flushed(after[Len(all)]).chunks

\* chunkByFixedSize: windows of characters, [start, end) of each; the first one
\* that reaches the end is the last.
ChunkByFixedSize(length, strategy) ==
    LET size == 4 * strategy.maxTokens
        step == size - 4 * strategy.overlapTokens
        Reaches(n) == (n - 1) * step + size >= length
        last == CHOOSE n \in 1 .. length : Reaches(n) /\ \A m \in 1 .. n - 1 : ~Reaches(m)
    IN  [n \in 1 .. last |->
            [start |-> (n - 1) * step, end |-> IF Reaches(n) THEN length ELSE (n - 1) * step + size]]

\* createChunks: a text that fits is one chunk.
CreateChunks(content, strategy) ==
    IF EstimateTokens(content) <= strategy.maxTokens THEN <<Chunk(content, 0, 0)>>
    ELSE IF strategy.paragraphs THEN ChunkByParagraphs(content, strategy)
    ELSE IF strategy.sentences THEN ChunkBySentences(content, strategy)
    ELSE ChunkByFixedSize(TextLength(content), strategy)

ChunkTemplate ==
    /\ chunks = << >>
    /\ chunks' = CreateChunks(Content(template, Strategy(template, wanted)), Strategy(template, wanted))
    /\ UNCHANGED <<template, wanted>>
ChunkerSpec == ChunkerInit /\ [][ChunkTemplate]_chunkerVars

-----------------------------------------------------------------------------
Used == Strategy(template, wanted)
Whole == Content(template, Used)
Windows == chunks # << >> /\ "end" \in DOMAIN chunks[1]     \* chunkByFixedSize

\* The piece of the whole text with this place.
Original(at) == Whole[at + 1 - Whole[1].at]
\* A text that says what the whole text says, from its first piece on: only what
\* splitIntoSentences cut at may have become a blank.
IsPassage(text) ==
    \A k \in DOMAIN text :
        LET u == Original(text[1].at + k - 1)
        IN  /\ [text[k] EXCEPT !.gap = u.gap] = u
            /\ k < Len(text) => text[k].gap = u.gap \/ (text[k].gap = "blank" /\ Boundary(u))

\* Where a chunk begins and ends, as places of pieces or of characters.
From(i) == IF Windows THEN chunks[i].start + 1 ELSE chunks[i].text[1].at
To(i) == IF Windows THEN chunks[i].end ELSE Last(chunks[i].text).at
FirstPlace == IF Windows THEN 1 ELSE Whole[1].at
LastPlace == IF Windows THEN TextLength(Whole) ELSE Last(Whole).at

\* No piece of a text is lost or put out of order: a chunk is a passage of the
\* text, the next one begins no later than one place after it and reaches
\* further, and the last one ends the text.
ChunksCoverTheText ==
    chunks # << >> =>
        /\ Windows \/ \A i \in DOMAIN chunks : chunks[i].text # << >> /\ IsPassage(chunks[i].text)
        /\ From(1) = FirstPlace /\ To(Len(chunks)) = LastPlace
        /\ \A i \in 1 .. Len(chunks) - 1 :
            From(i) <= From(i + 1) /\ To(i) < To(i + 1) /\ From(i + 1) <= To(i) + 1

\* The parts of a text that begin in a chunk and not in the one before it.
BeginIn(parts, i) ==
    {p \in DOMAIN parts : \E u \in ToSet(chunks[i].text) :
        /\ u.at = parts[p][1].at
        /\ i = 1 \/ \A v \in ToSet(chunks[i - 1].text) : u.at # v.at}

\* A chunk has more tokens than allowed only when the overlap and one more
\* sentence, or paragraph, already do; the gaps between sentences come on top.  Its
\* id is its own, unless a paragraph too long for a chunk was cut up: its chunks
\* are numbered from 0, like those around it.
ChunkLimitsHold ==
    chunks # << >> /\ ~Windows =>
        LET sentences == SplitIntoSentences(Whole)
            paragraphs == SplitIntoParagraphs(Whole)
        IN  /\ \A i \in DOMAIN chunks :
                \/ EstimateTokens(chunks[i].text) <= Used.maxTokens + Tokens(2 * (Len(chunks[i].text) - 1))
                \/ Cardinality(BeginIn(sentences, i)) <= 1
                \/ Used.paragraphs /\ Cardinality(BeginIn(paragraphs, i)) <= 1
            /\ (~Used.paragraphs \/ \A p \in DOMAIN paragraphs : EstimateTokens(paragraphs[p]) <= Used.maxTokens) =>
                \A i, j \in DOMAIN chunks : chunks[i].index = chunks[j].index => i = j

\* What a caller of chunkTemplate may rely on.
ChunksAreSound == ChunksCoverTheText /\ ChunkLimitsHold
=============================================================================
