------------------------------ MODULE MCChunker ------------------------------
(* Templates and strategies of the instances of the chunker.                *)
EXTENDS TextChunker

\* Sentences of one and of three tokens, what stands before a bar, a heading, and
\* the end of a paragraph.
Piece(length, mark, gap) == [length |-> length, mark |-> mark, gap |-> gap]
Kinds == {Piece(4, "stop", "blank"), Piece(9, "stop", "blank"),
          Piece(4, "none", "bar"), Piece(5, "none", "break"), Piece(9, "stop", "break")}
InText(piece, place) ==
    [at |-> place, length |-> piece.length, mark |-> piece.mark, gap |-> piece.gap]
SmallTexts == UNION {[1 .. n -> Kinds] : n \in 1 .. 4}
SmallTemplates ==
    [channel : {"sms", "email"}, marketing : {TRUE},
     subject : {<< >>, <<InText(Piece(5, "none", "blank"), 0)>>},
     text : {[i \in DOMAIN t |-> InText(t[i], i)] : t \in SmallTexts}]
StrategyOf(max, overlap, sentences, paragraphs, withSubject) ==
    [maxTokens |-> max, overlapTokens |-> overlap, overlapPercentage |-> 10,
     sentences |-> sentences, paragraphs |-> paragraphs, subject |-> withSubject]
SmallStrategies ==
    [micro |-> StrategyOf(4, 1, TRUE, FALSE, TRUE), macro |-> StrategyOf(5, 3, TRUE, TRUE, FALSE),
     mega |-> StrategyOf(8, 3, TRUE, TRUE, FALSE), fixed |-> StrategyOf(3, 1, FALSE, FALSE, FALSE)]
=============================================================================
