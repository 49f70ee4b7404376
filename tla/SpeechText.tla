----------------------------- MODULE SpeechText -----------------------------
(***************************************************************************)
(* From the deltas of a reply to what the voices are given to say          *)
(* (app/text_utils.py): SentenceStream cuts the growing text into chunks,  *)
(* and segment_language_spans cuts a chunk into spans of one language.     *)
(*                                                                         *)
(* A character is one of its kind: a letter, a digit, the one-letter word  *)
(* that is an abbreviation, the two terminators, the two boundaries within *)
(* a sentence and the line break.  A chunk that is segmented is a          *)
(* sequence of words, of which only the evidence for a language and the    *)
(* form are kept, and of the delimiters that set a region off.             *)
(***************************************************************************)
EXTENDS Integers, Sequences, FiniteSets, SequencesExt

CONSTANTS
    MaxText,        \* bound on the characters of a reply
    MaxWords,       \* bound on the words and delimiters of a segmented chunk
    FirstChunk,     \* _first_chunk_chars
    LaterChunk,     \* _chunk_chars
    MinRemainder,   \* _MIN_REMAINDER_CHARS
    MaxPhraseRuns   \* PHRASE_RUN_MAX_RUNS

ASSUME SpeechTextAssumption ==
    /\ {MaxText, MaxWords, MinRemainder, MaxPhraseRuns} \subseteq Nat
    /\ {FirstChunk, LaterChunk} \subseteq Nat \ {0}

VARIABLES
    text,       \* the deltas so far, joined
    buf,        \* _buf
    said,       \* the chunks emitted, joined, without their spaces
    cuts,       \* the places of the text at which it was cut
    first,      \* no chunk has been emitted
    flushed,    \* flush() has been called
    words,      \* the chunk that is segmented
    host        \* its host language

streamVars == <<text, buf, said, cuts, first, flushed>>
spanVars == <<words, host>>
textVars == <<text, buf, said, cuts, first, flushed, words, host>>

Characters == {"letter", "abbr", "digit", ".", "!", ",", " ", "newline"}
IsSpace(c) == c \in {" ", "newline"}
IsAlnum(c) == c \in {"letter", "abbr", "digit"}
Strip(s) == LET inked == {i \in 1 .. Len(s) : ~IsSpace(s[i])}
            IN  IF inked = {} THEN <<>>
                ELSE SubSeq(s, CHOOSE i \in inked : \A k \in inked : i <= k,
                               CHOOSE i \in inked : \A k \in inked : k <= i)
Ink(s) == SelectSeq(s, LAMBDA c : ~IsSpace(c))

-----------------------------------------------------------------------------
(* Where sentences end.                                                    *)

\* _word_before is an abbreviation.
AfterAbbreviation(s, i) ==
    i > 1 /\ s[i - 1] = "abbr" /\ (i > 2 => ~IsAlnum(s[i - 2]))

\* The dot at i ends a sentence: it is no decimal point, not the dot of an
\* abbreviation, and the last of its run.
EndingDot(s, i) ==
    /\ ~(i > 1 /\ i < Len(s) /\ s[i - 1] = "digit" /\ s[i + 1] = "digit")
    /\ ~(i < Len(s) /\ s[i + 1] = ".")
    /\ ~AfterAbbreviation(s, i)

\* _sentence_end_positions, as the set of them: a sentence ends behind its
\* dot or its run of marks, and before a run of line breaks.
SentenceEnds(s) ==
    {i \in 1 .. Len(s) : s[i] = "." /\ EndingDot(s, i)}
        \cup {i \in 1 .. Len(s) : s[i] = "!" /\ (i = Len(s) \/ s[i + 1] # "!")}
        \cup {i \in 0 .. Len(s) - 1 : s[i + 1] = "newline" /\ (i = 0 \/ s[i] # "newline")}

Least(S) == CHOOSE i \in S : \A k \in S : i <= k

\* Variant of Pending: a dot at the end of the buffer is never held back.
PendingNever(s, i) == FALSE

\* A dot that ends the buffer behind a digit may yet be a decimal point.
Pending(s, i) == i = Len(s) /\ i > 1 /\ s[i] = "." /\ s[i - 1] = "digit"

\* _find_sentence_cut; 0 when there is none.
SentenceCut(s) ==
    LET ends == SentenceEnds(s) \ {0}
    IN  IF ends = {} \/ Pending(s, Least(ends)) THEN 0 ELSE Least(ends)

\* _find_boundary_cut: the last comma or space of the window; 0 when there is
\* none but at its very start.
BoundaryCut(s, limit) ==
    LET last == {i \in 2 .. limit : s[i] = "," \/ IsSpace(s[i])}
    IN  IF last = {} THEN 0 ELSE CHOOSE i \in last : \A k \in last : k <= i

CutAt(s, fresh) ==
    LET limit == IF fresh THEN FirstChunk ELSE LaterChunk
    IN  IF SentenceCut(s) = 0 /\ Len(s) > limit THEN BoundaryCut(s, limit) ELSE SentenceCut(s)

\* The loop of add_delta: chunks leave the buffer while it can be cut.
Emitted[s \in Seq(Characters), fresh \in BOOLEAN] ==
    LET cut == IF s = <<>> THEN 0 ELSE CutAt(s, fresh)
        chunk == Strip(SubSeq(s, 1, cut))
        rest == Emitted[SubSeq(s, cut + 1, Len(s)), fresh /\ chunk = <<>>]
    IN  IF cut = 0 THEN [chunks |-> <<>>, at |-> <<>>, buf |-> s, fresh |-> fresh]
        ELSE [rest EXCEPT !.chunks = (IF chunk = <<>> THEN <<>> ELSE <<chunk>>) \o @,
                          !.at = <<cut>> \o [i \in DOMAIN @ |-> cut + @[i]]]

StreamInit ==
    /\ text = <<>> /\ buf = <<>> /\ said = <<>> /\ cuts = {} /\ first = TRUE /\ flushed = FALSE

\* add_delta.
AddDelta ==
    /\ ~flushed /\ words = <<>>
    /\ \E delta \in {<<c>> : c \in Characters} \cup {<<c, d>> : c \in Characters, d \in Characters} :
        /\ Len(text) + Len(delta) <= MaxText
        /\ LET r == Emitted[buf \o delta, first]
           IN  /\ text' = text \o delta
               /\ buf' = r.buf
               /\ said' = said \o Ink(FlattenSeq(r.chunks))
               /\ cuts' = cuts \cup {Len(text) - Len(buf) + r.at[i] : i \in DOMAIN r.at}
               /\ first' = r.fresh
    /\ UNCHANGED <<flushed, words, host>>

\* Variant of Kept: a remainder of exactly the least length is dropped.
KeptLonger(remainder) == Len(remainder) > MinRemainder

Kept(remainder) == Len(remainder) >= MinRemainder

\* flush: what is left in the buffer is said, unless it is too short.
Flush ==
    /\ ~flushed /\ text # <<>>
    /\ said' = IF Kept(Strip(buf)) THEN said \o Ink(buf) ELSE said
    /\ buf' = <<>> /\ flushed' = TRUE /\ first' = TRUE
    /\ UNCHANGED <<text, cuts, words, host>>

-----------------------------------------------------------------------------
(* The languages of a chunk.                                               *)

\* What _classify_word, _hu_harmonic, the hyphen and the clause end leave of
\* a word; the delimiters stand for themselves.
Word(cls, harmonic, hyphen, final) ==
    [cls |-> cls, harmonic |-> harmonic, hyphen |-> hyphen, final |-> final]
Delimiter(d) == Word(d, FALSE, FALSE, FALSE)
Quote == Delimiter("quote")
Opening == Delimiter("(")
Closing == Delimiter(")")
Items ==
    {Word("hu", FALSE, FALSE, FALSE), Word("en", FALSE, FALSE, FALSE), Word("en", FALSE, FALSE, TRUE),
     Word("", FALSE, FALSE, FALSE), Word("", TRUE, FALSE, FALSE), Word("", FALSE, TRUE, FALSE),
     Word("", FALSE, FALSE, TRUE), Quote, Opening, Closing}

Foreign(h) == IF h = "en" THEN "hu" ELSE "en"
RunBudget(lang) == IF lang = "en" THEN 1 ELSE 0    \* the trailing and the leading budget

\* The loop of _scan_regions: quotes pair greedily, parentheses at one level.
Scanned(s) ==
    LET Step(acc, i) ==
          CASE s[i] = Quote /\ acc.quote = 0 -> [acc EXCEPT !.quote = i]
            [] s[i] = Quote /\ acc.quote # 0 ->
                 [acc EXCEPT !.quote = 0, !.found = Append(@, <<acc.quote, i>>)]
            [] s[i] = Opening /\ acc.paren = 0 -> [acc EXCEPT !.paren = i]
            [] s[i] = Closing /\ acc.paren # 0 ->
                 [acc EXCEPT !.paren = 0, !.found = Append(@, <<acc.paren, i>>)]
            [] OTHER -> acc
    IN  FoldLeft(Step, [quote |-> 0, paren |-> 0, found |-> <<>>],
                 [i \in 1 .. Len(s) |-> i]).found

\* Variant of Regions: overlapping regions are all kept.
RegionsAll(s) == ToSet(Scanned(s))

\* _scan_regions: a region that overlaps an accepted one is skipped.
Regions(s) ==
    LET Accept(acc, r) == IF r[1] > acc.last THEN [last |-> r[2], set |-> acc.set \cup {r}] ELSE acc
    IN  FoldLeft(Accept, [last |-> 0, set |-> {}], Scanned(s)).set

Evidence(s, lang) == Len(SelectSeq(s, LAMBDA w : w.cls = lang))

\* detect_language on words of known evidence: Hungarian words weigh double,
\* and a tie with any is Hungarian.
Detected(s) ==
    IF 2 * Evidence(s, "hu") >= Evidence(s, "en") /\ Evidence(s, "hu") > 0 THEN "hu" ELSE "en"

\* _region_language.
RegionLanguage(s, h) ==
    CASE Evidence(s, Foreign(h)) = 0 -> h
      [] Evidence(s, Foreign(h)) > 0 /\ Evidence(s, h) = 0 -> Foreign(h)
      [] OTHER -> Detected(s)

\* _iter_phrase_words of a gap: delimiters alone are no words.
PhraseWords(s, from, to) ==
    SelectSeq([i \in 1 .. to - from + 1 |-> from + i - 1],
              LAMBDA i : s[i] \notin {Quote, Opening, Closing})

\* The extent of the run that starts at word i of the gap w (_phrase_runs).
RunEnd(s, w, lang, i) ==
    LET Extend[j \in 1 .. Len(w), budget \in 0 .. 1] ==
          IF j = Len(w) THEN j
          ELSE LET next == s[w[j + 1]]
                   swept == next.cls = "" /\ budget > 0 /\ ~s[w[j]].final /\ ~next.harmonic
               IN  CASE next.cls = lang -> Extend[j + 1, RunBudget(lang)]
                     [] swept /\ next.hyphen -> j + 1
                     [] swept /\ ~next.hyphen -> Extend[j + 1, budget - 1]
                     [] OTHER -> j
    IN  Extend[i, RunBudget(lang)]

\* _absorb_leading.
RunStart(s, w, lang, i, j) ==
    IF /\ i > 1 /\ RunBudget(lang) > 0
       /\ Len(SelectSeq(SubSeq(w, i, j), LAMBDA k : s[k].cls = lang)) >= 2
       /\ s[w[i - 1]].cls = "" /\ ~s[w[i - 1]].hyphen /\ ~s[w[i - 1]].harmonic /\ ~s[w[i - 1]].final
    THEN i - 1 ELSE i

\* _phrase_runs of a gap, as pairs of places in the chunk.
Runs(s, from, to, lang) ==
    LET w == PhraseWords(s, from, to)
        RunsFrom[i \in 1 .. Len(w) + 1] ==
          IF i > Len(w) THEN {}
          ELSE IF s[w[i]].cls # lang THEN RunsFrom[i + 1]
          ELSE LET j == RunEnd(s, w, lang, i)
               IN  (IF j > i THEN {<<w[RunStart(s, w, lang, i, j)], w[j]>>} ELSE {})
                        \cup RunsFrom[j + 1]
    IN  RunsFrom[1]

\* The text between the accepted regions.
Gaps(s) ==
    LET ends == {0} \cup {r[2] : r \in Regions(s)}
    IN  {<<e + 1, Least({r[1] - 1 : r \in {q \in Regions(s) : q[1] > e}} \cup {Len(s)})>> : e \in ends}

\* Phrases of the other language outside the regions; when there are too many,
\* none.
PhraseRuns(s, h) ==
    LET all == UNION {Runs(s, g[1], g[2], Foreign(h)) : g \in Gaps(s)}
    IN  IF Cardinality(all) > MaxPhraseRuns THEN {} ELSE all

\* segment_language_spans before equal neighbours are joined.  Each item has
\* two places, since a run ends at the last hyphen of a hyphenated word.
RawSpans(s, h) ==
    LET cutsOf ==
          {[from |-> 2 * r[1] - 1, to |-> 2 * r[2], lang |-> RegionLanguage(SubSeq(s, r[1], r[2]), h)] :
              r \in Regions(s)}
          \cup {[from |-> 2 * r[1] - 1, to |-> IF s[r[2]].hyphen THEN 2 * r[2] - 1 ELSE 2 * r[2],
                 lang |-> Foreign(h)] : r \in PhraseRuns(s, h)}
        Host(from, to) == IF from > to THEN <<>> ELSE <<[from |-> from, to |-> to, lang |-> h]>>
        Step(acc, c) == [pos |-> c.to + 1, spans |-> acc.spans \o Host(acc.pos, c.from - 1) \o <<c>>]
        done == FoldLeft(Step, [pos |-> 1, spans |-> <<>>],
                         SetToSortSeq(cutsOf, LAMBDA a, b : a.from < b.from))
    IN  done.spans \o Host(done.pos, 2 * Len(s))

\* Neighbours of one language are one synthesis call.
Spans(s, h) ==
    LET Join(acc, c) ==
          IF acc # <<>> /\ Last(acc).lang = c.lang
          THEN [acc EXCEPT ![Len(acc)].to = c.to] ELSE Append(acc, c)
    IN  FoldLeft(Join, <<>>, RawSpans(s, h))

SpanInit == words = <<>> /\ host = "hu"

\* A chunk is any sequence of words and delimiters, in either host language.
AddWord ==
    /\ text = <<>> /\ Len(words) < MaxWords
    /\ \E w \in Items : words' = Append(words, w)
    /\ IF words = <<>> THEN host' \in {"hu", "en"} ELSE UNCHANGED host
    /\ UNCHANGED <<text, buf, said, cuts, first, flushed>>

-----------------------------------------------------------------------------
TextInit == StreamInit /\ SpanInit
TextNext == AddDelta \/ Flush \/ AddWord

TextSpec == TextInit /\ [][TextNext]_textVars

\* However the reply is cut into deltas, what has been handed to the voices
\* and what is still buffered are the reply, each character once and in order;
\* a flush loses at most a remainder too short to say (SentenceStream: "text
\* is never emitted twice").
SaidOnce ==
    IF flushed
    THEN IsPrefix(said, Ink(text)) /\ Len(Ink(text)) - Len(said) < MinRemainder
    ELSE said \o Ink(buf) = Ink(text)

\* No number is cut at its decimal point, not even when the deltas part it
\* there (add_delta's rule 1).
NumbersWhole ==
    \A c \in cuts : ~(c > 1 /\ c < Len(text) /\ text[c] = "." /\ text[c - 1] = "digit"
                        /\ text[c + 1] = "digit")

\* The spans are the chunk, piece by piece in order, with nothing lost, said
\* twice or said in no voice, and neighbours differ in language
\* (segment_language_spans: "Hard invariant").
SpansAreTheChunk ==
    LET spans == Spans(words, host)
    IN  words # <<>> =>
            /\ spans # <<>> /\ spans[1].from = 1 /\ Last(spans).to = 2 * Len(words)
            /\ \A i \in 1 .. Len(spans) : spans[i].from <= spans[i].to
            /\ \A i \in 1 .. Len(spans) - 1 :
                 spans[i + 1].from = spans[i].to + 1 /\ spans[i + 1].lang # spans[i].lang

\* Outside set-off regions a voice changes only for a phrase: at least two
\* words, one of them evidence for the other language, none for the host's,
\* and no word that vowel harmony says is Hungarian goes to the English voice.
OnlyPhrasesSwitch ==
    \A r \in PhraseRuns(words, host) :
        LET inside == SelectSeq(SubSeq(words, r[1], r[2]),
                                LAMBDA w : w \notin {Quote, Opening, Closing})
        IN  /\ Len(inside) >= 2
            /\ Evidence(inside, Foreign(host)) > 0 /\ Evidence(inside, host) = 0
            /\ host = "hu" => \A i \in 1 .. Len(inside) : ~inside[i].harmonic

\* The voices speak the chunk, and a voice changes only for a phrase of its language.
SpansSpeakTheChunk == SpansAreTheChunk /\ OnlyPhrasesSwitch

=============================================================================
