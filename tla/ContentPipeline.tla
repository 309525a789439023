--------------------------- MODULE ContentPipeline ---------------------------
(***************************************************************************)
(* From the files of one version to the points of its vectors: pages are   *)
(* extracted, read by OCR and described by a vision model where their text *)
(* is weak, cut into chunks, embedded with the help of a cache, indexed.   *)
(* Every activity may fail and is run again.                               *)
(*                                                                         *)
(* A text is a sequence of lines, a line a name and what its words end;    *)
(* lengths count words where the code counts characters.                   *)
(***************************************************************************)
EXTENDS Orders, SequencesExt, FiniteSetsExt

CONSTANTS
    Names,          \* what lines say
    Documents,      \* versions to publish: sequences of pages, by asset
    LowText,        \* low_text_threshold_chars
    ShortLine,      \* the longest line that counts as boilerplate
    TargetLength, MaxLength, OverlapLength,      \* of chunks
    BatchSize,
    OcrThreshold, VisualThreshold, MaxPercent,   \* in hundredths
    MaxPages,       \* visual_enrichment_max_pages_per_asset
    MaxTries        \* bound: attempts that fail

Lines == [name : Names, ends : Seq({"word", "line", "paragraph", ".", "!", "?"}),
          furniture : BOOLEAN]
Pages == [asset : STRING, kind : {"pdf", "pptx", "txt", "md", "docx", "vtt", "srt"},
          native : Seq(Lines), picture : Seq(Lines), raster : BOOLEAN, coverage : 0..100]

\* What the vision model says of a page
Summary == [name |-> "summary", ends |-> <<"word", "line">>, furniture |-> FALSE]
Written(pages) ==
    {Summary} \cup UNION {ToSet(pages[i].native) \cup ToSet(pages[i].picture) : i \in DOMAIN pages}

ASSUME ContentAssumption ==
    /\ Summary.name \in Names
    /\ Documents \subseteq Seq(Pages)
    /\ \A pages \in Documents : \A l, m \in Written(pages) :
         l.name = m.name => Len(l.ends) = Len(m.ends)
    /\ {LowText, ShortLine, MaxLength, OcrThreshold, VisualThreshold,
        MaxPercent, MaxPages, MaxTries} \subseteq Nat
    /\ TargetLength \in 1..MaxLength /\ OverlapLength \in 0..TargetLength - 1
    /\ BatchSize \in Nat \ {0}

VARIABLES
    document,    \* the manifest's pages: asset, kind, native, picture, raster, coverage
    phase,       \* the activity that runs
    records,     \* CANONICAL_PAGES
    passages,    \* CHUNKS: asset, number of the page, words
    embedding,   \* what embed_texts holds, or NoBatch
    vectors,     \* EMBEDDINGS, each the words that were sent for it
    embedCache,  \* embed:v1: passages and their vectors
    searchable,  \* the points of the version
    tries

contentVars ==
    <<document, phase, records, passages, embedding, vectors, embedCache, searchable, tries>>

(***************************************************************************)
(* Text                                                                    *)
(***************************************************************************)
WordsOf(line) == [k \in DOMAIN line.ends |-> [of |-> line.name, at |-> k, ends |-> line.ends[k]]]
Words(text) == FlattenSeq([i \in DOMAIN text |-> WordsOf(text[i])])
Length(text) == Len(Words(text))

\* _extract_native_text: page numbers, headers and footers go, and blank lines
Cleaned(page) ==
    LET Unspaced(line) == [line EXCEPT !.ends = ReplaceAll(@, "paragraph", "line")]
        kept == Picked(page.native, {i \in DOMAIN page.native : ~page.native[i].furniture})
    IN [i \in DOMAIN kept |-> Unspaced(kept[i])]

\* _compute_heuristics counts the text before it is cleaned
Weak(page) == Length(page.native) < LowText
HasOnlyImage(page) == Weak(page) /\ page.raster
TextConfidence(page) ==
    IF ~Weak(page) THEN Min({100, 2 * page.coverage + 50})
    ELSE Min({49, (Length(page.native) * 49) \div LowText})

\* merged_text
Merged(r) == r.native \o (IF r.ocr = r.native THEN <<>> ELSE r.ocr) \o r.visual

(***************************************************************************)
(* extract_text                                                            *)
(***************************************************************************)
Of(asset) == {i \in DOMAIN records : records[i].asset = asset}
Enriched(asset) == Cardinality({i \in Of(asset) : records[i].enriched})

Record(page, ocr, visual, enriched, confidence) ==
    [asset |-> page.asset, number |-> Cardinality(Of(page.asset)) + 1,
     native |-> IF page.kind = "pdf" THEN Cleaned(page) ELSE page.native,
     ocr |-> ocr, visual |-> visual, enriched |-> enriched,
     low |-> confidence < VisualThreshold]

\* budget_ok: the page at hand is counted, and what it may add is not
WithinBudget(asset) ==
    /\ Enriched(asset) < MaxPages
    /\ Enriched(asset) * 100 < MaxPercent * (Cardinality(Of(asset)) + 1)

\* Tesseract reads what the page shows or nothing, and is asked once more how sure it is
Readings(page) == {<<>>, page.picture}
Sureness == {0, OcrThreshold}

\* The answer of the vision model: none after any error, and one may say nothing
Sightings == {[given |-> FALSE, says |-> <<>>], [given |-> TRUE, says |-> <<>>],
              [given |-> TRUE, says |-> <<Summary>>]}

Rescued(page, ocr, sure, sight) ==
    Record(page, ocr, sight.says, sight.given,
           Max({TextConfidence(page), sure, IF sight.given THEN 70 ELSE 0}))

PageAtHand == document[Len(records) + 1]
Extracts(kinds) == phase = "extracting" /\ Len(records) < Len(document) /\ PageAtHand.kind \in kinds
Keeps(record) == records' = Append(records, record)

ExtractPdfPage ==
    /\ Extracts({"pdf"})
    /\ LET page == PageAtHand
       IN \/ /\ Length(Cleaned(page)) >= LowText
             /\ Keeps(Record(page, <<>>, <<>>, FALSE, TextConfidence(page)))
          \/ /\ Length(Cleaned(page)) < LowText
             /\ \E ocr \in Readings(page), sure \in Sureness, sight \in Sightings :
                  /\ \/ ~sight.given
                     \/ WithinBudget(page.asset) /\ HasOnlyImage(page) /\ sure < OcrThreshold
                  /\ Keeps(Rescued(page, ocr, sure, sight))
    /\ UNCHANGED <<document, phase, passages, embedding, vectors, embedCache, searchable, tries>>

\* A slide's text and notes, without a look at its pictures
ExtractSlide ==
    /\ Extracts({"pptx"})
    /\ Keeps(Record(PageAtHand, <<>>, <<>>, FALSE, IF PageAtHand.native = <<>> THEN 30 ELSE 100))
    /\ UNCHANGED <<document, phase, passages, embedding, vectors, embedCache, searchable, tries>>

\* One page that is taken to be sure; subtitles that do not parse are kept as they are
ExtractFlat ==
    /\ Extracts({"txt", "md", "docx", "vtt", "srt"})
    /\ Keeps(Record(PageAtHand, <<>>, <<>>, FALSE, 100))
    /\ UNCHANGED <<document, phase, passages, embedding, vectors, embedCache, searchable, tries>>

\* The gate after the last asset: a version with an asset over the budget goes back
Overspent(asset) ==
    \/ Enriched(asset) > MaxPages
    \/ Enriched(asset) * 100 > MaxPercent * Cardinality(Of(asset))

EndExtraction ==
    /\ phase = "extracting" /\ Len(records) = Len(document)
    /\ phase' = IF \E i \in DOMAIN records : Overspent(records[i].asset) THEN "review"
                ELSE "chunking"
    /\ UNCHANGED <<document, records, passages, embedding, vectors, embedCache, searchable, tries>>

(***************************************************************************)
(* chunk_content                                                           *)
(***************************************************************************)
Short(line) == Len(line.ends) <= ShortLine
NamesOn(i) == {line.name : line \in ToSet(Merged(records[i]))}

\* _detect_boilerplate: short lines on two pages and on half of them, of all assets
Boilerplate ==
    LET n == Len(records)
        lines == UNION {ToSet(Merged(records[i])) : i \in DOMAIN records}
        Seen(name) == Cardinality({i \in DOMAIN records : name \in NamesOn(i)})
        Recurs(name) == n >= 3 /\ Seen(name) >= 2 /\ 2 * Seen(name) >= n
    IN {line.name : line \in {l \in lines : Short(l) /\ Recurs(l.name)}}

\* _find_break: after the last paragraph, else the last ".", "!" or "?", in the last
\* fifth of the window, else at its end
Breaks == <<"paragraph", ".", "!", "?">>
FindBreak(words, start, end) ==
    LET from == end - ((end - start) \div 5)
        After(kind) == {p \in from + 1 .. end : words[p].ends = kind}
        found == {k \in DOMAIN Breaks : After(Breaks[k]) # {}}
    IN IF found = {} THEN end ELSE Max(After(Breaks[Min(found)]))

\* Faulty variant: the next part starts as if the last had ended at the target.
NextStartByTarget(start, end) == start + TargetLength - OverlapLength

NextStart(start, end) == Max({start + 1, end - OverlapLength})

\* _split_text
EndOfPart(words, start) ==
    LET target == Min({Len(words), start + TargetLength})
    IN IF target < Len(words) THEN FindBreak(words, start, target) ELSE target
PartsFrom(words) ==
    LET parts[start \in 0..Len(words)] ==
            LET end == EndOfPart(words, start)
                part == SubSeq(words, start + 1, end)
            IN IF end = Len(words) THEN <<part>> ELSE <<part>> \o parts[NextStart(start, end)]
    IN parts
Split(words) ==
    IF words = <<>> THEN <<>>
    ELSE IF Len(words) <= MaxLength THEN <<words>> ELSE PartsFrom(words)[0]

\* What the hash of a chunk is taken of
Passage(r, words) == [asset |-> r.asset, number |-> r.number, words |-> words]

\* split_pages: no passage of a page twice
PassagesOf(r) ==
    LET text == Merged(r)
        kept == Picked(text, {i \in DOMAIN text : text[i].name \notin Boilerplate})
        parts == Split(Words(kept))
        new == {k \in DOMAIN parts : \A j \in 1..k - 1 : parts[j] # parts[k]}
    IN [k \in 1..Cardinality(new) |-> Passage(r, Picked(parts, new)[k])]

ChunkContent ==
    /\ phase = "chunking" /\ phase' = "embedding"
    /\ passages' = FlattenSeq([i \in DOMAIN records |-> PassagesOf(records[i])])
    /\ UNCHANGED <<document, records, embedding, vectors, embedCache, searchable, tries>>

(***************************************************************************)
(* generate_embeddings and index_qdrant                                    *)
(***************************************************************************)
NoBatch == [busy |-> FALSE, redis |-> FALSE, pending |-> <<>>, sent |-> 0, made |-> <<>>]
Cached(i) == {e \in embedCache : e.of = passages[i]}

\* Redis answers or not; an entry has expired or does not parse
LookUpVectors ==
    /\ phase = "embedding" /\ ~embedding.busy
    /\ \E redis \in BOOLEAN, hits \in SUBSET {i \in DOMAIN passages : Cached(i) # {}} :
         /\ ~redis => hits = {}
         /\ embedding' = [NoBatch EXCEPT !.busy = TRUE, !.redis = redis,
                             !.pending = InOrder((DOMAIN passages) \ hits, Ascending)]
         /\ vectors' = [i \in DOMAIN passages |->
                           IF i \in hits THEN (CHOOSE e \in Cached(i) : TRUE).vector ELSE <<>>]
    /\ UNCHANGED <<document, phase, records, passages, embedCache, searchable, tries>>

\* What the provider may answer: something for every text of the batch, or one left out; an
\* item without an embedding counts as the empty vector
Bare == <<>>
Given(texts, bare) == [k \in DOMAIN texts |-> IF k \in bare THEN Bare ELSE texts[k]]
Answers(texts) ==
    UNION {{Given(texts, bare)} \cup {RemoveAt(Given(texts, bare), k) : k \in DOMAIN texts}
           : bare \in SUBSET DOMAIN texts}

EmbedBatch ==
    /\ embedding.busy /\ embedding.sent < Len(embedding.pending)
    /\ LET last == Min({embedding.sent + BatchSize, Len(embedding.pending)})
           batch == SubSeq(embedding.pending, embedding.sent + 1, last)
           texts == [k \in DOMAIN batch |-> passages[batch[k]].words]
       IN \E answer \in Answers(texts) :
            embedding' = [embedding EXCEPT !.sent = last, !.made = @ \o answer]
    /\ UNCHANGED <<document, phase, records, passages, vectors, embedCache, searchable, tries>>

\* What came is assigned, and cached, by its place among the texts that were sent
Made(i) == embedding.made[SelectInSeq(embedding.pending, LAMBDA j : j = i)]
AllVectors ==
    [i \in DOMAIN vectors |-> IF Contains(embedding.pending, i) THEN Made(i) ELSE vectors[i]]
NewEntries == {[of |-> passages[i], vector |-> Made(i)] : i \in ToSet(embedding.pending)}

\* A vector that is missing is an IndexError before anything is cached
StoreVectors ==
    /\ embedding.busy /\ embedding.sent = Len(embedding.pending)
    /\ Len(embedding.made) = Len(embedding.pending)
    /\ vectors' = AllVectors
    /\ embedCache' = IF ~embedding.redis THEN embedCache
                     ELSE NewEntries \cup {e \in embedCache : \A n \in NewEntries : n.of # e.of}
    /\ embedding' = NoBatch /\ phase' = "indexing"
    /\ UNCHANGED <<document, records, passages, searchable, tries>>

\* Chunks and vectors are paired again by the hash of the chunk
Point(i) == [of |-> passages[i], vector |-> vectors[i]]

\* Qdrant refuses a vector that has not the dimension of its collection
IndexPoints ==
    /\ phase = "indexing" /\ phase' = "indexed"
    /\ \A i \in DOMAIN passages : vectors[i] # Bare
    /\ searchable' = {Point(i) : i \in DOMAIN passages}
    /\ UNCHANGED <<document, records, passages, embedding, vectors, embedCache, tries>>

\* An activity raises, is lost or reports too late, and is run again; or its workflow
\* is, from the start, also for a version that went back to review.  Storing the vectors
\* may fail when the cache already has them.
Again(p) ==
    /\ phase' = p
    /\ records' = IF p = "extracting" THEN <<>> ELSE records
    /\ embedding' = NoBatch
    /\ vectors' = IF p = "indexing" THEN vectors ELSE <<>>

AttemptFails ==
    /\ phase # "indexed" /\ tries < MaxTries /\ tries' = tries + 1
    /\ \/ Again("extracting")
       \/ phase \in {"chunking", "embedding", "indexing"} /\ Again(phase)
       \/ phase = "indexing" /\ Again("embedding")
    /\ UNCHANGED <<document, passages, embedCache, searchable>>

ContentInit ==
    /\ document \in Documents /\ phase = "extracting" /\ records = <<>> /\ passages = <<>>
    /\ embedding = NoBatch /\ vectors = <<>> /\ embedCache = {} /\ searchable = {} /\ tries = 0

ContentNext ==
    \/ ExtractPdfPage \/ ExtractSlide \/ ExtractFlat \/ EndExtraction \/ ChunkContent
    \/ LookUpVectors \/ EmbedBatch \/ StoreVectors \/ IndexPoints
    \/ AttemptFails

ContentSpec == ContentInit /\ [][ContentNext]_contentVars

(***************************************************************************)
(* Properties                                                              *)
(***************************************************************************)
ContentTypeOK ==
    /\ document \in Documents /\ tries \in 0..MaxTries
    /\ phase \in {"extracting", "review", "chunking", "embedding", "indexing", "indexed"}
    /\ Len(records) <= Len(document)
    /\ embedding.sent <= Len(embedding.pending) /\ Len(embedding.made) <= embedding.sent

\* Of every asset, the vision model describes no more pages than the limit allows, and
\* more than the allowed share only by the last one: the check before a page does not
\* count that page's description, the gate at the end does.
EnrichmentKeepsToBudget ==
    \A i \in DOMAIN records :
        LET asset == records[i].asset
            n == Enriched(asset)
        IN /\ n <= MaxPages
           /\ n > 0 => (n - 1) * 100 < MaxPercent * Cardinality(Of(asset))

\* However the text is cut and whatever recurs, a word is found in a passage of its own
\* page, unless its line is short, on another page too and on half of them; no passage is
\* longer than the limit or has words of another page.
PassagesKeepTheText ==
    phase \in {"embedding", "indexing", "indexed"} =>
        /\ \A i \in DOMAIN records :
             LET r == records[i]
                 here == {c \in ToSet(passages) : c.asset = r.asset /\ c.number = r.number}
                 found == UNION {ToSet(c.words) : c \in here}
                 Seen(line) == Cardinality({j \in DOMAIN records : line.name \in NamesOn(j)})
                 Recurs(line) == Short(line) /\ Seen(line) > 1 /\ 2 * Seen(line) >= Len(records)
             IN /\ found \subseteq ToSet(Words(Merged(r)))
                /\ \A line \in ToSet(Merged(r)) : Recurs(line) \/ ToSet(WordsOf(line)) \subseteq found
        /\ \A c \in ToSet(passages) : Len(c.words) \in 1..MaxLength

\* Whatever the provider leaves out of a batch or of an item, attempts leave in the cache
\* and later ones find there, the cache never has the vector of one passage for another,
\* and what is indexed is every passage, under its own.
VectorsAreTheirOwn ==
    /\ \A e \in embedCache : e.vector \in {e.of.words, Bare}
    /\ phase = "indexed" =>
         searchable = {[of |-> c, vector |-> c.words] : c \in ToSet(passages)}

\* From what was extracted to what students can search: the vision model is asked within
\* its budget, passages lose no word of a record but boilerplate, and every passage is
\* indexed under its own vector.
ContentHolds ==
    /\ EnrichmentKeepsToBudget
    /\ PassagesKeepTheText
    /\ VectorsAreTheirOwn
=============================================================================
