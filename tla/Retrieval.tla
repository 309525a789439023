------------------------------ MODULE Retrieval ------------------------------
(***************************************************************************)
(* How chunks of a published version are found: the hybrid retrieval of a  *)
(* question, the scan of a whole file or course, and the semantic search.  *)
(* Each is several calls of Qdrant, while activities write points again,   *)
(* superseded versions are cleaned up and another version is activated.    *)
(* One call stands for all of them: calls write nothing.                   *)
(***************************************************************************)
EXTENDS Orders, SequencesExt

CONSTANTS
    Points,          \* ids of chunks, in the order in which Qdrant scrolls them
    VersionOf,       \* the version of each: 1, 2, ...
    Place,           \* where its text is: page and index of the chunk, as one number
    Meanings,        \* what may be asked: [near : cosine in hundredths, sharing : points with a word of it]
    MatchLevels,     \* what normalised BM25 makes of a shared word, in hundredths
    TopK, Cutoff,    \* Cutoff is relevance_threshold, in ten thousandths
    NearestLimit,    \* max(top_k * 3, candidate_pool // 2)
    CandidatePool, FullScan, ScrollBatch,
    SearchK,         \* top_k of a semantic search
    MaxRewrites      \* bound: changes of the index and activations

ASSUME RetrievalAssumption ==
    /\ Points \subseteq Nat /\ IsFiniteSet(Points)
    /\ VersionOf \in [Points -> Nat \ {0}] /\ Place \in [Points -> Nat]
    /\ \A p, q \in Points : p # q /\ VersionOf[p] = VersionOf[q] => Place[p] # Place[q]
    /\ Meanings \subseteq [near : [Points -> 0..100], sharing : SUBSET Points]
    /\ MatchLevels \subseteq 1..99
    /\ {TopK, NearestLimit, CandidatePool, FullScan, ScrollBatch, SearchK} \subseteq Nat \ {0}
    /\ NearestLimit >= TopK
    /\ Cutoff \in Nat /\ MaxRewrites \in Nat

VARIABLES
    indexed,     \* the points in Qdrant
    live,        \* the version that is READY, activated and current
    rewrites,
    asking,      \* the call: its kind, step, version, question and what it has so far
    lasting,     \* history: points of its version there in every state since it began
    everIn       \* history: points of its version there in some state since it began

retrievalVars == <<indexed, live, rewrites, asking, lasting, everIn>>

Versions == {1} \cup {VersionOf[p] : p \in Points}
OfVersion(v) == {p \in Points : VersionOf[p] = v}

\* A question, a scan (of an asset, or with a threshold of 0.0) and a search
CallKinds == {"question", "scan", "search"}
ScrollLimit == IF asking.kind = "scan" THEN FullScan ELSE CandidatePool

RetrievalInit ==
    /\ indexed = Points /\ live = 1 /\ rewrites = 0
    /\ lasting = {} /\ everIn = {}
    /\ asking = [kind |-> "scan", meaning |-> <<>>, step |-> "new", version |-> 0,
                 nearest |-> {}, found |-> <<>>, offset |-> 0, match |-> <<>>, chunks |-> <<>>]

\* What the filter of course and version lets through
Hits == indexed \cap OfVersion(asking.version)

\* The version is read, once: retrieve is given it, search reads it itself
BeginRetrieval ==
    /\ asking.step = "new"
    /\ \E k \in CallKinds, m \in Meanings :
         asking' = [asking EXCEPT !.kind = k, !.meaning = m, !.version = live,
                                  !.step = IF k = "scan" THEN "scrolling" ELSE "embedding"]
    /\ lasting' = indexed \cap OfVersion(live) /\ everIn' = lasting'
    /\ UNCHANGED <<indexed, live, rewrites>>

AnswersWith(chunks) == asking' = [asking EXCEPT !.step = "answered", !.chunks = chunks]
Undisturbed == UNCHANGED <<indexed, live, rewrites, lasting, everIn>>
RetrievalFails ==
    /\ asking.step \in {"embedding", "scrolling"}
    /\ asking' = [asking EXCEPT !.step = "failed"] /\ Undisturbed

\* The n points of S whose vectors are nearest, in any order where two are alike
NearestOf(S, n) ==
    {N \in SUBSET S : /\ Cardinality(N) = IF Cardinality(S) < n THEN Cardinality(S) ELSE n
                      /\ \A p \in N, q \in S \ N : asking.meaning.near[p] >= asking.meaning.near[q]}
Nearer ==
    {t \in Points \X Points :
        \/ asking.meaning.near[t[1]] > asking.meaning.near[t[2]]
        \/ asking.meaning.near[t[1]] = asking.meaning.near[t[2]] /\ t[1] < t[2]}

\* After the question has its vector, query_points; a search answers with that
QueryNearest ==
    /\ asking.step = "embedding" /\ Undisturbed
    /\ \/ asking.kind = "question"
          /\ \E N \in NearestOf(Hits, NearestLimit) :
               asking' = [asking EXCEPT !.nearest = N, !.step = "scrolling"]
       \/ asking.kind = "search"
          /\ \E N \in NearestOf(Hits, SearchK) : AnswersWith(InOrder(N, Nearer))

\* Qdrant answers with the ids from the offset on, and the one after them if there is one
Least(S, n) == First(S, Ascending, n)
OnePage(S, n) == FirstInOrder(S, Ascending, n)
\* Faulty variant: the next page begins with the last point of this one.
OffsetAtLast(S, n) == IF Cardinality(S) > n THEN Last(OnePage(S, n)) ELSE 0
NextOffset(S, n) == IF Cardinality(S) > n THEN CHOOSE p \in Least(S, n + 1) : p \notin Least(S, n)
                                          ELSE 0

ReadsBefore == {t \in Points \X Points : Place[t[1]] < Place[t[2]]}

\* One turn of _scroll_points.  The last turn of a scan sorts what it has.
ScrollPoints ==
    LET rest == {p \in Hits : p >= asking.offset}
        room == ScrollLimit - Len(asking.found)
        size == IF ScrollBatch < room THEN ScrollBatch ELSE room
        all == asking.found \o OnePage(rest, size)
        next == NextOffset(rest, size)
        over == rest = {} \/ next = 0 \/ Len(all) >= ScrollLimit
    IN  /\ asking.step = "scrolling" /\ Undisturbed
        /\ \/ ~over /\ asking' = [asking EXCEPT !.found = all, !.offset = next]
           \/ over /\ asking.kind = "scan"
              /\ AnswersWith(Sorted(all, ReadsBefore))
           \/ over /\ asking.kind = "question"
              /\ asking' = [asking EXCEPT !.found = all, !.step = "ranking"]

\* BM25 depends on which other candidates there are: a shared word counts for any of the
\* levels, and the rest counts for nothing
Hybrid(p, nearest, match) ==
    (IF p \in nearest THEN 65 * asking.meaning.near[p] ELSE 0)
    + (IF p \in DOMAIN match THEN 35 * match[p] ELSE 0)

\* _combine_hybrid_results: the better score first, then the text's order
Better(nearest, match) ==
    {t \in Points \X Points :
        LET one == Hybrid(t[1], nearest, match)
            other == Hybrid(t[2], nearest, match)
        IN one > other \/ (one = other /\ t \in ReadsBefore)}

\* The first of those that reach the threshold, or of all when none does
Rank ==
    /\ asking.step = "ranking" /\ Undisturbed
    /\ \E match \in [asking.meaning.sharing \cap ToSet(asking.found) -> MatchLevels] :
         LET combined == asking.nearest \cup ToSet(asking.found)
             relevant == {p \in combined : Hybrid(p, asking.nearest, match) >= Cutoff}
             ranked == IF relevant = {} THEN combined ELSE relevant
         IN  asking' = [asking EXCEPT !.step = "answered", !.match = match,
                          !.chunks = FirstInOrder(ranked, Better(asking.nearest, match), TopK)]

\* What the rest of the system does before the call ends
InTime == asking.step \notin {"answered", "failed"} /\ rewrites < MaxRewrites
Rewritten(S) ==
    /\ InTime /\ rewrites' = rewrites + 1
    /\ indexed' = S
    /\ lasting' = lasting \cap S /\ everIn' = everIn \cup (S \cap OfVersion(asking.version))
    /\ UNCHANGED <<live, asking>>

\* index_qdrant deletes the points of its version and writes them again; a reader sees any
\* part of that
UpsertPoints == \E v \in Versions : \E S \in SUBSET OfVersion(v) :
                    ~(S \subseteq indexed) /\ Rewritten(indexed \cup S)
\* So does the clean-up of superseded versions, which only deletes
DeletePoints == \E v \in Versions : \E S \in SUBSET OfVersion(v) :
                    S \cap indexed # {} /\ Rewritten(indexed \ S)
ActivateOther ==
    /\ InTime /\ rewrites' = rewrites + 1
    /\ live' \in Versions \ {live}
    /\ UNCHANGED <<indexed, asking, lasting, everIn>>

RetrievalNext ==
    \/ BeginRetrieval \/ RetrievalFails \/ QueryNearest \/ ScrollPoints \/ Rank
    \/ UpsertPoints \/ DeletePoints \/ ActivateOther

RetrievalSpec == RetrievalInit /\ [][RetrievalNext]_retrievalVars

(***************************************************************************)
(* Properties                                                              *)
(***************************************************************************)
RetrievalTypeOK ==
    /\ indexed \subseteq Points /\ live \in Versions /\ rewrites \in 0..MaxRewrites
    /\ asking.kind \in CallKinds /\ asking.version \in Versions \cup {0}
    /\ asking.nearest \subseteq Points /\ asking.found \in Seq(Points)
    /\ lasting \subseteq everIn /\ everIn \subseteq OfVersion(asking.version)

HasAnswer == asking.step = "answered"
InAnswer == ToSet(asking.chunks)

\* Whatever is rewritten or activated meanwhile, an answer has points of the one version
\* that was live when the call began, each at most once and no more than its limit.
AnswersAreOfTheirVersion ==
    HasAnswer =>
        /\ InAnswer \subseteq everIn
        /\ IsInjective(asking.chunks)
        /\ Len(asking.chunks) <= CASE asking.kind = "question" -> TopK
                                   [] asking.kind = "search" -> SearchK
                                   [] asking.kind = "scan" -> FullScan

\* A scan gives its points in the order of the text and, unless the version has more than the
\* limit, misses none that was there all along, however the pages fell between changes.
ScansAreComplete ==
    HasAnswer /\ asking.kind = "scan" =>
        /\ \A i, j \in DOMAIN asking.chunks :
             i < j => <<asking.chunks[i], asking.chunks[j]>> \in ReadsBefore
        /\ Cardinality(everIn) <= FullScan => lasting \subseteq InAnswer

\* What a point there all along surely gets, and what it may get at most
AtLeast(p) ==
    LET others == {q \in everIn \ {p} : asking.meaning.near[q] >= asking.meaning.near[p]}
        surely == IF Cardinality(others) < NearestLimit THEN {p} ELSE {}
        found == IF Cardinality(everIn) <= CandidatePool THEN asking.match ELSE <<>>
    IN  Hybrid(p, surely, found)
AtMost(p) == Hybrid(p, {p}, asking.match)

\* A point there all along is left out of a ranking only for as many chunks as were asked for
\* that score no less, or because it is not relevant and others are: two reads of a changing
\* index never lose the best chunk, and a question never gets nothing while there is something.
BestIsNotLost ==
    HasAnswer /\ asking.kind # "scan" =>
        \A p \in lasting \ InAnswer :
            IF asking.kind = "search"
            THEN /\ Len(asking.chunks) = SearchK
                 /\ \A q \in InAnswer : asking.meaning.near[q] >= asking.meaning.near[p]
            ELSE \/ Len(asking.chunks) = TopK /\ \A q \in InAnswer : AtMost(q) >= AtLeast(p)
                 \/ /\ AtLeast(p) < Cutoff /\ InAnswer # {}
                    /\ \A q \in InAnswer : AtMost(q) >= Cutoff

\* The properties of retrieval, for the run that has several parts.
RetrievalHolds ==
    RetrievalTypeOK /\ AnswersAreOfTheirVersion /\ ScansAreComplete /\ BestIsNotLost
=============================================================================
