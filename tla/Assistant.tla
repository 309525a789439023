------------------------------ MODULE Assistant ------------------------------
(***************************************************************************)
(* A student's questions about one course: the graph behind POST /ask and  *)
(* the generator behind GET /ask/stream, over two Redis caches, while      *)
(* versions are published and the student enrolls and leaves.              *)
(***************************************************************************)
EXTENDS Integers, Sequences, SequencesExt, FiniteSetsExt

CONSTANTS
    Queries,
    Again,          \* bound: the queries whose place is taken by a new one when they are over
    Questions,      \* what students write, without case and spacing
    Asks,           \* what is asked: some of Asking
    ChunkLists,     \* what retrieval may return: sequences of [score, header, text]
    RelevanceThreshold, High, Medium, MinGap,    \* scores, in hundredths
    MaxChunks, MaxInput,                         \* max_context_chunks, max_input_tokens
    Overhead, Reserve,   \* tokens counted per chunk, and kept free in a truncated one
    MaxVersions, MaxChanges, MaxDepth            \* bounds

Modes  == {"graph", "stream"}
Roles  == {"student", "instructor"}
Scopes == {"course", "module", "asset"}
Asking == [mode : Modes, role : Roles, scope : Scopes, question : Questions]

ASSUME AssistantAssumption ==
    /\ Again \subseteq Queries /\ Asks \subseteq Asking
    /\ ChunkLists \subseteq Seq([score : Int, header : Nat, text : Nat])
    /\ {MaxChunks, MaxInput, Overhead, Reserve, MaxVersions, MaxChanges, MaxDepth} \subseteq Nat
    /\ {RelevanceThreshold, High, Medium, MinGap} \subseteq Int
    /\ MaxChunks > 0 /\ Reserve < MaxInput /\ MaxVersions > 0

VARIABLES
    ready,       \* the version the course serves, 0 when none is ready
    enrolled,    \* whether the student is, in the enrollment service
    changes,
    enrolKey,    \* cache:enrolled, "none" when there is no key
    answers,     \* cache:ai of the course: the keys and what is stored under them
    contexts,    \* clarify:ai: the question and scope kept for a query, or NoContext
    step,        \* where each query is
    ask,         \* what is asked: mode, role, scope, question
    got,         \* what the query has read so far
    reply        \* what it answers, and the question, version and scope it was made for

assistantVars == <<ready, enrolled, changes, enrolKey, answers, contexts, step, ask, got, reply>>
world == <<ready, enrolled, changes>>
caches == <<enrolKey, answers, contexts>>

NoContext == [question |-> <<>>, scope |-> "course"]
Nothing == [question |-> <<>>, version |-> 0, scope |-> "course"]
NoReply == [kind |-> "none", confidence |-> "low", about |-> Nothing]
Reply(kind, confidence, about) == [kind |-> kind, confidence |-> confidence, about |-> about]

(***************************************************************************)
(* Assessment of what retrieval returned                                   *)
(***************************************************************************)
Scores(chunks) == [i \in DOMAIN chunks |-> chunks[i].score]
\* The sum of the first i elements of s, for each i
Sums(s) ==
    LET sums[i \in 0..Len(s)] == IF i = 0 THEN 0 ELSE sums[i - 1] + s[i]
    IN sums
Total(s)  == Sums(s)[Len(s)]
TopScore(s) == Max(ToSet(s))
TopGap(s) == IF Len(s) > 1 THEN s[1] - s[2] ELSE s[1]
MeanAtLeast(s, x) == Total(s) >= x * Len(s)

Confidence(s) ==
    IF MeanAtLeast(s, High) THEN "high" ELSE IF MeanAtLeast(s, Medium) THEN "medium" ELSE "low"
Ambiguous(scope, s) ==
    scope # "module" /\ Len(s) >= 2 /\ TopGap(s) < MinGap /\ ~MeanAtLeast(s, High)

\* _assess and _route_after_assess
GraphRoute(scope, chunks) ==
    LET s == Scores(chunks)
        sufficient == IF scope = "asset" THEN chunks # <<>>
                      ELSE chunks # <<>> /\ TopScore(s) >= RelevanceThreshold
        ambiguous == scope # "asset" /\ Ambiguous(scope, s)
    IN IF ~sufficient THEN [to |-> "refuse", confidence |-> "low"]
       ELSE IF ambiguous THEN [to |-> "clarify", confidence |-> "low"]
       ELSE [to |-> "generate",
             confidence |-> IF scope = "asset" THEN "high" ELSE Confidence(s)]

\* Faulty variant: the stream does not ask back.
StreamRouteBlunt(scope, chunks) ==
    IF chunks = <<>> \/ (scope # "asset" /\ TopScore(Scores(chunks)) < RelevanceThreshold)
    THEN [to |-> "refuse", confidence |-> "low"]
    ELSE [to |-> "generate",
          confidence |-> IF scope = "asset" THEN "high" ELSE Confidence(Scores(chunks))]

\* The early returns of stream
StreamRoute(scope, chunks) ==
    IF chunks = <<>>            THEN [to |-> "refuse", confidence |-> "low"]
    ELSE IF scope = "asset"     THEN [to |-> "generate", confidence |-> "high"]
    ELSE IF TopScore(Scores(chunks)) < RelevanceThreshold
                                THEN [to |-> "refuse", confidence |-> "low"]
    ELSE IF Ambiguous(scope, Scores(chunks))
                                THEN [to |-> "clarify", confidence |-> "low"]
    ELSE [to |-> "generate", confidence |-> Confidence(Scores(chunks))]

RouteOf(q) == IF ask[q].mode = "graph" THEN GraphRoute(ask[q].scope, got[q].chunks)
              ELSE StreamRoute(ask[q].scope, got[q].chunks)

(***************************************************************************)
(* _select_context_chunks: chunks in order while they fit; a first chunk   *)
(* that does not fit alone is truncated and ends the selection             *)
(***************************************************************************)
Tokens(c) == c.header + c.text + Overhead
Used(chosen) == Total([i \in DOMAIN chosen |-> Tokens(chosen[i])])

Truncated(c) == [c EXCEPT !.text = IF @ > MaxInput - Reserve THEN MaxInput - Reserve ELSE @]

\* One turn of the loop, which a break makes full; used counts as consumed_tokens does
Consider(scope, sel, c) ==
    IF sel.full \/ (scope # "asset" /\ Len(sel.chosen) >= MaxChunks)
    THEN [sel EXCEPT !.full = TRUE]
    ELSE IF sel.chosen # <<>> /\ sel.used + Tokens(c) > MaxInput
    THEN [sel EXCEPT !.full = TRUE]
    ELSE IF sel.chosen = <<>> /\ Tokens(c) > MaxInput
    THEN [sel EXCEPT !.chosen = <<Truncated(c)>>, !.full = TRUE]
    ELSE [sel EXCEPT !.chosen = Append(@, c), !.used = @ + Tokens(c)]

Unselected == [chosen |-> <<>>, full |-> FALSE, used |-> 0]

\* The loop after its first i turns, for each i
Selections(scope, chunks) ==
    LET after[i \in 0..Len(chunks)] ==
          IF i = 0 THEN Unselected ELSE Consider(scope, after[i - 1], chunks[i])
    IN after

SelectContext(scope, chunks) == Selections(scope, chunks)[Len(chunks)].chosen

(***************************************************************************)
(* The queries                                                             *)
(***************************************************************************)
Unasked == [mode |-> "graph", role |-> "student", scope |-> "course", question |-> <<>>]
Unread  == [version |-> 0, enrolled |-> FALSE, chunks |-> <<>>]

AssistantInit ==
    /\ ready = 1 /\ enrolled \in BOOLEAN /\ changes = 0
    /\ enrolKey = "none"
    /\ answers = [k \in {} |-> NoReply]
    /\ contexts = [q \in Queries |-> NoContext]
    /\ step = [q \in Queries |-> "new"]
    /\ ask = [q \in Queries |-> Unasked]
    /\ got = [q \in Queries |-> Unread]
    /\ reply = [q \in Queries |-> NoReply]

GoesOn(q, from, to) == step[q] = from /\ step' = [step EXCEPT ![q] = to]
Answers(q, r) == reply' = [reply EXCEPT ![q] = r]

\* What retrieval and the prompt of a query are restricted to
About(q) == [question |-> ask[q].question, version |-> got[q].version, scope |-> ask[q].scope]

\* Faulty variant: the key does not name the scope.
KeyUnscoped(q) == [About(q) EXCEPT !.scope = "course"]

\* question_cache_key
Key(q) == About(q)

\* The query is over, answered or not, and what it held is gone
Ends(q) ==
    /\ step' = [step EXCEPT ![q] = IF q \in Again THEN "new" ELSE "done"]
    /\ ask' = [ask EXCEPT ![q] = Unasked]
    /\ got' = [got EXCEPT ![q] = Unread]
    /\ reply' = [reply EXCEPT ![q] = NoReply]

Ask(q) ==
    /\ GoesOn(q, "new", "asked")
    /\ \E a \in Asks : ask' = [ask EXCEPT ![q] = [a EXCEPT !.question = <<@>>]]
    /\ UNCHANGED <<world, caches, got, reply>>

\* continue_clarification goes by the graph, with the question and scope it finds
Clarify(q, original) ==
    /\ GoesOn(q, "new", "asked")
    /\ contexts[original] # NoContext /\ Len(contexts[original].question) <= MaxDepth
    /\ \E r \in {a.role : a \in Asks}, clarification \in Questions :
         ask' = [ask EXCEPT ![q] =
                   [mode |-> "graph", role |-> r, scope |-> contexts[original].scope,
                    question |-> Append(contexts[original].question, clarification)]]
    /\ UNCHANGED <<world, caches, got, reply>>

\* get_ready_course_version, after the rate limit; no version, and the query fails
ReadVersion(q) ==
    /\ ready # 0 /\ GoesOn(q, "asked", "versioned")
    /\ got' = [got EXCEPT ![q].version = ready]
    /\ UNCHANGED <<world, caches, ask, reply>>

\* Enrollment is asked of the cache, then of the database, and is then cached
Admits(q, from, to, is) ==
    /\ step[q] = from
    /\ IF is \/ ask[q].role # "student"
       THEN GoesOn(q, from, to) /\ UNCHANGED <<ask, got, reply>>
       ELSE Ends(q)

ReadEnrolKey(q) ==
    /\ \/ enrolKey = "none" /\ GoesOn(q, "versioned", "missed") /\ UNCHANGED <<ask, got, reply>>
       \/ enrolKey # "none" /\ Admits(q, "versioned", "admitted", enrolKey = "1")
    /\ UNCHANGED <<world, caches>>

ReadEnrollment(q) ==
    /\ GoesOn(q, "missed", "known")
    /\ got' = [got EXCEPT ![q].enrolled = enrolled]
    /\ UNCHANGED <<world, caches, ask, reply>>

SetEnrolKey(q) ==
    /\ Admits(q, "known", "admitted", got[q].enrolled)
    /\ enrolKey' = IF got[q].enrolled THEN "1" ELSE "0"
    /\ UNCHANGED <<world, answers, contexts>>

LookUp(q) ==
    /\ \/ /\ Key(q) \in DOMAIN answers /\ GoesOn(q, "admitted", "reporting")
          /\ Answers(q, answers[Key(q)])
       \/ /\ Key(q) \notin DOMAIN answers /\ GoesOn(q, "admitted", "searching")
          /\ UNCHANGED reply
    /\ UNCHANGED <<world, caches, ask, got>>

\* Only chunks of the version that was read are found; they may be gone
Retrieve(q) ==
    /\ GoesOn(q, "searching", "assessing")
    /\ \E chunks \in ChunkLists :
         got' = [got EXCEPT ![q].chunks =
                   IF ask[q].scope = "asset"
                   THEN [i \in DOMAIN chunks |-> [chunks[i] EXCEPT !.score = 100]] ELSE chunks]
    /\ UNCHANGED <<world, caches, ask, reply>>

Assessed(q, to, r) ==
    /\ GoesOn(q, "assessing", to)
    /\ Answers(q, r)
    /\ got' = [got EXCEPT ![q].chunks = <<>>]
    /\ UNCHANGED <<world, enrolKey, answers, ask>>

AnswersRefused(q) ==
    /\ RouteOf(q).to = "refuse"
    /\ Assessed(q, "reporting", Reply("refusal", "low", About(q)))
    /\ UNCHANGED contexts

\* The context is stored before anything is reported
AsksBack(q) ==
    /\ RouteOf(q).to = "clarify"
    /\ Assessed(q, "reporting", Reply("clarification", "low", About(q)))
    /\ contexts' = [contexts EXCEPT ![q] = [question |-> ask[q].question, scope |-> ask[q].scope]]

\* The model answers; a reference to an excerpt it was not given turns the answer
\* into a refusal.  The graph sends its usage event before it caches an answer, the
\* stream after: either may fail and end the query before the other.
Generate(q) ==
    /\ RouteOf(q).to = "generate"
    /\ \/ Assessed(q, "caching", Reply("answer", RouteOf(q).confidence, About(q)))
       \/ Assessed(q, "reporting", Reply("refusal", "low", About(q)))
    /\ UNCHANGED contexts

CacheAnswer(q) ==
    /\ step[q] = "caching"
    /\ answers' = [k \in DOMAIN answers \cup {Key(q)} |->
                     IF k = Key(q) THEN reply[q] ELSE answers[k]]
    /\ IF ask[q].mode = "graph" THEN Ends(q)
       ELSE GoesOn(q, "caching", "reporting") /\ UNCHANGED <<ask, got, reply>>
    /\ UNCHANGED <<world, enrolKey, contexts>>

Report(q) ==
    /\ step[q] = "reporting" /\ Ends(q)
    /\ UNCHANGED <<world, caches>>

\* A call raises, the process dies, the client of a stream leaves
QueryFails(q) ==
    /\ step[q] \notin {"new", "done"} /\ Ends(q)
    /\ UNCHANGED <<world, caches>>

(***************************************************************************)
(* The world and the clock                                                 *)
(***************************************************************************)
ChangesBy(v, e) ==
    /\ changes < MaxChanges /\ changes' = changes + 1
    /\ ready' = v /\ enrolled' = e
    /\ UNCHANGED <<caches, step, ask, got, reply>>

Publish == \E v \in 0..MaxVersions : v # ready /\ ChangesBy(v, enrolled)
EnrollOrLeave == ChangesBy(ready, ~enrolled)

\* Faulty variant: what was found not to be is cached without an expiry.
EnrolKeyExpiresIfEnrolled ==
    /\ enrolKey = "1" /\ enrolKey' = "none"
    /\ UNCHANGED <<world, answers, contexts, step, ask, got, reply>>

EnrolKeyExpires ==
    /\ enrolKey # "none" /\ enrolKey' = "none"
    /\ UNCHANGED <<world, answers, contexts, step, ask, got, reply>>

EntryExpires ==
    /\ \/ \E k \in DOMAIN answers :
            answers' = [l \in DOMAIN answers \ {k} |-> answers[l]] /\ UNCHANGED contexts
       \/ \E q \in Queries : /\ contexts[q] # NoContext
                             /\ contexts' = [contexts EXCEPT ![q] = NoContext]
                             /\ UNCHANGED answers
    /\ UNCHANGED <<world, enrolKey, step, ask, got, reply>>

AssistantNext ==
    \/ \E q \in Queries :
         \/ Ask(q) \/ \E original \in Queries : Clarify(q, original)
         \/ ReadVersion(q) \/ ReadEnrolKey(q) \/ ReadEnrollment(q) \/ SetEnrolKey(q)
         \/ LookUp(q) \/ Retrieve(q) \/ AnswersRefused(q) \/ AsksBack(q) \/ Generate(q)
         \/ CacheAnswer(q) \/ Report(q) \/ QueryFails(q)
    \/ Publish \/ EnrollOrLeave \/ EnrolKeyExpires \/ EntryExpires

\* SETEX: Redis removes the key; who has read the database goes on
AssistantFairness ==
    /\ WF_assistantVars(EnrolKeyExpires)
    /\ \A q \in Queries : WF_assistantVars(SetEnrolKey(q))
AssistantSpec == AssistantInit /\ [][AssistantNext]_assistantVars /\ AssistantFairness

(***************************************************************************)
(* Properties                                                              *)
(***************************************************************************)
AssistantTypeOK ==
    /\ ready \in 0..MaxVersions /\ enrolled \in BOOLEAN /\ changes \in 0..MaxChanges
    /\ enrolKey \in {"none", "0", "1"}
    /\ \A k \in DOMAIN answers : k.version \in 1..MaxVersions
    /\ \A q \in Queries :
         /\ contexts[q].scope \in Scopes /\ Len(contexts[q].question) <= MaxDepth + 1
         /\ ask[q].mode \in Modes /\ ask[q].scope \in Scopes
         /\ Len(ask[q].question) <= MaxDepth + 1
         /\ got[q].version \in 0..MaxVersions /\ got[q].enrolled \in BOOLEAN
         /\ reply[q].kind \in {"none", "answer", "refusal", "clarification"}

\* Whatever is published meanwhile, and though another query may have put the answer into
\* the cache, a query is answered to its own question, from the version it read first and
\* from the part of the course it is about.
AnsweredItsQuestion ==
    \A q \in Queries : reply[q].kind # "none" => reply[q].about = About(q)

\* The cache never answers with a refusal or asks back, which a later search might not, and
\* an entry is what its key says.
OnlyAnswersAreCached ==
    \A k \in DOMAIN answers : answers[k].kind = "answer" /\ answers[k].about = k

\* The two routes decide alike on what a query retrieved, though written twice.
RoutesAgree ==
    \A q \in Queries : step[q] = "assessing" =>
        \A scope \in Scopes : GraphRoute(scope, got[q].chunks) = StreamRoute(scope, got[q].chunks)

\* Only a question about the whole course is ever asked back, so that a continued
\* question, which takes its scope from the stored context, has lost none.
ClarifiedHadNoScope ==
    \A q \in Queries : contexts[q].scope = "course"

\* The prompt takes a prefix of the chunks, as long as the budgets allow, and exceeds
\* the token budget only by a truncated chunk with a long header.
FillsBudget(scope, chunks) ==
    LET chosen == SelectContext(scope, chunks)
        n == Len(chosen)
        Truncates == chunks # <<>> /\ Tokens(chunks[1]) > MaxInput
    IN /\ chunks # <<>> => n > 0
       /\ IF Truncates
          THEN n = 1 /\ (Used(chosen) > MaxInput => chunks[1].header + Overhead > Reserve)
          ELSE /\ chosen = SubSeq(chunks, 1, n)
               /\ Used(chosen) <= MaxInput
               /\ n < Len(chunks) => \/ scope # "asset" /\ n = MaxChunks
                                     \/ Used(chosen) + Tokens(chunks[n + 1]) > MaxInput

\* Whatever a query retrieved, the model is given as much of it as the budgets allow.
ContextFillsBudget ==
    \A q \in Queries, scope \in Scopes :
        step[q] = "assessing" => FillsBudget(scope, got[q].chunks)

\* From some time on no query of a student who has enrolled for good is refused, and none
\* of one who has left for good is admitted, though any number of queries set the key again
\* and a slow one may set it to what has long changed.
Finds(is) ==
    /\ enrolKey # IF is THEN "0" ELSE "1"
    /\ \A q \in Queries : step[q] = "known" => got[q].enrolled = is

EnrollmentIsSeen ==
    /\ <>[]enrolled => <>[]Finds(TRUE)
    /\ <>[]~enrolled => <>[]Finds(FALSE)

\* The two routes decide alike and hand the model as much as they may.
RoutesAndPromptsHold ==
    /\ RoutesAgree
    /\ ContextFillsBudget

\* Between what is published, what is cached and what is asked back, every reply is to the
\* question, from the version and within the scope of its own query.
AnswersKeepTheirQuestion ==
    /\ AssistantTypeOK
    /\ AnsweredItsQuestion
    /\ OnlyAnswersAreCached
    /\ ClarifiedHadNoScope
=============================================================================
