----------------------------- MODULE MCServices -----------------------------
(***************************************************************************)
(* Finite instances of the components of the auth and the course service,  *)
(* of the content of a version and of what finds it again.  They share no  *)
(* state: the first state picks the part that a behaviour is about, and    *)
(* the variables of the others stay as they are.                           *)
(***************************************************************************)
EXTENDS Applications, LoginThrottle, CourseEditing, CourseCatalog, ContentPipeline, Retrieval, TLC

CONSTANTS a1, a2, m1, m2

VARIABLE part

\* Two spellings of one address
OneMailbox == [a \in Accounts |-> "mailbox"]

\* Two roles in either order, one withdrawn, and one given and withdrawn twice
Lists(add, remove) == [add |-> add, remove |-> remove]
SomeRoleChanges ==
    {Lists(<<"instructor", "admin">>, <<>>), Lists(<<"admin", "instructor">>, <<>>),
     Lists(<<>>, <<"instructor">>), Lists(<<"instructor">>, <<"instructor", "instructor">>)}

\* Two modules, in this order
TwoModules == (m1 :> 0) @@ (m2 :> 1)

\* A text to cut, titles that recur, pictures with and without words, empty slides
SomeNames == {"opening", "body", "title", "label", "footer", "summary"}
Line(name, ends) == [name |-> name, ends |-> ends, furniture |-> FALSE]
Sentences(name, size, stops, end) ==
    Line(name, [k \in 1..size |-> IF k = size THEN end ELSE IF k \in stops THEN "." ELSE "word"])
Essay == <<Sentences("opening", 13, {}, "paragraph"), Sentences("body", 20, {7, 13}, "line")>>
Title == Sentences("title", 2, {}, "line")
Label == Sentences("label", 2, {}, "line")
Footer == [Sentences("footer", 1, {}, "line") EXCEPT !.furniture = TRUE]
Page(asset, kind, native, picture, raster) ==
    [asset |-> asset, kind |-> kind, native |-> native, picture |-> picture, raster |-> raster,
     coverage |-> 20]
Slide(native, picture) == Page("deck", "pdf", native, picture, TRUE)
SomeDocuments ==
    {<<Page("notes", "md", Essay, <<>>, FALSE)>>,
     <<Slide(<<Title, Footer>>, <<Label>>), Page("deck", "pdf", <<Title>>, <<Title>>, FALSE),
       Page("deck", "pdf", <<Title, Essay[1]>>, <<>>, FALSE)>>,
     <<Slide(<<Footer>>, <<>>), Slide(<<>>, <<>>), Slide(<<>>, <<>>), Slide(<<>>, <<>>)>>,
     <<Slide(<<>>, <<Label>>), Page("talk", "pptx", <<>>, <<>>, FALSE),
       Page("talk", "pptx", <<Title>>, <<>>, FALSE)>>}

\* Chunks 1, 2, 4, 5 of one version and 3 of another, scrolled against the order of the text:
\* a question that grows nearer from chunk to chunk, and one that has one good chunk
SomePoints == 1..5
SomeVersions == [p \in SomePoints |-> IF p = 3 THEN 2 ELSE 1]
SomePlaces == [p \in SomePoints |-> 9 - p]
SomeMeanings == {[near |-> [p \in SomePoints |-> 15 * p], sharing |-> {1, 4}],
                 [near |-> [p \in SomePoints |-> IF p = 2 THEN 80 ELSE 10], sharing |-> {5}]}

\* The parts take their requests from one set and what these are about from another
Interchangeable == Permutations(Requests) \cup Permutations(Accounts)

Only(this, vs) == part = this /\ UNCHANGED <<part, vs>>

\* The choices of the first state that are about the part that is picked, and of two
\* e-mails the first is the one that is tried more often
Resting ==
    /\ part # "auth" => Blank
    /\ part # "content" => Len(document) = 1
    /\ LET first == {l \in Attempts : email[l] = CHOOSE e \in Emails : TRUE} IN
       IF part = "throttle" THEN Cardinality(first) > 1 ELSE first = Attempts

InitParts ==
    /\ part \in {"auth", "throttle", "editing", "catalog", "content", "retrieval"}
    /\ Init /\ ThrottleInit /\ EditInit /\ CatalogInit /\ ContentInit
    /\ RetrievalInit
    /\ Resting

NextParts ==
    \/ Next
       /\ Only("auth", <<throttleVars, editVars, catalogVars, contentVars, retrievalVars>>)
    \/ ThrottleNext
       /\ Only("throttle", <<vars, editVars, catalogVars, contentVars, retrievalVars>>)
    \/ EditNext
       /\ Only("editing", <<vars, throttleVars, catalogVars, contentVars, retrievalVars>>)
    \/ CatalogNext
       /\ Only("catalog", <<vars, throttleVars, editVars, contentVars, retrievalVars>>)
    \/ ContentNext
       /\ Only("content", <<vars, throttleVars, editVars, catalogVars, retrievalVars>>)
    \/ RetrievalNext
       /\ Only("retrieval", <<vars, throttleVars, editVars, catalogVars, contentVars>>)

SpecParts ==
    /\ InitParts
    /\ [][NextParts]_<<part, vars, throttleVars, editVars, catalogVars, contentVars, retrievalVars>>

\* Type correctness of every part, the unique constraints of its tables included.
PartsTypeOK ==
    TypeOK /\ ThrottleTypeOK /\ EditTypeOK /\ CatalogTypeOK /\ ContentTypeOK /\ RetrievalTypeOK
=============================================================================
