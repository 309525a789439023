---------------------------- MODULE CourseCatalog ----------------------------
(***************************************************************************)
(* Courses and their slugs.  SlugService takes the first slug of a title   *)
(* that no course uses, a deleted one excepted; the table's constraint     *)
(* excepts none.  A slug is a title and the number appended to it.         *)
(***************************************************************************)
EXTENDS Naturals, FiniteSets

CONSTANTS Courses, Titles, Authors, NoTitle, NoCourse,
          MaxSuffix    \* bound: the number appended to a slug

ASSUME CatalogAssumption == NoTitle \notin Titles /\ NoCourse \notin Courses /\ MaxSuffix \in Nat \ {0}

VARIABLES
    title,      \* title of a course, NoTitle before its row exists
    slug,       \* its slug
    deleted,    \* deleted_at is set
    editing,    \* where each request is
    form,       \* what it is about: course, title, candidate number
    since,      \* history: courses that took their slug since the request probed it
    clash       \* history: the course that the request clashed with

catalogVars == <<title, slug, deleted, editing, form, since, clash>>

NoForm == [kind |-> "none", course |-> NoCourse, title |-> NoTitle, n |-> 1]
NoSlug == [of |-> NoTitle, n |-> 0]
Existing == {c \in Courses : title[c] # NoTitle}
Listed   == {c \in Existing : ~deleted[c]}
Wanted(r) == [of |-> form[r].title, n |-> form[r].n]

CatalogInit ==
    /\ title = [c \in Courses |-> NoTitle]
    /\ slug = [c \in Courses |-> NoSlug]
    /\ deleted = [c \in Courses |-> FALSE]
    /\ editing = [r \in Authors |-> "new"]
    /\ form = [r \in Authors |-> NoForm]
    /\ since = [r \in Authors |-> {}]
    /\ clash = [r \in Authors |-> NoCourse]

Fills(r, kind, c, t) ==
    /\ editing[r] = "new"
    /\ editing' = [editing EXCEPT ![r] = "probing"]
    /\ form' = [form EXCEPT ![r] = [kind |-> kind, course |-> c, title |-> t, n |-> 1]]
    /\ UNCHANGED <<title, slug, deleted, since, clash>>

BeginCreate(r) ==
    \E c \in Courses \ Existing, t \in Titles :
       (\A q \in Authors : form[q].course # c) /\ Fills(r, "create", c, t)

\* A new title needs a new slug; a course is edited while it is a draft
BeginRename(r) ==
    \E c \in Listed, t \in Titles : t # title[c] /\ Fills(r, "rename", c, t)

\* slug_exists, once per candidate, without the course itself
Probe(r) ==
    LET taken == \E c \in Listed \ {form[r].course} : slug[c] = Wanted(r) IN
    /\ editing[r] = "probing"
    /\ IF taken
       THEN /\ form[r].n < MaxSuffix
            /\ form' = [form EXCEPT ![r].n = @ + 1]
            /\ UNCHANGED <<editing, since>>
       ELSE /\ editing' = [editing EXCEPT ![r] = "chosen"]
            /\ since' = [since EXCEPT ![r] = {}]
            /\ UNCHANGED form
    /\ UNCHANGED <<title, slug, deleted, clash>>

\* Faulty variant: a new title keeps the old slug.
WriteTitleOnly(r) ==
    LET c == form[r].course IN
    /\ editing[r] = "chosen"
    /\ editing' = [editing EXCEPT ![r] = "done"]
    /\ title' = [title EXCEPT ![c] = form[r].title]
    /\ slug' = IF slug[c] = NoSlug THEN [slug EXCEPT ![c] = Wanted(r)] ELSE slug
    /\ since' = [q \in Authors |-> since[q] \cup {c}]
    /\ UNCHANGED <<deleted, form, clash>>

\* INSERT or UPDATE and the commit, under UNIQUE(slug)
Write(r) ==
    LET c == form[r].course
        holders == {d \in Existing \ {c} : slug[d] = Wanted(r)}
    IN
    /\ editing[r] = "chosen"
    /\ editing' = [editing EXCEPT ![r] = "done"]
    /\ \/ /\ holders = {}
          /\ title' = [title EXCEPT ![c] = form[r].title]
          /\ slug' = [slug EXCEPT ![c] = Wanted(r)]
          /\ since' = [q \in Authors |-> IF q = r THEN since[q] ELSE since[q] \cup {c}]
          /\ UNCHANGED clash
       \/ /\ \E d \in holders : clash' = [clash EXCEPT ![r] = d]
          /\ UNCHANGED <<title, slug, since>>
    /\ UNCHANGED <<deleted, form>>

SoftDelete(c) ==
    /\ c \in Listed
    /\ deleted' = [deleted EXCEPT ![c] = TRUE]
    /\ UNCHANGED <<title, slug, editing, form, since, clash>>

FailCatalog(r) ==
    /\ editing[r] \in {"probing", "chosen"}
    /\ editing' = [editing EXCEPT ![r] = "done"]
    /\ UNCHANGED <<title, slug, deleted, form, since, clash>>

CatalogNext ==
    \/ \E r \in Authors : BeginCreate(r) \/ BeginRename(r) \/ Probe(r) \/ Write(r) \/ FailCatalog(r)
    \/ \E c \in Courses : SoftDelete(c)

CatalogSpec == CatalogInit /\ [][CatalogNext]_catalogVars

CatalogTypeOK ==
    /\ title \in [Courses -> Titles \cup {NoTitle}]
    /\ \A c \in Courses : slug[c] = NoSlug \/ slug[c] \in [of : Titles, n : 1..MaxSuffix]
    /\ deleted \in [Courses -> BOOLEAN]
    /\ editing \in [Authors -> {"new", "probing", "chosen", "done"}]
    /\ clash \in [Authors -> Courses \cup {NoCourse}]

\* A slug found free is refused by the database only for a course that took it after
\* it was looked for, or for one that was deleted and keeps it for ever.
SlugClashesOnlyByOverlapOrDeletion ==
    \A r \in Authors : clash[r] # NoCourse => deleted[clash[r]] \/ clash[r] \in since[r]

\* Listed courses have different slugs, and each is of its course's own title.
SlugsNameTitles ==
    \A c, d \in Listed : slug[c].of = title[c] /\ (slug[c] = slug[d] => c = d)

\* No course takes the slug of another, and none is refused a free one but by overlap
\* or for a deleted course.
SlugsHold == SlugClashesOnlyByOverlapOrDeletion /\ SlugsNameTitles
=============================================================================
