---------------------------- MODULE CourseProofs ----------------------------
(***************************************************************************)
(* Theorems about CourseCatalog and CourseEditing for any number of        *)
(* courses, modules, assets and requests, and about Publishing for every   *)
(* set of versions and requests.                                           *)
(***************************************************************************)
EXTENDS CourseCatalog, CourseEditing, Publishing, TLAPS

(***************************************************************************)
(* Slugs                                                                   *)
(***************************************************************************)
\* A form is filled in once it is worked on.
FormsTypeOK ==
    /\ form \in [Authors -> [kind : {"none", "create", "rename"},
                             course : Courses \cup {NoCourse},
                             title : Titles \cup {NoTitle}, n : 1..MaxSuffix]]
    /\ slug \in [Courses -> [of : Titles \cup {NoTitle}, n : 0..MaxSuffix]]
    /\ since \in [Authors -> SUBSET Courses]
    /\ \A r \in Authors :
         editing[r] # "new" => form[r].course \in Courses /\ form[r].title \in Titles

\* No two rows have one slug, deleted or not, and a candidate that a request chose is
\* taken only by courses that are deleted or came later.
SlugsInv ==
    /\ CatalogTypeOK
    /\ FormsTypeOK
    /\ \A c, d \in Existing : slug[c].of = title[c] /\ (slug[c] = slug[d] => c = d)
    /\ \A r \in Authors : editing[r] = "chosen" =>
         \A d \in Existing \ {form[r].course} : slug[d] = Wanted(r) => deleted[d] \/ d \in since[r]
    /\ \A r \in Authors : clash[r] # NoCourse =>
         editing[r] = "done" /\ (deleted[clash[r]] \/ clash[r] \in since[r])

\* There is no course at first.
LEMMA InitCatalog == CatalogInit => SlugsInv
<1> SUFFICES ASSUME CatalogInit PROVE SlugsInv
  OBVIOUS
<1> USE CatalogAssumption DEF CatalogInit
<1>1. CatalogTypeOK
  BY DEF CatalogTypeOK
<1>2. FormsTypeOK
  BY DEF FormsTypeOK, NoForm, NoSlug
<1> QED
  BY <1>1, <1>2 DEF SlugsInv, Existing

\* A request that begins has chosen nothing yet.
LEMMA FillsKeeps ==
  ASSUME SlugsInv, NEW r \in Authors, NEW kind \in {"create", "rename"},
         NEW c \in Courses, NEW t \in Titles, Fills(r, kind, c, t)
  PROVE  SlugsInv'
<1> USE CatalogAssumption DEF Fills
<1>1. CatalogTypeOK'
  BY DEF SlugsInv, CatalogTypeOK
<1>2. FormsTypeOK'
  BY DEF SlugsInv, FormsTypeOK, CatalogTypeOK
<1>3. Existing' = Existing
  BY DEF Existing
<1>4. \A q \in Authors : editing'[q] = "chosen" => editing[q] = "chosen" /\ Wanted(q)' = Wanted(q) /\ form'[q] = form[q]
  BY DEF SlugsInv, CatalogTypeOK, Wanted, FormsTypeOK
<1>5. \A q \in Authors : editing[q] = "done" => editing'[q] = "done"
  BY DEF SlugsInv, CatalogTypeOK
<1> QED
  BY <1>1, <1>2, <1>3, <1>4, <1>5 DEF SlugsInv

\* A candidate is chosen when no listed course has it: those that do are deleted.
LEMMA ProbeKeeps ==
  ASSUME SlugsInv, NEW r \in Authors, Probe(r)
  PROVE  SlugsInv'
<1> DEFINE taken == \E c \in Listed \ {form[r].course} : slug[c] = Wanted(r)
<1> USE CatalogAssumption
<1>1. /\ editing[r] = "probing" /\ UNCHANGED <<title, slug, deleted, clash>>
      /\ taken => form[r].n < MaxSuffix /\ form' = [form EXCEPT ![r].n = @ + 1] /\ UNCHANGED <<editing, since>>
      /\ ~taken => /\ editing' = [editing EXCEPT ![r] = "chosen"]
                   /\ since' = [since EXCEPT ![r] = {}] /\ UNCHANGED form
  BY DEF Probe
<1>2. Existing' = Existing
  BY <1>1 DEF Existing
<1>3. CASE taken
  <2>1. CatalogTypeOK'
    BY <1>1, <1>3 DEF SlugsInv, CatalogTypeOK
  <2>2. FormsTypeOK'
    <3>1. form[r] \in [kind : {"none", "create", "rename"}, course : Courses \cup {NoCourse},
                       title : Titles \cup {NoTitle}, n : 1..MaxSuffix] /\ form[r].n + 1 \in 1..MaxSuffix
      BY <1>1, <1>3 DEF SlugsInv, FormsTypeOK
    <3> DEFINE Forms == [kind : {"none", "create", "rename"}, course : Courses \cup {NoCourse},
                         title : Titles \cup {NoTitle}, n : 1..MaxSuffix]
    <3>2. [form[r] EXCEPT !.n = @ + 1] \in Forms
      BY <3>1
    <3>3. form' = [form EXCEPT ![r] = [form[r] EXCEPT !.n = @ + 1]]
      BY <1>1, <1>3
    <3>4. form' \in [Authors -> Forms]
      BY <3>2, <3>3 DEF SlugsInv, FormsTypeOK
    <3>5. /\ form'[r].course = form[r].course /\ form'[r].title = form[r].title
          /\ \A q \in Authors \ {r} : form'[q] = form[q]
      BY <3>1, <3>3 DEF SlugsInv, FormsTypeOK
    <3> QED
      BY <1>1, <1>3, <3>4, <3>5 DEF SlugsInv, FormsTypeOK
  <2>3. \A q \in Authors : editing[q] = "chosen" => form'[q] = form[q] /\ Wanted(q)' = Wanted(q)
    BY <1>1, <1>3 DEF Wanted, SlugsInv, FormsTypeOK
  <2> QED
    BY <1>1, <1>2, <1>3, <2>1, <2>2, <2>3 DEF SlugsInv
<1>4. CASE ~taken
  <2>1. CatalogTypeOK'
    BY <1>1, <1>4 DEF SlugsInv, CatalogTypeOK
  <2>2. FormsTypeOK'
    BY <1>1, <1>4 DEF SlugsInv, FormsTypeOK, CatalogTypeOK
  <2>3. \A q \in Authors : Wanted(q)' = Wanted(q)
    BY <1>1, <1>4 DEF Wanted
  <2>4. \A d \in Existing \ {form[r].course} : slug[d] = Wanted(r) => deleted[d]
    BY <1>4 DEF Listed
  <2>5. \A q \in Authors : editing'[q] = "chosen" =>
          \A d \in Existing \ {form[q].course} : slug[d] = Wanted(q) => deleted[d] \/ d \in since'[q]
    BY <1>1, <1>4, <2>4 DEF SlugsInv, CatalogTypeOK, FormsTypeOK
  <2>6. \A q \in Authors : clash[q] # NoCourse => q # r
    BY <1>1 DEF SlugsInv
  <2>7. \A q \in Authors : clash[q] # NoCourse =>
          editing'[q] = "done" /\ (deleted[clash[q]] \/ clash[q] \in since'[q])
    BY <1>1, <1>4, <2>6 DEF SlugsInv, CatalogTypeOK, FormsTypeOK
  <2> QED
    BY <1>1, <1>2, <1>4, <2>1, <2>2, <2>3, <2>5, <2>7 DEF SlugsInv
<1> QED
  BY <1>3, <1>4

\* The constraint lets a slug in that no row has, and tells everybody; or it refuses.
LEMMA WriteKeeps ==
  ASSUME SlugsInv, NEW r \in Authors, Write(r)
  PROVE  SlugsInv'
<1> USE CatalogAssumption
<1>0. PICK c \in Courses : c = form[r].course
  BY DEF SlugsInv, FormsTypeOK, Write
<1> DEFINE holders == {d \in Existing \ {c} : slug[d] = Wanted(r)}
<1>1. /\ editing[r] = "chosen" /\ UNCHANGED <<deleted, form>>
      /\ editing' = [editing EXCEPT ![r] = "done"]
      /\ Wanted(r) \in [of : Titles, n : 1..MaxSuffix] /\ Wanted(r).of = form[r].title
      /\ form[r].title \in Titles /\ form[r].title # NoTitle
  BY DEF Write, Wanted, SlugsInv, FormsTypeOK
<1>2. \A q \in Authors : Wanted(q)' = Wanted(q)
  BY <1>1 DEF Wanted
<1>3. CASE /\ holders = {} /\ UNCHANGED clash
           /\ title' = [title EXCEPT ![c] = form[r].title] /\ slug' = [slug EXCEPT ![c] = Wanted(r)]
           /\ since' = [q \in Authors |-> IF q = r THEN since[q] ELSE since[q] \cup {c}]
  <2>1. CatalogTypeOK'
    BY <1>1, <1>3 DEF SlugsInv, CatalogTypeOK
  <2>2. FormsTypeOK'
    <3>1. Wanted(r) \in [of : Titles \cup {NoTitle}, n : 0..MaxSuffix]
      BY <1>1
    <3>2. slug' \in [Courses -> [of : Titles \cup {NoTitle}, n : 0..MaxSuffix]]
      BY <1>3, <3>1 DEF SlugsInv, FormsTypeOK
    <3>3. since' \in [Authors -> SUBSET Courses]
      BY <1>0, <1>3 DEF SlugsInv, FormsTypeOK
    <3> QED
      BY <1>1, <3>2, <3>3 DEF SlugsInv, FormsTypeOK, CatalogTypeOK
  <2>3. /\ title'[c] = form[r].title /\ slug'[c] = Wanted(r) /\ Existing' = Existing \cup {c}
        /\ \A d \in Courses \ {c} : title'[d] = title[d] /\ slug'[d] = slug[d]
    BY <1>1, <1>3 DEF SlugsInv, CatalogTypeOK, FormsTypeOK, Existing
  <2>4. \A d \in Existing' : slug'[d].of = title'[d]
    BY <1>1, <2>3 DEF SlugsInv, Existing
  <2>5. \A d, e \in Existing' : slug'[d] = slug'[e] => d = e
    BY <1>3, <2>3 DEF SlugsInv, Existing
  <2>6. ASSUME NEW q \in Authors, editing'[q] = "chosen"
        PROVE  \A d \in Existing' \ {form[q].course} : slug'[d] = Wanted(q) => deleted[d] \/ d \in since'[q]
    <3>1. q # r /\ editing[q] = "chosen" /\ since'[q] = since[q] \cup {c}
      BY <1>1, <1>3, <2>6 DEF SlugsInv, CatalogTypeOK
    <3> QED
      BY <2>3, <3>1 DEF SlugsInv, Existing
  <2>7. \A q \in Authors : clash[q] # NoCourse =>
          editing'[q] = "done" /\ (deleted[clash[q]] \/ clash[q] \in since'[q])
    BY <1>1, <1>3 DEF SlugsInv, CatalogTypeOK
  <2> QED
    BY <1>1, <1>2, <1>3, <2>1, <2>2, <2>4, <2>5, <2>6, <2>7 DEF SlugsInv
<1>4. CASE /\ \E d \in holders : clash' = [clash EXCEPT ![r] = d]
           /\ UNCHANGED <<title, slug, since>>
  <2>1. PICK d \in holders : clash' = [clash EXCEPT ![r] = d]
    BY <1>4
  <2>2. d \in Courses /\ (deleted[d] \/ d \in since[r])
    BY <1>0, <1>1, <2>1 DEF SlugsInv, Existing
  <2>3. CatalogTypeOK'
    BY <1>1, <1>4, <2>1, <2>2 DEF SlugsInv, CatalogTypeOK
  <2>4. FormsTypeOK'
    BY <1>1, <1>4 DEF SlugsInv, FormsTypeOK, CatalogTypeOK
  <2>5. Existing' = Existing
    BY <1>4 DEF Existing
  <2>6. \A q \in Authors : clash'[q] # NoCourse =>
          editing'[q] = "done" /\ (deleted[clash'[q]] \/ clash'[q] \in since[q])
    BY <1>1, <2>1, <2>2 DEF SlugsInv, CatalogTypeOK
  <2>7. \A q \in Authors : editing'[q] = "chosen" => editing[q] = "chosen"
    BY <1>1 DEF SlugsInv, CatalogTypeOK
  <2> QED
    BY <1>1, <1>2, <1>4, <2>3, <2>4, <2>5, <2>6, <2>7 DEF SlugsInv
<1> QED
  BY <1>0, <1>3, <1>4 DEF Write

\* A deletion, and a request that fails, take no slug.
LEMMA OthersKeepSlugs ==
  ASSUME SlugsInv,
         \/ \E c \in Courses : SoftDelete(c)
         \/ \E r \in Authors : FailCatalog(r)
  PROVE  SlugsInv'
<1>1. CASE \E c \in Courses : SoftDelete(c)
  <2>1. PICK c \in Courses : SoftDelete(c)
    BY <1>1
  <2>2. \A d \in Courses : deleted[d] => deleted'[d]
    BY <2>1 DEF SoftDelete, SlugsInv, CatalogTypeOK
  <2>3. CatalogTypeOK' /\ FormsTypeOK' /\ Existing' = Existing
    BY <2>1 DEF SoftDelete, SlugsInv, CatalogTypeOK, FormsTypeOK, Existing
  <2>4. \A q \in Authors : clash[q] # NoCourse => clash[q] \in Courses
    BY DEF SlugsInv, CatalogTypeOK
  <2> QED
    BY <2>1, <2>2, <2>3, <2>4 DEF SoftDelete, SlugsInv, Wanted, Existing
<1>2. CASE \E r \in Authors : FailCatalog(r)
  <2>1. CatalogTypeOK' /\ FormsTypeOK' /\ Existing' = Existing
    BY <1>2 DEF FailCatalog, SlugsInv, CatalogTypeOK, FormsTypeOK, Existing
  <2> QED
    BY <1>2, <2>1 DEF FailCatalog, SlugsInv, CatalogTypeOK, Wanted
<1> QED
  BY <1>1, <1>2

\* The invariant is inductive.
THEOREM SpecSlugsInv == CatalogSpec => []SlugsInv
<1>1. SlugsInv /\ [CatalogNext]_catalogVars => SlugsInv'
  <2> SUFFICES ASSUME SlugsInv, [CatalogNext]_catalogVars PROVE SlugsInv'
    OBVIOUS
  <2>1. CASE UNCHANGED catalogVars
    BY <2>1 DEF catalogVars, SlugsInv, CatalogTypeOK, FormsTypeOK, Existing, Wanted
  <2>2. ASSUME NEW r \in Authors, BeginCreate(r) \/ BeginRename(r) PROVE SlugsInv'
    BY <2>2, FillsKeeps DEF BeginCreate, BeginRename, Listed, Existing
  <2> QED
    BY <2>1, <2>2, ProbeKeeps, WriteKeeps, OthersKeepSlugs DEF CatalogNext
<1> QED
  BY <1>1, InitCatalog, PTL DEF CatalogSpec

\* No two listed courses share a slug, each is of its course's title, and a free slug
\* is refused only by overlap or for a deleted course.
THEOREM SpecSlugsHold == CatalogSpec => []SlugsHold
<1>1. SlugsInv => SlugsHold
  BY DEF SlugsInv, SlugsHold, SlugClashesOnlyByOverlapOrDeletion, SlugsNameTitles, Listed
<1> QED
  BY <1>1, SpecSlugsInv, PTL

(***************************************************************************)
(* The draft and its files                                                 *)
(***************************************************************************)
Orders == UNION {[S -> 0..MaxNumber] : S \in SUBSET Modules}
Edits == [kind : {"none", "add", "drop", "reorder", "upload", "dropAsset", "publish"},
          module : Modules \cup {NoModule}, asset : SUBSET Assets, order : Orders,
          left : SUBSET Modules, at : -1..MaxNumber]

\* The assets that a row, a manifest or a request to publish names
Shown == {a \in Assets : \/ home[a] # NoModule \/ a \in manifest.assets
                         \/ \E q \in Editors : edit[q].kind = "publish" /\ a \in edit[q].asset}
Kept == objects \cup removing
Uploading(r) == edit[r].kind = "upload" /\ at[r] \in {"begun", "put", "inserting"}
Untouched(r) == told[r] \cap {"drop", "dropAsset"} = {}

\* Types, and what a request is about when it is somewhere.
EditsTypeOK ==
    /\ published \in BOOLEAN
    /\ number \in [Modules -> -1..MaxNumber]
    /\ home \in [Assets -> Modules \cup {NoModule}]
    /\ objects \in SUBSET Assets /\ removing \in SUBSET Assets
    /\ used \in SUBSET (Modules \cup Assets)
    /\ manifest \in [sent : BOOLEAN, assets : SUBSET Assets]
    /\ at \in [Editors -> {"new", "begun", "put", "inserting", "removed", "reading", "sent", "clashed", "done"}]
    /\ edit \in [Editors -> Edits]
    /\ told \in [Editors -> SUBSET {"add", "drop", "reorder", "upload", "dropAsset", "activate"}]

RequestTells(r) ==
    /\ at[r] = "new" => edit[r].kind = "none"
    /\ at[r] \in {"put", "inserting"} => edit[r].kind = "upload"
    /\ at[r] \in {"reading", "sent"} => edit[r].kind = "publish"
    /\ edit[r].kind = "add" => edit[r].module \in Modules /\ edit[r].at >= 0
    /\ \A m, n \in DOMAIN edit[r].order : edit[r].order[m] = edit[r].order[n] => m = n
    /\ published /\ at[r] \notin {"new", "done"} => "activate" \in told[r]

\* An upload has an asset of its own, which nothing names before its row is there.
UploadTells(r) ==
    Uploading(r) =>
        /\ edit[r].asset \subseteq used /\ edit[r].asset \cap Shown = {}
        /\ at[r] = "put" => edit[r].asset \subseteq Kept
        /\ \A q \in Editors \ {r} : Uploading(q) => edit[q].asset \cap edit[r].asset = {}

\* As long as nothing was deleted, what was validated is still there or was read.
PublishTells(r) ==
    edit[r].kind = "publish" /\ Untouched(r) =>
        /\ at[r] = "begun" => \E a \in Assets : home[a] # NoModule
        /\ at[r] = "reading" => edit[r].asset # {} \/ \E a \in Assets : home[a] \in edit[r].left
        /\ at[r] = "sent" => edit[r].asset # {}

\* The draft: numbers differ, and every asset of a module that is there has its object.
DraftTells ==
    /\ \A m, n \in Present : number[m] = number[n] => m = n
    /\ \A a \in Assets : home[a] # NoModule => home[a] \in Present
    /\ Shown \subseteq used /\ Shown \subseteq Kept

EditInv ==
    /\ EditsTypeOK
    /\ DraftTells
    /\ \A r \in Editors : RequestTells(r) /\ UploadTells(r) /\ PublishTells(r)

\* The draft starts with modules and without assets.
LEMMA InitEdit == EditInit => EditInv
<1> SUFFICES ASSUME EditInit PROVE EditInv
  OBVIOUS
<1> USE EditingAssumption DEF EditInit
<1>1. NoEdit \in Edits
  <2>1. NoOrder \in [{} -> 0..MaxNumber]
    BY DEF NoOrder
  <2>2. NoOrder \in Orders
    BY <2>1 DEF Orders
  <2> QED
    BY <2>2 DEF NoEdit, EditOf, Edits
<1>2. EditsTypeOK
  <2>1. number \in [Modules -> -1..MaxNumber] /\ home \in [Assets -> Modules \cup {NoModule}]
    OBVIOUS
  <2>2. /\ at \in [Editors -> {"new", "begun", "put", "inserting", "removed", "reading", "sent", "clashed", "done"}]
        /\ edit \in [Editors -> Edits]
        /\ told \in [Editors -> SUBSET {"add", "drop", "reorder", "upload", "dropAsset", "activate"}]
    BY <1>1
  <2>3. manifest \in [sent : BOOLEAN, assets : SUBSET Assets]
    BY DEF NoManifest
  <2>4. published \in BOOLEAN
    OBVIOUS
  <2> QED
    BY <2>1, <2>2, <2>3, <2>4 DEF EditsTypeOK
<1>3. \A r \in Editors : /\ edit[r].kind = "none" /\ at[r] = "new" /\ told[r] = {}
                         /\ DOMAIN edit[r].order = {}
  BY DEF NoEdit, EditOf, NoOrder
<1>4. Shown = {}
  BY <1>3 DEF Shown, NoManifest
<1>5. DraftTells
  BY <1>4 DEF DraftTells, Present
<1> QED
  BY <1>2, <1>3, <1>5 DEF EditInv, RequestTells, UploadTells, PublishTells, Uploading

\* What a step of one request keeps for the others: it names nothing but its own
\* upload, loses nothing else, and tells those under way what it deletes.
LEMMA OthersKeep ==
  ASSUME EditInv, NEW r \in Editors, UNCHANGED published, used \subseteq used',
         \A q \in Editors \ {r} : at'[q] = at[q] /\ edit'[q] = edit[q] /\ told[q] \subseteq told'[q],
         \A a \in Shown' : a \in Shown \/ (Uploading(r) /\ a \in edit[r].asset),
         \A a \in Kept : a \in Kept' \/ (Uploading(r) /\ a \in edit[r].asset),
         Uploading(r)' => \/ Uploading(r) /\ edit'[r].asset = edit[r].asset
                          \/ edit'[r].asset \cap used = {},
         \A q \in Editors \ {r} : Untouched(q)' /\ at[q] \notin {"new", "done"} =>
            \A a \in Assets : home[a] # NoModule => home'[a] = home[a]
  PROVE  \A q \in Editors \ {r} : RequestTells(q)' /\ UploadTells(q)' /\ PublishTells(q)'
<1> SUFFICES ASSUME NEW q \in Editors \ {r}
             PROVE  RequestTells(q)' /\ UploadTells(q)' /\ PublishTells(q)'
  OBVIOUS
<1>1. RequestTells(q)'
  BY DEF EditInv, RequestTells
<1>2. UploadTells(q)'
  <2> SUFFICES ASSUME Uploading(q)' PROVE UploadTells(q)'
    BY DEF UploadTells
  <2>1. Uploading(q) /\ edit'[q].asset = edit[q].asset /\ at'[q] = at[q]
    BY DEF Uploading
  <2>2. /\ edit[q].asset \subseteq used /\ edit[q].asset \cap Shown = {}
        /\ at[q] = "put" => edit[q].asset \subseteq Kept
        /\ \A p \in Editors \ {q} : Uploading(p) => edit[p].asset \cap edit[q].asset = {}
    BY <2>1 DEF EditInv, UploadTells
  <2>3. edit[q].asset \cap Shown' = {}
    BY <2>2
  <2>4. at[q] = "put" => edit[q].asset \subseteq Kept'
    BY <2>2
  <2>5. ASSUME NEW p \in Editors \ {q}, Uploading(p)' PROVE edit'[p].asset \cap edit[q].asset = {}
    <3>1. CASE p = r
      BY <2>2, <2>5, <3>1
    <3>2. CASE p # r
      BY <2>2, <2>5, <3>2 DEF Uploading
    <3> QED
      BY <3>1, <3>2
  <2> QED
    BY <2>1, <2>2, <2>3, <2>4, <2>5 DEF UploadTells
<1>3. PublishTells(q)'
  <2> SUFFICES ASSUME edit'[q].kind = "publish", Untouched(q)' PROVE PublishTells(q)'
    BY DEF PublishTells
  <2>1. Untouched(q) /\ edit[q].kind = "publish" /\ at'[q] = at[q] /\ edit'[q] = edit[q]
    BY DEF Untouched
  <2>2. PublishTells(q)
    BY DEF EditInv
  <2>3. CASE at[q] \in {"new", "done"}
    BY <2>1, <2>3 DEF PublishTells
  <2>4. CASE at[q] \notin {"new", "done"}
    <3>1. \A a \in Assets : home[a] # NoModule => home'[a] = home[a]
      BY <2>4
    <3>2. NoModule \notin edit[q].left
      BY EditingAssumption DEF EditInv, EditsTypeOK, Edits
    <3> QED
      BY <2>1, <2>2, <3>1, <3>2 DEF PublishTells
  <2> QED
    BY <2>3, <2>4
<1> QED
  BY <1>1, <1>2, <1>3

\* A request begins: it names nothing, and if it uploads, a new asset.
LEMMA BeginKeeps ==
  ASSUME EditInv, NEW r \in Editors, NEW j \in Edits, BeginEdit(r, j),
         UNCHANGED <<rows, objects, manifest, history>>,
         used' \in SUBSET (Modules \cup Assets), used \subseteq used',
         j.kind = "upload" => j.asset \cap used = {} /\ j.asset \subseteq used',
         j.kind = "add" => j.module \in Modules /\ j.at >= 0,
         \A m, n \in DOMAIN j.order : j.order[m] = j.order[n] => m = n,
         j.kind = "publish" => j.asset = {} /\ \E a \in Assets : home[a] # NoModule
  PROVE  EditInv'
<1> USE EditingAssumption
<1>1. /\ at[r] = "new" /\ at' = [at EXCEPT ![r] = "begun"] /\ edit' = [edit EXCEPT ![r] = j]
      /\ ~published /\ UNCHANGED <<published, number, home, objects, manifest, told, removing>>
  BY DEF BeginEdit, rows, history
<1>2. EditsTypeOK'
  BY <1>1 DEF EditInv, EditsTypeOK
<1>3. /\ at'[r] = "begun" /\ edit'[r] = j /\ edit[r].kind = "none"
      /\ \A q \in Editors \ {r} : at'[q] = at[q] /\ edit'[q] = edit[q]
  BY <1>1 DEF EditInv, EditsTypeOK, RequestTells
<1>4. \A a \in Shown' : a \in Shown
  BY <1>1, <1>3 DEF Shown
<1>5. DraftTells'
  BY <1>1, <1>4 DEF EditInv, DraftTells, Present, Kept
<1>6. \A q \in Editors \ {r} : RequestTells(q)' /\ UploadTells(q)' /\ PublishTells(q)'
  BY <1>1, <1>3, <1>4, OthersKeep DEF Uploading, Kept
<1>7. UploadTells(r)'
  <2> SUFFICES ASSUME j.kind = "upload" PROVE UploadTells(r)'
    BY <1>3 DEF UploadTells, Uploading
  <2>1. \A q \in Editors \ {r} : Uploading(q)' => edit'[q].asset \subseteq used
    BY <1>3 DEF EditInv, UploadTells, Uploading
  <2>2. Shown' \subseteq used
    BY <1>4 DEF EditInv, DraftTells
  <2> QED
    BY <1>3, <2>1, <2>2 DEF UploadTells
<1>8. RequestTells(r)' /\ PublishTells(r)'
  BY <1>1, <1>3 DEF RequestTells, PublishTells
<1> QED
  BY <1>2, <1>5, <1>6, <1>7, <1>8 DEF EditInv

\* The six ways to begin.
LEMMA BeginsKeep ==
  ASSUME EditInv, NEW r \in Editors,
         \/ BeginAddModule(r) \/ BeginDropModule(r) \/ BeginReorder(r)
         \/ BeginUpload(r) \/ BeginDropAsset(r) \/ BeginPublish(r)
  PROVE  EditInv'
<1> USE EditingAssumption
<1>1. NoOrder \in Orders /\ DOMAIN NoOrder = {}
  <2>1. NoOrder \in [{} -> 0..MaxNumber]
    BY DEF NoOrder
  <2> QED
    BY <2>1 DEF Orders
<1>2. used \in SUBSET (Modules \cup Assets) /\ home \in [Assets -> Modules \cup {NoModule}]
  BY DEF EditInv, EditsTypeOK
<1>3. CASE BeginAddModule(r)
  <2>1. PICK m \in Modules, n \in 0..MaxNumber :
          /\ BeginEdit(r, EditOf("add", m, {}, NoOrder, n))
          /\ used' = used \cup {m} /\ UNCHANGED <<rows, objects, manifest, history>>
    BY <1>3 DEF BeginAddModule
  <2> DEFINE j == EditOf("add", m, {}, NoOrder, n)
  <2>2. j \in Edits /\ j.kind = "add" /\ j.order = NoOrder /\ j.module = m /\ j.at = n
    BY <1>1 DEF EditOf, Edits
  <2> QED
    BY <1>1, <1>2, <2>1, <2>2, BeginKeeps
<1>4. CASE BeginDropModule(r)
  <2>1. PICK m \in Modules :
          /\ BeginEdit(r, EditOf("drop", m, {}, NoOrder, -1))
          /\ UNCHANGED <<rows, objects, used, manifest, history>>
    BY <1>4 DEF BeginDropModule, Present
  <2> DEFINE j == EditOf("drop", m, {}, NoOrder, -1)
  <2>2. j \in Edits /\ j.kind = "drop" /\ j.order = NoOrder
    BY <1>1 DEF EditOf, Edits
  <2> QED
    BY <1>1, <1>2, <2>1, <2>2, BeginKeeps
<1>5. CASE BeginReorder(r)
  <2>1. PICK order \in [Present -> 0..MaxNumber] :
          /\ \A m, n \in Present : order[m] = order[n] => m = n
          /\ BeginEdit(r, EditOf("reorder", NoModule, {}, order, -1))
          /\ UNCHANGED <<rows, objects, used, manifest, history>>
    BY <1>5 DEF BeginReorder
  <2>2. order \in Orders
    <3>1. Present \in SUBSET Modules
      BY DEF Present
    <3> QED
      BY <3>1 DEF Orders
  <2> DEFINE j == EditOf("reorder", NoModule, {}, order, -1)
  <2>3. j \in Edits /\ j.kind = "reorder" /\ j.order = order
    BY <2>2 DEF EditOf, Edits
  <2> QED
    BY <1>2, <2>1, <2>3, BeginKeeps
<1>6. CASE BeginUpload(r)
  <2>1. PICK m \in Modules, a \in Assets \ used :
          /\ BeginEdit(r, EditOf("upload", m, {a}, NoOrder, -1))
          /\ used' = used \cup {a} /\ UNCHANGED <<rows, objects, manifest, history>>
    BY <1>6 DEF BeginUpload, Present
  <2> DEFINE j == EditOf("upload", m, {a}, NoOrder, -1)
  <2>2. j \in Edits /\ j.kind = "upload" /\ j.order = NoOrder /\ j.asset = {a}
    BY <1>1 DEF EditOf, Edits
  <2> QED
    BY <1>1, <1>2, <2>1, <2>2, BeginKeeps
<1>7. CASE BeginDropAsset(r)
  <2>1. PICK a \in Assets :
          /\ BeginEdit(r, EditOf("dropAsset", NoModule, {a}, NoOrder, -1))
          /\ UNCHANGED <<rows, objects, used, manifest, history>>
    BY <1>7 DEF BeginDropAsset
  <2> DEFINE j == EditOf("dropAsset", NoModule, {a}, NoOrder, -1)
  <2>2. j \in Edits /\ j.kind = "dropAsset" /\ j.order = NoOrder
    BY <1>1 DEF EditOf, Edits
  <2> QED
    BY <1>1, <1>2, <2>1, <2>2, BeginKeeps
<1>8. CASE BeginPublish(r)
  <2>1. /\ BeginEdit(r, EditOf("publish", NoModule, {}, NoOrder, -1)) /\ \E a \in Assets : home[a] # NoModule
        /\ UNCHANGED <<rows, objects, used, manifest, history>>
    BY <1>8 DEF BeginPublish
  <2> DEFINE j == EditOf("publish", NoModule, {}, NoOrder, -1)
  <2>2. j \in Edits /\ j.kind = "publish" /\ j.order = NoOrder /\ j.asset = {}
    BY <1>1 DEF EditOf, Edits
  <2> QED
    BY <1>1, <1>2, <2>1, <2>2, BeginKeeps
<1> QED
  BY <1>3, <1>4, <1>5, <1>6, <1>7, <1>8

\* A commit: the request is done and the others under way are told.
LEMMA Committed ==
  ASSUME EditInv, NEW r \in Editors, NEW what \in {"add", "drop", "reorder", "upload", "dropAsset"},
         CommitEdit(r, what)
  PROVE  /\ at' \in [Editors -> {"new", "begun", "put", "inserting", "removed", "reading", "sent", "clashed", "done"}]
         /\ told' \in [Editors -> SUBSET {"add", "drop", "reorder", "upload", "dropAsset", "activate"}]
         /\ edit' = edit /\ at'[r] = "done"
         /\ \A q \in Editors \ {r} :
              /\ at'[q] = at[q] /\ told[q] \subseteq told'[q]
              /\ at[q] \notin {"new", "done"} => what \in told'[q]
         /\ RequestTells(r) => RequestTells(r)'
         /\ UploadTells(r)' /\ PublishTells(r)'
<1>1. /\ at' = [at EXCEPT ![r] = "done"] /\ edit' = edit
      /\ told' = [q \in Editors |-> IF q # r /\ at[q] \notin {"new", "done"}
                                    THEN told[q] \cup {what} ELSE told[q]]
  BY DEF CommitEdit
<1>2. /\ at \in [Editors -> {"new", "begun", "put", "inserting", "removed", "reading", "sent", "clashed", "done"}]
      /\ told \in [Editors -> SUBSET {"add", "drop", "reorder", "upload", "dropAsset", "activate"}]
  BY DEF EditInv, EditsTypeOK
<1>3. at'[r] = "done" /\ at' \in [Editors -> {"new", "begun", "put", "inserting", "removed", "reading", "sent", "clashed", "done"}]
  BY <1>1, <1>2
<1>4. told' \in [Editors -> SUBSET {"add", "drop", "reorder", "upload", "dropAsset", "activate"}]
  BY <1>1, <1>2
<1> QED
  BY <1>1, <1>2, <1>3, <1>4 DEF RequestTells, UploadTells, PublishTells, Uploading

\* A module is added under a number that is free, or its request clashes.
LEMMA AddModuleKeeps ==
  ASSUME EditInv, NEW r \in Editors, AddModule(r)
  PROVE  EditInv'
<1> USE EditingAssumption
<1>1. /\ edit[r].kind = "add" /\ at[r] = "begun" /\ edit[r].module \in Modules /\ edit[r].at \in 0..MaxNumber
      /\ UNCHANGED <<published, home, objects, used, manifest, removing, edit>>
      /\ RequestTells(r)
  BY DEF AddModule, Doing, CommitEdit, EditInv, RequestTells, EditsTypeOK, Edits
<1>2. Shown' = Shown /\ Kept' = Kept /\ ~Uploading(r) /\ ~Uploading(r)'
  BY <1>1 DEF Shown, Kept, Uploading
<1>3. CASE \E m \in Present : number[m] = edit[r].at
  <2>1. at' = [at EXCEPT ![r] = "clashed"] /\ UNCHANGED <<number, told>>
    BY <1>3 DEF AddModule
  <2>2. at'[r] = "clashed" /\ \A q \in Editors \ {r} : at'[q] = at[q]
    BY <2>1 DEF EditInv, EditsTypeOK
  <2>3. EditsTypeOK' /\ DraftTells'
    BY <1>1, <1>2, <2>1 DEF EditInv, EditsTypeOK, DraftTells, Present
  <2>4. RequestTells(r)' /\ UploadTells(r)' /\ PublishTells(r)'
    BY <1>1, <2>1, <2>2 DEF RequestTells, UploadTells, PublishTells, Uploading
  <2>5. \A q \in Editors \ {r} : RequestTells(q)' /\ UploadTells(q)' /\ PublishTells(q)'
    BY <1>1, <1>2, <2>1, <2>2, OthersKeep
  <2> QED
    BY <2>3, <2>4, <2>5 DEF EditInv
<1>4. CASE ~\E m \in Present : number[m] = edit[r].at
  <2>1. number' = [number EXCEPT ![edit[r].module] = edit[r].at] /\ CommitEdit(r, "add")
    BY <1>4 DEF AddModule
  <2>2. number' \in [Modules -> -1..MaxNumber]
    BY <1>1, <2>1 DEF EditInv, EditsTypeOK
  <2>3. EditsTypeOK'
    BY <1>1, <2>1, <2>2, Committed DEF EditInv, EditsTypeOK
  <2>4. Present' = Present \cup {edit[r].module}
    BY <1>1, <2>1 DEF Present, EditInv, EditsTypeOK
  <2>5. DraftTells'
    BY <1>1, <1>2, <1>4, <2>1, <2>4 DEF EditInv, EditsTypeOK, DraftTells, Present
  <2>6. \A q \in Editors \ {r} : RequestTells(q)' /\ UploadTells(q)' /\ PublishTells(q)'
    BY <1>1, <1>2, <2>1, Committed, OthersKeep
  <2> QED
    BY <1>1, <2>1, <2>3, <2>5, <2>6, Committed DEF EditInv
<1> QED
  BY <1>3, <1>4

\* A module goes with the rows of its assets, and whoever is publishing is told.
LEMMA DropModuleKeeps ==
  ASSUME EditInv, NEW r \in Editors, DropModule(r)
  PROVE  EditInv'
<1> USE EditingAssumption
<1> DEFINE m == edit[r].module
<1>1. /\ edit[r].kind = "drop" /\ at[r] = "begun" /\ RequestTells(r) /\ CommitEdit(r, "drop")
      /\ UNCHANGED <<published, objects, used, manifest, removing, edit>>
      /\ number' = [number EXCEPT ![m] = -1]
      /\ home' = [a \in Assets |-> IF home[a] = m THEN NoModule ELSE home[a]]
  BY DEF DropModule, Doing, CommitEdit, EditInv
<1>2. EditsTypeOK'
  <2>1. number' \in [Modules -> -1..MaxNumber]
    <3>1. -1 \in -1..MaxNumber
      OBVIOUS
    <3> QED
      BY <1>1, <3>1 DEF EditInv, EditsTypeOK
  <2>2. home' \in [Assets -> Modules \cup {NoModule}]
    BY <1>1 DEF EditInv, EditsTypeOK
  <2> QED
    BY <1>1, <2>1, <2>2, Committed DEF EditInv, EditsTypeOK
<1>3. Shown' \subseteq Shown /\ Kept' = Kept /\ ~Uploading(r) /\ ~Uploading(r)'
  BY <1>1 DEF Shown, Kept, Uploading
<1>4. DraftTells'
  <2>1. \A a \in Assets : home'[a] # NoModule => home'[a] = home[a] /\ home[a] # m
    BY <1>1
  <2>2. Present' = Present \ {m} /\ \A n \in Present' : number'[n] = number[n]
    BY <1>1 DEF Present, EditInv, EditsTypeOK
  <2> QED
    BY <1>1, <1>3, <2>1, <2>2 DEF EditInv, DraftTells
<1>5. \A q \in Editors \ {r} : RequestTells(q)' /\ UploadTells(q)' /\ PublishTells(q)'
  <2>1. \A q \in Editors \ {r} : at[q] \notin {"new", "done"} => ~Untouched(q)'
    BY <1>1, Committed DEF Untouched
  <2> QED
    BY <1>1, <1>3, <2>1, Committed, OthersKeep
<1> QED
  BY <1>1, <1>2, <1>4, <1>5, Committed DEF EditInv

\* A reordering that meets no number that is still held leaves all numbers different.
LEMMA ReorderKeeps ==
  ASSUME EditInv, NEW r \in Editors, Reorder(r)
  PROVE  EditInv'
<1> USE EditingAssumption
<1> DEFINE order == edit[r].order
           moved == DOMAIN order \cap Present
<1>1. /\ edit[r].kind = "reorder" /\ at[r] = "begun" /\ RequestTells(r)
      /\ UNCHANGED <<published, home, objects, used, manifest, removing, edit>>
  BY DEF Reorder, Doing, CommitEdit, EditInv
<1>2. Shown' = Shown /\ Kept' = Kept /\ ~Uploading(r) /\ ~Uploading(r)'
  BY <1>1 DEF Shown, Kept, Uploading
<1>3. \A m \in DOMAIN order : order[m] \in 0..MaxNumber
  BY DEF EditInv, EditsTypeOK, Edits, Orders
<1>4. CASE MeetsNumber(order)
  <2>1. at' = [at EXCEPT ![r] = "clashed"] /\ UNCHANGED <<number, told>>
    BY <1>4 DEF Reorder
  <2>2. at'[r] = "clashed" /\ \A q \in Editors \ {r} : at'[q] = at[q]
    BY <2>1 DEF EditInv, EditsTypeOK
  <2>3. EditsTypeOK' /\ DraftTells'
    BY <1>1, <1>2, <2>1 DEF EditInv, EditsTypeOK, DraftTells, Present
  <2>4. RequestTells(r)' /\ UploadTells(r)' /\ PublishTells(r)'
    BY <1>1, <2>1, <2>2 DEF RequestTells, UploadTells, PublishTells, Uploading
  <2>5. \A q \in Editors \ {r} : RequestTells(q)' /\ UploadTells(q)' /\ PublishTells(q)'
    BY <1>1, <1>2, <2>1, <2>2, OthersKeep
  <2> QED
    BY <2>3, <2>4, <2>5 DEF EditInv
<1>5. CASE ~MeetsNumber(order)
  <2>1. /\ number' = [m \in Modules |-> IF m \in moved THEN order[m] ELSE number[m]]
        /\ CommitEdit(r, "reorder")
    BY <1>5 DEF Reorder
  <2>2. number' \in [Modules -> -1..MaxNumber]
    BY <1>3, <2>1 DEF EditInv, EditsTypeOK
  <2>3. EditsTypeOK'
    BY <1>1, <2>1, <2>2, Committed DEF EditInv, EditsTypeOK
  <2>4. Present' = Present
    BY <1>3, <2>1 DEF Present, EditInv, EditsTypeOK
  <2>5. ASSUME NEW m \in Present, NEW n \in Present, number'[m] = number'[n] PROVE m = n
    <3>1. m \in Modules /\ n \in Modules
      BY DEF Present
    <3>2. CASE m \in moved /\ n \in moved
      <4>1. order[m] = order[n] /\ order[m] \in 0..MaxNumber /\ number[m] \in 0..MaxNumber /\ number[n] \in 0..MaxNumber
        BY <1>3, <2>1, <2>5, <3>1, <3>2 DEF EditInv, EditsTypeOK, Present
      <4>2. order[m] = order[n] => m = n
        BY <1>1, <3>2 DEF RequestTells
      <4> QED
        BY <4>1, <4>2
    <3>3. CASE m \in moved /\ n \notin moved
      BY <1>5, <2>1, <2>5, <3>1, <3>3 DEF MeetsNumber
    <3>4. CASE m \notin moved /\ n \in moved
      BY <1>5, <2>1, <2>5, <3>1, <3>4 DEF MeetsNumber
    <3>5. CASE m \notin moved /\ n \notin moved
      BY <2>1, <2>5, <3>1, <3>5 DEF EditInv, DraftTells
    <3> QED
      BY <3>2, <3>3, <3>4, <3>5
  <2>6. DraftTells'
    BY <1>1, <1>2, <2>4, <2>5 DEF EditInv, DraftTells
  <2>7. \A q \in Editors \ {r} : RequestTells(q)' /\ UploadTells(q)' /\ PublishTells(q)'
    BY <1>1, <1>2, <2>1, Committed, OthersKeep
  <2> QED
    BY <1>1, <2>1, <2>3, <2>6, <2>7, Committed DEF EditInv
<1> QED
  BY <1>4, <1>5

\* What a request keeps that moves on, commits nothing and leaves the rows alone.
LEMMA PassesKeeps ==
  ASSUME EditInv, NEW r \in Editors,
         NEW to \in {"put", "inserting", "removed", "reading", "sent", "done"},
         at' = [at EXCEPT ![r] = to], at[r] # "new",
         UNCHANGED <<published, number, home, used, told>>,
         objects' \in SUBSET Assets, removing' \in SUBSET Assets,
         manifest' \in [sent : BOOLEAN, assets : SUBSET Assets], edit' \in [Editors -> Edits],
         \A q \in Editors \ {r} : edit'[q] = edit[q],
         \A a \in Shown' : a \in Shown,
         \A a \in Kept : a \in Kept' \/ (Uploading(r) /\ a \in edit[r].asset),
         Uploading(r)' => Uploading(r) /\ edit'[r].asset = edit[r].asset,
         to = "put" => edit[r].asset \subseteq Kept',
         edit'[r].kind = edit[r].kind, edit'[r].module = edit[r].module,
         edit'[r].at = edit[r].at, edit'[r].order = edit[r].order,
         to \in {"put", "inserting"} => edit[r].kind = "upload",
         to \in {"reading", "sent"} => edit[r].kind = "publish",
         at[r] # "done", PublishTells(r)'
  PROVE  EditInv'
<1>1. /\ at'[r] = to /\ \A q \in Editors \ {r} : at'[q] = at[q]
      /\ EditsTypeOK'
  BY DEF EditInv, EditsTypeOK
<1>2. DraftTells'
  <2>1. \A a \in Shown' : a \in Kept'
    <3> SUFFICES ASSUME NEW a \in Shown' PROVE a \in Kept'
      OBVIOUS
    <3>1. a \in Shown /\ a \in Kept
      BY DEF EditInv, DraftTells
    <3> QED
      BY <3>1 DEF EditInv, UploadTells
  <2> QED
    BY <2>1 DEF EditInv, DraftTells, Present
<1>3. \A q \in Editors \ {r} : RequestTells(q)' /\ UploadTells(q)' /\ PublishTells(q)'
  BY <1>1, OthersKeep
<1>4. RequestTells(r)'
  BY <1>1 DEF EditInv, RequestTells
<1>5. UploadTells(r)'
  <2> SUFFICES ASSUME Uploading(r)' PROVE UploadTells(r)'
    BY DEF UploadTells
  <2>1. Uploading(r) /\ edit'[r].asset = edit[r].asset /\ UploadTells(r)
    BY DEF EditInv
  <2>2. \A q \in Editors \ {r} : Uploading(q)' => Uploading(q)
    BY <1>1 DEF Uploading
  <2>3. to \in {"put", "inserting"}
    BY <1>1 DEF Uploading
  <2> QED
    BY <1>1, <2>1, <2>2, <2>3 DEF UploadTells
<1> QED
  BY <1>1, <1>2, <1>3, <1>4, <1>5 DEF EditInv

\* Storing and removing objects: PutObject, CleanUpload, RemoveObject; and failures.
LEMMA ObjectsKeep ==
  ASSUME EditInv, NEW r \in Editors,
         PutObject(r) \/ CleanUpload(r) \/ RemoveObject(r) \/ FailEdit(r)
  PROVE  EditInv'
<1>1. /\ objects \in SUBSET Assets /\ removing \in SUBSET Assets /\ edit \in [Editors -> Edits]
      /\ manifest \in [sent : BOOLEAN, assets : SUBSET Assets] /\ edit[r].asset \in SUBSET Assets
      /\ RequestTells(r) /\ at \in [Editors -> {"new", "begun", "put", "inserting", "removed", "reading", "sent", "clashed", "done"}]
  BY DEF EditInv, EditsTypeOK, Edits
<1>2. CASE PutObject(r)
  <2>1. /\ edit[r].kind = "upload" /\ at[r] = "begun" /\ at' = [at EXCEPT ![r] = "put"]
        /\ objects' = objects \cup edit[r].asset
        /\ UNCHANGED <<published, number, home, used, manifest, edit, told, removing>>
    BY <1>2 DEF PutObject, Doing, Passes, rows, history
  <2>2. Uploading(r) /\ Shown' = Shown /\ PublishTells(r)'
    BY <2>1 DEF Uploading, Shown, PublishTells
  <2>3. Kept \subseteq Kept' /\ edit[r].asset \subseteq Kept'
    BY <2>1 DEF Kept
  <2> QED
    BY <1>1, <2>1, <2>2, <2>3, PassesKeeps
<1>3. CASE CleanUpload(r)
  <2>1. /\ edit[r].kind = "upload" /\ at[r] = "inserting" /\ at' = [at EXCEPT ![r] = "done"]
        /\ objects' \in {objects, objects \ edit[r].asset}
        /\ UNCHANGED <<published, number, home, used, manifest, edit, told, removing>>
    BY <1>1, <1>3 DEF CleanUpload, rows, history, RequestTells
  <2>2. Uploading(r) /\ ~Uploading(r)' /\ Shown' = Shown /\ PublishTells(r)'
    BY <1>1, <2>1 DEF Uploading, Shown, PublishTells
  <2>3. \A a \in Kept : a \in Kept' \/ a \in edit[r].asset
    BY <2>1 DEF Kept
  <2> QED
    BY <1>1, <2>1, <2>2, <2>3, PassesKeeps
<1>4. CASE RemoveObject(r)
  <2>1. /\ edit[r].kind = "dropAsset" /\ at[r] = "begun" /\ at' = [at EXCEPT ![r] = "removed"]
        /\ objects' \in {objects, objects \ edit[r].asset} /\ removing' = removing \cup edit[r].asset
        /\ UNCHANGED <<published, number, home, used, manifest, edit, told>>
    BY <1>4 DEF RemoveObject, Doing, Passes, rows
  <2>2. ~Uploading(r)' /\ Shown' = Shown /\ PublishTells(r)'
    BY <2>1 DEF Uploading, Shown, PublishTells
  <2>3. Kept \subseteq Kept'
    BY <2>1 DEF Kept
  <2> QED
    BY <1>1, <2>1, <2>2, <2>3, PassesKeeps
<1>5. CASE FailEdit(r)
  <2>1. /\ at[r] \notin {"new", "done"} /\ at' = [at EXCEPT ![r] = "done"]
        /\ UNCHANGED <<published, number, home, objects, used, manifest, edit, told, removing>>
    BY <1>5 DEF FailEdit, rows, history
  <2>2. ~Uploading(r)' /\ Shown' = Shown /\ PublishTells(r)' /\ Kept' = Kept
    BY <1>1, <2>1 DEF Uploading, Shown, PublishTells, Kept
  <2> QED
    BY <1>1, <2>1, <2>2, PassesKeeps
<1> QED
  BY <1>2, <1>3, <1>4, <1>5

\* Reading the draft and sending the manifest.
LEMMA PublishKeeps ==
  ASSUME EditInv, NEW r \in Editors, ReadModules(r) \/ ReadAssets(r) \/ SendManifest(r)
  PROVE  EditInv'
<1>1. /\ objects \in SUBSET Assets /\ removing \in SUBSET Assets /\ edit \in [Editors -> Edits]
      /\ manifest \in [sent : BOOLEAN, assets : SUBSET Assets] /\ edit[r] \in Edits
      /\ edit[r].asset \in SUBSET Assets /\ edit[r].left \in SUBSET Modules
      /\ RequestTells(r) /\ PublishTells(r) /\ home \in [Assets -> Modules \cup {NoModule}]
      /\ at \in [Editors -> {"new", "begun", "put", "inserting", "removed", "reading", "sent", "clashed", "done"}]
  BY DEF EditInv, EditsTypeOK, Edits
<1>2. CASE ReadModules(r)
  <2> DEFINE e == [edit[r] EXCEPT !.left = Present]
  <2>1. /\ edit[r].kind = "publish" /\ at[r] = "begun" /\ at' = [at EXCEPT ![r] = "reading"]
        /\ edit' = [edit EXCEPT ![r] = e]
        /\ UNCHANGED <<published, number, home, objects, used, manifest, told, removing>>
    BY <1>2 DEF ReadModules, Doing, Passes, rows, history
  <2>2. /\ e \in Edits /\ e.kind = "publish" /\ e.asset = edit[r].asset /\ e.left = Present
        /\ e.module = edit[r].module /\ e.at = edit[r].at /\ e.order = edit[r].order
    BY <1>1, <2>1 DEF Edits, Present
  <2>3. edit' \in [Editors -> Edits] /\ edit'[r] = e /\ \A q \in Editors \ {r} : edit'[q] = edit[q]
    BY <1>1, <2>1, <2>2
  <2>4. Shown' = Shown /\ Kept' = Kept /\ ~Uploading(r)'
    BY <2>1, <2>2, <2>3 DEF Shown, Kept, Uploading
  <2>5. PublishTells(r)'
    <3> SUFFICES ASSUME Untouched(r) PROVE \E a \in Assets : home[a] \in Present
      BY <1>1, <2>1, <2>2, <2>3 DEF PublishTells, Untouched
    <3>1. PICK a \in Assets : home[a] # NoModule
      BY <1>1, <2>1 DEF PublishTells
    <3> QED
      BY <3>1 DEF EditInv, DraftTells
  <2> QED
    BY <1>1, <2>1, <2>2, <2>3, <2>4, <2>5, PassesKeeps
<1>3. CASE ReadAssets(r)
  <2>1. PICK m \in edit[r].left :
          edit' = [edit EXCEPT ![r] = [edit[r] EXCEPT !.left = @ \ {m}, !.asset = @ \cup AssetsOf(m)]]
    BY <1>3 DEF ReadAssets
  <2> DEFINE e == [edit[r] EXCEPT !.left = @ \ {m}, !.asset = @ \cup AssetsOf(m)]
  <2>2. /\ edit[r].kind = "publish" /\ at[r] = "reading" /\ m \in Modules /\ m # NoModule
        /\ UNCHANGED <<published, number, home, objects, used, manifest, at, told, removing>>
    BY <1>1, <1>3, EditingAssumption DEF ReadAssets, Doing, rows, history
  <2>3. AssetsOf(m) \subseteq Assets /\ \A a \in AssetsOf(m) : home[a] # NoModule
    BY <2>2 DEF AssetsOf
  <2>4. /\ e \in Edits /\ e.kind = "publish" /\ e.asset = edit[r].asset \cup AssetsOf(m)
        /\ e.left = edit[r].left \ {m}
        /\ e.module = edit[r].module /\ e.at = edit[r].at /\ e.order = edit[r].order
    BY <1>1, <2>2, <2>3 DEF Edits
  <2>5. edit' \in [Editors -> Edits] /\ edit'[r] = e /\ \A q \in Editors \ {r} : edit'[q] = edit[q]
    BY <1>1, <2>1, <2>4
  <2>6. /\ \A a \in Shown' : a \in Shown
        /\ Kept' = Kept /\ ~Uploading(r)'
    <3>1. ASSUME NEW a \in Shown' PROVE a \in Shown
      <4>1. a \in Assets
        BY DEF Shown
      <4>2. CASE home[a] # NoModule \/ a \in manifest.assets
        BY <4>1, <4>2 DEF Shown
      <4>3. CASE ~(home[a] # NoModule \/ a \in manifest.assets)
        <5>1. PICK q \in Editors : edit'[q].kind = "publish" /\ a \in edit'[q].asset
          BY <2>2, <4>3 DEF Shown
        <5>2. a \in edit[q].asset /\ edit[q].kind = "publish"
          BY <2>2, <2>3, <2>4, <2>5, <4>3, <5>1
        <5> QED
          BY <4>1, <5>2 DEF Shown
      <4> QED
        BY <4>2, <4>3
    <3>2. Kept' = Kept /\ ~Uploading(r)'
      BY <2>2, <2>4, <2>5 DEF Kept, Uploading
    <3> QED
      BY <3>1, <3>2
  <2>7. PublishTells(r)'
    BY <1>1, <2>2, <2>4, <2>5 DEF PublishTells, Untouched, AssetsOf
  <2>8. at' = [at EXCEPT ![r] = "reading"]
    BY <1>1, <2>2
  <2> QED
    BY <1>1, <2>2, <2>4, <2>5, <2>6, <2>7, <2>8, PassesKeeps
<1>4. CASE SendManifest(r)
  <2>1. /\ edit[r].kind = "publish" /\ at[r] = "reading" /\ at' = [at EXCEPT ![r] = "sent"]
        /\ edit[r].left = {} /\ manifest' = [sent |-> TRUE, assets |-> edit[r].asset]
        /\ UNCHANGED <<published, number, home, objects, used, edit, told, removing>>
    BY <1>4 DEF SendManifest, Doing, Passes, rows, history
  <2>2. (\A a \in Shown' : a \in Shown) /\ Kept' = Kept /\ ~Uploading(r)'
    BY <2>1 DEF Shown, Kept, Uploading
  <2>3. PublishTells(r)' /\ manifest' \in [sent : BOOLEAN, assets : SUBSET Assets]
    BY <1>1, <2>1 DEF PublishTells, Untouched
  <2> QED
    BY <1>1, <2>1, <2>2, <2>3, PassesKeeps
<1> QED
  BY <1>2, <1>3, <1>4

\* The row of an upload whose module is still there, or none.
LEMMA InsertAssetKeeps ==
  ASSUME EditInv, NEW r \in Editors, InsertAsset(r)
  PROVE  EditInv'
<1> USE EditingAssumption
<1>1. /\ edit[r].kind = "upload" /\ at[r] = "put" /\ RequestTells(r) /\ Uploading(r)
      /\ UNCHANGED <<published, number, objects, used, manifest, removing, edit>>
      /\ edit[r].asset \subseteq used /\ edit[r].asset \cap Shown = {} /\ edit[r].asset \subseteq Kept
      /\ edit[r].asset \in SUBSET Assets
  BY DEF InsertAsset, Doing, CommitEdit, Passes, EditInv, UploadTells, Uploading, EditsTypeOK, Edits
<1>2. CASE /\ edit[r].module \in Present /\ CommitEdit(r, "upload")
           /\ home' = [a \in Assets |-> IF a \in edit[r].asset THEN edit[r].module ELSE home[a]]
  <2>1. edit[r].module \in Modules /\ edit[r].module # NoModule
    BY <1>2 DEF Present
  <2>2. home' \in [Assets -> Modules \cup {NoModule}]
    BY <1>2, <2>1 DEF EditInv, EditsTypeOK
  <2>3. EditsTypeOK'
    BY <1>1, <1>2, <2>2, Committed DEF EditInv, EditsTypeOK
  <2>4. \A a \in Assets : home[a] # NoModule => home'[a] = home[a]
    BY <1>1, <1>2 DEF Shown
  <2>5. \A a \in Shown' : a \in Shown \/ a \in edit[r].asset
    BY <1>1, <1>2 DEF Shown
  <2>6. Kept' = Kept /\ Present' = Present /\ ~Uploading(r)'
    BY <1>1, <1>2, Committed DEF Kept, Present, Uploading
  <2>7. DraftTells'
    BY <1>1, <1>2, <2>5, <2>6 DEF EditInv, DraftTells
  <2>8. \A q \in Editors \ {r} : RequestTells(q)' /\ UploadTells(q)' /\ PublishTells(q)'
    BY <1>1, <1>2, <2>4, <2>5, <2>6, Committed, OthersKeep
  <2> QED
    BY <1>1, <1>2, <2>3, <2>7, <2>8, Committed DEF EditInv
<1>3. CASE Passes(r, "put", "inserting") /\ UNCHANGED <<home, edit, told>>
  <2>1. at' = [at EXCEPT ![r] = "inserting"] /\ UNCHANGED home
    BY <1>3 DEF Passes
  <2>2. Shown' = Shown /\ Kept' = Kept /\ PublishTells(r)'
    BY <1>1, <1>3 DEF Shown, Kept, PublishTells
  <2>3. /\ objects \in SUBSET Assets /\ removing \in SUBSET Assets /\ edit \in [Editors -> Edits]
        /\ manifest \in [sent : BOOLEAN, assets : SUBSET Assets]
    BY DEF EditInv, EditsTypeOK
  <2> QED
    BY <1>1, <1>3, <2>1, <2>2, <2>3, PassesKeeps
<1> QED
  BY <1>2, <1>3 DEF InsertAsset

\* The row of an asset goes, and whoever is publishing is told.
LEMMA DropAssetKeeps ==
  ASSUME EditInv, NEW r \in Editors, DropAsset(r)
  PROVE  EditInv'
<1> USE EditingAssumption
<1>1. /\ edit[r].kind = "dropAsset" /\ at[r] = "removed" /\ RequestTells(r) /\ CommitEdit(r, "dropAsset")
      /\ UNCHANGED <<published, number, objects, used, manifest, removing, edit>>
      /\ home' = [a \in Assets |-> IF a \in edit[r].asset THEN NoModule ELSE home[a]]
  BY DEF DropAsset, Doing, CommitEdit, EditInv
<1>2. home' \in [Assets -> Modules \cup {NoModule}]
  BY <1>1 DEF EditInv, EditsTypeOK
<1>3. EditsTypeOK'
  BY <1>1, <1>2, Committed DEF EditInv, EditsTypeOK
<1>4. (\A a \in Shown' : a \in Shown) /\ Kept' = Kept /\ ~Uploading(r) /\ ~Uploading(r)'
  BY <1>1 DEF Shown, Kept, Uploading
<1>5. DraftTells'
  BY <1>1, <1>4 DEF EditInv, DraftTells, Present
<1>6. \A q \in Editors \ {r} : RequestTells(q)' /\ UploadTells(q)' /\ PublishTells(q)'
  <2>1. \A q \in Editors \ {r} : at[q] \notin {"new", "done"} => ~Untouched(q)'
    BY <1>1, Committed DEF Untouched
  <2> QED
    BY <1>1, <1>4, <2>1, Committed, OthersKeep
<1> QED
  BY <1>1, <1>3, <1>5, <1>6, Committed DEF EditInv

\* The course is published, and those under way are told.
LEMMA ActivateKeeps ==
  ASSUME EditInv, Activate
  PROVE  EditInv'
<1>1. /\ published' = TRUE /\ UNCHANGED <<number, home, objects, used, manifest, at, edit, removing>>
      /\ told' = [q \in Editors |-> IF at[q] \notin {"new", "done"} THEN told[q] \cup {"activate"} ELSE told[q]]
  BY DEF Activate
<1>2. EditsTypeOK'
  BY <1>1 DEF EditInv, EditsTypeOK
<1>3. DraftTells' /\ Shown' = Shown /\ Kept' = Kept
  BY <1>1 DEF EditInv, DraftTells, Present, Shown, Kept
<1>4. ASSUME NEW r \in Editors PROVE RequestTells(r)' /\ UploadTells(r)' /\ PublishTells(r)'
  <2>1. told'[r] = IF at[r] \notin {"new", "done"} THEN told[r] \cup {"activate"} ELSE told[r]
    BY <1>1
  <2>2. Untouched(r)' => Untouched(r)
    BY <2>1 DEF Untouched
  <2>3. RequestTells(r)'
    BY <1>1, <2>1 DEF EditInv, RequestTells
  <2>4. UploadTells(r)'
    BY <1>1, <1>3 DEF EditInv, UploadTells, Uploading
  <2>5. PublishTells(r)'
    BY <1>1, <2>2 DEF EditInv, PublishTells
  <2> QED
    BY <2>3, <2>4, <2>5
<1> QED
  BY <1>2, <1>3, <1>4 DEF EditInv

\* The invariant is inductive.
THEOREM SpecEditInv == EditSpec => []EditInv
<1>1. EditInv /\ [EditNext]_editVars => EditInv'
  <2> SUFFICES ASSUME EditInv, [EditNext]_editVars PROVE EditInv'
    OBVIOUS
  <2>1. CASE UNCHANGED editVars
    <3>1. UNCHANGED <<published, number, home, objects, used, manifest, at, edit, told, removing>>
      BY <2>1 DEF editVars
    <3>2. Shown' = Shown /\ Kept' = Kept
      BY <3>1 DEF Shown, Kept
    <3> QED
      BY <3>1, <3>2 DEF EditInv, EditsTypeOK, DraftTells, RequestTells, UploadTells, PublishTells,
                        Uploading, Untouched, Present
  <2> QED
    BY <2>1, BeginsKeep, AddModuleKeeps, DropModuleKeeps, ReorderKeeps, ObjectsKeep, PublishKeeps,
       InsertAssetKeeps, DropAssetKeeps, ActivateKeeps DEF EditNext
<1> QED
  BY <1>1, InitEdit, PTL DEF EditSpec

\* Rows and manifests name objects that are there, but for what was asked to be deleted,
\* and what was validated is what is sent.
THEOREM SpecDraftAndFilesAgree == EditSpec => []DraftAndFilesAgree
<1>1. EditInv => DraftAndFilesAgree
  <2> SUFFICES ASSUME EditInv PROVE DraftAndFilesAgree
    OBVIOUS
  <2>1. RowHasObject
    BY DEF EditInv, DraftTells, RowHasObject, Shown, Kept
  <2>2. ManifestLosesOnlyDeleted
    BY DEF EditInv, EditsTypeOK, DraftTells, ManifestLosesOnlyDeleted, Shown, Kept
  <2>3. EmptyOnlyByOverlap
    BY DEF EditInv, RequestTells, PublishTells, Untouched, EmptyOnlyByOverlap
  <2> QED
    BY <2>1, <2>2, <2>3 DEF DraftAndFilesAgree
<1> QED
  BY <1>1, SpecEditInv, PTL

\* Once the course is published only requests that had looked at it before change it.
THEOREM SpecClosedToLateEdits == EditSpec => ClosedToLateEdits
<1> DEFINE Late == published => \A r \in Editors : at[r] # at'[r] => "activate" \in told[r]
<1>1. EditInv /\ [EditNext]_editVars => [Late]_<<number, home, objects>>
  <2> SUFFICES ASSUME EditInv, EditNext, published, ~(UNCHANGED <<number, home, objects>>),
                      NEW r \in Editors, at[r] # at'[r]
               PROVE  "activate" \in told[r]
    BY DEF editVars
  <2>1. at[r] \notin {"new", "done"} => "activate" \in told[r]
    BY DEF EditInv, RequestTells
  <2>2. ~Activate
    BY DEF Activate
  <2>3. PICK q \in Editors :
          \/ AddModule(q) \/ DropModule(q) \/ Reorder(q) \/ PutObject(q) \/ InsertAsset(q)
          \/ CleanUpload(q) \/ RemoveObject(q) \/ DropAsset(q)
          \/ ReadModules(q) \/ ReadAssets(q) \/ SendManifest(q) \/ FailEdit(q)
    BY <2>2 DEF EditNext, BeginAddModule, BeginDropModule, BeginReorder, BeginUpload, BeginDropAsset,
                BeginPublish, BeginEdit
  <2>4. at[q] \notin {"new", "done"}
    BY <2>3 DEF AddModule, DropModule, Reorder, PutObject, InsertAsset, CleanUpload, RemoveObject,
                DropAsset, ReadModules, ReadAssets, SendManifest, FailEdit, Passes
  <2>5. \A p \in Editors \ {q} : at'[p] = at[p]
    BY <2>3 DEF AddModule, DropModule, Reorder, PutObject, InsertAsset, CleanUpload, RemoveObject,
                DropAsset, ReadModules, ReadAssets, SendManifest, FailEdit, Passes, CommitEdit,
                EditInv, EditsTypeOK
  <2> QED
    BY <2>1, <2>4, <2>5
<1> QED
  BY <1>1, SpecEditInv, PTL DEF EditSpec, ClosedToLateEdits

(***************************************************************************)
(* Versions on their way to students                                       *)
(***************************************************************************)
\* The parts of IndInv that are preserved together.
InFlightOK == OneInFlight /\ PendingAlone

ServedOK == AnnouncedWasServed /\ ServedBeforeChosen

ApprovalOK == NothingPublishedUnapproved /\ ApprovalComesFirst

\* The initial rows, runs and requests satisfy the invariant.
LEMMA InitIndInv == Init => IndInv
<1> SUFFICES ASSUME Init PROVE IndInv
  OBVIOUS
<1>1. TypeOK
  BY PublishingAssumption DEF Init, TypeOK, RequestsTypeOK, RequestRecord, Labels, Status, InFlight, Stages, Finalizing, Idle
<1>2. OneInFlight /\ PendingAlone
  BY DEF Init, OneInFlight, PendingAlone, OthersInFlight, InFlight
<1>3. AnnouncedWasServed /\ ServedBeforeChosen /\ NothingPublishedUnapproved
  BY DEF Init, AnnouncedWasServed, ServedBeforeChosen, NothingPublishedUnapproved
<1>4. ApprovalComesFirst
  BY DEF Init, ApprovalComesFirst, Approving, Finalizing, Idle
<1> QED
  BY <1>1, <1>2, <1>3, <1>4 DEF IndInv

\* A request under way stays one about a version that exists.
LEMMA GotoTypeOK ==
  ASSUME RequestsTypeOK, NEW q \in Requests, NEW label \in Labels,
         request[q].at \in Labels, Goto(q, label)
  PROVE  RequestsTypeOK'
<1> USE DEF RequestsTypeOK, RequestRecord, Goto
<1>1. request'[q] \in RequestRecord
  OBVIOUS
<1>2. \A p \in Requests : p # q => request'[p] = request[p]
  OBVIOUS
<1>3. request'[q].version = request[q].version /\ request'[q].status = request[q].status
  OBVIOUS
<1>4. request' \in [Requests -> RequestRecord]
  OBVIOUS
<1> QED
  BY <1>1, <1>2, <1>3, <1>4

\* Requests that do not move stay of their type.
LEMMA KeptTypeOK == RequestsTypeOK /\ request' = request => RequestsTypeOK'
  BY DEF RequestsTypeOK

\* A retry keeps the number of the run it started.
LEMMA StartTypeOK ==
  ASSUME RequestsTypeOK, NEW q \in Requests, request[q].version \in Versions,
         request[q].status \in Status, NEW n \in Nat,
         request' = [request EXCEPT ![q].at = "started", ![q].run = n]
  PROVE  RequestsTypeOK'
<1>1. request' = [request EXCEPT ![q] = [request[q] EXCEPT !.at = "started", !.run = n]]
  BY DEF RequestsTypeOK, RequestRecord
<1>2. [request[q] EXCEPT !.at = "started", !.run = n] \in RequestRecord
  BY DEF RequestsTypeOK, RequestRecord, Labels
<1>3. /\ request'[q].version = request[q].version
      /\ request'[q].status = request[q].status
  BY <1>1, <1>2 DEF RequestsTypeOK, RequestRecord
<1>4. \A p \in Requests : p # q => request'[p] = request[p]
  BY <1>1 DEF RequestsTypeOK
<1>5. request' \in [Requests -> RequestRecord]
  BY <1>1, <1>2 DEF RequestsTypeOK
<1> QED
  BY <1>3, <1>4, <1>5 DEF RequestsTypeOK

\* A request that has ended is about nothing.
LEMMA EndsTypeOK ==
  ASSUME RequestsTypeOK, NEW q \in Requests, Ends(q)
  PROVE  RequestsTypeOK'
<1> USE DEF RequestsTypeOK, Ends
<1>1. [Idle EXCEPT !.at = "over"] \in RequestRecord
  BY PublishingAssumption DEF Idle, RequestRecord
<1>2. request' \in [Requests -> RequestRecord]
  BY <1>1
<1>3. \A p \in Requests : p # q => request'[p] = request[p]
  OBVIOUS
<1>4. request'[q].at = "over"
  BY DEF Idle
<1> QED
  BY <1>2, <1>3, <1>4 DEF Labels

\* A request is received about a version that exists.
LEMMA ReceiveTypeOK ==
  ASSUME TypeOK, NEW q \in Requests, Receive(q)
  PROVE  RequestsTypeOK'
<1>1. PICK k \in Kinds, v \in Versions :
        /\ status[v] # "ABSENT"
        /\ request' = [request EXCEPT ![q] =
                        [at |-> "read", kind |-> k, version |-> v, status |-> status[v],
                         approval |-> approval[v], run |-> runId[v]]]
  BY DEF Receive
<1> DEFINE new == [at |-> "read", kind |-> k, version |-> v, status |-> status[v],
                   approval |-> approval[v], run |-> runId[v]]
<1>2. new \in RequestRecord /\ new.version \in Versions /\ new.status \in Status
  BY <1>1 DEF TypeOK, RequestRecord, Labels
<1>3. request'[q] = new /\ \A p \in Requests : p # q => request'[p] = request[p]
  BY <1>1 DEF TypeOK, RequestsTypeOK
<1>4. request' \in [Requests -> RequestRecord]
  BY <1>1, <1>2 DEF TypeOK, RequestsTypeOK
<1> QED
  BY <1>2, <1>3, <1>4 DEF TypeOK, RequestsTypeOK

\* Every step keeps every variable in its set.
LEMMA NextTypeOK == TypeOK /\ [Next]_publishingVars => TypeOK'
<1> SUFFICES ASSUME TypeOK, [Next]_publishingVars PROVE TypeOK'
  OBVIOUS
<1> USE DEF TypeOK, rowVars, runVars, attemptVars, liveVars, CreatingAt, StartRun, At, Reports, ReportsFrom, BackToReview, Attempt, AttemptEnds, Activated, Status, InFlight, Stages, Finalizing
<1>1. ASSUME NEW v \in Versions, CreateNext(v) PROVE TypeOK'
  <2>1. CASE CreateCheck(v)
    BY <2>1, KeptTypeOK DEF CreateCheck
  <2>2. CASE CreateInsert(v)
    BY <2>2, KeptTypeOK DEF CreateInsert
  <2>3. CASE CreateCommit(v)
    BY <2>3, KeptTypeOK DEF CreateCommit
  <2>4. CASE CreateStart(v)
    BY <2>4, KeptTypeOK DEF CreateStart
  <2>5. CASE CreateAttach(v)
    BY <2>5, KeptTypeOK DEF CreateAttach
  <2>6. CASE CreateFailed(v)
    BY <2>6, KeptTypeOK DEF CreateFailed
  <2>7. CASE CreateDies(v)
    BY <2>7, KeptTypeOK DEF CreateDies
  <2> QED
    BY <1>1, <2>1, <2>2, <2>3, <2>4, <2>5, <2>6, <2>7 DEF CreateNext
<1>2. ASSUME NEW v \in Versions, WorkerStep(v) PROVE TypeOK'
  <2>1. CASE PreflightBegin(v)
    BY <2>1, KeptTypeOK DEF PreflightBegin
  <2>2. CASE PreflightEnd(v)
    BY <2>2, KeptTypeOK DEF PreflightEnd
  <2>3. CASE Wake(v)
    BY <2>3, KeptTypeOK DEF Wake
  <2>4. CASE MarkRejected(v)
    BY <2>4, KeptTypeOK DEF MarkRejected
  <2>5. CASE MarkPublishing(v)
    BY <2>5, KeptTypeOK DEF MarkPublishing
  <2>6. CASE ExtractBegin(v)
    BY <2>6, KeptTypeOK DEF ExtractBegin
  <2>7. CASE ExtractEnd(v)
    BY <2>7, KeptTypeOK DEF ExtractEnd
  <2>8. CASE BudgetGate(v)
    BY <2>8, KeptTypeOK DEF BudgetGate
  <2>9. CASE ContentStage(v)
    BY <2>9, KeptTypeOK DEF ContentStage
  <2>10. CASE IndexDelete(v)
    BY <2>10, KeptTypeOK DEF IndexDelete
  <2>11. CASE IndexUpsert(v)
    BY <2>11, KeptTypeOK DEF IndexUpsert
  <2>12. CASE FinalizeFlush(v)
    BY <2>12, KeptTypeOK DEF FinalizeFlush
  <2>13. CASE FinalizeServed(v)
    BY <2>13, KeptTypeOK DEF FinalizeServed
  <2>14. CASE FinalizeChoose(v)
    BY <2>14, KeptTypeOK DEF FinalizeChoose, ActiveBesides
  <2>15. CASE FinalizeCommit(v)
    BY <2>15, KeptTypeOK, PublishingAssumption DEF FinalizeCommit
  <2>16. CASE Cancel(v)
    BY <2>16, KeptTypeOK DEF Cancel
  <2>17. CASE MarkFailed(v)
    BY <2>17, KeptTypeOK DEF MarkFailed
  <2> QED
    BY <1>2, <2>1, <2>2, <2>3, <2>4, <2>5, <2>6, <2>7, <2>8, <2>9, <2>10, <2>11, <2>12, <2>13, <2>14, <2>15, <2>16, <2>17 DEF WorkerStep
<1>3. ASSUME NEW v \in Versions, WorkerFault(v) PROVE TypeOK'
  <2>1. CASE FinalizeFailed(v)
    BY <2>1, KeptTypeOK DEF FinalizeFailed
  <2>2. CASE AttemptDies(v)
    BY <2>2, KeptTypeOK DEF AttemptDies
  <2> QED
    BY <1>3, <2>1, <2>2 DEF WorkerFault
<1>4. ASSUME NEW v \in Versions, ServeLate(v) PROVE TypeOK'
  BY <1>4, KeptTypeOK DEF ServeLate
<1>5. ASSUME NEW v \in Versions, CleanUp(v) PROVE TypeOK'
  BY <1>5, KeptTypeOK DEF CleanUp
<1>6. ASSUME NEW q \in Requests, RequestNext(q) PROVE TypeOK'
  <2>0. request[q] \in RequestRecord /\ (request[q].at \in Labels => request[q].version \in Versions)
    BY DEF TypeOK, RequestsTypeOK
  <2>1. CASE Receive(q)
    <3>1. RequestsTypeOK'
      BY <2>1, ReceiveTypeOK DEF Receive
    <3> QED
      BY <2>0, <2>1, <3>1 DEF Receive, RequestRecord, Labels, Verdict, ActiveBesides
  <2>2. CASE Signal(q)
    <3>1. RequestsTypeOK'
      BY <2>2, GotoTypeOK DEF Signal, Labels
    <3> QED
      BY <2>0, <2>2, <3>1 DEF Signal, RequestRecord, Labels, Verdict, ActiveBesides
  <2>3. CASE RecordVerdict(q)
    <3>1. RequestsTypeOK'
      BY <2>3, EndsTypeOK, GotoTypeOK DEF RecordVerdict, Labels
    <3> QED
      BY <2>0, <2>3, <3>1 DEF RecordVerdict, RequestRecord, Labels, Verdict, ActiveBesides
  <2>4. CASE Retry(q)
    <3>1. RequestsTypeOK'
      BY <2>4, EndsTypeOK, GotoTypeOK DEF Retry, Labels
    <3> QED
      BY <2>0, <2>4, <3>1 DEF Retry, RequestRecord, Labels, Verdict, ActiveBesides
  <2>5. CASE RetryStart(q)
    <3>0. /\ request[q].version \in Versions
          /\ request[q].status \in Status
          /\ runs[request[q].version] + 1 \in Nat
      BY <2>0, <2>5 DEF RetryStart, Labels, RequestsTypeOK
    <3>1. RequestsTypeOK'
      BY <2>0, <2>5, <3>0, StartTypeOK DEF RetryStart
    <3> QED
      BY <2>0, <2>5, <3>1 DEF RetryStart, RequestRecord, Labels, Verdict, ActiveBesides
  <2>6. CASE RetryAttach(q)
    <3>1. RequestsTypeOK'
      BY <2>6, EndsTypeOK DEF RetryAttach
    <3> QED
      BY <2>0, <2>6, <3>1 DEF RetryAttach, RequestRecord, Labels, Verdict, ActiveBesides
  <2>7. CASE RequestCancel(q)
    <3>1. RequestsTypeOK'
      BY <2>7, GotoTypeOK DEF RequestCancel, Labels
    <3> QED
      BY <2>0, <2>7, <3>1 DEF RequestCancel, RequestRecord, Labels, Verdict, ActiveBesides
  <2>8. CASE RecordCancel(q)
    <3>1. RequestsTypeOK'
      BY <2>8, EndsTypeOK, GotoTypeOK DEF RecordCancel, Labels
    <3> QED
      BY <2>0, <2>8, <3>1 DEF RecordCancel, RequestRecord, Labels, Verdict, ActiveBesides
  <2>9. CASE ActivateChoose(q)
    <3>1. RequestsTypeOK'
      BY <2>9, EndsTypeOK, GotoTypeOK DEF ActivateChoose, Labels
    <3> QED
      BY <2>0, <2>9, <3>1 DEF ActivateChoose, RequestRecord, Labels, Verdict, ActiveBesides
  <2>10. CASE ActivateCommit(q)
    <3>1. RequestsTypeOK'
      BY <2>10, GotoTypeOK DEF ActivateCommit, Labels
    <3> QED
      BY <2>0, <2>10, <3>1 DEF ActivateCommit, RequestRecord, Labels, Verdict, ActiveBesides
  <2>11. CASE ActivateServed(q)
    <3>1. RequestsTypeOK'
      BY <2>11, EndsTypeOK DEF ActivateServed
    <3> QED
      BY <2>0, <2>11, <3>1 DEF ActivateServed, RequestRecord, Labels, Verdict, ActiveBesides
  <2>12. CASE Fail(q)
    <3>1. RequestsTypeOK'
      BY <2>12, EndsTypeOK DEF Fail
    <3> QED
      BY <2>0, <2>12, <3>1 DEF Fail, RequestRecord, Labels, Verdict, ActiveBesides
  <2> QED
    BY <1>6, <2>1, <2>2, <2>3, <2>4, <2>5, <2>6, <2>7, <2>8, <2>9, <2>10, <2>11, <2>12 DEF RequestNext
<1>7. CASE UNCHANGED publishingVars
  BY <1>7, KeptTypeOK DEF publishingVars
<1> QED
  BY <1>1, <1>2, <1>3, <1>4, <1>5, <1>6, <1>7 DEF Next

\* What the partial unique index keeps: a committed row or a pending one, one in all.
LEMMA NextOneInFlight == TypeOK /\ InFlightOK /\ [Next]_publishingVars => InFlightOK'
<1> SUFFICES ASSUME TypeOK, InFlightOK, [Next]_publishingVars PROVE InFlightOK'
  OBVIOUS
<1> USE DEF InFlightOK, TypeOK, RequestsTypeOK, RequestRecord, Labels, Status, BackToReview, OneInFlight, PendingAlone, OthersInFlight, InFlight, rowVars, runVars, attemptVars, liveVars, CreatingAt, StartRun, At, Reports, ReportsFrom, AttemptEnds, Activated, IndexFree, IndexWaits
<1>1. ASSUME NEW v \in Versions, CreateNext(v) PROVE InFlightOK'
  <2>1. CASE CreateCheck(v)
    BY <2>1 DEF CreateCheck
  <2>2. CASE CreateInsert(v)
    BY <2>2 DEF CreateInsert
  <2>3. CASE CreateCommit(v)
    BY <2>3 DEF CreateCommit
  <2>4. CASE CreateStart(v)
    BY <2>4 DEF CreateStart
  <2>5. CASE CreateAttach(v)
    BY <2>5 DEF CreateAttach
  <2>6. CASE CreateFailed(v)
    BY <2>6 DEF CreateFailed
  <2>7. CASE CreateDies(v)
    BY <2>7 DEF CreateDies
  <2> QED
    BY <1>1, <2>1, <2>2, <2>3, <2>4, <2>5, <2>6, <2>7 DEF CreateNext
<1>2. ASSUME NEW v \in Versions, WorkerStep(v) PROVE InFlightOK'
  <2>1. CASE PreflightBegin(v)
    BY <2>1 DEF PreflightBegin
  <2>2. CASE PreflightEnd(v)
    BY <2>2 DEF PreflightEnd
  <2>3. CASE Wake(v)
    BY <2>3 DEF Wake
  <2>4. CASE MarkRejected(v)
    BY <2>4 DEF MarkRejected
  <2>5. CASE MarkPublishing(v)
    BY <2>5 DEF MarkPublishing
  <2>6. CASE ExtractBegin(v)
    BY <2>6 DEF ExtractBegin
  <2>7. CASE ExtractEnd(v)
    BY <2>7 DEF ExtractEnd
  <2>8. CASE BudgetGate(v)
    BY <2>8 DEF BudgetGate
  <2>9. CASE ContentStage(v)
    BY <2>9 DEF ContentStage
  <2>10. CASE IndexDelete(v)
    BY <2>10 DEF IndexDelete
  <2>11. CASE IndexUpsert(v)
    BY <2>11 DEF IndexUpsert
  <2>12. CASE FinalizeFlush(v)
    BY <2>12 DEF FinalizeFlush
  <2>13. CASE FinalizeServed(v)
    BY <2>13 DEF FinalizeServed
  <2>14. CASE FinalizeChoose(v)
    BY <2>14 DEF FinalizeChoose
  <2>15. CASE FinalizeCommit(v)
    BY <2>15 DEF FinalizeCommit
  <2>16. CASE Cancel(v)
    BY <2>16 DEF Cancel
  <2>17. CASE MarkFailed(v)
    BY <2>17 DEF MarkFailed
  <2> QED
    BY <1>2, <2>1, <2>2, <2>3, <2>4, <2>5, <2>6, <2>7, <2>8, <2>9, <2>10, <2>11, <2>12, <2>13, <2>14, <2>15, <2>16, <2>17 DEF WorkerStep
<1>3. ASSUME NEW v \in Versions, WorkerFault(v) PROVE InFlightOK'
  <2>1. CASE FinalizeFailed(v)
    BY <2>1 DEF FinalizeFailed
  <2>2. CASE AttemptDies(v)
    BY <2>2 DEF AttemptDies
  <2> QED
    BY <1>3, <2>1, <2>2 DEF WorkerFault
<1>4. ASSUME NEW v \in Versions, ServeLate(v) PROVE InFlightOK'
  BY <1>4 DEF ServeLate
<1>5. ASSUME NEW v \in Versions, CleanUp(v) PROVE InFlightOK'
  BY <1>5 DEF CleanUp
<1>6. ASSUME NEW q \in Requests, RequestNext(q) PROVE InFlightOK'
  <2>0. request[q] \in RequestRecord /\ (request[q].at \in Labels => request[q].version \in Versions)
    BY DEF TypeOK, RequestsTypeOK
  <2>1. CASE Receive(q)
    BY <2>1 DEF Receive
  <2>2. CASE Signal(q)
    BY <2>2 DEF Signal
  <2>3. CASE RecordVerdict(q)
    BY <2>3 DEF RecordVerdict
  <2>4. CASE Retry(q)
    <3>1. CASE status[request[q].version] # "FAILED"
      BY <2>0, <2>4, <3>1 DEF Retry
    <3>2. CASE ~(status[request[q].version] # "FAILED")
      BY <2>0, <2>4, <3>2 DEF Retry
    <3> QED
      BY <3>1, <3>2
  <2>5. CASE RetryStart(q)
    BY <2>5 DEF RetryStart
  <2>6. CASE RetryAttach(q)
    BY <2>6 DEF RetryAttach
  <2>7. CASE RequestCancel(q)
    BY <2>7 DEF RequestCancel
  <2>8. CASE RecordCancel(q)
    <3>1. CASE request[q].status \notin InFlight
      BY <2>0, <2>8, <3>1 DEF RecordCancel
    <3>2. CASE ~(request[q].status \notin InFlight)
      BY <2>0, <2>8, <3>2 DEF RecordCancel
    <3> QED
      BY <3>1, <3>2
  <2>9. CASE ActivateChoose(q)
    BY <2>9 DEF ActivateChoose
  <2>10. CASE ActivateCommit(q)
    BY <2>10 DEF ActivateCommit
  <2>11. CASE ActivateServed(q)
    BY <2>11 DEF ActivateServed
  <2>12. CASE Fail(q)
    BY <2>12 DEF Fail
  <2> QED
    BY <1>6, <2>1, <2>2, <2>3, <2>4, <2>5, <2>6, <2>7, <2>8, <2>9, <2>10, <2>11, <2>12 DEF RequestNext
<1>7. CASE UNCHANGED publishingVars
  BY <1>7 DEF publishingVars
<1> QED
  BY <1>1, <1>2, <1>3, <1>4, <1>5, <1>6, <1>7 DEF Next

\* A version is served before its rows are written, and its event with them.
LEMMA NextServed == TypeOK /\ ServedOK /\ [Next]_publishingVars => ServedOK'
<1> SUFFICES ASSUME TypeOK, ServedOK, [Next]_publishingVars PROVE ServedOK'
  OBVIOUS
<1> USE DEF ServedOK, TypeOK, AnnouncedWasServed, ServedBeforeChosen, Finalizing, rowVars, runVars, attemptVars, liveVars, Attempt, AttemptEnds
<1>1. ASSUME NEW v \in Versions, CreateNext(v) PROVE ServedOK'
  <2>1. CASE CreateCheck(v)
    BY <2>1 DEF CreateCheck
  <2>2. CASE CreateInsert(v)
    BY <2>2 DEF CreateInsert
  <2>3. CASE CreateCommit(v)
    BY <2>3 DEF CreateCommit
  <2>4. CASE CreateStart(v)
    BY <2>4 DEF CreateStart
  <2>5. CASE CreateAttach(v)
    BY <2>5 DEF CreateAttach
  <2>6. CASE CreateFailed(v)
    BY <2>6 DEF CreateFailed
  <2>7. CASE CreateDies(v)
    BY <2>7 DEF CreateDies
  <2> QED
    BY <1>1, <2>1, <2>2, <2>3, <2>4, <2>5, <2>6, <2>7 DEF CreateNext
<1>2. ASSUME NEW v \in Versions, WorkerStep(v) PROVE ServedOK'
  <2>1. CASE PreflightBegin(v)
    BY <2>1 DEF PreflightBegin
  <2>2. CASE PreflightEnd(v)
    BY <2>2 DEF PreflightEnd
  <2>3. CASE Wake(v)
    BY <2>3 DEF Wake
  <2>4. CASE MarkRejected(v)
    BY <2>4 DEF MarkRejected
  <2>5. CASE MarkPublishing(v)
    BY <2>5 DEF MarkPublishing
  <2>6. CASE ExtractBegin(v)
    BY <2>6 DEF ExtractBegin
  <2>7. CASE ExtractEnd(v)
    BY <2>7 DEF ExtractEnd
  <2>8. CASE BudgetGate(v)
    BY <2>8 DEF BudgetGate
  <2>9. CASE ContentStage(v)
    BY <2>9 DEF ContentStage
  <2>10. CASE IndexDelete(v)
    BY <2>10 DEF IndexDelete
  <2>11. CASE IndexUpsert(v)
    BY <2>11 DEF IndexUpsert
  <2>12. CASE FinalizeFlush(v)
    BY <2>12 DEF FinalizeFlush
  <2>13. CASE FinalizeServed(v)
    BY <2>13 DEF FinalizeServed
  <2>14. CASE FinalizeChoose(v)
    BY <2>14 DEF FinalizeChoose
  <2>15. CASE FinalizeCommit(v)
    BY <2>15 DEF FinalizeCommit
  <2>16. CASE Cancel(v)
    BY <2>16 DEF Cancel
  <2>17. CASE MarkFailed(v)
    BY <2>17 DEF MarkFailed
  <2> QED
    BY <1>2, <2>1, <2>2, <2>3, <2>4, <2>5, <2>6, <2>7, <2>8, <2>9, <2>10, <2>11, <2>12, <2>13, <2>14, <2>15, <2>16, <2>17 DEF WorkerStep
<1>3. ASSUME NEW v \in Versions, WorkerFault(v) PROVE ServedOK'
  <2>1. CASE FinalizeFailed(v)
    BY <2>1 DEF FinalizeFailed
  <2>2. CASE AttemptDies(v)
    BY <2>2 DEF AttemptDies
  <2> QED
    BY <1>3, <2>1, <2>2 DEF WorkerFault
<1>4. ASSUME NEW v \in Versions, ServeLate(v) PROVE ServedOK'
  BY <1>4 DEF ServeLate
<1>5. ASSUME NEW v \in Versions, CleanUp(v) PROVE ServedOK'
  BY <1>5 DEF CleanUp
<1>6. ASSUME NEW q \in Requests, RequestNext(q) PROVE ServedOK'
  <2>1. CASE Receive(q)
    BY <2>1 DEF Receive
  <2>2. CASE Signal(q)
    BY <2>2 DEF Signal
  <2>3. CASE RecordVerdict(q)
    BY <2>3 DEF RecordVerdict
  <2>4. CASE Retry(q)
    BY <2>4 DEF Retry
  <2>5. CASE RetryStart(q)
    BY <2>5 DEF RetryStart
  <2>6. CASE RetryAttach(q)
    BY <2>6 DEF RetryAttach
  <2>7. CASE RequestCancel(q)
    BY <2>7 DEF RequestCancel
  <2>8. CASE RecordCancel(q)
    BY <2>8 DEF RecordCancel
  <2>9. CASE ActivateChoose(q)
    BY <2>9 DEF ActivateChoose
  <2>10. CASE ActivateCommit(q)
    BY <2>10 DEF ActivateCommit
  <2>11. CASE ActivateServed(q)
    BY <2>11 DEF ActivateServed
  <2>12. CASE Fail(q)
    BY <2>12 DEF Fail
  <2> QED
    BY <1>6, <2>1, <2>2, <2>3, <2>4, <2>5, <2>6, <2>7, <2>8, <2>9, <2>10, <2>11, <2>12 DEF RequestNext
<1>7. CASE UNCHANGED publishingVars
  BY <1>7 DEF publishingVars
<1> QED
  BY <1>1, <1>2, <1>3, <1>4, <1>5, <1>6, <1>7 DEF Next

\* The approve signal precedes the rest of the way, in whatever order the rows, the run and the requests move.
LEMMA NextApproved == TypeOK /\ ApprovalOK /\ [Next]_publishingVars => ApprovalOK'
<1> SUFFICES ASSUME TypeOK, ApprovalOK, [Next]_publishingVars PROVE ApprovalOK'
  OBVIOUS
<1> USE DEF ApprovalOK, BackToReview, TypeOK, RequestsTypeOK, RequestRecord, Labels, NothingPublishedUnapproved, ApprovalComesFirst, Approving, Finalizing, Status, InFlight, rowVars, runVars, attemptVars, liveVars, StartRun, At, Reports, ReportsFrom, Attempt, AttemptEnds, Goto, Ends, Idle, Activated, ActiveBesides
<1>1. ASSUME NEW v \in Versions, CreateNext(v) PROVE ApprovalOK'
  <2>1. CASE CreateCheck(v)
    BY <2>1 DEF CreateCheck
  <2>2. CASE CreateInsert(v)
    BY <2>2 DEF CreateInsert
  <2>3. CASE CreateCommit(v)
    BY <2>3 DEF CreateCommit
  <2>4. CASE CreateStart(v)
    BY <2>4 DEF CreateStart
  <2>5. CASE CreateAttach(v)
    BY <2>5 DEF CreateAttach
  <2>6. CASE CreateFailed(v)
    BY <2>6 DEF CreateFailed
  <2>7. CASE CreateDies(v)
    BY <2>7 DEF CreateDies
  <2> QED
    BY <1>1, <2>1, <2>2, <2>3, <2>4, <2>5, <2>6, <2>7 DEF CreateNext
<1>2. ASSUME NEW v \in Versions, WorkerStep(v) PROVE ApprovalOK'
  <2>1. CASE PreflightBegin(v)
    BY <2>1 DEF PreflightBegin
  <2>2. CASE PreflightEnd(v)
    BY <2>2 DEF PreflightEnd
  <2>3. CASE Wake(v)
    BY <2>3 DEF Wake
  <2>4. CASE MarkRejected(v)
    BY <2>4 DEF MarkRejected
  <2>5. CASE MarkPublishing(v)
    BY <2>5 DEF MarkPublishing
  <2>6. CASE ExtractBegin(v)
    BY <2>6 DEF ExtractBegin
  <2>7. CASE ExtractEnd(v)
    BY <2>7 DEF ExtractEnd
  <2>8. CASE BudgetGate(v)
    BY <2>8 DEF BudgetGate
  <2>9. CASE ContentStage(v)
    BY <2>9 DEF ContentStage
  <2>10. CASE IndexDelete(v)
    BY <2>10 DEF IndexDelete
  <2>11. CASE IndexUpsert(v)
    BY <2>11 DEF IndexUpsert
  <2>12. CASE FinalizeFlush(v)
    BY <2>12 DEF FinalizeFlush
  <2>13. CASE FinalizeServed(v)
    BY <2>13 DEF FinalizeServed
  <2>14. CASE FinalizeChoose(v)
    BY <2>14 DEF FinalizeChoose
  <2>15. CASE FinalizeCommit(v)
    BY <2>15 DEF FinalizeCommit
  <2>16. CASE Cancel(v)
    BY <2>16 DEF Cancel
  <2>17. CASE MarkFailed(v)
    BY <2>17 DEF MarkFailed
  <2> QED
    BY <1>2, <2>1, <2>2, <2>3, <2>4, <2>5, <2>6, <2>7, <2>8, <2>9, <2>10, <2>11, <2>12, <2>13, <2>14, <2>15, <2>16, <2>17 DEF WorkerStep
<1>3. ASSUME NEW v \in Versions, WorkerFault(v) PROVE ApprovalOK'
  <2>1. CASE FinalizeFailed(v)
    BY <2>1 DEF FinalizeFailed
  <2>2. CASE AttemptDies(v)
    BY <2>2 DEF AttemptDies
  <2> QED
    BY <1>3, <2>1, <2>2 DEF WorkerFault
<1>4. ASSUME NEW v \in Versions, ServeLate(v) PROVE ApprovalOK'
  BY <1>4 DEF ServeLate
<1>5. ASSUME NEW v \in Versions, CleanUp(v) PROVE ApprovalOK'
  BY <1>5 DEF CleanUp
<1>6. ASSUME NEW q \in Requests, RequestNext(q) PROVE ApprovalOK'
  <2>0. request[q] \in RequestRecord /\ (request[q].at \in Labels => request[q].version \in Versions)
    BY DEF TypeOK, RequestsTypeOK
  <2>1. CASE Receive(q)
    BY <2>1 DEF Receive
  <2>2. CASE Signal(q)
    BY <2>2 DEF Signal
  <2>3. CASE RecordVerdict(q)
    <3>1. \A p \in Requests : request'[p].at \in {"chosen", "calling"} => request'[p] = request[p]
      BY <2>3 DEF RecordVerdict
    <3>2. UNCHANGED <<status, decision, run, attempt, late, served, approved, chosen>>
      BY <2>3 DEF RecordVerdict
    <3> QED
      BY <3>1, <3>2
  <2>4. CASE Retry(q)
    <3>1. \A p \in Requests : request'[p].at \in {"chosen", "calling"} => request'[p] = request[p]
      BY <2>4 DEF Retry
    <3>2. UNCHANGED <<decision, run, attempt, late, served, approved, chosen>>
      BY <2>4 DEF Retry
    <3>3. \A v \in Versions : status'[v] \in {status[v], "PREPARING"}
      BY <2>4 DEF Retry
    <3>4. NothingPublishedUnapproved'
      BY <3>2, <3>3
    <3>5. ApprovalComesFirst'
      BY <3>1, <3>2
    <3> QED
      BY <3>4, <3>5
  <2>5. CASE RetryStart(q)
    BY <2>5 DEF RetryStart
  <2>6. CASE RetryAttach(q)
    BY <2>6 DEF RetryAttach
  <2>7. CASE RequestCancel(q)
    BY <2>7 DEF RequestCancel
  <2>8. CASE RecordCancel(q)
    BY <2>8 DEF RecordCancel
  <2>9. CASE ActivateChoose(q)
    <3>1. CASE status[request[q].version] # "READY" \/ Cardinality(ActiveBesides(request[q].version)) > 1
      <4>1. /\ request' = [request EXCEPT ![q] = [Idle EXCEPT !.at = "over"]]
            /\ UNCHANGED <<status, decision, run, attempt, late, served, approved, chosen>>
        BY <2>9, <3>1 DEF ActivateChoose
      <4>2. \A p \in Requests : request'[p].at \in {"chosen", "calling"} => request'[p] = request[p]
        BY <4>1
      <4> QED
        BY <4>1, <4>2
    <3>2. CASE ~(status[request[q].version] # "READY" \/ Cardinality(ActiveBesides(request[q].version)) > 1)
      <4>1. chosen' = [chosen EXCEPT ![q] = ActiveBesides(request[q].version)]
        BY <2>9, <3>2 DEF ActivateChoose
      <4>2. request' = [request EXCEPT ![q].at = "chosen"]
        BY <2>9, <3>2 DEF ActivateChoose
      <4>3. UNCHANGED <<status, decision, run, attempt, late, served, approved>>
        BY <2>9 DEF ActivateChoose
      <4>4. request[q].version \in approved /\ ActiveBesides(request[q].version) \subseteq approved
        BY <2>0, <2>9, <3>2 DEF ActivateChoose
      <4>5. \A a \in Versions \cup Requests : chosen'[a] \subseteq approved
        BY <4>1, <4>4
      <4>6. \A p \in Requests : request'[p].at \in {"chosen", "calling"} => request'[p].version \in approved
        BY <4>2, <4>4
      <4> QED
        BY <4>3, <4>5, <4>6
    <3> QED
      BY <3>1, <3>2
  <2>10. CASE ActivateCommit(q)
    BY <2>10 DEF ActivateCommit
  <2>11. CASE ActivateServed(q)
    BY <2>11 DEF ActivateServed
  <2>12. CASE Fail(q)
    BY <2>12 DEF Fail
  <2> QED
    BY <1>6, <2>1, <2>2, <2>3, <2>4, <2>5, <2>6, <2>7, <2>8, <2>9, <2>10, <2>11, <2>12 DEF RequestNext
<1>7. CASE UNCHANGED publishingVars
  BY <1>7 DEF publishingVars
<1> QED
  BY <1>1, <1>2, <1>3, <1>4, <1>5, <1>6, <1>7 DEF Next

\* The invariant is inductive.
LEMMA NextIndInv == IndInv /\ [Next]_publishingVars => IndInv'
  BY NextTypeOK, NextOneInFlight, NextServed, NextApproved DEF IndInv, InFlightOK, ServedOK, ApprovalOK

\* Every reachable state of every instance satisfies the inductive invariant.
THEOREM SpecIndInv == Spec => []IndInv
  BY InitIndInv, NextIndInv, PTL DEF Spec

\* Every variable stays in its set.
THEOREM SpecTypeOK == Spec => []TypeOK
<1>1. IndInv => TypeOK
  BY DEF IndInv
<1> QED
  BY <1>1, SpecIndInv, PTL

\* create_version, prepare_retry, the activities' writes of PREPARING,
\* REVIEW_REQUIRED and PUBLISHING: never two versions of the course in flight.
THEOREM SpecOneInFlight == Spec => []OneInFlight
<1>1. IndInv => OneInFlight
  BY DEF IndInv
<1> QED
  BY <1>1, SpecIndInv, PTL

\* finalize_version: no CoursePublished event without a served activation,
\* however often the activity is executed.
THEOREM SpecAnnouncedWasServed == Spec => []AnnouncedWasServed
<1>1. IndInv => AnnouncedWasServed
  BY DEF IndInv
<1> QED
  BY <1>1, SpecIndInv, PTL

\* No version is published, live or superseded whose workflow got no approve
\* signal, whatever was cancelled, retried or executed twice.
THEOREM SpecNothingPublishedUnapproved == Spec => []NothingPublishedUnapproved
<1>1. IndInv => NothingPublishedUnapproved
  BY DEF IndInv
<1> QED
  BY <1>1, SpecIndInv, PTL

-----------------------------------------------------------------------------
(* Where the vectors of a version are. *)

\* Where a run may be while an attempt of another stage is under way: it has gone on to
\* fail, it has ended, or it is the next one and waits to begin.
Elsewhere == {"preflight", "failing", "closed"}

\* An attempt belongs to the stage it was made for, or has outlived its run there.
AttemptsInStage(v) ==
  /\ attempt[v] \in Finalizing => run[v] \in {"finalize"} \cup Elsewhere
  /\ attempt[v] = "indexing" => run[v] \in {"index"} \cup Elsewhere
  /\ attempt[v] = "extracting" => run[v] \in {"extract"} \cup Elsewhere
  /\ attempt[v] = "reviewing" => run[v] \in Elsewhere

\* A version that is READY is in no run that is on its way to index it.
ReadyIsBeyond(v) ==
  /\ status[v] = "READY" => run[v] \in {"finalize"} \cup Elsewhere
  /\ attempt[v] = "reviewing" /\ loaded[v] = "REVIEW_REQUIRED" => status[v] # "READY"

\* From the upsert on the vectors are there, whichever attempts are made again.
VectorsStay(v) ==
  \/ run[v] \in {"quality", "finalize"}
  \/ attempt[v] \in Finalizing
  \/ status[v] = "READY"
  => v \in points

IndexedOK == \A v \in Versions : AttemptsInStage(v) /\ ReadyIsBeyond(v) /\ VectorsStay(v)

\* The vectors of a version are there from its upsert on.
LEMMA NextIndexed == TypeOK /\ IndexedOK /\ [Next]_publishingVars => IndexedOK'
<1> SUFFICES ASSUME TypeOK, IndexedOK, [Next]_publishingVars PROVE IndexedOK'
  OBVIOUS
<1> USE DEF IndexedOK, TypeOK, RequestsTypeOK, RequestRecord, Labels, AttemptsInStage, ReadyIsBeyond, VectorsStay, Elsewhere, Finalizing, Stages, Status, InFlight, BackToReview, rowVars, runVars, attemptVars, liveVars, StartRun, At, Reports, ReportsFrom, Attempt, AttemptEnds, Open, RowFree, Activated
<1>1. ASSUME NEW v \in Versions, CreateNext(v) PROVE IndexedOK'
  <2>1. CASE CreateCheck(v)
    BY <2>1 DEF CreateCheck
  <2>2. CASE CreateInsert(v)
    BY <2>2 DEF CreateInsert
  <2>3. CASE CreateCommit(v)
    BY <2>3 DEF CreateCommit
  <2>4. CASE CreateStart(v)
    BY <2>4 DEF CreateStart
  <2>5. CASE CreateAttach(v)
    BY <2>5 DEF CreateAttach
  <2>6. CASE CreateFailed(v)
    BY <2>6 DEF CreateFailed
  <2>7. CASE CreateDies(v)
    BY <2>7 DEF CreateDies
  <2> QED
    BY <1>1, <2>1, <2>2, <2>3, <2>4, <2>5, <2>6, <2>7 DEF CreateNext
<1>2. ASSUME NEW v \in Versions, WorkerStep(v) PROVE IndexedOK'
  <2>1. CASE PreflightBegin(v)
    BY <2>1 DEF PreflightBegin
  <2>2. CASE PreflightEnd(v)
    BY <2>2 DEF PreflightEnd
  <2>3. CASE Wake(v)
    BY <2>3 DEF Wake
  <2>4. CASE MarkRejected(v)
    BY <2>4 DEF MarkRejected
  <2>5. CASE MarkPublishing(v)
    BY <2>5 DEF MarkPublishing
  <2>6. CASE ExtractBegin(v)
    BY <2>6 DEF ExtractBegin
  <2>7. CASE ExtractEnd(v)
    BY <2>7 DEF ExtractEnd
  <2>8. CASE BudgetGate(v)
    BY <2>8 DEF BudgetGate
  <2>9. CASE ContentStage(v)
    BY <2>9 DEF ContentStage
  <2>10. CASE IndexDelete(v)
    BY <2>10 DEF IndexDelete
  <2>11. CASE IndexUpsert(v)
    BY <2>11 DEF IndexUpsert
  <2>12. CASE FinalizeFlush(v)
    BY <2>12 DEF FinalizeFlush
  <2>13. CASE FinalizeServed(v)
    BY <2>13 DEF FinalizeServed
  <2>14. CASE FinalizeChoose(v)
    BY <2>14 DEF FinalizeChoose
  <2>15. CASE FinalizeCommit(v)
    BY <2>15 DEF FinalizeCommit
  <2>16. CASE Cancel(v)
    BY <2>16 DEF Cancel
  <2>17. CASE MarkFailed(v)
    BY <2>17 DEF MarkFailed
  <2> QED
    BY <1>2, <2>1, <2>2, <2>3, <2>4, <2>5, <2>6, <2>7, <2>8, <2>9, <2>10, <2>11, <2>12, <2>13, <2>14, <2>15, <2>16, <2>17 DEF WorkerStep
<1>3. ASSUME NEW v \in Versions, WorkerFault(v) PROVE IndexedOK'
  <2>1. CASE FinalizeFailed(v)
    BY <2>1 DEF FinalizeFailed
  <2>2. CASE AttemptDies(v)
    BY <2>2 DEF AttemptDies
  <2> QED
    BY <1>3, <2>1, <2>2 DEF WorkerFault
<1>4. ASSUME NEW v \in Versions, ServeLate(v) PROVE IndexedOK'
  BY <1>4 DEF ServeLate
<1>5. ASSUME NEW v \in Versions, CleanUp(v) PROVE IndexedOK'
  BY <1>5 DEF CleanUp
<1>6. ASSUME NEW q \in Requests, RequestNext(q) PROVE IndexedOK'
  <2>1. CASE Receive(q)
    BY <2>1 DEF Receive
  <2>2. CASE Signal(q)
    BY <2>2 DEF Signal
  <2>3. CASE RecordVerdict(q)
    BY <2>3 DEF RecordVerdict
  <2>4. CASE Retry(q)
    BY <2>4 DEF Retry
  <2>5. CASE RetryStart(q)
    BY <2>5 DEF RetryStart
  <2>6. CASE RetryAttach(q)
    BY <2>6 DEF RetryAttach
  <2>7. CASE RequestCancel(q)
    BY <2>7 DEF RequestCancel
  <2>8. CASE RecordCancel(q)
    BY <2>8 DEF RecordCancel
  <2>9. CASE ActivateChoose(q)
    BY <2>9 DEF ActivateChoose
  <2>10. CASE ActivateCommit(q)
    BY <2>10 DEF ActivateCommit
  <2>11. CASE ActivateServed(q)
    BY <2>11 DEF ActivateServed
  <2>12. CASE Fail(q)
    BY <2>12 DEF Fail
  <2> QED
    BY <1>6, <2>1, <2>2, <2>3, <2>4, <2>5, <2>6, <2>7, <2>8, <2>9, <2>10, <2>11, <2>12 DEF RequestNext
<1>7. CASE UNCHANGED publishingVars
  BY <1>7 DEF publishingVars
<1> QED
  BY <1>1, <1>2, <1>3, <1>4, <1>5, <1>6, <1>7 DEF Next

\* Nothing is indexed, and no version is READY, before the first is created.
LEMMA InitIndexed == Init => IndexedOK
  BY DEF Init, IndexedOK, AttemptsInStage, ReadyIsBeyond, VectorsStay, Finalizing

\* The vectors of every version that is READY are in the collection.
THEOREM SpecIndexedOK == Spec => []IndexedOK
  BY InitIndexed, NextIndexed, SpecTypeOK, PTL DEF Spec

\* upsert_version_safe deletes before it upserts, an activity is executed again, a run is
\* cancelled and started anew, a clean-up deletes: semantic search never offers a version,
\* current, READY and activated, whose vectors are gone.
THEOREM SpecSearchableIsIndexed == Spec => []SearchableIsIndexed
<1>1. IndexedOK => SearchableIsIndexed
  BY DEF IndexedOK, VectorsStay, SearchableIsIndexed
<1> QED
  BY <1>1, SpecIndexedOK, PTL

-----------------------------------------------------------------------------
(* Refinement *)

\* Before a version is created nothing has happened.
LEMMA LifeInit == Init => Life!Init
  BY DEF Init, Life!Init, PlaceOf, InFlight

\* A step that touches neither the rows' status nor what students get is a stutter.
LEMMA LifeStutters ==
  ASSUME UNCHANGED <<status, approved, points, current, served, announced>>
  PROVE  UNCHANGED Life!lifeVars
BY DEF Life!lifeVars

\* A write of one row that leaves the live course alone begins the version's way, if no
\* other is on it, or drops the version.
LEMMA LifeWrites ==
  ASSUME TypeOK, NEW v \in Versions, NEW s \in InFlight \cup {"FAILED", "CANCELLED"},
         status' = [status EXCEPT ![v] = s], s \in InFlight => OthersInFlight(v) = {},
         UNCHANGED <<approved, points, current, served, announced>>
  PROVE  Life!Next
<1> USE DEF TypeOK
<1>1. [u \in Versions |-> PlaceOf(status[u])]' =
        [[u \in Versions |-> PlaceOf(status[u])] EXCEPT ![v] = PlaceOf(s)]
  OBVIOUS
<1>2. CASE s \in InFlight
  <2>1. PlaceOf(s) = "flight"
    BY <1>2 DEF PlaceOf, InFlight
  <2>2. \A u \in Versions \ {v} : PlaceOf(status[u]) # "flight"
    BY <1>2 DEF PlaceOf, OthersInFlight, InFlight, Status
  <2> QED
    BY <1>1, <2>1, <2>2 DEF Life!Next, Life!Begin
<1>3. CASE s \notin InFlight
  <2>1. PlaceOf(s) = "out"
    BY <1>3 DEF PlaceOf, InFlight
  <2> QED
    BY <1>1, <2>1 DEF Life!Next, Life!Drop
<1> QED
  BY <1>2, <1>3

\* Making a version current that was approved is what students see of an activation.
LEMMA LifeServes ==
  ASSUME NEW v \in approved \cap Versions, current' = v, served' = served \cup {v},
         UNCHANGED <<status, approved, points, announced>>
  PROVE  Life!Next
BY DEF Life!Next, Life!Serve

\* Creation begins a version's way; the index keeps others off it.
LEMMA LifeCreates ==
  ASSUME IndInv, NEW v \in Versions, CreateNext(v)
  PROVE  Life!Next \/ UNCHANGED Life!lifeVars
<1> USE DEF IndInv, liveVars, rowVars
<1>1. CASE CreateCommit(v)
  BY <1>1, LifeWrites DEF CreateCommit, PendingAlone, InFlight
<1>2. CASE CreateFailed(v)
  BY <1>2, LifeWrites DEF CreateFailed, InFlight
<1>3. CASE ~CreateCommit(v) /\ ~CreateFailed(v)
  BY <1>3, LifeStutters DEF CreateNext, CreateCheck, CreateInsert, CreateStart, CreateAttach, CreateDies
<1> QED
  BY <1>1, <1>2, <1>3

\* What an attempt finalizes was approved, indexed and, when it commits, served.
LEMMA LifeFinalizes ==
  ASSUME IndInv, IndexedOK, NEW v \in Versions, FinalizeCommit(v) \/ FinalizeFailed(v)
  PROVE  Life!Next
<1> USE DEF IndInv, TypeOK
<1>1. v \in approved \cap points
  BY DEF FinalizeCommit, FinalizeFailed, ApprovalComesFirst, IndexedOK, VectorsStay, Finalizing
<1>2. PlaceOf("READY") = "ready" /\ PlaceOf("SUPERSEDED") = "superseded"
  BY DEF PlaceOf, InFlight
<1>3. CASE FinalizeFailed(v)
  <2>1. [u \in Versions |-> PlaceOf(status[u])]' =
          [[u \in Versions |-> PlaceOf(status[u])] EXCEPT ![v] = "ready"]
    BY <1>2, <1>3 DEF FinalizeFailed
  <2> QED
    BY <1>1, <1>3, <2>1 DEF FinalizeFailed, Life!Next, Life!Finish
<1>4. CASE FinalizeCommit(v)
  <2> DEFINE previous == chosen[v] \ {v}
  <2>1. v \in served /\ previous \subseteq approved \ {v} /\ previous \in SUBSET Versions
    BY <1>4 DEF FinalizeCommit, ServedBeforeChosen, ApprovalComesFirst
  <2>2. [u \in Versions |-> PlaceOf(status[u])]' =
          [u \in Versions |-> IF u = v THEN "ready" ELSE IF u \in previous THEN "superseded"
                              ELSE [w \in Versions |-> PlaceOf(status[w])][u]]
    BY <1>2, <1>4 DEF FinalizeCommit, Activated
  <2>3. Life!Publish(v, previous)
    BY <1>1, <1>4, <2>1, <2>2 DEF FinalizeCommit, Life!Publish
  <2> QED
    BY <2>1, <2>3 DEF Life!Next
<1> QED
  BY <1>3, <1>4

\* What the worker does for a run is a step of its version or a stutter, whichever
\* attempt of whichever run does it.
LEMMA LifeWorks ==
  ASSUME IndInv, IndexedOK, NEW v \in Versions, WorkerStep(v) \/ WorkerFault(v)
  PROVE  Life!Next \/ UNCHANGED Life!lifeVars
<1> USE DEF IndInv, liveVars, rowVars
<1>1. CASE PreflightEnd(v) \/ BudgetGate(v)
  <2>1. CASE UNCHANGED status
    BY <1>1, <2>1, LifeStutters DEF PreflightEnd, BudgetGate
  <2>2. CASE ~UNCHANGED status
    BY <1>1, <2>2, LifeWrites DEF PreflightEnd, BudgetGate, BackToReview, IndexFree, InFlight
  <2> QED
    BY <2>1, <2>2
<1>2. CASE MarkRejected(v) \/ MarkFailed(v)
  BY <1>2, LifeWrites DEF MarkRejected, MarkFailed, InFlight
<1>3. CASE MarkPublishing(v)
  BY <1>3, LifeWrites DEF MarkPublishing, IndexFree, InFlight
<1>4. CASE IndexDelete(v)
  <2>1. status[v] # "READY" /\ status[v] \in Status \cup {"ABSENT"}
    BY <1>4 DEF IndexDelete, IndexedOK, ReadyIsBeyond, Elsewhere, TypeOK
  <2>2. PlaceOf(status[v]) # "ready"
    BY <2>1 DEF PlaceOf, Status, InFlight
  <2>3. Life!Unindex(v)
    BY <1>4, <2>2 DEF IndexDelete, Life!Unindex
  <2> QED
    BY <2>3 DEF Life!Next
<1>5. CASE IndexUpsert(v)
  <2>1. Life!Index(v)
    BY <1>5 DEF IndexUpsert, Life!Index
  <2> QED
    BY <2>1 DEF Life!Next
<1>6. CASE FinalizeServed(v)
  BY <1>6, LifeServes DEF FinalizeServed, ApprovalComesFirst, Finalizing
<1>7. CASE FinalizeCommit(v) \/ FinalizeFailed(v)
  BY <1>7, LifeFinalizes
<1>8. CASE \/ PreflightBegin(v) \/ Wake(v) \/ ExtractBegin(v) \/ ExtractEnd(v) \/ ContentStage(v)
           \/ FinalizeFlush(v) \/ FinalizeChoose(v) \/ Cancel(v) \/ AttemptDies(v)
  BY <1>8, LifeStutters DEF PreflightBegin, Wake, ExtractBegin, ExtractEnd, ContentStage,
                            FinalizeFlush, FinalizeChoose, Cancel, AttemptDies
<1> QED
  BY <1>1, <1>2, <1>3, <1>4, <1>5, <1>6, <1>7, <1>8 DEF WorkerStep, WorkerFault

\* What other requests do is a step of the version they are about or a stutter, however
\* late they do it.
LEMMA LifeRequests ==
  ASSUME IndInv, NEW q \in Requests, RequestNext(q)
  PROVE  Life!Next \/ UNCHANGED Life!lifeVars
<1> USE DEF IndInv, liveVars, rowVars
<1>0. request[q].at \in Labels => request[q].version \in Versions
  BY DEF TypeOK, RequestsTypeOK
<1>1. CASE Signal(q)
  <2>1. CASE UNCHANGED approved
    BY <1>1, <2>1, LifeStutters DEF Signal
  <2>2. CASE ~UNCHANGED approved
    <3>1. Life!Approve(request[q].version)
      BY <1>1, <2>2 DEF Signal, Life!Approve
    <3> QED
      BY <1>0, <1>1, <3>1 DEF Signal, Labels, Life!Next
  <2> QED
    BY <2>1, <2>2
<1>2. CASE Retry(q)
  <2>1. CASE UNCHANGED status
    BY <1>2, <2>1, LifeStutters DEF Retry
  <2>2. CASE ~UNCHANGED status
    BY <1>0, <1>2, <2>2, LifeWrites DEF Retry, Labels, IndexFree, InFlight
  <2> QED
    BY <2>1, <2>2
<1>3. CASE RecordCancel(q)
  <2>1. CASE UNCHANGED status
    BY <1>3, <2>1, LifeStutters DEF RecordCancel
  <2>2. CASE ~UNCHANGED status
    BY <1>0, <1>3, <2>2, LifeWrites DEF RecordCancel, Labels, InFlight
  <2> QED
    BY <2>1, <2>2
<1>4. CASE ActivateCommit(q)
  <2> DEFINE v == request[q].version
             previous == chosen[q] \ {v}
  <2>1. previous \subseteq approved /\ previous \in SUBSET Versions
    BY DEF ApprovalComesFirst, TypeOK
  <2>2. v \in Versions
    BY <1>0, <1>4 DEF ActivateCommit, Labels
  <2>3. PlaceOf("SUPERSEDED") = "superseded"
    BY DEF PlaceOf, InFlight
  <2>4. [u \in Versions |-> PlaceOf(status[u])]' =
          [u \in Versions |-> IF u \in previous THEN "superseded"
                              ELSE [w \in Versions |-> PlaceOf(status[w])][u]]
    BY <1>4, <2>2, <2>3 DEF ActivateCommit, Activated, TypeOK
  <2>5. Life!Supersede(previous)
    BY <1>4, <2>1, <2>4 DEF ActivateCommit, Life!Supersede
  <2> QED
    BY <2>1, <2>5 DEF Life!Next
<1>5. CASE ActivateServed(q)
  BY <1>0, <1>5, LifeServes DEF ActivateServed, Labels, ApprovalComesFirst
<1>6. CASE \/ Receive(q) \/ RecordVerdict(q) \/ RetryStart(q) \/ RetryAttach(q)
           \/ RequestCancel(q) \/ ActivateChoose(q) \/ Fail(q)
  BY <1>6, LifeStutters DEF Receive, RecordVerdict, RetryStart, RetryAttach, RequestCancel,
                            ActivateChoose, Fail
<1> QED
  BY <1>1, <1>2, <1>3, <1>4, <1>5, <1>6 DEF RequestNext

\* Every step of a creation, a run, a request, a late call or the clean-up is a step of
\* VersionLife or a stutter.
LEMMA LifeStep ==
  IndInv /\ IndexedOK /\ [Next]_publishingVars => [Life!Next]_(Life!lifeVars)
<1> SUFFICES ASSUME IndInv, IndexedOK, [Next]_publishingVars
             PROVE  Life!Next \/ UNCHANGED Life!lifeVars
  OBVIOUS
<1>1. ASSUME NEW v \in Versions, ServeLate(v) PROVE Life!Next
  BY <1>1, LifeServes DEF ServeLate, IndInv, ApprovalComesFirst, rowVars
<1>2. ASSUME NEW v \in Versions, CleanUp(v) PROVE Life!Next
  <2>1. PlaceOf(status[v]) # "ready"
    BY <1>2 DEF CleanUp, PlaceOf, InFlight
  <2>2. Life!Unindex(v)
    BY <1>2, <2>1 DEF CleanUp, Life!Unindex, rowVars
  <2> QED
    BY <2>2 DEF Life!Next
<1>3. CASE UNCHANGED publishingVars
  BY <1>3, LifeStutters DEF publishingVars, rowVars, liveVars
<1> QED
  BY <1>1, <1>2, <1>3, LifeCreates, LifeWorks, LifeRequests DEF Next

\* Seen without runs, attempts and requests the versions of a course behave as VersionLife.
THEOREM PublishingImplementsLife == Spec => LifeSpec
  BY LifeInit, LifeStep, SpecIndInv, SpecIndexedOK, PTL DEF Spec, LifeSpec, Life!Spec
=============================================================================
