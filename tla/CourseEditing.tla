---------------------------- MODULE CourseEditing ----------------------------
(***************************************************************************)
(* The draft of one course: its modules and their order, the assets with   *)
(* their rows in Postgres and their objects in MinIO, and the manifest     *)
(* that a publish request sends to the publishing service.                 *)
(* A transaction's writes appear when it commits; one that would wait for  *)
(* another's lock is one that commits later.                               *)
(***************************************************************************)
EXTENDS Integers, FiniteSets

CONSTANTS
    Modules, Assets, Editors, NoModule,
    FirstNumber,    \* numbers of the modules that the draft starts with, -1 for the others
    MaxNumber       \* bound: the sort_order of a module

ASSUME EditingAssumption ==
    /\ MaxNumber \in Nat /\ NoModule \notin Modules
    /\ FirstNumber \in [Modules -> -1..MaxNumber]
    /\ \A m, n \in Modules : FirstNumber[m] >= 0 /\ FirstNumber[m] = FirstNumber[n] => m = n

VARIABLES
    published,   \* the course's visibility is PUBLISHED
    number,      \* sort_order of a module, -1 when there is no row
    home,        \* the module in the row of an asset, NoModule when there is no row
    objects,     \* the assets whose object is stored
    used,        \* ids that were given out
    manifest,    \* the manifest last sent
    at,          \* where each request is
    edit,        \* what it is about
    told,        \* history: what committed since the request began
    removing     \* history: the assets whose object a request removed

editVars == <<published, number, home, objects, used, manifest, at, edit, told, removing>>
rows == <<published, number, home>>
history == <<told, removing>>

NoOrder == [m \in {} |-> 0]
EditOf(kind, m, asset, order, n) ==
    [kind |-> kind, module |-> m, asset |-> asset, order |-> order, left |-> {}, at |-> n]
NoEdit == EditOf("none", NoModule, {}, NoOrder, -1)
NoManifest == [sent |-> FALSE, assets |-> {}]
Present == {m \in Modules : number[m] >= 0}
AssetsOf(m) == {a \in Assets : home[a] = m}

EditInit ==
    /\ published = FALSE
    /\ number = FirstNumber
    /\ home = [a \in Assets |-> NoModule]
    /\ objects = {} /\ used = {}
    /\ manifest = NoManifest
    /\ at = [r \in Editors |-> "new"]
    /\ edit = [r \in Editors |-> NoEdit]
    /\ told = [r \in Editors |-> {}]
    /\ removing = {}

(***************************************************************************)
(* _get_course_for_edit: every request reads the course first              *)
(***************************************************************************)
\* Faulty variant: the course's visibility is not looked at.
BeginEditAnyway(r, j) ==
    /\ at[r] = "new"
    /\ at' = [at EXCEPT ![r] = "begun"]
    /\ edit' = [edit EXCEPT ![r] = j]

BeginEdit(r, j) ==
    /\ at[r] = "new" /\ ~published
    /\ at' = [at EXCEPT ![r] = "begun"]
    /\ edit' = [edit EXCEPT ![r] = j]

Passes(r, from, to) == at[r] = from /\ at' = [at EXCEPT ![r] = to]
Doing(r, kind) == edit[r].kind = kind

\* The request commits: the others that are under way are told, and it is over
CommitEdit(r, what) ==
    /\ at' = [at EXCEPT ![r] = "done"]
    /\ told' = [q \in Editors |-> IF q # r /\ at[q] \notin {"new", "done"}
                                  THEN told[q] \cup {what} ELSE told[q]]
    /\ UNCHANGED edit

(***************************************************************************)
(* Modules                                                                 *)
(***************************************************************************)
\* The number is the one asked for, or the next one as it is read now
BeginAddModule(r) ==
    \E m \in Modules \ (Present \cup used), n \in 0..MaxNumber :
       /\ BeginEdit(r, EditOf("add", m, {}, NoOrder, n))
       /\ used' = used \cup {m}
       /\ UNCHANGED <<rows, objects, manifest, history>>

\* uq_modules_course_sort
AddModule(r) ==
    /\ Doing(r, "add") /\ at[r] = "begun"
    /\ IF \E m \in Present : number[m] = edit[r].at
       THEN /\ at' = [at EXCEPT ![r] = "clashed"] /\ UNCHANGED <<number, edit, told>>
       ELSE number' = [number EXCEPT ![edit[r].module] = edit[r].at] /\ CommitEdit(r, "add")
    /\ UNCHANGED <<published, home, objects, used, manifest, removing>>

BeginDropModule(r) ==
    \E m \in Present :
       /\ BeginEdit(r, EditOf("drop", m, {}, NoOrder, -1))
       /\ UNCHANGED <<rows, objects, used, manifest, history>>

\* Faulty variant: no cascade to the rows of the assets.
DropModuleAlone(r) ==
    /\ Doing(r, "drop") /\ at[r] = "begun"
    /\ number' = [number EXCEPT ![edit[r].module] = -1]
    /\ CommitEdit(r, "drop")
    /\ UNCHANGED <<published, home, objects, used, manifest, removing>>

\* The rows of its assets go with it, their objects stay
DropModule(r) ==
    LET m == edit[r].module IN
    /\ Doing(r, "drop") /\ at[r] = "begun"
    /\ number' = [number EXCEPT ![m] = -1]
    /\ home' = [a \in Assets |-> IF home[a] = m THEN NoModule ELSE home[a]]
    /\ CommitEdit(r, "drop")
    /\ UNCHANGED <<published, objects, used, manifest, removing>>

\* The list names every module that is there, once: the new number of each
BeginReorder(r) ==
    \E order \in [Present -> 0..MaxNumber] :
       /\ Present # {}
       /\ \A m, n \in Present : order[m] < Cardinality(Present) /\ (order[m] = order[n] => m = n)
       /\ BeginEdit(r, EditOf("reorder", NoModule, {}, order, -1))
       /\ UNCHANGED <<rows, objects, used, manifest, history>>

\* Faulty variant: no unique constraint on the order.
MeetsHeldNumber(order) == FALSE

\* One UPDATE per module of the list, in its order, under uq_modules_course_sort: a
\* number is still held by a module whose turn comes later, or never
MeetsNumber(order) ==
    \E m \in DOMAIN order \cap Present, o \in Present :
       /\ o # m /\ number[o] = order[m]
       /\ o \in DOMAIN order => order[o] > order[m]

Reorder(r) ==
    LET order == edit[r].order IN
    /\ Doing(r, "reorder") /\ at[r] = "begun"
    /\ IF MeetsNumber(order)
       THEN /\ at' = [at EXCEPT ![r] = "clashed"] /\ UNCHANGED <<number, edit, told>>
       ELSE /\ number' = [m \in Modules |-> IF m \in DOMAIN order \cap Present THEN order[m] ELSE number[m]]
            /\ CommitEdit(r, "reorder")
    /\ UNCHANGED <<published, home, objects, used, manifest, removing>>

(***************************************************************************)
(* Assets: AssetService.upload and delete                                  *)
(***************************************************************************)
BeginUpload(r) ==
    \E m \in Present, a \in Assets \ used :
       /\ BeginEdit(r, EditOf("upload", m, {a}, NoOrder, -1))
       /\ used' = used \cup {a}
       /\ UNCHANGED <<rows, objects, manifest, history>>

PutObject(r) ==
    /\ Doing(r, "upload") /\ Passes(r, "begun", "put")
    /\ objects' = objects \cup edit[r].asset
    /\ UNCHANGED <<rows, used, manifest, edit, history>>

\* The insert fails without its module, or for another reason; then the object goes
InsertAsset(r) ==
    /\ Doing(r, "upload") /\ at[r] = "put"
    /\ \/ /\ edit[r].module \in Present
          /\ home' = [a \in Assets |-> IF a \in edit[r].asset THEN edit[r].module ELSE home[a]]
          /\ CommitEdit(r, "upload")
       \/ /\ Passes(r, "put", "inserting") /\ UNCHANGED <<home, edit, told>>
    /\ UNCHANGED <<published, number, objects, used, manifest, removing>>

CleanUpload(r) ==
    /\ at[r] = "inserting"
    /\ at' = [at EXCEPT ![r] = "done"]
    /\ objects' \in {objects, objects \ edit[r].asset}
    /\ UNCHANGED <<rows, used, manifest, edit, history>>

BeginDropAsset(r) ==
    \E a \in Assets :
       /\ home[a] # NoModule
       /\ BeginEdit(r, EditOf("dropAsset", NoModule, {a}, NoOrder, -1))
       /\ UNCHANGED <<rows, objects, used, manifest, history>>

\* The object is removed, or that fails and is logged, before the row's deletion commits
RemoveObject(r) ==
    /\ Doing(r, "dropAsset") /\ Passes(r, "begun", "removed")
    /\ objects' \in {objects, objects \ edit[r].asset}
    /\ removing' = removing \cup edit[r].asset
    /\ UNCHANGED <<rows, used, manifest, edit, told>>

DropAsset(r) ==
    /\ Doing(r, "dropAsset") /\ at[r] = "removed"
    /\ home' = [a \in Assets |-> IF a \in edit[r].asset THEN NoModule ELSE home[a]]
    /\ CommitEdit(r, "dropAsset")
    /\ UNCHANGED <<published, number, objects, used, manifest, removing>>

(***************************************************************************)
(* publish_course: validate counts, then several SELECTs, then one call    *)
(***************************************************************************)
BeginPublish(r) ==
    /\ Present # {} /\ \E a \in Assets : home[a] # NoModule
    /\ BeginEdit(r, EditOf("publish", NoModule, {}, NoOrder, -1))
    /\ UNCHANGED <<rows, objects, used, manifest, history>>

ReadModules(r) ==
    /\ Doing(r, "publish") /\ Passes(r, "begun", "reading")
    /\ edit' = [edit EXCEPT ![r].left = Present]
    /\ UNCHANGED <<rows, objects, used, manifest, history>>

\* One SELECT per module, in their order, which is left out here
ReadAssets(r) ==
    /\ Doing(r, "publish") /\ at[r] = "reading"
    /\ \E m \in edit[r].left :
         edit' = [edit EXCEPT ![r].left = @ \ {m}, ![r].asset = @ \cup AssetsOf(m)]
    /\ UNCHANGED <<rows, objects, used, manifest, at, history>>

SendManifest(r) ==
    /\ Doing(r, "publish") /\ Passes(r, "reading", "sent") /\ edit[r].left = {}
    /\ manifest' = [sent |-> TRUE, assets |-> edit[r].asset]
    /\ UNCHANGED <<rows, objects, used, edit, history>>

\* activate_course_version, called by the publishing service once it is done
Activate ==
    /\ manifest.sent /\ ~published
    /\ published' = TRUE
    /\ told' = [q \in Editors |-> IF at[q] \notin {"new", "done"}
                                  THEN told[q] \cup {"activate"} ELSE told[q]]
    /\ UNCHANGED <<number, home, objects, used, manifest, at, edit, removing>>

\* Any step fails or the process dies, and the transaction is rolled back
FailEdit(r) ==
    /\ at[r] \in {"begun", "put", "inserting", "removed", "reading"}
    /\ at' = [at EXCEPT ![r] = "done"]
    /\ UNCHANGED <<rows, objects, used, manifest, edit, history>>

EditNext ==
    \/ \E r \in Editors :
         \/ BeginAddModule(r) \/ AddModule(r) \/ BeginDropModule(r) \/ DropModule(r)
         \/ BeginReorder(r) \/ Reorder(r)
         \/ BeginUpload(r) \/ PutObject(r) \/ InsertAsset(r) \/ CleanUpload(r)
         \/ BeginDropAsset(r) \/ RemoveObject(r) \/ DropAsset(r)
         \/ BeginPublish(r) \/ ReadModules(r) \/ ReadAssets(r) \/ SendManifest(r)
         \/ FailEdit(r)
    \/ Activate

EditSpec == EditInit /\ [][EditNext]_editVars

(***************************************************************************)
(* Properties                                                              *)
(***************************************************************************)
EditTypeOK ==
    /\ published \in BOOLEAN
    /\ number \in [Modules -> -1..MaxNumber]
    /\ \A m, n \in Present : number[m] = number[n] => m = n
    /\ home \in [Assets -> Modules \cup {NoModule}]
    /\ objects \subseteq Assets /\ removing \subseteq Assets
    /\ used \subseteq Modules \cup Assets
    /\ manifest.assets \subseteq Assets
    /\ \A r \in Editors :
         /\ at[r] \in {"new", "begun", "put", "inserting", "removed", "reading", "sent", "clashed", "done"}
         /\ edit[r].asset \subseteq Assets

\* An asset's row has its object unless a request to delete the asset took it and has
\* not committed, or never will; and no asset belongs to a module that is gone.
RowHasObject ==
    \A a \in Assets : home[a] # NoModule =>
        (a \in objects \/ a \in removing) /\ home[a] \in Present

\* A manifest lacks an object only because the draft, which stays open until the
\* version is activated, had the asset deleted.
ManifestLosesOnlyDeleted == manifest.assets \subseteq objects \cup removing

\* What was validated is published: an empty manifest means that modules or assets
\* were deleted between the validation and the reads.
EmptyOnlyByOverlap ==
    \A r \in Editors :
        at[r] = "sent" /\ edit[r].asset = {} => told[r] \cap {"drop", "dropAsset"} # {}

\* Only requests that had looked at the course before change it once it is published.
ClosedToLateEdits ==
    [][published => \A r \in Editors : at[r] # at'[r] => "activate" \in told[r]]_<<number, home, objects>>

\* A reordering that nobody interferes with goes through.
ReorderingWorks ==
    \A r \in Editors : Doing(r, "reorder") /\ at[r] = "clashed" => told[r] # {}

\* The rows of the draft and the manifests sent of it name objects that are there, but
\* for what somebody asked to delete, and what was validated is what is sent: no crash
\* and no order of requests loses a file, or publishes a course without any.
DraftAndFilesAgree ==
    /\ RowHasObject
    /\ ManifestLosesOnlyDeleted
    /\ EmptyOnlyByOverlap
=============================================================================
