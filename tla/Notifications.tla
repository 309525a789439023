---------------------------- MODULE Notifications ----------------------------
(***************************************************************************)
(* The notifications of one user and what the user wants of them:          *)
(* sessions of the consumer task that ingest an event, and requests that   *)
(* look at the preferences, change them, or mark notifications as read.    *)
(* Every session is a transaction, READ COMMITTED.  An attempt that fails  *)
(* is another session's to make again.                                     *)
(***************************************************************************)
EXTENDS Naturals, FiniteSets

CONSTANTS
    Sessions,
    News,      \* events about the user, all of one type
    NoNews

ASSUME NotificationAssumption == NoNews \notin News

Fields == {"in_app", "email"}
Preferences == [Fields -> BOOLEAN]
Defaults == [f \in Fields |-> TRUE]
\* What a PATCH names; the others are None
Changes == UNION {[F -> BOOLEAN] : F \in SUBSET Fields}

VARIABLES
    prefs,     \* the committed row: none, or of Preferences
    notices,   \* of every event: none, unread, read
    session,   \* what each session does, and holds uncommitted
    emails,    \* history: the e-mails enqueued, and whether a notification was wanted too
    failed,    \* history: events with an attempt that failed
    wish,      \* history: of every field, what the last committed change asked for, by whom
    raced,     \* history: sessions and the fields another changed while they were open
    seen       \* history: events marked as read

noticeVars == <<prefs, notices, session, emails, failed, wish, raced, seen>>

NoRow == [f \in {} |-> TRUE]
Blank == [at |-> "new", kind |-> "none", about |-> NoNews, change |-> NoRow,
             loaded |-> Defaults, creates |-> FALSE, adds |-> FALSE, marks |-> {}]

NoticesInit ==
    /\ prefs = NoRow /\ notices = [e \in News |-> "none"]
    /\ session = [h \in Sessions |-> Blank]
    /\ emails = {} /\ failed = {} /\ raced = {} /\ seen = {}
    /\ wish = [f \in Fields |-> [by |-> "nobody", value |-> TRUE]]

At(h, label) == session[h].at = label
Open(h) == session[h].at \notin {"new", "over"}
Goes(h, s) == session' = [session EXCEPT ![h] = s]
tables == <<prefs, notices>>
history == <<emails, failed, wish, raced, seen>>

\* The session closes, and what it held is gone.
Closed == [Blank EXCEPT !.at = "over"]
Drops(h) ==
    /\ Goes(h, Closed)
    /\ failed' = failed \cup ({session[h].about} \ {NoNews})
    /\ UNCHANGED <<tables, emails, wish, raced, seen>>

(***************************************************************************)
(* get_or_create                                                           *)
(***************************************************************************)
ReadPreferences(h, kind, e, change) ==
    /\ At(h, "new")
    /\ Goes(h, [Blank EXCEPT !.kind = kind, !.about = e, !.change = change,
                   !.at = IF prefs = NoRow THEN "missing" ELSE "loaded",
                   !.loaded = IF prefs = NoRow THEN Defaults ELSE prefs])
    /\ UNCHANGED <<tables, history>>

ReceiveEvent(h) == \E e \in News : ReadPreferences(h, "ingest", e, NoRow)
GetPreferences(h) == ReadPreferences(h, "look", NoNews, NoRow)
UpdatePreferences(h) == \E c \in Changes : ReadPreferences(h, "update", NoNews, c)

\* The INSERT waits for another's uncommitted row, and fails on a committed one.
CreatePreferences(h) ==
    /\ At(h, "missing")
    /\ \A g \in Sessions : ~session[g].creates
    /\ IF prefs # NoRow THEN Drops(h)
       ELSE /\ Goes(h, [session[h] EXCEPT !.at = "loaded", !.creates = TRUE])
            /\ UNCHANGED <<tables, history>>

\* The GET has nothing to commit: a row it created is gone.
AnswerPreferences(h) ==
    /\ At(h, "loaded") /\ session[h].kind = "look"
    /\ Goes(h, Closed)
    /\ UNCHANGED <<tables, history>>

(***************************************************************************)
(* update_preferences                                                      *)
(***************************************************************************)
\* Faulty variant: every field that was loaded is written.
WritesLoaded(h) ==
    IF session[h].kind = "update" /\ DOMAIN session[h].change # {} THEN Fields ELSE {}

\* The UPDATE sets what differs from what was loaded.
Writes(h) ==
    {f \in DOMAIN session[h].change : session[h].change[f] # session[h].loaded[f]}

Wanted(h) ==
    [f \in Fields |-> IF f \in DOMAIN session[h].change THEN session[h].change[f]
                      ELSE session[h].loaded[f]]

HoldsPreferences(h) ==
    At(h, "ready") /\ (session[h].creates \/ Writes(h) # {})

FlushPreferences(h) ==
    /\ At(h, "loaded") /\ session[h].kind = "update"
    /\ Writes(h) # {} => \A g \in Sessions \ {h} : ~HoldsPreferences(g)
    /\ Goes(h, [session[h] EXCEPT !.at = "ready"])
    /\ UNCHANGED <<tables, history>>

CommitPreferences(h) ==
    /\ At(h, "ready") /\ session[h].kind = "update"
    /\ prefs' = IF session[h].creates THEN Wanted(h)
                ELSE [f \in Fields |-> IF f \in Writes(h) THEN Wanted(h)[f] ELSE prefs[f]]
    /\ wish' = [f \in Fields |->
                  IF f \in DOMAIN session[h].change
                  THEN [by |-> h, value |-> session[h].change[f]] ELSE wish[f]]
    /\ raced' = raced \cup {<<g, f>> : g \in {g \in Sessions \ {h} : Open(g)},
                                       f \in DOMAIN session[h].change}
    /\ Goes(h, Closed)
    /\ UNCHANGED <<notices, emails, failed, seen>>

(***************************************************************************)
(* _handle_event                                                           *)
(***************************************************************************)
\* The auth service was asked who the user is, or did not answer
LookForNotice(h) ==
    /\ At(h, "loaded") /\ session[h].kind = "ingest"
    /\ LET s == session[h]
           adds == s.loaded["in_app"] /\ notices[s.about] = "none"
       IN Goes(h, [s EXCEPT !.at = IF adds THEN "adding" ELSE "noticed"])
    /\ UNCHANGED <<tables, history>>

\* uq_notifications_event
AddNotice(h) ==
    /\ At(h, "adding")
    /\ \A g \in Sessions : ~(session[g].adds /\ session[g].about = session[h].about)
    /\ IF notices[session[h].about] # "none" THEN Drops(h)
       ELSE /\ Goes(h, [session[h] EXCEPT !.at = "noticed", !.adds = TRUE])
            /\ UNCHANGED <<tables, history>>

\* Also for an event that has its notification already; an error is only logged.
EnqueueEmail(h) ==
    /\ At(h, "noticed")
    /\ Goes(h, [session[h] EXCEPT !.at = "ready"])
    /\ \/ UNCHANGED emails
       \/ /\ session[h].loaded["email"]
          /\ emails' = emails \cup {[about |-> session[h].about,
                                     noticed |-> session[h].loaded["in_app"]]}
    /\ UNCHANGED <<tables, failed, wish, raced, seen>>

CommitEvent(h) ==
    /\ At(h, "ready") /\ session[h].kind = "ingest"
    /\ prefs' = IF session[h].creates THEN session[h].loaded ELSE prefs
    /\ notices' = IF session[h].adds THEN [notices EXCEPT ![session[h].about] = "unread"]
                  ELSE notices
    /\ Goes(h, Closed)
    /\ UNCHANGED history

(***************************************************************************)
(* mark_read and mark_all_read                                             *)
(***************************************************************************)
\* The row is loaded, then updated unless it was read
MarkRead(h) ==
    /\ At(h, "new")
    /\ \E e \in {e \in News : notices[e] # "none"} :
         Goes(h, [Blank EXCEPT !.kind = "mark", !.at = "marking",
                     !.marks = IF notices[e] = "unread" THEN {e} ELSE {}])
    /\ UNCHANGED <<tables, history>>

MarkAllRead(h) ==
    /\ At(h, "new")
    /\ Goes(h, [Blank EXCEPT !.kind = "mark", !.at = "marking",
                   !.marks = {e \in News : notices[e] = "unread"}])
    /\ UNCHANGED <<tables, history>>

FlushMarks(h) ==
    /\ At(h, "marking")
    /\ \A g \in Sessions : At(g, "ready") => session[g].marks \cap session[h].marks = {}
    /\ Goes(h, [session[h] EXCEPT !.at = "ready"])
    /\ UNCHANGED <<tables, history>>

CommitMarks(h) ==
    /\ At(h, "ready") /\ session[h].kind = "mark"
    /\ notices' = [e \in News |-> IF e \in session[h].marks THEN "read" ELSE notices[e]]
    /\ seen' = seen \cup session[h].marks
    /\ Goes(h, Closed)
    /\ UNCHANGED <<prefs, emails, failed, wish, raced>>

\* Any await may raise, and the process may die.
SessionFails(h) == Open(h) /\ Drops(h)

NoticesNext ==
    \E h \in Sessions :
        \/ ReceiveEvent(h) \/ GetPreferences(h) \/ UpdatePreferences(h)
        \/ CreatePreferences(h) \/ AnswerPreferences(h)
        \/ FlushPreferences(h) \/ CommitPreferences(h)
        \/ LookForNotice(h) \/ AddNotice(h) \/ EnqueueEmail(h) \/ CommitEvent(h)
        \/ MarkRead(h) \/ MarkAllRead(h) \/ FlushMarks(h) \/ CommitMarks(h)
        \/ SessionFails(h)

NoticesSpec == NoticesInit /\ [][NoticesNext]_noticeVars

(***************************************************************************)
(* Properties                                                              *)
(***************************************************************************)
NoticesTypeOK ==
    /\ prefs \in Preferences \cup {NoRow}
    /\ notices \in [News -> {"none", "unread", "read"}]
    /\ failed \subseteq News /\ seen \subseteq News
    /\ \A h \in Sessions : session[h].marks \subseteq News /\ session[h].loaded \in Preferences

\* What the last change asked for is in the row, unless another session changed the same
\* field while it was open: it writes only what differs from the row it loaded, so that it
\* may then write nothing.
ChangeLostOnlyByOverlap ==
    \A f \in Fields : wish[f].by # "nobody" =>
        prefs[f] = wish[f].value \/ <<wish[f].by, f>> \in raced

\* An event that is ingested again does not make its notification unread.
ReadStaysRead == \A e \in seen : notices[e] = "read"

\* An e-mail goes out before its notification commits: one without the other, to a user
\* who wants both, comes of an attempt that failed or is under way.
EmailAloneOnlyByFailure ==
    \A m \in emails : m.noticed =>
        \/ notices[m.about] # "none" \/ m.about \in failed
        \/ \E h \in Sessions : Open(h) /\ session[h].about = m.about

\* What a user set, has read and is sent, however the sessions interleave.
NoticesHold ==
    /\ NoticesTypeOK
    /\ ChangeLostOnlyByOverlap /\ ReadStaysRead /\ EmailAloneOnlyByFailure
=============================================================================
