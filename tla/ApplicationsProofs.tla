------------------------- MODULE ApplicationsProofs -------------------------
(***************************************************************************)
(* Theorems about Accounts and Applications for every number of accounts   *)
(* and of requests, however many run at a time.                            *)
(***************************************************************************)
EXTENDS Applications, TLAPS

Checked == {"verify", "refresh", "reset"}
Jobs == [kind : Kinds, account : Accounts \cup {None}, uses : Ids \cup {None},
         ask : Statuses \cup {"ACTIVE", "INACTIVE", None}]

\* A request that is at work or done is about an account, and about a token or an
\* application if its kind is; those of Earlier have happened before.
JobTells(r) ==
    pc[r] \in Running \cup {"done"} =>
        /\ job[r].account \in Accounts
        /\ job[r].kind \in {"refresh", "reset", "review"} => job[r].uses \in Ids
        /\ job[r].kind = "refresh" => session[job[r].uses] # "none"
        /\ job[r].kind = "reset" => reset[job[r].uses] # "none"
        /\ job[r].kind = "review" => application[job[r].uses] # "none"
        /\ job[r].kind = "status" => job[r].ask \in {"ACTIVE", "INACTIVE"}
        /\ job[r].kind \in {"apply", "review"} => job[r].ask \in Statuses

\* Whatever was issued was issued by a request that is done.
IssuedTells(i) ==
    session[i] # "none" \/ reset[i] # "none" \/ application[i] # "none" =>
        /\ pc[i] = "done" /\ job[i].account \in Accounts
        /\ application[i] # "none" => i = Earlier \/ job[i].kind = "apply"

\* What is to be revoked was issued.
RevokingTells(i) == \A t \in revoking[i] : session[t] # "none"

\* A row was inserted by the registration that is its registrant.
RowTells(a) ==
    HasRow(a) /\ registrant[a] # Earlier =>
        /\ pc[registrant[a]] = "done" /\ job[registrant[a]].kind = "register"
        /\ job[registrant[a]].account = a

\* What a finished request used is used up.
SpentTells(q) ==
    pc[q] = "done" =>
        /\ job[q].kind = "verify" => verified[job[q].account]
        /\ job[q].kind = "refresh" => session[job[q].uses] = "revoked"
        /\ job[q].kind = "reset" => reset[job[q].uses] = "used"

PendingAgain(t) ==
    \E v \in Requests : pc[v] = "done" /\ job[v].kind = "review" /\ job[v].ask = "PENDING"
                        /\ job[v].uses = t

\* What ended before a request began did not use what it uses, did not insert the
\* address it registers, and left no application pending where it makes one.
PastTells(r) ==
    \A q \in past[r] :
        /\ pc[q] \in Ended
        /\ pc[q] = "done" /\ job[q].kind \in Checked => job[q] # job[r]
        /\ job[r].kind = "register" =>
             \A b \in Accounts : registrant[b] = q => MailboxOf[b] # MailboxOf[job[r].account]
        /\ job[r].kind = "apply" /\ application[q] = "PENDING" /\ job[q].account = job[r].account =>
             PendingAgain(q)

EarlierTells ==
    /\ pc[Earlier] = "done" /\ past[Earlier] = {} /\ job[Earlier].kind = "earlier"
    /\ \A a, b \in Accounts : registrant[a] = Earlier /\ registrant[b] = Earlier => a = b

\* TypeOK, with the jobs as one set
AuthTypeOK ==
    /\ registrant \in [Accounts -> Ids \cup {None}]
    /\ active \in [Accounts -> {"ACTIVE", "INACTIVE"}]
    /\ activeBy \in [Accounts -> Ids \cup {None}]
    /\ verified \in [Accounts -> BOOLEAN]
    /\ session \in [Ids -> {"none", "active", "revoked"}]
    /\ reset \in [Ids -> {"none", "open", "used"}]
    /\ application \in [Ids -> Statuses \cup {"none"}]
    /\ pc \in [Ids -> Running \cup Ended \cup {"idle"}]
    /\ job \in [Ids -> Jobs]
    /\ saw \in [Ids -> Statuses \cup {"ACTIVE", "INACTIVE", None}]
    /\ revoking \in [Ids -> SUBSET Ids]
    /\ past \in [Ids -> SUBSET Ids]

IInv ==
    /\ AuthTypeOK
    /\ EarlierTells
    /\ \A r \in Requests : JobTells(r)
    /\ \A i \in Ids : IssuedTells(i) /\ SpentTells(i) /\ PastTells(i) /\ RevokingTells(i)
    /\ \A a \in Accounts : RowTells(a)

\* The invariant holds whether or not somebody has registered before.
LEMMA InitAuth == Init => IInv
<1> SUFFICES ASSUME Init PROVE IInv
  OBVIOUS
<1> USE AccountsAssumption
<1>1. Earlier \in Ids /\ None \notin Ids /\ None \notin Accounts
  BY DEF Ids
<1>2. NoJob \in Jobs /\ NoJob.kind = "earlier"
  BY DEF NoJob, AsksFor, Jobs, Kinds
<1>3. /\ pc = [i \in Ids |-> IF i = Earlier THEN "done" ELSE "idle"]
      /\ past = [i \in Ids |-> {}] /\ saw = [i \in Ids |-> None] /\ revoking = [i \in Ids |-> {}]
      /\ active = [a \in Accounts |-> IF HasRow(a) THEN "ACTIVE" ELSE "INACTIVE"]
      /\ activeBy = registrant /\ verified = [a \in Accounts |-> HasRow(a)]
  BY DEF Init
<1>4. ASSUME NEW a \in Accounts, Established(a) PROVE IInv
  <2> DEFINE j == AsksFor("earlier", a, None, None)
  <2>1. j \in Jobs /\ j.kind = "earlier" /\ j.account = a
    BY DEF AsksFor, Jobs, Kinds
  <2>2. job = [i \in Ids |-> IF i = Earlier THEN j ELSE NoJob] /\ job \in [Ids -> Jobs] /\ job[Earlier] = j
    BY <1>1, <1>2, <1>4, <2>1 DEF Established
  <2>3. /\ registrant \in [Accounts -> Ids \cup {None}] /\ session \in [Ids -> {"none", "active", "revoked"}]
        /\ reset \in [Ids -> {"none", "open", "used"}] /\ application \in [Ids -> Statuses \cup {"none"}]
        /\ \A i \in Ids : i # Earlier => session[i] = "none" /\ reset[i] = "none" /\ application[i] = "none"
        /\ \A b \in Accounts : registrant[b] = IF b = a THEN Earlier ELSE None
    BY <1>1, <1>4 DEF Established, Statuses
  <2>4. verified \in [Accounts -> BOOLEAN]
    BY <1>3, Zenon DEF HasRow
  <2>5. AuthTypeOK
    BY <1>1, <1>3, <2>2, <2>3, <2>4 DEF AuthTypeOK, Ended
  <2>6. EarlierTells
    BY <1>1, <1>3, <2>1, <2>2, <2>3 DEF EarlierTells
  <2>7. /\ \A i \in Ids : IssuedTells(i) /\ SpentTells(i) /\ PastTells(i)
        /\ \A r \in Requests : JobTells(r)
    BY <1>1, <1>3, <2>1, <2>2, <2>3 DEF JobTells, IssuedTells, SpentTells, PastTells, Running, Ids
  <2> QED
    BY <1>1, <1>3, <2>3, <2>5, <2>6, <2>7 DEF IInv, RowTells, RevokingTells, HasRow
<1>5. ASSUME Blank PROVE IInv
  <2>1. job \in [Ids -> Jobs] /\ job[Earlier].kind = "earlier"
    BY <1>1, <1>2, <1>5 DEF Blank
  <2>2. /\ registrant \in [Accounts -> Ids \cup {None}] /\ session \in [Ids -> {"none", "active", "revoked"}]
        /\ reset \in [Ids -> {"none", "open", "used"}] /\ application \in [Ids -> Statuses \cup {"none"}]
        /\ \A i \in Ids : session[i] = "none" /\ reset[i] = "none" /\ application[i] = "none"
        /\ \A b \in Accounts : registrant[b] = None
    BY <1>1, <1>5 DEF Blank
  <2>3. verified \in [Accounts -> BOOLEAN]
    BY <1>3, Zenon DEF HasRow
  <2>4. AuthTypeOK
    BY <1>1, <1>3, <2>1, <2>2, <2>3 DEF AuthTypeOK, Ended
  <2>5. EarlierTells
    BY <1>1, <1>3, <2>1, <2>2 DEF EarlierTells
  <2>6. /\ \A i \in Ids : IssuedTells(i) /\ SpentTells(i) /\ PastTells(i)
        /\ \A r \in Requests : JobTells(r)
    BY <1>1, <1>2, <1>3, <1>5, <2>1, <2>2 DEF Blank, IssuedTells, SpentTells, PastTells, JobTells, Running, Ids
  <2> QED
    BY <1>1, <1>3, <2>2, <2>4, <2>5, <2>6 DEF IInv, RowTells, RevokingTells, HasRow
<1> QED
  BY <1>4, <1>5 DEF Init

\* What a running request keeps by a step that only moves it on.
LEMMA MovesKeep ==
  ASSUME IInv, NEW r \in Requests, NEW from \in Running, NEW to \in Running, Moves(r, from, to),
         UNCHANGED <<userVars, tokenVars, application>>,
         revoking' \in [Ids -> SUBSET Ids],
         \A i \in Ids : \A t \in revoking'[i] : session[t] # "none"
  PROVE  IInv'
<1>1. /\ pc[r] = from /\ pc' = [pc EXCEPT ![r] = to]
      /\ UNCHANGED <<job, saw, past, registrant, active, activeBy, verified, session, reset, application>>
  BY DEF Moves, userVars, tokenVars
<1>2. r \in Ids /\ r # Earlier
  BY AccountsAssumption DEF Ids
<1>3. AuthTypeOK'
  BY <1>1, <1>2 DEF IInv, AuthTypeOK
<1>4. pc'[r] \in Running /\ pc[r] \in Running /\ \A i \in Ids \ {r} : pc'[i] = pc[i]
  BY <1>1, <1>2 DEF IInv, AuthTypeOK
<1>5. \A s \in Running : s # "done" /\ s \notin Ended
  BY DEF Running, Ended
<1>6. EarlierTells'
  BY <1>1, <1>2, <1>4 DEF IInv, EarlierTells, Ids
<1>7. \A q \in Requests : JobTells(q)'
  BY <1>1, <1>4 DEF IInv, JobTells, Ids
<1>8. ASSUME NEW i \in Ids PROVE IssuedTells(i)' /\ SpentTells(i)'
  BY <1>1, <1>4, <1>5 DEF IInv, IssuedTells, SpentTells
<1>9. \A t : PendingAgain(t) => PendingAgain(t)'
  BY <1>1, <1>4, <1>5 DEF PendingAgain, Ids
<1>10. ASSUME NEW i \in Ids PROVE PastTells(i)'
  <2> SUFFICES ASSUME NEW q \in past[i]
               PROVE  /\ pc'[q] \in Ended
                      /\ pc'[q] = "done" /\ job[q].kind \in Checked => job[q] # job[i]
                      /\ job[i].kind = "register" =>
                           \A b \in Accounts : registrant[b] = q => MailboxOf[b] # MailboxOf[job[i].account]
                      /\ job[i].kind = "apply" /\ application[q] = "PENDING" /\ job[q].account = job[i].account =>
                           PendingAgain(q)'
    BY <1>1 DEF PastTells
  <2>1. q \in Ids /\ PastTells(i)
    BY DEF IInv, AuthTypeOK
  <2>2. q # r
    BY <1>4, <1>5, <2>1 DEF PastTells
  <2> QED
    BY <1>4, <1>9, <2>1, <2>2 DEF PastTells
<1>11. \A a \in Accounts : RowTells(a)'
  BY <1>1, <1>4, <1>5 DEF IInv, RowTells, HasRow, AuthTypeOK
<1>12. \A i \in Ids : RevokingTells(i)'
  BY <1>1 DEF RevokingTells
<1> QED
  BY <1>3, <1>6, <1>7, <1>8, <1>10, <1>11, <1>12 DEF IInv

\* A request that rolls back forgets what it was about.
LEMMA RollsBackKeeps ==
  ASSUME IInv, NEW r \in Requests, pc[r] \in Running, RollsBack(r),
         application' = application
  PROVE  IInv'
<1>1. /\ pc' = [pc EXCEPT ![r] = "failed"] /\ job' = [job EXCEPT ![r] = NoJob]
      /\ saw' = [saw EXCEPT ![r] = None] /\ revoking' = [revoking EXCEPT ![r] = {}]
      /\ past' = [past EXCEPT ![r] = {}]
      /\ UNCHANGED <<registrant, active, activeBy, verified, session, reset, application>>
  BY DEF RollsBack, userVars, tokenVars
<1>2. r \in Ids /\ r # Earlier
  BY AccountsAssumption DEF Ids
<1>3. NoJob \in Jobs /\ "failed" \in Ended
  BY DEF NoJob, AsksFor, Jobs, Kinds, Ended
<1>4. AuthTypeOK'
  BY <1>1, <1>2, <1>3 DEF IInv, AuthTypeOK
<1>5. /\ pc'[r] = "failed" /\ past'[r] = {} /\ pc[r] \in Running
      /\ \A i \in Ids \ {r} : pc'[i] = pc[i] /\ job'[i] = job[i] /\ past'[i] = past[i]
  BY <1>1, <1>2 DEF IInv, AuthTypeOK
<1>6. \A s \in Running : s # "done" /\ s \notin Ended
  BY DEF Running, Ended
<1>7. EarlierTells'
  BY <1>1, <1>2, <1>5 DEF IInv, EarlierTells, Ids
<1>8. \A q \in Requests : JobTells(q)'
  BY <1>1, <1>5 DEF IInv, JobTells, Ids, Running
<1>9. ASSUME NEW i \in Ids PROVE IssuedTells(i)' /\ SpentTells(i)'
  BY <1>1, <1>5, <1>6 DEF IInv, IssuedTells, SpentTells
<1>10. \A t : PendingAgain(t) => PendingAgain(t)'
  BY <1>5, <1>6 DEF PendingAgain, Ids
<1>11. ASSUME NEW i \in Ids PROVE PastTells(i)'
  <2> SUFFICES ASSUME i # r, NEW q \in past[i]
               PROVE  /\ pc'[q] \in Ended
                      /\ pc'[q] = "done" /\ job'[q].kind \in Checked => job'[q] # job[i]
                      /\ job[i].kind = "register" =>
                           \A b \in Accounts : registrant[b] = q => MailboxOf[b] # MailboxOf[job[i].account]
                      /\ job[i].kind = "apply" /\ application[q] = "PENDING" /\ job'[q].account = job[i].account =>
                           PendingAgain(q)'
    BY <1>1, <1>5 DEF PastTells
  <2>1. q \in Ids /\ PastTells(i)
    BY DEF IInv, AuthTypeOK
  <2>2. q # r
    BY <1>5, <1>6, <2>1 DEF PastTells
  <2> QED
    BY <1>5, <1>10, <2>1, <2>2 DEF PastTells
<1>12. \A a \in Accounts : RowTells(a)'
  BY <1>1, <1>5, <1>6 DEF IInv, RowTells, HasRow, AuthTypeOK
<1>13. \A i \in Ids : RevokingTells(i)'
  BY <1>1 DEF IInv, AuthTypeOK, RevokingTells
<1> QED
  BY <1>4, <1>7, <1>8, <1>9, <1>11, <1>12, <1>13 DEF IInv

\* A request begins: what ended before it did not use up, insert or leave pending what
\* it is about, for then it would have been refused.
LEMMA BeginKeeps ==
  ASSUME IInv, NEW r \in Requests, NEW j \in Jobs,
         NEW loaded \in Statuses \cup {"ACTIVE", "INACTIVE", None}, Begin(r, j, loaded),
         application' = application, j.account \in Accounts, j.kind # "earlier",
         j.kind = "verify" => ~verified[j.account],
         j.kind = "refresh" => j.uses \in Ids /\ session[j.uses] = "active",
         j.kind = "reset" => j.uses \in Ids /\ reset[j.uses] = "open",
         j.kind = "review" => j.uses \in Ids /\ j.ask \in Statuses /\ application[j.uses] # "none",
         j.kind = "status" => j.ask \in {"ACTIVE", "INACTIVE"},
         j.kind = "apply" => j.ask \in Statuses /\ Pending(j.account) = {},
         j.kind = "register" => \A b \in Accounts : HasRow(b) => MailboxOf[b] # MailboxOf[j.account]
  PROVE  IInv'
<1> DEFINE ended == {q \in Ids : pc[q] \in Ended}
<1>1. /\ pc[r] = "idle" /\ pc' = [pc EXCEPT ![r] = "read"] /\ job' = [job EXCEPT ![r] = j]
      /\ saw' = [saw EXCEPT ![r] = loaded] /\ past' = [past EXCEPT ![r] = ended]
      /\ UNCHANGED <<registrant, active, activeBy, verified, session, reset, revoking, application>>
  BY DEF Begin, userVars, tokenVars
<1>2. r \in Ids /\ r # Earlier /\ None \notin Ids
  BY AccountsAssumption DEF Ids
<1>3. ended \in SUBSET Ids /\ "read" \in Running
  BY DEF Running
<1>4. AuthTypeOK'
  BY <1>1, <1>2, <1>3 DEF IInv, AuthTypeOK
<1>5. /\ pc'[r] = "read" /\ past'[r] = ended /\ job'[r] = j
      /\ \A i \in Ids \ {r} : pc'[i] = pc[i] /\ job'[i] = job[i] /\ past'[i] = past[i]
  BY <1>1, <1>2 DEF IInv, AuthTypeOK
<1>6. "idle" \notin Ended /\ "read" \notin Ended /\ "idle" # "done"
  BY DEF Ended
<1>7. EarlierTells'
  BY <1>1, <1>2, <1>5 DEF IInv, EarlierTells, Ids
<1>8. \A q \in Requests : JobTells(q)'
  <2>1. JobTells(r)'
    BY <1>1, <1>5 DEF JobTells
  <2> QED
    BY <1>1, <1>5, <2>1 DEF IInv, JobTells, Ids
<1>9. ASSUME NEW i \in Ids PROVE IssuedTells(i)' /\ SpentTells(i)'
  BY <1>1, <1>5, <1>6 DEF IInv, IssuedTells, SpentTells
<1>10. \A t : PendingAgain(t) => PendingAgain(t)'
  BY <1>1, <1>5 DEF PendingAgain, Ids
<1>11. ASSUME NEW i \in Ids \ {r} PROVE PastTells(i)'
  <2> SUFFICES ASSUME NEW q \in past[i]
               PROVE  /\ pc'[q] \in Ended
                      /\ pc'[q] = "done" /\ job'[q].kind \in Checked => job'[q] # job[i]
                      /\ job[i].kind = "register" =>
                           \A b \in Accounts : registrant[b] = q => MailboxOf[b] # MailboxOf[job[i].account]
                      /\ job[i].kind = "apply" /\ application[q] = "PENDING" /\ job'[q].account = job[i].account =>
                           PendingAgain(q)'
    BY <1>1, <1>5 DEF PastTells
  <2>1. q \in Ids /\ PastTells(i)
    BY DEF IInv, AuthTypeOK
  <2>2. q # r
    BY <1>1, <1>6, <2>1 DEF PastTells
  <2> QED
    BY <1>5, <1>10, <2>1, <2>2 DEF PastTells
<1>12. PastTells(r)'
  <2> SUFFICES ASSUME NEW q \in ended
               PROVE  /\ pc'[q] \in Ended
                      /\ pc'[q] = "done" /\ job'[q].kind \in Checked => job'[q] # j
                      /\ j.kind = "register" =>
                           \A b \in Accounts : registrant[b] = q => MailboxOf[b] # MailboxOf[j.account]
                      /\ ~(j.kind = "apply" /\ application[q] = "PENDING" /\ job'[q].account = j.account)
    BY <1>1, <1>5 DEF PastTells
  <2>1. q \in Ids /\ q # r /\ pc'[q] = pc[q] /\ job'[q] = job[q] /\ SpentTells(q)
    BY <1>1, <1>5, <1>6 DEF IInv
  <2>2. pc[q] = "done" /\ job[q].kind \in Checked => job[q] # j
    BY <2>1 DEF SpentTells, Checked
  <2>3. j.kind = "register" => \A b \in Accounts : registrant[b] = q => MailboxOf[b] # MailboxOf[j.account]
    BY <1>2, <2>1 DEF HasRow
  <2>4. ~(j.kind = "apply" /\ application[q] = "PENDING" /\ job[q].account = j.account)
    BY <2>1 DEF Pending
  <2> QED
    BY <2>1, <2>2, <2>3, <2>4
<1>13. \A a \in Accounts : RowTells(a)'
  BY <1>1, <1>5, <1>6 DEF IInv, RowTells, HasRow, AuthTypeOK
<1>14. \A i \in Ids : RevokingTells(i)'
  BY <1>1 DEF IInv, RevokingTells
<1> QED
  BY <1>4, <1>7, <1>8, <1>9, <1>11, <1>12, <1>13, <1>14 DEF IInv

\* A commit: the request is done, what it used is used up, and nothing that was used up
\* comes back; what is new was issued, inserted or reviewed by the request itself.
LEMMA CommitsKeep ==
  ASSUME IInv, NEW r \in Requests, NEW from \in Running, Commits(r, from), AuthTypeOK',
         \A i \in Ids : session[i] = "revoked" => session'[i] = "revoked",
         \A i \in Ids : /\ session[i] # "none" => session'[i] # "none"
                        /\ reset[i] # "none" => reset'[i] # "none"
                        /\ application[i] # "none" => application'[i] # "none",
         \A i \in Ids : reset[i] = "used" => reset'[i] = "used",
         \A a \in Accounts : verified[a] => verified'[a],
         \A i \in Ids \ {r} : /\ session[i] = "none" => session'[i] = "none"
                              /\ reset[i] = "none" => reset'[i] = "none"
                              /\ application[i] = "none" => application'[i] = "none",
         application[r] = "none" => application'[r] = "none" \/ job[r].kind = "apply",
         job[r].kind = "verify" => verified'[job[r].account],
         job[r].kind = "refresh" => session'[job[r].uses] = "revoked",
         job[r].kind = "reset" => reset'[job[r].uses] = "used",
         \A a \in Accounts : registrant'[a] = registrant[a]
                               \/ (job[r].kind = "register" /\ job[r].account = a /\ registrant'[a] = r),
         \A t \in Ids \ {r} : application'[t] = "PENDING" => application[t] = "PENDING"
                               \/ (job[r].kind = "review" /\ job[r].ask = "PENDING" /\ job[r].uses = t)
  PROVE  IInv'
<1>1. pc[r] = from /\ pc' = [pc EXCEPT ![r] = "done"] /\ UNCHANGED <<job, past>>
  BY DEF Commits
<1>2. r \in Ids /\ r # Earlier /\ None \notin Ids
  BY AccountsAssumption DEF Ids
<1>3. pc'[r] = "done" /\ pc[r] \in Running /\ \A i \in Ids \ {r} : pc'[i] = pc[i]
  BY <1>1, <1>2 DEF IInv, AuthTypeOK
<1>4. "done" \in Ended /\ \A s \in Running : s # "done" /\ s \notin Ended
  BY DEF Running, Ended
<1>5. EarlierTells'
  BY <1>1, <1>2, <1>3 DEF IInv, EarlierTells, Ids
<1>6. \A q \in Requests : JobTells(q)'
  BY <1>1, <1>3 DEF IInv, JobTells, Ids
<1>7. job[r].account \in Accounts
  BY <1>3 DEF IInv, JobTells
<1>8. ASSUME NEW i \in Ids PROVE IssuedTells(i)'
  BY <1>1, <1>2, <1>3, <1>7 DEF IInv, IssuedTells
<1>9. ASSUME NEW i \in Ids PROVE SpentTells(i)'
  <2>1. CASE i = r
    BY <1>1, <2>1 DEF SpentTells
  <2>2. CASE i # r
    <3>1. i = Earlier => job[i].kind = "earlier"
      BY DEF IInv, EarlierTells
    <3>2. pc'[i] = pc[i] /\ job' = job /\ SpentTells(i)
      BY <1>1, <1>3, <2>2 DEF IInv
    <3>3. CASE i = Earlier
      BY <3>1, <3>2, <3>3 DEF SpentTells
    <3>4. CASE i # Earlier /\ pc[i] = "done"
      <4>1. JobTells(i)
        BY <3>4 DEF IInv, Ids
      <4>2. job[i].account \in Accounts
        BY <3>4, <4>1 DEF JobTells
      <4>3. job[i].kind \in {"refresh", "reset"} => job[i].uses \in Ids
        BY <3>4, <4>1 DEF JobTells
      <4>4. PICK a \in Accounts : a = job[i].account
        BY <4>2
      <4>5. job[i].kind = "verify" => verified'[a]
        <5>1. verified[a] => verified'[a]
          OBVIOUS
        <5>2. job[i].kind = "verify" => verified[a]
          BY <3>2, <3>4, <4>4, Zenon DEF SpentTells
        <5> QED
          BY <5>1, <5>2, Zenon
      <4>6. ASSUME job[i].kind = "refresh" PROVE session'[job[i].uses] = "revoked"
        <5>1. job[i].uses \in Ids /\ session[job[i].uses] = "revoked"
          BY <3>2, <3>4, <4>3, <4>6 DEF SpentTells
        <5> QED
          BY <5>1
      <4>7. ASSUME job[i].kind = "reset" PROVE reset'[job[i].uses] = "used"
        <5>1. job[i].uses \in Ids /\ reset[job[i].uses] = "used"
          BY <3>2, <3>4, <4>3, <4>7 DEF SpentTells
        <5> QED
          BY <5>1
      <4>8. job[i].kind = "verify" => verified'[job[i].account]
        BY <4>4, <4>5, Zenon
      <4> QED
        BY <3>2, <4>6, <4>7, <4>8 DEF SpentTells
    <3>5. CASE pc[i] # "done"
      BY <3>2, <3>5 DEF SpentTells
    <3> QED
      BY <3>3, <3>4, <3>5
  <2> QED
    BY <2>1, <2>2
<1>10. \A t : PendingAgain(t) => PendingAgain(t)'
  BY <1>1, <1>3, <1>4 DEF PendingAgain, Ids
<1>11. ASSUME NEW i \in Ids PROVE PastTells(i)'
  <2> SUFFICES ASSUME NEW q \in past[i]
               PROVE  /\ pc'[q] \in Ended
                      /\ pc'[q] = "done" /\ job[q].kind \in Checked => job[q] # job[i]
                      /\ job[i].kind = "register" =>
                           \A b \in Accounts : registrant'[b] = q => MailboxOf[b] # MailboxOf[job[i].account]
                      /\ job[i].kind = "apply" /\ application'[q] = "PENDING" /\ job[q].account = job[i].account =>
                           PendingAgain(q)'
    BY <1>1 DEF PastTells
  <2>1. q \in Ids /\ PastTells(i)
    BY DEF IInv, AuthTypeOK
  <2>2. q # r
    BY <1>3, <1>4, <2>1 DEF PastTells
  <2>3. job[i].kind = "register" =>
          \A b \in Accounts : registrant'[b] = q => MailboxOf[b] # MailboxOf[job[i].account]
    BY <2>1, <2>2 DEF PastTells
  <2>4. job[i].kind = "apply" /\ application'[q] = "PENDING" /\ job[q].account = job[i].account => PendingAgain(q)'
    <3> SUFFICES ASSUME job[i].kind = "apply", application'[q] = "PENDING", job[q].account = job[i].account
                 PROVE  PendingAgain(q)'
      OBVIOUS
    <3>1. CASE application[q] = "PENDING"
      BY <1>10, <2>1, <3>1 DEF PastTells
    <3>2. CASE job[r].kind = "review" /\ job[r].ask = "PENDING" /\ job[r].uses = q
      BY <1>1, <1>3, <3>2 DEF PendingAgain
    <3> QED
      BY <2>1, <2>2, <3>1, <3>2
  <2> QED
    BY <1>3, <2>1, <2>2, <2>3, <2>4 DEF PastTells
<1>12. ASSUME NEW a \in Accounts PROVE RowTells(a)'
  <2>1. CASE registrant'[a] = registrant[a]
    <3>1. registrant[a] \in Ids \cup {None}
      BY DEF IInv, AuthTypeOK
    <3> QED
      BY <1>1, <1>3, <1>4, <2>1, <3>1 DEF IInv, RowTells, HasRow
  <2>2. CASE job[r].kind = "register" /\ job[r].account = a /\ registrant'[a] = r
    BY <1>1, <1>3, <2>2 DEF RowTells
  <2> QED
    BY <2>1, <2>2
<1>13. ASSUME NEW i \in Ids PROVE RevokingTells(i)'
  <2>1. revoking' = [revoking EXCEPT ![r] = {}] /\ revoking \in [Ids -> SUBSET Ids] /\ RevokingTells(i)
    BY DEF IInv, AuthTypeOK, Commits
  <2> QED
    BY <2>1 DEF RevokingTells
<1> QED
  BY <1>5, <1>6, <1>8, <1>9, <1>11, <1>12, <1>13 DEF IInv

\* Commits leave the session of every other request, and what is revoked, as it is.
LEMMA Revoking ==
  ASSUME IInv, NEW gone \in SUBSET Ids
  PROVE  /\ WithoutSessions(gone) \in [Ids -> {"none", "active", "revoked"}]
         /\ \A i \in Ids : session[i] = "revoked" => WithoutSessions(gone)[i] = "revoked"
         /\ \A i \in gone : WithoutSessions(gone)[i] = "revoked"
         /\ \A i \in Ids \ gone : WithoutSessions(gone)[i] = session[i]
  BY DEF IInv, AuthTypeOK, WithoutSessions

\* Steps that move a request on: it flushes, reads or selects.
LEMMA AccountMoves ==
  ASSUME IInv, NEW r \in Requests, UNCHANGED applicationVars,
         \/ InsertAccount(r) \/ FlushVerify(r) \/ ReadUser(r) \/ RevokeUsed(r)
         \/ FlushReset(r) \/ SelectAfterReset(r) \/ FlushStatus(r) \/ SelectAfterStatus(r)
         \/ FlushRevoked(r)
  PROVE  IInv'
<1>1. /\ \A i \in Ids : \A t \in revoking[i] : session[t] # "none"
      /\ revoking \in [Ids -> SUBSET Ids] /\ application' = application
  BY DEF IInv, AuthTypeOK, RevokingTells, applicationVars
<1>2. {"read", "user", "flushed", "selected", "revoking"} \subseteq Running
  BY DEF Running
<1>3. CASE InsertAccount(r) \/ FlushVerify(r) \/ FlushReset(r) \/ FlushStatus(r)
  <2>1. Moves(r, "read", "flushed") /\ UNCHANGED <<userVars, tokenVars, revoking>>
    BY <1>3 DEF InsertAccount, FlushVerify, FlushReset, FlushStatus
  <2> QED
    BY <1>1, <1>2, <2>1, MovesKeep
<1>4. CASE ReadUser(r)
  BY <1>1, <1>2, <1>4, MovesKeep DEF ReadUser
<1>5. CASE RevokeUsed(r)
  BY <1>1, <1>2, <1>5, MovesKeep DEF RevokeUsed
<1>6. CASE FlushRevoked(r)
  BY <1>1, <1>2, <1>6, MovesKeep DEF FlushRevoked, FlushRevocations
<1>7. CASE SelectAfterReset(r) \/ SelectAfterStatus(r)
  <2>1. SelectSessions(r, "flushed")
    BY <1>7 DEF SelectAfterReset, SelectAfterStatus
  <2>2. Sessions(job[r].account) \in SUBSET Ids /\ \A t \in Sessions(job[r].account) : session[t] # "none"
    BY DEF Sessions
  <2>3. revoking' \in [Ids -> SUBSET Ids] /\ \A i \in Ids : \A t \in revoking'[i] : session[t] # "none"
    BY <1>1, <2>1, <2>2 DEF SelectSessions
  <2> QED
    BY <1>1, <1>2, <2>1, <2>3, MovesKeep DEF SelectSessions
<1> QED
  BY <1>3, <1>4, <1>5, <1>6, <1>7

LEMMA ApplicationMoves ==
  ASSUME IInv, NEW r \in Requests,
         \/ LookForRole(r) \/ GrantRole(r) \/ WithdrawRole(r) \/ SelectAfterRoles(r) \/ FlushReview(r)
  PROVE  IInv'
<1>1. /\ \A i \in Ids : \A t \in revoking[i] : session[t] # "none"
      /\ revoking \in [Ids -> SUBSET Ids]
  BY DEF IInv, AuthTypeOK, RevokingTells
<1>2. {"read", "flushed", "role", "selected"} \subseteq Running /\ Base(r) \in Running
  BY DEF Running, Base
<1>3. CASE LookForRole(r)
  BY <1>1, <1>2, <1>3, MovesKeep DEF LookForRole
<1>4. CASE GrantRole(r) \/ WithdrawRole(r)
  <2>1. PICK act : Makes(r, act)
    BY <1>4 DEF GrantRole, WithdrawRole
  <2> QED
    BY <1>1, <1>2, <2>1, MovesKeep DEF Makes
<1>5. CASE FlushReview(r)
  BY <1>1, <1>2, <1>5, MovesKeep DEF FlushReview, applicationVars
<1>6. CASE SelectAfterRoles(r)
  <2>1. SelectSessions(r, "read") /\ UNCHANGED applicationVars
    BY <1>6 DEF SelectAfterRoles
  <2>2. Sessions(job[r].account) \in SUBSET Ids /\ \A t \in Sessions(job[r].account) : session[t] # "none"
    BY DEF Sessions
  <2>3. revoking' \in [Ids -> SUBSET Ids] /\ \A i \in Ids : \A t \in revoking'[i] : session[t] # "none"
    BY <1>1, <2>1, <2>2 DEF SelectSessions
  <2> QED
    BY <1>1, <1>2, <2>1, <2>3, MovesKeep DEF SelectSessions, applicationVars
<1> QED
  BY <1>3, <1>4, <1>5, <1>6

\* Steps that end a request with nothing done
LEMMA Rollbacks ==
  ASSUME IInv, NEW r \in Requests,
         \/ (InsertClashes(r) \/ RefuseUser(r)) /\ UNCHANGED applicationVars
         \/ GrantClashes(r) \/ Fails(r)
  PROVE  IInv'
<1>1. "read" \in Running /\ "role" \in Running
  BY DEF Running
<1>2. pc[r] \in Running /\ RollsBack(r) /\ application' = application
  BY <1>1 DEF InsertClashes, RefuseUser, GrantClashes, Fails, Fail, Forgets, applicationVars
<1> QED
  BY <1>2, RollsBackKeeps

\* Requests that begin
LEMMA Begins == ASSUME IInv, NEW r \in Requests, Starts(r) PROVE IInv'
<1>1. None \in Statuses \cup {"ACTIVE", "INACTIVE", None}
  OBVIOUS
<1>2. ASSUME NEW kind \in Kinds, NEW a \in Accounts, NEW uses \in Ids \cup {None},
             NEW ask \in Statuses \cup {"ACTIVE", "INACTIVE", None}
      PROVE  /\ AsksFor(kind, a, uses, ask) \in Jobs
             /\ AsksFor(kind, a, uses, ask).kind = kind /\ AsksFor(kind, a, uses, ask).account = a
             /\ AsksFor(kind, a, uses, ask).uses = uses /\ AsksFor(kind, a, uses, ask).ask = ask
  BY DEF AsksFor, Jobs
<1>3. CASE \E a \in Accounts : BeginRegister(r, a) /\ UNCHANGED applicationVars
  <2> PICK a \in Accounts : BeginRegister(r, a) /\ UNCHANGED applicationVars
    BY <1>3
  <2>1. PICK j : j = AsksFor("register", a, None, None)
    OBVIOUS
  <2>2. j \in Jobs /\ j.kind = "register" /\ j.account = a
    BY <1>2, <2>1 DEF Kinds
  <2> QED
    BY <1>1, <2>1, <2>2, BeginKeeps DEF BeginRegister, applicationVars
<1>4. CASE \E a \in Accounts : BeginVerify(r, a) /\ UNCHANGED applicationVars
  <2> PICK a \in Accounts : BeginVerify(r, a) /\ UNCHANGED applicationVars
    BY <1>4
  <2>1. PICK j : j = AsksFor("verify", a, None, None)
    OBVIOUS
  <2>2. j \in Jobs /\ j.kind = "verify" /\ j.account = a
    BY <1>2, <2>1 DEF Kinds
  <2>3. active[a] \in Statuses \cup {"ACTIVE", "INACTIVE", None}
    BY DEF IInv, AuthTypeOK
  <2> QED
    BY <2>1, <2>2, <2>3, BeginKeeps DEF BeginVerify, applicationVars
<1>5. CASE \E a \in Accounts : (BeginLogin(r, a) \/ BeginForgot(r, a)) /\ UNCHANGED applicationVars
  <2> PICK a \in Accounts : (BeginLogin(r, a) \/ BeginForgot(r, a)) /\ UNCHANGED applicationVars
    BY <1>5
  <2>1. PICK kind \in {"login", "forgot"} : Begin(r, AsksFor(kind, a, None, None), None)
    BY DEF BeginLogin, BeginForgot
  <2>2. PICK j : j = AsksFor(kind, a, None, None)
    OBVIOUS
  <2>3. j \in Jobs /\ j.kind \in {"login", "forgot"} /\ j.account = a
    BY <1>2, <2>2 DEF Kinds
  <2> QED
    BY <1>1, <2>1, <2>2, <2>3, BeginKeeps DEF applicationVars
<1>6. CASE \E i \in Ids : BeginRefresh(r, i) /\ UNCHANGED applicationVars
  <2> PICK i \in Ids : BeginRefresh(r, i) /\ UNCHANGED applicationVars
    BY <1>6
  <2>1. PICK j : j = AsksFor("refresh", job[i].account, i, None)
    OBVIOUS
  <2>2. session[i] = "active" /\ IssuedTells(i)
    BY DEF BeginRefresh, IInv
  <2>3. job[i].account \in Accounts
    BY <2>2 DEF IssuedTells
  <2>4. j \in Jobs /\ j.kind = "refresh" /\ j.account = job[i].account /\ j.uses = i
    BY <1>2, <2>1, <2>3 DEF Kinds
  <2> QED
    BY <1>1, <2>1, <2>2, <2>3, <2>4, BeginKeeps DEF BeginRefresh, applicationVars
<1>7. CASE \E i \in Ids : BeginReset(r, i) /\ UNCHANGED applicationVars
  <2> PICK i \in Ids : BeginReset(r, i) /\ UNCHANGED applicationVars
    BY <1>7
  <2>1. PICK j : j = AsksFor("reset", job[i].account, i, None)
    OBVIOUS
  <2>2. reset[i] = "open" /\ IssuedTells(i)
    BY DEF BeginReset, IInv
  <2>3. job[i].account \in Accounts
    BY <2>2 DEF IssuedTells
  <2>4. j \in Jobs /\ j.kind = "reset" /\ j.account = job[i].account /\ j.uses = i
    BY <1>2, <2>1, <2>3 DEF Kinds
  <2> QED
    BY <1>1, <2>1, <2>2, <2>3, <2>4, BeginKeeps DEF BeginReset, applicationVars
<1>8. CASE \E a \in Accounts, value \in {"ACTIVE", "INACTIVE"} : BeginStatus(r, a, value) /\ UNCHANGED applicationVars
  <2> PICK a \in Accounts, value \in {"ACTIVE", "INACTIVE"} : BeginStatus(r, a, value) /\ UNCHANGED applicationVars
    BY <1>8
  <2>1. PICK j : j = AsksFor("status", a, None, value)
    OBVIOUS
  <2>2. j \in Jobs /\ j.kind = "status" /\ j.account = a /\ j.ask = value
    BY <1>2, <2>1 DEF Kinds
  <2>3. active[a] \in Statuses \cup {"ACTIVE", "INACTIVE", None}
    BY DEF IInv, AuthTypeOK
  <2> QED
    BY <2>1, <2>2, <2>3, BeginKeeps DEF BeginStatus, applicationVars
<1>9. CASE \E a \in Accounts, status \in NewStatuses : BeginApply(r, a, status)
  <2> PICK a \in Accounts, status \in NewStatuses : BeginApply(r, a, status)
    BY <1>9
  <2>1. PICK j : j = AsksFor("apply", a, None, status)
    OBVIOUS
  <2>2. status \in Statuses
    BY NewStatusesAssumption DEF Statuses
  <2>3. j \in Jobs /\ j.kind = "apply" /\ j.account = a /\ j.ask = status
    BY <1>2, <2>1, <2>2 DEF Kinds
  <2> QED
    BY <1>1, <2>1, <2>2, <2>3, BeginKeeps DEF BeginApply, Intends
<1>10. CASE \E a \in Accounts, lists \in RoleChanges : BeginRoles(r, a, lists)
  <2> PICK a \in Accounts, lists \in RoleChanges : BeginRoles(r, a, lists)
    BY <1>10
  <2>1. PICK j : j = AsksFor("roles", a, None, None)
    OBVIOUS
  <2>2. j \in Jobs /\ j.kind = "roles" /\ j.account = a
    BY <1>2, <2>1 DEF Kinds
  <2> QED
    BY <1>1, <2>1, <2>2, BeginKeeps DEF BeginRoles, Intends
<1>11. CASE \E i \in Ids, status \in Statuses : BeginReview(r, i, status)
  <2> PICK i \in Ids, status \in Statuses : BeginReview(r, i, status)
    BY <1>11
  <2>1. PICK j : j = AsksFor("review", job[i].account, i, status)
    OBVIOUS
  <2>2. application[i] # "none" /\ IssuedTells(i) /\ application[i] \in Statuses
    BY DEF BeginReview, IInv, AuthTypeOK
  <2>3. job[i].account \in Accounts
    BY <2>2 DEF IssuedTells
  <2>4. j \in Jobs /\ j.kind = "review" /\ j.account = job[i].account /\ j.uses = i /\ j.ask = status
    BY <1>2, <2>1, <2>3 DEF Kinds
  <2> QED
    BY <2>1, <2>2, <2>3, <2>4, BeginKeeps DEF BeginReview, Intends
<1> QED
  BY <1>3, <1>4, <1>5, <1>6, <1>7, <1>8, <1>9, <1>10, <1>11 DEF Starts

\* What a commit may write has its type.
LEMMA CommitTypes ==
  ASSUME IInv, NEW r \in Requests, NEW from \in Running, Commits(r, from),
         registrant' \in [Accounts -> Ids \cup {None}], active' \in [Accounts -> {"ACTIVE", "INACTIVE"}],
         activeBy' \in [Accounts -> Ids \cup {None}], verified' \in [Accounts -> BOOLEAN],
         session' \in [Ids -> {"none", "active", "revoked"}], reset' \in [Ids -> {"none", "open", "used"}],
         application' \in [Ids -> Statuses \cup {"none"}]
  PROVE  AuthTypeOK'
<1>1. /\ pc' = [pc EXCEPT ![r] = "done"] /\ saw' = [saw EXCEPT ![r] = None]
      /\ revoking' = [revoking EXCEPT ![r] = {}] /\ UNCHANGED <<job, past>>
  BY DEF Commits
<1>2. AuthTypeOK /\ "done" \in Ended
  BY DEF IInv, Ended
<1>3. pc' \in [Ids -> Running \cup Ended \cup {"idle"}]
  BY <1>1, <1>2 DEF AuthTypeOK
<1>4. saw' \in [Ids -> Statuses \cup {"ACTIVE", "INACTIVE", None}]
  BY <1>1, <1>2 DEF AuthTypeOK
<1>5. revoking' \in [Ids -> SUBSET Ids]
  BY <1>1, <1>2 DEF AuthTypeOK
<1>6. job' \in [Ids -> Jobs] /\ past' \in [Ids -> SUBSET Ids]
  BY <1>1, <1>2 DEF AuthTypeOK
<1> QED
  BY <1>3, <1>4, <1>5, <1>6 DEF AuthTypeOK

\* What every commit below starts from
LEMMA Committing ==
  ASSUME IInv, NEW r \in Requests, NEW from \in Running, Commits(r, from)
  PROVE  /\ AuthTypeOK /\ JobTells(r) /\ r \in Ids /\ r # Earlier /\ job[r].account \in Accounts
         /\ job[r].kind \in {"refresh", "reset", "review"} => job[r].uses \in Ids
         /\ job[r].kind = "refresh" => job[r].uses # r /\ session[job[r].uses] # "none"
         /\ job[r].kind \in {"apply", "review"} => job[r].ask \in Statuses
         /\ job[r].kind = "status" => job[r].ask \in {"ACTIVE", "INACTIVE"}
         /\ revoking[r] \in SUBSET Ids
<1>1. AuthTypeOK /\ JobTells(r) /\ r \in Ids /\ r # Earlier /\ pc[r] \in Running
  BY AccountsAssumption DEF IInv, Ids, Commits
<1>2. session[r] = "none"
  BY <1>1 DEF IInv, IssuedTells, Running
<1> QED
  BY <1>1, <1>2 DEF JobTells, AuthTypeOK

LEMMA CommitRegisterKeeps ==
  ASSUME IInv, NEW r \in Requests, CommitRegister(r), UNCHANGED applicationVars PROVE IInv'
<1>1. /\ "flushed" \in Running /\ Commits(r, "flushed") /\ job[r].kind = "register"
      /\ UNCHANGED <<verified, session, reset, application>>
  BY DEF CommitRegister, Running, tokenVars, applicationVars
<1>2. PICK a \in Accounts : a = job[r].account
  BY <1>1, Committing
<1>3. /\ registrant' = [registrant EXCEPT ![a] = r] /\ active' = [active EXCEPT ![a] = "INACTIVE"]
      /\ activeBy' = [activeBy EXCEPT ![a] = r]
  BY <1>2 DEF CommitRegister
<1>4. AuthTypeOK /\ r \in Ids
  BY <1>1, Committing
<1>5. AuthTypeOK'
  BY <1>1, <1>3, <1>4, CommitTypes DEF AuthTypeOK
<1>6. \A b \in Accounts : registrant'[b] = registrant[b] \/ (b = a /\ registrant'[b] = r)
  BY <1>3, <1>4 DEF AuthTypeOK
<1> QED
  BY <1>1, <1>2, <1>5, <1>6, CommitsKeep

LEMMA CommitVerifyKeeps ==
  ASSUME IInv, NEW r \in Requests, CommitVerify(r), UNCHANGED applicationVars PROVE IInv'
<1>1. /\ "flushed" \in Running /\ Commits(r, "flushed") /\ job[r].kind = "verify"
      /\ UNCHANGED <<registrant, session, reset, application>>
  BY DEF CommitVerify, Running, tokenVars, applicationVars
<1>2. PICK a \in Accounts : a = job[r].account
  BY <1>1, Committing
<1>3. /\ verified' = [verified EXCEPT ![a] = TRUE]
      /\ active' = [active EXCEPT ![a] = "ACTIVE"] \/ active' = active
      /\ activeBy' = [activeBy EXCEPT ![a] = r] \/ activeBy' = activeBy
  BY <1>2 DEF CommitVerify
<1>4. AuthTypeOK /\ r \in Ids
  BY <1>1, Committing
<1>5. verified' \in [Accounts -> BOOLEAN] /\ verified'[a] /\ \A b \in Accounts : verified[b] => verified'[b]
  BY <1>3, <1>4 DEF AuthTypeOK
<1>6. AuthTypeOK'
  BY <1>1, <1>3, <1>4, <1>5, CommitTypes DEF AuthTypeOK
<1> QED
  BY <1>1, <1>2, <1>5, <1>6, CommitsKeep

LEMMA CommitLoginKeeps ==
  ASSUME IInv, NEW r \in Requests, CommitLogin(r) \/ CommitForgot(r), UNCHANGED applicationVars PROVE IInv'
<1>1. /\ "read" \in Running /\ Commits(r, "read") /\ job[r].kind \in {"login", "forgot"}
      /\ UNCHANGED <<registrant, active, activeBy, verified, application>>
      /\ session' = session \/ session' = [session EXCEPT ![r] = "active"]
      /\ reset' = reset \/ reset' = [reset EXCEPT ![r] = "open"]
  BY DEF CommitLogin, CommitForgot, Running, userVars, applicationVars
<1>2. AuthTypeOK /\ r \in Ids
  BY <1>1, Committing
<1>9. pc[r] = "read"
  BY <1>1 DEF Commits
<1>3. AuthTypeOK'
  BY <1>1, <1>2, CommitTypes DEF AuthTypeOK
<1>4. session[r] = "none" /\ reset[r] = "none"
  BY <1>2, <1>9 DEF IInv, IssuedTells, AuthTypeOK
<1>5. /\ \A i \in Ids : session[i] = "revoked" => session'[i] = "revoked"
      /\ \A i \in Ids : reset[i] = "used" => reset'[i] = "used"
      /\ \A i \in Ids : session[i] # "none" => session'[i] # "none"
      /\ \A i \in Ids : reset[i] # "none" => reset'[i] # "none"
      /\ \A i \in Ids \ {r} : session'[i] = session[i] /\ reset'[i] = reset[i]
  BY <1>1, <1>2, <1>4 DEF AuthTypeOK
<1> QED
  BY <1>1, <1>3, <1>5, CommitsKeep

LEMMA CommitRefreshKeeps ==
  ASSUME IInv, NEW r \in Requests, CommitRefresh(r), UNCHANGED applicationVars PROVE IInv'
<1>1. /\ "flushed" \in Running /\ Commits(r, "flushed") /\ job[r].kind = "refresh"
      /\ UNCHANGED <<registrant, active, activeBy, verified, reset, application>>
  BY DEF CommitRefresh, Running, userVars, applicationVars
<1>2. AuthTypeOK /\ r \in Ids /\ job[r].uses \in Ids /\ pc[r] = "flushed"
  BY <1>1, Committing DEF Commits
<1>3. session[r] = "none"
  BY <1>2 DEF IInv, IssuedTells, AuthTypeOK
<1>4. PICK s \in Ids : s = job[r].uses
  BY <1>2
<1>5. PICK without : without = WithoutSessions({s})
  OBVIOUS
<1>6. /\ without \in [Ids -> {"none", "active", "revoked"}] /\ without[s] = "revoked"
      /\ \A i \in Ids : session[i] = "revoked" => without[i] = "revoked"
      /\ \A i \in Ids \ {s} : without[i] = session[i]
  BY <1>5, Revoking
<1>7. session' = [without EXCEPT ![r] = "active"]
  BY <1>4, <1>5 DEF CommitRefresh
<1>8. AuthTypeOK'
  BY <1>1, <1>2, <1>6, <1>7, CommitTypes DEF AuthTypeOK
<1>9. s # r
  BY <1>1, <1>4, Committing
<1>10. /\ \A i \in Ids : session[i] = "revoked" => session'[i] = "revoked"
       /\ \A i \in Ids : session[i] # "none" => session'[i] # "none"
       /\ \A i \in Ids \ {r} : session[i] = "none" => session'[i] = "none"
       /\ session'[s] = "revoked"
  <2>1. session'[s] = "revoked"
    BY <1>6, <1>7, <1>9
  <2>2. \A i \in Ids \ {r} : session'[i] = without[i]
    BY <1>6, <1>7
  <2>3. \A i \in Ids \ {r, s} : session'[i] = session[i]
    BY <1>6, <2>2
  <2>4. session[s] # "none"
    BY <1>1, <1>4, Committing
  <2> QED
    BY <1>3, <2>1, <2>3, <2>4
<1> QED
  BY <1>1, <1>4, <1>8, <1>10, CommitsKeep

\* Revoking sessions keeps what the invariant says of them.
LEMMA RevokingKeeps ==
  ASSUME IInv, NEW gone \in SUBSET Ids, \A i \in gone : session[i] # "none",
         session' = WithoutSessions(gone)
  PROVE  /\ session' \in [Ids -> {"none", "active", "revoked"}]
         /\ \A i \in Ids : session[i] = "revoked" => session'[i] = "revoked"
         /\ \A i \in Ids : session[i] # "none" => session'[i] # "none"
         /\ \A i \in Ids : session[i] = "none" => session'[i] = "none"
<1>1. PICK without : without = WithoutSessions(gone)
  OBVIOUS
<1>2. /\ without \in [Ids -> {"none", "active", "revoked"}]
      /\ \A i \in Ids : session[i] = "revoked" => without[i] = "revoked"
      /\ \A i \in gone : without[i] = "revoked"
      /\ \A i \in Ids \ gone : without[i] = session[i]
  BY <1>1, Revoking
<1> QED
  BY <1>1, <1>2

LEMMA CommitResetKeeps ==
  ASSUME IInv, NEW r \in Requests, CommitReset(r), UNCHANGED applicationVars PROVE IInv'
<1>1. /\ "revoking" \in Running /\ Commits(r, "revoking") /\ job[r].kind = "reset"
      /\ UNCHANGED <<registrant, active, activeBy, verified, application>>
      /\ session' = WithoutSessions(revoking[r])
  BY DEF CommitReset, Running, userVars, applicationVars
<1>2. /\ AuthTypeOK /\ r \in Ids /\ revoking[r] \in SUBSET Ids /\ job[r].uses \in Ids
      /\ \A t \in revoking[r] : session[t] # "none"
  BY <1>1, Committing DEF IInv, RevokingTells
<1>3. PICK t \in Ids : t = job[r].uses
  BY <1>2
<1>4. reset' = [reset EXCEPT ![t] = "used"]
  BY <1>3 DEF CommitReset
<1>5. /\ session' \in [Ids -> {"none", "active", "revoked"}]
      /\ \A i \in Ids : session[i] = "revoked" => session'[i] = "revoked"
      /\ \A i \in Ids : session[i] # "none" => session'[i] # "none"
      /\ \A i \in Ids : session[i] = "none" => session'[i] = "none"
  BY <1>1, <1>2, RevokingKeeps
<1>6. reset \in [Ids -> {"none", "open", "used"}]
  BY <1>2 DEF AuthTypeOK
<1>7. reset' \in [Ids -> {"none", "open", "used"}] /\ reset'[t] = "used" /\ \A i \in Ids \ {t} : reset'[i] = reset[i]
  BY <1>4, <1>6
<1>8. AuthTypeOK'
  BY <1>1, <1>2, <1>5, <1>7, CommitTypes DEF AuthTypeOK
<1>9. reset[t] # "none"
  BY <1>1, <1>3 DEF IInv, JobTells, Commits
<1>10. /\ \A i \in Ids : reset[i] = "used" => reset'[i] = "used"
       /\ \A i \in Ids : reset[i] = "none" => reset'[i] = "none"
  BY <1>7, <1>9
<1> QED
  BY <1>1, <1>3, <1>5, <1>7, <1>8, <1>10, CommitsKeep

LEMMA CommitStatusKeeps ==
  ASSUME IInv, NEW r \in Requests, CommitStatus(r), UNCHANGED applicationVars PROVE IInv'
<1>1. PICK from \in {"revoking", "flushed"} : Commits(r, from)
  BY DEF CommitStatus
<1>2. /\ from \in Running /\ job[r].kind = "status" /\ session' = WithoutSessions(revoking[r])
      /\ UNCHANGED <<registrant, verified, reset, application>>
  BY DEF CommitStatus, Running, applicationVars
<1>3. /\ AuthTypeOK /\ r \in Ids /\ revoking[r] \in SUBSET Ids /\ job[r].ask \in {"ACTIVE", "INACTIVE"}
      /\ \A t \in revoking[r] : session[t] # "none"
  BY <1>1, <1>2, Committing DEF IInv, RevokingTells
<1>4. PICK a \in Accounts : a = job[r].account
  BY <1>1, <1>2, Committing
<1>5. /\ active' = [active EXCEPT ![a] = job[r].ask] \/ active' = active
      /\ activeBy' = [activeBy EXCEPT ![a] = r] \/ activeBy' = activeBy
  BY <1>4 DEF CommitStatus
<1>6. /\ session' \in [Ids -> {"none", "active", "revoked"}]
      /\ \A i \in Ids : session[i] = "revoked" => session'[i] = "revoked"
      /\ \A i \in Ids : session[i] # "none" => session'[i] # "none"
      /\ \A i \in Ids : session[i] = "none" => session'[i] = "none"
  BY <1>2, <1>3, RevokingKeeps
<1>7. active' \in [Accounts -> {"ACTIVE", "INACTIVE"}] /\ activeBy' \in [Accounts -> Ids \cup {None}]
  BY <1>3, <1>5 DEF AuthTypeOK
<1>8. AuthTypeOK'
  BY <1>1, <1>2, <1>3, <1>6, <1>7, CommitTypes DEF AuthTypeOK
<1> QED
  BY <1>1, <1>2, <1>6, <1>8, CommitsKeep

LEMMA CommitRolesKeeps ==
  ASSUME IInv, NEW r \in Requests, CommitRoles(r) PROVE IInv'
<1>1. /\ "revoking" \in Running /\ Commits(r, "revoking") /\ job[r].kind = "roles"
      /\ session' = WithoutSessions(revoking[r])
      /\ UNCHANGED <<registrant, active, activeBy, verified, reset, application>>
  BY DEF CommitRoles, Running, userVars
<1>2. /\ AuthTypeOK /\ r \in Ids /\ revoking[r] \in SUBSET Ids /\ job[r].account \in Accounts
      /\ \A t \in revoking[r] : session[t] # "none"
  BY <1>1, Committing DEF IInv, RevokingTells
<1>3. /\ session' \in [Ids -> {"none", "active", "revoked"}]
      /\ \A i \in Ids : session[i] = "revoked" => session'[i] = "revoked"
      /\ \A i \in Ids : session[i] # "none" => session'[i] # "none"
      /\ \A i \in Ids : session[i] = "none" => session'[i] = "none"
  BY <1>1, <1>2, RevokingKeeps
<1>4. AuthTypeOK'
  BY <1>1, <1>2, <1>3, CommitTypes DEF AuthTypeOK
<1> QED
  BY <1>1, <1>3, <1>4, CommitsKeep

LEMMA CommitApplyKeeps ==
  ASSUME IInv, NEW r \in Requests, CommitApply(r) PROVE IInv'
<1>1. /\ "read" \in Running /\ Commits(r, "read") /\ job[r].kind = "apply"
      /\ application' = [application EXCEPT ![r] = job[r].ask]
      /\ UNCHANGED <<registrant, active, activeBy, verified, session, reset>>
  BY DEF CommitApply, Running, userVars, tokenVars
<1>2. AuthTypeOK /\ r \in Ids /\ job[r].account \in Accounts /\ job[r].ask \in Statuses
  BY <1>1, Committing
<1>3. /\ application' \in [Ids -> Statuses \cup {"none"}] /\ application'[r] # "none"
      /\ \A i \in Ids \ {r} : application'[i] = application[i]
  BY <1>1, <1>2 DEF AuthTypeOK, Statuses
<1>4. AuthTypeOK'
  BY <1>1, <1>2, <1>3, CommitTypes DEF AuthTypeOK
<1> QED
  BY <1>1, <1>3, <1>4, CommitsKeep

\* What a review makes of the applications
LEMMA Reviewing ==
  ASSUME IInv, NEW r \in Requests, CommitReview(r)
  PROVE  /\ job[r].uses \in Ids /\ application[job[r].uses] # "none" /\ job[r].ask \in Statuses
         /\ application' \in [Ids -> Statuses \cup {"none"}]
         /\ \A i \in Ids : application'[i] =
              IF i = job[r].uses /\ saw[r] # job[r].ask THEN job[r].ask ELSE application[i]
<1>1. "flushed" \in Running /\ Commits(r, "flushed") /\ job[r].kind = "review"
  BY DEF CommitReview, Running
<1>2. /\ AuthTypeOK /\ JobTells(r) /\ job[r].ask \in Statuses /\ job[r].uses \in Ids /\ pc[r] \in Running
  BY <1>1, Committing DEF Commits
<1>3. PICK t \in Ids : t = job[r].uses
  BY <1>2
<1>4. PICK ask \in Statuses : ask = job[r].ask
  BY <1>2
<1>5. application' = IF saw[r] # ask THEN [application EXCEPT ![t] = ask] ELSE application
  BY <1>3, <1>4 DEF CommitReview
<1>6. application \in [Ids -> Statuses \cup {"none"}]
  BY <1>2 DEF AuthTypeOK
<1>7. application[t] # "none"
  BY <1>1, <1>2, <1>3 DEF JobTells
<1> QED
  BY <1>3, <1>4, <1>5, <1>6, <1>7

LEMMA CommitReviewKeeps ==
  ASSUME IInv, NEW r \in Requests, CommitReview(r) PROVE IInv'
<1>1. /\ "flushed" \in Running /\ Commits(r, "flushed") /\ job[r].kind = "review"
      /\ UNCHANGED <<registrant, active, activeBy, verified, session, reset>>
  BY DEF CommitReview, Running, userVars, tokenVars
<1>2. AuthTypeOK /\ r \in Ids /\ application' \in [Ids -> Statuses \cup {"none"}]
  BY <1>1, Committing, Reviewing
<1>3. AuthTypeOK'
  BY <1>1, <1>2, CommitTypes DEF AuthTypeOK
<1>4. /\ \A i \in Ids : application[i] # "none" => application'[i] # "none"
      /\ \A i \in Ids \ {r} : application[i] = "none" => application'[i] = "none"
      /\ application[r] = "none" => application'[r] = "none"
  BY <1>2, Reviewing DEF Statuses
<1>5. \A i \in Ids \ {r} : application'[i] = "PENDING" => application[i] = "PENDING"
                               \/ (job[r].kind = "review" /\ job[r].ask = "PENDING" /\ job[r].uses = i)
  BY <1>1, Reviewing
<1> QED
  BY <1>1, <1>3, <1>4, <1>5, CommitsKeep

\* What the database holds always fits the requests that ended: what they used is used up,
\* what there is was issued by one of them.
THEOREM SpecRequestsInv == Spec => []IInv
<1>1. ASSUME IInv, Next PROVE IInv'
  <2> PICK r \in Requests : Starts(r) \/ Proceeds(r) \/ Fails(r)
    BY <1>1 DEF Next
  <2>1. CASE Starts(r)
    BY <1>1, <2>1, Begins
  <2>2. CASE Fails(r)
    BY <1>1, <2>2, Rollbacks
  <2>3. CASE Proceeds(r)
    <3>1. CASE ApplicationStep(r)
      <4>1. CASE LookForRole(r) \/ GrantRole(r) \/ WithdrawRole(r) \/ SelectAfterRoles(r) \/ FlushReview(r)
        BY <1>1, <4>1, ApplicationMoves
      <4>2. CASE GrantClashes(r)
        BY <1>1, <4>2, Rollbacks
      <4>3. CASE CommitRoles(r) \/ CommitApply(r) \/ CommitReview(r)
        BY <1>1, <4>3, CommitRolesKeeps, CommitApplyKeeps, CommitReviewKeeps
      <4> QED
        BY <3>1, <4>1, <4>2, <4>3 DEF ApplicationStep
    <3>2. CASE (AccountStep(r) \/ FlushRevoked(r)) /\ UNCHANGED applicationVars
      <4>1. CASE \/ InsertAccount(r) \/ FlushVerify(r) \/ ReadUser(r) \/ RevokeUsed(r)
                 \/ FlushReset(r) \/ SelectAfterReset(r) \/ FlushStatus(r) \/ SelectAfterStatus(r)
                 \/ FlushRevoked(r)
        BY <1>1, <3>2, <4>1, AccountMoves
      <4>2. CASE InsertClashes(r) \/ RefuseUser(r)
        BY <1>1, <3>2, <4>2, Rollbacks
      <4>3. CASE \/ CommitRegister(r) \/ CommitVerify(r) \/ CommitLogin(r) \/ CommitForgot(r)
                 \/ CommitRefresh(r) \/ CommitReset(r) \/ CommitStatus(r)
        BY <1>1, <3>2, <4>3, CommitRegisterKeeps, CommitVerifyKeeps, CommitLoginKeeps, CommitRefreshKeeps,
           CommitResetKeeps, CommitStatusKeeps
      <4> QED
        BY <3>2, <4>1, <4>2, <4>3 DEF AccountStep
    <3> QED
      BY <2>3, <3>1, <3>2 DEF Proceeds
  <2> QED
    BY <2>1, <2>2, <2>3
<1>2. ASSUME IInv, UNCHANGED vars PROVE IInv'
  BY <1>2 DEF vars, userVars, tokenVars, requestVars, applicationVars, IInv, AuthTypeOK, EarlierTells,
     JobTells, IssuedTells, SpentTells, PastTells, RevokingTells, RowTells, HasRow, PendingAgain
<1> QED
  BY <1>1, <1>2, InitAuth, PTL DEF Spec

\* A token, an address and a pending application are checked in one statement and written in
\* a later one.  Whatever the requests and their order, the check fails only between requests
\* that overlapped: what ended before a request began is seen by it.
THEOREM SpecChecksFailOnlyByOverlap == Spec => []ChecksFailOnlyByOverlap
<1>1. ASSUME IInv PROVE ChecksFailOnlyByOverlap
  <2>1. TokenSpentTwiceOnlyByOverlap
    <3> SUFFICES ASSUME NEW q \in Done(Checked), NEW r \in Done(Checked), q # r, job[q] = job[r]
                 PROVE  Overlap(q, r)
      BY DEF TokenSpentTwiceOnlyByOverlap, Checked
    <3>1. /\ q \in Ids /\ r \in Ids /\ pc[q] = "done" /\ pc[r] = "done"
          /\ job[q].kind \in Checked /\ job[r].kind \in Checked
      BY DEF Done, Ids
    <3>2. PastTells(q) /\ PastTells(r)
      BY <1>1, <3>1 DEF IInv
    <3> QED
      BY <3>1, <3>2 DEF PastTells, Overlap
  <2>2. AccountsClashOnlyByOverlap
    <3> SUFFICES ASSUME NEW a \in Accounts, NEW b \in Accounts, a # b, HasRow(a), HasRow(b),
                        MailboxOf[a] = MailboxOf[b]
                 PROVE  registrant[b] \notin past[registrant[a]]
      BY DEF AccountsClashOnlyByOverlap, Overlap
    <3>1. registrant[a] \in Ids /\ registrant[b] \in Ids
      BY <1>1 DEF IInv, AuthTypeOK, HasRow
    <3>2. CASE registrant[a] = Earlier
      BY <1>1, <3>2 DEF IInv, EarlierTells
    <3>3. CASE registrant[a] # Earlier
      <4>1. job[registrant[a]].kind = "register" /\ job[registrant[a]].account = a
        BY <1>1, <3>3 DEF IInv, RowTells
      <4>2. PastTells(registrant[a])
        BY <1>1, <3>1 DEF IInv
      <4> QED
        BY <4>1, <4>2 DEF PastTells
    <3> QED
      BY <3>2, <3>3
  <2>3. PendingTwiceOnlyByOverlapOrReview
    <3>1. ASSUME NEW a \in Accounts, NEW t \in Pending(a), NEW u \in Pending(a), t # u, u \in past[t]
          PROVE  PendingAgain(u)
      <4>1. /\ t \in Ids /\ u \in Ids /\ application[t] = "PENDING" /\ application[u] = "PENDING"
            /\ job[t].account = job[u].account
        BY DEF Pending
      <4>2. t # Earlier
        BY <1>1, <3>1 DEF IInv, EarlierTells
      <4>3. job[t].kind = "apply" /\ PastTells(t)
        BY <1>1, <4>1, <4>2 DEF IInv, IssuedTells
      <4> QED
        BY <3>1, <4>1, <4>3 DEF PastTells
    <3>2. ASSUME NEW a \in Accounts, NEW t \in Pending(a), NEW u \in Pending(a), t # u, ~Overlap(t, u)
          PROVE  \E r \in Done({"review"}) : job[r].ask = "PENDING" /\ job[r].uses \in {t, u}
      <4>1. PendingAgain(t) \/ PendingAgain(u)
        BY <3>1, <3>2 DEF Overlap
      <4> QED
        BY <4>1 DEF PendingAgain, Done
    <3> QED
      BY <3>2 DEF PendingTwiceOnlyByOverlapOrReview
  <2> QED
    BY <2>1, <2>2, <2>3 DEF ChecksFailOnlyByOverlap
<1> QED
  BY <1>1, SpecRequestsInv, PTL
-----------------------------------------------------------------------------
(***************************************************************************)
(* Roles: what a state says of the changes that requests have made, are    *)
(* making and have yet to make.                                            *)
(***************************************************************************)
Changing == {"roles", "apply", "review"}

RoleTypeOK ==
    /\ holder \in [Accounts -> [Roles -> Requests \cup {None}]]
    /\ changes \in [Ids -> Seq(Change)]
    /\ made \in [Ids -> Nat]
    /\ found \in [Ids -> Requests \cup {None}]
    /\ own \in [Ids -> [Roles -> {"none", "insert", "delete", "undone"}]]

\* The row of a role was inserted by a request that is done and gives it.
HolderTells(a) ==
    \A x \in Roles :
        LET q == holder[a][x] IN
        q # None => q \in Requests /\ pc[q] = "done" /\ job[q].account = a /\ Grants(q, x)

\* A role row is in the hands of one request at a time.
Exclusive ==
    \A q, r \in Requests, x \in Roles :
        q # r /\ job[q].account = job[r].account => own[q][x] = "none" \/ own[r][x] = "none"

\* How far a request is with its changes, and what it has flushed for them.
ChangesTell(r) ==
    /\ r \notin past[r]
    /\ made[r] <= Len(changes[r])
    /\ pc[r] = "role" => made[r] < Len(changes[r])
    /\ pc[r] \in {"selected", "revoking"} => AllMade(r)
    /\ pc[r] \notin Running => own[r] = Untouched /\ made[r] = 0
    /\ pc[r] \notin Running \cup {"done"} => changes[r] = <<>>
    /\ found[r] # None => pc[r] = "role"
    /\ \A k \in DOMAIN changes[r] :
         job[r].kind \in Changing /\ (changes[r][k].does = "remove" => job[r].kind = "roles")
FlushedTells(r) ==
    \A x \in Roles :
        /\ own[r][x] = "insert" => Grants(r, x)
        /\ own[r][x] \in {"delete", "undone"} => Withdraws(r, x)
        /\ own[r][x] \in {"insert", "undone"} => holder[job[r].account][x] = None

\* A change is behind a request when it has made it.
Behind(r, k) == k \in DOMAIN changes[r] /\ (k <= made[r] \/ pc[r] = "done")

\* The role row a request has found or inserted is there, unless a withdrawal has ended since.
Removed(r, x) ==
    \E q \in Requests :
        /\ pc[q] = "done" /\ job[q].kind = "roles" /\ Withdraws(q, x)
        /\ job[q].account = job[r].account /\ q \notin past[r]
Held(r, x) == holder[job[r].account][x] # None \/ own[r][x] = "insert" \/ Removed(r, x)
GivenTells(r) ==
    \A x \in Roles :
        Withdraws(r, x)
        \/ /\ \A k \in Nat : Behind(r, k) /\ Asks(changes[r][k], "add", x) => Held(r, x)
           /\ pc[r] = "role" /\ Asks(NextChange(r), "add", x) /\ found[r] # None => Held(r, x)

\* A role row from before a request that withdraws it is the one the request finds and deletes.
ClearedTells(r) ==
    \A x \in Roles : \A q \in past[r] :
        holder[job[r].account][x] = q =>
            /\ \A k \in Nat : Behind(r, k) /\ Asks(changes[r][k], "remove", x) => own[r][x] = "delete"
            /\ pc[r] = "role" /\ Asks(NextChange(r), "remove", x) => found[r] = q \/ own[r][x] = "delete"

\* A request gives before it withdraws, and a role it has withdrawn it has not.
GivesFirst(list) ==
    \A k, l \in DOMAIN list : k < l /\ list[k].does = "remove" => list[l].does = "remove"
LastTells(r) ==
    /\ GivesFirst(changes[r])
    /\ pc[r] = "role" /\ own[r][NextChange(r).role] = "insert" => found[r] # None
    /\ \A x \in Roles : \A k \in Nat :
         Behind(r, k) /\ Asks(changes[r][k], "remove", x) =>
            own[r][x] # "insert" /\ holder[job[r].account][x] # r

RoleInv ==
    /\ RoleTypeOK
    /\ Exclusive
    /\ \A a \in Accounts : HolderTells(a)
    /\ \A r \in Requests : /\ ChangesTell(r) /\ FlushedTells(r)
                           /\ GivenTells(r) /\ ClearedTells(r) /\ LastTells(r)

\* An application is what its review saw, until that is done, and then what it made of it,
\* unless another review has ended since.
ReviewedSince(r) ==
    \E q \in Requests \ {r} :
        /\ pc[q] = "done" /\ job[q].kind = "review"
        /\ job[q].uses = job[r].uses /\ q \notin past[r]
ReviewTells(r) ==
    job[r].kind = "review" /\ pc[r] \in Running \cup {"done"} =>
        \/ application[job[r].uses] = IF pc[r] = "done" THEN job[r].ask ELSE saw[r]
        \/ ReviewedSince(r)
SubmissionTells(t) ==
    pc[t] = "done" /\ job[t].kind = "apply" =>
        \/ application[t] = job[t].ask
        \/ \E q \in Requests : pc[q] = "done" /\ job[q].kind = "review" /\ job[q].uses = t

ReviewInv == \A r \in Requests : ReviewTells(r) /\ SubmissionTells(r)

\* Nobody has a role, and nothing is reviewed, before a request has done it.
LEMMA InitRoles == Init => RoleInv /\ ReviewInv
<1> SUFFICES ASSUME Init PROVE RoleInv /\ ReviewInv
  OBVIOUS
<1>1. Earlier \notin Requests /\ None \notin Ids
  BY AccountsAssumption DEF Ids
<1>2. /\ \A i \in Ids : pc[i] = IF i = Earlier THEN "done" ELSE "idle"
      /\ past = [i \in Ids |-> {}]
      /\ holder = [a \in Accounts |-> [x \in Roles |-> None]]
      /\ changes = [i \in Ids |-> <<>>] /\ made = [i \in Ids |-> 0]
      /\ found = [i \in Ids |-> None] /\ own = [i \in Ids |-> Untouched]
  BY DEF Init
<1>3. RoleTypeOK
  BY <1>2 DEF RoleTypeOK, Untouched
<1>4. ASSUME NEW r \in Requests
      PROVE  /\ pc[r] = "idle" /\ past[r] = {} /\ changes[r] = <<>> /\ made[r] = 0 /\ found[r] = None
             /\ own[r] = Untouched /\ \A x \in Roles : own[r][x] = "none"
  BY <1>1, <1>2 DEF Ids, Untouched
<1>5. Exclusive /\ \A a \in Accounts : HolderTells(a)
  BY <1>2, <1>4 DEF Exclusive, HolderTells
<1>6. ASSUME NEW r \in Requests
      PROVE  ChangesTell(r) /\ FlushedTells(r) /\ GivenTells(r) /\ ClearedTells(r) /\ LastTells(r)
  BY <1>4 DEF ChangesTell, FlushedTells, GivenTells, ClearedTells, LastTells, GivesFirst, Behind, Running
<1>7. ReviewInv
  BY <1>4 DEF ReviewInv, ReviewTells, SubmissionTells, Running
<1> QED
  BY <1>3, <1>5, <1>6, <1>7 DEF RoleInv

\* A request of another kind has nothing to do with roles.
LEMMA ChangesNothing ==
  ASSUME RoleInv, NEW r \in Requests, job[r].kind \notin Changing
  PROVE  changes[r] = <<>> /\ made[r] = 0 /\ own[r] = Untouched
<1>1. ChangesTell(r) /\ FlushedTells(r) /\ RoleTypeOK /\ r \in Ids
  BY DEF RoleInv, Ids
<1>2. changes[r] \in Seq(Change) /\ made[r] \in Nat /\ own[r] \in [Roles -> {"none", "insert", "delete", "undone"}]
  BY <1>1 DEF RoleTypeOK
<1>3. DOMAIN changes[r] = {}
  BY <1>1 DEF ChangesTell
<1>4. changes[r] = <<>> /\ made[r] = 0
  <2>1. Len(changes[r]) = 0
    <3>1. Len(changes[r]) \in Nat /\ DOMAIN changes[r] = 1..Len(changes[r])
      BY <1>2
    <3>2. 1 \notin 1..Len(changes[r])
      BY <1>3, <3>1
    <3> QED
      BY <3>1, <3>2
  <2>2. made[r] <= Len(changes[r])
    BY <1>1 DEF ChangesTell
  <2> QED
    BY <1>2, <2>1, <2>2
<1>5. \A x \in Roles : own[r][x] = "none"
  BY <1>1, <1>2, <1>3 DEF FlushedTells, Grants, Withdraws
<1> QED
  BY <1>2, <1>4, <1>5 DEF Untouched

\* What there is of a request's changes is about an account that has a row.
LEMMA ChangingAccount ==
  ASSUME IInv, RoleInv, NEW r \in Requests,
         pc[r] \in Running \cup {"done"} \/ changes[r] # <<>> \/ own[r] # Untouched
  PROVE  job[r].account \in Accounts /\ pc[r] \in Running \cup {"done"}
BY DEF IInv, JobTells, RoleInv, ChangesTell

\* Whoever is at work, or has yet to begin, has ended before nobody.
LEMMA NotYetEnded ==
  ASSUME IInv, NEW r \in Requests, pc[r] \in Running \cup {"idle"}
  PROVE  /\ r \in Ids /\ r # None /\ pc[r] \notin Ended /\ pc[r] # "done"
         /\ \A i \in Ids : r \notin past[i] /\ past[i] \in SUBSET Ids
         /\ None \notin Ids
<1>1. r \in Ids /\ None \notin Ids
  BY AccountsAssumption DEF Ids
<1>2. pc[r] \notin Ended /\ pc[r] # "done"
  BY DEF Running, Ended
<1> QED
  BY <1>1, <1>2 DEF IInv, PastTells, AuthTypeOK

\* A step of one request leaves what a state says of the roles of the others as it is: it
\* takes over only rows that nobody has, and what its commit takes from another's reach it
\* withdraws.
LEMMA OthersKeepRoles ==
  ASSUME IInv, RoleInv, RoleTypeOK', NEW r \in Requests, pc[r] \in Running \cup {"idle"},
         \A q \in Ids \ {r} :
            /\ pc'[q] = pc[q] /\ job'[q] = job[q] /\ past'[q] = past[q]
            /\ changes'[q] = changes[q] /\ made'[q] = made[q]
            /\ found'[q] = found[q] /\ own'[q] = own[q],
         \A a \in Accounts, x \in Roles :
            \/ holder'[a][x] = holder[a][x]
            \/ /\ job[r].account = a /\ job'[r] = job[r] /\ pc'[r] = "done" /\ changes'[r] = changes[r]
               /\ \/ own[r][x] = "insert" /\ holder'[a][x] = r
                  \/ own[r][x] = "delete" /\ holder'[a][x] = None,
         \A x \in Roles : own'[r][x] # "none" =>
            job'[r] = job[r] /\ (own[r][x] # "none" \/ RoleFree(r, x)),
         ChangesTell(r)', FlushedTells(r)', GivenTells(r)', ClearedTells(r)', LastTells(r)'
  PROVE  RoleInv'
<1>1. /\ r \in Ids /\ r # None /\ pc[r] # "done" /\ None \notin Ids
      /\ \A i \in Ids : r \notin past[i] /\ past[i] \in SUBSET Ids
  BY NotYetEnded
<1>2. \A q \in Requests : q \in Ids
  BY DEF Ids
<1>3. /\ RoleTypeOK /\ Exclusive /\ \A a \in Accounts : HolderTells(a)
      /\ \A q \in Requests : /\ ChangesTell(q) /\ FlushedTells(q)
                              /\ GivenTells(q) /\ ClearedTells(q) /\ LastTells(q)
  BY DEF RoleInv
<1>4. \A q \in Requests \ {r}, x \in Roles : (Grants(q, x)' <=> Grants(q, x)) /\ (Withdraws(q, x)' <=> Withdraws(q, x))
  BY <1>2 DEF Grants, Withdraws
<1>5. Exclusive'
  <2> SUFFICES ASSUME NEW p \in Requests, NEW q \in Requests, NEW x \in Roles, p # q,
                      job'[p].account = job'[q].account, own'[p][x] # "none", own'[q][x] # "none"
               PROVE  FALSE
    BY DEF Exclusive
  <2>1. ASSUME NEW o \in Requests \ {r}, job'[o].account = job'[r].account,
               own'[o][x] # "none", own'[r][x] # "none"
        PROVE  FALSE
    <3>1. /\ job[o].account = job[r].account /\ own[o][x] # "none"
          /\ own[r][x] # "none" \/ RoleFree(r, x)
      BY <1>2, <2>1
    <3> QED
      BY <1>3, <3>1 DEF Exclusive, RoleFree
  <2>2. CASE p # r /\ q # r
    BY <1>2, <1>3, <2>2 DEF Exclusive
  <2> QED
    BY <2>1, <2>2
<1>6. ASSUME NEW a \in Accounts PROVE HolderTells(a)'
  <2> SUFFICES ASSUME NEW x \in Roles, NEW q, q = holder'[a][x], q # None
               PROVE  q \in Requests /\ pc'[q] = "done" /\ job'[q].account = a /\ Grants(q, x)'
    BY DEF HolderTells
  <2>1. CASE q = holder[a][x]
    <3>1. q \in Requests /\ pc[q] = "done" /\ job[q].account = a /\ Grants(q, x)
      BY <1>3, <2>1 DEF HolderTells
    <3> QED
      BY <1>1, <1>2, <1>4, <3>1
  <2>2. CASE q # holder[a][x]
    <3>1. /\ own[r][x] = "insert" /\ q = r /\ job[r].account = a
          /\ job'[r] = job[r] /\ pc'[r] = "done" /\ changes'[r] = changes[r]
      BY <2>2
    <3>2. Grants(r, x)
      BY <1>3, <3>1 DEF FlushedTells
    <3>3. Grants(r, x)'
      BY <3>1, <3>2 DEF Grants
    <3> QED
      BY <3>1, <3>3
  <2> QED
    BY <2>1, <2>2
<1>7. ASSUME NEW q \in Requests \ {r}
      PROVE  ChangesTell(q)' /\ FlushedTells(q)' /\ GivenTells(q)' /\ ClearedTells(q)' /\ LastTells(q)'
  <2>1. /\ q \in Ids /\ pc'[q] = pc[q] /\ job'[q] = job[q] /\ past'[q] = past[q]
        /\ changes'[q] = changes[q] /\ made'[q] = made[q] /\ found'[q] = found[q] /\ own'[q] = own[q]
        /\ r \notin past[q] /\ past[q] \in SUBSET Ids
    BY <1>1, <1>2
  <2>2. ChangesTell(q) /\ FlushedTells(q) /\ GivenTells(q) /\ ClearedTells(q) /\ LastTells(q)
    BY <1>3
  <2>3. ChangesTell(q)'
    BY <2>1, <2>2 DEF ChangesTell, AllMade
  <2>4. FlushedTells(q)'
    <3> SUFFICES ASSUME NEW x \in Roles
                 PROVE  /\ own[q][x] = "insert" => Grants(q, x)'
                        /\ own[q][x] \in {"delete", "undone"} => Withdraws(q, x)'
                        /\ own[q][x] \in {"insert", "undone"} => holder'[job[q].account][x] = None
      BY <2>1 DEF FlushedTells
    <3>1. ASSUME own[q][x] \in {"insert", "undone"} PROVE holder'[job[q].account][x] = None
      <4>1. own[q] # Untouched
        BY <3>1 DEF Untouched
      <4>2. job[q].account \in Accounts /\ holder[job[q].account][x] = None
        BY <2>2, <3>1, <4>1, ChangingAccount DEF FlushedTells
      <4>3. job[r].account = job[q].account => own[r][x] = "none"
        BY <1>3, <3>1 DEF Exclusive
      <4> QED
        BY <4>2, <4>3
    <3> QED
      BY <1>4, <2>2, <3>1 DEF FlushedTells
  <2>5. GivenTells(q)'
    <3> SUFFICES ASSUME NEW x \in Roles, ~Withdraws(q, x)
                 PROVE  /\ \A k \in Nat : Behind(q, k)' /\ Asks(changes[q][k], "add", x) => Held(q, x)'
                        /\ pc[q] = "role" /\ Asks(NextChange(q), "add", x) /\ found[q] # None => Held(q, x)'
      BY <1>4, <2>1 DEF GivenTells, NextChange
    <3>1. ASSUME Held(q, x), job[q].account \in Accounts PROVE Held(q, x)'
      <4>1. CASE own[q][x] = "insert"
        BY <2>1, <4>1 DEF Held
      <4>2. CASE Removed(q, x)
        <5>1. PICK p \in Requests : /\ pc[p] = "done" /\ job[p].kind = "roles" /\ Withdraws(p, x)
                                    /\ job[p].account = job[q].account /\ p \notin past[q]
          BY <4>2 DEF Removed
        <5>2. Removed(q, x)'
          BY <1>1, <1>2, <1>4, <2>1, <5>1 DEF Removed
        <5> QED
          BY <5>2 DEF Held
      <4>3. CASE holder[job[q].account][x] # None /\ holder'[job[q].account][x] = holder[job[q].account][x]
        BY <2>1, <4>3 DEF Held
      <4>4. CASE holder[job[q].account][x] # None /\ holder'[job[q].account][x] # holder[job[q].account][x]
        <5>1. /\ job[r].account = job[q].account /\ job'[r] = job[r] /\ pc'[r] = "done" /\ changes'[r] = changes[r]
              /\ (own[r][x] = "insert" /\ holder'[job[q].account][x] = r) \/ own[r][x] = "delete"
          BY <3>1, <4>4
        <5>2. CASE own[r][x] = "insert" /\ holder'[job[q].account][x] = r
          BY <1>1, <2>1, <5>2 DEF Held
        <5>3. CASE own[r][x] = "delete"
          <6>1. Withdraws(r, x)
            BY <1>3, <5>3 DEF FlushedTells
          <6>2. job[r].kind = "roles"
            BY <1>3, <6>1 DEF ChangesTell, Withdraws, Asks
          <6>3. Withdraws(r, x)'
            BY <5>1, <6>1 DEF Withdraws
          <6> QED
            BY <2>1, <5>1, <6>2, <6>3 DEF Held, Removed
        <5> QED
          BY <5>1, <5>2, <5>3
      <4> QED
        BY <3>1, <4>1, <4>2, <4>3, <4>4 DEF Held
    <3>2. \A k \in Nat : Behind(q, k)' <=> Behind(q, k)
      BY <2>1 DEF Behind
    <3>3. ASSUME NEW k \in Nat, Behind(q, k), Asks(changes[q][k], "add", x) PROVE Held(q, x)'
      <4>1. changes[q] # <<>>
        BY <3>3 DEF Behind
      <4> QED
        BY <2>2, <3>1, <3>3, <4>1, ChangingAccount DEF GivenTells
    <3>4. ASSUME pc[q] = "role", Asks(NextChange(q), "add", x), found[q] # None PROVE Held(q, x)'
      <4>1. pc[q] \in Running
        BY <3>4 DEF Running
      <4> QED
        BY <2>2, <3>1, <3>4, <4>1, ChangingAccount DEF GivenTells
    <3> QED
      BY <3>2, <3>3, <3>4
  <2>6. ClearedTells(q)'
    <3> SUFFICES ASSUME NEW x \in Roles, NEW p \in past[q], holder'[job[q].account][x] = p
                 PROVE  /\ \A k \in Nat : Behind(q, k)' /\ Asks(changes[q][k], "remove", x) => own[q][x] = "delete"
                        /\ pc[q] = "role" /\ Asks(NextChange(q), "remove", x) => found[q] = p \/ own[q][x] = "delete"
      BY <2>1 DEF ClearedTells, NextChange
    <3>1. job[q].account \in Accounts => holder[job[q].account][x] = p
      BY <1>1, <2>1
    <3>2. \A k \in Nat : Behind(q, k)' <=> Behind(q, k)
      BY <2>1 DEF Behind
    <3>3. ASSUME NEW k \in Nat, Behind(q, k), Asks(changes[q][k], "remove", x) PROVE own[q][x] = "delete"
      <4>1. changes[q] # <<>>
        BY <3>3 DEF Behind
      <4> QED
        BY <2>2, <3>1, <3>3, <4>1, ChangingAccount DEF ClearedTells
    <3>4. ASSUME pc[q] = "role", Asks(NextChange(q), "remove", x) PROVE found[q] = p \/ own[q][x] = "delete"
      <4>1. pc[q] \in Running
        BY <3>4 DEF Running
      <4> QED
        BY <2>2, <3>1, <3>4, <4>1, ChangingAccount DEF ClearedTells
    <3> QED
      BY <3>2, <3>3, <3>4
  <2>7. LastTells(q)'
    <3>1. \A k \in Nat : Behind(q, k)' <=> Behind(q, k)
      BY <2>1 DEF Behind
    <3>2. ASSUME NEW x \in Roles, NEW k \in Nat, Behind(q, k), Asks(changes[q][k], "remove", x)
          PROVE  own[q][x] # "insert" /\ holder'[job[q].account][x] # q
      <4>1. changes[q] # <<>>
        BY <3>2 DEF Behind
      <4>2. own[q][x] # "insert" /\ holder[job[q].account][x] # q
        BY <2>2, <3>2 DEF LastTells
      <4>3. q # r /\ q # None /\ job[q].account \in Accounts
        BY <1>1, <2>1, <4>1, ChangingAccount
      <4> QED
        BY <4>2, <4>3
    <3> QED
      BY <2>1, <2>2, <3>1, <3>2 DEF LastTells, NextChange
  <2> QED
    BY <2>3, <2>4, <2>5, <2>6, <2>7
<1> QED
  BY <1>5, <1>6, <1>7 DEF RoleInv

\* A step of one request leaves what a state says of the reviews of the others as it is.
LEMMA OthersKeepReviews ==
  ASSUME IInv, ReviewInv, NEW r \in Requests, pc[r] \in Running \cup {"idle"},
         \A q \in Ids \ {r} :
            pc'[q] = pc[q] /\ job'[q] = job[q] /\ past'[q] = past[q] /\ saw'[q] = saw[q],
         \A t \in Ids : \/ application'[t] = application[t]
                        \/ t = r /\ application[r] = "none"
                        \/ /\ job[r].kind = "review" /\ job[r].uses = t
                           /\ job'[r] = job[r] /\ pc'[r] = "done",
         ReviewTells(r)', SubmissionTells(r)'
  PROVE  ReviewInv'
<1>1. /\ r \in Ids /\ pc[r] # "done" /\ \A i \in Ids : r \notin past[i]
  BY NotYetEnded
<1>2. ASSUME NEW q \in Requests \ {r} PROVE ReviewTells(q)' /\ SubmissionTells(q)'
  <2>1. /\ q \in Ids /\ pc'[q] = pc[q] /\ job'[q] = job[q] /\ past'[q] = past[q] /\ saw'[q] = saw[q]
        /\ ReviewTells(q) /\ SubmissionTells(q) /\ r \notin past[q] /\ JobTells(q)
    BY <1>1 DEF Ids, ReviewInv, IInv
  <2>2. ASSUME job[q].kind = "review", pc[q] \in Running \cup {"done"}
        PROVE  \/ application'[job[q].uses] = IF pc[q] = "done" THEN job[q].ask ELSE saw[q]
               \/ ReviewedSince(q)'
    <3>1. job[q].uses \in Ids /\ application[job[q].uses] # "none"
      BY <2>1, <2>2 DEF JobTells
    <3>2. CASE application'[job[q].uses] = application[job[q].uses] /\ ~ReviewedSince(q)
      BY <2>1, <2>2, <3>2 DEF ReviewTells
    <3>3. CASE application'[job[q].uses] # application[job[q].uses]
      <4>1. job[r].kind = "review" /\ job[r].uses = job[q].uses /\ job'[r] = job[r] /\ pc'[r] = "done"
        BY <3>1, <3>3
      <4> QED
        BY <2>1, <4>1 DEF ReviewedSince
    <3>4. CASE ReviewedSince(q)
      <4>1. PICK p \in Requests \ {q} : /\ pc[p] = "done" /\ job[p].kind = "review"
                                       /\ job[p].uses = job[q].uses /\ p \notin past[q]
        BY <3>4 DEF ReviewedSince
      <4>2. p \in Ids \ {r}
        BY <1>1, <4>1 DEF Ids
      <4> QED
        BY <2>1, <4>1, <4>2 DEF ReviewedSince
    <3> QED
      BY <3>2, <3>3, <3>4
  <2>3. ASSUME pc[q] = "done", job[q].kind = "apply"
        PROVE  \/ application'[q] = job[q].ask
               \/ \E p \in Requests : pc'[p] = "done" /\ job'[p].kind = "review" /\ job'[p].uses = q
    <3>1. CASE application[q] = job[q].ask
      BY <2>1, <3>1
    <3>2. CASE \E p \in Requests : pc[p] = "done" /\ job[p].kind = "review" /\ job[p].uses = q
      BY <1>1, <3>2 DEF Ids
    <3> QED
      BY <2>1, <2>3, <3>1, <3>2 DEF SubmissionTells
  <2> QED
    BY <2>1, <2>2, <2>3 DEF ReviewTells, SubmissionTells
<1> QED
  BY <1>2 DEF ReviewInv

\* A request that does nothing to roles between two steps: what it has found and flushed, and
\* what it has left to do, is as before.
LEMMA MovesKeepRoles ==
  ASSUME IInv, RoleInv, ReviewInv, NEW r \in Requests,
         NEW from \in Running \ {"role"}, NEW to \in Running \ {"role"}, Moves(r, from, to),
         UNCHANGED applicationVars, to \in {"selected", "revoking"} => AllMade(r)
  PROVE  RoleInv' /\ ReviewInv'
<1>1. /\ pc[r] = from /\ pc' = [pc EXCEPT ![r] = to] /\ UNCHANGED <<job, saw, past>>
      /\ UNCHANGED <<application, holder, changes, made, found, own>>
  BY DEF Moves, applicationVars
<1>2. /\ r \in Ids /\ pc[r] \in Running /\ "done" \notin Running /\ pc'[r] = to
      /\ \A q \in Ids \ {r} : pc'[q] = pc[q]
  BY <1>1 DEF IInv, AuthTypeOK, Ids, Running
<1>3. ChangesTell(r) /\ FlushedTells(r) /\ GivenTells(r) /\ ClearedTells(r) /\ LastTells(r) /\ RoleTypeOK
  BY DEF RoleInv
<1>4. RoleTypeOK' /\ ChangesTell(r)'
  BY <1>1, <1>2, <1>3 DEF RoleTypeOK, ChangesTell, AllMade
<1>5. FlushedTells(r)'
  BY <1>1, <1>3 DEF FlushedTells, Grants, Withdraws
<1>6. \A x \in Roles : Removed(r, x) => Removed(r, x)'
  BY <1>1, <1>2 DEF Removed, Withdraws, Ids
<1>7. \A k : Behind(r, k)' <=> Behind(r, k)
  BY <1>1, <1>2 DEF Behind
<1>8. GivenTells(r)'
  BY <1>1, <1>2, <1>3, <1>6, <1>7 DEF GivenTells, Held, Withdraws
<1>9. ClearedTells(r)'
  BY <1>1, <1>2, <1>3, <1>7 DEF ClearedTells
<1>10. LastTells(r)'
  BY <1>1, <1>2, <1>3, <1>7 DEF LastTells
<1>11. RoleInv'
  BY <1>1, <1>2, <1>4, <1>5, <1>8, <1>9, <1>10, OthersKeepRoles
<1>12. ReviewTells(r)' /\ SubmissionTells(r)'
  <2>1. ReviewTells(r)
    BY DEF ReviewInv
  <2>2. ReviewedSince(r) => ReviewedSince(r)'
    BY <1>1, <1>2 DEF ReviewedSince, Ids
  <2> QED
    BY <1>1, <1>2, <2>1, <2>2 DEF ReviewTells, SubmissionTells
<1>13. ReviewInv'
  BY <1>1, <1>2, <1>12, OthersKeepReviews
<1> QED
  BY <1>11, <1>13

\* A request that begins knows what it will change, and has changed nothing.
LEMMA BeginKeepsRoles ==
  ASSUME IInv, RoleInv, ReviewInv, NEW r \in Requests, NEW j, NEW loaded, Begin(r, j, loaded),
         NEW list \in Seq(Change), Intends(r, list), GivesFirst(list),
         \A k \in DOMAIN list : j.kind \in Changing /\ (list[k].does = "remove" => j.kind = "roles"),
         j.kind = "review" => application[j.uses] = loaded
  PROVE  RoleInv' /\ ReviewInv'
<1> DEFINE ended == {q \in Ids : pc[q] \in Ended}
<1>1. /\ pc[r] = "idle" /\ pc' = [pc EXCEPT ![r] = "read"] /\ job' = [job EXCEPT ![r] = j]
      /\ saw' = [saw EXCEPT ![r] = loaded] /\ past' = [past EXCEPT ![r] = ended]
      /\ changes' = [changes EXCEPT ![r] = list] /\ UNCHANGED <<application, holder, made, found, own>>
  BY DEF Begin, Intends
<1>2. /\ r \in Ids /\ pc'[r] = "read" /\ job'[r] = j /\ saw'[r] = loaded /\ past'[r] = ended
      /\ changes'[r] = list
      /\ \A q \in Ids \ {r} : /\ pc'[q] = pc[q] /\ job'[q] = job[q] /\ saw'[q] = saw[q]
                              /\ past'[q] = past[q] /\ changes'[q] = changes[q]
      /\ r \notin ended
  BY <1>1 DEF IInv, AuthTypeOK, RoleInv, RoleTypeOK, Ids, Ended
<1>3. ChangesTell(r) /\ RoleTypeOK /\ made[r] = 0 /\ own[r] = Untouched /\ found[r] = None
  BY <1>1 DEF RoleInv, ChangesTell, Running
<1>4. RoleTypeOK'
  BY <1>1, <1>3 DEF RoleTypeOK
<1>5. Len(list) \in Nat /\ DOMAIN list = 1..Len(list)
  OBVIOUS
<1>6. ChangesTell(r)'
  BY <1>1, <1>2, <1>3, <1>5 DEF ChangesTell, Running, AllMade
<1>7. \A x \in Roles : own'[r][x] = "none"
  BY <1>1, <1>3 DEF Untouched
<1>8. FlushedTells(r)'
  BY <1>7 DEF FlushedTells
<1>9. \A k \in Nat : ~Behind(r, k)'
  BY <1>1, <1>2, <1>3, <1>5 DEF Behind
<1>10. GivenTells(r)' /\ ClearedTells(r)' /\ LastTells(r)'
  BY <1>2, <1>9 DEF GivenTells, ClearedTells, LastTells
<1>11. RoleInv'
  BY <1>1, <1>2, <1>4, <1>6, <1>7, <1>8, <1>10, OthersKeepRoles
<1>12. ReviewTells(r)' /\ SubmissionTells(r)'
  BY <1>1, <1>2 DEF ReviewTells, SubmissionTells
<1>13. ReviewInv'
  BY <1>1, <1>2, <1>12, OthersKeepReviews
<1> QED
  BY <1>11, <1>13

\* A request that is rolled back leaves no row of its own.
LEMMA RollsBackKeepsRoles ==
  ASSUME IInv, RoleInv, ReviewInv, NEW r \in Requests, pc[r] \in Running, RollsBack(r),
         Forgets(r) \/ (UNCHANGED applicationVars /\ job[r].kind \notin Changing /\ pc[r] # "role")
  PROVE  RoleInv' /\ ReviewInv'
<1>1. /\ pc' = [pc EXCEPT ![r] = "failed"] /\ job' = [job EXCEPT ![r] = NoJob]
      /\ saw' = [saw EXCEPT ![r] = None] /\ past' = [past EXCEPT ![r] = {}]
      /\ UNCHANGED <<application, holder>>
  BY DEF RollsBack, Forgets, applicationVars
<1>2. r \in Ids /\ RoleTypeOK /\ ChangesTell(r) /\ "failed" \notin Running \cup {"done"}
  BY DEF RoleInv, Ids, Running
<1>3. /\ changes'[r] = <<>> /\ made'[r] = 0 /\ found'[r] = None /\ own'[r] = Untouched
      /\ \A q \in Ids \ {r} : /\ changes'[q] = changes[q] /\ made'[q] = made[q]
                              /\ found'[q] = found[q] /\ own'[q] = own[q]
      /\ RoleTypeOK'
  <2>1. CASE Forgets(r)
    <3>1. /\ changes' = [changes EXCEPT ![r] = <<>>] /\ made' = [made EXCEPT ![r] = 0]
          /\ found' = [found EXCEPT ![r] = None] /\ own' = [own EXCEPT ![r] = Untouched]
      BY <2>1 DEF Forgets
    <3>2. Untouched \in [Roles -> {"none", "insert", "delete", "undone"}] /\ <<>> \in Seq(Change)
      BY DEF Untouched
    <3> QED
      BY <1>1, <1>2, <3>1, <3>2 DEF RoleTypeOK
  <2>2. CASE UNCHANGED applicationVars /\ job[r].kind \notin Changing /\ pc[r] # "role"
    BY <1>2, <2>2, ChangesNothing DEF RoleTypeOK, ChangesTell, applicationVars
  <2> QED
    BY <2>1, <2>2
<1>4. /\ pc'[r] = "failed" /\ job'[r] = NoJob /\ past'[r] = {}
      /\ \A q \in Ids \ {r} : pc'[q] = pc[q] /\ job'[q] = job[q] /\ saw'[q] = saw[q] /\ past'[q] = past[q]
  BY <1>1, <1>2 DEF IInv, AuthTypeOK
<1>5. ChangesTell(r)'
  BY <1>2, <1>3, <1>4 DEF ChangesTell
<1>6. \A x \in Roles : own'[r][x] = "none"
  BY <1>3 DEF Untouched
<1>7. FlushedTells(r)' /\ ClearedTells(r)'
  BY <1>4, <1>6 DEF FlushedTells, ClearedTells
<1>8. GivenTells(r)' /\ LastTells(r)'
  BY <1>2, <1>3, <1>4 DEF GivenTells, LastTells, GivesFirst, Behind
<1>9. RoleInv'
  BY <1>1, <1>3, <1>4, <1>5, <1>6, <1>7, <1>8, OthersKeepRoles
<1>10. ReviewInv'
  BY <1>1, <1>2, <1>4, OthersKeepReviews DEF ReviewTells, SubmissionTells
<1> QED
  BY <1>9, <1>10

\* Where a request is before and after it looks for a role
LEMMA Bases ==
  ASSUME NEW r \in Requests
  PROVE  Base(r) \in Running \ {"role", "selected", "revoking"} /\ "role" \in Running /\ "done" \notin Running
BY DEF Base, Running

\* The change that is next
LEMMA NextOne ==
  ASSUME RoleInv, NEW r \in Requests, pc[r] = "role" \/ ~AllMade(r)
  PROVE  /\ made[r] \in Nat /\ Len(changes[r]) \in Nat /\ made[r] < Len(changes[r])
         /\ made[r] + 1 \in DOMAIN changes[r] /\ NextChange(r) = changes[r][made[r] + 1]
         /\ NextChange(r).does \in {"add", "remove"} /\ NextChange(r).role \in Roles
<1>1. made[r] \in Nat /\ changes[r] \in Seq(Change) /\ ChangesTell(r)
  BY DEF RoleInv, RoleTypeOK, Ids
<1>2. Len(changes[r]) \in Nat /\ DOMAIN changes[r] = 1..Len(changes[r])
  BY <1>1
<1>3. made[r] < Len(changes[r])
  BY <1>1, <1>2 DEF ChangesTell, AllMade
<1>4. made[r] + 1 \in DOMAIN changes[r]
  BY <1>1, <1>2, <1>3
<1>5. PICK c \in Change : c = changes[r][made[r] + 1]
  BY <1>1, <1>4
<1> QED
  BY <1>1, <1>2, <1>3, <1>4, <1>5 DEF NextChange, Change

\* What a request is told of a role is in its hands, or was there and goes only by a
\* withdrawal.
LEMMA LookForRoleKeeps ==
  ASSUME IInv, RoleInv, ReviewInv, NEW r \in Requests, LookForRole(r)
  PROVE  RoleInv' /\ ReviewInv'
<1> DEFINE x == NextChange(r).role
           row == CASE own[r][x] = "insert" -> r
                    [] own[r][x] \in {"delete", "undone"} -> None
                    [] OTHER -> holder[job[r].account][x]
<1>1. /\ ~AllMade(r) /\ pc[r] = Base(r) /\ pc' = [pc EXCEPT ![r] = "role"] /\ UNCHANGED <<job, saw, past>>
      /\ found' = [found EXCEPT ![r] = row]
      /\ UNCHANGED <<application, holder, changes, made, own>>
  BY DEF LookForRole, Moves
<1>2. /\ r \in Ids /\ pc[r] \in Running /\ "role" \in Running /\ "done" \notin Running /\ pc'[r] = "role"
      /\ pc[r] # "role" /\ \A q \in Ids \ {r} : pc'[q] = pc[q]
  BY <1>1, Bases DEF IInv, AuthTypeOK, Ids
<1>3. ChangesTell(r) /\ FlushedTells(r) /\ GivenTells(r) /\ ClearedTells(r) /\ LastTells(r) /\ RoleTypeOK
  BY DEF RoleInv
<1>4. job[r].account \in Accounts
  BY <1>2, ChangingAccount
<1>5. made[r] \in Nat /\ made[r] < Len(changes[r])
  BY <1>1, NextOne
<1>6. x \in Roles
  BY <1>1, NextOne
<1>7. row \in Requests \cup {None} /\ found'[r] = row /\ \A q \in Ids \ {r} : found'[q] = found[q]
  BY <1>1, <1>2, <1>3, <1>4, <1>6 DEF RoleTypeOK
<1>8. RoleTypeOK'
  BY <1>1, <1>3, <1>7 DEF RoleTypeOK
<1>9. ChangesTell(r)'
  BY <1>1, <1>2, <1>3, <1>5 DEF ChangesTell, AllMade
<1>10. FlushedTells(r)'
  BY <1>1, <1>3 DEF FlushedTells, Grants, Withdraws
<1>11. \A y \in Roles : Removed(r, y) => Removed(r, y)'
  BY <1>1, <1>2 DEF Removed, Withdraws, Ids
<1>12. \A k : Behind(r, k)' <=> Behind(r, k)
  BY <1>1, <1>2 DEF Behind
<1>13. GivenTells(r)'
  <2> SUFFICES ASSUME NEW y \in Roles, ~Withdraws(r, y)
               PROVE  /\ \A k \in Nat : Behind(r, k) /\ Asks(changes[r][k], "add", y) => Held(r, y)'
                      /\ Asks(NextChange(r), "add", y) /\ row # None => Held(r, y)'
    BY <1>1, <1>2, <1>7, <1>12 DEF GivenTells, Withdraws, NextChange
  <2>1. Held(r, y) => Held(r, y)'
    BY <1>1, <1>11 DEF Held
  <2>2. ASSUME Asks(NextChange(r), "add", y), row # None PROVE Held(r, y)
    <3>1. y = x
      BY <2>2 DEF Asks
    <3> QED
      BY <2>2, <3>1 DEF Held
  <2> QED
    BY <1>3, <2>1, <2>2 DEF GivenTells
<1>14. ClearedTells(r)'
  <2> SUFFICES ASSUME NEW y \in Roles, NEW p \in past[r], holder[job[r].account][y] = p
               PROVE  /\ \A k \in Nat : Behind(r, k) /\ Asks(changes[r][k], "remove", y) => own[r][y] = "delete"
                      /\ Asks(NextChange(r), "remove", y) => row = p \/ own[r][y] = "delete"
    BY <1>1, <1>2, <1>7, <1>12 DEF ClearedTells, NextChange
  <2>1. p # None
    BY <1>2, NotYetEnded
  <2>2. ASSUME Asks(NextChange(r), "remove", y) PROVE row = p \/ own[r][y] = "delete"
    <3>1. y = x
      BY <2>2 DEF Asks
    <3>2. own[r][y] \notin {"insert", "undone"}
      BY <1>3, <2>1 DEF FlushedTells
    <3> QED
      BY <3>1, <3>2
  <2> QED
    BY <1>3, <2>2 DEF ClearedTells
<1>15. LastTells(r)'
  <2>1. own[r][x] = "insert" => row # None
    BY <1>2, NotYetEnded
  <2> QED
    BY <1>1, <1>2, <1>3, <1>7, <1>12, <2>1 DEF LastTells, NextChange
<1>16. RoleInv'
  BY <1>1, <1>2, <1>7, <1>8, <1>9, <1>10, <1>13, <1>14, <1>15, OthersKeepRoles
<1>17. ReviewTells(r)' /\ SubmissionTells(r)'
  <2>1. ReviewTells(r)
    BY DEF ReviewInv
  <2>2. ReviewedSince(r) => ReviewedSince(r)'
    BY <1>1, <1>2 DEF ReviewedSince, Ids
  <2> QED
    BY <1>1, <1>2, <2>1, <2>2 DEF ReviewTells, SubmissionTells
<1>18. ReviewInv'
  BY <1>1, <1>2, <1>17, OthersKeepReviews
<1> QED
  BY <1>16, <1>18

\* A role is given by a row that is found or inserted, and withdrawn by a row that is not
\* found, is gone or is deleted.
LEMMA MakesKeeps ==
  ASSUME IInv, RoleInv, ReviewInv, NEW r \in Requests, NEW act, pc[r] = "role", Makes(r, act),
         \/ /\ act = own[r][NextChange(r).role]
            /\ NextChange(r).does = "add" => found[r] # None
            /\ NextChange(r).does = "remove" =>
                 \/ found[r] = None
                 \/ /\ own[r][NextChange(r).role] = "none"
                    /\ holder[job[r].account][NextChange(r).role] # found[r]
         \/ /\ act = "insert" /\ NextChange(r).does = "add"
            /\ RoleFree(r, NextChange(r).role) /\ holder[job[r].account][NextChange(r).role] = None
         \/ /\ act = "undone" /\ NextChange(r).does = "remove"
            /\ own[r][NextChange(r).role] = "insert"
         \/ /\ act = "delete" /\ NextChange(r).does = "remove"
            /\ own[r][NextChange(r).role] = "none" /\ RoleFree(r, NextChange(r).role)
  PROVE  RoleInv' /\ ReviewInv'
<1> DEFINE x == NextChange(r).role
<1>1. /\ pc[r] = "role" /\ pc' = [pc EXCEPT ![r] = Base(r)] /\ UNCHANGED <<job, saw, past>>
      /\ made' = [made EXCEPT ![r] = @ + 1] /\ found' = [found EXCEPT ![r] = None]
      /\ own' = [own EXCEPT ![r][x] = act] /\ UNCHANGED <<application, holder, changes>>
  BY DEF Makes, Moves
<1>2. /\ r \in Ids /\ pc[r] \in Running /\ Base(r) \in Running \ {"role", "selected", "revoking"}
      /\ "done" \notin Running /\ pc'[r] = Base(r) /\ \A q \in Ids \ {r} : pc'[q] = pc[q]
  BY <1>1, Bases DEF IInv, AuthTypeOK, Ids
<1>3. ChangesTell(r) /\ FlushedTells(r) /\ GivenTells(r) /\ ClearedTells(r) /\ LastTells(r) /\ RoleTypeOK
  BY DEF RoleInv
<1>4. /\ made[r] \in Nat /\ Len(changes[r]) \in Nat /\ made[r] < Len(changes[r])
      /\ made[r] + 1 \in DOMAIN changes[r] /\ NextChange(r) = changes[r][made[r] + 1]
      /\ NextChange(r).does \in {"add", "remove"} /\ x \in Roles
  BY <1>1, NextOne
<1>5. /\ own[r] \in [Roles -> {"none", "insert", "delete", "undone"}]
      /\ own'[r][x] = act /\ \A y \in Roles \ {x} : own'[r][y] = own[r][y]
      /\ made'[r] = made[r] + 1 /\ found'[r] = None
      /\ \A q \in Ids \ {r} : own'[q] = own[q] /\ made'[q] = made[q] /\ found'[q] = found[q]
  BY <1>1, <1>2, <1>3, <1>4 DEF RoleTypeOK
<1>6. act \in {"none", "insert", "delete", "undone"}
  BY <1>4, <1>5
<1>7. RoleTypeOK'
  <2>1. made' \in [Ids -> Nat] /\ found' \in [Ids -> Requests \cup {None}]
    <3>1. made[r] + 1 \in Nat
      BY <1>4
    <3> QED
      BY <1>1, <1>3, <3>1 DEF RoleTypeOK
  <2>2. own' \in [Ids -> [Roles -> {"none", "insert", "delete", "undone"}]]
    BY <1>1, <1>3, <1>6 DEF RoleTypeOK
  <2> QED
    BY <1>1, <1>3, <2>1, <2>2 DEF RoleTypeOK
<1>8. ChangesTell(r)'
  <2>1. made'[r] \in Nat /\ made'[r] <= Len(changes[r])
    <3>1. made[r] \in Nat /\ Len(changes[r]) \in Nat /\ made[r] < Len(changes[r])
      BY <1>4
    <3> HIDE DEF x
    <3> QED
      BY <1>5, <3>1
  <2>2. pc'[r] \in Running \ {"role", "selected", "revoking"} /\ pc[r] \in Running
    BY <1>2
  <2> QED
    BY <1>1, <1>3, <1>5, <2>1, <2>2 DEF ChangesTell
<1>9. /\ NextChange(r).does = "add" => Grants(r, x)
      /\ NextChange(r).does = "remove" => Withdraws(r, x)
  BY <1>4 DEF Grants, Withdraws, Asks
<1>10. \A y \in Roles : (Grants(r, y)' <=> Grants(r, y)) /\ (Withdraws(r, y)' <=> Withdraws(r, y))
  BY <1>1 DEF Grants, Withdraws
<1>11. FlushedTells(r)'
  <2> SUFFICES ASSUME NEW y \in Roles
               PROVE  /\ own'[r][y] = "insert" => Grants(r, y)
                      /\ own'[r][y] \in {"delete", "undone"} => Withdraws(r, y)
                      /\ own'[r][y] \in {"insert", "undone"} => holder[job[r].account][y] = None
    BY <1>1, <1>10 DEF FlushedTells
  <2>1. CASE y # x \/ act = own[r][x]
    BY <1>3, <1>5, <2>1 DEF FlushedTells
  <2>2. CASE y = x /\ act # own[r][x]
    BY <1>3, <1>5, <1>9, <2>2 DEF FlushedTells
  <2> QED
    BY <2>1, <2>2
<1>12. ASSUME NEW k \in Nat, Behind(r, k)' PROVE Behind(r, k) \/ k = made[r] + 1
  <2>1. k \in DOMAIN changes[r] /\ k <= made[r] + 1
    BY <1>1, <1>2, <1>5, <1>12 DEF Behind
  <2> QED
    BY <1>4, <2>1 DEF Behind
<1>13. GivenTells(r)'
  <2> SUFFICES ASSUME NEW y \in Roles, ~Withdraws(r, y), NEW k \in Nat, Behind(r, k)',
                      Asks(changes[r][k], "add", y)
               PROVE  Held(r, y)'
    BY <1>1, <1>2, <1>10 DEF GivenTells
  <2>1. \A z \in Roles : Removed(r, z) => Removed(r, z)'
    BY <1>1, <1>2 DEF Removed, Withdraws, Ids
  <2>2. ASSUME Held(r, y) PROVE Held(r, y)'
    <3>1. own[r][y] = "insert" => own'[r][y] = "insert"
      BY <1>5, <1>9
    <3> QED
      BY <1>1, <2>1, <2>2, <3>1 DEF Held
  <2>3. CASE Behind(r, k)
    BY <1>3, <2>2, <2>3 DEF GivenTells
  <2>4. CASE k = made[r] + 1
    <3>1. Asks(NextChange(r), "add", y) /\ y = x /\ NextChange(r).does = "add"
      BY <1>4, <2>4 DEF Asks
    <3>2. CASE act = own[r][x] /\ found[r] # None
      BY <1>1, <1>3, <2>2, <3>1, <3>2 DEF GivenTells
    <3>3. CASE act = "insert"
      BY <1>5, <3>1, <3>3 DEF Held
    <3> QED
      BY <3>1, <3>2, <3>3
  <2> QED
    BY <1>12, <2>3, <2>4
<1>14. ClearedTells(r)'
  <2> SUFFICES ASSUME NEW y \in Roles, NEW p \in past[r], holder[job[r].account][y] = p,
                      NEW k \in Nat, Behind(r, k)', Asks(changes[r][k], "remove", y)
               PROVE  own'[r][y] = "delete"
    BY <1>1, <1>2 DEF ClearedTells
  <2>1. p # None /\ own[r][y] \notin {"insert", "undone"}
    BY <1>2, <1>3, NotYetEnded DEF FlushedTells
  <2>2. ASSUME own[r][y] = "delete" PROVE own'[r][y] = "delete"
    BY <1>5, <2>1, <2>2
  <2>3. CASE Behind(r, k)
    BY <1>3, <2>2, <2>3 DEF ClearedTells
  <2>4. CASE k = made[r] + 1
    <3>1. Asks(NextChange(r), "remove", y) /\ y = x /\ NextChange(r).does = "remove"
      BY <1>4, <2>4 DEF Asks
    <3>2. found[r] = p \/ own[r][y] = "delete"
      BY <1>1, <1>3, <3>1 DEF ClearedTells
    <3> QED
      BY <1>5, <2>1, <2>2, <3>1, <3>2
  <2> QED
    BY <1>12, <2>3, <2>4
<1>15. \A y \in Roles : own'[r][y] # "none" => own[r][y] # "none" \/ RoleFree(r, y)
  BY <1>5
<1>16. LastTells(r)'
  <2> SUFFICES ASSUME NEW y \in Roles, NEW k \in Nat, Behind(r, k)', Asks(changes[r][k], "remove", y)
               PROVE  own'[r][y] # "insert" /\ holder[job[r].account][y] # r
    BY <1>1, <1>2, <1>3 DEF LastTells
  <2>1. holder[job[r].account][y] # r
    <3>1. job[r].account \in Accounts /\ r # None
      BY <1>2, ChangingAccount, NotYetEnded
    <3> QED
      BY <1>2, <3>1 DEF RoleInv, HolderTells
  <2>2. CASE Behind(r, k)
    <3>1. own[r][y] # "insert" /\ k \in DOMAIN changes[r] /\ k <= made[r]
      BY <1>1, <1>3, <2>2 DEF LastTells, Behind
    <3>2. changes[r][k].does = "remove" /\ k < made[r] + 1 /\ made[r] + 1 \in DOMAIN changes[r]
      BY <1>4, <3>1 DEF Asks
    <3>3. NextChange(r).does = "remove"
      BY <1>3, <1>4, <3>1, <3>2 DEF LastTells, GivesFirst
    <3> QED
      BY <1>5, <2>1, <3>1, <3>3
  <2>3. CASE k = made[r] + 1
    <3>1. Asks(NextChange(r), "remove", y) /\ y = x /\ NextChange(r).does = "remove"
      BY <1>4, <2>3 DEF Asks
    <3>2. own[r][x] = "insert" => found[r] # None
      BY <1>1, <1>3 DEF LastTells
    <3> QED
      BY <1>5, <2>1, <3>1, <3>2
  <2> QED
    BY <1>12, <2>2, <2>3
<1>17. RoleInv'
  BY <1>1, <1>2, <1>5, <1>7, <1>8, <1>11, <1>13, <1>14, <1>15, <1>16, OthersKeepRoles
<1>18. ReviewTells(r)' /\ SubmissionTells(r)'
  <2>1. ReviewTells(r)
    BY DEF ReviewInv
  <2>2. ReviewedSince(r) => ReviewedSince(r)'
    BY <1>1, <1>2 DEF ReviewedSince, Ids
  <2> QED
    BY <1>1, <1>2, <2>1, <2>2 DEF ReviewTells, SubmissionTells
<1>19. ReviewInv'
  BY <1>1, <1>2, <1>18, OthersKeepReviews
<1> QED
  BY <1>17, <1>19

\* What the commit of a request makes of the role rows is what it has flushed of them; that of
\* a request of another kind makes nothing of them.
LEMMA CommittedRows ==
  ASSUME IInv, RoleInv, NEW r \in Requests, pc[r] \in Running, pc[r] # "role",
         \/ CommitsRoles(r) /\ AllMade(r)
         \/ UNCHANGED applicationVars /\ job[r].kind \notin Changing
  PROVE  /\ UNCHANGED <<changes, found>> /\ found[r] = None /\ AllMade(r)
         /\ made'[r] = 0 /\ own'[r] = Untouched
         /\ \A q \in Ids \ {r} : made'[q] = made[q] /\ own'[q] = own[q]
         /\ \A a \in Accounts, x \in Roles :
              /\ a # job[r].account => holder'[a][x] = holder[a][x]
              /\ a = job[r].account =>
                   /\ own[r][x] = "insert" => holder'[a][x] = r
                   /\ own[r][x] = "delete" => holder'[a][x] = None
                   /\ own[r][x] \notin {"insert", "delete"} => holder'[a][x] = holder[a][x]
         /\ RoleTypeOK'
<1>1. r \in Ids /\ RoleTypeOK /\ ChangesTell(r) /\ job[r].account \in Accounts
  BY ChangingAccount DEF RoleInv, Ids
<1>2. found[r] = None
  BY <1>1 DEF ChangesTell
<1>3. Untouched \in [Roles -> {"none", "insert", "delete", "undone"}] /\ \A x \in Roles : Untouched[x] = "none"
  BY DEF Untouched
<1>4. CASE CommitsRoles(r) /\ AllMade(r)
  <2>1. PICK a \in Accounts : a = job[r].account
    BY <1>1
  <2> DEFINE rows == [x \in Roles |-> CASE own[r][x] = "insert" -> r
                                        [] own[r][x] = "delete" -> None
                                        [] OTHER -> holder[a][x]]
  <2>2. /\ holder' = [holder EXCEPT ![a] = rows] /\ made' = [made EXCEPT ![r] = 0]
        /\ own' = [own EXCEPT ![r] = Untouched] /\ UNCHANGED <<changes, found>>
    BY <1>1, <1>4, <2>1 DEF CommitsRoles, RoleTypeOK
  <2>3. rows \in [Roles -> Requests \cup {None}]
    BY <1>1 DEF RoleTypeOK
  <2>4. RoleTypeOK'
    BY <1>1, <1>3, <2>2, <2>3 DEF RoleTypeOK
  <2>5. holder'[a] = rows /\ \A b \in Accounts \ {a} : holder'[b] = holder[b]
    BY <1>1, <2>2 DEF RoleTypeOK
  <2>6. /\ made'[r] = 0 /\ own'[r] = Untouched
        /\ \A q \in Ids \ {r} : made'[q] = made[q] /\ own'[q] = own[q]
    BY <1>1, <2>2 DEF RoleTypeOK
  <2> QED
    BY <1>2, <1>4, <2>1, <2>2, <2>4, <2>5, <2>6
<1>5. CASE UNCHANGED applicationVars /\ job[r].kind \notin Changing
  <2>1. changes[r] = <<>> /\ made[r] = 0 /\ own[r] = Untouched
    BY <1>5, ChangesNothing
  <2> QED
    BY <1>1, <1>2, <1>3, <1>5, <2>1 DEF applicationVars, RoleTypeOK, AllMade
<1> QED
  BY <1>4, <1>5

\* A commit makes the rows that were inserted those of the request, and the ones it deletes no
\* row at all; it makes the application that was reviewed what the reviewer asked for.
LEMMA CommitsKeepRoles ==
  ASSUME IInv, RoleInv, ReviewInv, NEW r \in Requests, NEW from \in Running \ {"role"}, Commits(r, from),
         \/ CommitsRoles(r) /\ AllMade(r)
         \/ UNCHANGED applicationVars /\ job[r].kind \notin Changing,
         \A t \in Ids : \/ application'[t] = application[t]
                        \/ t = r /\ application[r] = "none"
                        \/ job[r].kind = "review" /\ job[r].uses = t,
         job[r].kind = "apply" => application'[r] = job[r].ask,
         job[r].kind = "review" =>
            \/ application'[job[r].uses] = job[r].ask
            \/ saw[r] = job[r].ask /\ application'[job[r].uses] = application[job[r].uses]
  PROVE  RoleInv' /\ ReviewInv'
<1>1. /\ pc[r] = from /\ pc' = [pc EXCEPT ![r] = "done"] /\ saw' = [saw EXCEPT ![r] = None]
      /\ UNCHANGED <<job, past>>
  BY DEF Commits
<1>2. /\ r \in Ids /\ pc[r] \in Running \ {"role"} /\ pc'[r] = "done" /\ "done" \notin Running
      /\ \A q \in Ids \ {r} : pc'[q] = pc[q] /\ saw'[q] = saw[q]
  BY <1>1 DEF IInv, AuthTypeOK, Ids, Running
<1>3. ChangesTell(r) /\ FlushedTells(r) /\ GivenTells(r) /\ ClearedTells(r) /\ LastTells(r) /\ RoleTypeOK
  BY DEF RoleInv
<1>4. job[r].account \in Accounts /\ r # None /\ r \notin past[r] /\ past[r] \in SUBSET Ids /\ None \notin Ids
  BY <1>2, ChangingAccount, NotYetEnded
<1>5. /\ UNCHANGED <<changes, found>> /\ found[r] = None /\ AllMade(r)
      /\ made'[r] = 0 /\ own'[r] = Untouched
      /\ \A q \in Ids \ {r} : made'[q] = made[q] /\ own'[q] = own[q]
      /\ \A a \in Accounts, x \in Roles :
           /\ a # job[r].account => holder'[a][x] = holder[a][x]
           /\ a = job[r].account =>
                /\ own[r][x] = "insert" => holder'[a][x] = r
                /\ own[r][x] = "delete" => holder'[a][x] = None
                /\ own[r][x] \notin {"insert", "delete"} => holder'[a][x] = holder[a][x]
      /\ RoleTypeOK'
  BY <1>2, CommittedRows
<1>6. \A x \in Roles : own'[r][x] = "none"
  BY <1>5 DEF Untouched
<1>7. Len(changes[r]) \in Nat /\ DOMAIN changes[r] = 1..Len(changes[r])
  <2>1. changes[r] \in Seq(Change)
    BY <1>2, <1>3 DEF RoleTypeOK
  <2> QED
    BY <2>1
<1>8. ChangesTell(r)'
  <2>1. 0 <= Len(changes[r]) /\ "done" \notin {"role", "selected", "revoking"}
    BY <1>7
  <2> QED
    BY <1>1, <1>2, <1>3, <1>5, <2>1 DEF ChangesTell
<1>9. FlushedTells(r)'
  BY <1>6 DEF FlushedTells
<1>10. \A k \in Nat : Behind(r, k)' => Behind(r, k)
  <2> SUFFICES ASSUME NEW k \in DOMAIN changes[r] PROVE k <= made[r]
    BY <1>5 DEF Behind
  <2> QED
    BY <1>5, <1>7 DEF AllMade
<1>11. GivenTells(r)'
  <2> SUFFICES ASSUME NEW x \in Roles, ~Withdraws(r, x), NEW k \in Nat, Behind(r, k),
                      Asks(changes[r][k], "add", x)
               PROVE  Held(r, x)'
    BY <1>2, <1>5, <1>10 DEF GivenTells, Withdraws
  <2>1. Held(r, x) /\ own[r][x] # "delete"
    BY <1>3 DEF GivenTells, FlushedTells
  <2>2. Removed(r, x) => Removed(r, x)'
    BY <1>1, <1>2, <1>5 DEF Removed, Withdraws, Ids
  <2>3. holder[job[r].account][x] # None \/ own[r][x] = "insert" => holder'[job[r].account][x] # None
    BY <1>4, <1>5, <2>1
  <2> QED
    BY <1>1, <2>1, <2>2, <2>3 DEF Held
<1>12. ClearedTells(r)'
  <2> SUFFICES ASSUME NEW x \in Roles, NEW p \in past[r], holder'[job[r].account][x] = p,
                      NEW k \in Nat, Behind(r, k), Asks(changes[r][k], "remove", x)
               PROVE  FALSE
    BY <1>1, <1>2, <1>5, <1>10 DEF ClearedTells
  <2>1. p # r /\ p # None
    BY <1>4
  <2>2. own[r][x] # "delete" /\ holder[job[r].account][x] = p
    BY <1>4, <1>5, <2>1
  <2> QED
    BY <1>3, <2>2 DEF ClearedTells
<1>13. LastTells(r)'
  <2> SUFFICES ASSUME NEW x \in Roles, NEW k \in Nat, Behind(r, k), Asks(changes[r][k], "remove", x)
               PROVE  holder'[job[r].account][x] # r
    BY <1>1, <1>2, <1>3, <1>5, <1>6, <1>10 DEF LastTells
  <2>1. own[r][x] # "insert" /\ holder[job[r].account][x] # r
    BY <1>3 DEF LastTells
  <2> QED
    BY <1>4, <1>5, <2>1
<1>14. RoleInv'
  <2>1. \A a \in Accounts, x \in Roles :
            \/ holder'[a][x] = holder[a][x]
            \/ /\ job[r].account = a /\ job'[r] = job[r] /\ pc'[r] = "done" /\ changes'[r] = changes[r]
               /\ \/ own[r][x] = "insert" /\ holder'[a][x] = r
                  \/ own[r][x] = "delete" /\ holder'[a][x] = None
    BY <1>1, <1>2, <1>5
  <2> QED
    BY <1>1, <1>2, <1>5, <1>6, <1>8, <1>9, <1>11, <1>12, <1>13, <2>1, OthersKeepRoles
<1>15. ReviewTells(r)' /\ SubmissionTells(r)'
  <2>1. ReviewTells(r)
    BY DEF ReviewInv
  <2>2. ReviewedSince(r) => ReviewedSince(r)'
    BY <1>1, <1>2 DEF ReviewedSince, Ids
  <2> QED
    BY <1>1, <1>2, <2>1, <2>2 DEF ReviewTells, SubmissionTells
<1>16. ReviewInv'
  BY <1>1, <1>2, <1>15, OthersKeepReviews
<1> QED
  BY <1>14, <1>16

\* The steps of a request about an account, which have nothing to do with roles
LEMMA AccountStepKeepsRoles ==
  ASSUME IInv, RoleInv, ReviewInv, NEW r \in Requests, UNCHANGED applicationVars,
         AccountStep(r) \/ FlushRevoked(r)
  PROVE  RoleInv' /\ ReviewInv'
<1>1. {"read", "user", "flushed", "selected", "revoking"} \subseteq Running \ {"role"}
  BY DEF Running
<1>2. CASE \/ InsertAccount(r) \/ FlushVerify(r) \/ ReadUser(r) \/ RevokeUsed(r) \/ FlushReset(r) \/ FlushStatus(r)
  <2>1. PICK from \in {"read", "user"}, to \in {"user", "flushed"} : Moves(r, from, to)
    BY <1>2 DEF InsertAccount, FlushVerify, ReadUser, RevokeUsed, FlushReset, FlushStatus
  <2> QED
    BY <1>1, <2>1, MovesKeepRoles
<1>3. CASE SelectAfterReset(r) \/ SelectAfterStatus(r)
  <2>1. Moves(r, "flushed", "selected") /\ job[r].kind \notin Changing
    BY <1>3 DEF SelectAfterReset, SelectAfterStatus, SelectSessions, Changing
  <2>2. AllMade(r)
    BY <2>1, ChangesNothing DEF AllMade
  <2> QED
    BY <1>1, <2>1, <2>2, MovesKeepRoles
<1>4. CASE FlushRevoked(r)
  <2>1. Moves(r, "selected", "revoking")
    BY <1>4 DEF FlushRevoked, FlushRevocations
  <2>2. AllMade(r)
    BY <2>1 DEF RoleInv, ChangesTell, Moves
  <2> QED
    BY <1>1, <2>1, <2>2, MovesKeepRoles
<1>5. CASE InsertClashes(r) \/ RefuseUser(r)
  <2>1. pc[r] = "read" /\ RollsBack(r) /\ job[r].kind \notin Changing
    BY <1>5 DEF InsertClashes, RefuseUser, Changing
  <2> QED
    BY <1>1, <2>1, RollsBackKeepsRoles
<1>6. CASE \/ CommitRegister(r) \/ CommitVerify(r) \/ CommitLogin(r) \/ CommitForgot(r)
           \/ CommitRefresh(r) \/ CommitReset(r) \/ CommitStatus(r)
  <2>1. /\ \E from \in {"read", "flushed", "revoking"} : Commits(r, from)
        /\ job[r].kind \in {"register", "verify", "login", "forgot", "refresh", "reset", "status"}
    BY <1>6 DEF CommitRegister, CommitVerify, CommitLogin, CommitForgot, CommitRefresh, CommitReset, CommitStatus
  <2>2. job[r].kind \notin Changing /\ job[r].kind # "apply" /\ job[r].kind # "review" /\ application' = application
    BY <2>1 DEF Changing, applicationVars
  <2> QED
    BY <1>1, <2>1, <2>2, CommitsKeepRoles
<1> QED
  BY <1>2, <1>3, <1>4, <1>5, <1>6 DEF AccountStep

\* The steps of a request about a role or an application
LEMMA ApplicationStepKeepsRoles ==
  ASSUME IInv, RoleInv, ReviewInv, NEW r \in Requests, ApplicationStep(r)
  PROVE  RoleInv' /\ ReviewInv'
<1>1. {"read", "flushed", "selected", "revoking"} \subseteq Running \ {"role"} /\ "role" \in Running
  BY DEF Running
<1>2. CASE GrantRole(r)
  <2>1. CASE found[r] # None /\ Makes(r, own[r][NextChange(r).role])
    BY <1>2, <2>1, MakesKeeps DEF GrantRole
  <2>2. CASE /\ RoleFree(r, NextChange(r).role) /\ holder[job[r].account][NextChange(r).role] = None
             /\ Makes(r, "insert")
    BY <1>2, <2>2, MakesKeeps DEF GrantRole
  <2> QED
    BY <1>2, <2>1, <2>2 DEF GrantRole
<1>3. CASE WithdrawRole(r)
  <2> DEFINE x == NextChange(r).role
  <2>1. pc[r] = "role" /\ NextChange(r).does = "remove"
    BY <1>3 DEF WithdrawRole
  <2>2. CASE /\ found[r] = None \/ (own[r][x] = "none" /\ holder[job[r].account][x] # found[r])
             /\ Makes(r, own[r][x])
    BY <2>1, <2>2, MakesKeeps
  <2>3. CASE own[r][x] = "insert" /\ Makes(r, "undone")
    BY <2>1, <2>3, MakesKeeps
  <2>4. CASE own[r][x] = "none" /\ RoleFree(r, x) /\ Makes(r, "delete")
    BY <2>1, <2>4, MakesKeeps
  <2> QED
    BY <1>3, <2>2, <2>3, <2>4 DEF WithdrawRole
<1>4. CASE GrantClashes(r)
  BY <1>1, <1>4, RollsBackKeepsRoles DEF GrantClashes
<1>5. CASE SelectAfterRoles(r)
  BY <1>1, <1>5, MovesKeepRoles DEF SelectAfterRoles, SelectSessions
<1>6. CASE FlushReview(r)
  BY <1>1, <1>6, MovesKeepRoles DEF FlushReview
<1>7. CASE CommitRoles(r)
  <2>1. /\ Commits(r, "revoking") /\ CommitsRoles(r) /\ application' = application
        /\ job[r].kind # "apply" /\ job[r].kind # "review"
    BY <1>7 DEF CommitRoles
  <2>2. AllMade(r)
    BY <2>1 DEF Commits, RoleInv, ChangesTell
  <2> QED
    BY <1>1, <2>1, <2>2, CommitsKeepRoles
<1>8. CASE CommitApply(r)
  <2>1. /\ Commits(r, "read") /\ CommitsRoles(r) /\ AllMade(r) /\ job[r].kind = "apply"
        /\ application' = [application EXCEPT ![r] = job[r].ask]
    BY <1>8 DEF CommitApply
  <2>2. /\ application'[r] = job[r].ask /\ application[r] = "none"
        /\ \A t \in Ids \ {r} : application'[t] = application[t]
    BY <1>1, <2>1, NotYetEnded DEF IInv, AuthTypeOK, IssuedTells, Commits
  <2> QED
    BY <1>1, <2>1, <2>2, CommitsKeepRoles
<1>9. CASE CommitReview(r)
  <2>1. Commits(r, "flushed") /\ CommitsRoles(r) /\ AllMade(r) /\ job[r].kind = "review"
    BY <1>9 DEF CommitReview
  <2>2. /\ job[r].uses \in Ids
        /\ \A i \in Ids : application'[i] =
             IF i = job[r].uses /\ saw[r] # job[r].ask THEN job[r].ask ELSE application[i]
    BY <1>9, Reviewing
  <2>3. \A t \in Ids : application'[t] = application[t] \/ job[r].uses = t
    BY <2>2
  <2>4. \/ application'[job[r].uses] = job[r].ask
        \/ saw[r] = job[r].ask /\ application'[job[r].uses] = application[job[r].uses]
    BY <2>2
  <2> QED
    BY <1>1, <2>1, <2>3, <2>4, CommitsKeepRoles
<1> QED
  BY <1>2, <1>3, <1>4, <1>5, <1>6, <1>7, <1>8, <1>9, LookForRoleKeeps DEF ApplicationStep

\* What a request is asked to change
LEMMA OneList ==
  ASSUME NEW does \in {"add", "remove"}, NEW list \in Seq(Roles)
  PROVE  /\ Each(does, list) \in Seq(Change)
         /\ \A k \in DOMAIN Each(does, list) : Each(does, list)[k].does = does
<1>1. Len(list) \in Nat /\ DOMAIN list = 1..Len(list) /\ \A k \in 1..Len(list) : list[k] \in Roles
  OBVIOUS
<1>2. \A k \in 1..Len(list) : [does |-> does, role |-> list[k]] \in Change
  BY <1>1 DEF Change
<1> QED
  BY <1>1, <1>2 DEF Each

LEMMA Lists ==
  ASSUME NEW lists \in [add : Seq(Roles), remove : Seq(Roles)]
  PROVE  FromLists(lists) \in Seq(Change) /\ GivesFirst(FromLists(lists))
<1>1. PICK given \in Seq(Change) : given = Each("add", lists.add) /\ \A k \in DOMAIN given : given[k].does = "add"
  BY OneList
<1>2. PICK gone \in Seq(Change) : gone = Each("remove", lists.remove) /\ \A k \in DOMAIN gone : gone[k].does = "remove"
  BY OneList
<1>3. FromLists(lists) = given \o gone /\ given \o gone \in Seq(Change)
  BY <1>1, <1>2 DEF FromLists
<1>4. /\ Len(given) \in Nat /\ Len(gone) \in Nat
      /\ DOMAIN given = 1..Len(given) /\ DOMAIN gone = 1..Len(gone)
      /\ DOMAIN (given \o gone) = 1..Len(given) + Len(gone)
      /\ \A k \in 1..Len(given) + Len(gone) :
           (given \o gone)[k] = IF k <= Len(given) THEN given[k] ELSE gone[k - Len(given)]
  BY <1>1, <1>2
<1>5. ASSUME NEW k \in 1..Len(given) + Len(gone)
      PROVE  (given \o gone)[k].does = IF k <= Len(given) THEN "add" ELSE "remove"
  BY <1>1, <1>2, <1>4
<1> QED
  BY <1>3, <1>4, <1>5 DEF GivesFirst

\* Requests that begin
LEMMA BeginsKeepRoles ==
  ASSUME IInv, RoleInv, ReviewInv, NEW r \in Requests, Starts(r)
  PROVE  RoleInv' /\ ReviewInv'
<1>1. \A kind, a, uses, ask : AsksFor(kind, a, uses, ask).kind = kind /\ AsksFor(kind, a, uses, ask).uses = uses
  BY DEF AsksFor
<1>2. ASSUME NEW status \in Statuses
      PROVE  /\ Granted(status) \in Seq(Change) /\ GivesFirst(Granted(status))
             /\ \A k \in DOMAIN Granted(status) : Granted(status)[k].does = "add"
  <2>1. <<"instructor">> \in Seq(Roles)
    BY RolesAssumption
  <2>2. <<>> \in Seq(Change) /\ DOMAIN <<>> = {}
    OBVIOUS
  <2> QED
    BY <2>1, <2>2, OneList DEF Granted, GivesFirst
<1>3. ASSUME NEW j, NEW loaded, Begin(r, j, loaded), j.kind # "review", UNCHANGED applicationVars
      PROVE  RoleInv' /\ ReviewInv'
  <2>1. pc[r] = "idle" /\ RoleTypeOK /\ ChangesTell(r) /\ "idle" \notin Running \cup {"done"}
    BY <1>3 DEF Begin, RoleInv, Running
  <2>2. changes[r] = <<>> /\ changes \in [Ids -> Seq(Change)]
    BY <2>1 DEF ChangesTell, RoleTypeOK
  <2>3. changes' = [changes EXCEPT ![r] = <<>>]
    BY <1>3, <2>2 DEF applicationVars
  <2>4. Intends(r, <<>>)
    BY <1>3, <2>3 DEF Intends, applicationVars
  <2>5. <<>> \in Seq(Change) /\ DOMAIN <<>> = {} /\ GivesFirst(<<>>)
    BY DEF GivesFirst
  <2> QED
    BY <1>3, <2>4, <2>5, BeginKeepsRoles
<1>4. CASE /\ \/ \E a \in Accounts :
                   BeginRegister(r, a) \/ BeginVerify(r, a) \/ BeginLogin(r, a) \/ BeginForgot(r, a)
              \/ \E i \in Ids : BeginRefresh(r, i) \/ BeginReset(r, i)
              \/ \E a \in Accounts, value \in {"ACTIVE", "INACTIVE"} : BeginStatus(r, a, value)
           /\ UNCHANGED applicationVars
  <2>1. \E kind \in {"register", "verify", "login", "forgot", "refresh", "reset", "status"} :
          \E a, uses, ask, loaded : Begin(r, AsksFor(kind, a, uses, ask), loaded)
    BY <1>4 DEF BeginRegister, BeginVerify, BeginLogin, BeginForgot, BeginRefresh, BeginReset, BeginStatus
  <2> PICK kind \in {"register", "verify", "login", "forgot", "refresh", "reset", "status"} :
          \E a, uses, ask, loaded : Begin(r, AsksFor(kind, a, uses, ask), loaded)
    BY <2>1
  <2>2. PICK a, uses, ask, loaded : Begin(r, AsksFor(kind, a, uses, ask), loaded)
    OBVIOUS
  <2>3. AsksFor(kind, a, uses, ask).kind # "review"
    BY <1>1, <2>2
  <2> QED
    BY <1>3, <1>4, <2>2, <2>3
<1>5. CASE \E a \in Accounts, status \in NewStatuses : BeginApply(r, a, status)
  <2> PICK a \in Accounts, status \in NewStatuses : BeginApply(r, a, status)
    BY <1>5
  <2>1. PICK j : j = AsksFor("apply", a, None, status)
    OBVIOUS
  <2>2. PICK list \in Seq(Change) : /\ list = Granted(status) /\ GivesFirst(list)
                                  /\ \A k \in DOMAIN list : list[k].does = "add"
    BY <1>2, NewStatusesAssumption DEF Statuses
  <2>3. Begin(r, j, None) /\ Intends(r, list) /\ j.kind = "apply"
    BY <1>1, <2>1, <2>2 DEF BeginApply
  <2> QED
    BY <2>2, <2>3, BeginKeepsRoles DEF Changing
<1>6. CASE \E a \in Accounts, lists \in RoleChanges : BeginRoles(r, a, lists)
  <2> PICK a \in Accounts, lists \in RoleChanges : BeginRoles(r, a, lists)
    BY <1>6
  <2>1. PICK j : j = AsksFor("roles", a, None, None)
    OBVIOUS
  <2>2. lists \in [add : Seq(Roles), remove : Seq(Roles)]
    BY RolesAssumption
  <2>4. PICK list \in Seq(Change) : list = FromLists(lists) /\ GivesFirst(list)
    BY <2>2, Lists
  <2>5. Begin(r, j, None) /\ Intends(r, list) /\ j.kind = "roles"
    BY <1>1, <2>1, <2>4 DEF BeginRoles
  <2> QED
    BY <2>4, <2>5, BeginKeepsRoles DEF Changing
<1>7. CASE \E i \in Ids, status \in Statuses : BeginReview(r, i, status)
  <2> PICK i \in Ids, status \in Statuses : BeginReview(r, i, status)
    BY <1>7
  <2>1. PICK j : j = AsksFor("review", job[i].account, i, status)
    OBVIOUS
  <2>2. PICK list \in Seq(Change) : /\ list = Granted(status) /\ GivesFirst(list)
                                  /\ \A k \in DOMAIN list : list[k].does = "add"
    BY <1>2
  <2>3. Begin(r, j, application[i]) /\ Intends(r, list) /\ j.kind = "review" /\ j.uses = i
    BY <1>1, <2>1, <2>2 DEF BeginReview
  <2> QED
    BY <2>2, <2>3, BeginKeepsRoles DEF Changing
<1> QED
  BY <1>4, <1>5, <1>6, <1>7 DEF Starts

\* Roles change only in requests that are about them.
LEMMA RoleStepsChange ==
  ASSUME RoleInv, NEW r \in Requests,
         LookForRole(r) \/ GrantRole(r) \/ WithdrawRole(r) \/ SelectAfterRoles(r) \/ FlushReview(r)
  PROVE  job[r].kind \in Changing
<1>1. CASE LookForRole(r) \/ GrantRole(r) \/ WithdrawRole(r)
  <2>1. pc[r] = "role" \/ ~AllMade(r)
    BY <1>1 DEF LookForRole, GrantRole, WithdrawRole
  <2> QED
    BY <2>1, NextOne DEF RoleInv, ChangesTell
<1>2. CASE SelectAfterRoles(r) \/ FlushReview(r)
  BY <1>2 DEF SelectAfterRoles, FlushReview, Changing
<1> QED
  BY <1>1, <1>2

\* Whatever requests give and withdraw at a time: no row is in the hands of two, and every role
\* and every application is what the requests that have ended made of it.
THEOREM SpecRoleInv == Spec => [](RoleInv /\ ReviewInv)
<1>1. ASSUME IInv, RoleInv, ReviewInv, Next PROVE RoleInv' /\ ReviewInv'
  <2> PICK r \in Requests : Starts(r) \/ Proceeds(r) \/ Fails(r)
    BY <1>1 DEF Next
  <2>1. CASE Starts(r)
    BY <1>1, <2>1, BeginsKeepRoles
  <2>2. CASE Fails(r)
    BY <1>1, <2>2, RollsBackKeepsRoles DEF Fails, Fail
  <2>3. CASE Proceeds(r)
    BY <1>1, <2>3, AccountStepKeepsRoles, ApplicationStepKeepsRoles DEF Proceeds
  <2> QED
    BY <2>1, <2>2, <2>3
<1>2. ASSUME RoleInv, ReviewInv, UNCHANGED vars PROVE RoleInv' /\ ReviewInv'
  <2>1. UNCHANGED <<pc, job, saw, past, application, holder, changes, made, found, own>>
    BY <1>2 DEF vars, requestVars, applicationVars
  <2>2. RoleTypeOK' /\ Exclusive' /\ \A a \in Accounts : HolderTells(a)'
    BY <1>2, <2>1 DEF RoleInv, RoleTypeOK, Exclusive, HolderTells, Grants
  <2>3. ASSUME NEW r \in Requests PROVE ChangesTell(r)' /\ FlushedTells(r)'
    BY <1>2, <2>1 DEF RoleInv, ChangesTell, FlushedTells, AllMade, Grants, Withdraws
  <2>4. ASSUME NEW r \in Requests PROVE GivenTells(r)'
    BY <1>2, <2>1 DEF RoleInv, GivenTells, Behind, NextChange, Held, Removed, Withdraws
  <2>5. ASSUME NEW r \in Requests PROVE ClearedTells(r)' /\ LastTells(r)'
    BY <1>2, <2>1 DEF RoleInv, ClearedTells, LastTells, Behind, NextChange
  <2>6. ReviewInv'
    BY <1>2, <2>1 DEF ReviewInv, ReviewTells, SubmissionTells, ReviewedSince
  <2> QED
    BY <2>2, <2>3, <2>4, <2>5, <2>6 DEF RoleInv
<1> QED
  BY <1>1, <1>2, InitRoles, SpecRequestsInv, PTL DEF Spec

\* What every column and every request may hold
THEOREM SpecTypeOK == Spec => []TypeOK
<1>1. ASSUME IInv, RoleInv PROVE TypeOK
  <2>1. AuthTypeOK /\ RoleTypeOK
    BY <1>1 DEF IInv, RoleInv
  <2> QED
    BY <2>1 DEF AuthTypeOK, RoleTypeOK, TypeOK, Jobs
<1> QED
  BY <1>1, SpecRequestsInv, SpecRoleInv, PTL

-----------------------------------------------------------------------------
(***************************************************************************)
(* Revocations and decisions: what a state says of the requests that       *)
(* overlapped the one that decided.                                        *)
(***************************************************************************)
\* is_active is what the request that wrote it last made of it.
WriterTells(a) ==
    LET w == activeBy[a] IN
    /\ HasRow(a) <=> w # None
    /\ w = Earlier => active[a] = "ACTIVE"
    /\ w \in Requests =>
         /\ pc[w] = "done" /\ job[w].account = a
         /\ \/ job[w].kind = "register" /\ active[a] = "INACTIVE"
            \/ job[w].kind = "verify" /\ active[a] = "ACTIVE"
            \/ job[w].kind = "status" /\ active[a] = job[w].ask

\* Only a registration is about an address that has no account, and the constraint lets one
\* at a time insert it.
KnowsAccount(r) ==
    /\ pc[r] \in Running \cup {"done"} /\ job[r].kind # "register" => HasRow(job[r].account)
    /\ pc[r] = "flushed" /\ job[r].kind = "register" =>
         /\ ~HasRow(job[r].account)
         /\ \A q \in Requests : Inserting(q, job[r].account) => q = r

IssuedKnows(i) ==
    session[i] # "none" \/ reset[i] # "none" \/ application[i] # "none" => HasRow(job[i].account)

\* Who has found the account active: the account was activated before, and what deactivated
\* it, if anything did, had not ended when the request began.
Entered(s) ==
    \/ session[s] # "none"
    \/ s \in Requests /\ job[s].kind = "login" /\ pc[s] \in Running \cup {"done"}
    \/ s \in Requests /\ job[s].kind = "refresh" /\ pc[s] \in {"user", "flushed", "done"}
EnteredTells(s) ==
    Entered(s) =>
        LET w == activeBy[job[s].account] IN
        /\ w # None /\ job[w].kind # "register"
        /\ w \in past[s] => active[job[s].account] = "ACTIVE"

\* Sessions issued before a revoking request began are among those it selects, and gone
\* when it is done.
RevokesTells(r) ==
    \A s \in past[r] :
        session[s] = "active" /\ job[s].account = job[r].account =>
            /\ pc[r] \in {"selected", "revoking"} => s \in revoking[r]
            /\ ~(pc[r] = "done" /\ Revokes(r))

\* The status a request loaded, or has set, is the status, unless another wrote it since.
Overwritten(r) ==
    \E q \in Requests \ {r} :
        /\ pc[q] = "done" /\ job[q].kind \in {"status", "verify"}
        /\ job[q].account = job[r].account /\ q \notin past[r]
StatusTells(r) ==
    job[r].kind = "status" /\ pc[r] \in Running \cup {"done"} =>
        \/ active[job[r].account] = IF pc[r] = "done" THEN job[r].ask ELSE saw[r]
        \/ Overwritten(r)

DecisionInv ==
    /\ \A a \in Accounts : WriterTells(a)
    /\ \A i \in Ids : IssuedKnows(i) /\ EnteredTells(i)
    /\ \A r \in Requests :
         KnowsAccount(r) /\ RevokesTells(r) /\ StatusTells(r)

\* Before anything has happened, nobody has decided anything.
LEMMA InitDecisions == Init => DecisionInv
<1> SUFFICES ASSUME Init PROVE DecisionInv
  OBVIOUS
<1>1. Earlier \in Ids /\ Earlier \notin Requests /\ None \notin Ids /\ None \notin Requests
  BY AccountsAssumption DEF Ids
<1>2. /\ \A i \in Ids : pc[i] = IF i = Earlier THEN "done" ELSE "idle"
      /\ \A i \in Ids : past[i] = {} /\ revoking[i] = {}
      /\ active = [a \in Accounts |-> IF HasRow(a) THEN "ACTIVE" ELSE "INACTIVE"]
      /\ activeBy = registrant
  BY DEF Init
<1>3. \A r \in Requests : pc[r] = "idle" /\ past[r] = {}
  BY <1>1, <1>2 DEF Ids
<1>4. \A r \in Requests : KnowsAccount(r) /\ RevokesTells(r) /\ StatusTells(r)
  BY <1>3 DEF KnowsAccount, RevokesTells, StatusTells, Running
<1>5. ASSUME Blank PROVE /\ \A i \in Ids : IssuedKnows(i) /\ EnteredTells(i)
                         /\ \A a \in Accounts : WriterTells(a)
  <2>1. \A i \in Ids : session[i] = "none" /\ reset[i] = "none" /\ application[i] = "none"
    BY <1>5 DEF Blank
  <2>2. \A a \in Accounts : registrant[a] = None
    BY <1>5 DEF Blank
  <2> QED
    BY <1>1, <1>2, <1>3, <2>1, <2>2 DEF IssuedKnows, EnteredTells, Entered, WriterTells, HasRow, Running
<1>6. ASSUME NEW b \in Accounts, Established(b)
      PROVE  /\ \A i \in Ids : IssuedKnows(i) /\ EnteredTells(i)
             /\ \A a \in Accounts : WriterTells(a)
  <2>1. /\ \A i \in Ids : i # Earlier => session[i] = "none" /\ reset[i] = "none" /\ application[i] = "none"
        /\ \A a \in Accounts : registrant[a] = IF a = b THEN Earlier ELSE None
        /\ job[Earlier] = AsksFor("earlier", b, None, None)
    BY <1>1, <1>6 DEF Established
  <2>2. job[Earlier].account = b /\ job[Earlier].kind = "earlier"
    BY <2>1 DEF AsksFor
  <2>3. HasRow(b) /\ \A a \in Accounts : HasRow(a) <=> a = b
    BY <1>1, <2>1 DEF HasRow
  <2>4. \A a \in Accounts : WriterTells(a)
    BY <1>1, <1>2, <2>1, <2>3 DEF WriterTells
  <2>5. \A i \in Ids : IssuedKnows(i) /\ EnteredTells(i)
    BY <1>1, <1>2, <1>3, <2>1, <2>2, <2>3 DEF IssuedKnows, EnteredTells, Entered, Running, Ids
  <2> QED
    BY <2>4, <2>5
<1> QED
  BY <1>4, <1>5, <1>6 DEF Init, DecisionInv

\* What a request has ended for others: whoever runs is in nobody's past, wrote no status
\* and holds no row it did not find.
LEMMA RunningIsNew ==
  ASSUME IInv, DecisionInv, NEW r \in Requests, pc[r] \in Running \cup {"idle"}
  PROVE  /\ r \in Ids /\ r # Earlier /\ None \notin Ids
         /\ \A i \in Ids : r \notin past[i] /\ past[i] \in SUBSET Ids
         /\ \A a \in Accounts : activeBy[a] # r /\ activeBy[a] \in Ids \cup {None}
         /\ session[r] = "none" /\ reset[r] = "none" /\ application[r] = "none"
         /\ pc[r] \notin Ended /\ pc[r] # "done"
<1>1. r \in Ids /\ r # Earlier /\ None \notin Ids
  BY AccountsAssumption DEF Ids
<1>2. pc[r] \notin Ended /\ pc[r] # "done"
  BY DEF Running, Ended
<1>3. \A i \in Ids : r \notin past[i] /\ past[i] \in SUBSET Ids
  BY <1>2 DEF IInv, PastTells, AuthTypeOK
<1>4. \A a \in Accounts : activeBy[a] # r /\ activeBy[a] \in Ids \cup {None}
  BY <1>2 DEF IInv, AuthTypeOK, DecisionInv, WriterTells
<1>5. session[r] = "none" /\ reset[r] = "none" /\ application[r] = "none"
  BY <1>1, <1>2 DEF IInv, IssuedTells
<1> QED
  BY <1>1, <1>2, <1>3, <1>4, <1>5

\* Who has a session, or is about to get one, is about an account.
LEMMA EnteredAccount ==
  ASSUME IInv, NEW s \in Ids, Entered(s)
  PROVE  job[s].account \in Accounts /\ pc[s] \in Running \cup {"done"}
  BY DEF IInv, JobTells, IssuedTells, Entered, Running

\* A step of one request within its transaction decides nothing: what is to be shown is what
\* it has reached itself.
LEMMA MovesDecide ==
  ASSUME IInv, DecisionInv, NEW r \in Requests, NEW from \in Running, NEW to \in Running,
         Moves(r, from, to), UNCHANGED <<userVars, tokenVars, application>>,
         \A i \in Ids \ {r} : revoking'[i] = revoking[i],
         KnowsAccount(r)', EnteredTells(r)', RevokesTells(r)'
  PROVE  DecisionInv'
<1>1. /\ pc[r] = from /\ pc' = [pc EXCEPT ![r] = to]
      /\ UNCHANGED <<job, saw, past, registrant, active, activeBy, session, reset, application>>
  BY DEF Moves, userVars, tokenVars
<1>2. /\ r \in Ids /\ \A i \in Ids : r \notin past[i] /\ past[i] \in SUBSET Ids
      /\ \A a \in Accounts : activeBy[a] # r /\ activeBy[a] \in Ids \cup {None}
  BY <1>1, RunningIsNew
<1>3. /\ pc'[r] \in Running /\ pc[r] \in Running /\ \A i \in Ids \ {r} : pc'[i] = pc[i]
      /\ "done" \notin Running /\ \A q \in Requests : q \in Ids
  BY <1>1, <1>2 DEF IInv, AuthTypeOK, Running, Ids
<1>4. \A a \in Accounts : WriterTells(a)'
  BY <1>1, <1>2, <1>3 DEF DecisionInv, WriterTells, HasRow
<1>5. \A i \in Ids : IssuedKnows(i)'
  BY <1>1 DEF DecisionInv, IssuedKnows, HasRow
<1>6. \A i \in Ids : EnteredTells(i)'
  <2> SUFFICES ASSUME NEW i \in Ids, i # r PROVE EnteredTells(i)'
    OBVIOUS
  <2> QED
    BY <1>1, <1>3 DEF DecisionInv, EnteredTells, Entered
<1>7. ASSUME NEW q \in Requests PROVE KnowsAccount(q)' /\ RevokesTells(q)' /\ StatusTells(q)'
  <2>1. Overwritten(q) => Overwritten(q)'
    BY <1>1, <1>3 DEF Overwritten
  <2>3. CASE q = r
    <3>1. StatusTells(r)'
      BY <1>1, <1>3, <2>1, <2>3 DEF DecisionInv, StatusTells
    <3> QED
      BY <2>3, <3>1
  <2>4. CASE q # r
    <3>1. pc'[q] = pc[q] /\ revoking'[q] = revoking[q]
      BY <1>3, <2>4
    <3>2. KnowsAccount(q)'
      BY <1>1, <1>3, <2>4, <3>1 DEF DecisionInv, KnowsAccount, Inserting, HasRow
    <3>3. RevokesTells(q)'
      BY <1>1, <3>1 DEF DecisionInv, RevokesTells, Revokes
    <3>4. StatusTells(q)'
      BY <1>1, <2>1, <3>1 DEF DecisionInv, StatusTells
    <3> QED
      BY <3>2, <3>3, <3>4
  <2> QED
    BY <2>3, <2>4
<1> QED
  BY <1>4, <1>5, <1>6, <1>7 DEF DecisionInv

\* Nor does a request that rolls back.
LEMMA RollsBackDecides ==
  ASSUME IInv, DecisionInv, NEW r \in Requests, pc[r] \in Running, RollsBack(r),
         application' = application
  PROVE  DecisionInv'
<1>1. /\ pc' = [pc EXCEPT ![r] = "failed"] /\ job' = [job EXCEPT ![r] = NoJob]
      /\ saw' = [saw EXCEPT ![r] = None] /\ revoking' = [revoking EXCEPT ![r] = {}]
      /\ past' = [past EXCEPT ![r] = {}]
      /\ UNCHANGED <<registrant, active, activeBy, session, reset, application>>
  BY DEF RollsBack, userVars, tokenVars
<1>2. /\ r \in Ids /\ r # Earlier /\ \A i \in Ids : r \notin past[i] /\ past[i] \in SUBSET Ids
      /\ \A a \in Accounts : activeBy[a] # r /\ activeBy[a] \in Ids \cup {None}
      /\ session[r] = "none" /\ reset[r] = "none" /\ application[r] = "none" /\ pc[r] # "done"
  BY RunningIsNew
<1>3. /\ pc'[r] = "failed" /\ past'[r] = {} /\ "failed" \notin Running \cup {"done"}
      /\ \A i \in Ids \ {r} : /\ pc'[i] = pc[i] /\ job'[i] = job[i] /\ past'[i] = past[i]
                              /\ saw'[i] = saw[i] /\ revoking'[i] = revoking[i]
      /\ \A q \in Requests : q \in Ids
  BY <1>1, <1>2 DEF IInv, AuthTypeOK, Running, Ids
<1>4. \A a \in Accounts : WriterTells(a)'
  BY <1>1, <1>2, <1>3 DEF DecisionInv, WriterTells, HasRow
<1>5. \A i \in Ids : IssuedKnows(i)'
  BY <1>1, <1>2, <1>3 DEF DecisionInv, IssuedKnows, HasRow
<1>6. ASSUME NEW i \in Ids PROVE EnteredTells(i)'
  <2> SUFFICES ASSUME Entered(i)' PROVE EnteredTells(i)'
    BY DEF EnteredTells
  <2>1. i # r
    BY <1>1, <1>2, <1>3 DEF Entered
  <2>2. Entered(i)
    BY <1>1, <1>3, <2>1 DEF Entered
  <2>3. activeBy[job[i].account] \in Ids \cup {None} /\ activeBy[job[i].account] # r
    BY <1>2, <2>2, EnteredAccount
  <2> QED
    BY <1>1, <1>3, <2>1, <2>2, <2>3 DEF DecisionInv, EnteredTells
<1>7. ASSUME NEW q \in Requests, q # r PROVE KnowsAccount(q)' /\ RevokesTells(q)' /\ StatusTells(q)'
  <2>0. /\ pc'[q] = pc[q] /\ job'[q] = job[q] /\ past'[q] = past[q] /\ saw'[q] = saw[q]
        /\ revoking'[q] = revoking[q]
    BY <1>3, <1>7
  <2>1. Overwritten(q) => Overwritten(q)'
    BY <1>2, <1>3, <2>0 DEF Overwritten
  <2>3. KnowsAccount(q)'
    BY <1>1, <1>3, <2>0 DEF DecisionInv, KnowsAccount, Inserting, HasRow
  <2>4. RevokesTells(q)'
    <3>1. \A s \in past[q] : job'[s] = job[s]
      BY <1>2, <1>3, <2>0
    <3> QED
      BY <1>1, <2>0, <3>1 DEF DecisionInv, RevokesTells, Revokes
  <2>5. StatusTells(q)'
    BY <1>1, <2>0, <2>1 DEF DecisionInv, StatusTells
  <2> QED
    BY <2>3, <2>4, <2>5
<1>8. KnowsAccount(r)' /\ RevokesTells(r)' /\ StatusTells(r)'
  BY <1>1, <1>3 DEF KnowsAccount, RevokesTells, StatusTells
<1> QED
  BY <1>4, <1>5, <1>6, <1>7, <1>8 DEF DecisionInv

\* A request begins: it knows the account, and who logs in has found it active.
LEMMA BeginDecides ==
  ASSUME IInv, DecisionInv, NEW r \in Requests, NEW j \in Jobs, NEW loaded, Begin(r, j, loaded),
         application' = application, j.account \in Accounts,
         j.kind # "register" => HasRow(j.account),
         j.kind = "login" => active[j.account] = "ACTIVE",
         j.kind = "status" => loaded = active[j.account]
  PROVE  DecisionInv'
<1>1. /\ pc[r] = "idle" /\ pc' = [pc EXCEPT ![r] = "read"] /\ job' = [job EXCEPT ![r] = j]
      /\ saw' = [saw EXCEPT ![r] = loaded] /\ past' = [past EXCEPT ![r] = {q \in Ids : pc[q] \in Ended}]
      /\ UNCHANGED <<registrant, active, activeBy, session, reset, revoking, application>>
  BY DEF Begin, userVars, tokenVars
<1>2. /\ r \in Ids /\ r # Earlier /\ \A i \in Ids : r \notin past[i] /\ past[i] \in SUBSET Ids
      /\ \A a \in Accounts : activeBy[a] # r /\ activeBy[a] \in Ids \cup {None}
      /\ session[r] = "none" /\ reset[r] = "none" /\ application[r] = "none" /\ pc[r] # "done"
  BY <1>1, RunningIsNew
<1>3. /\ pc'[r] = "read" /\ job'[r] = j /\ saw'[r] = loaded
      /\ \A i \in Ids \ {r} : pc'[i] = pc[i] /\ job'[i] = job[i] /\ past'[i] = past[i] /\ saw'[i] = saw[i]
      /\ \A q \in Requests : q \in Ids
  BY <1>1, <1>2 DEF IInv, AuthTypeOK, Ids
<1>4. \A a \in Accounts : WriterTells(a)'
  BY <1>1, <1>2, <1>3 DEF DecisionInv, WriterTells, HasRow
<1>5. \A i \in Ids : IssuedKnows(i)'
  BY <1>1, <1>2, <1>3 DEF DecisionInv, IssuedKnows, HasRow
<1>6. ASSUME NEW i \in Ids, i # r PROVE EnteredTells(i)'
  <2> SUFFICES ASSUME Entered(i)' PROVE EnteredTells(i)'
    BY DEF EnteredTells
  <2>1. Entered(i)
    BY <1>1, <1>3, <1>6 DEF Entered
  <2>2. activeBy[job[i].account] \in Ids \cup {None} /\ activeBy[job[i].account] # r
    BY <1>2, <2>1, EnteredAccount
  <2> QED
    BY <1>1, <1>3, <1>6, <2>1, <2>2 DEF DecisionInv, EnteredTells
<1>7. EnteredTells(r)'
  <2> SUFFICES ASSUME Entered(r)' PROVE EnteredTells(r)'
    BY DEF EnteredTells
  <2>1. j.kind = "login"
    BY <1>1, <1>2, <1>3 DEF Entered
  <2>2. PICK w : w = activeBy[j.account]
    OBVIOUS
  <2>3. WriterTells(j.account) /\ HasRow(j.account) /\ active[j.account] = "ACTIVE"
    BY <2>1 DEF DecisionInv
  <2>4. w # None /\ (w \in Requests => job[w].kind # "register")
    BY <2>2, <2>3 DEF WriterTells
  <2>5. w = Earlier => job[w].kind = "earlier"
    BY DEF IInv, EarlierTells
  <2>6. w \in Ids /\ w # r /\ job'[w] = job[w]
    BY <1>2, <1>3, <2>2, <2>4
  <2> QED
    BY <1>1, <1>3, <2>2, <2>3, <2>4, <2>5, <2>6 DEF EnteredTells, Ids
<1>8. ASSUME NEW q \in Requests, q # r PROVE KnowsAccount(q)' /\ RevokesTells(q)' /\ StatusTells(q)'
  <2>0. pc'[q] = pc[q] /\ job'[q] = job[q] /\ past'[q] = past[q] /\ saw'[q] = saw[q]
    BY <1>3, <1>8
  <2>1. Overwritten(q) => Overwritten(q)'
    BY <1>2, <1>3, <2>0 DEF Overwritten
  <2>3. KnowsAccount(q)'
    BY <1>1, <1>3, <2>0 DEF DecisionInv, KnowsAccount, Inserting, HasRow
  <2>4. RevokesTells(q)'
    <3>1. \A s \in past[q] : job'[s] = job[s]
      BY <1>2, <1>3, <2>0
    <3> QED
      BY <1>1, <2>0, <3>1 DEF DecisionInv, RevokesTells, Revokes
  <2>5. StatusTells(q)'
    BY <1>1, <2>0, <2>1 DEF DecisionInv, StatusTells
  <2> QED
    BY <2>3, <2>4, <2>5
<1>9. KnowsAccount(r)' /\ RevokesTells(r)' /\ StatusTells(r)'
  BY <1>1, <1>3 DEF KnowsAccount, RevokesTells, StatusTells, HasRow, Running
<1> QED
  BY <1>4, <1>5, <1>6, <1>7, <1>8, <1>9 DEF DecisionInv

\* What a commit may write, of is_active and tokens
WritesAccount(r) ==
    \A a \in Accounts :
        \/ registrant'[a] = registrant[a] /\ activeBy'[a] = activeBy[a] /\ active'[a] = active[a]
        \/ /\ a = job[r].account /\ activeBy'[a] = r /\ registrant'[a] # None
           /\ \/ job[r].kind = "register" /\ pc[r] = "flushed" /\ active'[a] = "INACTIVE"
              \/ job[r].kind = "verify" /\ active'[a] = "ACTIVE"
              \/ job[r].kind = "status" /\ active'[a] = job[r].ask
IssuesTokens(r) ==
    /\ \A i \in Ids : /\ session'[i] # "none" => session[i] # "none" \/ (i = r /\ Entered(r))
                      /\ session'[i] = "active" => session[i] = "active" \/ i = r
                      /\ reset'[i] # "none" => reset[i] # "none" \/ (i = r /\ job[r].kind # "register")
                      /\ application'[i] # "none" => application[i] # "none" \/ (i = r /\ job[r].kind # "register")
    /\ Revokes(r) => pc[r] = "revoking" /\ \A s \in revoking[r] : session'[s] # "active"
    /\ job[r].kind \in {"register", "refresh"} => pc[r] = "flushed"

\* A commit decides: whatever it overwrites for others, they overlapped it.
LEMMA CommitDecides ==
  ASSUME IInv, DecisionInv, NEW r \in Requests, NEW from \in Running, Commits(r, from),
         WritesAccount(r), IssuesTokens(r),
         job[r].kind = "status" =>
            \/ active'[job[r].account] = job[r].ask
            \/ saw[r] = job[r].ask /\ active'[job[r].account] = active[job[r].account]
  PROVE  DecisionInv'
<1>1. /\ pc[r] = from /\ pc' = [pc EXCEPT ![r] = "done"] /\ saw' = [saw EXCEPT ![r] = None]
      /\ revoking' = [revoking EXCEPT ![r] = {}] /\ UNCHANGED <<job, past>>
  BY DEF Commits
<1>2. /\ r \in Ids /\ r # Earlier /\ None \notin Ids /\ \A i \in Ids : r \notin past[i] /\ past[i] \in SUBSET Ids
      /\ \A a \in Accounts : activeBy[a] # r /\ activeBy[a] \in Ids \cup {None}
      /\ session[r] = "none" /\ reset[r] = "none" /\ application[r] = "none" /\ pc[r] # "done"
  BY <1>1, RunningIsNew
<1>3. /\ pc'[r] = "done" /\ pc[r] \in Running /\ "done" \notin Running
      /\ \A i \in Ids \ {r} : pc'[i] = pc[i] /\ saw'[i] = saw[i] /\ revoking'[i] = revoking[i]
      /\ \A q \in Requests : q \in Ids
  BY <1>1, <1>2 DEF IInv, AuthTypeOK, Running, Ids
<1>4. job[r].account \in Accounts
  BY <1>3 DEF IInv, JobTells
<1>5. \A a \in Accounts : WriterTells(a)'
  <2> SUFFICES ASSUME NEW a \in Accounts PROVE WriterTells(a)'
    OBVIOUS
  <2>1. CASE registrant'[a] = registrant[a] /\ activeBy'[a] = activeBy[a] /\ active'[a] = active[a]
    BY <1>1, <1>2, <1>3, <2>1 DEF DecisionInv, WriterTells, HasRow
  <2>2. CASE ~(registrant'[a] = registrant[a] /\ activeBy'[a] = activeBy[a] /\ active'[a] = active[a])
    BY <1>1, <1>2, <1>3, <2>2 DEF WritesAccount, WriterTells, HasRow
  <2> QED
    BY <2>1, <2>2
<1>6. /\ \A a \in Accounts : HasRow(a) => HasRow(a)'
      /\ \A a \in Accounts : HasRow(a)' => HasRow(a) \/ (job[r].kind = "register" /\ a = job[r].account)
      /\ job[r].kind # "register" => HasRow(job[r].account)
      /\ job[r].kind = "register" => ~HasRow(job[r].account)
  <2>1. KnowsAccount(r) /\ \A a \in Accounts : WriterTells(a)
    BY DEF DecisionInv
  <2>2. /\ job[r].kind # "register" => HasRow(job[r].account)
        /\ job[r].kind = "register" => ~HasRow(job[r].account)
    BY <1>3, <2>1 DEF KnowsAccount, IssuesTokens
  <2> QED
    BY <2>1, <2>2 DEF WritesAccount, HasRow
<1>7. ASSUME NEW i \in Ids PROVE IssuedKnows(i)'
  <2> SUFFICES ASSUME session'[i] # "none" \/ reset'[i] # "none" \/ application'[i] # "none"
               PROVE  HasRow(job[i].account)'
    BY <1>1 DEF IssuedKnows
  <2>1. CASE session[i] # "none" \/ reset[i] # "none" \/ application[i] # "none"
    <3>1. job[i].account \in Accounts /\ HasRow(job[i].account)
      BY <2>1 DEF DecisionInv, IssuedKnows, IInv, IssuedTells
    <3> QED
      BY <1>1, <1>6, <3>1 DEF HasRow
  <2>2. CASE ~(session[i] # "none" \/ reset[i] # "none" \/ application[i] # "none")
    <3>1. i = r /\ job[r].kind # "register"
      BY <1>2, <2>2 DEF IssuesTokens, Entered
    <3> QED
      BY <1>1, <1>4, <1>6, <3>1 DEF HasRow
  <2> QED
    BY <2>1, <2>2
<1>8. ASSUME NEW i \in Ids PROVE EnteredTells(i)'
  <2> SUFFICES ASSUME Entered(i)' PROVE EnteredTells(i)'
    BY DEF EnteredTells
  <2>1. Entered(i)
    BY <1>1, <1>2, <1>3 DEF Entered, IssuesTokens, Running
  <2>2. PICK a \in Accounts : a = job[i].account
    BY <2>1, EnteredAccount
  <2>3. /\ activeBy[a] # None /\ job[activeBy[a]].kind # "register"
        /\ activeBy[a] \in past[i] => active[a] = "ACTIVE"
    BY <2>1, <2>2 DEF DecisionInv, EnteredTells
  <2>4. HasRow(a)
    BY <2>3 DEF DecisionInv, WriterTells
  <2>5. CASE activeBy'[a] = activeBy[a] /\ active'[a] = active[a]
    BY <1>1, <2>2, <2>3, <2>5 DEF EnteredTells
  <2>6. CASE ~(activeBy'[a] = activeBy[a] /\ active'[a] = active[a])
    <3>1. a = job[r].account /\ activeBy'[a] = r
      BY <2>6 DEF WritesAccount
    <3>2. job[r].kind # "register" /\ r \notin past[i] /\ r # None
      BY <1>2, <1>6, <2>4, <3>1
    <3> QED
      BY <1>1, <2>2, <3>1, <3>2 DEF EnteredTells
  <2> QED
    BY <2>5, <2>6
<1>9. \A q \in Requests : KnowsAccount(q)'
  <2> SUFFICES ASSUME NEW q \in Requests PROVE KnowsAccount(q)'
    OBVIOUS
  <2>1. KnowsAccount(q) /\ KnowsAccount(r) /\ JobTells(q)
    BY DEF DecisionInv, IInv
  <2>2. pc'[q] \in Running \cup {"done"} => pc[q] \in Running \cup {"done"}
    BY <1>3
  <2>3. pc'[q] \in Running \cup {"done"} /\ job[q].kind # "register" => HasRow(job[q].account)'
    BY <1>1, <1>6, <2>1, <2>2 DEF KnowsAccount, JobTells, HasRow
  <2>4. ASSUME pc'[q] = "flushed", job[q].kind = "register"
        PROVE  /\ ~HasRow(job[q].account)'
               /\ \A p \in Requests : Inserting(p, job[q].account)' => p = q
    <3>1. q # r /\ pc[q] = "flushed" /\ job[q].account \in Accounts
      BY <1>3, <2>1, <2>4 DEF JobTells, Running
    <3>2. ~HasRow(job[q].account) /\ \A p \in Requests : Inserting(p, job[q].account) => p = q
      BY <2>1, <2>4, <3>1 DEF KnowsAccount
    <3>3. \A p \in Requests : Inserting(p, job[q].account)' => p = q
      BY <1>1, <1>3, <3>2 DEF Inserting
    <3>4. ~(job[r].kind = "register" /\ job[q].account = job[r].account)
      BY <3>1, <3>2 DEF Inserting, IssuesTokens
    <3> QED
      BY <1>1, <1>6, <3>1, <3>2, <3>3, <3>4 DEF HasRow
  <2> QED
    BY <1>1, <2>3, <2>4 DEF KnowsAccount
<1>10. \A q \in Requests : Overwritten(q) => Overwritten(q)'
  BY <1>1, <1>3 DEF Overwritten
<1>11. ASSUME NEW q \in Requests PROVE RevokesTells(q)'
  <2> SUFFICES ASSUME NEW s \in past[q], session'[s] = "active", job[s].account = job[q].account
               PROVE  /\ pc'[q] \in {"selected", "revoking"} => s \in revoking'[q]
                      /\ ~(pc'[q] = "done" /\ Revokes(q)')
    BY <1>1 DEF RevokesTells
  <2>1. q \in Ids /\ s \in Ids /\ s # r
    BY <1>2, <1>3
  <2>2. session[s] = "active"
    BY <2>1 DEF IssuesTokens
  <2>3. Revokes(q)' = Revokes(q)
    BY <1>1 DEF Revokes
  <2>4. /\ pc[q] \in {"selected", "revoking"} => s \in revoking[q]
        /\ ~(pc[q] = "done" /\ Revokes(q))
    BY <2>2 DEF DecisionInv, RevokesTells
  <2>5. CASE q = r
    BY <1>3, <2>3, <2>4, <2>5 DEF IssuesTokens
  <2>6. CASE q # r
    BY <1>3, <2>1, <2>3, <2>4, <2>6
  <2> QED
    BY <2>5, <2>6
<1>12. ASSUME NEW q \in Requests PROVE StatusTells(q)'
  <2> SUFFICES ASSUME job[q].kind = "status", pc'[q] \in Running \cup {"done"}
               PROVE  \/ active'[job[q].account] = IF pc'[q] = "done" THEN job[q].ask ELSE saw'[q]
                      \/ Overwritten(q)'
    BY <1>1 DEF StatusTells
  <2>1. pc[q] \in Running \cup {"done"} /\ StatusTells(q) /\ KnowsAccount(q) /\ q \in Ids
    BY <1>3 DEF DecisionInv
  <2>2. /\ job[q].account \in Accounts /\ HasRow(job[q].account)
        /\ active[job[q].account] = (IF pc[q] = "done" THEN job[q].ask ELSE saw[q]) \/ Overwritten(q)
    BY <2>1 DEF IInv, JobTells, StatusTells, KnowsAccount
  <2>3. CASE q = r
    <3>1. pc[q] # "done" /\ pc'[q] = "done"
      BY <1>2, <1>3, <2>3
    <3> QED
      BY <1>10, <2>2, <2>3, <3>1
  <2>4. CASE q # r
    <3>1. pc'[q] = pc[q] /\ saw'[q] = saw[q]
      BY <1>3, <2>1, <2>4
    <3>2. CASE active'[job[q].account] = active[job[q].account]
      BY <1>10, <2>2, <3>1, <3>2
    <3>3. CASE active'[job[q].account] # active[job[q].account]
      <4>1. job[r].account = job[q].account /\ job[r].kind \in {"register", "verify", "status"}
        BY <2>2, <3>3 DEF WritesAccount
      <4>2. job[r].kind # "register"
        BY <1>6, <2>2, <4>1
      <4>3. Overwritten(q)'
        BY <1>1, <1>2, <1>3, <2>1, <2>4, <4>1, <4>2 DEF Overwritten
      <4> QED
        BY <4>3
    <3> QED
      BY <3>2, <3>3
  <2> QED
    BY <2>3, <2>4
<1> QED
  BY <1>5, <1>7, <1>8, <1>9, <1>11, <1>12 DEF DecisionInv

\* What a step of a request that neither registers nor refreshes leaves as it was.
LEMMA StaysKnown ==
  ASSUME IInv, DecisionInv, NEW r \in Requests, NEW from \in Running, NEW to \in Running,
         Moves(r, from, to), UNCHANGED <<userVars, tokenVars, application>>,
         job[r].kind \notin {"register", "refresh"}
  PROVE  /\ KnowsAccount(r)' /\ EnteredTells(r)' /\ pc[r] = from /\ pc'[r] = to
         /\ UNCHANGED <<job, past, saw, session>>
<1>1. /\ pc[r] = from /\ pc' = [pc EXCEPT ![r] = to]
      /\ UNCHANGED <<job, saw, past, registrant, active, activeBy, session, reset, application>>
  BY DEF Moves, userVars, tokenVars
<1>2. r \in Ids /\ session[r] = "none" /\ pc[r] # "done"
  BY <1>1, RunningIsNew
<1>3. pc'[r] = to /\ \A i \in Ids \ {r} : pc'[i] = pc[i] /\ \A q \in Requests : q \in Ids
  BY <1>1, <1>2 DEF IInv, AuthTypeOK, Ids
<1>4. KnowsAccount(r)'
  BY <1>1, <1>3 DEF DecisionInv, KnowsAccount, HasRow
<1>5. EnteredTells(r)'
  BY <1>1, <1>2, <1>3 DEF DecisionInv, EnteredTells, Entered
<1> QED
  BY <1>1, <1>3, <1>4, <1>5

\* Steps of a request about an account, short of its commit
LEMMA AccountMovesDecide ==
  ASSUME IInv, DecisionInv, NEW r \in Requests, UNCHANGED applicationVars,
         \/ InsertAccount(r) \/ FlushVerify(r) \/ ReadUser(r) \/ RevokeUsed(r)
         \/ FlushReset(r) \/ SelectAfterReset(r) \/ FlushStatus(r) \/ SelectAfterStatus(r)
         \/ FlushRevoked(r)
  PROVE  DecisionInv'
<1>1. {"read", "user", "flushed", "selected", "revoking"} \subseteq Running
  BY DEF Running
<1>2. /\ application' = application /\ r \in Ids
      /\ KnowsAccount(r) /\ RevokesTells(r) /\ EnteredTells(r)
      /\ revoking \in [Ids -> SUBSET Ids] /\ pc \in [Ids -> Running \cup Ended \cup {"idle"}]
      /\ past[r] \in SUBSET Ids
  BY DEF applicationVars, DecisionInv, IInv, AuthTypeOK, Ids
<1>3. ASSUME NEW from \in {"read", "user", "flushed"}, NEW to \in Running, Moves(r, from, to)
      PROVE  /\ session[r] = "none" /\ pc'[r] = to /\ pc[r] = from
             /\ pc' = [pc EXCEPT ![r] = to] /\ UNCHANGED <<job, past>>
  <2>1. /\ pc[r] = from /\ pc' = [pc EXCEPT ![r] = to] /\ pc'[r] = to /\ UNCHANGED <<job, past>>
    BY <1>2, <1>3 DEF Moves
  <2>2. from \in Running
    BY <1>1
  <2>3. session[r] = "none"
    BY <2>1, <2>2, RunningIsNew
  <2> QED
    BY <2>1, <2>3
<1>4. CASE InsertAccount(r)
  <2>1. /\ Moves(r, "read", "flushed") /\ UNCHANGED <<userVars, tokenVars, revoking>>
        /\ job[r].kind = "register" /\ ~HasRow(job[r].account)
        /\ \A q \in Requests : ~Inserting(q, job[r].account)
    BY <1>4 DEF InsertAccount
  <2>2. /\ session[r] = "none" /\ pc'[r] = "flushed" /\ UNCHANGED <<job, past>>
        /\ pc' = [pc EXCEPT ![r] = "flushed"]
    BY <1>1, <1>3, <2>1
  <2>3. KnowsAccount(r)'
    BY <1>2, <2>1, <2>2 DEF KnowsAccount, Inserting, HasRow, userVars
  <2>4. EnteredTells(r)' /\ RevokesTells(r)'
    BY <2>1, <2>2 DEF EnteredTells, Entered, RevokesTells, tokenVars
  <2> QED
    BY <1>1, <1>2, <2>1, <2>2, <2>3, <2>4, MovesDecide
<1>5. CASE FlushVerify(r) \/ FlushReset(r) \/ FlushStatus(r)
  <2>1. /\ Moves(r, "read", "flushed") /\ UNCHANGED <<userVars, tokenVars, revoking>>
        /\ job[r].kind \notin {"register", "refresh"}
    BY <1>5 DEF FlushVerify, FlushReset, FlushStatus
  <2>2. pc'[r] = "flushed"
    BY <1>1, <1>3, <2>1
  <2>3. RevokesTells(r)'
    BY <2>2 DEF RevokesTells
  <2>4. KnowsAccount(r)' /\ EnteredTells(r)'
    BY <1>1, <1>2, <2>1, StaysKnown
  <2> QED
    BY <1>1, <1>2, <2>1, <2>2, <2>3, <2>4, MovesDecide
<1>6. CASE ReadUser(r)
  <2>1. /\ Moves(r, "read", "user") /\ UNCHANGED <<userVars, tokenVars, revoking>>
        /\ job[r].kind = "refresh" /\ active[job[r].account] = "ACTIVE"
    BY <1>6 DEF ReadUser, MayLogIn
  <2>2. /\ session[r] = "none" /\ pc'[r] = "user" /\ pc[r] = "read" /\ UNCHANGED <<job, past>>
    BY <1>1, <1>3, <2>1
  <2>3. KnowsAccount(r)' /\ HasRow(job[r].account)
    BY <1>1, <1>2, <2>1, <2>2 DEF KnowsAccount, HasRow, userVars
  <2>4. RevokesTells(r)'
    BY <2>2 DEF RevokesTells
  <2>5. PICK w : w = activeBy[job[r].account]
    OBVIOUS
  <2>6. job[r].account \in Accounts
    BY <1>1, <2>2 DEF IInv, JobTells
  <2>7. w # None /\ (w \in Requests => job[w].kind # "register")
    BY <2>1, <2>3, <2>5, <2>6 DEF DecisionInv, WriterTells
  <2>8. w \in Ids \cup {None} /\ (w = Earlier => job[w].kind = "earlier")
    BY <2>5, <2>6 DEF IInv, EarlierTells, AuthTypeOK
  <2>9. EnteredTells(r)'
    BY <2>1, <2>2, <2>5, <2>7, <2>8 DEF EnteredTells, userVars, Ids
  <2> QED
    BY <1>1, <1>2, <2>1, <2>2, <2>3, <2>4, <2>9, MovesDecide
<1>7. CASE RevokeUsed(r)
  <2>1. /\ Moves(r, "user", "flushed") /\ UNCHANGED <<userVars, tokenVars, revoking>>
        /\ job[r].kind = "refresh"
    BY <1>7 DEF RevokeUsed
  <2>2. /\ session[r] = "none" /\ pc'[r] = "flushed" /\ pc[r] = "user" /\ UNCHANGED <<job, past>>
    BY <1>1, <1>3, <2>1
  <2>3. KnowsAccount(r)' /\ RevokesTells(r)'
    BY <1>1, <1>2, <2>1, <2>2 DEF KnowsAccount, HasRow, userVars, RevokesTells
  <2>4. EnteredTells(r)'
    BY <1>2, <2>1, <2>2 DEF EnteredTells, Entered, userVars
  <2> QED
    BY <1>1, <1>2, <2>1, <2>2, <2>3, <2>4, MovesDecide
<1>8. CASE SelectAfterReset(r) \/ SelectAfterStatus(r)
  <2>1. /\ Moves(r, "flushed", "selected") /\ UNCHANGED <<userVars, tokenVars>>
        /\ job[r].kind \notin {"register", "refresh"}
        /\ revoking' = [revoking EXCEPT ![r] = Sessions(job[r].account)]
    BY <1>8 DEF SelectAfterReset, SelectAfterStatus, SelectSessions
  <2>2. pc'[r] = "selected" /\ UNCHANGED <<job, past>>
    BY <1>1, <1>3, <2>1
  <2>3. KnowsAccount(r)' /\ EnteredTells(r)'
    BY <1>1, <1>2, <2>1, StaysKnown
  <2>4. RevokesTells(r)'
    BY <1>2, <2>1, <2>2 DEF RevokesTells, Sessions, tokenVars
  <2>5. \A i \in Ids \ {r} : revoking'[i] = revoking[i]
    BY <1>2, <2>1
  <2> QED
    BY <1>1, <1>2, <2>1, <2>2, <2>3, <2>4, <2>5, MovesDecide
<1>9. CASE FlushRevoked(r)
  <2>1. /\ Moves(r, "selected", "revoking") /\ UNCHANGED <<userVars, tokenVars, revoking>>
        /\ job[r].kind \notin {"register", "refresh"}
    BY <1>9 DEF FlushRevoked, FlushRevocations, Revokes
  <2>2. /\ KnowsAccount(r)' /\ EnteredTells(r)' /\ pc[r] = "selected" /\ pc'[r] = "revoking"
        /\ UNCHANGED <<job, past, session>>
    BY <1>1, <1>2, <2>1, StaysKnown
  <2>3. RevokesTells(r)'
    BY <1>2, <2>1, <2>2 DEF RevokesTells
  <2> QED
    BY <1>1, <1>2, <2>1, <2>2, <2>3, MovesDecide
<1> QED
  BY <1>4, <1>5, <1>6, <1>7, <1>8, <1>9

\* Steps of a request about a role or an application, short of its commit
LEMMA ApplicationMovesDecide ==
  ASSUME IInv, DecisionInv, NEW r \in Requests,
         \/ LookForRole(r) \/ GrantRole(r) \/ WithdrawRole(r) \/ SelectAfterRoles(r) \/ FlushReview(r),
         job[r].kind \in {"roles", "apply", "review"}
  PROVE  DecisionInv'
<1>1. {"read", "flushed", "role", "selected"} \subseteq Running /\ Base(r) \in {"read", "flushed"}
  BY DEF Running, Base
<1>2. /\ r \in Ids /\ revoking \in [Ids -> SUBSET Ids] /\ past[r] \in SUBSET Ids
  BY DEF IInv, AuthTypeOK, Ids
<1>3. ASSUME NEW from \in {"read", "flushed", "role"}, NEW to \in {"read", "flushed", "role"},
             Moves(r, from, to), UNCHANGED <<userVars, tokenVars, revoking, application>>
      PROVE  DecisionInv'
  <2>1. /\ KnowsAccount(r)' /\ EnteredTells(r)' /\ pc'[r] = to /\ UNCHANGED <<job, past>>
    BY <1>1, <1>3, StaysKnown
  <2>2. RevokesTells(r)'
    BY <1>3, <2>1 DEF RevokesTells
  <2> QED
    BY <1>1, <1>3, <2>1, <2>2, MovesDecide
<1>4. CASE LookForRole(r) \/ FlushReview(r)
  <2>1. PICK from \in {"read", "flushed"}, to \in {"flushed", "role"} : Moves(r, from, to)
    BY <1>1, <1>4 DEF LookForRole, FlushReview
  <2> QED
    BY <1>3, <1>4, <2>1 DEF LookForRole, FlushReview, applicationVars
<1>5. CASE GrantRole(r) \/ WithdrawRole(r)
  <2>1. PICK act : Makes(r, act)
    BY <1>5 DEF GrantRole, WithdrawRole
  <2> QED
    BY <1>1, <1>3, <2>1 DEF Makes
<1>6. CASE SelectAfterRoles(r)
  <2>1. /\ Moves(r, "read", "selected") /\ UNCHANGED <<userVars, tokenVars, application>>
        /\ revoking' = [revoking EXCEPT ![r] = Sessions(job[r].account)]
    BY <1>6 DEF SelectAfterRoles, SelectSessions, applicationVars
  <2>2. /\ KnowsAccount(r)' /\ EnteredTells(r)' /\ pc'[r] = "selected" /\ pc[r] = "read"
        /\ UNCHANGED <<job, past, session>>
    BY <1>1, <2>1, StaysKnown
  <2>3. RevokesTells(r)'
    BY <1>2, <2>1, <2>2 DEF RevokesTells, Sessions
  <2>4. \A i \in Ids \ {r} : revoking'[i] = revoking[i]
    BY <1>2, <2>1
  <2> QED
    BY <1>1, <2>1, <2>2, <2>3, <2>4, MovesDecide
<1> QED
  BY <1>4, <1>5, <1>6

\* Steps that end a request with nothing done
LEMMA RollbacksDecide ==
  ASSUME IInv, DecisionInv, NEW r \in Requests,
         \/ (InsertClashes(r) \/ RefuseUser(r)) /\ UNCHANGED applicationVars
         \/ GrantClashes(r) \/ Fails(r)
  PROVE  DecisionInv'
<1>1. "read" \in Running /\ "role" \in Running
  BY DEF Running
<1>2. pc[r] \in Running /\ RollsBack(r) /\ application' = application
  BY <1>1 DEF InsertClashes, RefuseUser, GrantClashes, Fails, Fail, Forgets, applicationVars
<1> QED
  BY <1>2, RollsBackDecides

\* Requests that begin: each has looked at the account it is about.
LEMMA BeginsDecide ==
  ASSUME IInv, DecisionInv, NEW r \in Requests, Starts(r) PROVE DecisionInv'
<1>1. ASSUME NEW kind \in Kinds, NEW a \in Accounts, NEW uses \in Ids \cup {None},
             NEW ask \in Statuses \cup {"ACTIVE", "INACTIVE", None},
             NEW loaded, NEW j, j = AsksFor(kind, a, uses, ask), Begin(r, j, loaded),
             application' = application, kind # "register" => HasRow(a),
             kind = "login" => active[a] = "ACTIVE", kind = "status" => loaded = active[a]
      PROVE  DecisionInv'
  <2>1. j \in Jobs /\ j.kind = kind /\ j.account = a
    BY <1>1 DEF AsksFor, Jobs
  <2> QED
    BY <1>1, <2>1, BeginDecides
<1>2. {"register", "verify", "login", "forgot", "refresh", "reset", "status", "apply", "roles", "review"} \subseteq Kinds
  BY DEF Kinds
<1>3. CASE \E a \in Accounts : BeginRegister(r, a) /\ UNCHANGED applicationVars
  <2> PICK a \in Accounts : BeginRegister(r, a) /\ UNCHANGED applicationVars
    BY <1>3
  <2>1. PICK j : j = AsksFor("register", a, None, None)
    OBVIOUS
  <2> QED
    BY <1>1, <1>2, <2>1 DEF BeginRegister, applicationVars
<1>4. CASE \E a \in Accounts : BeginVerify(r, a) /\ UNCHANGED applicationVars
  <2> PICK a \in Accounts : BeginVerify(r, a) /\ UNCHANGED applicationVars
    BY <1>4
  <2>1. PICK j : j = AsksFor("verify", a, None, None)
    OBVIOUS
  <2> QED
    BY <1>1, <1>2, <2>1 DEF BeginVerify, applicationVars
<1>5. CASE \E a \in Accounts : (BeginLogin(r, a) \/ BeginForgot(r, a)) /\ UNCHANGED applicationVars
  <2> PICK a \in Accounts : (BeginLogin(r, a) \/ BeginForgot(r, a)) /\ UNCHANGED applicationVars
    BY <1>5
  <2>1. PICK kind \in {"login", "forgot"} :
           Begin(r, AsksFor(kind, a, None, None), None) /\ (kind = "login" => active[a] = "ACTIVE")
    BY DEF BeginLogin, BeginForgot, MayLogIn
  <2>2. HasRow(a)
    BY DEF BeginLogin, BeginForgot, FoundByMail
  <2>3. PICK j : j = AsksFor(kind, a, None, None)
    OBVIOUS
  <2> QED
    BY <1>1, <1>2, <2>1, <2>2, <2>3 DEF applicationVars
<1>6. CASE \E i \in Ids : BeginRefresh(r, i) /\ UNCHANGED applicationVars
  <2> PICK i \in Ids : BeginRefresh(r, i) /\ UNCHANGED applicationVars
    BY <1>6
  <2>1. PICK a : a = job[i].account
    OBVIOUS
  <2>2. PICK j : j = AsksFor("refresh", a, i, None)
    OBVIOUS
  <2>3. session[i] = "active" /\ IssuedTells(i) /\ IssuedKnows(i)
    BY DEF BeginRefresh, IInv, DecisionInv
  <2>4. a \in Accounts /\ HasRow(a)
    BY <2>1, <2>3 DEF IssuedTells, IssuedKnows
  <2> QED
    BY <1>1, <1>2, <2>1, <2>2, <2>4 DEF BeginRefresh, applicationVars
<1>7. CASE \E i \in Ids : BeginReset(r, i) /\ UNCHANGED applicationVars
  <2> PICK i \in Ids : BeginReset(r, i) /\ UNCHANGED applicationVars
    BY <1>7
  <2>1. PICK a : a = job[i].account
    OBVIOUS
  <2>2. PICK j : j = AsksFor("reset", a, i, None)
    OBVIOUS
  <2>3. reset[i] = "open" /\ IssuedTells(i) /\ IssuedKnows(i)
    BY DEF BeginReset, IInv, DecisionInv
  <2>4. a \in Accounts /\ HasRow(a)
    BY <2>1, <2>3 DEF IssuedTells, IssuedKnows
  <2> QED
    BY <1>1, <1>2, <2>1, <2>2, <2>4 DEF BeginReset, applicationVars
<1>8. CASE \E a \in Accounts, value \in {"ACTIVE", "INACTIVE"} : BeginStatus(r, a, value) /\ UNCHANGED applicationVars
  <2> PICK a \in Accounts, value \in {"ACTIVE", "INACTIVE"} : BeginStatus(r, a, value) /\ UNCHANGED applicationVars
    BY <1>8
  <2>1. PICK j : j = AsksFor("status", a, None, value)
    OBVIOUS
  <2> QED
    BY <1>1, <1>2, <2>1 DEF BeginStatus, applicationVars
<1>9. CASE \E a \in Accounts, status \in NewStatuses : BeginApply(r, a, status)
  <2> PICK a \in Accounts, status \in NewStatuses : BeginApply(r, a, status)
    BY <1>9
  <2>1. PICK j : j = AsksFor("apply", a, None, status)
    OBVIOUS
  <2>2. status \in Statuses
    BY NewStatusesAssumption DEF Statuses
  <2> QED
    BY <1>1, <1>2, <2>1, <2>2 DEF BeginApply, Intends
<1>10. CASE \E a \in Accounts, lists \in RoleChanges : BeginRoles(r, a, lists)
  <2> PICK a \in Accounts, lists \in RoleChanges : BeginRoles(r, a, lists)
    BY <1>10
  <2>1. PICK j : j = AsksFor("roles", a, None, None)
    OBVIOUS
  <2> QED
    BY <1>1, <1>2, <2>1 DEF BeginRoles, Intends
<1>11. CASE \E i \in Ids, status \in Statuses : BeginReview(r, i, status)
  <2> PICK i \in Ids, status \in Statuses : BeginReview(r, i, status)
    BY <1>11
  <2>1. PICK a : a = job[i].account
    OBVIOUS
  <2>2. PICK j : j = AsksFor("review", a, i, status)
    OBVIOUS
  <2>3. application[i] # "none" /\ IssuedTells(i) /\ IssuedKnows(i)
    BY DEF BeginReview, IInv, DecisionInv
  <2>4. a \in Accounts /\ HasRow(a)
    BY <2>1, <2>3 DEF IssuedTells, IssuedKnows
  <2> QED
    BY <1>1, <1>2, <2>1, <2>2, <2>4 DEF BeginReview, Intends
<1> QED
  BY <1>3, <1>4, <1>5, <1>6, <1>7, <1>8, <1>9, <1>10, <1>11 DEF Starts

\* The commits of requests about an account
LEMMA AccountCommitsDecide ==
  ASSUME IInv, DecisionInv, NEW r \in Requests, UNCHANGED applicationVars,
         \/ CommitRegister(r) \/ CommitVerify(r) \/ CommitLogin(r) \/ CommitForgot(r)
         \/ CommitRefresh(r) \/ CommitReset(r) \/ CommitStatus(r)
  PROVE  DecisionInv'
<1>1. {"read", "flushed", "revoking"} \subseteq Running
  BY DEF Running
<1>2. application' = application
  BY DEF applicationVars
<1>3. job[r].kind \in {"register", "verify", "login", "forgot", "refresh", "reset", "status"}
  BY DEF CommitRegister, CommitVerify, CommitLogin, CommitForgot, CommitRefresh,
     CommitReset, CommitStatus
<1>4. ASSUME NEW from \in Running, Commits(r, from)
      PROVE  /\ r \in Ids /\ None \notin Ids /\ job[r].account \in Accounts /\ pc[r] = from /\ AuthTypeOK
             /\ job[r].kind # "register" => registrant[job[r].account] # None
             /\ \A s \in revoking[r] : s \in Ids
  BY <1>4, Committing, RunningIsNew DEF DecisionInv, KnowsAccount, HasRow, Commits
<1>5. CASE CommitRegister(r)
  <2>1. /\ Commits(r, "flushed") /\ job[r].kind = "register" /\ UNCHANGED <<session, reset>>
    BY <1>5 DEF CommitRegister, tokenVars
  <2>2. PICK a \in Accounts : a = job[r].account
    BY <1>1, <1>4, <2>1
  <2>3. /\ registrant' = [registrant EXCEPT ![a] = r] /\ active' = [active EXCEPT ![a] = "INACTIVE"]
        /\ activeBy' = [activeBy EXCEPT ![a] = r]
    BY <1>5, <2>2 DEF CommitRegister
  <2>4. WritesAccount(r)
    BY <1>1, <1>4, <2>1, <2>2, <2>3 DEF WritesAccount, AuthTypeOK
  <2>5. IssuesTokens(r)
    BY <1>1, <1>2, <1>4, <2>1 DEF IssuesTokens, Revokes
  <2> QED
    BY <1>1, <1>3, <2>1, <2>4, <2>5, CommitDecides
<1>6. CASE CommitVerify(r)
  <2>1. /\ Commits(r, "flushed") /\ job[r].kind = "verify" /\ UNCHANGED <<registrant, session, reset>>
    BY <1>6 DEF CommitVerify, tokenVars
  <2>2. PICK a \in Accounts : a = job[r].account
    BY <1>1, <1>4, <2>1
  <2>3. \/ UNCHANGED <<active, activeBy>>
        \/ active' = [active EXCEPT ![a] = "ACTIVE"] /\ activeBy' = [activeBy EXCEPT ![a] = r]
    BY <1>6, <2>2 DEF CommitVerify
  <2>4. WritesAccount(r)
    BY <1>1, <1>4, <2>1, <2>2, <2>3 DEF WritesAccount, AuthTypeOK
  <2>5. IssuesTokens(r)
    BY <1>1, <1>2, <1>4, <2>1 DEF IssuesTokens, Revokes
  <2> QED
    BY <1>1, <1>3, <2>1, <2>4, <2>5, CommitDecides
<1>7. CASE CommitLogin(r) \/ CommitForgot(r)
  <2>1. /\ Commits(r, "read") /\ job[r].kind \in {"login", "forgot"} /\ UNCHANGED <<registrant, active, activeBy>>
        /\ \/ session' = [session EXCEPT ![r] = "active"] /\ reset' = reset /\ job[r].kind = "login"
           \/ reset' = [reset EXCEPT ![r] = "open"] /\ session' = session
    BY <1>7 DEF CommitLogin, CommitForgot, userVars
  <2>2. WritesAccount(r)
    BY <2>1 DEF WritesAccount
  <2>3. job[r].kind = "login" => Entered(r)
    BY <1>1, <1>4, <2>1 DEF Entered
  <2>4. IssuesTokens(r)
    BY <1>1, <1>2, <1>4, <2>1, <2>3 DEF IssuesTokens, Revokes, AuthTypeOK
  <2> QED
    BY <1>1, <1>3, <2>1, <2>2, <2>4, CommitDecides
<1>8. CASE CommitRefresh(r)
  <2>1. /\ Commits(r, "flushed") /\ job[r].kind = "refresh" /\ UNCHANGED <<registrant, active, activeBy, reset>>
    BY <1>8 DEF CommitRefresh, userVars
  <2>2. PICK s \in Ids : s = job[r].uses
    BY <1>1, <2>1, Committing
  <2>3. PICK without : without = WithoutSessions({s})
    OBVIOUS
  <2>4. /\ without \in [Ids -> {"none", "active", "revoked"}] /\ without[s] = "revoked"
        /\ \A i \in Ids \ {s} : without[i] = session[i]
    BY <2>3, Revoking
  <2>5. session' = [without EXCEPT ![r] = "active"]
    BY <1>8, <2>2, <2>3 DEF CommitRefresh
  <2>6. session[s] # "none" /\ Entered(r) /\ r \in Ids
    BY <1>1, <1>4, <2>1, <2>2, Committing DEF Entered
  <2>7. \A i \in Ids : /\ session'[i] # "none" => session[i] # "none" \/ i = r
                       /\ session'[i] = "active" => session[i] = "active" \/ i = r
    BY <2>4, <2>5, <2>6
  <2>8. IssuesTokens(r)
    BY <1>1, <1>2, <1>4, <2>1, <2>6, <2>7 DEF IssuesTokens, Revokes
  <2>9. WritesAccount(r)
    BY <2>1 DEF WritesAccount
  <2> QED
    BY <1>1, <1>3, <2>1, <2>8, <2>9, CommitDecides
<1>9. CASE CommitReset(r)
  <2>1. /\ Commits(r, "revoking") /\ job[r].kind = "reset" /\ UNCHANGED <<registrant, active, activeBy>>
        /\ session' = WithoutSessions(revoking[r])
    BY <1>9 DEF CommitReset, userVars
  <2>2. PICK t \in Ids : t = job[r].uses
    BY <1>1, <2>1, Committing
  <2>3. reset' = [reset EXCEPT ![t] = "used"]
    BY <1>9, <2>2 DEF CommitReset
  <2>4. reset[t] # "none"
    BY <1>1, <2>1, <2>2 DEF IInv, JobTells, Commits
  <2>5. \A i \in Ids : reset'[i] # "none" => reset[i] # "none"
    BY <1>1, <1>4, <2>1, <2>3, <2>4 DEF AuthTypeOK
  <2>6. IssuesTokens(r)
    BY <1>1, <1>2, <1>4, <2>1, <2>5 DEF IssuesTokens, WithoutSessions, RevokingTells, IInv
  <2>7. WritesAccount(r)
    BY <2>1 DEF WritesAccount
  <2> QED
    BY <1>1, <1>3, <2>1, <2>6, <2>7, CommitDecides
<1>10. CASE CommitStatus(r)
  <2>1. /\ Commits(r, IF Revokes(r) THEN "revoking" ELSE "flushed") /\ job[r].kind = "status"
        /\ UNCHANGED <<registrant, reset>> /\ session' = WithoutSessions(revoking[r])
    BY <1>10 DEF CommitStatus
  <2>2. PICK from \in {"revoking", "flushed"} : Commits(r, from) /\ (Revokes(r) => from = "revoking")
    BY <2>1
  <2>3. PICK a \in Accounts : a = job[r].account
    BY <1>1, <1>4, <2>2
  <2>4. /\ active' = IF WritesActive(r) THEN [active EXCEPT ![a] = job[r].ask] ELSE active
        /\ activeBy' = IF WritesActive(r) THEN [activeBy EXCEPT ![a] = r] ELSE activeBy
        /\ ~WritesActive(r) => saw[r] = job[r].ask
    BY <1>10, <2>3 DEF CommitStatus, WritesActive
  <2>5. active'[a] = job[r].ask \/ (saw[r] = job[r].ask /\ active'[a] = active[a])
    BY <1>1, <1>4, <2>2, <2>4 DEF AuthTypeOK
  <2>6. WritesAccount(r)
    BY <1>1, <1>4, <2>1, <2>2, <2>3, <2>4 DEF WritesAccount, AuthTypeOK
  <2>7. IssuesTokens(r)
    BY <1>1, <1>2, <1>4, <2>1, <2>2 DEF IssuesTokens, WithoutSessions, RevokingTells, IInv
  <2> QED
    BY <1>1, <1>3, <2>1, <2>2, <2>3, <2>5, <2>6, <2>7, CommitDecides
<1> QED
  BY <1>5, <1>6, <1>7, <1>8, <1>9, <1>10

\* The commits of requests about a role or an application
LEMMA ApplicationCommitsDecide ==
  ASSUME IInv, DecisionInv, NEW r \in Requests, CommitRoles(r) \/ CommitApply(r) \/ CommitReview(r)
  PROVE  DecisionInv'
<1>1. {"read", "flushed", "revoking"} \subseteq Running
  BY DEF Running
<1>2. PICK from \in {"read", "flushed", "revoking"} :
         /\ Commits(r, from)
         /\ job[r].kind = "roles" => from = "revoking"
  BY DEF CommitRoles, CommitApply, CommitReview
<1>3. /\ job[r].kind \in {"roles", "apply", "review"} /\ UNCHANGED <<registrant, active, activeBy, reset>>
      /\ session' = session \/ (session' = WithoutSessions(revoking[r]) /\ job[r].kind = "roles")
      /\ job[r].kind = "roles" => session' = WithoutSessions(revoking[r])
  BY DEF CommitRoles, CommitApply, CommitReview, userVars, tokenVars
<1>4. /\ r \in Ids /\ pc[r] = from /\ AuthTypeOK /\ \A s \in revoking[r] : s \in Ids
      /\ \A s \in revoking[r] : session[s] # "none"
  BY <1>1, <1>2, Committing DEF Commits, IInv, RevokingTells
<1>5. WritesAccount(r)
  BY <1>3 DEF WritesAccount
<1>6. ASSUME NEW i \in Ids, application'[i] # "none" PROVE application[i] # "none" \/ i = r
  <2>1. CASE CommitRoles(r)
    BY <1>6, <2>1 DEF CommitRoles
  <2>2. CASE CommitApply(r)
    BY <1>4, <1>6, <2>2 DEF CommitApply, AuthTypeOK
  <2>3. CASE CommitReview(r)
    BY <1>6, <2>3, Reviewing
  <2> QED
    BY <2>1, <2>2, <2>3
<1>7. IssuesTokens(r)
  BY <1>2, <1>3, <1>4, <1>6 DEF IssuesTokens, WithoutSessions, Revokes
<1> QED
  BY <1>1, <1>2, <1>3, <1>5, <1>7, CommitDecides

\* What a state says of the requests that overlapped the one that decided holds throughout.
THEOREM SpecDecisionInv == Spec => []DecisionInv
<1>1. ASSUME IInv, RoleInv, DecisionInv, Next PROVE DecisionInv'
  <2> PICK r \in Requests : Starts(r) \/ Proceeds(r) \/ Fails(r)
    BY <1>1 DEF Next
  <2>1. CASE Starts(r)
    BY <1>1, <2>1, BeginsDecide
  <2>2. CASE Fails(r)
    BY <1>1, <2>2, RollbacksDecide
  <2>3. CASE ApplicationStep(r)
    BY <1>1, <2>3, RoleStepsChange, ApplicationMovesDecide, RollbacksDecide, ApplicationCommitsDecide
       DEF ApplicationStep, Changing
  <2>4. CASE AccountStep(r) /\ UNCHANGED applicationVars
    <3>1. CASE \/ InsertAccount(r) \/ FlushVerify(r) \/ ReadUser(r) \/ RevokeUsed(r)
               \/ FlushReset(r) \/ SelectAfterReset(r) \/ FlushStatus(r) \/ SelectAfterStatus(r)
      BY <1>1, <2>4, <3>1, AccountMovesDecide
    <3>2. CASE InsertClashes(r) \/ RefuseUser(r)
      BY <1>1, <2>4, <3>2, RollbacksDecide
    <3>3. CASE \/ CommitRegister(r) \/ CommitVerify(r) \/ CommitLogin(r) \/ CommitForgot(r)
               \/ CommitRefresh(r) \/ CommitReset(r) \/ CommitStatus(r)
      BY <1>1, <2>4, <3>3, AccountCommitsDecide
    <3> QED
      BY <2>4, <3>1, <3>2, <3>3 DEF AccountStep
  <2>5. CASE FlushRevoked(r) /\ UNCHANGED applicationVars
    BY <1>1, <2>5, AccountMovesDecide
  <2> QED
    BY <2>1, <2>2, <2>3, <2>4, <2>5 DEF Proceeds
<1>2. ASSUME DecisionInv, UNCHANGED vars PROVE DecisionInv'
  <2>1. /\ UNCHANGED <<registrant, active, activeBy, verified, session, reset>>
        /\ UNCHANGED <<pc, job, saw, revoking, past, application>>
    BY <1>2 DEF vars, userVars, tokenVars, requestVars, applicationVars
  <2>2. \A a \in Accounts : WriterTells(a)'
    BY <1>2, <2>1 DEF DecisionInv, WriterTells, HasRow
  <2>3. \A i \in Ids : IssuedKnows(i)' /\ EnteredTells(i)'
    BY <1>2, <2>1 DEF DecisionInv, IssuedKnows, EnteredTells, Entered, HasRow
  <2>4. \A r \in Requests : KnowsAccount(r)' /\ RevokesTells(r)'
    BY <1>2, <2>1 DEF DecisionInv, KnowsAccount, RevokesTells, HasRow, Inserting, Revokes
  <2>5. \A r \in Requests : StatusTells(r)'
    BY <1>2, <2>1 DEF DecisionInv, StatusTells, Overwritten
  <2> QED
    BY <2>2, <2>3, <2>4, <2>5 DEF DecisionInv
<1> QED
  BY <1>1, <1>2, InitDecisions, SpecRequestsInv, SpecRoleInv, PTL DEF Spec

\* A reset, a deactivation and a change of roles leave no session alive that was issued before
\* they began, and an inactive account has one only from a request that overlapped the one
\* that deactivated it, however many requests are made.
THEOREM SpecRevocationHolds == Spec => []RevocationHolds
<1>1. ASSUME IInv, DecisionInv PROVE RevocationHolds
  <2>1. RevocationReachesEarlierSessions
    BY <1>1 DEF DecisionInv, RevokesTells, RevocationReachesEarlierSessions
  <2>2. NoSessionWhileInactive
    <3> SUFFICES ASSUME NEW s \in Ids, session[s] = "active", active[job[s].account] = "INACTIVE"
                 PROVE  s \notin past[activeBy[job[s].account]] /\ activeBy[job[s].account] \notin past[s]
      BY DEF NoSessionWhileInactive, Overlap
    <3>1. job[s].account \in Accounts /\ EnteredTells(s) /\ Entered(s)
      BY <1>1 DEF IInv, IssuedTells, DecisionInv, Entered
    <3>2. PICK w : w = activeBy[job[s].account]
      OBVIOUS
    <3>3. w # None /\ job[w].kind # "register" /\ w \notin past[s]
      BY <3>1, <3>2 DEF EnteredTells
    <3>4. w \in Ids \cup {None} /\ WriterTells(job[s].account)
      BY <1>1, <3>1, <3>2 DEF IInv, AuthTypeOK, DecisionInv
    <3>5. w \in Requests /\ pc[w] = "done" /\ job[w].account = job[s].account /\ Revokes(w)
      BY <3>2, <3>3, <3>4 DEF WriterTells, Ids, Revokes
    <3>6. s \notin past[w]
      BY <1>1, <3>5 DEF DecisionInv, RevokesTells
    <3> QED
      BY <3>2, <3>3, <3>6
  <2> QED
    BY <2>1, <2>2 DEF RevocationHolds
<1> QED
  BY <1>1, SpecRequestsInv, SpecDecisionInv, PTL

\* What an administrator or a reviewer has decided of a status, a role or an application
\* stands, and is undone only by a request that had not ended before theirs began: a decision
\* is not lost to whatever was at work when it was taken and ended before.
THEOREM SpecDecisionsStand == Spec => []DecisionsStand
<1>1. ASSUME IInv, RoleInv, ReviewInv, DecisionInv PROVE DecisionsStand
  <2>1. StatusStands
    BY <1>1 DEF DecisionInv, StatusTells, Overwritten, StatusStands, Done
  <2>2. ASSUME NEW r \in Requests, pc[r] = "done", NEW k \in DOMAIN changes[r]
        PROVE  k \in Nat /\ Behind(r, k) /\ own[r] = Untouched
    <3>1. changes[r] \in Seq(Change) /\ ChangesTell(r)
      BY <1>1 DEF RoleInv, RoleTypeOK, Ids
    <3>2. DOMAIN changes[r] = 1..Len(changes[r]) /\ Len(changes[r]) \in Nat
      BY <3>1
    <3> QED
      BY <2>2, <3>1, <3>2 DEF Behind, ChangesTell, Running
  <2>3. GrantStands
    <3> SUFFICES ASSUME NEW r \in Done({"roles", "apply", "review"}), NEW x \in Roles, Grants(r, x),
                        holder[job[r].account][x] = None
                 PROVE  \E q \in Done({"roles"}) :
                          job[q].account = job[r].account /\ Withdraws(q, x) /\ q \notin past[r]
      BY DEF GrantStands
    <3>1. r \in Requests /\ pc[r] = "done" /\ GivenTells(r) /\ ChangesTell(r)
      BY <1>1 DEF Done, RoleInv
    <3>2. PICK k \in DOMAIN changes[r] : Asks(changes[r][k], "add", x)
      BY DEF Grants
    <3>3. k \in Nat /\ Behind(r, k) /\ own[r][x] = "none"
      BY <2>2, <3>1, <3>2 DEF Untouched
    <3>4. CASE Withdraws(r, x)
      <4>1. job[r].kind = "roles"
        BY <3>1, <3>4 DEF ChangesTell, Withdraws, Asks
      <4> QED
        BY <3>1, <3>4, <4>1 DEF ChangesTell, Done
    <3>5. CASE ~Withdraws(r, x)
      <4>1. Removed(r, x)
        BY <3>1, <3>2, <3>3, <3>5 DEF GivenTells, Held
      <4> QED
        BY <4>1 DEF Removed, Done
    <3> QED
      BY <3>4, <3>5
  <2>4. WithdrawalStands
    <3> SUFFICES ASSUME NEW r \in Done({"roles"}), NEW x \in Roles, Withdraws(r, x),
                        holder[job[r].account][x] # None
                 PROVE  \E q \in Done({"roles", "apply", "review"}) \ {r} :
                          job[q].account = job[r].account /\ Grants(q, x) /\ q \notin past[r]
      BY DEF WithdrawalStands
    <3>1. r \in Requests /\ pc[r] = "done" /\ ClearedTells(r) /\ LastTells(r) /\ job[r].account \in Accounts
      BY <1>1, ChangingAccount DEF Done, RoleInv
    <3>2. PICK k \in DOMAIN changes[r] : Asks(changes[r][k], "remove", x)
      BY DEF Withdraws
    <3>3. k \in Nat /\ Behind(r, k) /\ own[r][x] = "none"
      BY <2>2, <3>1, <3>2 DEF Untouched
    <3>4. PICK q : q = holder[job[r].account][x]
      OBVIOUS
    <3>5. q \in Requests /\ pc[q] = "done" /\ job[q].account = job[r].account /\ Grants(q, x)
      BY <1>1, <3>1, <3>4 DEF RoleInv, HolderTells
    <3>6. job[q].kind \in {"roles", "apply", "review"}
      BY <1>1, <3>5 DEF RoleInv, ChangesTell, Grants, Changing
    <3>7. q \notin past[r] /\ q # r
      BY <3>1, <3>2, <3>3, <3>4 DEF ClearedTells, LastTells
    <3> QED
      BY <3>5, <3>6, <3>7 DEF Done
  <2>5. ReviewStands
    BY <1>1 DEF ReviewInv, ReviewTells, ReviewedSince, ReviewStands, Done
  <2>6. SubmissionStands
    BY <1>1 DEF ReviewInv, SubmissionTells, SubmissionStands, Done
  <2> QED
    BY <2>1, <2>3, <2>4, <2>5, <2>6 DEF DecisionsStand
<1> QED
  BY <1>1, SpecRequestsInv, SpecRoleInv, SpecDecisionInv, PTL
=============================================================================
