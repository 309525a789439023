---------------------------- MODULE Applications ----------------------------
(***************************************************************************)
(* Instructor applications and the roles of an account, on top of Accounts,*)
(* and the specification of the two together.  A role row is named by the  *)
(* request that inserted it: deleting a row that has been deleted and      *)
(* inserted again deletes nothing.                                         *)
(***************************************************************************)
EXTENDS Accounts, Sequences

CONSTANTS NewStatuses,   \* what instructor_auto_approve makes of a new application: {"PENDING"},
                         \* {"APPROVED"}, or both where deployments differ
          Roles,         \* the roles an administrator may give
          RoleChanges    \* bound: the lists add_roles and remove_roles that are asked for

ASSUME NewStatusesAssumption == NewStatuses \subseteq {"PENDING", "APPROVED"}
ASSUME RolesAssumption ==
    /\ "instructor" \in Roles
    /\ RoleChanges \subseteq [add : Seq(Roles), remove : Seq(Roles)]

VARIABLES
    application,   \* application[i]: status of the application submitted by i
    holder,        \* holder[a][x]: the request that inserted the row of role x, or None
    changes,       \* changes[r]: the roles that r gives and withdraws, one after the other
    made,          \* made[r]: how many of them it has made
    found,         \* found[r]: the row that its SELECT for the next one returned, or None
    own            \* own[r][x]: what r has flushed of the row of x, which it locks

applicationVars == <<application, holder, changes, made, found, own>>
vars == <<userVars, tokenVars, requestVars, applicationVars>>

Statuses == {"PENDING", "APPROVED", "REJECTED"}
Pending(a) == {t \in Ids : application[t] = "PENDING" /\ job[t].account = a}

(***************************************************************************)
(* Giving and withdrawing roles                                            *)
(***************************************************************************)
Change == [does : {"add", "remove"}, role : Roles]
Untouched == [x \in Roles |-> "none"]

\* update_roles gives one role after the other, and then withdraws
Each(does, list) == [k \in DOMAIN list |-> [does |-> does, role |-> list[k]]]
FromLists(lists) == Each("add", lists.add) \o Each("remove", lists.remove)
\* What apply and review_application change of roles
Granted(status) ==
    IF status = "APPROVED" THEN Each("add", <<"instructor">>) ELSE <<>>

Asks(change, does, x) == change.does = does /\ change.role = x
Grants(r, x) == \E k \in DOMAIN changes[r] : Asks(changes[r][k], "add", x)
Withdraws(r, x) == \E k \in DOMAIN changes[r] : Asks(changes[r][k], "remove", x)

\* The change that is next, and where a request is between two of them
NextChange(r) == changes[r][made[r] + 1]
Base(r) == IF job[r].kind = "review" THEN "flushed" ELSE "read"
AllMade(r) == made[r] = Len(changes[r])

\* A row that another has inserted or deleted is locked until that one ends.
RoleFree(r, x) ==
    \A q \in Requests \ {r} : job[q].account = job[r].account => own[q][x] = "none"

\* add_role and remove_role look for the row; what r has flushed itself it sees
LookForRole(r) ==
    LET x == NextChange(r).role IN
    /\ ~AllMade(r)
    /\ Moves(r, Base(r), "role")
    /\ found' = [found EXCEPT ![r] =
                   CASE own[r][x] = "insert" -> r
                     [] own[r][x] \in {"delete", "undone"} -> None
                     [] OTHER -> holder[job[r].account][x]]
    /\ UNCHANGED <<userVars, tokenVars, revoking, application, holder, changes, made, own>>

\* The next change is made: what r has flushed of the row is now act
Makes(r, act) ==
    /\ Moves(r, "role", Base(r))
    /\ made' = [made EXCEPT ![r] = @ + 1]
    /\ found' = [found EXCEPT ![r] = None]
    /\ own' = [own EXCEPT ![r][NextChange(r).role] = act]
    /\ UNCHANGED <<userVars, tokenVars, revoking, application, holder, changes>>

\* add_role finds the row and returns, or inserts one, which must be the first
GrantRole(r) ==
    LET x == NextChange(r).role IN
    /\ pc[r] = "role"
    /\ NextChange(r).does = "add"
    /\ \/ found[r] # None /\ Makes(r, own[r][x])
       \/ /\ found[r] = None
          /\ RoleFree(r, x) /\ holder[job[r].account][x] = None
          /\ Makes(r, "insert")

\* A request that has ended holds no row
Forgets(r) ==
    /\ changes' = [changes EXCEPT ![r] = <<>>]
    /\ made' = [made EXCEPT ![r] = 0]
    /\ found' = [found EXCEPT ![r] = None]
    /\ own' = [own EXCEPT ![r] = Untouched]
    /\ UNCHANGED <<application, holder>>

\* The unique constraint uq_user_role
GrantClashes(r) ==
    LET x == NextChange(r).role IN
    /\ pc[r] = "role"
    /\ NextChange(r).does = "add" /\ found[r] = None
    /\ RoleFree(r, x) /\ holder[job[r].account][x] # None
    /\ RollsBack(r)
    /\ Forgets(r)

\* remove_role returns without a row, or deletes the one it found: its own, or one that
\* is still there when whoever has it locked has ended
WithdrawRole(r) ==
    LET x == NextChange(r).role
        row == holder[job[r].account][x]
    IN
    /\ pc[r] = "role"
    /\ NextChange(r).does = "remove"
    /\ \/ /\ found[r] = None \/ (own[r][x] = "none" /\ row # found[r])
          /\ Makes(r, own[r][x])
       \/ own[r][x] = "insert" /\ Makes(r, "undone")
       \/ /\ own[r][x] = "none" /\ found[r] # None /\ row = found[r]
          /\ RoleFree(r, x)
          /\ Makes(r, "delete")

\* Faulty variant: a row that is deleted is never flushed.
CommitsInserted(r) ==
    /\ holder' = [holder EXCEPT ![job[r].account] =
                    [x \in Roles |-> IF own[r][x] = "insert" THEN r ELSE @[x]]]
    /\ made' = [made EXCEPT ![r] = 0]
    /\ own' = [own EXCEPT ![r] = Untouched]
    /\ UNCHANGED <<changes, found>>

\* What the commit of r makes of the role rows
CommitsRoles(r) ==
    /\ holder' = [holder EXCEPT ![job[r].account] =
                    [x \in Roles |-> CASE own[r][x] = "insert" -> r
                                       [] own[r][x] = "delete" -> None
                                       [] OTHER -> @[x]]]
    /\ made' = [made EXCEPT ![r] = 0]
    /\ own' = [own EXCEPT ![r] = Untouched]
    /\ UNCHANGED <<changes, found>>

(***************************************************************************)
(* update_roles, by an administrator                                       *)
(***************************************************************************)
\* A request begins that will make these changes
Intends(r, list) ==
    /\ changes' = [changes EXCEPT ![r] = list]
    /\ UNCHANGED <<application, holder, made, found, own>>

BeginRoles(r, a, lists) ==
    /\ HasRow(a)
    /\ Begin(r, AsksFor("roles", a, None, None), None)
    /\ Intends(r, FromLists(lists))

SelectAfterRoles(r) ==
    /\ job[r].kind = "roles"
    /\ AllMade(r)
    /\ SelectSessions(r, "read")
    /\ UNCHANGED applicationVars

CommitRoles(r) ==
    /\ job[r].kind = "roles"
    /\ Commits(r, "revoking")
    /\ CommitsRoles(r)
    /\ session' = WithoutSessions(revoking[r])
    /\ UNCHANGED <<userVars, reset, application>>

(***************************************************************************)
(* apply.  With two pending applications the query raises.                 *)
(***************************************************************************)
BeginApply(r, a, status) ==
    /\ HasRow(a)
    /\ Pending(a) = {}
    /\ Begin(r, AsksFor("apply", a, None, status), None)
    /\ Intends(r, Granted(status))

CommitApply(r) ==
    /\ job[r].kind = "apply"
    /\ AllMade(r)
    /\ Commits(r, "read")
    /\ CommitsRoles(r)
    /\ application' = [application EXCEPT ![r] = job[r].ask]
    /\ UNCHANGED <<userVars, tokenVars>>

(***************************************************************************)
(* review_application: any status, whatever the status was                 *)
(***************************************************************************)
BeginReview(r, t, status) ==
    /\ application[t] # "none"
    /\ Begin(r, AsksFor("review", job[t].account, t, status), application[t])
    /\ Intends(r, Granted(status))

HoldsApplication(r, t) ==
    job[r].kind = "review" /\ job[r].uses = t /\ pc[r] \in {"flushed", "role"}

\* reviewed_at always changes, so the row is locked in any case
FlushReview(r) ==
    /\ job[r].kind = "review"
    /\ \A q \in Requests \ {r} : ~HoldsApplication(q, job[r].uses)
    /\ Moves(r, "read", "flushed")
    /\ UNCHANGED <<userVars, tokenVars, revoking, applicationVars>>

CommitReview(r) ==
    /\ job[r].kind = "review"
    /\ AllMade(r)
    /\ Commits(r, "flushed")
    /\ CommitsRoles(r)
    /\ application' =
         IF saw[r] # job[r].ask
         THEN [application EXCEPT ![job[r].uses] = job[r].ask]
         ELSE application
    /\ UNCHANGED <<userVars, tokenVars>>

(***************************************************************************)
(* Specification                                                           *)
(***************************************************************************)
\* Nobody has registered, or one account is verified, with a session, an open
\* reset token and a pending application
Blank ==
    /\ registrant = [a \in Accounts |-> None]
    /\ session = [i \in Ids |-> "none"]
    /\ reset = [i \in Ids |-> "none"]
    /\ application = [i \in Ids |-> "none"]
    /\ job = [i \in Ids |-> NoJob]

Established(a) ==
    /\ registrant = [b \in Accounts |-> IF b = a THEN Earlier ELSE None]
    /\ session = [i \in Ids |-> IF i = Earlier THEN "active" ELSE "none"]
    /\ reset = [i \in Ids |-> IF i = Earlier THEN "open" ELSE "none"]
    /\ application = [i \in Ids |-> IF i = Earlier THEN "PENDING" ELSE "none"]
    /\ job = [i \in Ids |-> IF i = Earlier THEN AsksFor("earlier", a, None, None)
                                           ELSE NoJob]

Init ==
    /\ Blank \/ \E a \in Accounts : Established(a)
    /\ active = [a \in Accounts |-> IF HasRow(a) THEN "ACTIVE" ELSE "INACTIVE"]
    /\ activeBy = registrant
    /\ verified = [a \in Accounts |-> HasRow(a)]
    /\ pc = [i \in Ids |-> IF i = Earlier THEN "done" ELSE "idle"]
    /\ saw = [i \in Ids |-> None]
    /\ revoking = [i \in Ids |-> {}]
    /\ past = [i \in Ids |-> {}]
    /\ holder = [a \in Accounts |-> [x \in Roles |-> None]]
    /\ changes = [i \in Ids |-> <<>>]
    /\ made = [i \in Ids |-> 0]
    /\ found = [i \in Ids |-> None]
    /\ own = [i \in Ids |-> Untouched]

AccountStep(r) ==
    \/ InsertAccount(r) \/ InsertClashes(r) \/ CommitRegister(r)
    \/ FlushVerify(r) \/ CommitVerify(r)
    \/ CommitLogin(r)
    \/ ReadUser(r) \/ RefuseUser(r) \/ RevokeUsed(r) \/ CommitRefresh(r)
    \/ CommitForgot(r)
    \/ FlushReset(r) \/ SelectAfterReset(r) \/ CommitReset(r)
    \/ FlushStatus(r) \/ SelectAfterStatus(r) \/ CommitStatus(r)

ApplicationStep(r) ==
    \/ LookForRole(r) \/ GrantRole(r) \/ GrantClashes(r) \/ WithdrawRole(r)
    \/ SelectAfterRoles(r) \/ CommitRoles(r)
    \/ CommitApply(r)
    \/ FlushReview(r) \/ CommitReview(r)

FlushRevoked(r) == Revokes(r) /\ FlushRevocations(r)

\* What a running request does next
Proceeds(r) ==
    \/ (AccountStep(r) \/ FlushRevoked(r)) /\ UNCHANGED applicationVars
    \/ ApplicationStep(r)

Starts(r) ==
    \/ /\ \/ \E a \in Accounts :
               BeginRegister(r, a) \/ BeginVerify(r, a) \/ BeginLogin(r, a)
                 \/ BeginForgot(r, a)
          \/ \E i \in Ids : BeginRefresh(r, i) \/ BeginReset(r, i)
          \/ \E a \in Accounts, value \in {"ACTIVE", "INACTIVE"} :
               BeginStatus(r, a, value)
       /\ UNCHANGED applicationVars
    \/ \E a \in Accounts, status \in NewStatuses : BeginApply(r, a, status)
    \/ \E a \in Accounts, lists \in RoleChanges : BeginRoles(r, a, lists)
    \/ \E i \in Ids, status \in Statuses : BeginReview(r, i, status)

Fails(r) == Fail(r) /\ Forgets(r)

Next == \E r \in Requests : Starts(r) \/ Proceeds(r) \/ Fails(r)

Spec == Init /\ [][Next]_vars

(***************************************************************************)
(* Properties                                                              *)
(***************************************************************************)
Done(kinds) == {r \in Requests : pc[r] = "done" /\ job[r].kind \in kinds}

TypeOK ==
    /\ registrant \in [Accounts -> Ids \cup {None}]
    /\ active \in [Accounts -> {"ACTIVE", "INACTIVE"}]
    /\ activeBy \in [Accounts -> Ids \cup {None}]
    /\ verified \in [Accounts -> BOOLEAN]
    /\ session \in [Ids -> {"none", "active", "revoked"}]
    /\ reset \in [Ids -> {"none", "open", "used"}]
    /\ application \in [Ids -> Statuses \cup {"none"}]
    /\ holder \in [Accounts -> [Roles -> Requests \cup {None}]]
    /\ changes \in [Ids -> Seq(Change)]
    /\ made \in [Ids -> Nat]
    /\ found \in [Ids -> Requests \cup {None}]
    /\ own \in [Ids -> [Roles -> {"none", "insert", "delete", "undone"}]]
    /\ pc \in [Ids -> Running \cup Ended \cup {"idle"}]
    /\ job \in [Ids -> [kind : Kinds,
                        account : Accounts \cup {None},
                        uses : Ids \cup {None},
                        ask : Statuses \cup {"ACTIVE", "INACTIVE", None}]]
    /\ saw \in [Ids -> Statuses \cup {"ACTIVE", "INACTIVE", None}]
    /\ revoking \in [Ids -> SUBSET Ids]
    /\ past \in [Ids -> SUBSET Ids]

\* A verification, a refresh token or a reset token is checked in one statement
\* and marked in a later one: it serves two requests only if they overlapped.
TokenSpentTwiceOnlyByOverlap ==
    \A q, r \in Done({"verify", "refresh", "reset"}) :
        q # r /\ job[q] = job[r] => Overlap(q, r)

\* register looks for the address in lower case, the unique constraint knows the
\* spelling: two rows for one address only if their registrations overlapped.
AccountsClashOnlyByOverlap ==
    \A a, b \in Accounts :
        a # b /\ HasRow(a) /\ HasRow(b) /\ MailboxOf[a] = MailboxOf[b] =>
            Overlap(registrant[a], registrant[b])

\* apply checks for a pending application and then inserts: an account has two
\* only by overlap, or because a review made one pending again.
PendingTwiceOnlyByOverlapOrReview ==
    \A a \in Accounts : \A t, u \in Pending(a) :
        t = u \/ Overlap(t, u)
              \/ \E r \in Done({"review"}) :
                    job[r].ask = "PENDING" /\ job[r].uses \in {t, u}

\* A reset, a deactivation or a change of roles leaves no session alive that was
\* issued before it began: what it may miss comes from requests that overlapped it.
RevocationReachesEarlierSessions ==
    \A r \in Requests :
        pc[r] = "done" /\ Revokes(r) =>
            \A s \in past[r] : job[s].account = job[r].account => session[s] # "active"

\* An inactive account has a live session only from a request that overlapped the
\* one that deactivated it.
NoSessionWhileInactive ==
    \A s \in Ids :
        session[s] = "active" /\ active[job[s].account] = "INACTIVE" =>
            Overlap(s, activeBy[job[s].account])

\* A status an administrator has set stands until another request that may write
\* it and that did not end before the administrator's began.
StatusStands ==
    \A r \in Done({"status"}) :
        active[job[r].account] # job[r].ask =>
            \E q \in Done({"status", "verify"}) \ {r} :
                job[q].account = job[r].account /\ q \notin past[r]

\* A role that a review, an application or an administrator has given is there, unless a
\* request that withdraws it and did not end before theirs began took it away.
GrantStands ==
    \A r \in Done({"roles", "apply", "review"}), x \in Roles :
        Grants(r, x) /\ holder[job[r].account][x] = None =>
            \E q \in Done({"roles"}) :
                job[q].account = job[r].account /\ Withdraws(q, x) /\ q \notin past[r]

\* A role that an administrator has withdrawn is gone, unless another request that gives it
\* and did not end before the administrator's began gave it.
WithdrawalStands ==
    \A r \in Done({"roles"}), x \in Roles :
        Withdraws(r, x) /\ holder[job[r].account][x] # None =>
            \E q \in Done({"roles", "apply", "review"}) \ {r} :
                job[q].account = job[r].account /\ Grants(q, x) /\ q \notin past[r]

\* An application has the status that a reviewer gave it, an approval or a rejection, unless
\* another reviewer who did not end before gave it one.
ReviewStands ==
    \A r \in Done({"review"}) :
        application[job[r].uses] # job[r].ask =>
            \E q \in Done({"review"}) \ {r} :
                job[q].uses = job[r].uses /\ q \notin past[r]

\* An application keeps the status it was submitted with until a reviewer gives it another.
SubmissionStands ==
    \A t \in Done({"apply"}) :
        application[t] # job[t].ask => \E q \in Done({"review"}) : job[q].uses = t

\* Requests lock accounts, sessions, roles and applications, one after the other, and wait
\* for one another.  All of them wait only if some change roles of one account, each of
\* them waiting for a row that another of them has: PostgreSQL then ends one, which is a
\* step Fails.  No other kind of request is part of a deadlock.
AwaitsRole(r, q) ==
    /\ pc[r] = "role"
    /\ q # r /\ job[q].account = job[r].account
    /\ own[q][NextChange(r).role] # "none"
DeadlockOnlyOverRoles ==
    LET running == {r \in Requests : pc[r] \in Running} IN
    running # {} /\ (\A r \in running : ~ENABLED Proceeds(r)) =>
        \E ring \in SUBSET running :
            /\ ring # {}
            /\ \A r \in ring : job[r].kind = "roles" /\ \E q \in ring : AwaitsRole(r, q)

\* What a request checks in one statement and marks in a later one goes wrong only
\* where requests overlap: no token serves two requests that ran one after the other,
\* and no address and no application is there twice.
ChecksFailOnlyByOverlap ==
    /\ TokenSpentTwiceOnlyByOverlap
    /\ AccountsClashOnlyByOverlap
    /\ PendingTwiceOnlyByOverlapOrReview

\* Revoking what an account has reaches all that was issued before, and nothing that is
\* issued later makes up for it while the account is inactive.
RevocationHolds ==
    /\ RevocationReachesEarlierSessions
    /\ NoSessionWhileInactive

\* What an administrator or a reviewer decided, of a status, a role or an application, is so
\* until somebody decides otherwise: a decision is never lost to one that had ended before.
DecisionsStand ==
    /\ StatusStands
    /\ GrantStands
    /\ WithdrawalStands
    /\ ReviewStands
    /\ SubmissionStands
=============================================================================
