------------------------------ MODULE Accounts ------------------------------
(***************************************************************************)
(* Accounts, sessions and password resets of the auth service.  Every      *)
(* request is one transaction (READ COMMITTED): it reads, flushes its      *)
(* updates, which lock their rows until it ends, and commits.  A request   *)
(* is also the name of what it issues: the session of a login or a         *)
(* refresh, the reset token of a forgotten password, an application.       *)
(* Requests refused at their first look change nothing and never start.    *)
(***************************************************************************)
EXTENDS Naturals, FiniteSets

CONSTANTS Accounts,     \* spellings of e-mail addresses, the key of the users table
          MailboxOf,    \* the address in lower case
          Requests,
          Earlier,      \* stands for the requests made before the first state
          MaxRunning,   \* bound: requests at work at a time
          None

ASSUME AccountsAssumption ==
    /\ Earlier \notin Requests
    /\ None \notin Requests \cup {Earlier} \cup Accounts
    /\ MaxRunning \in Nat
    /\ MailboxOf \in [Accounts -> {MailboxOf[a] : a \in Accounts}]

VARIABLES
    registrant,   \* registrant[a]: the request that inserted the row of a, or None
    active,       \* users.is_active: "ACTIVE" or "INACTIVE"
    activeBy,     \* history: the request that last wrote it
    verified,     \* users.is_verified
    session,      \* session[i]: the refresh token issued by i
    reset,        \* reset[i]: the reset token issued by i
    pc,           \* how far a request is
    job,          \* what it was asked: kind, account, the token it uses, the value
    saw,          \* is_active, or the status of an application, as it loaded it
    revoking,     \* the sessions its SELECT in revoke_all_for_user returned
    past          \* history: the requests that had ended when it began

userVars == <<registrant, active, activeBy, verified>>
tokenVars == <<session, reset>>
requestVars == <<pc, job, saw, revoking, past>>

Ids == Requests \cup {Earlier}
Kinds == {"register", "verify", "login", "refresh", "forgot", "reset",
          "status", "roles", "apply", "review", "earlier"}
Ended == {"done", "failed"}
Running == {"read", "user", "flushed", "role", "selected", "revoking"}

AsksFor(kind, a, uses, ask) ==
    [kind |-> kind, account |-> a, uses |-> uses, ask |-> ask]
NoJob == AsksFor("earlier", None, None, None)

HasRow(a) == registrant[a] # None
\* UserRepository.get_by_email finds a by its address; with two rows it raises
FoundByMail(a) ==
    {b \in Accounts : HasRow(b) /\ MailboxOf[b] = MailboxOf[a]} = {a}
Sessions(a) == {s \in Ids : session[s] = "active" /\ job[s].account = a}
RunningRequests == {q \in Requests : pc[q] \in Running}
Overlap(q, r) == q \notin past[r] /\ r \notin past[q]

\* The requests whose transaction revokes every session of the account
Revokes(r) ==
    \/ job[r].kind \in {"reset", "roles"}
    \/ job[r].kind = "status" /\ job[r].ask = "INACTIVE"

(***************************************************************************)
(* Row locks.  A column that keeps the value it was loaded with is not     *)
(* written, so update_status locks the row only when it changes it.        *)
(***************************************************************************)
\* Faulty variant: an account can be deactivated, and not activated again.
WritesActiveOnce(r) ==
    \/ job[r].kind = "verify" /\ saw[r] = "INACTIVE"
    \/ job[r].kind = "status" /\ saw[r] = "ACTIVE" /\ job[r].ask = "INACTIVE"

WritesActive(r) ==
    \/ job[r].kind = "verify" /\ saw[r] = "INACTIVE"
    \/ job[r].kind = "status" /\ saw[r] # job[r].ask
HoldsAccount(r, a) ==
    /\ job[r].account = a
    /\ pc[r] \in {"flushed", "selected", "revoking"}
    /\ job[r].kind \in {"verify", "reset"} \/ WritesActive(r)
\* Faulty variant: SELECT ... FOR UPDATE in the order in which rows are found.
HoldsSessionSelected(r, s) ==
    \/ job[r].kind = "refresh" /\ job[r].uses = s /\ pc[r] \in {"user", "flushed"}
    \/ pc[r] \in {"selected", "revoking"} /\ s \in revoking[r]

HoldsSession(r, s) ==
    \/ job[r].kind = "refresh" /\ job[r].uses = s /\ pc[r] = "flushed"
    \/ pc[r] = "revoking" /\ s \in revoking[r]
AccountFree(r, a) == \A q \in Requests \ {r} : ~HoldsAccount(q, a)
SessionFree(r, s) == \A q \in Requests \ {r} : ~HoldsSession(q, s)

(***************************************************************************)
(* Steps that every kind of request shares                                 *)
(***************************************************************************)
Begin(r, j, loaded) ==
    /\ pc[r] = "idle"
    /\ Cardinality(RunningRequests) < MaxRunning
    /\ pc' = [pc EXCEPT ![r] = "read"]
    /\ job' = [job EXCEPT ![r] = j]
    /\ saw' = [saw EXCEPT ![r] = loaded]
    /\ past' = [past EXCEPT ![r] = {q \in Ids : pc[q] \in Ended}]
    /\ UNCHANGED <<userVars, tokenVars, revoking>>

Moves(r, from, to) ==
    /\ pc[r] = from
    /\ pc' = [pc EXCEPT ![r] = to]
    /\ UNCHANGED <<job, saw, past>>

Commits(r, from) ==
    /\ pc[r] = from
    /\ pc' = [pc EXCEPT ![r] = "done"]
    /\ saw' = [saw EXCEPT ![r] = None]
    /\ revoking' = [revoking EXCEPT ![r] = {}]
    /\ UNCHANGED <<job, past>>

\* The transaction is rolled back and nothing of it is left
RollsBack(r) ==
    /\ pc' = [pc EXCEPT ![r] = "failed"]
    /\ job' = [job EXCEPT ![r] = NoJob]
    /\ saw' = [saw EXCEPT ![r] = None]
    /\ revoking' = [revoking EXCEPT ![r] = {}]
    /\ past' = [past EXCEPT ![r] = {}]
    /\ UNCHANGED <<userVars, tokenVars>>

\* An error anywhere, or the end of the process
Fail(r) == pc[r] \in Running /\ RollsBack(r)

\* revoke_all_for_user: the SELECT, then one UPDATE for each row it returned, in the
\* order of their keys, so that two of these never wait for each other
SelectSessions(r, from) ==
    /\ Moves(r, from, "selected")
    /\ revoking' = [revoking EXCEPT ![r] = Sessions(job[r].account)]
    /\ UNCHANGED <<userVars, tokenVars>>

FlushRevocations(r) ==
    /\ \A s \in revoking[r] : SessionFree(r, s)
    /\ Moves(r, "selected", "revoking")
    /\ UNCHANGED <<userVars, tokenVars, revoking>>

WithoutSessions(gone) ==
    [s \in Ids |-> IF s \in gone THEN "revoked" ELSE session[s]]

(***************************************************************************)
(* register                                                                *)
(***************************************************************************)
BeginRegister(r, a) ==
    /\ \A b \in Accounts : HasRow(b) => MailboxOf[b] # MailboxOf[a]
    /\ Begin(r, AsksFor("register", a, None, None), None)

Inserting(r, a) ==
    job[r].kind = "register" /\ job[r].account = a /\ pc[r] = "flushed"

InsertAccount(r) ==
    /\ job[r].kind = "register"
    /\ ~HasRow(job[r].account)
    /\ \A q \in Requests : ~Inserting(q, job[r].account)
    /\ Moves(r, "read", "flushed")
    /\ UNCHANGED <<userVars, tokenVars, revoking>>

\* The unique constraint on users.email
InsertClashes(r) ==
    /\ job[r].kind = "register"
    /\ HasRow(job[r].account)
    /\ pc[r] = "read"
    /\ RollsBack(r)

CommitRegister(r) ==
    LET a == job[r].account IN
    /\ job[r].kind = "register"
    /\ Commits(r, "flushed")
    /\ registrant' = [registrant EXCEPT ![a] = r]
    /\ active' = [active EXCEPT ![a] = "INACTIVE"]
    /\ activeBy' = [activeBy EXCEPT ![a] = r]
    /\ UNCHANGED <<verified, tokenVars>>

(***************************************************************************)
(* verify_email                                                            *)
(***************************************************************************)
BeginVerify(r, a) ==
    /\ HasRow(a)
    /\ ~verified[a]
    /\ Begin(r, AsksFor("verify", a, None, None), active[a])

FlushVerify(r) ==
    /\ job[r].kind = "verify"
    /\ AccountFree(r, job[r].account)
    /\ Moves(r, "read", "flushed")
    /\ UNCHANGED <<userVars, tokenVars, revoking>>

CommitVerify(r) ==
    LET a == job[r].account IN
    /\ job[r].kind = "verify"
    /\ Commits(r, "flushed")
    /\ verified' = [verified EXCEPT ![a] = TRUE]
    /\ active' = IF WritesActive(r) THEN [active EXCEPT ![a] = "ACTIVE"] ELSE active
    /\ activeBy' = IF WritesActive(r) THEN [activeBy EXCEPT ![a] = r] ELSE activeBy
    /\ UNCHANGED <<registrant, tokenVars>>

(***************************************************************************)
(* login and refresh                                                       *)
(***************************************************************************)
MayLogIn(a) == active[a] = "ACTIVE" /\ verified[a]

BeginLogin(r, a) ==
    /\ FoundByMail(a)
    /\ MayLogIn(a)
    /\ Begin(r, AsksFor("login", a, None, None), None)

CommitLogin(r) ==
    /\ job[r].kind = "login"
    /\ Commits(r, "read")
    /\ session' = [session EXCEPT ![r] = "active"]
    /\ UNCHANGED <<userVars, reset>>

BeginRefresh(r, s) ==
    /\ session[s] = "active"
    /\ Begin(r, AsksFor("refresh", job[s].account, s, None), None)

ReadUser(r) ==
    /\ job[r].kind = "refresh"
    /\ MayLogIn(job[r].account)
    /\ Moves(r, "read", "user")
    /\ UNCHANGED <<userVars, tokenVars, revoking>>

RefuseUser(r) ==
    /\ job[r].kind = "refresh"
    /\ ~MayLogIn(job[r].account)
    /\ pc[r] = "read"
    /\ RollsBack(r)

RevokeUsed(r) ==
    /\ job[r].kind = "refresh"
    /\ SessionFree(r, job[r].uses)
    /\ Moves(r, "user", "flushed")
    /\ UNCHANGED <<userVars, tokenVars, revoking>>

\* Faulty variant: the token that was used stays active.
CommitRefreshKeeping(r) ==
    /\ job[r].kind = "refresh"
    /\ Commits(r, "flushed")
    /\ session' = [session EXCEPT ![r] = "active"]
    /\ UNCHANGED <<userVars, reset>>

CommitRefresh(r) ==
    /\ job[r].kind = "refresh"
    /\ Commits(r, "flushed")
    /\ session' = [WithoutSessions({job[r].uses}) EXCEPT ![r] = "active"]
    /\ UNCHANGED <<userVars, reset>>

(***************************************************************************)
(* forgot_password and reset_password                                      *)
(***************************************************************************)
BeginForgot(r, a) ==
    /\ FoundByMail(a)
    /\ Begin(r, AsksFor("forgot", a, None, None), None)

CommitForgot(r) ==
    /\ job[r].kind = "forgot"
    /\ Commits(r, "read")
    /\ reset' = [reset EXCEPT ![r] = "open"]
    /\ UNCHANGED <<userVars, session>>

BeginReset(r, t) ==
    /\ reset[t] = "open"
    /\ Begin(r, AsksFor("reset", job[t].account, t, None), None)

\* The new password and used_at
FlushReset(r) ==
    /\ job[r].kind = "reset"
    /\ AccountFree(r, job[r].account)
    /\ Moves(r, "read", "flushed")
    /\ UNCHANGED <<userVars, tokenVars, revoking>>

SelectAfterReset(r) == job[r].kind = "reset" /\ SelectSessions(r, "flushed")

CommitReset(r) ==
    /\ job[r].kind = "reset"
    /\ Commits(r, "revoking")
    /\ reset' = [reset EXCEPT ![job[r].uses] = "used"]
    /\ session' = WithoutSessions(revoking[r])
    /\ UNCHANGED userVars

(***************************************************************************)
(* update_status, by an administrator                                      *)
(***************************************************************************)
BeginStatus(r, a, value) ==
    /\ HasRow(a)
    /\ Begin(r, AsksFor("status", a, None, value), active[a])

FlushStatus(r) ==
    /\ job[r].kind = "status"
    /\ WritesActive(r) => AccountFree(r, job[r].account)
    /\ Moves(r, "read", "flushed")
    /\ UNCHANGED <<userVars, tokenVars, revoking>>

SelectAfterStatus(r) ==
    /\ job[r].kind = "status"
    /\ job[r].ask = "INACTIVE"
    /\ SelectSessions(r, "flushed")

\* Faulty variant: the sessions are selected, and not revoked.
CommitStatusAlone(r) ==
    LET a == job[r].account IN
    /\ job[r].kind = "status"
    /\ Commits(r, IF Revokes(r) THEN "revoking" ELSE "flushed")
    /\ active' = IF WritesActive(r) THEN [active EXCEPT ![a] = job[r].ask] ELSE active
    /\ activeBy' = IF WritesActive(r) THEN [activeBy EXCEPT ![a] = r] ELSE activeBy
    /\ UNCHANGED <<registrant, verified, tokenVars>>

CommitStatus(r) ==
    LET a == job[r].account IN
    /\ job[r].kind = "status"
    /\ Commits(r, IF Revokes(r) THEN "revoking" ELSE "flushed")
    /\ active' = IF WritesActive(r) THEN [active EXCEPT ![a] = job[r].ask] ELSE active
    /\ activeBy' = IF WritesActive(r) THEN [activeBy EXCEPT ![a] = r] ELSE activeBy
    /\ session' = WithoutSessions(revoking[r])
    /\ UNCHANGED <<registrant, verified, reset>>

=============================================================================
