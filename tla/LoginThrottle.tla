---------------------------- MODULE LoginThrottle ----------------------------
(***************************************************************************)
(* The Redis counters that login keeps for one client address: attempts in *)
(* a window, failures per e-mail and the lock they lead to.  A counter     *)
(* gets its expiry by a second command.                                    *)
(***************************************************************************)
EXTENDS Naturals, FiniteSets

CONSTANTS Attempts, Emails, RateMax, Threshold

ASSUME ThrottleAssumption ==
    RateMax \in Nat /\ Threshold \in Nat \ {0} /\ IsFiniteSet(Attempts)

VARIABLES
    rate,       \* auth:login:rate, 0 when there is no key
    rateTtl,    \* whether that key expires
    fails,      \* auth:login:fail for each e-mail
    failsTtl,
    locked,     \* auth:login:lock for each e-mail, always with an expiry
    stage,      \* how far an attempt is
    email,      \* the e-mail it is made with
    count,      \* what its last INCR returned
    died,       \* attempts that got no further than their stage
    turn,       \* history: the number of an attempt in the window, 0 once that is over
    shut,       \* history: attempts whose e-mail has been locked since they were counted
    reopened    \* history: e-mails with failures whose lock ran out or was deleted

throttleHistory == <<turn, shut, reopened>>
throttleVars == <<rate, rateTtl, fails, failsTtl, locked, stage, email, count, died, throttleHistory>>

Refused == {"refused", "barred"}
Passed == {"admitted", "wrong", "limited", "rejected", "cleared", "barred", "in"}
Stages == {"new", "counted", "windowed"} \cup Refused \cup Passed
Over == {"rejected", "in"} \cup Refused

Advance(l, from, to) ==
    /\ stage[l] = from /\ l \notin died
    /\ stage' = [stage EXCEPT ![l] = to]
    /\ UNCHANGED <<email, died>>

Opened(e) ==
    /\ shut' = {l \in shut : email[l] # e}
    /\ reopened' = IF locked[e] THEN reopened \cup {e} ELSE reopened

ThrottleInit ==
    /\ rate = 0 /\ rateTtl = FALSE
    /\ fails = [e \in Emails |-> 0]
    /\ failsTtl = [e \in Emails |-> FALSE]
    /\ locked = [e \in Emails |-> FALSE]
    /\ stage = [l \in Attempts |-> "new"]
    /\ email \in [Attempts -> Emails]
    /\ count = [l \in Attempts |-> 0] /\ died = {}
    /\ turn = [l \in Attempts |-> 0] /\ shut = {} /\ reopened = {}

(***************************************************************************)
(* _enforce_rate_limit                                                     *)
(***************************************************************************)
CountAttempt(l) ==
    /\ Advance(l, "new", "counted")
    /\ rate' = rate + 1
    /\ count' = [count EXCEPT ![l] = rate + 1]
    /\ turn' = [turn EXCEPT ![l] = rate + 1]
    /\ shut' = IF locked[email[l]] THEN shut \cup {l} ELSE shut
    /\ UNCHANGED <<rateTtl, fails, failsTtl, locked, reopened>>

\* EXPIRE, by whoever counted 1; on a key that is gone it does nothing
OpenWindow(l) ==
    /\ Advance(l, "counted", "windowed")
    /\ rateTtl' = (rateTtl \/ (count[l] = 1 /\ rate > 0))
    /\ UNCHANGED <<rate, fails, failsTtl, locked, count, throttleHistory>>

CheckLimits(l) ==
    /\ Advance(l, "windowed",
               IF count[l] > RateMax \/ locked[email[l]] THEN "refused" ELSE "admitted")
    /\ UNCHANGED <<rate, rateTtl, fails, failsTtl, locked, count, throttleHistory>>

(***************************************************************************)
(* A wrong password: _record_failed_login                                  *)
(***************************************************************************)
CountFailure(l) ==
    LET e == email[l] IN
    /\ Advance(l, "admitted", "wrong")
    /\ fails' = [fails EXCEPT ![e] = @ + 1]
    /\ count' = [count EXCEPT ![l] = fails[e] + 1]
    /\ UNCHANGED <<rate, rateTtl, failsTtl, locked, throttleHistory>>

\* Faulty variant: locks one failure late.
LimitFailuresLate(l) ==
    LET e == email[l] IN
    /\ Advance(l, "wrong", IF count[l] > Threshold THEN "limited" ELSE "rejected")
    /\ failsTtl' = [failsTtl EXCEPT ![e] = @ \/ (count[l] = 1 /\ fails[e] > 0)]
    /\ UNCHANGED <<rate, rateTtl, fails, locked, count, throttleHistory>>

LimitFailures(l) ==
    LET e == email[l] IN
    /\ Advance(l, "wrong", IF count[l] >= Threshold THEN "limited" ELSE "rejected")
    /\ failsTtl' = [failsTtl EXCEPT ![e] = @ \/ (count[l] = 1 /\ fails[e] > 0)]
    /\ UNCHANGED <<rate, rateTtl, fails, locked, count, throttleHistory>>

Lock(l) ==
    /\ Advance(l, "limited", "rejected")
    /\ locked' = [locked EXCEPT ![email[l]] = TRUE]
    /\ reopened' = reopened \ {email[l]}
    /\ UNCHANGED <<rate, rateTtl, fails, failsTtl, count, turn, shut>>

(***************************************************************************)
(* The right password: an account that may not log in is refused, else     *)
(* _clear_login_failures deletes one key after the other                   *)
(***************************************************************************)
RefuseAccount(l) ==
    /\ Advance(l, "admitted", "barred")
    /\ UNCHANGED <<rate, rateTtl, fails, failsTtl, locked, count, throttleHistory>>

ClearFailures(l) ==
    LET e == email[l] IN
    /\ Advance(l, "admitted", "cleared")
    /\ fails' = [fails EXCEPT ![e] = 0]
    /\ failsTtl' = [failsTtl EXCEPT ![e] = FALSE]
    /\ reopened' = reopened \ {e}
    /\ UNCHANGED <<rate, rateTtl, locked, count, turn, shut>>

ClearLock(l) ==
    /\ Advance(l, "cleared", "in")
    /\ locked' = [locked EXCEPT ![email[l]] = FALSE]
    /\ Opened(email[l])
    /\ UNCHANGED <<rate, rateTtl, fails, failsTtl, count, turn>>

\* The process dies, or a command fails, before the next command
Die(l) ==
    /\ stage[l] \notin Over \cup {"new"} /\ l \notin died
    /\ died' = died \cup {l}
    /\ UNCHANGED <<rate, rateTtl, fails, failsTtl, locked, stage, email, count, throttleHistory>>

(***************************************************************************)
(* Time                                                                    *)
(***************************************************************************)
WindowEnds ==
    /\ rateTtl
    /\ rate' = 0 /\ rateTtl' = FALSE
    /\ turn' = [l \in Attempts |-> 0]
    /\ UNCHANGED <<fails, failsTtl, locked, stage, email, count, died, shut, reopened>>

FailuresEnd(e) ==
    /\ failsTtl[e]
    /\ fails' = [fails EXCEPT ![e] = 0]
    /\ failsTtl' = [failsTtl EXCEPT ![e] = FALSE]
    /\ reopened' = reopened \ {e}
    /\ UNCHANGED <<rate, rateTtl, locked, stage, email, count, died, turn, shut>>

LockEnds(e) ==
    /\ locked[e]
    /\ locked' = [locked EXCEPT ![e] = FALSE]
    /\ Opened(e)
    /\ UNCHANGED <<rate, rateTtl, fails, failsTtl, stage, email, count, died, turn>>

ThrottleNext ==
    \/ \E l \in Attempts :
         \/ CountAttempt(l) \/ OpenWindow(l) \/ CheckLimits(l)
         \/ CountFailure(l) \/ LimitFailures(l) \/ Lock(l)
         \/ RefuseAccount(l) \/ ClearFailures(l) \/ ClearLock(l)
         \/ Die(l)
    \/ WindowEnds
    \/ \E e \in Emails : FailuresEnd(e) \/ LockEnds(e)

ThrottleSpec == ThrottleInit /\ [][ThrottleNext]_throttleVars

(***************************************************************************)
(* Properties                                                              *)
(***************************************************************************)
ThrottleTypeOK ==
    /\ rate \in Nat /\ rateTtl \in BOOLEAN
    /\ fails \in [Emails -> Nat] /\ failsTtl \in [Emails -> BOOLEAN]
    /\ locked \in [Emails -> BOOLEAN]
    /\ stage \in [Attempts -> Stages]
    /\ email \in [Attempts -> Emails]
    /\ count \in [Attempts -> Nat] /\ died \subseteq Attempts
    /\ turn \in [Attempts -> Nat] /\ shut \subseteq Attempts /\ reopened \subseteq Emails

\* Of the attempts that are counted before the counter expires, no more than RateMax get
\* as far as their password, however their commands and the expiry interleave.
WindowHolds == Cardinality({l \in Attempts : turn[l] > 0 /\ stage[l] \in Passed}) <= RateMax

\* Threshold failures lock their e-mail: until the counter is deleted or expires there is a
\* lock, or there was one, or the attempt that counted the last of them has yet to set it,
\* or died before.
FailuresLock ==
    \A e \in Emails : fails[e] >= Threshold =>
        \/ locked[e] \/ e \in reopened
        \/ \E l \in Attempts : email[l] = e /\ stage[l] \in {"wrong", "limited"} /\ count[l] >= Threshold

\* An attempt that begins while its e-mail is locked gets past the check only if the lock
\* is gone by then.
LockKeepsOut == \A l \in shut : stage[l] \in {"counted", "windowed", "refused"}

\* Whoever counted 1 sets the expiry in the next command: a counter that will not
\* expire belongs to an attempt about to do that, or to one that died before.  Were it
\* not so, an address or an account would be shut out for ever.
CountersExpire ==
    /\ rate > 0 /\ ~rateTtl => \E l \in Attempts : stage[l] = "counted" /\ count[l] = 1
    /\ \A e \in Emails : fails[e] > 0 /\ ~failsTtl[e] =>
         \E l \in Attempts : email[l] = e /\ stage[l] = "wrong" /\ count[l] = 1

\* The attempts at e that were counted as failures
Failed(e) == {l \in Attempts : email[l] = e /\ stage[l] \in {"rejected", "wrong", "limited"}}

\* An e-mail is locked only after Threshold attempts failed, whatever else succeeds,
\* expires or dies between them.
LockedAfterFailures == \A e \in Emails : locked[e] => Cardinality(Failed(e)) >= Threshold

\* Whoever tries too often within a window, or after too many failures, is kept from the
\* password, an e-mail is locked after so many failures only, and nothing is counted for
\* ever unless an attempt died between two commands.
ThrottleHolds ==
    /\ WindowHolds /\ FailuresLock /\ LockKeepsOut
    /\ CountersExpire /\ LockedAfterFailures
=============================================================================
