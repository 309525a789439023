--------------------------- MODULE CircuitBreaker ---------------------------
(***************************************************************************)
(* The breaker of one host, shared by all calls of a process to it.  Calls *)
(* overlap: one may end long after the breaker has moved on from the state *)
(* it began in.                                                            *)
(***************************************************************************)
EXTENDS Naturals

CONSTANTS Callers, FailMax,
          MaxFlips   \* bound: how often the host goes down or comes up

ASSUME BreakerAssumption == FailMax \in Nat \ {0} /\ MaxFlips \in Nat

VARIABLES
    state,      \* closed, open or half_open
    failures,
    elapsed,    \* reset_timeout_seconds have passed since it opened
    call,       \* the call of each caller: none, out, or answered good or bad
    up,         \* the host answers
    flips,
    streak      \* history: failures recorded since the last success, to FailMax

breakerVars == <<state, failures, elapsed, call, up, flips, streak>>

BreakerInit ==
    /\ state = "closed" /\ failures = 0 /\ elapsed = FALSE
    /\ call = [c \in Callers |-> "none"]
    /\ up \in BOOLEAN /\ flips = 0
    /\ streak = 0

\* _before_attempt: an open breaker refuses the call until the timeout
Attempt(c) ==
    /\ call[c] = "none"
    /\ state = "open" => elapsed
    /\ state' = IF state = "open" THEN "half_open" ELSE state
    /\ call' = [call EXCEPT ![c] = "out"]
    /\ UNCHANGED <<failures, elapsed, up, flips, streak>>

\* The request raises, or is answered 5xx, or not
HostAnswers(c) ==
    /\ call[c] = "out"
    /\ call' = [call EXCEPT ![c] = IF up THEN "good" ELSE "bad"]
    /\ UNCHANGED <<state, failures, elapsed, up, flips, streak>>

\* Faulty variant: a half-open breaker stays half-open.
RecordSuccessHalfOpen(c) ==
    /\ call[c] = "good"
    /\ call' = [call EXCEPT ![c] = "none"]
    /\ state' = IF state = "half_open" THEN state ELSE "closed"
    /\ failures' = 0 /\ elapsed' = FALSE /\ streak' = 0
    /\ UNCHANGED <<up, flips>>

\* _record_success, also of a call that began before the breaker opened
RecordSuccess(c) ==
    /\ call[c] = "good"
    /\ call' = [call EXCEPT ![c] = "none"]
    /\ state' = "closed" /\ failures' = 0 /\ elapsed' = FALSE /\ streak' = 0
    /\ UNCHANGED <<up, flips>>

\* _record_failure
Opens == state' = "open" /\ elapsed' = FALSE

RecordFailure(c) ==
    /\ call[c] = "bad"
    /\ call' = [call EXCEPT ![c] = "none"]
    /\ streak' = IF streak < FailMax THEN streak + 1 ELSE streak
    /\ \/ state = "half_open" /\ failures' = FailMax /\ Opens
       \/ state # "half_open" /\ failures' = failures + 1
            /\ IF failures + 1 >= FailMax THEN Opens ELSE UNCHANGED <<state, elapsed>>
    /\ UNCHANGED <<up, flips>>

\* A cancelled call is not recorded
CancelCall(c) ==
    /\ call[c] # "none"
    /\ call' = [call EXCEPT ![c] = "none"]
    /\ UNCHANGED <<state, failures, elapsed, up, flips, streak>>

TimeoutPasses ==
    /\ state = "open" /\ ~elapsed
    /\ elapsed' = TRUE
    /\ UNCHANGED <<state, failures, call, up, flips, streak>>

HostChanges ==
    /\ flips < MaxFlips
    /\ up' = ~up /\ flips' = flips + 1
    /\ UNCHANGED <<state, failures, elapsed, call, streak>>

BreakerNext ==
    \/ \E c \in Callers :
         \/ Attempt(c) \/ HostAnswers(c) \/ CancelCall(c)
         \/ RecordSuccess(c) \/ RecordFailure(c)
    \/ TimeoutPasses \/ HostChanges

\* Callers keep calling, and of calls made again and again one is not cancelled
BreakerFairness ==
    /\ WF_breakerVars(TimeoutPasses)
    /\ \A c \in Callers :
         /\ SF_breakerVars(Attempt(c)) /\ SF_breakerVars(HostAnswers(c))
         /\ SF_breakerVars(RecordSuccess(c)) /\ SF_breakerVars(RecordFailure(c))
BreakerSpec == BreakerInit /\ [][BreakerNext]_breakerVars /\ BreakerFairness

(***************************************************************************)
(* Properties                                                              *)
(***************************************************************************)
BreakerTypeOK ==
    /\ state \in {"closed", "open", "half_open"}
    /\ failures \in Nat /\ streak \in Nat /\ flips \in Nat
    /\ elapsed \in BOOLEAN /\ up \in BOOLEAN
    /\ call \in [Callers -> {"none", "out", "good", "bad"}]

\* The breaker lets calls pass freely exactly while fewer than FailMax failures in
\* a row were recorded, however late they are recorded and whatever else is out.
ClosedBelowLimit == state = "closed" <=> streak < FailMax

\* Once the host stays up the breaker closes for good.
Recovers == <>[]up => <>[](state = "closed")
=============================================================================
