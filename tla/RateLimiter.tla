----------------------------- MODULE RateLimiter -----------------------------
(***************************************************************************)
(* The sliding window of the ai service: a sorted set of calls scored by   *)
(* the time each caller read from its own clock before the pipeline ran.   *)
(***************************************************************************)
EXTENDS Integers, FiniteSets

CONSTANTS Calls, Limit, Window,
          MaxDelay,   \* bound: time between reading the clock and the pipeline
          MaxClock    \* bound: length of a behaviour

ASSUME LimiterAssumption ==
    /\ Limit \in Nat /\ Window \in Nat \ {0} /\ MaxDelay \in Nat /\ MaxClock \in Nat
    /\ IsFiniteSet(Calls)

VARIABLES
    clock,
    scored,      \* the members of the sorted set
    keyUntil,    \* when the key expires
    answer,      \* what a call was answered
    score,       \* the time it read
    ranAt        \* history: when its pipeline ran

limiterVars == <<clock, scored, keyUntil, answer, score, ranAt>>

LimiterInit ==
    /\ clock = 0
    /\ scored = {}
    /\ keyUntil = 0
    /\ answer = [c \in Calls |-> "none"]
    /\ score = [c \in Calls |-> 0]
    /\ ranAt = [c \in Calls |-> 0]

ReadClock(c) ==
    /\ answer[c] = "none"
    /\ answer' = [answer EXCEPT ![c] = "waiting"]
    /\ score' = [score EXCEPT ![c] = clock]
    /\ UNCHANGED <<clock, scored, keyUntil, ranAt>>

\* ZREMRANGEBYSCORE, ZADD, ZCARD and EXPIRE in one transaction
Stored == IF clock >= keyUntil THEN {} ELSE scored
\* Faulty variant: the window is short by one.
CountedShort(c) == {m \in Stored : score[m] > score[c] - Window + 1} \cup {c}

Counted(c) == {m \in Stored : score[m] > score[c] - Window} \cup {c}

RunPipeline(c) ==
    /\ answer[c] = "waiting"
    /\ scored' = Counted(c)
    /\ keyUntil' = clock + Window
    /\ answer' = [answer EXCEPT ![c] =
                    IF Cardinality(Counted(c)) > Limit THEN "denied" ELSE "admitted"]
    /\ ranAt' = [ranAt EXCEPT ![c] = clock]
    /\ UNCHANGED <<clock, score>>

Tick ==
    /\ clock < MaxClock
    /\ \A c \in Calls : answer[c] = "waiting" => clock - score[c] < MaxDelay
    /\ clock' = clock + 1
    /\ UNCHANGED <<scored, keyUntil, answer, score, ranAt>>

LimiterNext == Tick \/ \E c \in Calls : ReadClock(c) \/ RunPipeline(c)
LimiterSpec == LimiterInit /\ [][LimiterNext]_limiterVars

Answered == {c \in Calls : answer[c] \in {"admitted", "denied"}}
Admitted == {c \in Calls : answer[c] = "admitted"}

LimiterTypeOK ==
    /\ clock \in Nat /\ keyUntil \in Nat
    /\ scored \in SUBSET Calls
    /\ answer \in [Calls -> {"none", "waiting", "admitted", "denied"}]
    /\ score \in [Calls -> Nat]
    /\ ranAt \in [Calls -> Nat]

\* No Window holds more than Limit admitted calls.  Callers that are slow between
\* their clock and Redis shorten the window by their delay, and by no more.
LimitHolds ==
    \A t \in 0..MaxClock :
        Cardinality({c \in Admitted : ranAt[c] >= t /\ ranAt[c] < t + Window - MaxDelay})
            <= Limit

\* A call is denied only for Limit others that ran before it, in its own window.
DenialsAreEarned ==
    \A c \in Answered \ Admitted :
        Cardinality({m \in Answered \ {c} :
                        ranAt[m] <= ranAt[c] /\ score[m] > score[c] - Window}) >= Limit

\* The limiter lets no more calls pass than it should, and no fewer, whatever the
\* clocks of the callers say and in whichever order they reach Redis.
LimitIsKept == LimitHolds /\ DenialsAreEarned

\* The limit is kept, and every variable is in its set.
LimiterHolds == LimiterTypeOK /\ LimitIsKept
=============================================================================
