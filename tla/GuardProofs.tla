----------------------------- MODULE GuardProofs -----------------------------
(***************************************************************************)
(* Theorems about what guards the services: the circuit breaker, the       *)
(* sliding window, the login throttle and the key of an e-mail task, for   *)
(* every number of calls and workers and every limit; and about the rows   *)
(* of the notification service, which constraints and row locks guard, for *)
(* every set of sessions and events.                                       *)
(***************************************************************************)
EXTENDS CircuitBreaker, RateLimiter, LoginThrottle, EmailTasks, Notifications,
        FiniteSetTheorems, FunctionTheorems, TLAPS

(***************************************************************************)
(* The circuit breaker                                                     *)
(***************************************************************************)
\* The counter is the streak while the breaker is closed; it never closes but by a
\* success, which resets both.
BreakerInv ==
    /\ BreakerTypeOK
    /\ ClosedBelowLimit
    /\ state = "closed" => failures = streak

\* The invariant is inductive.
THEOREM SpecBreakerInv == BreakerSpec => []BreakerInv
<1> USE BreakerAssumption DEF BreakerInv, BreakerTypeOK, ClosedBelowLimit
<1>0. FailMax \in Nat /\ 0 < FailMax
  BY BreakerAssumption
<1>1. BreakerInit => BreakerInv
  <2> SUFFICES ASSUME BreakerInit PROVE BreakerInv
    OBVIOUS
  <2>1. elapsed \in BOOLEAN /\ up \in BOOLEAN
    BY Zenon DEF BreakerInit
  <2> QED
    BY <1>0, <2>1 DEF BreakerInit
<1>2. BreakerInv /\ [BreakerNext]_breakerVars => BreakerInv'
  <2> SUFFICES ASSUME BreakerInv, [BreakerNext]_breakerVars PROVE BreakerInv'
    OBVIOUS
  <2>1. ASSUME NEW c \in Callers, Attempt(c) PROVE BreakerInv'
    BY <2>1 DEF Attempt
  <2>2. ASSUME NEW c \in Callers, HostAnswers(c) PROVE BreakerInv'
    BY <2>2 DEF HostAnswers
  <2>3. ASSUME NEW c \in Callers, CancelCall(c) PROVE BreakerInv'
    BY <2>3 DEF CancelCall
  <2>4. ASSUME NEW c \in Callers, RecordSuccess(c) PROVE BreakerInv'
    BY <1>0, <2>4 DEF RecordSuccess
  <2>5. ASSUME NEW c \in Callers, RecordFailure(c) PROVE BreakerInv'
    <3>0. elapsed' \in BOOLEAN /\ up' \in BOOLEAN
      BY <2>5, Zenon DEF RecordFailure, Opens
    <3>1. BreakerTypeOK'
      <4>1. call' \in [Callers -> {"none", "out", "good", "bad"}]
        BY <2>5 DEF RecordFailure
      <4>2. streak' \in Nat /\ flips' \in Nat /\ failures' \in Nat
        BY <1>0, <2>5 DEF RecordFailure
      <4>3. state' \in {"closed", "open", "half_open"}
        BY <2>5 DEF RecordFailure, Opens
      <4> QED
        BY <3>0, <4>1, <4>2, <4>3
    <3>2. CASE state = "closed"
      <4>1. failures' = failures + 1 /\ streak' = streak + 1
        BY <1>0, <2>5, <3>2 DEF RecordFailure
      <4>2. state' = "closed" <=> failures + 1 < FailMax
        BY <1>0, <2>5, <3>2 DEF RecordFailure, Opens
      <4> QED
        BY <3>1, <3>2, <4>1, <4>2
    <3>3. CASE state # "closed"
      <4>1. streak' = streak /\ ~(streak < FailMax)
        BY <1>0, <2>5, <3>3 DEF RecordFailure
      <4>2. state' # "closed"
        BY <1>0, <2>5, <3>3 DEF RecordFailure, Opens
      <4> QED
        BY <3>1, <4>1, <4>2
    <3> QED
      BY <3>2, <3>3
  <2>6. CASE TimeoutPasses
    BY <2>6 DEF TimeoutPasses
  <2>7. CASE HostChanges
    BY <2>7 DEF HostChanges
  <2>8. CASE UNCHANGED breakerVars
    BY <2>8 DEF breakerVars
  <2> QED
    BY <2>1, <2>2, <2>3, <2>4, <2>5, <2>6, <2>7, <2>8 DEF BreakerNext
<1> QED
  BY <1>1, <1>2, PTL DEF BreakerSpec

\* The breaker is closed exactly while fewer than FailMax failures in a row were
\* recorded.
THEOREM SpecClosedBelowLimit == BreakerSpec => []ClosedBelowLimit
<1>1. BreakerInv => ClosedBelowLimit
  BY DEF BreakerInv
<1> QED
  BY <1>1, SpecBreakerInv, PTL

(***************************************************************************)
(* The sliding window                                                      *)
(***************************************************************************)
\* A call that was answered is still counted unless its score is a window old.
LimiterInv ==
    /\ LimiterTypeOK
    /\ scored \subseteq Answered
    /\ \A m \in Answered :
         /\ score[m] <= ranAt[m] /\ ranAt[m] <= clock /\ ranAt[m] - score[m] <= MaxDelay
         /\ ranAt[m] + Window <= keyUntil
         /\ score[m] > clock - Window => m \in scored
    /\ \A c \in Calls : answer[c] = "waiting" => score[c] <= clock /\ clock - score[c] <= MaxDelay
    /\ LimitIsKept

\* Sets of calls are finite and counted.
LEMMA CallsAreFinite ==
  ASSUME NEW S \in SUBSET Calls, NEW T \in SUBSET S
  PROVE  Cardinality(S) \in Nat /\ Cardinality(T) \in Nat /\ Cardinality(T) <= Cardinality(S)
<1>1. IsFiniteSet(S)
  BY FS_Subset, LimiterAssumption
<1> QED
  BY <1>1, FS_Subset, FS_CardinalityType

\* The invariant holds at first.
LEMMA InitLimiter == LimiterInit => LimiterInv
<1> SUFFICES ASSUME LimiterInit PROVE LimiterInv
  OBVIOUS
<1> USE DEF LimiterInit
<1>1. LimiterTypeOK /\ Answered = {} /\ Admitted = {}
  BY DEF LimiterTypeOK, Answered, Admitted
<1>2. LimitIsKept
  <2>1. ASSUME NEW t \in 0..MaxClock
        PROVE  {c \in Admitted : ranAt[c] >= t /\ ranAt[c] < t + Window - MaxDelay} = {}
    BY <1>1
  <2> QED
    BY <1>1, <2>1, FS_EmptySet, LimiterAssumption DEF LimitIsKept, LimitHolds, DenialsAreEarned
<1> QED
  BY <1>1, <1>2, LimiterAssumption DEF LimiterInv

\* LimitIsKept depends on what was answered, and on nothing else.
LEMMA LimitDepends ==
  ASSUME LimitIsKept, UNCHANGED ranAt, Answered' = Answered, Admitted' = Admitted,
         \A c \in Answered : score'[c] = score[c]
  PROVE  LimitIsKept'
<1>1. LimitHolds'
  BY DEF LimitIsKept, LimitHolds
<1>2. \A c \in Answered \ Admitted :
        {m \in Answered \ {c} : ranAt[m] <= ranAt[c] /\ score'[m] > score'[c] - Window}
          = {m \in Answered \ {c} : ranAt[m] <= ranAt[c] /\ score[m] > score[c] - Window}
  OBVIOUS
<1>3. DenialsAreEarned'
  BY <1>2 DEF LimitIsKept, DenialsAreEarned
<1> QED
  BY <1>1, <1>3 DEF LimitIsKept

\* A call reads its clock.
LEMMA ReadClockKeeps ==
  ASSUME LimiterInv, NEW c \in Calls, ReadClock(c)
  PROVE  LimiterInv'
<1> USE DEF LimiterInv, ReadClock
<1>1. LimiterTypeOK'
  BY DEF LimiterTypeOK
<1>2. Answered' = Answered /\ Admitted' = Admitted /\ c \notin Answered
  BY DEF Answered, Admitted, LimiterTypeOK
<1>3. \A m \in Answered : score'[m] = score[m]
  BY <1>2 DEF LimiterTypeOK, Answered
<1>4. LimitIsKept'
  BY <1>2, <1>3, LimitDepends
<1>5. \A d \in Calls : answer'[d] = "waiting" => score'[d] <= clock /\ clock - score'[d] <= MaxDelay
  BY LimiterAssumption DEF LimiterTypeOK
<1> QED
  BY <1>1, <1>2, <1>3, <1>4, <1>5 DEF LimiterTypeOK, Answered

\* Time passes, but not over the bound of a call that waits.
LEMMA TickKeeps ==
  ASSUME LimiterInv, Tick
  PROVE  LimiterInv'
<1> USE LimiterAssumption DEF LimiterInv, Tick
<1>1. LimiterTypeOK'
  BY DEF LimiterTypeOK
<1>2. Answered' = Answered /\ Admitted' = Admitted
  BY DEF Answered, Admitted
<1>3. LimitIsKept'
  BY <1>2, LimitDepends
<1>4. \A m \in Calls : score[m] \in Nat /\ ranAt[m] \in Nat
  BY DEF LimiterTypeOK
<1>5. clock \in Nat /\ keyUntil \in Nat
  BY DEF LimiterTypeOK
<1> QED
  BY <1>1, <1>2, <1>3, <1>4, <1>5 DEF Answered

\* A call runs its pipeline: every call that was answered within a window of now is
\* among those it counts, so it is admitted only below the limit, and denied only for
\* calls that were answered.
LEMMA RunPipelineKeeps ==
  ASSUME LimiterInv, NEW c \in Calls, RunPipeline(c)
  PROVE  LimiterInv'
<1> DEFINE K == Counted(c)
<1>1. /\ clock \in Nat /\ keyUntil \in Nat /\ scored \subseteq Calls
      /\ \A m \in Calls : score[m] \in Nat /\ ranAt[m] \in Nat
      /\ Limit \in Nat /\ Window \in Nat /\ 0 < Window /\ MaxDelay \in Nat /\ MaxClock \in Nat
  BY LimiterAssumption DEF LimiterInv, LimiterTypeOK
<1>2. /\ answer[c] = "waiting" /\ score[c] <= clock /\ clock - score[c] <= MaxDelay
      /\ c \notin Answered
  BY DEF LimiterInv, RunPipeline, Answered
<1>3. /\ scored' = K /\ keyUntil' = clock + Window /\ UNCHANGED <<clock, score>>
      /\ ranAt' = [ranAt EXCEPT ![c] = clock]
      /\ answer' = [answer EXCEPT ![c] = IF Cardinality(K) > Limit THEN "denied" ELSE "admitted"]
  BY DEF RunPipeline
<1>4. LimiterTypeOK'
  <2>1. K \in SUBSET Calls
    BY <1>1 DEF Counted, Stored
  <2> QED
    BY <1>1, <1>3, <2>1 DEF LimiterInv, LimiterTypeOK
<1>5. Answered' = Answered \cup {c}
  BY <1>3 DEF Answered, LimiterInv, LimiterTypeOK
<1>6. ranAt'[c] = clock /\ \A m \in Calls \ {c} : ranAt'[m] = ranAt[m]
  BY <1>3 DEF LimiterInv, LimiterTypeOK
<1>7. ASSUME NEW m \in Answered, score[m] > clock - Window PROVE m \in K
  <2>1. m \in scored /\ ranAt[m] + Window <= keyUntil /\ score[m] <= ranAt[m] /\ m \in Calls
    BY <1>7 DEF LimiterInv, Answered
  <2>2. clock < keyUntil
    BY <1>1, <1>7, <2>1
  <2>3. score[m] > score[c] - Window
    BY <1>1, <1>2, <1>7, <2>1
  <2> QED
    BY <1>1, <2>1, <2>2, <2>3 DEF Counted, Stored
<1>8. K \subseteq Answered \cup {c} /\ c \in K /\ K \subseteq Calls
  BY DEF LimiterInv, Counted, Stored, Answered
<1>9. LimitHolds'
  <2> DEFINE In(t) == {m \in Admitted : ranAt[m] >= t /\ ranAt[m] < t + Window - MaxDelay}
  <2> SUFFICES ASSUME NEW t \in 0..MaxClock PROVE Cardinality(In(t)') <= Limit
    BY DEF LimitHolds
  <2>1. Cardinality(In(t)) <= Limit
    BY DEF LimiterInv, LimitIsKept, LimitHolds
  <2>2. Admitted \subseteq Answered /\ Admitted' \subseteq Admitted \cup {c}
    BY <1>3 DEF Admitted, Answered, LimiterInv, LimiterTypeOK
  <2>3. CASE c \notin In(t)'
    <3>1. In(t)' \subseteq In(t) /\ In(t) \subseteq Calls
      BY <1>6, <2>2, <2>3 DEF Admitted
    <3>2. Cardinality(In(t)') <= Cardinality(In(t)) /\ Cardinality(In(t)') \in Nat /\ Cardinality(In(t)) \in Nat
      BY ONLY <3>1, CallsAreFinite
    <3> QED
      BY <1>1, <2>1, <3>2
  <2>4. CASE c \in In(t)'
    <3>1. clock < t + Window - MaxDelay /\ c \in Admitted'
      BY <1>6, <2>4
    <3>2. ASSUME NEW m \in In(t)', m # c PROVE m \in K
      <4>1. m \in Answered /\ m \in Calls /\ ranAt[m] >= t
        BY <1>6, <2>2, <3>2 DEF Answered
      <4>2. ranAt[m] - score[m] <= MaxDelay
        BY <4>1 DEF LimiterInv
      <4>3. score[m] > clock - Window
        BY <1>1, <3>1, <4>1, <4>2
      <4> QED
        BY <1>7, <4>1, <4>3
    <3>3. In(t)' \subseteq K
      BY <1>8, <3>2
    <3>4. ~(Cardinality(K) > Limit)
      BY <1>3, <3>1 DEF Admitted, LimiterInv, LimiterTypeOK
    <3>5. Cardinality(In(t)') <= Cardinality(K) /\ Cardinality(In(t)') \in Nat /\ Cardinality(K) \in Nat
      BY ONLY <1>8, <3>3, CallsAreFinite
    <3> QED
      BY <1>1, <3>4, <3>5
  <2> QED
    BY <2>3, <2>4
<1>10. DenialsAreEarned'
  <2> DEFINE Before(d) == {m \in Answered \ {d} : ranAt[m] <= ranAt[d] /\ score[m] > score[d] - Window}
  <2> SUFFICES ASSUME NEW d \in Answered', d \notin Admitted' PROVE Cardinality(Before(d)') >= Limit
    BY DEF DenialsAreEarned
  <2>1. Before(d)' \subseteq Calls
    BY DEF Answered
  <2>2. CASE d = c
    <3>1. Cardinality(K) > Limit
      BY <1>3, <2>2 DEF Admitted, LimiterInv, LimiterTypeOK
    <3>2. ASSUME NEW m \in K \ {c} PROVE m \in Before(d)'
      <4>1. m \in Answered /\ m \in Calls /\ score[m] > score[c] - Window
        BY <1>8 DEF Counted
      <4>2. ranAt[m] <= clock
        BY <4>1 DEF LimiterInv
      <4> QED
        BY <1>3, <1>5, <1>6, <2>2, <4>1, <4>2
    <3>3. IsFiniteSet(K) /\ Cardinality(K) \in Nat
      BY ONLY <1>8, FS_Subset, FS_CardinalityType, LimiterAssumption
    <3>4. Cardinality(K \ {c}) = Cardinality(K) - 1
      BY ONLY <1>8, <3>3, FS_RemoveElement
    <3>5. Cardinality(K \ {c}) <= Cardinality(Before(d)') /\ Cardinality(Before(d)') \in Nat
      BY ONLY <2>1, <3>2, CallsAreFinite
    <3> QED
      BY <1>1, <3>1, <3>3, <3>4, <3>5
  <2>3. CASE d # c
    <3>1. d \in Answered \ Admitted
      BY <1>3, <1>5, <2>3 DEF Admitted, Answered, LimiterInv, LimiterTypeOK
    <3>2. Cardinality(Before(d)) >= Limit
      BY <3>1 DEF LimiterInv, LimitIsKept, DenialsAreEarned
    <3>3. Before(d) \subseteq Before(d)'
      BY <1>2, <1>3, <1>5, <1>6, <3>1 DEF Answered
    <3>4. Cardinality(Before(d)) <= Cardinality(Before(d)') /\ Cardinality(Before(d)) \in Nat /\ Cardinality(Before(d)') \in Nat
      BY ONLY <2>1, <3>3, CallsAreFinite
    <3> QED
      BY <1>1, <3>2, <3>4
  <2> QED
    BY <2>2, <2>3
<1>11. ASSUME NEW m \in Answered'
       PROVE  /\ score'[m] <= ranAt'[m] /\ ranAt'[m] <= clock' /\ ranAt'[m] - score'[m] <= MaxDelay
              /\ ranAt'[m] + Window <= keyUntil'
              /\ score'[m] > clock' - Window => m \in scored'
  <2>1. CASE m = c
    BY <1>1, <1>2, <1>3, <1>6, <1>8, <2>1
  <2>2. CASE m # c
    <3>1. m \in Answered /\ m \in Calls
      BY <1>5, <2>2 DEF Answered
    <3>2. /\ score[m] <= ranAt[m] /\ ranAt[m] <= clock /\ ranAt[m] - score[m] <= MaxDelay
          /\ score[m] > clock - Window => m \in K
      BY <1>7, <3>1 DEF LimiterInv
    <3> QED
      BY <1>1, <1>3, <1>6, <2>2, <3>1, <3>2
  <2> QED
    BY <2>1, <2>2
<1>12. \A d \in Calls : answer'[d] = "waiting" => score'[d] <= clock' /\ clock' - score'[d] <= MaxDelay
  BY <1>3 DEF LimiterInv, LimiterTypeOK
<1>13. scored' \subseteq Answered'
  BY <1>3, <1>5, <1>8
<1> QED
  BY <1>4, <1>9, <1>10, <1>11, <1>12, <1>13 DEF LimiterInv, LimitIsKept

\* The invariant is inductive.
THEOREM SpecLimiterInv == LimiterSpec => []LimiterInv
<1>1. LimiterInv /\ [LimiterNext]_limiterVars => LimiterInv'
  <2> SUFFICES ASSUME LimiterInv, [LimiterNext]_limiterVars PROVE LimiterInv'
    OBVIOUS
  <2>1. CASE UNCHANGED limiterVars
    <3>1. UNCHANGED <<Answered, Admitted>>
      BY <2>1 DEF limiterVars, Answered, Admitted
    <3>2. LimitIsKept'
      BY <2>1, <3>1, LimitDepends DEF LimiterInv, limiterVars
    <3> QED
      BY <2>1, <3>1, <3>2 DEF limiterVars, LimiterInv, LimiterTypeOK
  <2> QED
    BY <2>1, TickKeeps, ReadClockKeeps, RunPipelineKeeps DEF LimiterNext
<1> QED
  BY <1>1, InitLimiter, PTL DEF LimiterSpec

\* No window holds more admitted calls than the limit, and every denial is earned.
THEOREM SpecLimitIsKept == LimiterSpec => []LimitIsKept
<1>1. LimiterInv => LimitIsKept
  BY DEF LimiterInv
<1> QED
  BY <1>1, SpecLimiterInv, PTL

\* The same, and what the sorted set and the calls' variables range over.
THEOREM SpecLimiterHolds == LimiterSpec => []LimiterHolds
<1>1. LimiterInv => LimiterHolds
  BY DEF LimiterInv, LimiterHolds
<1> QED
  BY <1>1, SpecLimiterInv, PTL

(***************************************************************************)
(* The login throttle                                                      *)
(***************************************************************************)
\* A counter of failures, and what an attempt read from it, is at most the number of
\* attempts that failed.
FailuresInv ==
    /\ ThrottleTypeOK
    /\ CountersExpire /\ LockedAfterFailures
    /\ \A e \in Emails : fails[e] <= Cardinality(Failed(e))
    /\ \A l \in Attempts : stage[l] \in {"wrong", "limited"} => count[l] <= Cardinality(Failed(email[l]))
    /\ \A l \in Attempts : stage[l] = "limited" => count[l] >= Threshold

\* More attempts failed than before, or as many.
LEMMA FailedGrows ==
  ASSUME NEW e \in Emails, Failed(e) \subseteq Failed(e)'
  PROVE  /\ Cardinality(Failed(e)) \in Nat /\ Cardinality(Failed(e)') \in Nat
         /\ Cardinality(Failed(e)) <= Cardinality(Failed(e)')
<1>1. Failed(e)' \subseteq Attempts
  BY DEF Failed
<1>2. IsFiniteSet(Failed(e)')
  BY <1>1, FS_Subset, ThrottleAssumption
<1> QED
  BY <1>2, FS_Subset, FS_CardinalityType

\* An attempt that was not among them was added.
LEMMA FailedByOne ==
  ASSUME NEW e \in Emails, NEW l, l \notin Failed(e), Failed(e)' = Failed(e) \cup {l}
  PROVE  Cardinality(Failed(e)') = Cardinality(Failed(e)) + 1
<1>1. Failed(e) \subseteq Attempts
  BY DEF Failed
<1>2. IsFiniteSet(Failed(e))
  BY <1>1, FS_Subset, ThrottleAssumption
<1> QED
  BY <1>2, FS_AddElement

\* The counters agree with the attempts at first.
LEMMA InitThrottle == ThrottleInit => FailuresInv
<1> SUFFICES ASSUME ThrottleInit PROVE FailuresInv
  OBVIOUS
<1> USE ThrottleAssumption DEF ThrottleInit
<1>1. ThrottleTypeOK
  BY DEF ThrottleTypeOK, Stages, Refused, Passed
<1>2. \A e \in Emails : Failed(e) = {}
  BY DEF Failed
<1>3. CountersExpire
  BY DEF CountersExpire
<1>4. LockedAfterFailures
  BY DEF LockedAfterFailures
<1> QED
  BY <1>1, <1>2, <1>3, <1>4, FS_EmptySet DEF FailuresInv

\* What a step of at most one attempt keeps that lets no attempt out of Failed and raises no
\* counter: the bounds, if the attempt itself is within them.
LEMMA BoundsKept ==
  ASSUME FailuresInv, ThrottleTypeOK', UNCHANGED email, NEW l,
         \A k \in Attempts \ {l} : stage'[k] = stage[k] /\ count'[k] = count[k],
         stage[l] \in {"rejected", "wrong", "limited"} =>
            stage'[l] \in {"rejected", "wrong", "limited"},
         \A e \in Emails : fails'[e] = 0 \/ fails'[e] <= fails[e],
         stage'[l] \in {"wrong", "limited"} => stage[l] \in {"wrong", "limited"} /\ count'[l] = count[l],
         l \in Attempts /\ stage'[l] = "limited" => count'[l] >= Threshold,
         \A e \in Emails : locked'[e] =>
            locked[e] \/ (l \in Attempts /\ e = email[l] /\ stage[l] = "limited"),
         CountersExpire'
  PROVE  FailuresInv'
<1> USE ThrottleAssumption
<1>1. \A e \in Emails : Failed(e) \subseteq Failed(e)'
  BY DEF Failed
<1>2. \A e \in Emails : /\ Cardinality(Failed(e)) \in Nat /\ Cardinality(Failed(e)') \in Nat
                        /\ Cardinality(Failed(e)) <= Cardinality(Failed(e)')
  BY <1>1, FailedGrows
<1>3. \A k \in Attempts : email[k] \in Emails /\ count[k] \in Nat /\ count'[k] \in Nat
  BY DEF FailuresInv, ThrottleTypeOK
<1>4. \A e \in Emails : fails[e] \in Nat /\ fails'[e] \in Nat
  BY DEF FailuresInv, ThrottleTypeOK
<1>5. \A e \in Emails : fails'[e] <= Cardinality(Failed(e)')
  BY <1>2, <1>4 DEF FailuresInv
<1>6. \A k \in Attempts : stage'[k] \in {"wrong", "limited"} => count'[k] <= Cardinality(Failed(email[k])')
  <2> SUFFICES ASSUME NEW k \in Attempts, stage'[k] \in {"wrong", "limited"}
               PROVE  count'[k] <= Cardinality(Failed(email[k])')
    OBVIOUS
  <2>1. count'[k] = count[k] /\ count[k] <= Cardinality(Failed(email[k]))
    BY DEF FailuresInv
  <2> QED
    BY <1>2, <1>3, <2>1
<1>7. \A k \in Attempts : stage'[k] = "limited" => count'[k] >= Threshold
  BY DEF FailuresInv
<1>8. \A e \in Emails : locked'[e] => Cardinality(Failed(e)') >= Threshold
  <2> SUFFICES ASSUME NEW e \in Emails, locked'[e] PROVE Cardinality(Failed(e)') >= Threshold
    OBVIOUS
  <2>1. CASE locked[e]
    <3>1. Cardinality(Failed(e)) >= Threshold
      BY <2>1 DEF FailuresInv, LockedAfterFailures, Failed
    <3> QED
      BY <1>2, <3>1
  <2>2. CASE l \in Attempts /\ e = email[l] /\ stage[l] = "limited"
    <3>1. /\ count[l] >= Threshold /\ count[l] <= Cardinality(Failed(e))
          /\ count[l] \in Nat /\ Threshold \in Nat
      BY <1>3, <2>2 DEF FailuresInv
    <3> QED
      BY <1>2, <3>1
  <2> QED
    BY <2>1, <2>2
<1>9. LockedAfterFailures'
  BY <1>8 DEF LockedAfterFailures, Failed
<1> QED
  BY <1>5, <1>6, <1>7, <1>9 DEF FailuresInv

\* A wrong password is counted: the counter and the attempts go up together.
LEMMA CountFailureKeeps ==
  ASSUME FailuresInv, NEW l \in Attempts, CountFailure(l)
  PROVE  FailuresInv'
<1> USE ThrottleAssumption
<1>e. PICK e \in Emails : e = email[l]
  BY DEF FailuresInv, ThrottleTypeOK
<1>1. /\ stage[l] = "admitted" /\ UNCHANGED <<rate, rateTtl, failsTtl, locked, email>>
      /\ stage' = [stage EXCEPT ![l] = "wrong"]
      /\ fails' = [fails EXCEPT ![e] = @ + 1]
      /\ count' = [count EXCEPT ![l] = fails[e] + 1]
  BY <1>e DEF CountFailure, Advance
<1>2. ThrottleTypeOK'
  <2>1. stage' \in [Attempts -> Stages]
    BY <1>1 DEF FailuresInv, ThrottleTypeOK, Stages, Refused, Passed
  <2>2. died' \subseteq Attempts /\ UNCHANGED <<turn, shut, reopened>>
    BY DEF CountFailure, Advance, throttleHistory, FailuresInv, ThrottleTypeOK
  <2>3. fails' \in [Emails -> Nat] /\ count' \in [Attempts -> Nat]
    BY <1>1 DEF FailuresInv, ThrottleTypeOK
  <2> QED
    BY <1>1, <2>1, <2>2, <2>3 DEF FailuresInv, ThrottleTypeOK
<1>3. l \notin Failed(e) /\ Failed(e)' = Failed(e) \cup {l}
  BY <1>1, <1>e DEF Failed, FailuresInv, ThrottleTypeOK
<1>4. \A d \in Emails \ {e} : Failed(d)' = Failed(d)
  BY <1>1, <1>e DEF Failed, FailuresInv, ThrottleTypeOK
<1>5. Cardinality(Failed(e)') = Cardinality(Failed(e)) + 1
  BY <1>1, <1>3, FailedByOne
<1>6. \A d \in Emails : Cardinality(Failed(d)) \in Nat /\ fails[d] \in Nat
  <2>1. \A d \in Emails : Failed(d) \subseteq Attempts
    BY DEF Failed
  <2> QED
    BY <2>1, FS_Subset, FS_CardinalityType DEF FailuresInv, ThrottleTypeOK
<1>0. \A d \in Emails : Cardinality(Failed(d)') \in Nat /\ Cardinality(Failed(d)) <= Cardinality(Failed(d)')
  <2> SUFFICES ASSUME NEW d \in Emails
               PROVE  Cardinality(Failed(d)') \in Nat /\ Cardinality(Failed(d)) <= Cardinality(Failed(d)')
    OBVIOUS
  <2>1. CASE d = e
    BY <1>5, <1>6, <2>1
  <2>2. CASE d # e
    BY <1>4, <1>6, <2>2
  <2> QED
    BY <2>1, <2>2
<1>7. \A d \in Emails : fails'[d] <= Cardinality(Failed(d)')
  BY <1>1, <1>4, <1>5, <1>6 DEF FailuresInv, ThrottleTypeOK
<1>8. ASSUME NEW k \in Attempts, stage'[k] \in {"wrong", "limited"}
      PROVE  count'[k] <= Cardinality(Failed(email[k])')
  <2>1. CASE k = l
    BY <1>1, <1>e, <1>5, <1>6, <2>1 DEF FailuresInv, ThrottleTypeOK
  <2>2. CASE k # l
    <3>1. /\ count'[k] = count[k] /\ count[k] <= Cardinality(Failed(email[k]))
          /\ email[k] \in Emails /\ count[k] \in Nat
      BY <1>1, <1>8, <2>2 DEF FailuresInv, ThrottleTypeOK
    <3> QED
      BY <1>0, <1>1, <1>6, <3>1
  <2> QED
    BY <2>1, <2>2
<1>9. \A k \in Attempts : stage'[k] = "limited" => count'[k] >= Threshold
  BY <1>1 DEF FailuresInv, ThrottleTypeOK
<1>10. ASSUME NEW d \in Emails, locked[d] PROVE Cardinality(Failed(d)') >= Threshold
  <2>1. Cardinality(Failed(d)) >= Threshold
    BY <1>10 DEF FailuresInv, LockedAfterFailures, Failed
  <2> QED
    BY <1>0, <1>6, <2>1
<1>11. LockedAfterFailures'
  BY <1>1, <1>10 DEF LockedAfterFailures, Failed
<1>12. CountersExpire'
  <2>1. rate > 0 /\ ~rateTtl =>
          \E k \in Attempts : stage'[k] = "counted" /\ count'[k] = 1
    BY <1>1 DEF FailuresInv, CountersExpire, ThrottleTypeOK
  <2>2. ASSUME NEW d \in Emails, fails'[d] > 0, ~failsTtl[d]
        PROVE  \E k \in Attempts : email[k] = d /\ stage'[k] = "wrong" /\ count'[k] = 1
    <3>1. CASE fails[d] > 0
      <4>1. PICK k \in Attempts : email[k] = d /\ stage[k] = "wrong" /\ count[k] = 1
        BY <2>2, <3>1 DEF FailuresInv, CountersExpire
      <4> QED
        BY <1>1, <1>e, <4>1 DEF FailuresInv, ThrottleTypeOK
    <3>2. CASE ~(fails[d] > 0)
      <4>1. d = e /\ fails[e] = 0
        BY <1>1, <1>6, <2>2, <3>2 DEF FailuresInv, ThrottleTypeOK
      <4> QED
        BY <1>1, <1>e, <4>1 DEF FailuresInv, ThrottleTypeOK
    <3> QED
      BY <3>1, <3>2
  <2> QED
    BY <1>1, <2>1, <2>2 DEF CountersExpire
<1> QED
  BY <1>2, <1>7, <1>8, <1>9, <1>11, <1>12 DEF FailuresInv

\* An attempt that goes on is somewhere, with the e-mail it was made with.
LEMMA AdvanceTypes ==
  ASSUME ThrottleTypeOK, NEW l \in Attempts, NEW from, NEW to \in Stages, Advance(l, from, to)
  PROVE  /\ stage' \in [Attempts -> Stages] /\ email' \in [Attempts -> Emails]
         /\ died' \subseteq Attempts /\ stage' = [stage EXCEPT ![l] = to] /\ UNCHANGED email
BY DEF ThrottleTypeOK, Advance

\* What every other step of an attempt keeps.
LEMMA AttemptKeeps ==
  ASSUME FailuresInv, NEW l \in Attempts,
         \/ CountAttempt(l) \/ OpenWindow(l) \/ CheckLimits(l) \/ LimitFailures(l) \/ Lock(l)
         \/ RefuseAccount(l) \/ ClearFailures(l) \/ ClearLock(l) \/ Die(l)
  PROVE  FailuresInv'
<1> USE ThrottleAssumption
<1>1. ThrottleTypeOK /\ CountersExpire /\ \A k \in Attempts : stage[k] = "limited" => count[k] >= Threshold
  BY DEF FailuresInv
<1>2. CASE CountAttempt(l)
  <2>1. ThrottleTypeOK'
    <3>1. /\ stage' \in [Attempts -> Stages] /\ email' \in [Attempts -> Emails]
          /\ died' \subseteq Attempts
      BY <1>1, <1>2, AdvanceTypes DEF CountAttempt, Stages, Refused, Passed
    <3>2. /\ rate' \in Nat /\ rateTtl' \in BOOLEAN /\ fails' \in [Emails -> Nat]
          /\ failsTtl' \in [Emails -> BOOLEAN] /\ locked' \in [Emails -> BOOLEAN]
          /\ count' \in [Attempts -> Nat]
      BY <1>1, <1>2 DEF CountAttempt, ThrottleTypeOK, throttleHistory
    <3>3. turn' \in [Attempts -> Nat] /\ shut' \subseteq Attempts /\ reopened' \subseteq Emails
      BY <1>1, <1>2 DEF CountAttempt, ThrottleTypeOK, throttleHistory, Opened
    <3> QED
      BY <3>1, <3>2, <3>3 DEF ThrottleTypeOK
  <2>2. CountersExpire'
    BY <1>1, <1>2 DEF CountAttempt, Advance, ThrottleTypeOK, CountersExpire
  <2> QED
    BY <1>1, <1>2, <2>1, <2>2, BoundsKept DEF CountAttempt, Advance, ThrottleTypeOK
<1>3. CASE OpenWindow(l)
  <2>1. ThrottleTypeOK'
    <3>1. /\ stage' \in [Attempts -> Stages] /\ email' \in [Attempts -> Emails]
          /\ died' \subseteq Attempts
      BY <1>1, <1>3, AdvanceTypes DEF OpenWindow, Stages, Refused, Passed
    <3>2. /\ rate' \in Nat /\ rateTtl' \in BOOLEAN /\ fails' \in [Emails -> Nat]
          /\ failsTtl' \in [Emails -> BOOLEAN] /\ locked' \in [Emails -> BOOLEAN]
          /\ count' \in [Attempts -> Nat]
      BY <1>1, <1>3 DEF OpenWindow, ThrottleTypeOK, throttleHistory
    <3>3. turn' \in [Attempts -> Nat] /\ shut' \subseteq Attempts /\ reopened' \subseteq Emails
      BY <1>1, <1>3 DEF OpenWindow, ThrottleTypeOK, throttleHistory, Opened
    <3> QED
      BY <3>1, <3>2, <3>3 DEF ThrottleTypeOK
  <2>2. CountersExpire'
    BY <1>1, <1>3 DEF OpenWindow, Advance, ThrottleTypeOK, CountersExpire
  <2> QED
    BY <1>1, <1>3, <2>1, <2>2, BoundsKept DEF OpenWindow, Advance, ThrottleTypeOK
<1>4. CASE CheckLimits(l)
  <2>1. ThrottleTypeOK'
    <3>1. /\ stage' \in [Attempts -> Stages] /\ email' \in [Attempts -> Emails]
          /\ died' \subseteq Attempts
      BY <1>1, <1>4, AdvanceTypes DEF CheckLimits, Stages, Refused, Passed
    <3>2. /\ rate' \in Nat /\ rateTtl' \in BOOLEAN /\ fails' \in [Emails -> Nat]
          /\ failsTtl' \in [Emails -> BOOLEAN] /\ locked' \in [Emails -> BOOLEAN]
          /\ count' \in [Attempts -> Nat]
      BY <1>1, <1>4 DEF CheckLimits, ThrottleTypeOK, throttleHistory
    <3>3. turn' \in [Attempts -> Nat] /\ shut' \subseteq Attempts /\ reopened' \subseteq Emails
      BY <1>1, <1>4 DEF CheckLimits, ThrottleTypeOK, throttleHistory, Opened
    <3> QED
      BY <3>1, <3>2, <3>3 DEF ThrottleTypeOK
  <2>2. CountersExpire'
    BY <1>1, <1>4 DEF CheckLimits, Advance, ThrottleTypeOK, CountersExpire
  <2> QED
    BY <1>1, <1>4, <2>1, <2>2, BoundsKept DEF CheckLimits, Advance, ThrottleTypeOK
<1>5. CASE LimitFailures(l)
  <2>1. ThrottleTypeOK'
    <3>1. /\ stage' \in [Attempts -> Stages] /\ email' \in [Attempts -> Emails]
          /\ died' \subseteq Attempts
      BY <1>1, <1>5, AdvanceTypes DEF LimitFailures, Stages, Refused, Passed
    <3>2. /\ rate' \in Nat /\ rateTtl' \in BOOLEAN /\ fails' \in [Emails -> Nat]
          /\ failsTtl' \in [Emails -> BOOLEAN] /\ locked' \in [Emails -> BOOLEAN]
          /\ count' \in [Attempts -> Nat]
      BY <1>1, <1>5 DEF LimitFailures, ThrottleTypeOK, throttleHistory
    <3>3. turn' \in [Attempts -> Nat] /\ shut' \subseteq Attempts /\ reopened' \subseteq Emails
      BY <1>1, <1>5 DEF LimitFailures, ThrottleTypeOK, throttleHistory, Opened
    <3> QED
      BY <3>1, <3>2, <3>3 DEF ThrottleTypeOK
  <2>2. CountersExpire'
    <3>1. /\ stage[l] = "wrong" /\ UNCHANGED <<rate, rateTtl, fails, locked, email, count>>
          /\ stage' = [stage EXCEPT ![l] = IF count[l] >= Threshold THEN "limited" ELSE "rejected"]
          /\ failsTtl' = [failsTtl EXCEPT ![email[l]] = @ \/ (count[l] = 1 /\ fails[email[l]] > 0)]
      BY <1>5 DEF LimitFailures, Advance
    <3>2. rate > 0 /\ ~rateTtl =>
            \E k \in Attempts : stage'[k] = "counted" /\ count'[k] = 1
      BY <1>1, <3>1 DEF ThrottleTypeOK, CountersExpire
    <3>3. ASSUME NEW d \in Emails, fails[d] > 0, ~failsTtl'[d]
          PROVE  \E k \in Attempts : email[k] = d /\ stage'[k] = "wrong" /\ count'[k] = 1
      <4>1. ~failsTtl[d] /\ ~(d = email[l] /\ count[l] = 1)
        BY <1>1, <3>1, <3>3, Zenon DEF ThrottleTypeOK
      <4>2. PICK k \in Attempts : email[k] = d /\ stage[k] = "wrong" /\ count[k] = 1
        BY <1>1, <3>3, <4>1 DEF CountersExpire
      <4>3. k # l
        BY <4>1, <4>2
      <4> QED
        BY <1>1, <3>1, <4>2, <4>3 DEF ThrottleTypeOK
    <3> QED
      BY <3>1, <3>2, <3>3 DEF CountersExpire
  <2> QED
    BY <1>1, <1>5, <2>1, <2>2, BoundsKept DEF LimitFailures, Advance, ThrottleTypeOK
<1>6. CASE Lock(l)
  <2>1. ThrottleTypeOK'
    <3>1. /\ stage' \in [Attempts -> Stages] /\ email' \in [Attempts -> Emails]
          /\ died' \subseteq Attempts
      BY <1>1, <1>6, AdvanceTypes DEF Lock, Stages, Refused, Passed
    <3>2. /\ rate' \in Nat /\ rateTtl' \in BOOLEAN /\ fails' \in [Emails -> Nat]
          /\ failsTtl' \in [Emails -> BOOLEAN] /\ locked' \in [Emails -> BOOLEAN]
          /\ count' \in [Attempts -> Nat]
      BY <1>1, <1>6 DEF Lock, ThrottleTypeOK, throttleHistory
    <3>3. turn' \in [Attempts -> Nat] /\ shut' \subseteq Attempts /\ reopened' \subseteq Emails
      BY <1>1, <1>6 DEF Lock, ThrottleTypeOK, throttleHistory, Opened
    <3> QED
      BY <3>1, <3>2, <3>3 DEF ThrottleTypeOK
  <2>2. CountersExpire'
    BY <1>1, <1>6 DEF Lock, Advance, ThrottleTypeOK, CountersExpire
  <2> QED
    BY <1>1, <1>6, <2>1, <2>2, BoundsKept DEF Lock, Advance, ThrottleTypeOK
<1>7. CASE RefuseAccount(l)
  <2>1. ThrottleTypeOK'
    <3>1. /\ stage' \in [Attempts -> Stages] /\ email' \in [Attempts -> Emails]
          /\ died' \subseteq Attempts
      BY <1>1, <1>7, AdvanceTypes DEF RefuseAccount, Stages, Refused, Passed
    <3>2. /\ rate' \in Nat /\ rateTtl' \in BOOLEAN /\ fails' \in [Emails -> Nat]
          /\ failsTtl' \in [Emails -> BOOLEAN] /\ locked' \in [Emails -> BOOLEAN]
          /\ count' \in [Attempts -> Nat]
      BY <1>1, <1>7 DEF RefuseAccount, ThrottleTypeOK, throttleHistory
    <3>3. turn' \in [Attempts -> Nat] /\ shut' \subseteq Attempts /\ reopened' \subseteq Emails
      BY <1>1, <1>7 DEF RefuseAccount, ThrottleTypeOK, throttleHistory, Opened
    <3> QED
      BY <3>1, <3>2, <3>3 DEF ThrottleTypeOK
  <2>2. CountersExpire'
    BY <1>1, <1>7 DEF RefuseAccount, Advance, ThrottleTypeOK, CountersExpire
  <2> QED
    BY <1>1, <1>7, <2>1, <2>2, BoundsKept DEF RefuseAccount, Advance, ThrottleTypeOK
<1>8. CASE ClearFailures(l)
  <2>1. ThrottleTypeOK'
    <3>1. /\ stage' \in [Attempts -> Stages] /\ email' \in [Attempts -> Emails]
          /\ died' \subseteq Attempts
      BY <1>1, <1>8, AdvanceTypes DEF ClearFailures, Stages, Refused, Passed
    <3>2. /\ rate' \in Nat /\ rateTtl' \in BOOLEAN /\ fails' \in [Emails -> Nat]
          /\ failsTtl' \in [Emails -> BOOLEAN] /\ locked' \in [Emails -> BOOLEAN]
          /\ count' \in [Attempts -> Nat]
      BY <1>1, <1>8 DEF ClearFailures, ThrottleTypeOK, throttleHistory
    <3>3. turn' \in [Attempts -> Nat] /\ shut' \subseteq Attempts /\ reopened' \subseteq Emails
      BY <1>1, <1>8 DEF ClearFailures, ThrottleTypeOK, throttleHistory, Opened
    <3> QED
      BY <3>1, <3>2, <3>3 DEF ThrottleTypeOK
  <2>2. CountersExpire'
    BY <1>1, <1>8 DEF ClearFailures, Advance, ThrottleTypeOK, CountersExpire
  <2> QED
    BY <1>1, <1>8, <2>1, <2>2, BoundsKept DEF ClearFailures, Advance, ThrottleTypeOK
<1>9. CASE ClearLock(l)
  <2>1. ThrottleTypeOK'
    <3>1. /\ stage' \in [Attempts -> Stages] /\ email' \in [Attempts -> Emails]
          /\ died' \subseteq Attempts
      BY <1>1, <1>9, AdvanceTypes DEF ClearLock, Stages, Refused, Passed
    <3>2. /\ rate' \in Nat /\ rateTtl' \in BOOLEAN /\ fails' \in [Emails -> Nat]
          /\ failsTtl' \in [Emails -> BOOLEAN] /\ locked' \in [Emails -> BOOLEAN]
          /\ count' \in [Attempts -> Nat]
      BY <1>1, <1>9 DEF ClearLock, ThrottleTypeOK, throttleHistory
    <3>3. turn' \in [Attempts -> Nat] /\ shut' \subseteq Attempts /\ reopened' \subseteq Emails
      BY <1>1, <1>9 DEF ClearLock, ThrottleTypeOK, throttleHistory, Opened
    <3> QED
      BY <3>1, <3>2, <3>3 DEF ThrottleTypeOK
  <2>2. CountersExpire'
    BY <1>1, <1>9 DEF ClearLock, Advance, ThrottleTypeOK, CountersExpire
  <2> QED
    BY <1>1, <1>9, <2>1, <2>2, BoundsKept DEF ClearLock, Advance, ThrottleTypeOK
<1>10. CASE Die(l)
  <2>1. ThrottleTypeOK'
    <3>1. died' \subseteq Attempts
      BY <1>1, <1>10 DEF Die, ThrottleTypeOK
    <3> QED
      BY <1>1, <1>10, <3>1 DEF Die, ThrottleTypeOK, throttleHistory
  <2>2. CountersExpire'
    BY <1>1, <1>10 DEF Die, Over, ThrottleTypeOK, CountersExpire
  <2> QED
    BY <1>1, <1>10, <2>1, <2>2, BoundsKept DEF Die, Over, ThrottleTypeOK
<1> QED
  BY <1>2, <1>3, <1>4, <1>5, <1>6, <1>7, <1>8, <1>9, <1>10

\* What the passing of time keeps.
LEMMA TimeKeeps ==
  ASSUME FailuresInv, WindowEnds \/ (\E e \in Emails : FailuresEnd(e) \/ LockEnds(e))
  PROVE  FailuresInv'
<1>1. ThrottleTypeOK /\ CountersExpire
  BY DEF FailuresInv
<1>2. ThrottleTypeOK'
  <2>1. CASE WindowEnds
    BY <1>1, <2>1 DEF WindowEnds, ThrottleTypeOK
  <2>2. ASSUME NEW e \in Emails, FailuresEnd(e) PROVE ThrottleTypeOK'
    BY <1>1, <2>2 DEF FailuresEnd, ThrottleTypeOK
  <2>3. ASSUME NEW e \in Emails, LockEnds(e) PROVE ThrottleTypeOK'
    BY <1>1, <2>3 DEF LockEnds, Opened, ThrottleTypeOK
  <2> QED
    BY <2>1, <2>2, <2>3
<1>3. CountersExpire'
  BY <1>1 DEF WindowEnds, FailuresEnd, LockEnds, ThrottleTypeOK, CountersExpire
<1>4. UNCHANGED <<stage, count, email>>
  BY DEF WindowEnds, FailuresEnd, LockEnds
<1>5. \A e \in Emails : (fails'[e] = 0 \/ fails'[e] <= fails[e]) /\ (locked'[e] => locked[e])
  BY <1>1 DEF WindowEnds, FailuresEnd, LockEnds, ThrottleTypeOK
<1>6. \A l \in Attempts : stage[l] = "limited" => count[l] >= Threshold
  BY DEF FailuresInv
<1>7. ASSUME NEW l PROVE FailuresInv'
  BY <1>2, <1>3, <1>4, <1>5, <1>6, BoundsKept
<1> QED
  BY <1>7


\* The attempts of a window are numbered in the order of their INCR; the number is what an
\* attempt compares with the limit.
WindowInv ==
    /\ \A l \in Attempts : turn[l] <= rate
    /\ \A k, l \in Attempts : turn[k] = turn[l] /\ turn[l] > 0 => k = l
    /\ \A l \in Attempts : turn[l] > 0 /\ stage[l] \in {"counted", "windowed"} => count[l] = turn[l]
    /\ \A l \in Attempts : turn[l] > 0 /\ stage[l] \in Passed => turn[l] <= RateMax

\* An attempt that was shut out at first is refused, or has yet to find the lock.
ShutInv ==
    /\ LockKeepsOut
    /\ \A l \in shut : stage[l] \in {"counted", "windowed"} => locked[email[l]]

ThrottleInv == FailuresInv /\ WindowInv /\ ShutInv /\ FailuresLock

\* Numbers that differ and are at most RateMax are at most RateMax many.
LEMMA WindowFollows == ThrottleTypeOK /\ WindowInv => WindowHolds
<1> SUFFICES ASSUME ThrottleTypeOK, WindowInv PROVE WindowHolds
  OBVIOUS
<1> DEFINE in == {l \in Attempts : turn[l] > 0 /\ stage[l] \in Passed}
           f == [l \in in |-> turn[l]]
<1>1. f \in Injection(in, 1..RateMax)
  <2>1. f \in [in -> 1..RateMax]
    BY ThrottleAssumption DEF ThrottleTypeOK, WindowInv
  <2>2. \A k, l \in in : f[k] = f[l] => k = l
    BY DEF WindowInv
  <2> QED
    BY <2>1, <2>2, Fun_IsInj
<1>2. IsFiniteSet(1..RateMax) /\ Cardinality(1..RateMax) = RateMax
  BY FS_Interval, ThrottleAssumption
<1> HIDE DEF f
<1>3. Cardinality(in) <= Cardinality(1..RateMax)
  BY <1>1, <1>2, FS_Injection
<1> QED
  BY <1>2, <1>3 DEF WindowHolds

\* Every step keeps the numbers of the window.
LEMMA WindowStep ==
  ASSUME ThrottleTypeOK, ThrottleTypeOK', WindowInv, [ThrottleNext]_throttleVars
  PROVE  WindowInv'
<1> USE DEF WindowInv, ThrottleTypeOK
<1>1. ASSUME NEW l \in Attempts, CountAttempt(l) PROVE WindowInv'
  <2>1. /\ rate' = rate + 1 /\ rate \in Nat /\ stage[l] = "new"
        /\ count' = [count EXCEPT ![l] = rate + 1] /\ turn' = [turn EXCEPT ![l] = rate + 1]
        /\ stage' = [stage EXCEPT ![l] = "counted"]
    BY <1>1 DEF CountAttempt, Advance
  <2>2. \A k \in Attempts : turn'[k] = IF k = l THEN rate + 1 ELSE turn[k]
    BY <2>1
  <2>3. \A k \in Attempts : turn[k] \in Nat /\ turn[k] <= rate
    OBVIOUS
  <2>4. \A j, k \in Attempts : turn'[j] = turn'[k] /\ turn'[k] > 0 => j = k
    BY <2>1, <2>2, <2>3
  <2> QED
    BY <2>1, <2>2, <2>3, <2>4 DEF Passed
<1>2. ASSUME NEW l \in Attempts, OpenWindow(l) PROVE WindowInv'
  BY <1>2 DEF OpenWindow, Advance, Passed, throttleHistory
<1>3. ASSUME NEW l \in Attempts, CheckLimits(l) PROVE WindowInv'
  <2>1. /\ UNCHANGED <<rate, count, turn>> /\ stage[l] = "windowed"
        /\ stage' = [stage EXCEPT ![l] = IF count[l] > RateMax \/ locked[email[l]] THEN "refused"
                                         ELSE "admitted"]
    BY <1>3 DEF CheckLimits, Advance, throttleHistory
  <2>2. turn[l] > 0 /\ stage'[l] \in Passed => turn[l] <= RateMax
    BY <2>1, ThrottleAssumption DEF Passed
  <2> QED
    BY <2>1, <2>2
<1>4. ASSUME NEW l \in Attempts, CountFailure(l) PROVE WindowInv'
  BY <1>4 DEF CountFailure, Advance, Passed, throttleHistory
<1>5. ASSUME NEW l \in Attempts, LimitFailures(l) PROVE WindowInv'
  BY <1>5 DEF LimitFailures, Advance, Passed, throttleHistory
<1>6. ASSUME NEW l \in Attempts,
             Lock(l) \/ RefuseAccount(l) \/ ClearFailures(l) \/ ClearLock(l) \/ Die(l)
      PROVE  WindowInv'
  BY <1>6 DEF Lock, RefuseAccount, ClearFailures, ClearLock, Die, Advance, Passed, throttleHistory
<1>7. CASE WindowEnds
  BY <1>7 DEF WindowEnds
<1>8. ASSUME NEW e \in Emails, FailuresEnd(e) \/ LockEnds(e) PROVE WindowInv'
  BY <1>8 DEF FailuresEnd, LockEnds
<1>9. CASE UNCHANGED throttleVars
  BY <1>9 DEF throttleVars, throttleHistory
<1> QED
  BY <1>1, <1>2, <1>3, <1>4, <1>5, <1>6, <1>7, <1>8, <1>9 DEF ThrottleNext

\* Every step keeps out who is shut out, as long as the lock stays.
LEMMA ShutStep ==
  ASSUME ThrottleTypeOK, ThrottleTypeOK', ShutInv, [ThrottleNext]_throttleVars
  PROVE  ShutInv'
<1> USE DEF ShutInv, LockKeepsOut, ThrottleTypeOK
<1>1. ASSUME NEW l \in Attempts, CountAttempt(l) PROVE ShutInv'
  BY <1>1 DEF CountAttempt, Advance
<1>2. ASSUME NEW l \in Attempts, OpenWindow(l) PROVE ShutInv'
  BY <1>2 DEF OpenWindow, Advance, throttleHistory
<1>3. ASSUME NEW l \in Attempts, CheckLimits(l) PROVE ShutInv'
  BY <1>3 DEF CheckLimits, Advance, throttleHistory
<1>4. ASSUME NEW l \in Attempts, CountFailure(l) PROVE ShutInv'
  BY <1>4 DEF CountFailure, Advance, throttleHistory
<1>5. ASSUME NEW l \in Attempts, LimitFailures(l) PROVE ShutInv'
  BY <1>5 DEF LimitFailures, Advance, throttleHistory
<1>6. ASSUME NEW l \in Attempts, Lock(l) \/ RefuseAccount(l) \/ ClearFailures(l) \/ Die(l)
      PROVE  ShutInv'
  BY <1>6 DEF Lock, RefuseAccount, ClearFailures, Die, Advance, throttleHistory
<1>7. ASSUME NEW l \in Attempts, ClearLock(l) PROVE ShutInv'
  BY <1>7 DEF ClearLock, Advance, Opened
<1>8. CASE WindowEnds
  BY <1>8 DEF WindowEnds
<1>9. ASSUME NEW e \in Emails, FailuresEnd(e) PROVE ShutInv'
  BY <1>9 DEF FailuresEnd
<1>10. ASSUME NEW e \in Emails, LockEnds(e) PROVE ShutInv'
  BY <1>10 DEF LockEnds, Opened
<1>11. CASE UNCHANGED throttleVars
  BY <1>11 DEF throttleVars, throttleHistory
<1> QED
  BY <1>1, <1>2, <1>3, <1>4, <1>5, <1>6, <1>7, <1>8, <1>9, <1>10, <1>11 DEF ThrottleNext

\* The attempt that counted the last of Threshold failures is the one that sets the lock.
LEMMA FailuresLockStep ==
  ASSUME ThrottleTypeOK, ThrottleTypeOK', FailuresLock, [ThrottleNext]_throttleVars
  PROVE  FailuresLock'
<1> DEFINE Pending(e) == \E k \in Attempts : /\ email[k] = e /\ stage[k] \in {"wrong", "limited"}
                                             /\ count[k] >= Threshold
<1> SUFFICES ASSUME NEW e \in Emails, fails'[e] >= Threshold
             PROVE  locked'[e] \/ e \in reopened' \/ Pending(e)'
  BY DEF FailuresLock
<1> USE ThrottleAssumption DEF ThrottleTypeOK
<1>1. fails[e] >= Threshold => locked[e] \/ e \in reopened \/ Pending(e)
  BY DEF FailuresLock
<1>2. ASSUME NEW l \in Attempts,
             CountAttempt(l) \/ OpenWindow(l) \/ CheckLimits(l) \/ RefuseAccount(l) \/ Die(l)
      PROVE  locked'[e] \/ e \in reopened' \/ Pending(e)'
  <2>1. /\ UNCHANGED <<fails, locked, reopened, email>>
        /\ \A k \in Attempts : stage[k] \in {"wrong", "limited"} =>
             stage'[k] = stage[k] /\ count'[k] = count[k]
    BY <1>2 DEF CountAttempt, OpenWindow, CheckLimits, RefuseAccount, Die, Advance, throttleHistory
  <2> QED
    BY <1>1, <2>1
<1>3. ASSUME NEW l \in Attempts, CountFailure(l)
      PROVE  locked'[e] \/ e \in reopened' \/ Pending(e)'
  <2>1. /\ UNCHANGED <<locked, reopened, email>> /\ stage[l] = "admitted"
        /\ stage' = [stage EXCEPT ![l] = "wrong"]
        /\ fails' = [fails EXCEPT ![email[l]] = @ + 1]
        /\ count' = [count EXCEPT ![l] = fails[email[l]] + 1]
    BY <1>3 DEF CountFailure, Advance, throttleHistory
  <2>2. CASE e = email[l]
    BY <2>1, <2>2
  <2>3. CASE e # email[l]
    <3>1. fails[e] >= Threshold
      BY <2>1, <2>3
    <3>2. Pending(e) => Pending(e)'
      BY <2>1
    <3> QED
      BY <1>1, <2>1, <3>1, <3>2
  <2> QED
    BY <2>2, <2>3
<1>4. ASSUME NEW l \in Attempts, LimitFailures(l)
      PROVE  locked'[e] \/ e \in reopened' \/ Pending(e)'
  <2>1. /\ UNCHANGED <<fails, locked, reopened, email, count>> /\ stage[l] = "wrong"
        /\ stage' = [stage EXCEPT ![l] = IF count[l] >= Threshold THEN "limited" ELSE "rejected"]
    BY <1>4 DEF LimitFailures, Advance, throttleHistory
  <2>2. Pending(e) => Pending(e)'
    BY <2>1
  <2> QED
    BY <1>1, <2>1, <2>2
<1>5. ASSUME NEW l \in Attempts, Lock(l)
      PROVE  locked'[e] \/ e \in reopened' \/ Pending(e)'
  <2>1. /\ UNCHANGED <<fails, email, count>> /\ stage[l] = "limited"
        /\ locked' = [locked EXCEPT ![email[l]] = TRUE] /\ reopened' = reopened \ {email[l]}
        /\ stage' = [stage EXCEPT ![l] = "rejected"]
    BY <1>5 DEF Lock, Advance
  <2>2. CASE e = email[l]
    BY <2>1, <2>2
  <2>3. CASE e # email[l]
    <3>1. Pending(e) => Pending(e)'
      BY <2>1, <2>3
    <3> QED
      BY <1>1, <2>1, <2>3, <3>1
  <2> QED
    BY <2>2, <2>3
<1>6. ASSUME NEW l \in Attempts, ClearFailures(l)
      PROVE  locked'[e] \/ e \in reopened' \/ Pending(e)'
  <2>1. /\ UNCHANGED <<locked, email, count>> /\ stage[l] = "admitted"
        /\ fails' = [fails EXCEPT ![email[l]] = 0] /\ reopened' = reopened \ {email[l]}
        /\ stage' = [stage EXCEPT ![l] = "cleared"]
    BY <1>6 DEF ClearFailures, Advance
  <2>2. e # email[l]
    BY <2>1
  <2>3. Pending(e) => Pending(e)'
    BY <2>1
  <2> QED
    BY <1>1, <2>1, <2>2, <2>3
<1>7. ASSUME NEW l \in Attempts, ClearLock(l)
      PROVE  locked'[e] \/ e \in reopened' \/ Pending(e)'
  <2>1. /\ UNCHANGED <<fails, email, count>> /\ stage[l] = "cleared"
        /\ locked' = [locked EXCEPT ![email[l]] = FALSE]
        /\ reopened' = IF locked[email[l]] THEN reopened \cup {email[l]} ELSE reopened
        /\ stage' = [stage EXCEPT ![l] = "in"]
    BY <1>7 DEF ClearLock, Advance, Opened
  <2>2. Pending(e) => Pending(e)'
    BY <2>1
  <2> QED
    BY <1>1, <2>1, <2>2
<1>8. CASE WindowEnds
  BY <1>1, <1>8 DEF WindowEnds
<1>9. ASSUME NEW d \in Emails, FailuresEnd(d)
      PROVE  locked'[e] \/ e \in reopened' \/ Pending(e)'
  <2>1. /\ UNCHANGED <<locked, stage, email, count>>
        /\ fails' = [fails EXCEPT ![d] = 0] /\ reopened' = reopened \ {d}
    BY <1>9 DEF FailuresEnd
  <2>2. e # d
    BY <2>1
  <2> QED
    BY <1>1, <2>1, <2>2
<1>10. ASSUME NEW d \in Emails, LockEnds(d)
      PROVE  locked'[e] \/ e \in reopened' \/ Pending(e)'
  <2>1. /\ UNCHANGED <<fails, stage, email, count>>
        /\ locked' = [locked EXCEPT ![d] = FALSE]
        /\ reopened' = IF locked[d] THEN reopened \cup {d} ELSE reopened
    BY <1>10 DEF LockEnds, Opened
  <2> QED
    BY <1>1, <2>1
<1>11. CASE UNCHANGED throttleVars
  BY <1>1, <1>11 DEF throttleVars, throttleHistory
<1> QED
  BY <1>2, <1>3, <1>4, <1>5, <1>6, <1>7, <1>8, <1>9, <1>10, <1>11 DEF ThrottleNext

\* The invariant is inductive.
THEOREM SpecThrottleInv == ThrottleSpec => []ThrottleInv
<1>1. ThrottleInit => ThrottleInv
  <2>1. ThrottleInit => WindowInv
    BY DEF ThrottleInit, WindowInv
  <2>2. ThrottleInit => ShutInv
    BY DEF ThrottleInit, ShutInv, LockKeepsOut
  <2>3. ThrottleInit => FailuresLock
    BY ThrottleAssumption DEF ThrottleInit, FailuresLock
  <2> QED
    BY <2>1, <2>2, <2>3, InitThrottle DEF ThrottleInv
<1>2. ThrottleInv /\ [ThrottleNext]_throttleVars => ThrottleInv'
  <2> SUFFICES ASSUME ThrottleInv, [ThrottleNext]_throttleVars PROVE ThrottleInv'
    OBVIOUS
  <2>1. FailuresInv'
    <3>1. CASE UNCHANGED throttleVars
      BY <3>1 DEF throttleVars, throttleHistory, ThrottleInv, FailuresInv, ThrottleTypeOK,
                  CountersExpire, LockedAfterFailures, Failed
    <3> QED
      BY <3>1, CountFailureKeeps, AttemptKeeps, TimeKeeps DEF ThrottleNext, ThrottleInv
  <2>2. ThrottleTypeOK /\ ThrottleTypeOK'
    BY <2>1 DEF ThrottleInv, FailuresInv
  <2> QED
    BY <2>1, <2>2, WindowStep, ShutStep, FailuresLockStep DEF ThrottleInv
<1> QED
  BY <1>1, <1>2, PTL DEF ThrottleSpec

\* However attempts, expiries and deaths interleave: no more than RateMax attempts of a window
\* and none whose e-mail stays locked get to their password, Threshold failures lock, only so
\* many do, and counters that do not expire are those of attempts that died between two commands.
THEOREM SpecThrottleHolds == ThrottleSpec => []ThrottleHolds
<1>1. ThrottleInv => ThrottleHolds
  BY WindowFollows DEF ThrottleInv, FailuresInv, ShutInv, ThrottleHolds
<1> QED
  BY <1>1, SpecThrottleInv, PTL

(***************************************************************************)
(* The e-mail tasks                                                        *)
(***************************************************************************)
\* The workers that may yet send the mail of t, or leave it to another that may.
Chances(t) ==
    {w \in Workers : has[w] = t /\ \/ does[w] = "sends"
                                   \/ does[w] = "looks" /\ t \notin completed
                                   \/ does[w] = "ends" /\ t \notin completed /\ w \in holds}

Waiting(t) == IF t \in queued /\ t \notin completed THEN 1 ELSE 0

\* Whoever marks or ends has sent, he or another before him; and how often a mail went
\* out or may yet go out is bounded by its excuses.
EmailInv ==
    /\ TasksTypeOK
    /\ \A t \in Tasks : t \in completed => sent[t] > 0
    /\ \A w \in Workers : does[w] \in {"marks", "ends"} => sent[has[w]] > 0
    /\ \A t \in Tasks : sent[t] + Cardinality(Chances(t)) + Waiting(t) <= 1 + excused[t]
    /\ NoEmailIsLost

\* Sets of workers are finite and counted.
LEMMA WorkersAreCounted ==
  ASSUME NEW S \in SUBSET Workers, NEW T \in SUBSET Workers, NEW w \in Workers
  PROVE  /\ Cardinality(S) \in Nat /\ Cardinality(T) \in Nat
         /\ T \subseteq S => Cardinality(T) <= Cardinality(S)
         /\ T \subseteq S \cup {w} => Cardinality(T) <= Cardinality(S) + 1
         /\ w \in S /\ T \subseteq S \ {w} => Cardinality(T) <= Cardinality(S) - 1
<1>1. IsFiniteSet(S) /\ IsFiniteSet(T)
  BY FS_Subset, TaskAssumption
<1>2. Cardinality(S) \in Nat /\ Cardinality(T) \in Nat
  BY <1>1, FS_CardinalityType
<1>3. T \subseteq S => Cardinality(T) <= Cardinality(S)
  BY <1>1, FS_Subset
<1>4. ASSUME T \subseteq S \cup {w} PROVE Cardinality(T) <= Cardinality(S) + 1
  <2>0. /\ IsFiniteSet(S \cup {w})
        /\ Cardinality(S \cup {w}) = IF w \in S THEN Cardinality(S) ELSE Cardinality(S) + 1
    BY <1>1, FS_AddElement
  <2>1. IsFiniteSet(S \cup {w}) /\ Cardinality(S \cup {w}) <= Cardinality(S) + 1
    BY <1>2, <2>0
  <2>2. Cardinality(T) <= Cardinality(S \cup {w}) /\ Cardinality(S \cup {w}) \in Nat
    BY <1>4, <2>1, FS_Subset, FS_CardinalityType
  <2> QED
    BY <1>2, <2>1, <2>2
<1>5. ASSUME w \in S, T \subseteq S \ {w} PROVE Cardinality(T) <= Cardinality(S) - 1
  <2>1. IsFiniteSet(S \ {w}) /\ Cardinality(S \ {w}) = Cardinality(S) - 1
    BY <1>1, <1>5, FS_RemoveElement
  <2> QED
    BY <1>5, <2>1, FS_Subset
<1> QED
  BY <1>2, <1>3, <1>4, <1>5

\* The invariant holds at first.
LEMMA InitEmail == TasksInit => EmailInv
<1> SUFFICES ASSUME TasksInit PROVE EmailInv
  OBVIOUS
<1> USE DEF TasksInit
<1>1. TasksTypeOK
  BY TaskAssumption DEF TasksTypeOK
<1>2. ASSUME NEW t \in Tasks
      PROVE  sent[t] + Cardinality(Chances(t)) + Waiting(t) <= 1 + excused[t]
  <2>1. Chances(t) = {}
    BY DEF Chances
  <2> QED
    BY <2>1, FS_EmptySet DEF Waiting
<1> QED
  BY <1>1, <1>2 DEF EmailInv, NoEmailIsLost

\* A step adds to how often the mail of t went out, or may, only with an excuse.
Pays(t) ==
    sent[t]' + Cardinality(Chances(t))' + Waiting(t)' - excused[t]'
        <= sent[t] + Cardinality(Chances(t)) + Waiting(t) - excused[t]

\* The steps of one worker keep the invariant.
LEMMA WorkerKeeps ==
  ASSUME NEW w \in Workers, EmailInv,
         \/ TakeTask(w) \/ SkipOrSend(w) \/ LookFails(w) \/ SendEmail(w)
         \/ MarkCompleted(w) \/ Acknowledge(w) \/ TakenBack(w) \/ WorkerDies(w)
         \/ ProcessKilled(w)
  PROVE  EmailInv'
<1> USE TaskAssumption
<1>1. TasksTypeOK
  BY DEF EmailInv
<1>2. TasksTypeOK'
  <2> USE <1>1 DEF TasksTypeOK, Steps, Free, Excuses, OneMishap, Requeued
  <2>1. CASE TakeTask(w)
    BY <2>1 DEF TakeTask
  <2>2. CASE SkipOrSend(w)
    BY <2>2 DEF SkipOrSend
  <2>3. CASE LookFails(w)
    BY <2>3 DEF LookFails
  <2>4. CASE SendEmail(w)
    BY <2>4 DEF SendEmail
  <2>5. CASE MarkCompleted(w)
    BY <2>5 DEF MarkCompleted
  <2>6. CASE Acknowledge(w)
    BY <2>6 DEF Acknowledge
  <2>7. CASE TakenBack(w)
    BY <2>7 DEF TakenBack
  <2>8. CASE WorkerDies(w)
    BY <2>8 DEF WorkerDies
  <2>9. CASE ProcessKilled(w)
    BY <2>9 DEF ProcessKilled
  <2> QED
    BY <2>1, <2>2, <2>3, <2>4, <2>5, <2>6, <2>7, <2>8, <2>9
<1>3. /\ \A t \in Tasks : t \in completed' => sent'[t] > 0
      /\ \A v \in Workers : does'[v] \in {"marks", "ends"} => sent'[has'[v]] > 0
      /\ NoEmailIsLost'
  <2> USE <1>1 DEF EmailInv, TasksTypeOK, NoEmailIsLost, Steps, Free, Excuses, OneMishap, Requeued
  <2>1. CASE TakeTask(w)
    BY <2>1 DEF TakeTask
  <2>2. CASE SkipOrSend(w)
    BY <2>2 DEF SkipOrSend
  <2>3. CASE LookFails(w)
    BY <2>3 DEF LookFails
  <2>4. CASE SendEmail(w)
    BY <2>4 DEF SendEmail
  <2>5. CASE MarkCompleted(w)
    BY <2>5 DEF MarkCompleted
  <2>6. CASE Acknowledge(w)
    BY <2>6 DEF Acknowledge
  <2>7. CASE TakenBack(w)
    BY <2>7 DEF TakenBack
  <2>8. CASE WorkerDies(w)
    BY <2>8 DEF WorkerDies
  <2>9. CASE ProcessKilled(w)
    BY <2>9 DEF ProcessKilled
  <2> QED
    BY <2>1, <2>2, <2>3, <2>4, <2>5, <2>6, <2>7, <2>8, <2>9
<1>4. ASSUME NEW t \in Tasks PROVE Pays(t)
  <2>1. /\ Chances(t) \in SUBSET Workers /\ Chances(t)' \in SUBSET Workers
        /\ Cardinality(Chances(t)) \in Nat /\ Cardinality(Chances(t)') \in Nat
        /\ Chances(t)' \subseteq Chances(t)
             => Cardinality(Chances(t)') <= Cardinality(Chances(t))
        /\ Chances(t)' \subseteq Chances(t) \cup {w}
             => Cardinality(Chances(t)') <= Cardinality(Chances(t)) + 1
        /\ w \in Chances(t) /\ Chances(t)' \subseteq Chances(t) \ {w}
             => Cardinality(Chances(t)') <= Cardinality(Chances(t)) - 1
    <3>1. Chances(t) \in SUBSET Workers /\ Chances(t)' \in SUBSET Workers
      BY DEF Chances
    <3> HIDE DEF Chances
    <3> QED
      BY <3>1, WorkersAreCounted
  <2>2. sent[t] \in Nat /\ sent'[t] \in Nat /\ excused[t] \in Nat /\ excused'[t] \in Nat
    BY <1>1, <1>2 DEF TasksTypeOK
  <2> DEFINE before == Cardinality(Chances(t))
             after  == Cardinality(Chances(t)')
  <2>3. Pays(t) <=> sent'[t] + after + Waiting(t)' - excused'[t]
                      <= sent[t] + before + Waiting(t) - excused[t]
    BY DEF Pays
  <2>4. before \in Nat /\ after \in Nat
    BY <2>1
  <2> SUFFICES sent'[t] + after + Waiting(t)' - excused'[t]
                 <= sent[t] + before + Waiting(t) - excused[t]
    BY <2>3
  <2> USE <1>1, <2>2 DEF TasksTypeOK, Steps, Free, Excuses, OneMishap, Requeued
  <2>5. CASE TakeTask(w)
    <3>1. CASE has'[w] = t /\ t \notin completed
      <4>1. Chances(t)' \subseteq Chances(t) \cup {w}
        BY <2>5, <3>1 DEF TakeTask, Chances
      <4>2. Waiting(t)' = 0 /\ Waiting(t) = 1
        BY <2>5, <3>1 DEF TakeTask, Waiting
      <4>3. after <= before + 1
        BY <2>1, <4>1
      <4> HIDE DEF before, after
      <4> QED
        BY <2>4, <2>5, <4>2, <4>3 DEF TakeTask
    <3>2. CASE ~(has'[w] = t /\ t \notin completed)
      <4>1. Chances(t)' \subseteq Chances(t)
        BY <2>5, <3>2 DEF TakeTask, Chances
      <4>2. Waiting(t)' = Waiting(t) /\ Waiting(t) \in Nat
        BY <2>5, <3>2 DEF TakeTask, Waiting
      <4>3. after <= before
        BY <2>1, <4>1
      <4> HIDE DEF before, after
      <4> QED
        BY <2>4, <2>5, <4>2, <4>3 DEF TakeTask
    <3> QED
      BY <3>1, <3>2
  <2>6. CASE SkipOrSend(w) \/ Acknowledge(w) \/ ProcessKilled(w)
    <3>1. Chances(t)' \subseteq Chances(t)
      BY <2>6 DEF SkipOrSend, Acknowledge, ProcessKilled, Chances
    <3>2. Waiting(t)' = Waiting(t) /\ Waiting(t) \in Nat
      BY <2>6 DEF SkipOrSend, Acknowledge, ProcessKilled, Waiting
    <3>3. sent' = sent /\ excused' = excused
      BY <2>6 DEF SkipOrSend, Acknowledge, ProcessKilled
    <3>4. after <= before
      BY <2>1, <3>1
    <3> HIDE DEF before, after
    <3> QED
      BY <2>4, <3>2, <3>3, <3>4
  <2>7. CASE LookFails(w)
    <3>1. Waiting(t)' = Waiting(t) /\ Waiting(t) \in Nat
      BY <2>7 DEF LookFails, Waiting
    <3>2. CASE has[w] = t
      <4>1. Chances(t)' \subseteq Chances(t) \cup {w}
        BY <2>7 DEF LookFails, Chances
      <4>2. after <= before + 1
        BY <2>1, <4>1
      <4>3. sent' = sent /\ excused'[t] = excused[t] + 1
        BY <2>7, <3>2 DEF LookFails
      <4> HIDE DEF before, after
      <4> QED
        BY <2>4, <3>1, <4>2, <4>3
    <3>3. CASE has[w] # t
      <4>1. Chances(t)' \subseteq Chances(t)
        BY <2>7, <3>3 DEF LookFails, Chances
      <4>2. after <= before
        BY <2>1, <4>1
      <4>3. sent' = sent /\ excused'[t] = excused[t]
        BY <2>7, <3>3 DEF LookFails
      <4> HIDE DEF before, after
      <4> QED
        BY <2>4, <3>1, <4>2, <4>3
    <3> QED
      BY <3>2, <3>3
  <2>8. CASE SendEmail(w)
    <3>1. Waiting(t)' = Waiting(t) /\ Waiting(t) \in Nat
      BY <2>8 DEF SendEmail, Waiting
    <3>2. CASE has[w] = t
      <4>1. w \in Chances(t) /\ Chances(t)' \subseteq Chances(t) \ {w}
        BY <2>8, <3>2 DEF SendEmail, Chances
      <4>2. after <= before - 1
        BY <2>1, <4>1
      <4>3. sent'[t] = sent[t] + 1 /\ excused' = excused
        BY <2>8, <3>2 DEF SendEmail
      <4> HIDE DEF before, after
      <4> QED
        BY <2>4, <3>1, <4>2, <4>3
    <3>3. CASE has[w] # t
      <4>1. Chances(t)' \subseteq Chances(t)
        BY <2>8, <3>3 DEF SendEmail, Chances
      <4>2. after <= before
        BY <2>1, <4>1
      <4>3. sent'[t] = sent[t] /\ excused' = excused
        BY <2>8, <3>3 DEF SendEmail
      <4> HIDE DEF before, after
      <4> QED
        BY <2>4, <3>1, <4>2, <4>3
    <3> QED
      BY <3>2, <3>3
  <2>9. CASE MarkCompleted(w)
    <3>1. Waiting(t)' <= Waiting(t) /\ Waiting(t) \in Nat /\ Waiting(t)' \in Nat
      BY <2>9 DEF MarkCompleted, Waiting
    <3>2. CASE has[w] = t /\ completed' = completed
      <4>1. Chances(t)' \subseteq Chances(t) \cup {w}
        BY <2>9, <3>2 DEF MarkCompleted, Chances
      <4>2. CASE t \in completed
        <5>1. Chances(t)' \subseteq Chances(t)
          BY <2>9, <3>2, <4>2 DEF MarkCompleted, Chances
        <5>2. after <= before
          BY <2>1, <5>1
        <5>3. sent' = sent /\ excused[t] <= excused'[t]
          BY <2>9 DEF MarkCompleted
        <5> HIDE DEF before, after
        <5> QED
          BY <2>4, <3>1, <5>2, <5>3
      <4>3. CASE t \notin completed
        <5>1. after <= before + 1
          BY <2>1, <4>1
        <5>2. sent' = sent /\ excused'[t] = excused[t] + 1
          BY <2>9, <3>2, <4>3 DEF MarkCompleted
        <5> HIDE DEF before, after
        <5> QED
          BY <2>4, <3>1, <5>1, <5>2
      <4> QED
        BY <4>2, <4>3
    <3>3. CASE ~(has[w] = t /\ completed' = completed)
      <4>1. Chances(t)' \subseteq Chances(t)
        BY <2>9, <3>3 DEF MarkCompleted, Chances
      <4>2. after <= before
        BY <2>1, <4>1
      <4>3. sent' = sent /\ excused[t] <= excused'[t]
        BY <2>9 DEF MarkCompleted
      <4> HIDE DEF before, after
      <4> QED
        BY <2>4, <3>1, <4>2, <4>3
    <3> QED
      BY <3>2, <3>3
  <2>10. CASE TakenBack(w)
    <3>1. Chances(t)' \subseteq Chances(t)
      BY <2>10 DEF TakenBack, Chances
    <3>2. CASE has[w] = t /\ does[w] # "ends"
      <4>1. excused'[t] = excused[t] + 1 /\ sent' = sent
        BY <2>10, <3>2 DEF TakenBack
      <4>2. Waiting(t)' <= Waiting(t) + 1 /\ Waiting(t) \in Nat /\ Waiting(t)' \in Nat
        BY DEF Waiting
      <4>3. after <= before
        BY <2>1, <3>1
      <4> HIDE DEF before, after
      <4> QED
        BY <2>4, <4>1, <4>2, <4>3
    <3>3. CASE has[w] = t /\ does[w] = "ends" /\ t \notin completed
      <4>1. w \in Chances(t) /\ Chances(t)' \subseteq Chances(t) \ {w}
        BY <2>10, <3>3 DEF TakenBack, Chances
      <4>2. Waiting(t)' <= Waiting(t) + 1 /\ Waiting(t) \in Nat /\ Waiting(t)' \in Nat
        BY DEF Waiting
      <4>3. after <= before - 1
        BY <2>1, <4>1
      <4>4. excused' = excused /\ sent' = sent
        BY <2>10, <3>3 DEF TakenBack
      <4> HIDE DEF before, after
      <4> QED
        BY <2>4, <4>2, <4>3, <4>4
    <3>4. CASE has[w] # t \/ (does[w] = "ends" /\ t \in completed)
      <4>1. Waiting(t)' = Waiting(t) /\ Waiting(t) \in Nat
        BY <2>10, <3>4 DEF TakenBack, Waiting
      <4>2. after <= before
        BY <2>1, <3>1
      <4>3. excused'[t] = excused[t] /\ sent' = sent
        BY <2>10, <3>4 DEF TakenBack
      <4> HIDE DEF before, after
      <4> QED
        BY <2>4, <4>1, <4>2, <4>3
    <3> QED
      BY <3>2, <3>3, <3>4
  <2>11. CASE WorkerDies(w)
    <3>1. Chances(t)' \subseteq Chances(t)
      BY <2>11 DEF WorkerDies, Chances
    <3>2. CASE w \notin holds
      <4>1. excused' = excused /\ sent' = sent
        BY <2>11, <3>2 DEF WorkerDies
      <4>2. Waiting(t)' = Waiting(t) /\ Waiting(t) \in Nat
        BY <2>11, <3>2 DEF WorkerDies, Waiting
      <4>3. after <= before
        BY <2>1, <3>1
      <4> HIDE DEF before, after
      <4> QED
        BY <2>4, <4>1, <4>2, <4>3
    <3>3. CASE w \in holds /\ has[w] = t /\ does[w] # "ends"
      <4>1. excused'[t] = excused[t] + 1 /\ sent' = sent
        BY <2>11, <3>3 DEF WorkerDies
      <4>2. Waiting(t)' <= Waiting(t) + 1 /\ Waiting(t) \in Nat /\ Waiting(t)' \in Nat
        BY DEF Waiting
      <4>3. after <= before
        BY <2>1, <3>1
      <4> HIDE DEF before, after
      <4> QED
        BY <2>4, <4>1, <4>2, <4>3
    <3>4. CASE w \in holds /\ has[w] = t /\ does[w] = "ends" /\ t \notin completed
      <4>1. w \in Chances(t) /\ Chances(t)' \subseteq Chances(t) \ {w}
        BY <2>11, <3>4 DEF WorkerDies, Chances
      <4>2. Waiting(t)' <= Waiting(t) + 1 /\ Waiting(t) \in Nat /\ Waiting(t)' \in Nat
        BY DEF Waiting
      <4>3. after <= before - 1
        BY <2>1, <4>1
      <4>4. excused' = excused /\ sent' = sent
        BY <2>11, <3>4 DEF WorkerDies
      <4> HIDE DEF before, after
      <4> QED
        BY <2>4, <4>2, <4>3, <4>4
    <3>5. CASE has[w] # t \/ (does[w] = "ends" /\ t \in completed)
      <4>1. Waiting(t)' = Waiting(t) /\ Waiting(t) \in Nat
        BY <2>11, <3>5 DEF WorkerDies, Waiting
      <4>2. after <= before
        BY <2>1, <3>1
      <4>3. excused'[t] = excused[t] /\ sent' = sent
        BY <2>11, <3>5 DEF WorkerDies
      <4> HIDE DEF before, after
      <4> QED
        BY <2>4, <4>1, <4>2, <4>3
    <3> QED
      BY <3>2, <3>3, <3>4, <3>5
  <2> QED
    BY <2>5, <2>6, <2>7, <2>8, <2>9, <2>10, <2>11
<1>5. ASSUME NEW t \in Tasks
      PROVE  sent'[t] + Cardinality(Chances(t)') + Waiting(t)' <= 1 + excused'[t]
  <2>1. sent[t] \in Nat /\ sent'[t] \in Nat /\ excused[t] \in Nat /\ excused'[t] \in Nat
    BY <1>1, <1>2 DEF TasksTypeOK
  <2>2. Cardinality(Chances(t)) \in Nat /\ Cardinality(Chances(t)') \in Nat
    <3>1. Chances(t) \in SUBSET Workers /\ Chances(t)' \in SUBSET Workers
      BY DEF Chances
    <3> QED
      BY <3>1, WorkersAreCounted
  <2>3. Waiting(t) \in Nat /\ Waiting(t)' \in Nat
    BY DEF Waiting
  <2>4. sent[t] + Cardinality(Chances(t)) + Waiting(t) <= 1 + excused[t]
    BY DEF EmailInv
  <2> QED
    BY <1>4, <2>1, <2>2, <2>3, <2>4 DEF Pays
<1> QED
  BY <1>2, <1>3, <1>5 DEF EmailInv

\* The invariant is inductive.
THEOREM SpecEmailInv == TasksSpec => []EmailInv
<1>1. EmailInv /\ [TasksNext]_taskVars => EmailInv'
  <2>1. ASSUME EmailInv, UNCHANGED taskVars PROVE EmailInv'
    BY <2>1 DEF EmailInv, TasksTypeOK, NoEmailIsLost, Chances, Waiting, taskVars
  <2> QED
    BY <2>1, WorkerKeeps DEF TasksNext
<1> QED
  BY <1>1, InitEmail, PTL DEF TasksSpec

\* No mail is lost unless a process was killed, and one goes out again only for an
\* excuse.
THEOREM SpecEmailsHold == TasksSpec => []EmailsHold
<1>1. EmailInv => EmailsHold
  <2> SUFFICES ASSUME EmailInv, NEW t \in Tasks PROVE sent[t] <= 1 + excused[t]
    BY DEF EmailInv, EmailsHold, RepeatedOnlyByMishap
  <2>1. sent[t] \in Nat /\ excused[t] \in Nat
    BY DEF EmailInv, TasksTypeOK
  <2>2. Cardinality(Chances(t)) \in Nat
    <3>1. Chances(t) \in SUBSET Workers
      BY DEF Chances
    <3> QED
      BY <3>1, FS_Subset, FS_CardinalityType, TaskAssumption
  <2> QED
    BY <2>1, <2>2 DEF EmailInv, Waiting
<1> QED
  BY <1>1, SpecEmailInv, PTL

(***************************************************************************)
(* The notifications                                                       *)
(***************************************************************************)
SessionRecords ==
    [at : {"new", "missing", "loaded", "adding", "noticed", "marking", "ready", "over"},
     kind : {"none", "look", "ingest", "update", "mark"},
     about : News \cup {NoNews}, change : Changes, loaded : Preferences,
     creates : BOOLEAN, adds : BOOLEAN, marks : SUBSET News]

RecordsTypeOK ==
    /\ NoticesTypeOK
    /\ session \in [Sessions -> SessionRecords]
    /\ wish \in [Fields -> [by : Sessions \cup {"nobody"}, value : BOOLEAN]]
    /\ emails \subseteq [about : News, noticed : BOOLEAN]

\* What a session does tells what it is for.
KindsTell ==
    \A h \in Sessions :
        /\ session[h].at \in {"adding", "noticed"} => session[h].kind = "ingest"
        /\ session[h].at = "marking" => session[h].kind = "mark"
        /\ session[h].kind = "ingest" <=> session[h].about # NoNews
        /\ session[h].kind = "mark" => session[h].at \in {"marking", "ready"}
        /\ session[h].adds => session[h].kind = "ingest"

\* One session at a time has inserted a row it has not committed, and it was not there;
\* every other that has come to a row loaded the committed one, or what was committed
\* over since.
OneCreates ==
    /\ prefs = NoRow => \A f \in Fields : wish[f].by = "nobody"
    /\ \A h \in Sessions :
         /\ session[h].creates =>
              /\ prefs = NoRow
              /\ \A g \in Sessions : session[g].creates => g = h
         /\ (/\ session[h].kind \in {"look", "ingest", "update"}
             /\ session[h].at \in {"loaded", "adding", "noticed", "ready"}
             /\ ~session[h].creates)
              => /\ prefs # NoRow
                 /\ \A f \in Fields : prefs[f] = session[h].loaded[f] \/ <<h, f>> \in raced

\* The same for the notification of an event; and whoever wants one has it or adds it.
OneAdds ==
    \A h \in Sessions :
        /\ session[h].adds =>
             /\ notices[session[h].about] = "none"
             /\ \A g \in Sessions :
                  session[g].adds /\ session[g].about = session[h].about => g = h
        /\ \A e \in session[h].marks : notices[e] # "none"
        /\ (/\ session[h].kind = "ingest" /\ session[h].at \in {"noticed", "ready"}
            /\ session[h].loaded["in_app"])
             => session[h].adds \/ notices[session[h].about] # "none"

EmailsTell ==
    \A m \in emails : m.noticed =>
        \/ notices[m.about] # "none" \/ m.about \in failed
        \/ \E h \in Sessions :
             /\ session[h].at = "ready" /\ session[h].about = m.about
             /\ session[h].loaded["in_app"]

NoticesInv ==
    /\ RecordsTypeOK /\ KindsTell /\ OneCreates /\ OneAdds /\ EmailsTell
    /\ ChangeLostOnlyByOverlap /\ ReadStaysRead

\* No row is not a row, and an update may name nothing.
LEMMA RowsDiffer == NoRow \notin Preferences /\ NoRow \in Changes /\ Defaults \in Preferences
<1>1. NoRow \notin Preferences
  <2>1. "email" \in Fields
    BY DEF Fields
  <2> QED
    BY <2>1 DEF NoRow, Preferences
<1>2. NoRow \in [{} -> BOOLEAN] /\ {} \in SUBSET Fields
  BY DEF NoRow
<1> QED
  BY <1>1, <1>2 DEF Changes, Defaults, Preferences

\* The invariant holds at first.
LEMMA InitNotices == NoticesInit => NoticesInv
<1> SUFFICES ASSUME NoticesInit PROVE NoticesInv
  OBVIOUS
<1> USE RowsDiffer DEF NoticesInit
<1>1. Blank \in SessionRecords
  BY DEF Blank, SessionRecords
<1>2. RecordsTypeOK
  BY <1>1 DEF RecordsTypeOK, NoticesTypeOK, Blank
<1>3. KindsTell /\ OneCreates /\ OneAdds /\ EmailsTell
  BY DEF KindsTell, OneCreates, OneAdds, EmailsTell, Blank
<1> QED
  BY <1>2, <1>3 DEF NoticesInv, ChangeLostOnlyByOverlap, ReadStaysRead
(***************************************************************************)
(* The steps of a session, told apart by what they do to the rest: it      *)
(* begins, it closes with nothing kept, it inserts a row, or it goes on.   *)
(***************************************************************************)
Starts(h, r) ==
    /\ At(h, "new")
    /\ r \in SessionRecords /\ ~r.creates /\ ~r.adds
    /\ Goes(h, r) /\ UNCHANGED <<tables, history>>
    /\ \/ /\ r.kind \in {"look", "ingest", "update"} /\ r.marks = {}
          /\ r.kind = "ingest" <=> r.about # NoNews
          /\ \/ r.at = "missing"
             \/ r.at = "loaded" /\ prefs # NoRow /\ r.loaded = prefs
       \/ /\ r.kind = "mark" /\ r.at = "marking" /\ r.about = NoNews
          /\ \A e \in r.marks : notices[e] # "none"

InsertsPreferences(h) ==
    /\ At(h, "missing") /\ prefs = NoRow
    /\ \A g \in Sessions : ~session[g].creates
    /\ Goes(h, [session[h] EXCEPT !.at = "loaded", !.creates = TRUE])
    /\ UNCHANGED <<tables, history>>

InsertsNotice(h) ==
    /\ At(h, "adding") /\ notices[session[h].about] = "none"
    /\ \A g \in Sessions : ~(session[g].adds /\ session[g].about = session[h].about)
    /\ Goes(h, [session[h] EXCEPT !.at = "noticed", !.adds = TRUE])
    /\ UNCHANGED <<tables, history>>

GoesReady(h) ==
    /\ \/ At(h, "loaded") /\ session[h].kind = "update"
       \/ At(h, "marking")
    /\ Goes(h, [session[h] EXCEPT !.at = "ready"])
    /\ UNCHANGED <<tables, history>>

SessionStep(h) ==
    \/ \E r \in SessionRecords : Starts(h, r)
    \/ Open(h) /\ Drops(h)
    \/ AnswerPreferences(h)
    \/ InsertsPreferences(h)
    \/ InsertsNotice(h)
    \/ GoesReady(h)
    \/ CommitPreferences(h)
    \/ LookForNotice(h)
    \/ EnqueueEmail(h)
    \/ CommitEvent(h)
    \/ CommitMarks(h)

\* Every step of a session is one of these.
LEMMA SessionSteps ==
  ASSUME RecordsTypeOK, NoticesNext
  PROVE  \E h \in Sessions : SessionStep(h)
<1> USE RowsDiffer, NotificationAssumption
<1>1. ASSUME NEW h \in Sessions, NEW kind \in {"look", "ingest", "update"},
             NEW e \in News \cup {NoNews}, NEW c \in Changes,
             kind = "ingest" <=> e # NoNews, ReadPreferences(h, kind, e, c)
      PROVE  SessionStep(h)
  <2> DEFINE r == [Blank EXCEPT !.kind = kind, !.about = e, !.change = c,
                      !.at = IF prefs = NoRow THEN "missing" ELSE "loaded",
                      !.loaded = IF prefs = NoRow THEN Defaults ELSE prefs]
  <2>1. r \in SessionRecords
    BY <1>1 DEF RecordsTypeOK, NoticesTypeOK, SessionRecords, Blank
  <2>2. Starts(h, r)
    BY <1>1, <2>1 DEF ReadPreferences, Starts, Blank
  <2> QED
    BY <2>1, <2>2 DEF SessionStep
<1>2. ASSUME NEW h \in Sessions, NEW M \in SUBSET News, At(h, "new"),
             \A e \in M : notices[e] # "none",
             Goes(h, [Blank EXCEPT !.kind = "mark", !.at = "marking", !.marks = M]),
             UNCHANGED <<tables, history>>
      PROVE  SessionStep(h)
  <2> DEFINE r == [Blank EXCEPT !.kind = "mark", !.at = "marking", !.marks = M]
  <2>1. r \in SessionRecords
    BY DEF SessionRecords, Blank
  <2>2. Starts(h, r)
    BY <1>2, <2>1 DEF Starts, Blank
  <2> QED
    BY <2>1, <2>2 DEF SessionStep
<1> SUFFICES ASSUME NEW h \in Sessions,
                    \/ ReceiveEvent(h) \/ GetPreferences(h) \/ UpdatePreferences(h)
                    \/ CreatePreferences(h) \/ AnswerPreferences(h)
                    \/ FlushPreferences(h) \/ CommitPreferences(h)
                    \/ LookForNotice(h) \/ AddNotice(h) \/ EnqueueEmail(h) \/ CommitEvent(h)
                    \/ MarkRead(h) \/ MarkAllRead(h) \/ FlushMarks(h) \/ CommitMarks(h)
                    \/ SessionFails(h)
             PROVE  SessionStep(h)
  BY DEF NoticesNext
<1>3. CASE ReceiveEvent(h)
  BY <1>1, <1>3 DEF ReceiveEvent
<1>4. CASE GetPreferences(h)
  BY <1>1, <1>4 DEF GetPreferences
<1>5. CASE UpdatePreferences(h)
  BY <1>1, <1>5 DEF UpdatePreferences
<1>6. CASE CreatePreferences(h)
  BY <1>6 DEF CreatePreferences, SessionStep, InsertsPreferences, Open, At
<1>7. CASE FlushPreferences(h) \/ FlushMarks(h)
  BY <1>7 DEF FlushPreferences, FlushMarks, SessionStep, GoesReady
<1>8. CASE AddNotice(h)
  BY <1>8 DEF AddNotice, SessionStep, InsertsNotice, Open, At
<1>9. CASE MarkRead(h)
  <2>1. PICK e \in News : /\ notices[e] # "none"
                          /\ Goes(h, [Blank EXCEPT !.kind = "mark", !.at = "marking",
                                         !.marks = IF notices[e] = "unread" THEN {e} ELSE {}])
    BY <1>9 DEF MarkRead
  <2> DEFINE M == IF notices[e] = "unread" THEN {e} ELSE {}
  <2>2. M \in SUBSET News /\ \A d \in M : notices[d] # "none"
    OBVIOUS
  <2>3. At(h, "new") /\ UNCHANGED <<tables, history>>
    BY <1>9 DEF MarkRead
  <2> HIDE DEF M
  <2>4. Goes(h, [Blank EXCEPT !.kind = "mark", !.at = "marking", !.marks = M])
    BY <2>1 DEF M
  <2> QED
    BY <1>2, <2>2, <2>3, <2>4
<1>10. CASE MarkAllRead(h)
  <2> DEFINE M == {e \in News : notices[e] = "unread"}
  <2>1. M \in SUBSET News /\ \A e \in M : notices[e] # "none"
    OBVIOUS
  <2>2. /\ At(h, "new") /\ UNCHANGED <<tables, history>>
        /\ Goes(h, [Blank EXCEPT !.kind = "mark", !.at = "marking", !.marks = M])
    BY <1>10 DEF MarkAllRead
  <2> HIDE DEF M
  <2> QED
    BY <1>2, <2>1, <2>2
<1>11. CASE SessionFails(h)
  BY <1>11 DEF SessionFails, SessionStep
<1> QED
  BY <1>3, <1>4, <1>5, <1>6, <1>7, <1>8, <1>9, <1>10, <1>11 DEF SessionStep

\* What an update writes, and the row it wants.
LEMMA WantedRow ==
  ASSUME NEW h \in Sessions, RecordsTypeOK
  PROVE  /\ DOMAIN session[h].change \subseteq Fields
         /\ \A f \in DOMAIN session[h].change : session[h].change[f] \in BOOLEAN
         /\ Writes(h) \subseteq DOMAIN session[h].change
         /\ Wanted(h) \in Preferences
         /\ \A f \in Fields :
              Wanted(h)[f] = IF f \in DOMAIN session[h].change THEN session[h].change[f]
                             ELSE session[h].loaded[f]
<1>1. session[h].change \in Changes /\ session[h].loaded \in Preferences
  BY DEF RecordsTypeOK, SessionRecords
<1>2. PICK F \in SUBSET Fields : session[h].change \in [F -> BOOLEAN]
  BY <1>1 DEF Changes
<1>3. DOMAIN session[h].change = F /\ \A f \in F : session[h].change[f] \in BOOLEAN
  BY <1>2
<1>4. Writes(h) \subseteq DOMAIN session[h].change
  BY DEF Writes
<1>5. \A f \in Fields : session[h].loaded[f] \in BOOLEAN
  BY <1>1 DEF Preferences
<1> QED
  BY <1>3, <1>4, <1>5, Zenon DEF Wanted, Preferences

\* A step keeps the types.
LEMMA SessionTypes ==
  ASSUME NEW h \in Sessions, NoticesInv, SessionStep(h)
  PROVE  RecordsTypeOK'
<1> USE RowsDiffer, NotificationAssumption
    DEF NoticesInv, NoticesTypeOK, SessionRecords, RecordsTypeOK, At, Goes, tables,
        history, Closed, Blank
<1>1. ASSUME NEW r \in SessionRecords, Starts(h, r) PROVE RecordsTypeOK'
  BY <1>1 DEF Starts
<1>2. CASE Open(h) /\ Drops(h)
  BY <1>2 DEF Drops, Open
<1>3. CASE AnswerPreferences(h)
  BY <1>3 DEF AnswerPreferences
<1>4. CASE InsertsPreferences(h)
  <2>0. session[h] \in SessionRecords /\ TRUE \in BOOLEAN
    OBVIOUS
  <2>1. [session[h] EXCEPT !.at = "loaded", !.creates = TRUE] \in SessionRecords
    BY <2>0, Zenon DEF SessionRecords
  <2> QED
    BY <1>4, <2>1 DEF InsertsPreferences
<1>5. CASE InsertsNotice(h)
  <2>0. session[h] \in SessionRecords /\ TRUE \in BOOLEAN
    OBVIOUS
  <2>1. [session[h] EXCEPT !.at = "noticed", !.adds = TRUE] \in SessionRecords
    BY <2>0, Zenon DEF SessionRecords
  <2> QED
    BY <1>5, <2>1 DEF InsertsNotice
<1>6. CASE GoesReady(h)
  BY <1>6 DEF GoesReady
<1>7. CASE CommitPreferences(h)
  <2> USE WantedRow
  <2>1. prefs' \in Preferences
    <3>1. CASE session[h].creates
      BY <1>7, <3>1 DEF CommitPreferences
    <3>2. CASE ~session[h].creates
      <4>1. prefs \in Preferences
        BY <3>2, <1>7 DEF CommitPreferences, OneCreates
      <4> QED
        BY <1>7, <3>2, <4>1 DEF CommitPreferences, Preferences
    <3> QED
      BY <3>1, <3>2
  <2>2. wish' \in [Fields -> [by : Sessions \cup {"nobody"}, value : BOOLEAN]]
    BY <1>7 DEF CommitPreferences
  <2> QED
    BY <1>7, <2>1, <2>2 DEF CommitPreferences
<1>8. CASE LookForNotice(h)
  BY <1>8 DEF LookForNotice
<1>9. CASE EnqueueEmail(h)
  <2>1. session[h].about \in News
    BY <1>9 DEF EnqueueEmail, KindsTell
  <2>2. session[h].loaded["in_app"] \in BOOLEAN
    BY DEF Preferences, Fields
  <2>0. [session[h] EXCEPT !.at = "ready"] \in SessionRecords
    OBVIOUS
  <2>3. session' \in [Sessions -> SessionRecords] /\ UNCHANGED <<prefs, notices, failed, seen, wish>>
    BY <1>9, <2>0 DEF EnqueueEmail
  <2>4. emails' \subseteq [about : News, noticed : BOOLEAN]
    BY <1>9, <2>1, <2>2 DEF EnqueueEmail
  <2> QED
    BY <2>3, <2>4
<1>10. CASE CommitEvent(h)
  BY <1>10 DEF CommitEvent
<1>11. CASE CommitMarks(h)
  BY <1>11 DEF CommitMarks
<1> QED
  BY <1>1, <1>2, <1>3, <1>4, <1>5, <1>6, <1>7, <1>8, <1>9, <1>10, <1>11 DEF SessionStep

\* A step keeps what a session does in line with what it is for.
LEMMA SessionKinds ==
  ASSUME NEW h \in Sessions, NoticesInv, SessionStep(h), RecordsTypeOK'
  PROVE  KindsTell'
<1> USE RowsDiffer, NotificationAssumption
    DEF NoticesInv, RecordsTypeOK, SessionRecords, KindsTell, At, Goes, tables, history,
        Closed, Blank
<1>1. ASSUME NEW r \in SessionRecords, Starts(h, r) PROVE KindsTell'
  BY <1>1 DEF Starts
<1>2. CASE Open(h) /\ Drops(h)
  BY <1>2 DEF Drops, Open
<1>3. CASE AnswerPreferences(h)
  BY <1>3 DEF AnswerPreferences
<1>4. CASE InsertsPreferences(h)
  BY <1>4 DEF InsertsPreferences
<1>5. CASE InsertsNotice(h)
  BY <1>5 DEF InsertsNotice
<1>6. CASE GoesReady(h)
  BY <1>6 DEF GoesReady
<1>7. CASE CommitPreferences(h)
  BY <1>7 DEF CommitPreferences, Wanted, Writes, Changes, Preferences
<1>8. CASE LookForNotice(h)
  BY <1>8 DEF LookForNotice
<1>9. CASE EnqueueEmail(h)
  BY <1>9 DEF EnqueueEmail
<1>10. CASE CommitEvent(h)
  BY <1>10 DEF CommitEvent
<1>11. CASE CommitMarks(h)
  BY <1>11 DEF CommitMarks
<1> QED
  BY <1>1, <1>2, <1>3, <1>4, <1>5, <1>6, <1>7, <1>8, <1>9, <1>10, <1>11 DEF SessionStep

\* A step leaves one session at most that inserts the preferences.
LEMMA SessionRows ==
  ASSUME NEW h \in Sessions, NoticesInv, SessionStep(h), RecordsTypeOK'
  PROVE  OneCreates'
<1> USE RowsDiffer, NotificationAssumption
    DEF NoticesInv, RecordsTypeOK, NoticesTypeOK, SessionRecords, KindsTell, OneCreates,
        At, Goes, tables, history, Closed, Blank
<1>1. ASSUME NEW r \in SessionRecords, Starts(h, r) PROVE OneCreates'
  BY <1>1 DEF Starts
<1>2. CASE Open(h) /\ Drops(h)
  BY <1>2 DEF Drops, Open
<1>3. CASE AnswerPreferences(h)
  BY <1>3 DEF AnswerPreferences
<1>4. CASE InsertsPreferences(h)
  BY <1>4 DEF InsertsPreferences
<1>5. CASE InsertsNotice(h)
  BY <1>5 DEF InsertsNotice
<1>6. CASE GoesReady(h)
  BY <1>6 DEF GoesReady
<1>7. CASE CommitPreferences(h)
  <2> USE WantedRow
  <2>0. session[h].creates \/ prefs \in Preferences
    BY <1>7 DEF CommitPreferences
  <2>1. prefs' # NoRow /\ prefs' \in Preferences
    <3>1. CASE session[h].creates
      <4>1. prefs' = Wanted(h)
        BY <1>7, <3>1 DEF CommitPreferences
      <4>2. Wanted(h) \in Preferences
        BY <1>7 DEF CommitPreferences
      <4> QED
        BY <4>1, <4>2
    <3>2. CASE ~session[h].creates
      <4>1. prefs' = [f \in Fields |-> IF f \in Writes(h) THEN Wanted(h)[f] ELSE prefs[f]]
        BY <1>7, <3>2 DEF CommitPreferences
      <4>0. Wanted(h) \in Preferences /\ prefs \in Preferences
        BY <2>0, <3>2
      <4>2. \A f \in Fields : Wanted(h)[f] \in BOOLEAN /\ prefs[f] \in BOOLEAN
        BY <4>0 DEF Preferences
      <4>3. prefs' \in Preferences
        BY <4>1, <4>2, Zenon DEF Preferences
      <4> QED
        BY <4>3
    <3> QED
      BY <3>1, <3>2
  <2>2. session' = [session EXCEPT ![h] = Closed]
    BY <1>7 DEF CommitPreferences
  <2>3. \A g \in Sessions : ~session'[g].creates
    <3>1. ASSUME NEW g \in Sessions, session[g].creates PROVE g = h
      <4>1. prefs = NoRow
        BY <3>1
      <4>2. session[h].creates
        BY <1>7, <4>1 DEF CommitPreferences
      <4> QED
        BY <3>1, <4>2
    <3> QED
      BY <2>2, <3>1
  <2>4. ASSUME NEW g \in Sessions, NEW f \in Fields, g # h,
               session[g].kind \in {"look", "ingest", "update"},
               session[g].at \in {"loaded", "adding", "noticed", "ready"}
        PROVE  prefs'[f] = session[g].loaded[f] \/ <<g, f>> \in raced'
    <3>1. ~session[g].creates /\ ~session[h].creates /\ prefs # NoRow
      BY <1>7, <2>4 DEF CommitPreferences
    <3>2. prefs[f] = session[g].loaded[f] \/ <<g, f>> \in raced
      BY <2>4, <3>1
    <3>3. raced \subseteq raced'
      BY <1>7 DEF CommitPreferences
    <3>4. CASE f \in Writes(h)
      <4>1. f \in DOMAIN session[h].change /\ Open(g)
        BY <2>4, <3>4 DEF Open
      <4> QED
        BY <1>7, <2>4, <4>1 DEF CommitPreferences
    <3>5. CASE f \notin Writes(h)
      <4>1. prefs'[f] = prefs[f]
        BY <1>7, <3>1, <3>5 DEF CommitPreferences
      <4> QED
        BY <3>2, <3>3, <4>1
    <3> QED
      BY <3>4, <3>5
  <2> QED
    BY <2>1, <2>2, <2>3, <2>4
<1>8. CASE LookForNotice(h)
  <2>1. PICK at \in {"adding", "noticed"} :
          session' = [session EXCEPT ![h] = [session[h] EXCEPT !.at = at]]
    BY <1>8 DEF LookForNotice
  <2>2. session[h].at = "loaded" /\ session[h].kind = "ingest" /\ UNCHANGED <<tables, history>>
    BY <1>8 DEF LookForNotice
  <2> QED
    BY <2>1, <2>2
<1>9. CASE EnqueueEmail(h)
  BY <1>9 DEF EnqueueEmail
<1>10. CASE CommitEvent(h)
  BY <1>10 DEF CommitEvent
<1>11. CASE CommitMarks(h)
  BY <1>11 DEF CommitMarks
<1> QED
  BY <1>1, <1>2, <1>3, <1>4, <1>5, <1>6, <1>7, <1>8, <1>9, <1>10, <1>11 DEF SessionStep

\* A step leaves one session at most that inserts the notification of an event, and what
\* was read as it is.
LEMMA SessionNotices ==
  ASSUME NEW h \in Sessions, NoticesInv, SessionStep(h), RecordsTypeOK'
  PROVE  OneAdds' /\ ReadStaysRead'
<1> USE RowsDiffer, NotificationAssumption
    DEF NoticesInv, RecordsTypeOK, NoticesTypeOK, SessionRecords, KindsTell, OneAdds,
        ReadStaysRead, At, Goes, tables, history, Closed, Blank
<1>1. ASSUME NEW r \in SessionRecords, Starts(h, r) PROVE OneAdds' /\ ReadStaysRead'
  BY <1>1 DEF Starts
<1>2. CASE Open(h) /\ Drops(h)
  BY <1>2 DEF Drops, Open
<1>3. CASE AnswerPreferences(h)
  BY <1>3 DEF AnswerPreferences
<1>4. CASE InsertsPreferences(h)
  BY <1>4 DEF InsertsPreferences
<1>5. CASE InsertsNotice(h)
  BY <1>5 DEF InsertsNotice
<1>6. CASE GoesReady(h)
  BY <1>6 DEF GoesReady
<1>7. CASE CommitPreferences(h)
  BY <1>7 DEF CommitPreferences, Wanted, Writes, Changes, Preferences
<1>8. CASE LookForNotice(h)
  <2>0. h \in Sessions /\ session[h].kind = "ingest" /\ UNCHANGED <<notices, seen>>
    BY <1>8 DEF LookForNotice
  <2>1. CASE session[h].loaded["in_app"] /\ notices[session[h].about] = "none"
    <3>1. session' = [session EXCEPT ![h] = [session[h] EXCEPT !.at = "adding"]]
      BY <1>8, <2>1 DEF LookForNotice
    <3> QED
      BY <2>0, <3>1
  <2>2. CASE ~(session[h].loaded["in_app"] /\ notices[session[h].about] = "none")
    <3>1. session' = [session EXCEPT ![h] = [session[h] EXCEPT !.at = "noticed"]]
      BY <1>8, <2>2 DEF LookForNotice
    <3> QED
      BY <2>0, <2>2, <3>1
  <2> QED
    BY <2>1, <2>2
<1>9. CASE EnqueueEmail(h)
  BY <1>9 DEF EnqueueEmail
<1>10. CASE CommitEvent(h)
  BY <1>10 DEF CommitEvent
<1>11. CASE CommitMarks(h)
  BY <1>11 DEF CommitMarks
<1> QED
  BY <1>1, <1>2, <1>3, <1>4, <1>5, <1>6, <1>7, <1>8, <1>9, <1>10, <1>11 DEF SessionStep

\* A step leaves no e-mail alone without a reason.
LEMMA SessionEmails ==
  ASSUME NEW h \in Sessions, NoticesInv, SessionStep(h), RecordsTypeOK'
  PROVE  EmailsTell'
<1> USE RowsDiffer, NotificationAssumption
    DEF NoticesInv, RecordsTypeOK, NoticesTypeOK, SessionRecords, KindsTell, OneAdds,
        EmailsTell, At, Goes, tables, history, Closed, Blank
<1>1. ASSUME NEW r \in SessionRecords, Starts(h, r) PROVE EmailsTell'
  BY <1>1 DEF Starts
<1>2. CASE Open(h) /\ Drops(h)
  BY <1>2 DEF Drops, Open
<1>3. CASE AnswerPreferences(h)
  BY <1>3 DEF AnswerPreferences
<1>4. CASE InsertsPreferences(h)
  BY <1>4 DEF InsertsPreferences
<1>5. CASE InsertsNotice(h)
  BY <1>5 DEF InsertsNotice
<1>6. CASE GoesReady(h)
  BY <1>6 DEF GoesReady
<1>7. CASE CommitPreferences(h)
  <2> SUFFICES ASSUME NEW m \in emails, m.noticed
               PROVE  \/ notices[m.about] # "none" \/ m.about \in failed
                      \/ \E g \in Sessions : /\ session'[g].at = "ready"
                                             /\ session'[g].about = m.about
                                             /\ session'[g].loaded["in_app"]
    BY <1>7 DEF CommitPreferences
  <2>1. m.about \in News /\ session[h].about = NoNews
    BY <1>7 DEF CommitPreferences
  <2>2. \A g \in Sessions : session[g].about = m.about => session'[g] = session[g]
    BY <1>7, <2>1 DEF CommitPreferences
  <2> QED
    BY <2>1, <2>2
<1>8. CASE LookForNotice(h)
  BY <1>8 DEF LookForNotice
<1>9. CASE EnqueueEmail(h)
  <2>1. session'[h].at = "ready" /\ session'[h].about = session[h].about
        /\ session'[h].loaded = session[h].loaded
    BY <1>9 DEF EnqueueEmail
  <2>2. \A g \in Sessions : session[g].at = "ready" => session'[g] = session[g]
    BY <1>9 DEF EnqueueEmail
  <2>3. UNCHANGED <<notices, failed>>
    BY <1>9 DEF EnqueueEmail
  <2>4. ASSUME NEW m \in emails, m.noticed
        PROVE  \/ notices'[m.about] # "none" \/ m.about \in failed'
               \/ \E g \in Sessions : /\ session'[g].at = "ready"
                                      /\ session'[g].about = m.about
                                      /\ session'[g].loaded["in_app"]
    BY <2>2, <2>3, <2>4
  <2>5. ASSUME NEW m \in emails' \ emails, m.noticed
        PROVE  \E g \in Sessions : /\ session'[g].at = "ready"
                                   /\ session'[g].about = m.about
                                   /\ session'[g].loaded["in_app"]
    <3>1. m = [about |-> session[h].about, noticed |-> session[h].loaded["in_app"]]
      BY <1>9, <2>5 DEF EnqueueEmail
    <3> QED
      BY <2>1, <2>5, <3>1, Zenon
  <2> QED
    BY <2>4, <2>5
<1>10. CASE CommitEvent(h)
  <2>1. /\ session[h].about \in News /\ UNCHANGED <<emails, failed>>
        /\ \A e \in News : notices[e] # "none" => notices'[e] # "none"
    BY <1>10 DEF CommitEvent
  <2>2. session[h].loaded["in_app"] => notices'[session[h].about] # "none"
    BY <1>10, <2>1 DEF CommitEvent
  <2>3. \A g \in Sessions : g # h => session'[g] = session[g]
    BY <1>10 DEF CommitEvent
  <2> SUFFICES ASSUME NEW m \in emails, m.noticed
               PROVE  \/ notices'[m.about] # "none" \/ m.about \in failed'
                      \/ \E g \in Sessions : /\ session'[g].at = "ready"
                                             /\ session'[g].about = m.about
                                             /\ session'[g].loaded["in_app"]
    BY <2>1
  <2>4. m.about \in News
    OBVIOUS
  <2> QED
    BY <2>1, <2>2, <2>3, <2>4
<1>11. CASE CommitMarks(h)
  <2>1. session[h].about \notin News /\ UNCHANGED <<emails, failed>>
    BY <1>11 DEF CommitMarks
  <2>2. \A e \in News : notices[e] # "none" => notices'[e] # "none"
    BY <1>11 DEF CommitMarks
  <2>3. \A g \in Sessions : g # h => session'[g] = session[g]
    BY <1>11 DEF CommitMarks
  <2> SUFFICES ASSUME NEW m \in emails, m.noticed
               PROVE  \/ notices'[m.about] # "none" \/ m.about \in failed'
                      \/ \E g \in Sessions : /\ session'[g].at = "ready"
                                             /\ session'[g].about = m.about
                                             /\ session'[g].loaded["in_app"]
    BY <2>1
  <2>4. m.about \in News
    OBVIOUS
  <2> QED
    BY <2>1, <2>2, <2>3, <2>4
<1> QED
  BY <1>1, <1>2, <1>3, <1>4, <1>5, <1>6, <1>7, <1>8, <1>9, <1>10, <1>11 DEF SessionStep

\* A step loses no change that was asked for last, but to an overlap.
LEMMA SessionWishes ==
  ASSUME NEW h \in Sessions, NoticesInv, SessionStep(h), RecordsTypeOK'
  PROVE  ChangeLostOnlyByOverlap'
<1> USE RowsDiffer, NotificationAssumption
    DEF NoticesInv, RecordsTypeOK, NoticesTypeOK, SessionRecords, KindsTell, OneCreates,
        ChangeLostOnlyByOverlap, At, Goes, tables, history, Closed, Blank
<1>1. ASSUME NEW r \in SessionRecords, Starts(h, r) PROVE ChangeLostOnlyByOverlap'
  BY <1>1 DEF Starts
<1>2. CASE Open(h) /\ Drops(h)
  BY <1>2 DEF Drops, Open
<1>3. CASE AnswerPreferences(h)
  BY <1>3 DEF AnswerPreferences
<1>4. CASE InsertsPreferences(h)
  BY <1>4 DEF InsertsPreferences
<1>5. CASE InsertsNotice(h)
  BY <1>5 DEF InsertsNotice
<1>6. CASE GoesReady(h)
  BY <1>6 DEF GoesReady
<1>7. CASE CommitPreferences(h)
  BY <1>7 DEF CommitPreferences, Wanted, Writes, Changes, Preferences
<1>8. CASE LookForNotice(h)
  BY <1>8 DEF LookForNotice
<1>9. CASE EnqueueEmail(h)
  BY <1>9 DEF EnqueueEmail
<1>10. CASE CommitEvent(h)
  BY <1>10 DEF CommitEvent
<1>11. CASE CommitMarks(h)
  BY <1>11 DEF CommitMarks
<1> QED
  BY <1>1, <1>2, <1>3, <1>4, <1>5, <1>6, <1>7, <1>8, <1>9, <1>10, <1>11 DEF SessionStep

\* The invariant is inductive.
THEOREM SpecNoticesInv == NoticesSpec => []NoticesInv
<1>1. NoticesInv /\ [NoticesNext]_noticeVars => NoticesInv'
  <2>1. ASSUME NoticesInv, NoticesNext PROVE NoticesInv'
    <3>1. PICK h \in Sessions : SessionStep(h)
      BY <2>1, SessionSteps DEF NoticesInv
    <3>2. RecordsTypeOK'
      BY <2>1, <3>1, SessionTypes
    <3> QED
      BY <2>1, <3>1, <3>2, SessionKinds, SessionRows, SessionNotices, SessionEmails,
         SessionWishes DEF NoticesInv
  <2>2. ASSUME NoticesInv, UNCHANGED noticeVars PROVE NoticesInv'
    BY <2>2 DEF noticeVars, NoticesInv, RecordsTypeOK, NoticesTypeOK, KindsTell, OneCreates,
                OneAdds, EmailsTell, ChangeLostOnlyByOverlap, ReadStaysRead
  <2> QED
    BY <2>1, <2>2
<1> QED
  BY <1>1, InitNotices, PTL DEF NoticesSpec

\* What a user asked for last is what is kept, unless another changed it meanwhile; what
\* was read stays read; and no e-mail goes out alone but by an attempt that failed.
THEOREM SpecNoticesHold == NoticesSpec => []NoticesHold
<1>1. NoticesInv => NoticesHold
  <2> SUFFICES ASSUME NoticesInv, NEW m \in emails, m.noticed,
                      NEW g \in Sessions, session[g].at = "ready", session[g].about = m.about
               PROVE  Open(g)
    BY DEF NoticesInv, NoticesHold, RecordsTypeOK, EmailsTell, EmailAloneOnlyByFailure
  <2> QED
    BY DEF Open
<1> QED
  BY <1>1, SpecNoticesInv, PTL
=============================================================================
