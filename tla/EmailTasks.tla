----------------------------- MODULE EmailTasks -----------------------------
(***************************************************************************)
(* The e-mail tasks of the notification service, from RabbitMQ to the      *)
(* workers of Celery.  A task is acknowledged after it has run, so that a  *)
(* worker that is lost leaves it to another, and a key in Redis keeps the  *)
(* other from sending the mail again.  But a worker whose process for the  *)
(* task is killed acknowledges it.                                         *)
(***************************************************************************)
EXTENDS Naturals, FiniteSets

CONSTANTS
    Tasks, NoTask,
    Workers,
    MaxMishaps     \* bound: deliveries taken back and errors of Redis

ASSUME TaskAssumption ==
    NoTask \notin Tasks /\ IsFiniteSet(Workers) /\ MaxMishaps \in Nat

VARIABLES
    queued,       \* tasks that wait for a worker
    holds,        \* workers whose delivery is theirs to acknowledge
    has,          \* what each worker runs, or NoTask
    does,         \* how far it is
    completed,    \* notifications:celery:done
    sent,         \* history: how often the mail of a task went out
    excused,      \* history: how often it may have gone out again
    dropped,      \* history: tasks whose process was killed
    mishaps

taskVars == <<queued, holds, has, does, completed, sent, excused, dropped, mishaps>>

TasksInit ==
    /\ queued = Tasks /\ holds = {} /\ completed = {} /\ dropped = {} /\ mishaps = 0
    /\ has = [w \in Workers |-> NoTask] /\ does = [w \in Workers |-> "waits"]
    /\ sent = [t \in Tasks |-> 0] /\ excused = [t \in Tasks |-> 0]

Steps(w, from, to) == does[w] = from /\ does' = [does EXCEPT ![w] = to]
Excuses(t) == excused' = [excused EXCEPT ![t] = @ + 1]
OneMishap == mishaps < MaxMishaps /\ mishaps' = mishaps + 1

\* One at a time: worker_prefetch_multiplier is 1
TakeTask(w) ==
    /\ Steps(w, "waits", "looks")
    /\ \E t \in queued :
         /\ has' = [has EXCEPT ![w] = t]
         /\ queued' = queued \ {t} /\ holds' = holds \cup {w}
    /\ UNCHANGED <<completed, sent, excused, dropped, mishaps>>

\* should_skip_completed; when Redis does not answer the mail goes out
SkipOrSend(w) ==
    /\ Steps(w, "looks", IF has[w] \in completed THEN "ends" ELSE "sends")
    /\ UNCHANGED <<queued, holds, has, completed, sent, excused, dropped, mishaps>>

LookFails(w) ==
    /\ Steps(w, "looks", "sends")
    /\ OneMishap /\ Excuses(has[w])
    /\ UNCHANGED <<queued, holds, has, completed, sent, dropped>>

SendEmail(w) ==
    /\ Steps(w, "sends", "marks")
    /\ sent' = [sent EXCEPT ![has[w]] = @ + 1]
    /\ UNCHANGED <<queued, holds, has, completed, excused, dropped, mishaps>>

\* Faulty variant: the mark is lost.
MarkNothing(w) ==
    /\ Steps(w, "marks", "ends")
    /\ UNCHANGED <<queued, holds, has, completed, sent, excused, dropped, mishaps>>

\* mark_completed, whose error is only logged
MarkCompleted(w) ==
    /\ Steps(w, "marks", "ends")
    /\ \/ completed' = completed \cup {has[w]} /\ UNCHANGED <<mishaps, excused>>
       \/ OneMishap /\ Excuses(has[w]) /\ UNCHANGED completed
    /\ UNCHANGED <<queued, holds, has, sent, dropped>>

\* That of a delivery that was taken back does nothing
Acknowledge(w) ==
    /\ Steps(w, "ends", "waits")
    /\ has' = [has EXCEPT ![w] = NoTask] /\ holds' = holds \ {w}
    /\ UNCHANGED <<queued, completed, sent, excused, dropped, mishaps>>

\* The broker takes back what was not acknowledged; a mail its worker has yet to mark may
\* go out again
Requeued(w) ==
    /\ OneMishap /\ holds' = holds \ {w}
    /\ IF w \in holds THEN queued' = queued \cup {has[w]} ELSE UNCHANGED queued
    /\ IF w \in holds /\ does[w] # "ends" THEN Excuses(has[w]) ELSE UNCHANGED excused
    /\ UNCHANGED <<completed, sent, dropped>>

\* The connection is lost, and the worker goes on
TakenBack(w) == w \in holds /\ Requeued(w) /\ UNCHANGED <<has, does>>

Free(w) == has' = [has EXCEPT ![w] = NoTask] /\ does' = [does EXCEPT ![w] = "waits"]

WorkerDies(w) == has[w] # NoTask /\ Requeued(w) /\ Free(w)

\* task_reject_on_worker_lost is not set
ProcessKilled(w) ==
    /\ has[w] # NoTask /\ Free(w) /\ OneMishap
    /\ holds' = holds \ {w} /\ dropped' = dropped \cup {has[w]}
    /\ UNCHANGED <<queued, completed, sent, excused>>

TasksNext ==
    \E w \in Workers :
        \/ TakeTask(w) \/ SkipOrSend(w) \/ LookFails(w) \/ SendEmail(w)
        \/ MarkCompleted(w) \/ Acknowledge(w) \/ TakenBack(w) \/ WorkerDies(w)
        \/ ProcessKilled(w)

TasksSpec == TasksInit /\ [][TasksNext]_taskVars

(***************************************************************************)
(* Properties                                                              *)
(***************************************************************************)
TasksTypeOK ==
    /\ queued \subseteq Tasks /\ holds \subseteq {w \in Workers : has[w] # NoTask}
    /\ completed \subseteq Tasks /\ dropped \subseteq Tasks
    /\ has \in [Workers -> Tasks \cup {NoTask}]
    /\ does \in [Workers -> {"waits", "looks", "sends", "marks", "ends"}]
    /\ \A w \in Workers : (has[w] = NoTask) <=> (does[w] = "waits")
    /\ sent \in [Tasks -> Nat] /\ excused \in [Tasks -> Nat]
    /\ mishaps \in 0..MaxMishaps

\* A mail goes out again only for a delivery that was taken back before its worker came to
\* mark it, or when Redis did not answer.
RepeatedOnlyByMishap == \A t \in Tasks : sent[t] <= 1 + excused[t]

\* Unless a process was killed, a task whose mail did not go out is in the queue or with a
\* worker from which the broker will take it back.
NoEmailIsLost ==
    \A t \in Tasks \ dropped : t \in queued \/ sent[t] > 0 \/ \E w \in holds : has[w] = t

\* No mail is lost, and none repeated without a reason.
EmailsHold == TasksTypeOK /\ RepeatedOnlyByMishap /\ NoEmailIsLost
=============================================================================
