------------------------------ MODULE MCLearner ------------------------------
(***************************************************************************)
(* Finite instances of what a learner meets: Completion, the assistant and *)
(* its rate limiter, notifications and e-mails.  They share no state: the  *)
(* first state picks the part that a behaviour is about.                   *)
(***************************************************************************)
EXTENDS MCCompletion, Assistant, RateLimiter, Notifications, EmailTasks

VARIABLE part

AskOf(m, r, s, q) == [mode |-> m, role |-> r, scope |-> s, question |-> q]
SomeAsks == {AskOf("graph", "student", "course", "why"), AskOf("stream", "student", "course", "how"),
             AskOf("stream", "instructor", "asset", "how"), AskOf("graph", "instructor", "module", "why")}

\* Nothing, too little, something ambiguous that fills the prompt, an oversized chunk
Chunk(hundredths, text) == [score |-> hundredths, header |-> 1, text |-> text]
SomeChunks == {<<>>, <<Chunk(8, 2)>>,
               <<Chunk(60, 2), Chunk(55, 3), Chunk(50, 1)>>,
               <<Chunk(80, 9), Chunk(40, 3)>>}

Only(this, vs) == part = this /\ UNCHANGED <<part, vs>>

\* The student is enrolled at first, and may leave
LearnerInit ==
    /\ part \in {"completion", "assistant", "limiter", "notices", "emails"}
    /\ Init /\ AssistantInit /\ LimiterInit /\ NoticesInit /\ TasksInit
    /\ enrolled

LearnerNext ==
    \/ Next /\ Only("completion", <<assistantVars, limiterVars, noticeVars, taskVars>>)
    \/ AssistantNext
       /\ Only("assistant", <<completionVars, limiterVars, noticeVars, taskVars>>)
    \/ LimiterNext
       /\ Only("limiter", <<completionVars, assistantVars, noticeVars, taskVars>>)
    \/ NoticesNext
       /\ Only("notices", <<completionVars, assistantVars, limiterVars, taskVars>>)
    \/ TasksNext
       /\ Only("emails", <<completionVars, assistantVars, limiterVars, noticeVars>>)

LearnerSpec ==
    /\ LearnerInit
    /\ [][LearnerNext]_<<part, completionVars, assistantVars, limiterVars, noticeVars, taskVars>>
=============================================================================
