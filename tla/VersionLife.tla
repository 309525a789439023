----------------------------- MODULE VersionLife -----------------------------
(***************************************************************************)
(* What the publishing service promises about the versions of one course,  *)
(* with no runs, attempts, requests or transactions: one version at most   *)
(* is in flight; only what was approved and indexed becomes ready, only    *)
(* what was approved becomes the current version; what is announced was    *)
(* made current before; and the vectors of a version that is ready stay.   *)
(***************************************************************************)
EXTENDS Naturals

CONSTANTS
  Versions,
  NoVersion  \* current of a course never activated

VARIABLES
  place,     \* where each version is: out, in flight, ready, superseded
  approved,  \* versions that were approved
  points,    \* versions with vectors
  current,   \* the version that students are given
  served,    \* versions that were current at some time
  announced  \* announced[v]: how often CoursePublished was written for v

lifeVars == <<place, approved, points, current, served, announced>>

Init ==
  /\ place = [v \in Versions |-> "out"]
  /\ approved = {}
  /\ points = {}
  /\ current = NoVersion
  /\ served = {}
  /\ announced = [v \in Versions |-> 0]

\* A version is created, tried again, or goes back to review.
Begin(v) ==
  /\ \A u \in Versions \ {v} : place[u] # "flight"
  /\ place' = [place EXCEPT ![v] = "flight"]
  /\ UNCHANGED <<approved, points, current, served, announced>>

Approve(v) ==
  /\ approved' = approved \cup {v}
  /\ UNCHANGED <<place, points, current, served, announced>>

Index(v) ==
  /\ points' = points \cup {v}
  /\ UNCHANGED <<place, approved, current, served, announced>>

Unindex(v) ==
  /\ place[v] # "ready"
  /\ points' = points \ {v}
  /\ UNCHANGED <<place, approved, current, served, announced>>

\* Students get the version from now on.
Serve(v) ==
  /\ v \in approved
  /\ current' = v
  /\ served' = served \cup {v}
  /\ UNCHANGED <<place, approved, points, announced>>

\* A version is ready, though it could not be activated.
Finish(v) ==
  /\ v \in approved \cap points
  /\ place' = [place EXCEPT ![v] = "ready"]
  /\ UNCHANGED <<approved, points, current, served, announced>>

\* Versions that are superseded were approved once.
Publish(v, previous) ==
  /\ v \in approved \cap points \cap served
  /\ previous \subseteq approved \ {v}
  /\ place' = [u \in Versions |->
                 IF u = v THEN "ready" ELSE IF u \in previous THEN "superseded" ELSE place[u]]
  /\ announced' = [announced EXCEPT ![v] = @ + 1]
  /\ UNCHANGED <<approved, points, current, served>>

\* Another version is activated by hand.
Supersede(previous) ==
  /\ previous \subseteq approved
  /\ place' = [u \in Versions |-> IF u \in previous THEN "superseded" ELSE place[u]]
  /\ UNCHANGED <<approved, points, current, served, announced>>

\* Rejected, cancelled or failed, at any time.
Drop(v) ==
  /\ place' = [place EXCEPT ![v] = "out"]
  /\ UNCHANGED <<approved, points, current, served, announced>>

Next ==
  \/ \E v \in Versions :
       \/ Begin(v) \/ Approve(v) \/ Index(v) \/ Unindex(v)
       \/ Serve(v) \/ Finish(v) \/ Drop(v)
       \/ \E previous \in SUBSET Versions : Publish(v, previous)
  \/ \E previous \in SUBSET Versions : Supersede(previous)

Spec == Init /\ [][Next]_lifeVars
=============================================================================
