------------------------------- MODULE Orders -------------------------------
(***************************************************************************)
(* What sorting and cutting off at a limit make of a finite set.  An order *)
(* is the set of the pairs <<p, q>> of which p comes first.                *)
(***************************************************************************)
EXTENDS Integers, Sequences, FiniteSets

\* Of S, what comes before p
Ahead(S, R, p) == {q \in S : <<q, p>> \in R}

\* The elements of S in their order, each once
InOrder(S, R) ==
    [i \in 1..Cardinality(S) |-> CHOOSE p \in S : Cardinality(Ahead(S, R, p)) = i - 1]

\* The first n of them, or all when there are fewer, as a set and in their order
First(S, R, n) == {p \in S : Cardinality(Ahead(S, R, p)) < n}
FirstInOrder(S, R, n) == InOrder(First(S, R, n), R)

Ascending == {t \in Int \X Int : t[1] < t[2]}

\* Of a list, what is at the places I, in the order of the list
Picked(s, I) == [k \in 1..Cardinality(I) |-> s[InOrder(I, Ascending)[k]]]

\* A list in order: what is in it twice stays there twice, and what the order does not
\* tell apart stays as it stands
Standing(s, R) ==
    {t \in (DOMAIN s) \X (DOMAIN s) :
        \/ <<s[t[1]], s[t[2]]>> \in R
        \/ <<s[t[2]], s[t[1]]>> \notin R /\ t[1] < t[2]}
Sorted(s, R) == [k \in 1..Len(s) |-> s[InOrder(DOMAIN s, Standing(s, R))[k]]]
=============================================================================
