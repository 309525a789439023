---------------------------- MODULE ContentProofs ----------------------------
(***************************************************************************)
(* Theorems about ContentPipeline for all documents, lengths, limits and   *)
(* numbers of attempts, and about Retrieval for any chunks of any          *)
(* versions, all limits and every change of the index.                     *)
(***************************************************************************)
EXTENDS ContentPipeline, Retrieval, FiniteSetTheorems, TLAPS

(***************************************************************************)
(* What sorting and cutting off make of a finite set in order.             *)
(***************************************************************************)
\* R orders S: of two elements one comes first, and of three they agree.
Orders(R, S) ==
    /\ \A p \in S : <<p, p>> \notin R
    /\ \A p, q, r \in S : <<p, q>> \in R /\ <<q, r>> \in R => <<p, r>> \in R
    /\ \A p, q \in S : p = q \/ <<p, q>> \in R \/ <<q, p>> \in R

\* An order of a set is one of each part of it.
LEMMA OrdersPart ==
  ASSUME NEW S, NEW R, Orders(R, S), NEW T \in SUBSET S
  PROVE  Orders(R, T)
BY DEF Orders

\* What comes before p is fewer than all, and fewer than what comes before a later q.
LEMMA AheadGrows ==
  ASSUME NEW S, IsFiniteSet(S), NEW R, Orders(R, S)
  PROVE  /\ \A p \in S : Cardinality(Ahead(S, R, p)) \in 0..Cardinality(S) - 1
         /\ \A p, q \in S : <<p, q>> \in R =>
              Cardinality(Ahead(S, R, p)) < Cardinality(Ahead(S, R, q))
<1>1. \A p \in S : IsFiniteSet(Ahead(S, R, p)) /\ Cardinality(Ahead(S, R, p)) \in Nat
  BY FS_Subset, FS_CardinalityType DEF Ahead
<1>2. ASSUME NEW p \in S
      PROVE  Cardinality(Ahead(S, R, p)) \in 0..Cardinality(S) - 1
  <2>1. Ahead(S, R, p) \in SUBSET S /\ Ahead(S, R, p) # S
    BY DEF Ahead, Orders
  <2>2. Cardinality(Ahead(S, R, p)) <= Cardinality(S) /\ Cardinality(S) # Cardinality(Ahead(S, R, p))
    BY <2>1, FS_Subset
  <2> QED
    BY <1>1, <2>2, FS_CardinalityType
<1>3. ASSUME NEW p \in S, NEW q \in S, <<p, q>> \in R
      PROVE  Cardinality(Ahead(S, R, p)) < Cardinality(Ahead(S, R, q))
  <2>1. Ahead(S, R, p) \in SUBSET Ahead(S, R, q) /\ Ahead(S, R, p) # Ahead(S, R, q)
    BY <1>3 DEF Ahead, Orders
  <2>2. /\ Cardinality(Ahead(S, R, p)) <= Cardinality(Ahead(S, R, q))
        /\ Cardinality(Ahead(S, R, q)) # Cardinality(Ahead(S, R, p))
    BY <1>1, <2>1, FS_Subset
  <2> QED
    BY <1>1, <2>2
<1> QED
  BY <1>2, <1>3

\* Each place has an element, and one only.
LEMMA PlacesAreTaken ==
  ASSUME NEW S, IsFiniteSet(S), NEW R, Orders(R, S)
  PROVE  \A i \in 1..Cardinality(S) : \E p \in S : Cardinality(Ahead(S, R, p)) = i - 1
<1> DEFINE n == Cardinality(S)
           place == [p \in S |-> Cardinality(Ahead(S, R, p)) + 1]
<1>0. n \in Nat
  BY FS_CardinalityType
<1>1. \A p \in S : place[p] \in 1..n
  BY <1>0, AheadGrows
<1>2. \A p, q \in S : place[p] = place[q] => p = q
  <2> SUFFICES ASSUME NEW p \in S, NEW q \in S, p # q PROVE place[p] # place[q]
    OBVIOUS
  <2>1. <<p, q>> \in R \/ <<q, p>> \in R
    BY DEF Orders
  <2> QED
    BY <2>1, <1>0, AheadGrows
<1>3. place \in Injection(S, 1..n)
  BY <1>1, <1>2 DEF Injection, IsInjective
<1>4. IsFiniteSet(1..n) /\ Cardinality(1..n) = n
  BY <1>0, FS_Interval
<1>5. place \in Surjection(S, 1..n)
  BY <1>3, <1>4, FS_Injection
<1>6. \A i \in 1..n : \E p \in S : place[p] = i
  BY <1>5 DEF Surjection
<1> QED
  BY <1>6, <1>0, AheadGrows

\* InOrder lists each element once, in its order, at the place that those ahead of it leave.
LEMMA InOrderLists ==
  ASSUME NEW S, IsFiniteSet(S), NEW R, Orders(R, S)
  PROVE  /\ InOrder(S, R) \in Seq(S)
         /\ Len(InOrder(S, R)) = Cardinality(S) /\ Cardinality(S) \in Nat
         /\ DOMAIN InOrder(S, R) = 1..Cardinality(S)
         /\ \A i \in 1..Cardinality(S) :
              InOrder(S, R)[i] \in S /\ Cardinality(Ahead(S, R, InOrder(S, R)[i])) = i - 1
         /\ \A p \in S : \E i \in 1..Cardinality(S) : InOrder(S, R)[i] = p
         /\ \A i, j \in 1..Cardinality(S) :
              i < j => <<InOrder(S, R)[i], InOrder(S, R)[j]>> \in R
         /\ \A i, j \in 1..Cardinality(S) : InOrder(S, R)[i] = InOrder(S, R)[j] => i = j
<1> DEFINE n == Cardinality(S)
           list == InOrder(S, R)
<1>0. n \in Nat
  BY FS_CardinalityType
<1>1. \A i \in 1..n : list[i] \in S /\ Cardinality(Ahead(S, R, list[i])) = i - 1
  BY PlacesAreTaken DEF InOrder
<1>2. list = [i \in 1..n |-> list[i]] /\ DOMAIN list = 1..n
  BY DEF InOrder
<1>3. list \in Seq(S) /\ Len(list) = n
  BY <1>0, <1>1, <1>2
<1>4. ASSUME NEW p \in S
      PROVE  \E i \in 1..n : list[i] = p
  <2>1. PICK i \in 1..n : Cardinality(Ahead(S, R, p)) = i - 1
    BY <1>0, AheadGrows
  <2>2. list[i] \in S /\ Cardinality(Ahead(S, R, list[i])) = i - 1
    BY <1>1
  <2>3. <<p, list[i]>> \notin R /\ <<list[i], p>> \notin R
    BY <2>1, <2>2, AheadGrows
  <2>4. list[i] = p
    BY <2>2, <2>3 DEF Orders
  <2> QED
    BY <2>4
<1>5. ASSUME NEW i \in 1..n, NEW j \in 1..n, i < j
      PROVE  <<list[i], list[j]>> \in R
  <2>1. /\ list[i] \in S /\ Cardinality(Ahead(S, R, list[i])) = i - 1
        /\ list[j] \in S /\ Cardinality(Ahead(S, R, list[j])) = j - 1
    BY <1>1
  <2>2. list[i] # list[j] /\ <<list[j], list[i]>> \notin R
    BY <2>1, <1>0, <1>5, AheadGrows
  <2> QED
    BY <2>1, <2>2 DEF Orders
<1>6. \A i, j \in 1..n : list[i] = list[j] => i = j
  BY <1>0, <1>1
<1> QED
  BY <1>0, <1>1, <1>2, <1>3, <1>4, <1>5, <1>6

\* The first n are n, or all, and nothing that is left comes before one of them.
LEMMA FirstCuts ==
  ASSUME NEW S, IsFiniteSet(S), NEW R, Orders(R, S), NEW n \in Nat
  PROVE  /\ First(S, R, n) \in SUBSET S /\ IsFiniteSet(First(S, R, n))
         /\ Cardinality(First(S, R, n)) = IF Cardinality(S) < n THEN Cardinality(S) ELSE n
         /\ \A p \in First(S, R, n), q \in S \ First(S, R, n) : <<p, q>> \in R
<1> DEFINE F == First(S, R, n)
           m == IF Cardinality(S) < n THEN Cardinality(S) ELSE n
           list == [i \in 1..m |-> InOrder(S, R)[i]]
<1>0. Cardinality(S) \in Nat /\ m \in Nat /\ m <= Cardinality(S)
  BY FS_CardinalityType
<1>1. F \in SUBSET S /\ IsFiniteSet(F)
  BY FS_Subset DEF First
<1>2. \A i \in 1..m : list[i] \in F
  BY <1>0, InOrderLists DEF First
<1>3. \A p \in F : \E i \in 1..m : list[i] = p
  <2> SUFFICES ASSUME NEW p \in F PROVE \E i \in 1..m : list[i] = p
    OBVIOUS
  <2>1. p \in S /\ Cardinality(Ahead(S, R, p)) < n /\ Cardinality(Ahead(S, R, p)) \in 0..Cardinality(S) - 1
    BY AheadGrows DEF First
  <2>2. PICK i \in 1..Cardinality(S) : InOrder(S, R)[i] = p
    BY <2>1, InOrderLists
  <2>3. Cardinality(Ahead(S, R, p)) = i - 1
    BY <2>2, InOrderLists
  <2>4. i \in 1..m
    BY <2>1, <2>3, <1>0
  <2> QED
    BY <2>2, <2>4
<1>4. \A i, j \in 1..m : list[i] = list[j] => i = j
  BY <1>0, InOrderLists
<1>5. list \in Bijection(1..m, F)
  BY <1>2, <1>3, <1>4 DEF Bijection, Injection, Surjection, IsInjective
<1>6. Cardinality(F) = m
  BY <1>0, <1>5, FS_CountingElements DEF ExistsBijection
<1>7. ASSUME NEW p \in F, NEW q \in S \ F PROVE <<p, q>> \in R
  <2>1. Cardinality(Ahead(S, R, p)) < n /\ ~(Cardinality(Ahead(S, R, q)) < n) /\ p \in S
    BY DEF First
  <2>2. p # q /\ <<q, p>> \notin R
    BY <2>1, AheadGrows
  <2> QED
    BY <2>1, <2>2 DEF Orders
<1> QED
  BY <1>1, <1>6, <1>7

\* Integers are in order.
LEMMA AscendingOrders ==
  ASSUME NEW S \in SUBSET Int
  PROVE  Orders(Ascending, S)
BY DEF Orders, Ascending

\* A list without repetitions is sorted into one with the same elements, in their order.
LEMMA SortedLists ==
  ASSUME NEW S, NEW s \in Seq(S), NEW R, Orders(R, S), IsInjective(s)
  PROVE  /\ Sorted(s, R) \in Seq(S) /\ Len(Sorted(s, R)) = Len(s)
         /\ DOMAIN Sorted(s, R) = 1..Len(s)
         /\ \A i \in 1..Len(s) : \E k \in 1..Len(s) : Sorted(s, R)[k] = s[i]
         /\ \A k \in 1..Len(s) : \E i \in 1..Len(s) : Sorted(s, R)[k] = s[i]
         /\ \A i, j \in 1..Len(s) : i < j => <<Sorted(s, R)[i], Sorted(s, R)[j]>> \in R
<1> DEFINE D == DOMAIN s
           B == Standing(s, R)
           at == InOrder(D, B)
           n == Len(s)
<1>0. n \in Nat /\ D = 1..n
  OBVIOUS
<1>7. IsFiniteSet(1..n) /\ Cardinality(1..n) = n
  BY <1>0, FS_Interval, 1 \in Int, n \in Int
<1>8. IsFiniteSet(D) /\ Cardinality(D) = n
  BY <1>0, <1>7
<1>1. \A i \in D : s[i] \in S
  OBVIOUS
<1>3. \A i, j \in D : i # j => s[i] # s[j]
  BY DEF IsInjective
<1>2. ASSUME NEW i \in D, NEW j \in D
      PROVE  <<i, j>> \in B <=> <<s[i], s[j]>> \in R
  <2>1. <<i, j>> \in B <=> <<s[i], s[j]>> \in R \/ (<<s[j], s[i]>> \notin R /\ i < j)
    BY DEF Standing
  <2>2. <<s[i], s[j]>> \in R => <<s[j], s[i]>> \notin R
    BY <1>1 DEF Orders
  <2>3. i < j => <<s[i], s[j]>> \in R \/ <<s[j], s[i]>> \in R
    BY <1>0, <1>1, <1>3 DEF Orders
  <2> QED
    BY <2>1, <2>2, <2>3
<1>4. Orders(B, D)
  <2> HIDE DEF B, D
  <2> QED
    BY <1>1, <1>2, <1>3 DEF Orders
<1>5. /\ \A i \in 1..n : at[i] \in D
      /\ \A p \in D : \E i \in 1..n : at[i] = p
      /\ \A i, j \in 1..n : i < j => <<at[i], at[j]>> \in B
  <2> HIDE DEF D, B
  <2> QED
    BY <1>8, <1>4, InOrderLists
<1>6. Sorted(s, R) = [k \in 1..n |-> s[at[k]]]
  BY DEF Sorted
<1>9. \A k \in 1..n : Sorted(s, R)[k] = s[at[k]]
  BY <1>6
<1>10. Sorted(s, R) \in Seq(S) /\ Len(Sorted(s, R)) = n /\ DOMAIN Sorted(s, R) = 1..n
  <2> HIDE DEF at, B
  <2> QED
    BY <1>0, <1>1, <1>5, <1>6
<1>11. \A i \in 1..n : \E k \in 1..n : Sorted(s, R)[k] = s[i]
  <2> HIDE DEF at
  <2> QED
    BY <1>0, <1>5, <1>9
<1>12. \A k \in 1..n : \E i \in 1..n : Sorted(s, R)[k] = s[i]
  <2> HIDE DEF at
  <2> QED
    BY <1>0, <1>5, <1>9
<1>13. \A i, j \in 1..n : i < j => <<s[at[i]], s[at[j]]>> \in R
  <2> HIDE DEF at, B
  <2> QED
    BY <1>0, <1>2, <1>5
<1>14. \A i, j \in 1..n : i < j => <<Sorted(s, R)[i], Sorted(s, R)[j]>> \in R
  BY <1>9, <1>13
<1> QED
  BY <1>10, <1>11, <1>12, <1>14

(***************************************************************************)
(* Retrieval: what a call holds while the index changes under it.          *)
(***************************************************************************)
\* What a call holds, by its step.
AskingOK ==
    /\ asking \in [kind : CallKinds, meaning : Meanings \cup {<<>>},
                   step : {"new", "embedding", "scrolling", "ranking", "answered", "failed"},
                   version : Versions \cup {0}, nearest : SUBSET Points, found : Seq(Points),
                   offset : Nat, match : UNION {[D -> MatchLevels] : D \in SUBSET Points},
                   chunks : Seq(Points)]
    /\ asking.step # "new" => asking.meaning \in Meanings
    /\ asking.step \in {"new", "embedding"} =>
         asking.nearest = {} /\ asking.found = <<>> /\ asking.offset = 0
    /\ asking.step = "embedding" => asking.kind # "scan"
    /\ asking.step = "scrolling" => asking.kind # "search"
    /\ asking.step = "ranking" => asking.kind = "question"

\* Between its steps a call has found, of what it scrolled over, all that was there all along.
PagesSoFar ==
    /\ Len(asking.found) < ScrollLimit
    /\ \A i, j \in DOMAIN asking.found : i < j => asking.found[i] < asking.found[j]
    /\ \A i \in DOMAIN asking.found : asking.found[i] \in everIn /\ asking.found[i] < asking.offset
    /\ \A p \in lasting : p < asking.offset => \E i \in DOMAIN asking.found : asking.found[i] = p

AllPages ==
    /\ \A i \in DOMAIN asking.found : asking.found[i] \in everIn
    /\ Cardinality(everIn) <= CandidatePool =>
         \A p \in lasting : \E i \in DOMAIN asking.found : asking.found[i] = p

\* What was there all along and is not among the nearest was kept out by as many as were
\* asked for, all of them nearer.
NearestSoFar ==
    /\ asking.nearest \subseteq everIn
    /\ \A p \in lasting \ asking.nearest :
         /\ Cardinality(asking.nearest) = NearestLimit
         /\ \A q \in asking.nearest : asking.meaning.near[q] >= asking.meaning.near[p]

RetrievalInv ==
    /\ RetrievalTypeOK
    /\ AskingOK
    /\ lasting \subseteq Hits /\ Hits \subseteq everIn
    /\ asking.step = "scrolling" => PagesSoFar
    /\ asking.step = "ranking" => AllPages
    /\ asking.kind = "question" /\ asking.step \in {"scrolling", "ranking"} => NearestSoFar
    /\ AnswersAreOfTheirVersion
    /\ ScansAreComplete
    /\ BestIsNotLost

\* A page is the least n ids in ascending order; the next one begins with the first id that
\* it leaves out, if there is one.
LEMMA PageAndNext ==
  ASSUME NEW S \in SUBSET Nat, IsFiniteSet(S), NEW n \in Nat \ {0}
  PROVE  /\ OnePage(S, n) \in Seq(S) /\ Len(OnePage(S, n)) <= n
         /\ \A i, j \in DOMAIN OnePage(S, n) : i < j => OnePage(S, n)[i] < OnePage(S, n)[j]
         /\ NextOffset(S, n) \in Nat
         /\ NextOffset(S, n) = 0 =>
              \A p \in S : \E i \in DOMAIN OnePage(S, n) : OnePage(S, n)[i] = p
         /\ NextOffset(S, n) # 0 =>
              /\ NextOffset(S, n) \in S
              /\ \A i \in DOMAIN OnePage(S, n) : OnePage(S, n)[i] < NextOffset(S, n)
              /\ \A p \in S : p < NextOffset(S, n) =>
                   \E i \in DOMAIN OnePage(S, n) : OnePage(S, n)[i] = p
<1> DEFINE R == Ascending
           page == OnePage(S, n)
           L == First(S, R, n)
           M == First(S, R, n + 1)
           next == CHOOSE p \in M : p \notin L
<1>0. Cardinality(S) \in Nat /\ n \in Nat /\ n + 1 \in Nat /\ n > 0
  BY FS_CardinalityType
<1>1. Orders(R, S) /\ \A p, q \in S : <<p, q>> \in R <=> p < q
  BY AscendingOrders DEF Ascending
<1>2. /\ L \in SUBSET S /\ IsFiniteSet(L)
      /\ Cardinality(L) = IF Cardinality(S) < n THEN Cardinality(S) ELSE n
      /\ \A p \in L, q \in S \ L : <<p, q>> \in R
  BY <1>0, <1>1, FirstCuts
<1>3. /\ M \in SUBSET S /\ IsFiniteSet(M)
      /\ Cardinality(M) = IF Cardinality(S) < n + 1 THEN Cardinality(S) ELSE n + 1
  BY <1>0, <1>1, FirstCuts
<1>4. Orders(R, L)
  BY <1>1, <1>2, OrdersPart
<1>5. /\ page \in Seq(L) /\ Len(page) = Cardinality(L) /\ DOMAIN page = 1..Cardinality(L)
      /\ \A p \in L : \E i \in DOMAIN page : page[i] = p
      /\ \A i, j \in DOMAIN page : i < j => <<page[i], page[j]>> \in R
      /\ \A i \in DOMAIN page : page[i] \in L
  <2> HIDE DEF L, R
  <2>1. page = InOrder(L, R)
    BY DEF OnePage, FirstInOrder, L, R
  <2>3. IsFiniteSet(L) /\ Orders(R, L)
    BY <1>2, <1>4
  <2>2. /\ page \in Seq(L) /\ Len(page) = Cardinality(L) /\ DOMAIN page = 1..Cardinality(L)
        /\ \A i \in 1..Cardinality(L) : page[i] \in L
        /\ \A p \in L : \E i \in 1..Cardinality(L) : page[i] = p
        /\ \A i, j \in 1..Cardinality(L) : i < j => <<page[i], page[j]>> \in R
    BY <2>1, <2>3, InOrderLists
  <2> HIDE DEF page
  <2> QED
    BY <2>2
<1>6. page \in Seq(S) /\ Len(page) <= n
  BY <1>0, <1>2, <1>5
<1>7. \A i, j \in DOMAIN page : i < j => page[i] < page[j]
  BY <1>1, <1>2, <1>5
<1>8. CASE ~(Cardinality(S) > n)
  <2>1. NextOffset(S, n) = 0
    BY <1>8 DEF NextOffset
  <2>2. Cardinality(L) = Cardinality(S)
    BY <1>0, <1>2, <1>8
  <2>3. L = S
    BY <1>2, <2>2, FS_Subset
  <2> QED
    BY <1>5, <1>6, <1>7, <2>1, <2>3
<1>9. CASE Cardinality(S) > n
  <2>1. NextOffset(S, n) = next
    BY <1>9 DEF NextOffset, Least
  <2>2. Cardinality(L) = n /\ Cardinality(M) = n + 1
    BY <1>0, <1>2, <1>3, <1>9
  <2>3. ~(M \subseteq L)
    BY <1>0, <1>2, <2>2, FS_Subset
  <2>4. next \in M /\ next \notin L
    BY <2>3
  <2>5. next \in S /\ Cardinality(Ahead(S, R, next)) < n + 1
    BY <2>4 DEF First
  <2>6. \A p \in L : p < next
    BY <1>1, <1>2, <2>4, <2>5
  <2>7. ASSUME NEW p \in S, p < next PROVE p \in L
    <3>1. Cardinality(Ahead(S, R, p)) < Cardinality(Ahead(S, R, next))
      BY <1>1, <2>5, <2>7, AheadGrows
    <3>2. Cardinality(Ahead(S, R, p)) \in Nat /\ Cardinality(Ahead(S, R, next)) \in Nat
      BY <1>0, <1>1, <2>5, AheadGrows
    <3> QED
      BY <1>0, <2>5, <3>1, <3>2 DEF First
  <2>8. page # <<>>
    BY <1>0, <1>5, <2>2
  <2>9. next \in Nat
    BY <2>5
  <2>10. PICK q \in L : TRUE
    BY <1>0, <2>2, FS_EmptySet
  <2>14. q \in Nat /\ q < next
    BY <1>2, <2>6, <2>10
  <2> HIDE DEF next, L
  <2>11. next # 0
    BY <2>9, <2>14
  <2>12. \A p \in S : p < next => \E i \in DOMAIN page : page[i] = p
    BY <1>5, <2>7
  <2>13. \A i \in DOMAIN page : page[i] < next
    BY <1>5, <2>6
  <2> QED
    BY <1>6, <1>7, <2>1, <2>5, <2>9, <2>11, <2>12, <2>13
<1> QED
  BY <1>8, <1>9

\* Of one version no two points have one place, so the text's order is an order.
LEMMA TextOrders ==
  ASSUME NEW v, NEW S \in SUBSET OfVersion(v)
  PROVE  Orders(ReadsBefore, S)
BY RetrievalAssumption DEF Orders, ReadsBefore, OfVersion

\* Scores are numbers.
LEMMA HybridIsNat ==
  ASSUME asking.meaning \in Meanings, NEW p \in Points, NEW N,
         NEW match \in UNION {[D -> MatchLevels] : D \in SUBSET Points}
  PROVE  Hybrid(p, N, match) \in Nat
<1>1. asking.meaning.near[p] \in 0..100
  BY RetrievalAssumption
<1>0. PICK D \in SUBSET Points : match \in [D -> MatchLevels]
  OBVIOUS
<1>2. p \in DOMAIN match => match[p] \in 1..99
  BY <1>0, RetrievalAssumption
<1>3. (IF p \in N THEN 65 * asking.meaning.near[p] ELSE 0) \in Nat
  BY <1>1
<1>4. (IF p \in DOMAIN match THEN 35 * match[p] ELSE 0) \in Nat
  BY <1>2
<1> QED
  BY <1>3, <1>4 DEF Hybrid

\* So is the order by score, then text.
LEMMA BetterOrders ==
  ASSUME asking.meaning \in Meanings, NEW v, NEW S \in SUBSET OfVersion(v), NEW N,
         NEW match \in UNION {[D -> MatchLevels] : D \in SUBSET Points}
  PROVE  Orders(Better(N, match), S)
<1> DEFINE H(p) == Hybrid(p, N, match)
<1>1. S \subseteq Points
  BY DEF OfVersion
<1>2. \A p \in S : H(p) \in Nat
  BY <1>1, HybridIsNat
<1>3. \A p, q \in S : <<p, q>> \in Better(N, match) <=>
        H(p) > H(q) \/ (H(p) = H(q) /\ <<p, q>> \in ReadsBefore)
  BY <1>1 DEF Better
<1>4. Orders(ReadsBefore, S)
  BY TextOrders
<1> HIDE DEF H
<1> QED
  BY <1>2, <1>3, <1>4 DEF Orders

\* And the order by distance, then id.
LEMMA NearerOrders ==
  ASSUME asking.meaning \in Meanings, NEW S \in SUBSET Points
  PROVE  Orders(Nearer, S)
<1>1. \A p \in S : p \in Nat /\ asking.meaning.near[p] \in Nat
  BY RetrievalAssumption
<1>2. \A p, q \in S : <<p, q>> \in Nearer <=>
        \/ asking.meaning.near[p] > asking.meaning.near[q]
        \/ (asking.meaning.near[p] = asking.meaning.near[q] /\ p < q)
  BY DEF Nearer
<1> QED
  BY <1>1, <1>2 DEF Orders

\* The first call finds nothing begun.
LEMMA InitRetrieval == RetrievalInit => RetrievalInv
<1> SUFFICES ASSUME RetrievalInit PROVE RetrievalInv
  OBVIOUS
<1>1. OfVersion(0) = {}
  BY RetrievalAssumption DEF OfVersion
<1>2. MaxRewrites \in Nat
  BY RetrievalAssumption
<1>3. <<>> \in [{} -> MatchLevels]
  OBVIOUS
<1>6. <<>> \in UNION {[D -> MatchLevels] : D \in SUBSET Points} /\ <<>> \in Seq(Points)
  <2>1. {} \in SUBSET Points
    OBVIOUS
  <2> QED
    BY <1>3, <2>1
<1>4. RetrievalTypeOK
  BY <1>1, <1>2 DEF RetrievalInit, RetrievalTypeOK, Versions, CallKinds
<1>5. AskingOK
  BY <1>6 DEF RetrievalInit, AskingOK, Versions, CallKinds
<1> QED
  BY <1>1, <1>4, <1>5 DEF RetrievalInit, RetrievalInv, Hits, AnswersAreOfTheirVersion,
     ScansAreComplete, BestIsNotLost, HasAnswer

\* A call that begins has what its version has now.
LEMMA BeginKeeps ==
  ASSUME RetrievalInv, BeginRetrieval
  PROVE  RetrievalInv'
<1>1. PICK k \in CallKinds, m \in Meanings :
        asking' = [asking EXCEPT !.kind = k, !.meaning = m, !.version = live,
                                 !.step = IF k = "scan" THEN "scrolling" ELSE "embedding"]
  BY DEF BeginRetrieval
<1>2. /\ asking'.kind = k /\ asking'.meaning = m /\ asking'.version = live
      /\ asking'.step = IF k = "scan" THEN "scrolling" ELSE "embedding"
      /\ asking'.nearest = {} /\ asking'.found = <<>> /\ asking'.offset = 0
      /\ UNCHANGED <<indexed, live, rewrites>> /\ asking.step = "new"
  BY <1>1 DEF BeginRetrieval, RetrievalInv, AskingOK
<1>3. lasting' = Hits' /\ everIn' = Hits' /\ Hits' \subseteq OfVersion(live)
  BY <1>2 DEF BeginRetrieval, Hits, OfVersion
<1>4. RetrievalTypeOK'
  BY <1>2, <1>3 DEF RetrievalInv, RetrievalTypeOK, OfVersion
<1>5. AskingOK'
  BY <1>1, <1>2 DEF RetrievalInv, RetrievalTypeOK, AskingOK, CallKinds
<1>6. PagesSoFar'
  <2>1. \A p \in lasting' : p \in Nat
    BY <1>3, RetrievalAssumption DEF OfVersion
  <2>2. ScrollLimit' \in Nat \ {0}
    BY RetrievalAssumption DEF ScrollLimit
  <2> QED
    BY <1>2, <2>1, <2>2 DEF PagesSoFar
<1> QED
  BY <1>2, <1>3, <1>4, <1>5, <1>6 DEF RetrievalInv, CallKinds, AnswersAreOfTheirVersion,
     ScansAreComplete, BestIsNotLost, HasAnswer

\* A call that fails has no answer.
LEMMA FailKeeps ==
  ASSUME RetrievalInv, RetrievalFails
  PROVE  RetrievalInv'
<1>1. /\ asking' = [asking EXCEPT !.step = "failed"]
      /\ UNCHANGED <<indexed, live, rewrites, lasting, everIn>>
      /\ asking.step # "new"
  BY DEF RetrievalFails, Undisturbed
<1>2. AskingOK'
  BY <1>1 DEF RetrievalInv, AskingOK
<1>3. asking'.kind = asking.kind /\ asking'.version = asking.version
      /\ asking'.nearest = asking.nearest /\ asking'.found = asking.found /\ asking'.step = "failed"
  BY <1>1 DEF RetrievalInv, AskingOK
<1>4. RetrievalTypeOK' /\ (lasting \subseteq Hits /\ Hits \subseteq everIn)'
  BY <1>1, <1>3 DEF RetrievalInv, RetrievalTypeOK, OfVersion, Hits
<1> QED
  BY <1>2, <1>3, <1>4 DEF RetrievalInv, AnswersAreOfTheirVersion, ScansAreComplete,
     BestIsNotLost, HasAnswer

\* What is written or deleted meanwhile was not there all along.
LEMMA RewriteKeeps ==
  ASSUME RetrievalInv, NEW S \in SUBSET Points, Rewritten(S)
  PROVE  RetrievalInv'
<1>1. /\ rewrites' = rewrites + 1 /\ rewrites < MaxRewrites /\ indexed' = S /\ live' = live
      /\ asking' = asking /\ asking.step \notin {"answered", "failed"}
      /\ lasting' = lasting \cap S /\ everIn' = everIn \cup (S \cap OfVersion(asking.version))
  BY DEF Rewritten, InTime
<1>9. rewrites' \in 0..MaxRewrites
  BY <1>1, RetrievalAssumption DEF RetrievalInv, RetrievalTypeOK
<1>2. RetrievalTypeOK'
  BY <1>1, <1>9 DEF RetrievalInv, RetrievalTypeOK, OfVersion
<1>3. AskingOK'
  BY <1>1 DEF RetrievalInv, AskingOK
<1>4. (lasting \subseteq Hits /\ Hits \subseteq everIn)'
  BY <1>1 DEF RetrievalInv, Hits, OfVersion
<1>5. /\ Cardinality(everIn) \in Nat /\ Cardinality(everIn') \in Nat
      /\ Cardinality(everIn) <= Cardinality(everIn')
  <2>1. everIn' \subseteq Points /\ everIn \subseteq everIn'
    BY <1>1, <1>2 DEF RetrievalTypeOK, OfVersion
  <2>2. IsFiniteSet(everIn') /\ IsFiniteSet(everIn)
    BY <2>1, RetrievalAssumption, FS_Subset
  <2> QED
    BY <2>1, <2>2, FS_Subset, FS_CardinalityType
<1>6. asking.step = "scrolling" => PagesSoFar'
  BY <1>1 DEF RetrievalInv, PagesSoFar, ScrollLimit
<1>7. asking.step = "ranking" => AllPages'
  BY <1>1, <1>5, RetrievalAssumption DEF RetrievalInv, AllPages
<1>8. asking.kind = "question" /\ asking.step \in {"scrolling", "ranking"} => NearestSoFar'
  BY <1>1 DEF RetrievalInv, NearestSoFar
<1> QED
  BY <1>1, <1>2, <1>3, <1>4, <1>6, <1>7, <1>8 DEF RetrievalInv, AnswersAreOfTheirVersion,
     ScansAreComplete, BestIsNotLost, HasAnswer

\* Nor does it matter to the call which version is activated next.
LEMMA ActivateKeeps ==
  ASSUME RetrievalInv, ActivateOther
  PROVE  RetrievalInv'
<1>1. /\ rewrites' = rewrites + 1 /\ rewrites < MaxRewrites /\ live' \in Versions
      /\ asking.step # "answered" /\ UNCHANGED <<indexed, asking, lasting, everIn>>
  BY DEF ActivateOther, InTime
<1>2. RetrievalTypeOK'
  BY <1>1, RetrievalAssumption DEF RetrievalInv, RetrievalTypeOK, OfVersion
<1> QED
  BY <1>1, <1>2 DEF RetrievalInv, AskingOK, Hits, PagesSoFar, AllPages, NearestSoFar, ScrollLimit,
     AnswersAreOfTheirVersion, ScansAreComplete, BestIsNotLost, HasAnswer, OfVersion

\* The nearest of a set are as many as were asked for, or all of it.
LEMMA NearestAreChosen ==
  ASSUME NEW S, IsFiniteSet(S), NEW n \in Nat, NEW N \in NearestOf(S, n)
  PROVE  /\ N \subseteq S /\ IsFiniteSet(N) /\ Cardinality(N) \in Nat /\ Cardinality(N) <= n
         /\ \A p \in S \ N :
              /\ Cardinality(N) = n
              /\ \A q \in N : asking.meaning.near[q] >= asking.meaning.near[p]
<1>1. /\ N \in SUBSET S
      /\ Cardinality(N) = IF Cardinality(S) < n THEN Cardinality(S) ELSE n
      /\ \A q \in N, p \in S \ N : asking.meaning.near[q] >= asking.meaning.near[p]
  BY DEF NearestOf
<1>2. /\ IsFiniteSet(N) /\ Cardinality(N) \in Nat /\ Cardinality(S) \in Nat
      /\ (Cardinality(S) = Cardinality(N) => S = N)
  BY <1>1, FS_Subset, FS_CardinalityType
<1> QED
  BY <1>1, <1>2

\* What is in the index of the version, and what ever was, is finite and of that version.
LEMMA EverInIsFinite ==
  ASSUME RetrievalInv
  PROVE  /\ everIn \subseteq OfVersion(asking.version) /\ everIn \subseteq Points
         /\ IsFiniteSet(everIn) /\ Cardinality(everIn) \in Nat
         /\ IsFiniteSet(Hits) /\ Hits \subseteq everIn /\ lasting \subseteq Hits
<1>1. everIn \subseteq OfVersion(asking.version) /\ everIn \subseteq Points
  BY DEF RetrievalInv, RetrievalTypeOK, OfVersion
<1>2. IsFiniteSet(everIn)
  BY <1>1, RetrievalAssumption, FS_Subset
<1>3. Hits \subseteq everIn /\ lasting \subseteq Hits
  BY DEF RetrievalInv
<1> QED
  BY <1>1, <1>2, <1>3, FS_Subset, FS_CardinalityType

\* The vector of the question finds its nearest, or all of the version.
LEMMA NearestKeeps ==
  ASSUME RetrievalInv, QueryNearest
  PROVE  RetrievalInv'
<1>0. /\ asking.step = "embedding" /\ asking.meaning \in Meanings
      /\ asking.found = <<>> /\ asking.offset = 0
      /\ UNCHANGED <<indexed, live, rewrites, lasting, everIn>>
  BY DEF QueryNearest, Undisturbed, RetrievalInv, AskingOK
<1>a. {NearestLimit, SearchK, CandidatePool, FullScan} \subseteq Nat \ {0}
  BY RetrievalAssumption
<1>1. CASE asking.kind = "question"
  <2>1. PICK N \in NearestOf(Hits, NearestLimit) :
          asking' = [asking EXCEPT !.nearest = N, !.step = "scrolling"]
    BY <1>1 DEF QueryNearest
  <2>2. /\ N \subseteq Hits
        /\ \A p \in Hits \ N : /\ Cardinality(N) = NearestLimit
                               /\ \A q \in N : asking.meaning.near[q] >= asking.meaning.near[p]
    BY <1>a, EverInIsFinite, NearestAreChosen
  <2>3. /\ asking'.kind = "question" /\ asking'.step = "scrolling" /\ asking'.nearest = N
        /\ asking'.found = <<>> /\ asking'.offset = 0
        /\ asking'.meaning = asking.meaning /\ asking'.version = asking.version
    BY <2>1, <1>0, <1>1 DEF RetrievalInv, AskingOK
  <2>4. N \subseteq Points
    BY <2>2, EverInIsFinite
  <2>5. RetrievalTypeOK' /\ (lasting \subseteq Hits /\ Hits \subseteq everIn)'
    BY <1>0, <2>3, <2>4 DEF RetrievalInv, RetrievalTypeOK, OfVersion, Hits, CallKinds
  <2>6. AskingOK'
    BY <1>0, <1>1, <2>1, <2>3, <2>4 DEF RetrievalInv, AskingOK
  <2>7. PagesSoFar'
    <3>1. \A p \in lasting' : p \in Nat
      BY <1>0, EverInIsFinite, RetrievalAssumption
    <3> QED
      BY <1>a, <2>3, <3>1 DEF PagesSoFar, ScrollLimit
  <2>8. NearestSoFar'
    BY <1>0, <2>2, <2>3, EverInIsFinite DEF NearestSoFar
  <2> QED
    BY <2>3, <2>5, <2>6, <2>7, <2>8 DEF RetrievalInv, AnswersAreOfTheirVersion,
       ScansAreComplete, BestIsNotLost, HasAnswer
<1>2. CASE asking.kind = "search"
  <2>1. PICK N \in NearestOf(Hits, SearchK) : AnswersWith(InOrder(N, Nearer))
    BY <1>2 DEF QueryNearest
  <2> DEFINE chunks == InOrder(N, Nearer)
  <2>2. /\ N \subseteq Hits /\ IsFiniteSet(N) /\ Cardinality(N) <= SearchK /\ N \subseteq Points
        /\ \A p \in Hits \ N : /\ Cardinality(N) = SearchK
                               /\ \A q \in N : asking.meaning.near[q] >= asking.meaning.near[p]
    BY <1>a, EverInIsFinite, NearestAreChosen
  <2>3. Orders(Nearer, N)
    BY <1>0, <2>2, NearerOrders
  <2>4. /\ chunks \in Seq(N) /\ Len(chunks) = Cardinality(N) /\ Cardinality(N) \in Nat
        /\ DOMAIN chunks = 1..Cardinality(N)
        /\ \A i \in 1..Cardinality(N) : chunks[i] \in N
        /\ \A p \in N : \E i \in 1..Cardinality(N) : chunks[i] = p
        /\ \A i, j \in 1..Cardinality(N) : chunks[i] = chunks[j] => i = j
    BY <2>2, <2>3, InOrderLists
  <2>5. asking' = [asking EXCEPT !.step = "answered", !.chunks = chunks]
    BY <2>1 DEF AnswersWith
  <2> HIDE DEF chunks
  <2>6. /\ asking'.kind = "search" /\ asking'.step = "answered" /\ asking'.chunks = chunks
        /\ asking'.meaning = asking.meaning /\ asking'.version = asking.version
        /\ asking'.nearest = asking.nearest /\ asking'.found = asking.found
    BY <2>5, <1>0, <1>2 DEF RetrievalInv, AskingOK
  <2>7. ToSet(chunks) = N
    BY <2>4 DEF ToSet
  <2>8. RetrievalTypeOK' /\ (lasting \subseteq Hits /\ Hits \subseteq everIn)'
    BY <1>0, <2>6 DEF RetrievalInv, RetrievalTypeOK, OfVersion, Hits, CallKinds
  <2>9. AskingOK'
    <3>1. chunks \in Seq(Points)
      BY <2>2, <2>4
    <3> QED
      BY <1>0, <1>2, <2>5, <3>1 DEF RetrievalInv, AskingOK
  <2>10. AnswersAreOfTheirVersion'
    <3>1. InAnswer' \subseteq everIn'
      BY <1>0, <2>2, <2>6, <2>7, EverInIsFinite DEF InAnswer
    <3>2. IsInjective(asking'.chunks)
      BY <2>4, <2>6 DEF IsInjective
    <3> QED
      BY <2>2, <2>4, <2>6, <3>1, <3>2 DEF AnswersAreOfTheirVersion
  <2>11. ScansAreComplete'
    BY <2>6 DEF ScansAreComplete
  <2>12. BestIsNotLost'
    BY <1>0, <2>2, <2>4, <2>6, <2>7, EverInIsFinite DEF BestIsNotLost, InAnswer
  <2> QED
    BY <2>6, <2>8, <2>9, <2>10, <2>11, <2>12 DEF RetrievalInv
<1> QED
  BY <1>1, <1>2 DEF QueryNearest

\* The state of a scroll before a turn, and what the turn adds to it.
Rest == {p \in Hits : p >= asking.offset}
PageSize == IF ScrollBatch < ScrollLimit - Len(asking.found) THEN ScrollBatch
            ELSE ScrollLimit - Len(asking.found)
Gathered == asking.found \o OnePage(Rest, PageSize)

\* A turn keeps the ids in ascending order, and below the next offset it misses nothing that
\* is there; when it is the last, nothing at all unless the limit is reached.
LEMMA TurnAdds ==
  ASSUME RetrievalInv, asking.step = "scrolling"
  PROVE  /\ Gathered \in Seq(everIn) /\ Len(Gathered) \in 0..ScrollLimit
         /\ \A i, j \in DOMAIN Gathered : i < j => Gathered[i] < Gathered[j]
         /\ NextOffset(Rest, PageSize) \in Nat
         /\ NextOffset(Rest, PageSize) # 0 =>
              /\ \A i \in DOMAIN Gathered : Gathered[i] < NextOffset(Rest, PageSize)
              /\ \A p \in lasting : p < NextOffset(Rest, PageSize) =>
                   \E i \in DOMAIN Gathered : Gathered[i] = p
         /\ Rest = {} \/ NextOffset(Rest, PageSize) = 0 =>
              \A p \in lasting : \E i \in DOMAIN Gathered : Gathered[i] = p
<1> DEFINE found == asking.found
           page == OnePage(Rest, PageSize)
           next == NextOffset(Rest, PageSize)
<1>1. /\ found \in Seq(Points) /\ asking.offset \in Nat /\ PagesSoFar
  BY DEF RetrievalInv, AskingOK
<1>2. ScrollLimit \in Nat \ {0} /\ ScrollBatch \in Nat \ {0}
  BY RetrievalAssumption DEF ScrollLimit
<1>3. Len(found) \in Nat /\ DOMAIN found = 1..Len(found) /\ Len(found) < ScrollLimit
  BY <1>1 DEF PagesSoFar
<1>4. PageSize \in Nat \ {0} /\ Len(found) + PageSize <= ScrollLimit
  <2>1. Len(asking.found) \in Nat /\ Len(asking.found) < ScrollLimit
    BY <1>3
  <2>2. ScrollLimit - Len(asking.found) \in Nat \ {0}
    BY <1>2, <2>1
  <2>3. PageSize \in Nat \ {0} /\ PageSize <= ScrollLimit - Len(asking.found)
    <3> DEFINE room == ScrollLimit - Len(asking.found)
    <3>1. PageSize = IF ScrollBatch < room THEN ScrollBatch ELSE room
      BY DEF PageSize
    <3>2. room \in Nat \ {0}
      BY <2>2
    <3> HIDE DEF room
    <3>3. PageSize \in Nat \ {0} /\ PageSize <= room
      BY <1>2, <3>1, <3>2
    <3> QED
      BY <3>3 DEF room
  <2> QED
    BY <1>2, <2>1, <2>3
<1>5. Rest \in SUBSET Nat /\ IsFiniteSet(Rest) /\ Rest \subseteq everIn /\ Rest \subseteq Hits
  <2>1. Rest \in SUBSET Hits
    BY DEF Rest
  <2> QED
    BY <2>1, EverInIsFinite, RetrievalAssumption, FS_Subset
<1>6. /\ page \in Seq(Rest) /\ Len(page) <= PageSize
      /\ \A i, j \in DOMAIN page : i < j => page[i] < page[j]
      /\ next \in Nat
      /\ next = 0 => \A p \in Rest : \E i \in DOMAIN page : page[i] = p
      /\ next # 0 => /\ next \in Rest
                     /\ \A i \in DOMAIN page : page[i] < next
                     /\ \A p \in Rest : p < next => \E i \in DOMAIN page : page[i] = p
  BY <1>4, <1>5, PageAndNext
<1>7. Gathered = found \o page
  BY DEF Gathered
<1> HIDE DEF found, page, next
<1>8. Len(page) \in Nat /\ DOMAIN page = 1..Len(page) /\ \A i \in 1..Len(page) : page[i] \in Rest
  BY <1>6
<1>9. \A i \in 1..Len(found) : found[i] \in everIn /\ found[i] < asking.offset /\ found[i] \in Nat
  BY <1>1, <1>3, EverInIsFinite, RetrievalAssumption DEF PagesSoFar, found
<1>10. /\ Len(Gathered) = Len(found) + Len(page)
       /\ DOMAIN Gathered = 1..Len(found) + Len(page)
       /\ \A i \in 1..Len(found) : Gathered[i] = found[i]
       /\ \A i \in 1..Len(page) : Gathered[Len(found) + i] = page[i]
       /\ \A i \in DOMAIN Gathered : i \in 1..Len(found) \/ (i - Len(found) \in 1..Len(page)
                                      /\ Gathered[i] = page[i - Len(found)])
  <2>1. found \in Seq(Points) /\ page \in Seq(Rest)
    BY <1>1, <1>6 DEF found
  <2>2. /\ Len(Gathered) = Len(found) + Len(page)
        /\ DOMAIN Gathered = 1..Len(found) + Len(page)
        /\ \A i \in 1..Len(found) + Len(page) :
             Gathered[i] = IF i <= Len(found) THEN found[i] ELSE page[i - Len(found)]
    BY <1>7, <2>1
  <2>3. \A i \in 1..Len(found) : Gathered[i] = found[i]
    BY <1>3, <1>8, <2>2
  <2>4. \A i \in 1..Len(page) : Gathered[Len(found) + i] = page[i]
    <3> SUFFICES ASSUME NEW i \in 1..Len(page) PROVE Gathered[Len(found) + i] = page[i]
      OBVIOUS
    <3>1. Len(found) + i \in 1..Len(found) + Len(page) /\ ~(Len(found) + i <= Len(found))
          /\ Len(found) + i - Len(found) = i
      BY <1>3, <1>8
    <3> QED
      BY <2>2, <3>1
  <2>5. ASSUME NEW i \in DOMAIN Gathered, i \notin 1..Len(found)
        PROVE  i - Len(found) \in 1..Len(page) /\ Gathered[i] = page[i - Len(found)]
    BY <1>3, <1>8, <2>2, <2>5
  <2> QED
    BY <2>2, <2>3, <2>4, <2>5
<1>11. \A i \in 1..Len(page) : page[i] \in Nat /\ page[i] >= asking.offset
  BY <1>5, <1>8 DEF Rest
<1>12. Gathered \in Seq(everIn)
  <2>1. \A i \in DOMAIN Gathered : Gathered[i] \in everIn
    BY <1>5, <1>8, <1>9, <1>10
  <2>2. Gathered \in Seq(Points \cup Rest)
    <3>1. found \in Seq(Points \cup Rest) /\ page \in Seq(Points \cup Rest)
      BY <1>1, <1>6 DEF found
    <3> QED
      BY <1>7, <3>1
  <2> QED
    BY <2>1, <2>2
<1>13. ASSUME NEW i \in DOMAIN Gathered, NEW j \in DOMAIN Gathered, i < j
       PROVE  Gathered[i] < Gathered[j]
  <2>1. CASE j \in 1..Len(found)
    BY <1>1, <1>3, <1>10, <1>13, <2>1 DEF PagesSoFar, found
  <2>2. CASE i \in 1..Len(found) /\ j \notin 1..Len(found)
    BY <1>1, <1>9, <1>10, <1>11, <2>2
  <2>3. CASE i \notin 1..Len(found)
    <3>1. i \in Nat /\ j \in Nat /\ j \notin 1..Len(found)
      BY <1>3, <1>8, <1>10, <1>13, <2>3
    <3>2. /\ i - Len(found) \in DOMAIN page /\ Gathered[i] = page[i - Len(found)]
          /\ j - Len(found) \in DOMAIN page /\ Gathered[j] = page[j - Len(found)]
      BY <1>8, <1>10, <2>3, <3>1
    <3>3. i - Len(found) < j - Len(found)
      BY <1>3, <1>13, <3>1
    <3> QED
      BY <1>6, <3>2, <3>3
  <2> QED
    BY <1>3, <1>8, <1>10, <1>13, <2>1, <2>2, <2>3
<1>14. ASSUME NEW p \in lasting, ~(p \in Rest) \/ \E i \in DOMAIN page : page[i] = p
       PROVE  \E i \in DOMAIN Gathered : Gathered[i] = p
  <2>1. p \in Hits /\ p \in Nat
    BY EverInIsFinite, RetrievalAssumption
  <2>2. CASE p \notin Rest
    <3>1. p < asking.offset
      BY <1>1, <2>1, <2>2 DEF Rest
    <3>2. PICK i \in 1..Len(found) : found[i] = p
      BY <1>1, <1>3, <3>1 DEF PagesSoFar, found
    <3> QED
      BY <1>3, <1>8, <1>10, <3>2
  <2>3. CASE \E i \in DOMAIN page : page[i] = p
    <3>1. PICK i \in 1..Len(page) : page[i] = p
      BY <1>8, <2>3
    <3>2. Len(found) + i \in DOMAIN Gathered /\ Gathered[Len(found) + i] = p
      BY <1>3, <1>8, <1>10, <3>1
    <3> QED
      BY <3>2
  <2> QED
    BY <1>14, <2>2, <2>3
<1>15. next # 0 => \A i \in DOMAIN Gathered : Gathered[i] < next
  <2> SUFFICES ASSUME next # 0, NEW i \in DOMAIN Gathered PROVE Gathered[i] < next
    OBVIOUS
  <2>1. CASE i \notin 1..Len(found)
    BY <1>6, <1>8, <1>10, <2>1
  <2>2. CASE i \in 1..Len(found)
    <3>1. next >= asking.offset
      BY <1>6 DEF Rest
    <3> QED
      BY <1>1, <1>6, <1>9, <1>10, <2>2, <3>1
  <2> QED
    BY <2>1, <2>2
<1>16. Len(Gathered) \in 0..ScrollLimit
  BY <1>2, <1>3, <1>4, <1>6, <1>8, <1>10
<1>17. next # 0 => \A p \in lasting : p < next => \E i \in DOMAIN Gathered : Gathered[i] = p
  BY <1>6, <1>14
<1>18. Rest = {} \/ next = 0 => \A p \in lasting : \E i \in DOMAIN Gathered : Gathered[i] = p
  BY <1>6, <1>14
<1> QED
  BY <1>6, <1>12, <1>13, <1>15, <1>16, <1>17, <1>18 DEF next

\* A turn that ends a scroll has every point that was there all along, unless more were there
\* at some time than its limit.
LEMMA LastTurnHasAll ==
  ASSUME RetrievalInv, asking.step = "scrolling",
         Rest = {} \/ NextOffset(Rest, PageSize) = 0 \/ Len(Gathered) >= ScrollLimit,
         Cardinality(everIn) <= ScrollLimit
  PROVE  \A p \in lasting : \E i \in DOMAIN Gathered : Gathered[i] = p
<1>1. CASE Rest = {} \/ NextOffset(Rest, PageSize) = 0
  BY <1>1, TurnAdds
<1>2. CASE Len(Gathered) >= ScrollLimit
  <2> DEFINE n == Len(Gathered)
             T == {Gathered[i] : i \in 1..n}
  <2>1. /\ Gathered \in Seq(everIn) /\ n \in Nat /\ DOMAIN Gathered = 1..n
        /\ \A i, j \in 1..n : i < j => Gathered[i] < Gathered[j]
        /\ n <= ScrollLimit /\ ScrollLimit \in Nat
    BY TurnAdds, RetrievalAssumption DEF ScrollLimit
  <2>2. \A i \in 1..n : Gathered[i] \in T /\ Gathered[i] \in Nat /\ Gathered[i] \in everIn
    <3>1. \A p \in everIn : p \in Nat
      BY EverInIsFinite, RetrievalAssumption
    <3>2. \A i \in 1..n : Gathered[i] \in everIn
      BY <2>1
    <3> QED
      BY <3>1, <3>2
  <2>3. \A i, j \in 1..n : Gathered[i] = Gathered[j] => i = j
    <3> HIDE DEF T
    <3> QED
      BY <2>1, <2>2
  <2>4. [i \in 1..n |-> Gathered[i]] \in Bijection(1..n, T)
    BY <2>2, <2>3 DEF Bijection, Injection, Surjection, IsInjective
  <2>5. Cardinality(T) = n
    BY <2>1, <2>4, FS_CountingElements DEF ExistsBijection
  <2>6. T \in SUBSET everIn /\ IsFiniteSet(everIn) /\ Cardinality(everIn) \in Nat
    BY <2>2, EverInIsFinite
  <2>7. Cardinality(T) <= Cardinality(everIn)
    BY <2>6, FS_Subset
  <2>8. Cardinality(everIn) = Cardinality(T)
    <3> HIDE DEF T
    <3> QED
      BY <1>2, <2>1, <2>5, <2>6, <2>7
  <2>9. T = everIn
    BY <2>6, <2>8, FS_Subset
  <2>10. lasting \subseteq T
    BY <2>9, EverInIsFinite
  <2> QED
    BY <2>1, <2>10
<1> QED
  BY <1>1, <1>2

\* The turns of a scroll.
LEMMA ScrollKeeps ==
  ASSUME RetrievalInv, ScrollPoints
  PROVE  RetrievalInv'
<1> DEFINE next == NextOffset(Rest, PageSize)
           over == Rest = {} \/ next = 0 \/ Len(Gathered) >= ScrollLimit
<1>1. /\ asking.step = "scrolling" /\ asking.kind \in {"scan", "question"}
      /\ UNCHANGED <<indexed, live, rewrites, lasting, everIn>>
      /\ \/ ~over /\ asking' = [asking EXCEPT !.found = Gathered, !.offset = next]
         \/ over /\ asking.kind = "scan" /\ AnswersWith(Sorted(Gathered, ReadsBefore))
         \/ over /\ asking.kind = "question"
            /\ asking' = [asking EXCEPT !.found = Gathered, !.step = "ranking"]
  BY DEF ScrollPoints, Undisturbed, Rest, PageSize, Gathered, RetrievalInv, AskingOK, CallKinds
<1>2. /\ Gathered \in Seq(everIn) /\ Gathered \in Seq(Points) /\ Len(Gathered) \in 0..ScrollLimit
      /\ \A i, j \in DOMAIN Gathered : i < j => Gathered[i] < Gathered[j]
      /\ next \in Nat
      /\ next # 0 =>
           /\ \A i \in DOMAIN Gathered : Gathered[i] < next
           /\ \A p \in lasting : p < next => \E i \in DOMAIN Gathered : Gathered[i] = p
  <2>1. Gathered \in Seq(everIn) /\ everIn \subseteq Points
    BY <1>1, TurnAdds, EverInIsFinite
  <2>2. Gathered \in Seq(Points)
    BY <2>1
  <2> QED
    BY <1>1, <2>1, <2>2, TurnAdds
<1>3. DOMAIN Gathered = 1..Len(Gathered) /\ \A i \in DOMAIN Gathered : Gathered[i] \in everIn
  BY <1>2
<1>4. ScrollLimit \in Nat \ {0}
  BY RetrievalAssumption DEF ScrollLimit
<1> HIDE DEF next
<1>5. CASE ~over /\ asking' = [asking EXCEPT !.found = Gathered, !.offset = next]
  <2>1. /\ asking'.kind = asking.kind /\ asking'.step = "scrolling"
        /\ asking'.found = Gathered /\ asking'.offset = next /\ asking'.nearest = asking.nearest
        /\ asking'.meaning = asking.meaning /\ asking'.version = asking.version
    BY <1>1, <1>5 DEF RetrievalInv, AskingOK
  <2>2. RetrievalTypeOK' /\ (lasting \subseteq Hits /\ Hits \subseteq everIn)'
    BY <1>1, <1>2, <2>1 DEF RetrievalInv, RetrievalTypeOK, OfVersion, Hits
  <2>3. AskingOK'
    BY <1>1, <1>2, <1>5, <2>1 DEF RetrievalInv, AskingOK
  <2>4. PagesSoFar'
    <3>1. ScrollLimit' = ScrollLimit
      BY <2>1 DEF ScrollLimit
    <3>2. Len(Gathered) < ScrollLimit /\ next # 0
      BY <1>2, <1>4, <1>5
    <3> QED
      BY <1>1, <1>2, <1>3, <2>1, <3>1, <3>2 DEF PagesSoFar
  <2>5. asking.kind = "question" => NearestSoFar'
    BY <1>1, <2>1 DEF RetrievalInv, NearestSoFar
  <2> QED
    BY <1>1, <2>1, <2>2, <2>3, <2>4, <2>5 DEF RetrievalInv, AnswersAreOfTheirVersion,
       ScansAreComplete, BestIsNotLost, HasAnswer
<1>6. CASE over /\ asking.kind = "question"
           /\ asking' = [asking EXCEPT !.found = Gathered, !.step = "ranking"]
  <2>1. /\ asking'.kind = "question" /\ asking'.step = "ranking"
        /\ asking'.found = Gathered /\ asking'.nearest = asking.nearest
        /\ asking'.meaning = asking.meaning /\ asking'.version = asking.version
    BY <1>1, <1>6 DEF RetrievalInv, AskingOK
  <2>2. RetrievalTypeOK' /\ (lasting \subseteq Hits /\ Hits \subseteq everIn)'
    BY <1>1, <1>2, <2>1 DEF RetrievalInv, RetrievalTypeOK, OfVersion, Hits, CallKinds
  <2>3. AskingOK'
    BY <1>1, <1>2, <1>6, <2>1 DEF RetrievalInv, AskingOK
  <2>4. AllPages'
    <3>1. ScrollLimit = CandidatePool
      BY <1>6 DEF ScrollLimit
    <3>2. Cardinality(everIn) <= CandidatePool =>
            \A p \in lasting : \E i \in DOMAIN Gathered : Gathered[i] = p
      BY <1>1, <1>6, <3>1, LastTurnHasAll DEF next
    <3> QED
      BY <1>1, <1>3, <2>1, <3>2 DEF AllPages
  <2>5. NearestSoFar'
    BY <1>1, <1>6, <2>1 DEF RetrievalInv, NearestSoFar
  <2> QED
    BY <2>1, <2>2, <2>3, <2>4, <2>5 DEF RetrievalInv, AnswersAreOfTheirVersion,
       ScansAreComplete, BestIsNotLost, HasAnswer
<1>7. CASE over /\ asking.kind = "scan" /\ AnswersWith(Sorted(Gathered, ReadsBefore))
  <2> DEFINE chunks == Sorted(Gathered, ReadsBefore)
             n == Len(Gathered)
  <2>1. Orders(ReadsBefore, everIn)
    BY EverInIsFinite, TextOrders
  <2>2. IsInjective(Gathered)
    <3>1. \A p \in everIn : p \in Nat
      BY EverInIsFinite, RetrievalAssumption
    <3>2. \A i \in DOMAIN Gathered : Gathered[i] \in Nat /\ i \in Nat
      BY <1>2, <1>3, <3>1
    <3> QED
      BY <1>2, <3>2 DEF IsInjective
  <2>3. /\ chunks \in Seq(everIn) /\ Len(chunks) = n /\ DOMAIN chunks = 1..n
        /\ \A i \in 1..n : \E k \in 1..n : chunks[k] = Gathered[i]
        /\ \A k \in 1..n : \E i \in 1..n : chunks[k] = Gathered[i]
        /\ \A i, j \in 1..n : i < j => <<chunks[i], chunks[j]>> \in ReadsBefore
    BY <1>2, <2>1, <2>2, SortedLists
  <2>4. asking' = [asking EXCEPT !.step = "answered", !.chunks = chunks]
    BY <1>7 DEF AnswersWith
  <2> HIDE DEF chunks
  <2>5. /\ asking'.kind = "scan" /\ asking'.step = "answered" /\ asking'.chunks = chunks
        /\ asking'.found = asking.found /\ asking'.nearest = asking.nearest
        /\ asking'.meaning = asking.meaning /\ asking'.version = asking.version
    BY <1>7, <2>4 DEF RetrievalInv, AskingOK
  <2>6. RetrievalTypeOK' /\ (lasting \subseteq Hits /\ Hits \subseteq everIn)'
    BY <1>1, <2>5 DEF RetrievalInv, RetrievalTypeOK, OfVersion, Hits, CallKinds
  <2>7. AskingOK'
    <3>1. chunks \in Seq(Points)
      BY <2>3, EverInIsFinite
    <3> QED
      BY <1>1, <1>7, <2>4, <2>5, <3>1 DEF RetrievalInv, AskingOK
  <2>8. ScrollLimit = FullScan /\ n \in Nat /\ n <= FullScan
    BY <1>2, <1>4, <1>7 DEF ScrollLimit
  <2>9. AnswersAreOfTheirVersion'
    <3>1. InAnswer' \subseteq everIn'
      BY <1>1, <2>3, <2>5 DEF InAnswer, ToSet
    <3>2. \A i, j \in 1..n : i # j => chunks[i] # chunks[j]
      <4>1. \A i, j \in 1..n : i < j => chunks[i] # chunks[j]
        <5>1. \A p, q \in everIn : <<p, q>> \in ReadsBefore => p # q
          BY <2>1 DEF Orders
        <5>2. \A i \in 1..n : chunks[i] \in everIn
          BY <2>3
        <5> QED
          BY <2>3, <5>1, <5>2
      <4> QED
        BY <2>8, <4>1
    <3>3. IsInjective(asking'.chunks)
      BY <2>3, <2>5, <3>2 DEF IsInjective
    <3> QED
      BY <2>3, <2>5, <2>8, <3>1, <3>3 DEF AnswersAreOfTheirVersion
  <2>10. ScansAreComplete'
    <3>1. Cardinality(everIn) <= FullScan =>
            \A p \in lasting : \E i \in DOMAIN Gathered : Gathered[i] = p
      BY <1>1, <1>7, <2>8, LastTurnHasAll DEF next
    <3>2. Cardinality(everIn) <= FullScan => lasting \subseteq ToSet(chunks)
      BY <1>3, <2>3, <3>1 DEF ToSet
    <3> QED
      BY <1>1, <2>3, <2>5, <3>2 DEF ScansAreComplete, InAnswer
  <2>11. BestIsNotLost'
    BY <2>5 DEF BestIsNotLost
  <2> QED
    BY <2>5, <2>6, <2>7, <2>9, <2>10, <2>11 DEF RetrievalInv
<1> QED
  BY <1>1, <1>5, <1>6, <1>7

\* A score lies between what the point surely gets and what it may get.
LEMMA ScoreBounds ==
  ASSUME RetrievalInv, asking.step = "ranking",
         NEW match \in [asking.meaning.sharing \cap ToSet(asking.found) -> MatchLevels],
         asking'.meaning = asking.meaning, asking'.match = match, everIn' = everIn
  PROVE  /\ match \in UNION {[D -> MatchLevels] : D \in SUBSET Points}
         /\ \A p \in Points : /\ Hybrid(p, asking.nearest, match) \in Nat
                              /\ AtMost(p)' \in Nat /\ Hybrid(p, asking.nearest, match) <= AtMost(p)'
         /\ \A p \in lasting : AtLeast(p)' \in Nat /\ AtLeast(p)' <= Hybrid(p, asking.nearest, match)
         /\ \A p \in lasting : p \notin asking.nearest /\ p \notin ToSet(asking.found) => AtLeast(p)' = 0
<1>1. /\ asking.meaning \in Meanings /\ asking.kind = "question" /\ AllPages /\ NearestSoFar
      /\ asking.found \in Seq(Points)
  BY DEF RetrievalInv, AskingOK
<1>2. match \in UNION {[D -> MatchLevels] : D \in SUBSET Points}
  <2>1. asking.meaning.sharing \cap ToSet(asking.found) \in SUBSET Points
    BY <1>1, RetrievalAssumption
  <2> QED
    BY <2>1
<1>3. \A p \in Points : asking.meaning.near[p] \in 0..100
  BY <1>1, RetrievalAssumption
<1>4. \A p \in DOMAIN match : match[p] \in 1..99
  BY RetrievalAssumption
<1>5. ASSUME NEW p \in Points
      PROVE  /\ Hybrid(p, asking.nearest, match) \in Nat
             /\ AtMost(p)' \in Nat /\ Hybrid(p, asking.nearest, match) <= AtMost(p)'
  <2>1. AtMost(p)' = 65 * asking.meaning.near[p] + (IF p \in DOMAIN match THEN 35 * match[p] ELSE 0)
    BY DEF AtMost, Hybrid
  <2> DEFINE a == 65 * asking.meaning.near[p]
             b == IF p \in DOMAIN match THEN 35 * match[p] ELSE 0
  <2>2. a \in Nat /\ b \in Nat
    BY <1>3, <1>4
  <2>3. Hybrid(p, asking.nearest, match) = (IF p \in asking.nearest THEN a ELSE 0) + b
    BY DEF Hybrid
  <2> HIDE DEF a, b
  <2> QED
    BY <2>1, <2>2, <2>3 DEF a, b
<1>6. ASSUME NEW p \in lasting
      PROVE  /\ AtLeast(p)' \in Nat /\ AtLeast(p)' <= Hybrid(p, asking.nearest, match)
             /\ p \notin asking.nearest /\ p \notin ToSet(asking.found) => AtLeast(p)' = 0
  <2> DEFINE near == asking.meaning.near
             others == {q \in everIn \ {p} : near[q] >= near[p]}
             surely == IF Cardinality(others) < NearestLimit THEN {p} ELSE {}
             some == IF Cardinality(everIn) <= CandidatePool THEN match ELSE <<>>
             a == 65 * near[p]
             b == IF p \in DOMAIN match THEN 35 * match[p] ELSE 0
  <2>1. AtLeast(p)' = (IF p \in surely THEN 65 * near[p] ELSE 0)
                      + (IF p \in DOMAIN some THEN 35 * some[p] ELSE 0)
    BY DEF AtLeast, Hybrid
  <2>2. p \in Points /\ a \in Nat /\ b \in Nat
    BY <1>3, <1>4, EverInIsFinite
  <2>3. Hybrid(p, asking.nearest, match) = (IF p \in asking.nearest THEN a ELSE 0) + b
    BY DEF Hybrid
  <2>4. p \notin asking.nearest => p \notin surely
    <3> SUFFICES ASSUME p \notin asking.nearest PROVE ~(Cardinality(others) < NearestLimit)
      OBVIOUS
    <3>1. Cardinality(asking.nearest) = NearestLimit /\ asking.nearest \in SUBSET others
      BY <1>1 DEF NearestSoFar
    <3>2. IsFiniteSet(others)
      BY EverInIsFinite, FS_Subset
    <3>3. Cardinality(asking.nearest) <= Cardinality(others) /\ Cardinality(others) \in Nat
      <4> HIDE DEF others
      <4> QED
        BY <3>1, <3>2, FS_Subset, FS_CardinalityType
    <3> HIDE DEF others
    <3> QED
      BY <3>1, <3>3, RetrievalAssumption
  <2>5. (IF p \in DOMAIN some THEN 35 * some[p] ELSE 0) \in {0, b}
    <3>1. CASE Cardinality(everIn) <= CandidatePool
      BY <3>1
    <3>2. CASE ~(Cardinality(everIn) <= CandidatePool)
      BY <3>2
    <3> QED
      BY <3>1, <3>2
  <2>6. p \notin ToSet(asking.found) => (IF p \in DOMAIN some THEN 35 * some[p] ELSE 0) = 0
    <3>1. CASE Cardinality(everIn) <= CandidatePool
      BY <3>1, <1>1 DEF AllPages, ToSet
    <3>2. CASE ~(Cardinality(everIn) <= CandidatePool)
      BY <3>2
    <3> QED
      BY <3>1, <3>2
  <2>7. (IF p \in surely THEN 65 * near[p] ELSE 0) = (IF p \in surely THEN a ELSE 0)
    OBVIOUS
  <2> DEFINE c == IF p \in DOMAIN some THEN 35 * some[p] ELSE 0
  <2>8. AtLeast(p)' = (IF p \in surely THEN a ELSE 0) + c
    BY <2>1, <2>7
  <2>9. c \in {0, b} /\ (p \notin ToSet(asking.found) => c = 0)
    BY <2>5, <2>6
  <2> HIDE DEF a, b, c, surely
  <2> QED
    BY <2>2, <2>3, <2>4, <2>8, <2>9
<1> QED
  BY <1>2, <1>5, <1>6

\* The ranking cuts its candidates off at the best.
LEMMA RankKeeps ==
  ASSUME RetrievalInv, Rank
  PROVE  RetrievalInv'
<1> DEFINE found == ToSet(asking.found)
           combined == asking.nearest \cup found
           score(p, match) == Hybrid(p, asking.nearest, match)
           relevant(match) == {p \in combined : score(p, match) >= Cutoff}
           ranked(match) == IF relevant(match) = {} THEN combined ELSE relevant(match)
<1>1. PICK match \in [asking.meaning.sharing \cap found -> MatchLevels] :
        asking' = [asking EXCEPT !.step = "answered", !.match = match,
                     !.chunks = FirstInOrder(ranked(match), Better(asking.nearest, match), TopK)]
  BY DEF Rank
<1> DEFINE R == Better(asking.nearest, match)
           K == ranked(match)
           F == First(K, R, TopK)
           chunks == InOrder(F, R)
<1>2. /\ asking.step = "ranking" /\ asking.kind = "question" /\ asking.meaning \in Meanings
      /\ AllPages /\ NearestSoFar /\ asking.found \in Seq(Points)
      /\ UNCHANGED <<indexed, live, rewrites, lasting, everIn>>
  BY DEF Rank, Undisturbed, RetrievalInv, AskingOK
<1>3. asking' = [asking EXCEPT !.step = "answered", !.match = match, !.chunks = chunks]
  BY <1>1 DEF FirstInOrder
<1> HIDE DEF chunks
<1>4. /\ asking'.kind = "question" /\ asking'.step = "answered" /\ asking'.chunks = chunks
      /\ asking'.match = match /\ asking'.found = asking.found
      /\ asking'.nearest = asking.nearest
      /\ asking'.meaning = asking.meaning /\ asking'.version = asking.version
  BY <1>2, <1>3 DEF RetrievalInv, AskingOK
<1>5. /\ match \in UNION {[D -> MatchLevels] : D \in SUBSET Points}
      /\ \A p \in Points : /\ score(p, match) \in Nat
                           /\ AtMost(p)' \in Nat /\ score(p, match) <= AtMost(p)'
      /\ \A p \in lasting : AtLeast(p)' \in Nat /\ AtLeast(p)' <= score(p, match)
      /\ \A p \in lasting : p \notin asking.nearest /\ p \notin found => AtLeast(p)' = 0
  BY <1>2, <1>4, ScoreBounds
<1>6. combined \subseteq everIn
  BY <1>2 DEF AllPages, NearestSoFar, ToSet
<1>7. /\ everIn \subseteq OfVersion(asking.version) /\ everIn \subseteq Points
      /\ IsFiniteSet(everIn) /\ lasting \subseteq everIn
  BY EverInIsFinite
<1>8. {TopK, NearestLimit} \subseteq Nat \ {0} /\ NearestLimit >= TopK /\ Cutoff \in Nat
  BY RetrievalAssumption
<1>9. /\ K \subseteq combined /\ IsFiniteSet(K) /\ IsFiniteSet(combined)
      /\ Cardinality(K) \in Nat /\ Cardinality(combined) \in Nat
  <2>1. K \in SUBSET combined /\ combined \in SUBSET everIn
    BY <1>6
  <2> HIDE DEF K, combined
  <2> QED
    BY <1>7, <2>1, FS_Subset, FS_CardinalityType
<1>10. Orders(R, K)
  <2>1. K \in SUBSET OfVersion(asking.version)
    BY <1>6, <1>7, <1>9
  <2> HIDE DEF K
  <2> QED
    BY <1>2, <1>5, <2>1, BetterOrders
<1> HIDE DEF K
<1>11. /\ F \subseteq K /\ IsFiniteSet(F) /\ Cardinality(F) \in Nat
       /\ Cardinality(F) = IF Cardinality(K) < TopK THEN Cardinality(K) ELSE TopK
       /\ \A q \in F, p \in K \ F : <<q, p>> \in R
  BY <1>8, <1>9, <1>10, FirstCuts, FS_CardinalityType
<1>12. Orders(R, F)
  BY <1>10, <1>11, OrdersPart
<1> HIDE DEF F
<1>13. /\ chunks \in Seq(F) /\ Len(chunks) = Cardinality(F) /\ DOMAIN chunks = 1..Cardinality(F)
       /\ \A i \in 1..Cardinality(F) : chunks[i] \in F
       /\ \A p \in F : \E i \in 1..Cardinality(F) : chunks[i] = p
       /\ \A i, j \in 1..Cardinality(F) : chunks[i] = chunks[j] => i = j
  <2> HIDE DEF R
  <2> QED
    BY <1>11, <1>12, InOrderLists DEF chunks
<1>14. ToSet(chunks) = F
  BY <1>13 DEF ToSet
<1>15. Len(chunks) <= TopK /\ Len(chunks) \in Nat
  BY <1>8, <1>9, <1>11, <1>13
<1>16. RetrievalTypeOK' /\ (lasting \subseteq Hits /\ Hits \subseteq everIn)'
  BY <1>2, <1>4 DEF RetrievalInv, RetrievalTypeOK, OfVersion, Hits, CallKinds
<1>17. AskingOK'
  <2>1. chunks \in Seq(Points)
    BY <1>6, <1>7, <1>9, <1>11, <1>13
  <2> QED
    BY <1>2, <1>3, <1>4, <1>5, <2>1 DEF RetrievalInv, AskingOK
<1>18. AnswersAreOfTheirVersion'
  <2>1. InAnswer' \subseteq everIn'
    BY <1>2, <1>4, <1>6, <1>9, <1>11, <1>14 DEF InAnswer
  <2>2. IsInjective(asking'.chunks)
    BY <1>4, <1>13 DEF IsInjective
  <2> QED
    BY <1>4, <1>15, <2>1, <2>2 DEF AnswersAreOfTheirVersion
<1>19. ScansAreComplete'
  BY <1>4 DEF ScansAreComplete
<1>20. ASSUME NEW p \in lasting, p \notin F
       PROVE  \/ Len(chunks) = TopK /\ \A q \in F : AtMost(q)' >= AtLeast(p)'
              \/ /\ AtLeast(p)' < Cutoff /\ F # {}
                 /\ \A q \in F : AtMost(q)' >= Cutoff
  <2> DEFINE most(q) == AtMost(q)'
             least == AtLeast(p)'
             s(q) == score(q, match)
  <2>1. /\ \A q \in F : q \in K /\ s(q) \in Nat /\ most(q) \in Nat /\ s(q) <= most(q)
        /\ least \in Nat /\ s(p) \in Nat /\ least <= s(p)
    BY <1>5, <1>6, <1>7, <1>9, <1>11
  <2>2. /\ relevant(match) = {q \in combined : s(q) >= Cutoff}
        /\ K = IF relevant(match) = {} THEN combined ELSE relevant(match)
    BY DEF K
  <2>3. \A q \in F : p \in K => s(q) >= s(p)
    <3> SUFFICES ASSUME NEW q \in F, p \in K PROVE s(q) >= s(p)
      OBVIOUS
    <3>1. <<q, p>> \in R
      BY <1>11, <1>20
    <3>2. s(q) > s(p) \/ s(q) = s(p)
      BY <3>1 DEF Better
    <3> HIDE DEF s
    <3> QED
      BY <2>1, <3>2
  <2> HIDE DEF most, least, s, relevant
  <2>4. CASE p \in K
    <3>1. F # K
      BY <1>20, <2>4
    <3>2. Cardinality(F) # Cardinality(K)
      BY <1>9, <1>11, <3>1, FS_Subset
    <3>3. Len(chunks) = TopK
      BY <1>11, <1>13, <3>2
    <3>4. \A q \in F : most(q) >= least
      BY <2>1, <2>3, <2>4
    <3> QED
      BY <3>3, <3>4 DEF most, least
  <2>5. CASE p \notin K /\ p \in combined
    <3>1. relevant(match) # {} /\ K = relevant(match) /\ ~(s(p) >= Cutoff)
      BY <2>2, <2>5
    <3>2. least < Cutoff
      BY <1>8, <2>1, <3>1
    <3>3. Cardinality(K) # 0
      BY <1>9, <3>1, FS_EmptySet
    <3>4. Cardinality(F) # 0
      BY <1>8, <1>9, <1>11, <3>3
    <3>5. F # {}
      BY <3>4, FS_EmptySet
    <3>6. \A q \in F : most(q) >= Cutoff
      BY <1>8, <2>1, <2>2, <3>1
    <3> QED
      BY <3>2, <3>5, <3>6 DEF most, least
  <2>6. CASE p \notin combined
    <3>1. p \notin asking.nearest /\ p \notin found
      BY <2>6
    <3>2. least = 0
      BY <1>5, <3>1 DEF least
    <3>3. Cardinality(combined) >= TopK
      <4>1. Cardinality(asking.nearest) = NearestLimit /\ asking.nearest \in SUBSET combined
        BY <1>2, <3>1 DEF NearestSoFar
      <4>2. Cardinality(asking.nearest) <= Cardinality(combined)
        BY <1>9, <4>1, FS_Subset
      <4> HIDE DEF combined
      <4> QED
        BY <1>8, <1>9, <4>1, <4>2
    <3>4. CASE K = combined
      <4>3. ~(Cardinality(K) < TopK)
        BY <1>8, <1>9, <3>3, <3>4
      <4>1. Len(chunks) = TopK
        BY <1>11, <1>13, <4>3
      <4>2. \A q \in F : most(q) >= least
        BY <2>1, <3>2
      <4> QED
        BY <4>1, <4>2 DEF most, least
    <3>5. CASE K # combined
      <4>1. K = relevant(match) /\ relevant(match) # {}
        BY <2>2, <3>5
      <4>2. PICK q \in combined : ~(s(q) >= Cutoff)
        BY <1>9, <2>2, <3>5, <4>1
      <4>3. s(q) \in Nat
        BY <1>5, <1>6, <1>7 DEF s
      <4>4. least < Cutoff
        BY <1>8, <3>2, <4>2, <4>3
      <4>5. Cardinality(F) # 0
        BY <1>8, <1>9, <1>11, <4>1, FS_EmptySet
      <4>6. F # {} /\ \A r \in F : most(r) >= Cutoff
        BY <1>8, <2>1, <2>2, <4>1, <4>5, FS_EmptySet
      <4> QED
        BY <4>4, <4>6 DEF most, least
    <3> QED
      BY <3>4, <3>5
  <2> QED
    BY <2>4, <2>5, <2>6
<1>21. BestIsNotLost'
  BY <1>2, <1>4, <1>14, <1>20 DEF BestIsNotLost, InAnswer
<1> QED
  BY <1>4, <1>16, <1>17, <1>18, <1>19, <1>21 DEF RetrievalInv

\* Every step keeps the invariant.
LEMMA RetrievalStep == RetrievalInv /\ [RetrievalNext]_retrievalVars => RetrievalInv'
<1> SUFFICES ASSUME RetrievalInv, [RetrievalNext]_retrievalVars PROVE RetrievalInv'
  OBVIOUS
<1>1. CASE BeginRetrieval
  BY <1>1, BeginKeeps
<1>2. CASE RetrievalFails
  BY <1>2, FailKeeps
<1>3. CASE QueryNearest
  BY <1>3, NearestKeeps
<1>4. CASE ScrollPoints
  BY <1>4, ScrollKeeps
<1>5. CASE Rank
  BY <1>5, RankKeeps
<1>6. CASE UpsertPoints
  <2>1. PICK v \in Versions : \E S \in SUBSET OfVersion(v) : Rewritten(indexed \cup S)
    BY <1>6 DEF UpsertPoints
  <2>3. PICK S \in SUBSET OfVersion(v) : Rewritten(indexed \cup S)
    BY <2>1
  <2>2. indexed \cup S \in SUBSET Points
    BY <2>1 DEF RetrievalInv, RetrievalTypeOK, OfVersion
  <2> QED
    BY <2>2, <2>3, RewriteKeeps
<1>7. CASE DeletePoints
  <2>1. PICK v \in Versions : \E S \in SUBSET OfVersion(v) : Rewritten(indexed \ S)
    BY <1>7 DEF DeletePoints
  <2>3. PICK S \in SUBSET OfVersion(v) : Rewritten(indexed \ S)
    BY <2>1
  <2>2. indexed \ S \in SUBSET Points
    BY <2>1 DEF RetrievalInv, RetrievalTypeOK
  <2> QED
    BY <2>2, <2>3, RewriteKeeps
<1>8. CASE ActivateOther
  BY <1>8, ActivateKeeps
<1>9. CASE UNCHANGED retrievalVars
  <2>1. UNCHANGED <<indexed, live, rewrites, asking, lasting, everIn>>
    BY <1>9 DEF retrievalVars
  <2>2. RetrievalTypeOK' /\ AskingOK' /\ (lasting \subseteq Hits /\ Hits \subseteq everIn)'
    BY <2>1 DEF RetrievalInv, RetrievalTypeOK, AskingOK, Hits, OfVersion
  <2>3. /\ asking.step = "scrolling" => PagesSoFar'
        /\ asking.step = "ranking" => AllPages'
        /\ asking.kind = "question" /\ asking.step \in {"scrolling", "ranking"} => NearestSoFar'
    BY <2>1 DEF RetrievalInv, PagesSoFar, ScrollLimit, AllPages, NearestSoFar
  <2>4. AnswersAreOfTheirVersion' /\ ScansAreComplete'
    BY <2>1 DEF RetrievalInv, AnswersAreOfTheirVersion, ScansAreComplete, HasAnswer, InAnswer
  <2>5. BestIsNotLost'
    <3>1. \A p : AtLeast(p)' = AtLeast(p) /\ AtMost(p)' = AtMost(p)
      BY <2>1 DEF AtLeast, AtMost, Hybrid
    <3> QED
      BY <2>1, <3>1 DEF RetrievalInv, BestIsNotLost, HasAnswer, InAnswer
  <2> QED
    BY <2>1, <2>2, <2>3, <2>4, <2>5 DEF RetrievalInv
<1> QED
  BY <1>1, <1>2, <1>3, <1>4, <1>5, <1>6, <1>7, <1>8, <1>9 DEF RetrievalNext

\* What a call holds is what its version held, in every state of every behaviour.
THEOREM SpecRetrievalInv == RetrievalSpec => []RetrievalInv
BY InitRetrieval, RetrievalStep, PTL DEF RetrievalSpec

\* However an index changes while it is read, an answer is of one version, a scan is whole and
\* in the order of the text, and no better chunk is lost for a worse one.
THEOREM SpecRetrievalHolds == RetrievalSpec => []RetrievalHolds
<1>1. RetrievalInv => RetrievalHolds
  BY DEF RetrievalInv, RetrievalHolds
<1> QED
  BY <1>1, SpecRetrievalInv, PTL

(***************************************************************************)
(* Lists: picking places, joining lists, cutting a text.                   *)
(***************************************************************************)
\* What is picked of a list is what it has at those places.
LEMMA PickedLists ==
  ASSUME NEW S, NEW s \in Seq(S), NEW I \in SUBSET DOMAIN s
  PROVE  /\ Picked(s, I) \in Seq(S) /\ Len(Picked(s, I)) = Cardinality(I)
         /\ DOMAIN Picked(s, I) = 1..Cardinality(I) /\ Cardinality(I) \in Nat
         /\ \A k \in 1..Cardinality(I) : \E i \in I : Picked(s, I)[k] = s[i]
         /\ \A i \in I : \E k \in 1..Cardinality(I) : Picked(s, I)[k] = s[i]
<1> DEFINE n == Cardinality(I)
           at == InOrder(I, Ascending)
<1>1. Len(s) \in Nat /\ DOMAIN s = 1..Len(s)
  OBVIOUS
<1>2. IsFiniteSet(I) /\ n \in Nat
  <2>1. IsFiniteSet(1..Len(s))
    BY <1>1, FS_Interval, 1 \in Int, Len(s) \in Int
  <2> QED
    BY <1>1, <2>1, FS_Subset, FS_CardinalityType
<1>3. Orders(Ascending, I)
  BY <1>1, AscendingOrders
<1>4. /\ \A k \in 1..n : at[k] \in I
      /\ \A i \in I : \E k \in 1..n : at[k] = i
  BY <1>2, <1>3, InOrderLists
<1>5. Picked(s, I) = [k \in 1..n |-> s[at[k]]]
  BY DEF Picked
<1>6. \A k \in 1..n : s[at[k]] \in S
  <2>1. \A i \in I : s[i] \in S
    BY <1>1
  <2> HIDE DEF at
  <2> QED
    BY <1>4, <2>1
<1> HIDE DEF at, n
<1>7. Picked(s, I) \in Seq(S) /\ Len(Picked(s, I)) = n /\ DOMAIN Picked(s, I) = 1..n
  BY <1>2, <1>5, <1>6
<1>8. \A k \in 1..n : Picked(s, I)[k] = s[at[k]]
  BY <1>5
<1> QED
  BY <1>2, <1>4, <1>7, <1>8 DEF n

\* A finite set of integers has a greatest and a least element.
LEMMA ExtremesAreMembers ==
  ASSUME NEW S \in SUBSET Int, IsFiniteSet(S), S # {}
  PROVE  /\ Max(S) \in S /\ \A y \in S : Max(S) >= y
         /\ Min(S) \in S /\ \A y \in S : Min(S) <= y
<1> DEFINE n == Cardinality(S)
           list == InOrder(S, Ascending)
<1>1. n \in Nat /\ n # 0
  BY FS_CardinalityType, FS_EmptySet
<1>2. /\ \A i \in 1..n : list[i] \in S
      /\ \A p \in S : \E i \in 1..n : list[i] = p
      /\ \A i, j \in 1..n : i < j => <<list[i], list[j]>> \in Ascending
  BY AscendingOrders, InOrderLists
<1>3. \A i, j \in 1..n : i < j => list[i] < list[j]
  BY <1>2 DEF Ascending
<1> HIDE DEF n, list
<1>4. list[n] \in S /\ \A y \in S : list[n] >= y
  <2>1. list[n] \in S
    BY <1>1, <1>2
  <2>2. ASSUME NEW y \in S PROVE list[n] >= y
    <3>1. PICK i \in 1..n : list[i] = y
      BY <1>2
    <3>2. i = n \/ list[i] < list[n]
      BY <1>1, <1>3
    <3>3. list[n] \in Int /\ y \in Int
      BY <2>1
    <3> QED
      BY <3>1, <3>2, <3>3
  <2> QED
    BY <2>1, <2>2
<1>5. list[1] \in S /\ \A y \in S : list[1] =< y
  <2>1. list[1] \in S
    BY <1>1, <1>2
  <2>2. ASSUME NEW y \in S PROVE list[1] =< y
    <3>1. PICK i \in 1..n : list[i] = y
      BY <1>2
    <3>2. i = 1 \/ list[1] < list[i]
      BY <1>1, <1>3
    <3>3. list[1] \in Int /\ y \in Int
      BY <2>1
    <3> QED
      BY <3>1, <3>2, <3>3
  <2> QED
    BY <2>1, <2>2
<1>6. Max(S) \in S /\ \A y \in S : Max(S) >= y
  BY <1>4 DEF Max
<1>7. Min(S) \in S /\ \A y \in S : Min(S) <= y
  BY <1>5 DEF Min
<1> QED
  BY <1>6, <1>7

\* Two lists joined have what either has.
LEMMA JoinedHas ==
  ASSUME NEW S, NEW s \in Seq(S), NEW t \in Seq(S)
  PROVE  ToSet(s \o t) = ToSet(s) \cup ToSet(t)
<1> DEFINE u == s \o t
<1>1. /\ Len(s) \in Nat /\ Len(t) \in Nat /\ DOMAIN s = 1..Len(s) /\ DOMAIN t = 1..Len(t)
      /\ DOMAIN u = 1..Len(s) + Len(t)
      /\ \A i \in 1..Len(s) + Len(t) : u[i] = IF i <= Len(s) THEN s[i] ELSE t[i - Len(s)]
  OBVIOUS
<1> HIDE DEF u
<1>2. \A i \in 1..Len(s) : i \in DOMAIN u /\ u[i] = s[i]
  BY <1>1
<1>3. \A i \in 1..Len(t) : Len(s) + i \in DOMAIN u /\ u[Len(s) + i] = t[i]
  <2> SUFFICES ASSUME NEW i \in 1..Len(t)
               PROVE  Len(s) + i \in DOMAIN u /\ u[Len(s) + i] = t[i]
    OBVIOUS
  <2>1. Len(s) + i \in 1..Len(s) + Len(t) /\ ~(Len(s) + i <= Len(s)) /\ Len(s) + i - Len(s) = i
    BY <1>1
  <2> QED
    BY <1>1, <2>1
<1>4. \A i \in DOMAIN u : (i \in DOMAIN s /\ u[i] = s[i])
                          \/ (i - Len(s) \in DOMAIN t /\ u[i] = t[i - Len(s)])
  BY <1>1
<1>5. ToSet(u) = ToSet(s) \cup ToSet(t)
  <2>1. ToSet(u) \subseteq ToSet(s) \cup ToSet(t)
    BY <1>4 DEF ToSet
  <2>2. \A i \in DOMAIN s : s[i] \in ToSet(u)
    BY <1>1, <1>2 DEF ToSet
  <2>3. \A i \in DOMAIN t : t[i] \in ToSet(u)
    BY <1>1, <1>3 DEF ToSet
  <2>4. ToSet(s) \subseteq ToSet(u) /\ ToSet(t) \subseteq ToSet(u)
    BY <2>2, <2>3 DEF ToSet
  <2> QED
    BY <2>1, <2>4
<1> QED
  BY <1>5 DEF u

\* Lists that are joined make a list of what they have.
LEMMA FlatteningJoins ==
  ASSUME NEW S, NEW seqs \in Seq(Seq(S))
  PROVE  /\ FlattenSeq(seqs) \in Seq(S)
         /\ \A i \in DOMAIN seqs : \A j \in DOMAIN seqs[i] :
              \E k \in DOMAIN FlattenSeq(seqs) : FlattenSeq(seqs)[k] = seqs[i][j]
         /\ \A k \in DOMAIN FlattenSeq(seqs) :
              \E i \in DOMAIN seqs : \E j \in DOMAIN seqs[i] : FlattenSeq(seqs)[k] = seqs[i][j]
<1> DEFINE n == Len(seqs)
           Joined(f, k) == f = [i \in 1..k |-> IF i = 1 THEN seqs[i] ELSE f[i - 1] \o seqs[i]]
           without == {k \in Nat : k \in 1..n /\ ~(\E f : Joined(f, k))}
<1>1. n \in Nat /\ DOMAIN seqs = 1..n /\ \A i \in 1..n : seqs[i] \in Seq(S)
  OBVIOUS
<1>2. CASE n = 0
  <2>1. FlattenSeq(seqs) = seqs /\ seqs = <<>>
    BY <1>2 DEF FlattenSeq
  <2> QED
    BY <2>1
<1>3. CASE n # 0
  <2>1. without = {}
    <3> SUFFICES ASSUME without # {} PROVE FALSE
      OBVIOUS
    <3>1. PICK k \in without : \A l \in without : ~(<<l, k>> \in OpToRel(<, Nat))
      <4> HIDE DEF without
      <4>1. without \subseteq Nat
        BY DEF without
      <4> QED
        BY <4>1, NatLessThanWellFounded, WFMin
    <3>2. k \in 1..n /\ k \in Nat /\ ~(\E f : Joined(f, k))
      OBVIOUS
    <3>3. \A l \in without : ~(l < k)
      BY <3>1, <3>2 DEF OpToRel
    <3>4. CASE k = 1
      <4>1. Joined([i \in 1..1 |-> seqs[i]], 1)
        OBVIOUS
      <4> QED
        BY <3>2, <3>4, <4>1
    <3>5. CASE k # 1
      <4>1. k - 1 \in 1..n /\ k - 1 \in Nat /\ k - 1 < k
        BY <1>1, <3>2, <3>5
      <4>2. k - 1 \notin without
        <5> HIDE DEF without
        <5> QED
          BY <3>3, <4>1
      <4>3. PICK f : Joined(f, k - 1)
        BY <4>1, <4>2
      <4> DEFINE g == [i \in 1..k |-> IF i = k THEN f[k - 1] \o seqs[k] ELSE f[i]]
      <4>4. \A i \in 1..k - 1 : f[i] = IF i = 1 THEN seqs[i] ELSE f[i - 1] \o seqs[i]
        BY <4>3
      <4>5. \A i \in 1..k : g[i] = IF i = 1 THEN seqs[i] ELSE g[i - 1] \o seqs[i]
        BY <3>2, <3>5, <4>1, <4>4
      <4>6. Joined(g, k)
        BY <4>5
      <4> QED
        BY <3>2, <4>6
    <3> QED
      BY <3>4, <3>5
  <2>2. \E f : Joined(f, n)
    <3>1. n \in 1..n /\ n \notin without
      <4> HIDE DEF without
      <4> QED
        BY <1>1, <1>3, <2>1
    <3> HIDE DEF Joined
    <3> QED
      BY <1>1, <3>1
  <2>3. PICK f : Joined(f, n) /\ FlattenSeq(seqs) = f[n]
    BY <1>3, <2>2 DEF FlattenSeq
  <2> DEFINE T(k) == UNION {ToSet(seqs[i]) : i \in 1..k}
             bad == {k \in Nat : k \in 1..n /\ ~(f[k] \in Seq(S) /\ ToSet(f[k]) = T(k))}
  <2>4. f[1] = seqs[1] /\ \A i \in 1..n : i # 1 => f[i] = f[i - 1] \o seqs[i]
    <3>1. \A i \in 1..n : f[i] = IF i = 1 THEN seqs[i] ELSE f[i - 1] \o seqs[i]
      BY <2>3
    <3>2. 1 \in 1..n
      BY <1>1, <1>3
    <3> QED
      BY <3>1, <3>2
  <2>5. bad = {}
    <3> SUFFICES ASSUME bad # {} PROVE FALSE
      OBVIOUS
    <3>1. PICK k \in bad : \A l \in bad : ~(<<l, k>> \in OpToRel(<, Nat))
      <4> HIDE DEF bad
      <4>1. bad \subseteq Nat
        BY DEF bad
      <4> QED
        BY <4>1, NatLessThanWellFounded, WFMin
    <3>2. k \in 1..n /\ k \in Nat /\ ~(f[k] \in Seq(S) /\ ToSet(f[k]) = T(k))
      OBVIOUS
    <3>3. \A l \in bad : ~(l < k)
      BY <3>1, <3>2 DEF OpToRel
    <3>4. CASE k = 1
      <4>1. T(1) = ToSet(seqs[1])
        OBVIOUS
      <4> QED
        BY <1>1, <2>4, <3>2, <3>4, <4>1
    <3>5. CASE k # 1
      <4>1. k - 1 \in 1..n /\ k - 1 \in Nat /\ k - 1 < k
        BY <1>1, <3>2, <3>5
      <4>2. k - 1 \notin bad
        <5> HIDE DEF bad
        <5> QED
          BY <3>3, <4>1
      <4>3. f[k - 1] \in Seq(S) /\ ToSet(f[k - 1]) = T(k - 1)
        BY <4>1, <4>2
      <4>4. f[k] = f[k - 1] \o seqs[k] /\ seqs[k] \in Seq(S)
        BY <1>1, <2>4, <3>2, <3>5
      <4>5. T(k) = T(k - 1) \cup ToSet(seqs[k])
        <5>1. \A i : i \in 1..k <=> i \in 1..k - 1 \/ i = k
          BY <3>2, <4>1
        <5> QED
          BY <5>1
      <4>6. f[k] \in Seq(S)
        BY <4>3, <4>4
      <4>7. ToSet(f[k]) = ToSet(f[k - 1]) \cup ToSet(seqs[k])
        BY <4>3, <4>4, JoinedHas
      <4> QED
        BY <3>2, <4>3, <4>5, <4>6, <4>7
    <3> QED
      BY <3>4, <3>5
  <2>6. f[n] \in Seq(S) /\ ToSet(f[n]) = T(n)
    <3>1. n \in 1..n /\ n \notin bad
      <4> HIDE DEF bad
      <4> QED
        BY <1>1, <1>3, <2>5
    <3> HIDE DEF T
    <3> QED
      BY <1>1, <3>1
  <2>7. FlattenSeq(seqs) \in Seq(S) /\ ToSet(FlattenSeq(seqs)) = T(n)
    BY <2>3, <2>6
  <2>8. \A x : x \in T(n) <=> \E i \in DOMAIN seqs : \E j \in DOMAIN seqs[i] : x = seqs[i][j]
    BY <1>1 DEF ToSet
  <2>9. \A x : x \in ToSet(FlattenSeq(seqs)) <=>
          \E k \in DOMAIN FlattenSeq(seqs) : x = FlattenSeq(seqs)[k]
    BY DEF ToSet
  <2> HIDE DEF T
  <2> QED
    BY <2>7, <2>8, <2>9
<1> QED
  BY <1>2, <1>3

\* A text that is cut into lines has the words of these lines.
LEMMA WordsAreOfLines ==
  ASSUME NEW text \in Seq(Lines)
  PROVE  LET W == UNION {ToSet(WordsOf(text[i])) : i \in DOMAIN text}
         IN Words(text) \in Seq(W) /\ ToSet(Words(text)) = W
<1> DEFINE W == UNION {ToSet(WordsOf(text[i])) : i \in DOMAIN text}
           seqs == [i \in DOMAIN text |-> WordsOf(text[i])]
<1>1. Len(text) \in Nat /\ DOMAIN text = 1..Len(text) /\ \A i \in DOMAIN text : text[i] \in Lines
  OBVIOUS
<1>2. ASSUME NEW i \in DOMAIN text PROVE WordsOf(text[i]) \in Seq(W)
  <2>1. text[i].ends \in Seq({"word", "line", "paragraph", ".", "!", "?"})
    BY <1>1 DEF Lines
  <2> DEFINE line == text[i]
             word(k) == [of |-> line.name, at |-> k, ends |-> line.ends[k]]
  <2>2. Len(line.ends) \in Nat /\ DOMAIN line.ends = 1..Len(line.ends)
    BY <2>1
  <2>3. WordsOf(line) = [k \in 1..Len(line.ends) |-> word(k)]
    BY <2>2 DEF WordsOf
  <2>4. \A k \in 1..Len(line.ends) : word(k) \in ToSet(WordsOf(line))
    BY <2>3 DEF ToSet
  <2>5. \A k \in 1..Len(line.ends) : word(k) \in W
    BY <2>4
  <2> HIDE DEF line, word, W
  <2>6. WordsOf(line) \in Seq(W)
    BY <2>2, <2>3, <2>5
  <2> QED
    BY <2>6 DEF line
<1>3. seqs \in Seq(Seq(W)) /\ DOMAIN seqs = DOMAIN text
  <2> HIDE DEF W
  <2> QED
    BY <1>1, <1>2
<1>4. \A i \in DOMAIN text : seqs[i] = WordsOf(text[i])
  OBVIOUS
<1>5. Words(text) = FlattenSeq(seqs)
  BY DEF Words
<1>6. /\ FlattenSeq(seqs) \in Seq(W)
      /\ \A i \in DOMAIN seqs : \A j \in DOMAIN seqs[i] :
           \E k \in DOMAIN FlattenSeq(seqs) : FlattenSeq(seqs)[k] = seqs[i][j]
  <2> HIDE DEF W, seqs
  <2> QED
    BY <1>3, FlatteningJoins
<1>7. Words(text) \in Seq(W)
  BY <1>5, <1>6
<1>8. ASSUME NEW i \in DOMAIN text PROVE ToSet(WordsOf(text[i])) \subseteq ToSet(Words(text))
  <2>1. seqs[i] = WordsOf(text[i]) /\ i \in DOMAIN seqs
    BY <1>3, <1>4
  <2> HIDE DEF seqs, W
  <2>2. \A j \in DOMAIN seqs[i] : seqs[i][j] \in ToSet(FlattenSeq(seqs))
    BY <1>6, <2>1 DEF ToSet
  <2>3. \A j \in DOMAIN WordsOf(text[i]) : WordsOf(text[i])[j] \in ToSet(Words(text))
    BY <1>5, <2>1, <2>2
  <2> QED
    BY <2>3 DEF ToSet
<1>9. ToSet(Words(text)) \subseteq W
  <2> HIDE DEF W
  <2> QED
    BY <1>7 DEF ToSet
<1>10. W \subseteq ToSet(Words(text))
  BY <1>8
<1> QED
  BY <1>7, <1>9, <1>10

\* A part ends after it starts, within the text and the length that is aimed at.
LEMMA PartsEnd ==
  ASSUME NEW W, NEW words \in Seq(W), NEW start \in 0..Len(words) - 1
  PROVE  /\ EndOfPart(words, start) \in start + 1 .. Len(words)
         /\ EndOfPart(words, start) <= start + TargetLength
<1> DEFINE n == Len(words)
           target == Min({n, start + TargetLength})
<1>1. n \in Nat /\ start \in Nat /\ start < n /\ TargetLength \in Nat \ {0}
  BY ContentAssumption
<1>2. target = IF start + TargetLength < n THEN start + TargetLength ELSE n
  <2> DEFINE m == IF start + TargetLength < n THEN start + TargetLength ELSE n
  <2>1. m \in {n, start + TargetLength} /\ \A y \in {n, start + TargetLength} : m =< y
    BY <1>1
  <2>2. \A x \in {n, start + TargetLength} :
          (\A y \in {n, start + TargetLength} : x =< y) => x = m
    BY <1>1
  <2> HIDE DEF m, n
  <2> QED
    BY <2>1, <2>2 DEF Min, m
<1>3. target \in start + 1 .. n /\ target <= start + TargetLength
  BY <1>1, <1>2
<1> HIDE DEF target
<1>4. ASSUME target < n
      PROVE  FindBreak(words, start, target) \in start + 1 .. target
  <2> DEFINE from == target - ((target - start) \div 5)
             After(kind) == {p \in from + 1 .. target : words[p].ends = kind}
             found == {k \in DOMAIN Breaks : After(Breaks[k]) # {}}
  <2>1. (target - start) \div 5 \in Nat /\ (target - start) \div 5 <= target - start
    <3> DEFINE d == target - start
    <3>1. d \in Nat
      BY <1>1, <1>3
    <3> HIDE DEF d
    <3>2. d \div 5 \in Nat /\ d \div 5 <= d
      BY <3>1
    <3> QED
      BY <3>2 DEF d
  <2>2. from \in Nat /\ from >= start
    BY <1>1, <1>3, <2>1
  <2>3. FindBreak(words, start, target) =
          IF found = {} THEN target ELSE Max(After(Breaks[Min(found)]))
    BY DEF FindBreak
  <2> HIDE DEF from
  <2>4. CASE found # {}
    <3>1. found \subseteq 1..4
      BY DEF Breaks
    <3>2. IsFiniteSet(1..4)
      BY FS_Interval, 1 \in Int, 4 \in Int
    <3>3. found \in SUBSET Int /\ IsFiniteSet(found)
      <4> HIDE DEF found
      <4>1. found \in SUBSET (1..4)
        BY <3>1
      <4>2. IsFiniteSet(found)
        BY <3>2, <4>1, FS_Subset
      <4>3. 1..4 \subseteq Int
        OBVIOUS
      <4> QED
        BY <4>1, <4>2, <4>3
    <3>4. Min(found) \in found
      <4> HIDE DEF found
      <4> QED
        BY <2>4, <3>3, ExtremesAreMembers
    <3> DEFINE A == After(Breaks[Min(found)])
    <3>5. A # {} /\ A \subseteq from + 1 .. target
      BY <3>4
    <3> HIDE DEF A
    <3>6. A \in SUBSET Int /\ IsFiniteSet(A)
      <4>1. IsFiniteSet(from + 1 .. target)
        BY <1>1, <1>3, <2>2, FS_Interval, from + 1 \in Int, target \in Int
      <4>2. A \in SUBSET (from + 1 .. target)
        BY <3>5
      <4>3. IsFiniteSet(A)
        BY <4>1, <4>2, FS_Subset
      <4> QED
        BY <1>1, <1>3, <2>2, <3>5, <4>3
    <3>7. Max(A) \in A
      BY <3>5, <3>6, ExtremesAreMembers
    <3>8. FindBreak(words, start, target) = Max(A)
      BY <2>3, <2>4 DEF A
    <3>9. Max(A) \in from + 1 .. target
      BY <3>5, <3>7
    <3>10. from + 1 .. target \subseteq start + 1 .. target
      BY <1>1, <1>3, <2>2
    <3> QED
      BY <3>8, <3>9, <3>10
  <2>5. CASE found = {}
    BY <1>1, <1>3, <2>3, <2>5
  <2> QED
    BY <2>4, <2>5
<1>5. EndOfPart(words, start) = IF target < n THEN FindBreak(words, start, target) ELSE target
  BY DEF EndOfPart, target
<1> QED
  BY <1>1, <1>3, <1>4, <1>5

\* The next part starts later, and no later than this one ends.
LEMMA StartsGoOn ==
  ASSUME NEW start \in Nat, NEW end \in Nat, start < end
  PROVE  NextStart(start, end) \in start + 1 .. end
<1> DEFINE T == {start + 1, end - OverlapLength}
           m == IF start + 1 > end - OverlapLength THEN start + 1 ELSE end - OverlapLength
<1>1. OverlapLength \in Nat
  BY ContentAssumption
<1>2. m \in T /\ \A y \in T : m >= y
  BY <1>1
<1>3. \A x \in T : (\A y \in T : x >= y) => x = m
  BY <1>1
<1>4. NextStart(start, end) = m
  <2> HIDE DEF m
  <2>1. NextStart(start, end) = Max(T)
    BY DEF NextStart
  <2> HIDE DEF T
  <2> QED
    BY <1>2, <1>3, <2>1 DEF Max
<1> QED
  BY <1>1, <1>4

\* The cutting from each place on exists: what it is there rests only on later places.
LEMMA PartsAreDefined ==
  ASSUME NEW W, NEW words \in Seq(W)
  PROVE  PartsFrom(words) =
           [start \in 0..Len(words) |->
              LET end == EndOfPart(words, start)
                  part == SubSeq(words, start + 1, end)
              IN IF end = Len(words) THEN <<part>>
                 ELSE <<part>> \o PartsFrom(words)[NextStart(start, end)]]
<1> DEFINE n == Len(words)
           end(start) == EndOfPart(words, start)
           part(start) == SubSeq(words, start + 1, end(start))
           there(f, start) == IF end(start) = n THEN <<part(start)>>
                              ELSE <<part(start)>> \o f[NextStart(start, end(start))]
           Cuts(f, d) == f = [start \in n - d .. n |-> there(f, start)]
           without == {d \in Nat : d \in 0..n /\ ~(\E f : Cuts(f, d))}
<1>1. n \in Nat
  OBVIOUS
<1>2. end(n) = n
  <2>1. \A y \in {n, n + TargetLength} : n =< y
    BY <1>1, ContentAssumption
  <2>2. \A x \in {n, n + TargetLength} : (\A y \in {n, n + TargetLength} : x =< y) => x = n
    BY <1>1, ContentAssumption
  <2>3. Min({n, n + TargetLength}) = n
    <3> HIDE DEF n
    <3> QED
      BY <2>1, <2>2 DEF Min
  <2> QED
    BY <1>1, <2>3 DEF EndOfPart
<1>3. \A start \in 0..n - 1 : end(start) # n => NextStart(start, end(start)) \in start + 1 .. n
  <2> SUFFICES ASSUME NEW start \in 0..n - 1, end(start) # n
               PROVE  NextStart(start, end(start)) \in start + 1 .. n
    OBVIOUS
  <2>1. end(start) \in start + 1 .. n
    BY PartsEnd
  <2> HIDE DEF end
  <2>2. start \in Nat /\ end(start) \in Nat /\ start < end(start) /\ end(start) <= n
    BY <1>1, <2>1
  <2>3. NextStart(start, end(start)) \in start + 1 .. end(start)
    BY <2>2, StartsGoOn
  <2> QED
    BY <1>1, <2>2, <2>3
<1> HIDE DEF end, part
<1>4. without = {}
  <2> SUFFICES ASSUME without # {} PROVE FALSE
    OBVIOUS
  <2>1. PICK d \in without : \A l \in without : ~(<<l, d>> \in OpToRel(<, Nat))
    <3> HIDE DEF without
    <3>1. without \subseteq Nat
      BY DEF without
    <3> QED
      BY <3>1, NatLessThanWellFounded, WFMin
  <2>2. d \in 0..n /\ d \in Nat /\ ~(\E f : Cuts(f, d))
    OBVIOUS
  <2>3. \A l \in without : ~(l < d)
    BY <2>1, <2>2 DEF OpToRel
  <2>4. CASE d = 0
    <3> DEFINE g == [start \in n - 0 .. n |-> <<part(start)>>]
    <3>1. \A start \in n - 0 .. n : start = n
      BY <1>1
    <3>2. \A start \in n - 0 .. n : there(g, start) = <<part(start)>>
      BY <1>2, <3>1
    <3>3. Cuts(g, 0)
      BY <3>2
    <3> HIDE DEF g, Cuts
    <3> QED
      BY <2>2, <2>4, <3>3
  <2>5. CASE d # 0
    <3>1. d - 1 \in 0..n /\ d - 1 \in Nat /\ d - 1 < d /\ n - d \in 0..n - 1
      BY <1>1, <2>2, <2>5
    <3>2. d - 1 \notin without
      <4> HIDE DEF without
      <4> QED
        BY <2>3, <3>1
    <3>3. PICK f : Cuts(f, d - 1)
      BY <3>1, <3>2
    <3> DEFINE g == [start \in n - d .. n |-> IF start = n - d THEN there(f, start) ELSE f[start]]
    <3>4. \A start \in n - (d - 1) .. n : f[start] = there(f, start)
      BY <3>3
    <3>5. \A start \in n - d .. n :
            /\ start \in n - (d - 1) .. n \/ start = n - d
            /\ end(start) # n => NextStart(start, end(start)) \in n - (d - 1) .. n
      <4>1. \A start \in n - d .. n : start = n \/ start \in 0..n - 1
        BY <1>1, <3>1
      <4>2. \A start \in n - d .. n : start \in n - (d - 1) .. n \/ start = n - d
        BY <1>1, <2>2
      <4>3. ASSUME NEW start \in n - d .. n, end(start) # n
            PROVE  NextStart(start, end(start)) \in n - (d - 1) .. n
        <5>1. start \in 0..n - 1
          BY <1>2, <4>1, <4>3
        <5>2. NextStart(start, end(start)) \in start + 1 .. n
          BY <1>3, <4>3, <5>1
        <5> QED
          BY <1>1, <2>2, <5>1, <5>2
      <4> QED
        BY <4>2, <4>3
    <3>6. \A start \in n - d .. n : there(g, start) = there(f, start)
      <4>1. \A start \in n - (d - 1) .. n : g[start] = f[start]
        BY <1>1, <2>2
      <4> HIDE DEF g
      <4> QED
        BY <3>5, <4>1
    <3>7. \A start \in n - d .. n : g[start] = there(f, start)
      <4> HIDE DEF there
      <4> QED
        BY <3>4, <3>5
    <3>8. Cuts(g, d)
      <4>1. \A start \in n - d .. n : g[start] = there(g, start)
        BY <3>6, <3>7
      <4>2. g = [start \in n - d .. n |-> g[start]]
        OBVIOUS
      <4> HIDE DEF g, there
      <4> QED
        BY <4>1, <4>2
    <3> HIDE DEF g, Cuts
    <3> QED
      BY <2>2, <3>8
  <2> QED
    BY <2>4, <2>5
<1>5. \E f : Cuts(f, n)
  <2>1. n \notin without /\ n \in Nat /\ n \in 0..n
    <3> HIDE DEF without
    <3> QED
      BY <1>1, <1>4
  <2> HIDE DEF Cuts
  <2> QED
    BY <2>1
<1>6. \E f : f = [start \in 0..n |-> there(f, start)]
  <2>1. n - n = 0
    BY <1>1
  <2> HIDE DEF there
  <2> QED
    BY <1>5, <2>1
<1> QED
  BY <1>6 DEF PartsFrom, end, part

\* What a part from one place to another has.
LEMMA PartHas ==
  ASSUME NEW W, NEW words \in Seq(W), NEW a \in Nat, NEW b \in 1..Len(words), a < b
  PROVE  /\ SubSeq(words, a + 1, b) \in Seq(W) /\ Len(SubSeq(words, a + 1, b)) = b - a
         /\ \A p \in a + 1 .. b : words[p] \in ToSet(SubSeq(words, a + 1, b))
<1>1. a + 1 \in 1..Len(words) + 1 /\ b \in 0..Len(words) /\ Len(words) \in Nat
  OBVIOUS
<1> DEFINE part == SubSeq(words, a + 1, b)
<1>2. part = [i \in 1..b - a |-> words[a + i]]
  BY <1>1
<1>3. \A i \in 1..b - a : words[a + i] \in W
  BY <1>1
<1>4. part \in Seq(W) /\ Len(part) = b - a /\ DOMAIN part = 1..b - a
  <2>1. b - a \in Nat
    BY <1>1
  <2> HIDE DEF part
  <2> QED
    BY <1>2, <1>3, <2>1
<1>5. \A p \in a + 1 .. b : p - a \in 1..b - a /\ part[p - a] = words[p]
  <2> SUFFICES ASSUME NEW p \in a + 1 .. b PROVE p - a \in 1..b - a /\ part[p - a] = words[p]
    OBVIOUS
  <2>1. p - a \in 1..b - a /\ a + (p - a) = p
    BY <1>1
  <2> HIDE DEF part
  <2> QED
    BY <1>2, <2>1
<1> HIDE DEF part
<1>6. \A p \in a + 1 .. b : words[p] \in ToSet(part)
  BY <1>4, <1>5 DEF ToSet
<1> QED
  BY <1>4, <1>6 DEF part

\* The parts from a place on: none empty or longer than what is aimed at, and each word from
\* there is in one of them.
PartsKeep(W, words, start, parts) ==
    /\ parts \in Seq(Seq(W))
    /\ \A k \in DOMAIN parts : Len(parts[k]) \in 1..TargetLength
    /\ \A p \in start + 1 .. Len(words) : \E k \in DOMAIN parts : words[p] \in ToSet(parts[k])

LEMMA PartsFromKeep ==
  ASSUME NEW W, NEW words \in Seq(W), NEW start \in 0..Len(words) - 1
  PROVE  PartsKeep(W, words, start, PartsFrom(words)[start])
<1> DEFINE n == Len(words)
           f == PartsFrom(words)
           bad == {d \in Nat : d \in 1..n /\ ~PartsKeep(W, words, n - d, f[n - d])}
<1>1. n \in Nat /\ TargetLength \in Nat
  BY ContentAssumption
<1>2. bad = {}
  <2> SUFFICES ASSUME bad # {} PROVE FALSE
    OBVIOUS
  <2>1. PICK d \in bad : \A l \in bad : ~(<<l, d>> \in OpToRel(<, Nat))
    <3> HIDE DEF bad
    <3>1. bad \subseteq Nat
      BY DEF bad
    <3> QED
      BY <3>1, NatLessThanWellFounded, WFMin
  <2> DEFINE s == n - d
             end == EndOfPart(words, s)
             part == SubSeq(words, s + 1, end)
             next == NextStart(s, end)
  <2>2. d \in 1..n /\ d \in Nat /\ ~PartsKeep(W, words, s, f[s])
    OBVIOUS
  <2>3. \A l \in bad : ~(l < d)
    BY <2>1, <2>2 DEF OpToRel
  <2>4. s \in 0..n - 1 /\ s \in Nat /\ s \in 0..n
    BY <1>1, <2>2
  <2>5. f[s] = IF end = n THEN <<part>> ELSE <<part>> \o f[next]
    <3> HIDE DEF s, f
    <3>1. f = [start_1 \in 0..n |->
                 LET e == EndOfPart(words, start_1)
                     q == SubSeq(words, start_1 + 1, e)
                 IN IF e = n THEN <<q>> ELSE <<q>> \o f[NextStart(start_1, e)]]
      BY PartsAreDefined DEF f
    <3> QED
      BY <2>4, <3>1
  <2>6. end \in s + 1 .. n /\ end <= s + TargetLength
    <3> HIDE DEF s
    <3> QED
      BY <2>4, PartsEnd
  <2>7. part \in Seq(W) /\ Len(part) \in 1..TargetLength
        /\ \A p \in s + 1 .. end : words[p] \in ToSet(part)
    <3> HIDE DEF s, end
    <3>1. end \in 1..n /\ s < end
      BY <1>1, <2>4, <2>6
    <3>2. /\ part \in Seq(W) /\ Len(part) = end - s
          /\ \A p \in s + 1 .. end : words[p] \in ToSet(part)
      BY <2>4, <3>1, PartHas
    <3> QED
      BY <1>1, <2>4, <2>6, <3>2
  <2> HIDE DEF s, end, part, f
  <2>8. CASE end = n
    <3>1. f[s] = <<part>>
      BY <2>5, <2>8
    <3>2. PartsKeep(W, words, s, <<part>>)
      BY <2>7, <2>8 DEF PartsKeep
    <3> QED
      BY <2>2, <3>1, <3>2
  <2>9. CASE end # n
    <3>1. f[s] = <<part>> \o f[next]
      BY <2>5, <2>9
    <3>2. next \in s + 1 .. end
      <4>1. s \in Nat /\ end \in Nat /\ s < end
        BY <1>1, <2>4, <2>6
      <4> QED
        BY <4>1, StartsGoOn
    <3> HIDE DEF next
    <3>3. n - next \in 1..n /\ n - next \in Nat /\ n - next < d /\ n - (n - next) = next
      BY <1>1, <2>2, <2>4, <2>6, <2>9, <3>2 DEF s
    <3>4. n - next \notin bad
      <4> HIDE DEF bad
      <4> QED
        BY <2>3, <3>3
    <3>5. PartsKeep(W, words, next, f[next])
      BY <3>3, <3>4
    <3> DEFINE rest == f[next]
               all == <<part>> \o rest
    <3>6. /\ rest \in Seq(Seq(W))
          /\ \A k \in DOMAIN rest : Len(rest[k]) \in 1..TargetLength
          /\ \A p \in next + 1 .. n : \E k \in DOMAIN rest : words[p] \in ToSet(rest[k])
      BY <3>5 DEF PartsKeep
    <3> HIDE DEF rest
    <3>7. /\ all \in Seq(Seq(W)) /\ DOMAIN all = 1..Len(rest) + 1 /\ Len(rest) \in Nat
          /\ DOMAIN rest = 1..Len(rest)
          /\ all[1] = part /\ \A k \in 1..Len(rest) : all[k + 1] = rest[k]
      BY <2>7, <3>6
    <3> HIDE DEF all
    <3>8. \A k \in DOMAIN all : Len(all[k]) \in 1..TargetLength
      <4>1. \A k \in DOMAIN all : k = 1 \/ (k - 1 \in 1..Len(rest) /\ all[k] = rest[k - 1])
        <5>1. \A m \in Nat : \A k \in 1..m + 1 : k = 1 \/ (k - 1 \in 1..m /\ k - 1 + 1 = k)
          BY ONLY TRUE
        <5>2. \A k \in DOMAIN all : k = 1 \/ (k - 1 \in 1..Len(rest) /\ k - 1 + 1 = k)
          BY ONLY <3>7, <5>1
        <5> QED
          BY ONLY <3>7, <5>2
      <4> QED
        BY <2>7, <3>6, <3>7, <4>1
    <3>9. ASSUME NEW p \in s + 1 .. n PROVE \E k \in DOMAIN all : words[p] \in ToSet(all[k])
      <4>1. CASE p \in s + 1 .. end
        <5>1. words[p] \in ToSet(part)
          BY <2>7, <4>1
        <5>2. 1 \in DOMAIN all /\ all[1] = part
          BY <3>7
        <5> QED
          BY <5>1, <5>2
      <4>2. CASE p \in next + 1 .. n
        <5>1. PICK k \in DOMAIN rest : words[p] \in ToSet(rest[k])
          BY <3>6, <4>2
        <5>2. k + 1 \in DOMAIN all /\ all[k + 1] = rest[k]
          BY <3>7
        <5> QED
          BY <5>1, <5>2
      <4> QED
        BY <1>1, <2>4, <2>6, <3>2, <3>9, <4>1, <4>2
    <3>10. PartsKeep(W, words, s, all)
      BY <3>7, <3>8, <3>9 DEF PartsKeep
    <3> QED
      BY <2>2, <3>1, <3>10 DEF all, rest
  <2> QED
    BY <2>8, <2>9
<1>3. n - start \in Nat /\ n - start \in 1..n /\ n - (n - start) = start
  BY <1>1
<1>4. n - start \notin bad
  <2> HIDE DEF bad
  <2> QED
    BY <1>2
<1> QED
  BY <1>3, <1>4

\* A text that is cut loses no word, and has no part that is empty or too long.
LEMMA SplitKeeps ==
  ASSUME NEW W, NEW words \in Seq(W)
  PROVE  /\ Split(words) \in Seq(Seq(W))
         /\ \A k \in DOMAIN Split(words) : Len(Split(words)[k]) \in 1..MaxLength
         /\ \A w \in ToSet(words) : \E k \in DOMAIN Split(words) : w \in ToSet(Split(words)[k])
<1>1. Len(words) \in Nat /\ TargetLength \in 1..MaxLength /\ MaxLength \in Nat
  BY ContentAssumption
<1>2. CASE words = <<>>
  <2>1. Split(words) = <<>> /\ ToSet(words) = {}
    BY <1>2 DEF Split, ToSet
  <2> QED
    BY <2>1
<1>3. CASE words # <<>> /\ Len(words) <= MaxLength
  <2>1. Split(words) = <<words>> /\ Len(words) \in 1..MaxLength
    BY <1>1, <1>3 DEF Split
  <2> QED
    BY <2>1
<1>4. CASE words # <<>> /\ ~(Len(words) <= MaxLength)
  <2>1. Split(words) = PartsFrom(words)[0] /\ 0 \in 0..Len(words) - 1
    BY <1>1, <1>4 DEF Split
  <2>2. PartsKeep(W, words, 0, Split(words))
    BY <2>1, PartsFromKeep
  <2>3. \A w \in ToSet(words) : \E p \in 0 + 1 .. Len(words) : w = words[p]
    BY DEF ToSet
  <2>4. 1..TargetLength \subseteq 1..MaxLength
    BY <1>1
  <2> QED
    BY <2>2, <2>3, <2>4 DEF PartsKeep
<1> QED
  BY <1>2, <1>3, <1>4

\* Words, passages, and what is kept of a page, by their types.
Tokens == [of : Names, at : Nat, ends : {"word", "line", "paragraph", ".", "!", "?"}]
Chunks == [asset : STRING, number : Nat, words : Seq(Tokens)]
PageRecords == [asset : STRING, number : Nat, native : Seq(Lines), ocr : Seq(Lines),
                visual : Seq(Lines), enriched : BOOLEAN, low : BOOLEAN]

\* A text has words.
LEMMA WordsAreTokens ==
  ASSUME NEW text \in Seq(Lines)
  PROVE  /\ Words(text) \in Seq(Tokens)
         /\ \A line \in ToSet(text) : ToSet(WordsOf(line)) \subseteq ToSet(Words(text))
<1> DEFINE W == UNION {ToSet(WordsOf(text[i])) : i \in DOMAIN text}
<1>1. \A line \in Lines : ToSet(WordsOf(line)) \subseteq Tokens
  <2> SUFFICES ASSUME NEW line \in Lines, NEW k \in DOMAIN line.ends
               PROVE  WordsOf(line)[k] \in Tokens
    BY DEF ToSet, WordsOf
  <2>1. /\ line.name \in Names /\ k \in Nat
        /\ line.ends[k] \in {"word", "line", "paragraph", ".", "!", "?"}
    BY DEF Lines
  <2>2. WordsOf(line)[k] = [of |-> line.name, at |-> k, ends |-> line.ends[k]]
    BY DEF WordsOf
  <2> QED
    BY <2>1, <2>2 DEF Tokens
<1>2. \A i \in DOMAIN text : text[i] \in Lines
  OBVIOUS
<1>3. W \subseteq Tokens
  BY <1>1, <1>2
<1>4. Words(text) \in Seq(W) /\ ToSet(Words(text)) = W
  BY WordsAreOfLines
<1>5. \A line \in ToSet(text) : ToSet(WordsOf(line)) \subseteq W
  BY DEF ToSet
<1> HIDE DEF W
<1> QED
  BY <1>3, <1>4, <1>5

\* Of a list without its repetitions nothing is missing.
LEMMA NothingIsMissing ==
  ASSUME NEW S, NEW s \in Seq(S), NEW k \in DOMAIN s
  PROVE  \E j \in {i \in DOMAIN s : \A h \in 1..i - 1 : s[h] # s[i]} : s[j] = s[k]
<1> DEFINE same == {i \in DOMAIN s : s[i] = s[k]}
<1>1. Len(s) \in Nat /\ DOMAIN s = 1..Len(s)
  OBVIOUS
<1>2. same \in SUBSET Int /\ IsFiniteSet(same) /\ same # {}
  <2>1. IsFiniteSet(1..Len(s))
    BY <1>1, FS_Interval, 1 \in Int, Len(s) \in Int
  <2>2. same \subseteq 1..Len(s) /\ k \in same
    BY <1>1
  <2> QED
    BY <2>1, <2>2, FS_Subset
<1>3. Min(same) \in same /\ \A i \in same : Min(same) <= i
  BY <1>2, ExtremesAreMembers
<1> DEFINE j == Min(same)
<1> HIDE DEF j
<1>4. j \in DOMAIN s /\ s[j] = s[k] /\ \A i \in DOMAIN s : s[i] = s[k] => j <= i
  BY <1>3 DEF j
<1>5. \A h \in 1..j - 1 : h \in DOMAIN s /\ ~(j <= h)
  BY <1>1, <1>4
<1> QED
  BY <1>4, <1>5

\* What is made of one page: passages of its own words, none too long, and all of its words
\* but those of the boilerplate.
LEMMA PassagesOfKeep ==
  ASSUME NEW r \in PageRecords, Merged(r) \in Seq(Lines)
  PROVE  /\ PassagesOf(r) \in Seq(Chunks)
         /\ \A k \in DOMAIN PassagesOf(r) :
              LET c == PassagesOf(r)[k]
              IN /\ c.asset = r.asset /\ c.number = r.number /\ Len(c.words) \in 1..MaxLength
                 /\ ToSet(c.words) \subseteq ToSet(Words(Merged(r)))
         /\ \A line \in ToSet(Merged(r)) : line.name \notin Boilerplate =>
              \A w \in ToSet(WordsOf(line)) :
                 \E k \in DOMAIN PassagesOf(r) : w \in ToSet(PassagesOf(r)[k].words)
<1> DEFINE text == Merged(r)
           I == {i \in DOMAIN text : text[i].name \notin Boilerplate}
           kept == Picked(text, I)
           parts == Split(Words(kept))
           new == {k \in DOMAIN parts : \A j \in 1..k - 1 : parts[j] # parts[k]}
           T == ToSet(Words(text))
           n == Cardinality(new)
<1>1. /\ kept \in Seq(Lines) /\ DOMAIN kept = 1..Cardinality(I)
      /\ \A k \in DOMAIN kept : \E i \in I : kept[k] = text[i]
      /\ \A i \in I : \E k \in DOMAIN kept : kept[k] = text[i]
  <2>1. I \in SUBSET DOMAIN text
    OBVIOUS
  <2>2. text \in Seq(Lines)
    OBVIOUS
  <2> HIDE DEF I, text
  <2>3. /\ kept \in Seq(Lines) /\ DOMAIN kept = 1..Cardinality(I)
        /\ \A k \in 1..Cardinality(I) : \E i \in I : kept[k] = text[i]
        /\ \A i \in I : \E k \in 1..Cardinality(I) : kept[k] = text[i]
    BY <2>1, <2>2, PickedLists
  <2> QED
    BY <2>3
<1>2. text \in Seq(Lines)
  OBVIOUS
<1>3. Words(text) \in Seq(Tokens) /\ T \subseteq Tokens
  <2>1. Words(text) \in Seq(Tokens)
    BY <1>2, WordsAreTokens
  <2> QED
    BY <2>1 DEF ToSet
<1>4. Words(kept) \in Seq(T)
  <2> DEFINE W == UNION {ToSet(WordsOf(kept[i])) : i \in DOMAIN kept}
  <2> HIDE DEF kept
  <2>1. Words(kept) \in Seq(W)
    BY <1>1, WordsAreOfLines
  <2>2. W \subseteq T
    <3>1. \A i \in DOMAIN kept : kept[i] \in ToSet(text)
      BY <1>1 DEF ToSet
    <3> HIDE DEF text
    <3> QED
      BY <1>2, <3>1, WordsAreTokens
  <2> HIDE DEF W, T
  <2> QED
    BY <2>1, <2>2
<1>5. /\ parts \in Seq(Seq(T))
      /\ \A k \in DOMAIN parts : Len(parts[k]) \in 1..MaxLength
      /\ \A w \in ToSet(Words(kept)) : \E k \in DOMAIN parts : w \in ToSet(parts[k])
  <2> HIDE DEF kept, T
  <2> QED
    BY <1>4, SplitKeeps
<1>6. /\ Picked(parts, new) \in Seq(Seq(T)) /\ n \in Nat
      /\ \A k \in 1..n : \E i \in new : Picked(parts, new)[k] = parts[i]
      /\ \A i \in new : \E k \in 1..n : Picked(parts, new)[k] = parts[i]
  <2>1. new \in SUBSET DOMAIN parts
    OBVIOUS
  <2> HIDE DEF new, parts, T
  <2> QED
    BY <1>5, <2>1, PickedLists
<1>7. \A k \in DOMAIN parts : \E i \in new : parts[i] = parts[k]
  <2> HIDE DEF parts, T
  <2> QED
    BY <1>5, NothingIsMissing
<1> DEFINE picked == Picked(parts, new)
<1>8. PassagesOf(r) = [k \in 1..n |-> Passage(r, picked[k])]
  BY DEF PassagesOf
<1>9. \A w \in ToSet(Words(kept)) : \E k \in 1..n : w \in ToSet(picked[k])
  <2> SUFFICES ASSUME NEW w \in ToSet(Words(kept)) PROVE \E k \in 1..n : w \in ToSet(picked[k])
    OBVIOUS
  <2>1. PICK k \in DOMAIN parts : w \in ToSet(parts[k])
    BY <1>5
  <2>2. PICK i \in new : parts[i] = parts[k]
    BY <1>7
  <2>3. PICK j \in 1..n : picked[j] = parts[i]
    BY <1>6
  <2> QED
    BY <2>1, <2>2, <2>3
<1>10. \A k \in 1..n : /\ picked[k] \in Seq(T) /\ Len(picked[k]) \in 1..MaxLength
                       /\ ToSet(picked[k]) \subseteq T
  <2>1. \A i \in new : i \in DOMAIN parts
    OBVIOUS
  <2>2. \A k \in 1..n : picked[k] \in Seq(T) /\ Len(picked[k]) \in 1..MaxLength
    <3> HIDE DEF parts, T, new
    <3> QED
      BY <1>5, <1>6, <2>1
  <2>3. \A k \in 1..n : \A w \in ToSet(picked[k]) : w \in T
    <3> HIDE DEF picked, T
    <3> QED
      BY <2>2 DEF ToSet
  <2> QED
    BY <2>2, <2>3
<1>11. ASSUME NEW line \in ToSet(text), line.name \notin Boilerplate
       PROVE  ToSet(WordsOf(line)) \subseteq ToSet(Words(kept))
  <2>1. line \in ToSet(kept)
    <3>1. PICK i \in DOMAIN text : text[i] = line
      BY DEF ToSet
    <3>2. i \in I
      BY <1>11, <3>1
    <3>3. PICK k \in DOMAIN kept : kept[k] = text[i]
      BY <1>1, <3>2
    <3> QED
      BY <3>1, <3>3 DEF ToSet
  <2> HIDE DEF kept
  <2> QED
    BY <1>1, <2>1, WordsAreTokens
<1> HIDE DEF picked, n, T, kept, new, parts, I, text
<1>12. \A k \in 1..n : picked[k] \in Seq(Tokens)
  BY <1>3, <1>10
<1>13. \A k \in 1..n : /\ Passage(r, picked[k]) \in Chunks
                       /\ Passage(r, picked[k]).asset = r.asset
                       /\ Passage(r, picked[k]).number = r.number
                       /\ Passage(r, picked[k]).words = picked[k]
  BY <1>12 DEF Passage, Chunks, PageRecords
<1>14. PassagesOf(r) \in Seq(Chunks) /\ DOMAIN PassagesOf(r) = 1..n
       /\ \A k \in 1..n : PassagesOf(r)[k] = Passage(r, picked[k])
  BY <1>6, <1>8, <1>13
<1>15. \A k \in 1..n :
         LET c == PassagesOf(r)[k]
         IN /\ c.asset = r.asset /\ c.number = r.number /\ Len(c.words) \in 1..MaxLength
            /\ ToSet(c.words) \subseteq T
  BY <1>10, <1>13, <1>14
<1>16. ASSUME NEW line \in ToSet(text), line.name \notin Boilerplate, NEW w \in ToSet(WordsOf(line))
       PROVE  \E k \in 1..n : w \in ToSet(PassagesOf(r)[k].words)
  <2>1. PICK k \in 1..n : w \in ToSet(picked[k])
    BY <1>9, <1>11, <1>16
  <2> QED
    BY <2>1, <1>13, <1>14
<1> QED
  BY <1>14, <1>15, <1>16 DEF T, text

(***************************************************************************)
(* The content pipeline: what an attempt keeps for the next.               *)
(***************************************************************************)
\* A line of the document, or of the vision model, but for its furniture and spacing
IsWritten(l) == \E m \in Written(document) : m.name = l.name /\ Len(m.ends) = Len(l.ends)

\* The pages extracted so far are the first ones of the document, in its lines and those of
\* the vision model, and numbered each on its own within an asset.
RecordsOK ==
    /\ records \in Seq(PageRecords)
    /\ \A i \in DOMAIN records : \A l \in ToSet(Merged(records[i])) : IsWritten(l)
    /\ \A i \in DOMAIN records : records[i].number <= Cardinality(Of(records[i].asset))
    /\ \A i, j \in DOMAIN records :
         records[i].asset = records[j].asset /\ records[i].number = records[j].number => i = j

\* The lines of a page are lines, and those of one name are of one length.
LEMMA LinesHaveTheirLength ==
  ASSUME document \in Documents, RecordsOK
  PROVE  /\ \A i \in DOMAIN records : Merged(records[i]) \in Seq(Lines)
         /\ \A i, j \in DOMAIN records :
              \A l \in ToSet(Merged(records[i])), m \in ToSet(Merged(records[j])) :
                 l.name = m.name => Len(l.ends) = Len(m.ends)
<1>1. ASSUME NEW i \in DOMAIN records PROVE Merged(records[i]) \in Seq(Lines)
  <2>1. records[i] \in PageRecords
    BY DEF RecordsOK
  <2>2. /\ records[i].native \in Seq(Lines) /\ records[i].ocr \in Seq(Lines)
        /\ records[i].visual \in Seq(Lines)
    BY <2>1 DEF PageRecords
  <2> DEFINE extra == IF records[i].ocr = records[i].native THEN <<>> ELSE records[i].ocr
  <2>3. extra \in Seq(Lines)
    BY <2>2
  <2>4. Merged(records[i]) = records[i].native \o extra \o records[i].visual
    BY DEF Merged
  <2> HIDE DEF extra
  <2> QED
    BY <2>2, <2>3, <2>4
<1>2. ASSUME NEW i \in DOMAIN records, NEW j \in DOMAIN records,
             NEW l \in ToSet(Merged(records[i])), NEW m \in ToSet(Merged(records[j])),
             l.name = m.name
      PROVE  Len(l.ends) = Len(m.ends)
  <2>1. PICK a \in Written(document) : a.name = l.name /\ Len(a.ends) = Len(l.ends)
    BY DEF RecordsOK, IsWritten
  <2>2. PICK b \in Written(document) : b.name = m.name /\ Len(b.ends) = Len(m.ends)
    BY DEF RecordsOK, IsWritten
  <2>3. Len(a.ends) = Len(b.ends)
    BY <1>2, <2>1, <2>2, ContentAssumption
  <2> QED
    BY <2>1, <2>2, <2>3
<1> QED
  BY <1>1, <1>2

\* What is taken for boilerplate recurs, and is short.
LEMMA BoilerplateRecurs ==
  ASSUME document \in Documents, RecordsOK, NEW i \in DOMAIN records,
         NEW line \in ToSet(Merged(records[i])), line.name \in Boilerplate
  PROVE  LET seen == Cardinality({j \in DOMAIN records : line.name \in NamesOn(j)})
         IN Short(line) /\ seen > 1 /\ 2 * seen >= Len(records)
<1> DEFINE Seen(name) == Cardinality({j \in DOMAIN records : name \in NamesOn(j)})
           lines == UNION {ToSet(Merged(records[j])) : j \in DOMAIN records}
           Recurs(name) == Len(records) >= 3 /\ Seen(name) >= 2 /\ 2 * Seen(name) >= Len(records)
<1>1. Boilerplate = {l.name : l \in {m \in lines : Short(m) /\ Recurs(m.name)}}
  BY DEF Boilerplate
<1>2. PICK l \in lines : l.name = line.name /\ Short(l) /\ Recurs(line.name)
  <2> HIDE DEF lines, Recurs
  <2> QED
    BY <1>1
<1>3. PICK p \in DOMAIN records : l \in ToSet(Merged(records[p]))
  OBVIOUS
<1>4. Len(l.ends) = Len(line.ends)
  BY <1>2, <1>3, LinesHaveTheirLength
<1>5. Short(line)
  BY <1>2, <1>4 DEF Short
<1>6. Seen(line.name) \in Nat
  <2>1. Len(records) \in Nat /\ DOMAIN records = 1..Len(records)
    BY DEF RecordsOK
  <2>2. IsFiniteSet(1..Len(records))
    BY <2>1, FS_Interval, 1 \in Int, Len(records) \in Int
  <2>3. {j \in DOMAIN records : line.name \in NamesOn(j)} \in SUBSET (1..Len(records))
    BY <2>1
  <2> QED
    BY <2>2, <2>3, FS_Subset, FS_CardinalityType
<1>7. Seen(line.name) >= 2 /\ 2 * Seen(line.name) >= Len(records)
  BY <1>2
<1>8. Seen(line.name) > 1
  <2> HIDE DEF Seen
  <2> QED
    BY <1>6, <1>7
<1> QED
  BY <1>5, <1>7, <1>8

\* The passages of all pages keep the text of each.
LEMMA ChunksKeepTheText ==
  /\ document \in Documents /\ RecordsOK
  /\ passages = FlattenSeq([i \in DOMAIN records |-> PassagesOf(records[i])])
  => passages \in Seq(Chunks) /\ PassagesKeepTheText
<1> SUFFICES ASSUME document \in Documents, RecordsOK,
                    passages = FlattenSeq([i \in DOMAIN records |-> PassagesOf(records[i])])
             PROVE  passages \in Seq(Chunks) /\ PassagesKeepTheText
  OBVIOUS
<1> DEFINE lists == [i \in DOMAIN records |-> PassagesOf(records[i])]
<1>1. Len(records) \in Nat /\ DOMAIN records = 1..Len(records)
      /\ \A i \in DOMAIN records : records[i] \in PageRecords
  BY DEF RecordsOK
<1>2. \A i \in DOMAIN records : Merged(records[i]) \in Seq(Lines)
  BY LinesHaveTheirLength
<1>3. \A i \in DOMAIN records :
         /\ PassagesOf(records[i]) \in Seq(Chunks)
         /\ \A k \in DOMAIN PassagesOf(records[i]) :
              LET c == PassagesOf(records[i])[k]
              IN /\ c.asset = records[i].asset /\ c.number = records[i].number
                 /\ Len(c.words) \in 1..MaxLength
                 /\ ToSet(c.words) \subseteq ToSet(Words(Merged(records[i])))
         /\ \A line \in ToSet(Merged(records[i])) : line.name \notin Boilerplate =>
              \A w \in ToSet(WordsOf(line)) :
                 \E k \in DOMAIN PassagesOf(records[i]) :
                    w \in ToSet(PassagesOf(records[i])[k].words)
  BY <1>1, <1>2, PassagesOfKeep
<1>4. lists \in Seq(Seq(Chunks)) /\ DOMAIN lists = DOMAIN records
      /\ \A i \in DOMAIN records : lists[i] = PassagesOf(records[i])
  BY <1>1, <1>3
<1>5. passages = FlattenSeq(lists)
  OBVIOUS
<1> HIDE DEF lists
<1>6. /\ passages \in Seq(Chunks)
      /\ \A i \in DOMAIN lists : \A j \in DOMAIN lists[i] :
           \E k \in DOMAIN passages : passages[k] = lists[i][j]
      /\ \A k \in DOMAIN passages :
           \E i \in DOMAIN lists : \E j \in DOMAIN lists[i] : passages[k] = lists[i][j]
  <2>1. lists \in Seq(Seq(Chunks))
    BY <1>4
  <2>2. /\ FlattenSeq(lists) \in Seq(Chunks)
        /\ \A i \in DOMAIN lists : \A j \in DOMAIN lists[i] :
             \E k \in DOMAIN FlattenSeq(lists) : FlattenSeq(lists)[k] = lists[i][j]
        /\ \A k \in DOMAIN FlattenSeq(lists) :
             \E i \in DOMAIN lists : \E j \in DOMAIN lists[i] : FlattenSeq(lists)[k] = lists[i][j]
    BY <2>1, FlatteningJoins
  <2> QED
    BY ONLY <1>5, <2>2
\* A passage comes from one page.
<1>7. \A c \in ToSet(passages) : \E i \in DOMAIN records :
         /\ c.asset = records[i].asset /\ c.number = records[i].number
         /\ Len(c.words) \in 1..MaxLength
         /\ ToSet(c.words) \subseteq ToSet(Words(Merged(records[i])))
  <2> SUFFICES ASSUME NEW c \in ToSet(passages)
               PROVE  \E i \in DOMAIN records :
                         /\ c.asset = records[i].asset /\ c.number = records[i].number
                         /\ Len(c.words) \in 1..MaxLength
                         /\ ToSet(c.words) \subseteq ToSet(Words(Merged(records[i])))
    OBVIOUS
  <2>1. PICK k \in DOMAIN passages : passages[k] = c
    BY DEF ToSet
  <2>2. PICK i \in DOMAIN lists : \E j \in DOMAIN lists[i] : passages[k] = lists[i][j]
    BY <1>6
  <2>3. PICK j \in DOMAIN lists[i] : c = lists[i][j]
    BY <2>1, <2>2
  <2>4. i \in DOMAIN records /\ lists[i] = PassagesOf(records[i])
    BY <1>4
  <2>5. j \in DOMAIN PassagesOf(records[i]) /\ PassagesOf(records[i])[j] = c
    BY <2>3, <2>4
  <2>6. /\ c.asset = records[i].asset /\ c.number = records[i].number
        /\ Len(c.words) \in 1..MaxLength
        /\ ToSet(c.words) \subseteq ToSet(Words(Merged(records[i])))
    BY <1>3, <2>4, <2>5
  <2> QED
    BY <2>4, <2>6
\* And a page has passages of its own.
<1>8. \A i \in DOMAIN records : \A line \in ToSet(Merged(records[i])) :
         line.name \notin Boilerplate =>
            \A w \in ToSet(WordsOf(line)) : \E c \in ToSet(passages) :
               c.asset = records[i].asset /\ c.number = records[i].number /\ w \in ToSet(c.words)
  <2> SUFFICES ASSUME NEW i \in DOMAIN records, NEW line \in ToSet(Merged(records[i])),
                      line.name \notin Boilerplate, NEW w \in ToSet(WordsOf(line))
               PROVE  \E c \in ToSet(passages) :
                         /\ c.asset = records[i].asset /\ c.number = records[i].number
                         /\ w \in ToSet(c.words)
    OBVIOUS
  <2>1. PICK k \in DOMAIN PassagesOf(records[i]) : w \in ToSet(PassagesOf(records[i])[k].words)
    BY <1>3
  <2>2. PICK l \in DOMAIN passages : passages[l] = PassagesOf(records[i])[k]
    <3>1. i \in DOMAIN lists /\ lists[i] = PassagesOf(records[i])
      BY <1>4
    <3>2. k \in DOMAIN lists[i]
      BY <3>1
    <3>3. \E l \in DOMAIN passages : passages[l] = lists[i][k]
      BY <1>6, <3>1, <3>2
    <3> QED
      BY <3>1, <3>3
  <2>3. passages[l] \in ToSet(passages)
    BY DEF ToSet
  <2>4. passages[l].asset = records[i].asset /\ passages[l].number = records[i].number
    BY <1>3, <2>2
  <2> QED
    BY <2>1, <2>2, <2>3, <2>4
<1>9. ASSUME NEW i \in DOMAIN records
      PROVE  LET r == records[i]
                 here == {c \in ToSet(passages) : c.asset = r.asset /\ c.number = r.number}
                 found == UNION {ToSet(c.words) : c \in here}
                 Seen(line) == Cardinality({j \in DOMAIN records : line.name \in NamesOn(j)})
                 Recurs(line) == Short(line) /\ Seen(line) > 1 /\ 2 * Seen(line) >= Len(records)
             IN /\ found \subseteq ToSet(Words(Merged(r)))
                /\ \A line \in ToSet(Merged(r)) : Recurs(line) \/ ToSet(WordsOf(line)) \subseteq found
  <2> DEFINE r == records[i]
             here == {c \in ToSet(passages) : c.asset = r.asset /\ c.number = r.number}
             found == UNION {ToSet(c.words) : c \in here}
             Recurs(line) ==
                LET seen == Cardinality({j \in DOMAIN records : line.name \in NamesOn(j)})
                IN Short(line) /\ seen > 1 /\ 2 * seen >= Len(records)
  <2>1. ASSUME NEW c \in here PROVE ToSet(c.words) \subseteq ToSet(Words(Merged(r)))
    <3>1. PICK j \in DOMAIN records :
             /\ c.asset = records[j].asset /\ c.number = records[j].number
             /\ ToSet(c.words) \subseteq ToSet(Words(Merged(records[j])))
      BY <1>7
    <3>2. records[j].asset = records[i].asset /\ records[j].number = records[i].number
      BY <3>1
    <3>3. j = i
      BY <3>2 DEF RecordsOK
    <3> QED
      BY <3>1, <3>3
  <2>2. ASSUME NEW line \in ToSet(Merged(r)), ~Recurs(line)
        PROVE  ToSet(WordsOf(line)) \subseteq found
    <3>1. line.name \notin Boilerplate
      BY <2>2, BoilerplateRecurs
    <3>2. \A w \in ToSet(WordsOf(line)) : \E c \in here : w \in ToSet(c.words)
      BY <1>8, <3>1
    <3> QED
      BY <3>2
  <2> QED
    BY <2>1, <2>2
<1>10. \A c \in ToSet(passages) : Len(c.words) \in 1..MaxLength
  BY <1>7
<1>11. PassagesKeepTheText
  BY <1>9, <1>10 DEF PassagesKeepTheText
<1> QED
  BY <1>6, <1>11

\* What is sent for a batch stands for what is pending, in its order: as long as no answer missed
\* an item, a vector is that of the passage at its place or empty; the others were in the cache.
EmbeddingOK ==
    /\ embedding \in [busy : BOOLEAN, redis : BOOLEAN, pending : Seq(Nat), sent : Nat,
                      made : Seq(Seq(Tokens))]
    /\ ~embedding.busy => embedding = NoBatch
    /\ embedding.busy =>
         /\ phase = "embedding"
         /\ \A k \in DOMAIN embedding.pending : embedding.pending[k] \in DOMAIN passages
         /\ \A k, l \in DOMAIN embedding.pending :
              embedding.pending[k] = embedding.pending[l] => k = l
         /\ DOMAIN vectors = DOMAIN passages
         /\ \A i \in DOMAIN passages :
              vectors[i] \in {passages[i].words, Bare}
              \/ \E k \in DOMAIN embedding.pending : embedding.pending[k] = i
         /\ Len(embedding.made) = embedding.sent => \A k \in 1..embedding.sent :
              embedding.made[k] \in {passages[embedding.pending[k]].words, Bare}

AllEmbedded ==
    /\ DOMAIN vectors = DOMAIN passages
    /\ \A i \in DOMAIN passages : vectors[i] \in {passages[i].words, Bare}

ContentInv ==
    /\ ContentTypeOK
    /\ RecordsOK
    /\ passages \in Seq(Chunks)
    /\ EmbeddingOK
    /\ phase = "indexing" => AllEmbedded
    /\ ContentHolds

\* A cleaned page has lines of its own, of the same names and lengths.
LEMMA CleanedLines ==
  ASSUME NEW page \in Pages
  PROVE  /\ Cleaned(page) \in Seq(Lines)
         /\ \A l \in ToSet(Cleaned(page)) :
              \E m \in ToSet(page.native) : m.name = l.name /\ Len(m.ends) = Len(l.ends)
<1> DEFINE I == {i \in DOMAIN page.native : ~page.native[i].furniture}
           kept == Picked(page.native, I)
           n == Cardinality(I)
           Ends == {"word", "line", "paragraph", ".", "!", "?"}
           Unspaced(line) == [line EXCEPT !.ends = ReplaceAll(@, "paragraph", "line")]
<1>1. page.native \in Seq(Lines)
  BY DEF Pages
<1>2. /\ kept \in Seq(Lines) /\ DOMAIN kept = 1..n /\ n \in Nat
      /\ \A k \in 1..n : \E i \in I : kept[k] = page.native[i]
  <2>1. I \in SUBSET DOMAIN page.native
    OBVIOUS
  <2> HIDE DEF I
  <2> QED
    BY <1>1, <2>1, PickedLists
<1>3. ASSUME NEW line \in Lines
      PROVE  /\ Unspaced(line) \in Lines /\ Unspaced(line).name = line.name
             /\ Len(Unspaced(line).ends) = Len(line.ends)
  <2> DEFINE e == ReplaceAll(line.ends, "paragraph", "line")
  <2>1. line.ends \in Seq(Ends) /\ line.name \in Names /\ line.furniture \in BOOLEAN
    BY DEF Lines
  <2>2. e \in Seq(Ends) /\ Len(e) = Len(line.ends)
    BY <2>1 DEF ReplaceAll
  <2> HIDE DEF e
  <2>3. Unspaced(line) = [name |-> line.name, ends |-> e, furniture |-> line.furniture]
    BY DEF Lines, e
  <2> HIDE DEF Unspaced
  <2> QED
    BY <2>1, <2>2, <2>3 DEF Lines
<1>4. Cleaned(page) = [k \in 1..n |-> Unspaced(kept[k])]
  <2> HIDE DEF n
  <2> QED
    BY <1>2 DEF Cleaned
<1> HIDE DEF Unspaced, kept, n
<1>5. \A k \in 1..n : kept[k] \in Lines /\ kept[k] \in ToSet(page.native)
  BY <1>2 DEF ToSet
<1>6. Cleaned(page) \in Seq(Lines) /\ DOMAIN Cleaned(page) = 1..n
      /\ \A k \in 1..n : Cleaned(page)[k] = Unspaced(kept[k])
  BY <1>2, <1>3, <1>4, <1>5
<1>7. ASSUME NEW l \in ToSet(Cleaned(page))
      PROVE  \E m \in ToSet(page.native) : m.name = l.name /\ Len(m.ends) = Len(l.ends)
  <2>1. PICK k \in 1..n : l = Unspaced(kept[k])
    BY <1>6 DEF ToSet
  <2> QED
    BY <1>3, <1>5, <2>1
<1> QED
  BY <1>6, <1>7

\* What is kept of a page is of that page, and of its lines or the vision model's.
IsRecordOf(r, page) ==
    /\ r \in PageRecords
    /\ r.asset = page.asset /\ r.number = Cardinality(Of(r.asset)) + 1
    /\ \A l \in ToSet(Merged(r)) : IsWritten(l)

LEMMA RecordIsOfItsPage ==
  ASSUME RecordsOK, document \in Documents, NEW i \in DOMAIN document,
         NEW ocr \in {<<>>, document[i].picture}, NEW visual \in {<<>>, <<Summary>>},
         NEW enriched \in BOOLEAN, NEW confidence,
         Cardinality(Of(document[i].asset)) \in Nat,
         NEW r, r = Record(document[i], ocr, visual, enriched, confidence)
  PROVE  IsRecordOf(r, document[i])
<1> DEFINE page == document[i]
           native == IF page.kind = "pdf" THEN Cleaned(page) ELSE page.native
           low == confidence < VisualThreshold
<1>0. <<>> \in Seq(Lines) /\ ToSet(<<>>) = {}
  BY DEF ToSet
<1>1. page \in Pages
  <2>1. document \in Seq(Pages)
    BY ContentAssumption
  <2> QED
    BY <2>1
<1>2. /\ page.asset \in STRING /\ page.native \in Seq(Lines) /\ page.picture \in Seq(Lines)
  BY <1>1 DEF Pages
<1>3. Summary \in Lines
  <2> DEFINE e == <<"word", "line">>
             Ends == {"word", "line", "paragraph", ".", "!", "?"}
  <2>1. e \in Seq(Ends)
    OBVIOUS
  <2>2. Summary = [name |-> Summary.name, ends |-> e, furniture |-> FALSE]
    BY DEF Summary
  <2>3. Lines = [name : Names, ends : Seq(Ends), furniture : BOOLEAN]
    BY DEF Lines
  <2>4. Summary.name \in Names
    BY ContentAssumption
  <2>5. ASSUME NEW a \in Names
        PROVE  [name |-> a, ends |-> e, furniture |-> FALSE]
                 \in [name : Names, ends : Seq(Ends), furniture : BOOLEAN]
    <3> HIDE DEF e, Ends
    <3> QED
      BY <2>1
  <2>6. [name |-> Summary.name, ends |-> e, furniture |-> FALSE] \in Lines
    <3> HIDE DEF e, Ends
    <3> QED
      BY <2>3, <2>4, <2>5
  <2> HIDE DEF e
  <2> QED
    BY <2>2, <2>6
<1>4. ToSet(page.native) \cup ToSet(page.picture) \cup {Summary} \subseteq Written(document)
  BY DEF Written
<1> HIDE DEF page
<1>5. /\ native \in Seq(Lines)
      /\ \A l \in ToSet(native) : \E m \in ToSet(page.native) :
           m.name = l.name /\ Len(m.ends) = Len(l.ends)
  BY <1>1, <1>2, CleanedLines
<1>6. ocr \in Seq(Lines) /\ ToSet(ocr) \subseteq ToSet(page.picture)
  BY <1>2, <1>0 DEF page
<1>7. visual \in Seq(Lines) /\ ToSet(visual) \subseteq {Summary}
  <2>1. <<Summary>> \in Seq(Lines) /\ ToSet(<<Summary>>) = {Summary}
    BY <1>3 DEF ToSet
  <2> QED
    BY <1>0, <2>1
<1>8. low \in BOOLEAN
  OBVIOUS
<1>9. r = [asset |-> page.asset, number |-> Cardinality(Of(page.asset)) + 1, native |-> native,
           ocr |-> ocr, visual |-> visual, enriched |-> enriched, low |-> low]
  BY DEF Record, page
<1> HIDE DEF native, low
<1>10. r \in PageRecords
  BY <1>2, <1>5, <1>6, <1>7, <1>8, <1>9 DEF PageRecords, page
<1>11. /\ r.asset = page.asset /\ r.number = Cardinality(Of(r.asset)) + 1 /\ r.enriched = enriched
       /\ r.native = native /\ r.ocr = ocr /\ r.visual = visual
  BY <1>9
<1>12. ToSet(Merged(r)) \subseteq ToSet(native) \cup ToSet(page.picture) \cup {Summary}
  <2> DEFINE extra == IF r.ocr = r.native THEN <<>> ELSE r.ocr
  <2>1. extra \in Seq(Lines) /\ ToSet(extra) \subseteq ToSet(page.picture)
    BY <1>6, <1>11, <1>0
  <2>2. Merged(r) = (native \o extra) \o visual
    BY <1>11 DEF Merged
  <2> HIDE DEF extra
  <2>3. native \o extra \in Seq(Lines) /\ ToSet(native \o extra) = ToSet(native) \cup ToSet(extra)
    BY <1>5, <2>1, JoinedHas
  <2> DEFINE text == native \o extra
  <2> HIDE DEF text
  <2>4. text \in Seq(Lines)
    BY <2>3 DEF text
  <2>5. ToSet(text \o visual) = ToSet(text) \cup ToSet(visual)
    BY <1>7, <2>4, JoinedHas
  <2> QED
    BY <1>7, <2>1, <2>2, <2>3, <2>5 DEF text
<1>13. \A l \in ToSet(Merged(r)) : IsWritten(l)
  BY <1>4, <1>5, <1>12 DEF IsWritten
<1> QED
  BY <1>10, <1>11, <1>13 DEF IsRecordOf, page

\* How many pages of an asset there are, and how many of them the vision model described.
LEMMA CountsAreNumbers ==
  ASSUME records \in Seq(PageRecords), NEW asset
  PROVE  /\ IsFiniteSet(Of(asset)) /\ Cardinality(Of(asset)) \in Nat
         /\ IsFiniteSet({i \in Of(asset) : records[i].enriched}) /\ Enriched(asset) \in Nat
         /\ Enriched(asset) > 0 => Of(asset) # {}
<1>1. Len(records) \in Nat /\ DOMAIN records = 1..Len(records)
  OBVIOUS
<1>2. IsFiniteSet(1..Len(records))
  BY <1>1, FS_Interval, 1 \in Int, Len(records) \in Int
<1>3. Of(asset) \in SUBSET (1..Len(records))
  BY <1>1 DEF Of
<1>4. IsFiniteSet(Of(asset)) /\ Cardinality(Of(asset)) \in Nat
  BY <1>2, <1>3, FS_Subset, FS_CardinalityType
<1> DEFINE E == {i \in Of(asset) : records[i].enriched}
<1>5. E \in SUBSET Of(asset)
  OBVIOUS
<1>6. IsFiniteSet(E) /\ Cardinality(E) \in Nat
  BY <1>4, <1>5, FS_Subset, FS_CardinalityType
<1>7. Of(asset) = {} => Cardinality(E) = 0
  BY FS_EmptySet
<1> QED
  BY <1>4, <1>6, <1>7 DEF Enriched

LEMMA AppendedCounts ==
  ASSUME records \in Seq(PageRecords), NEW r \in PageRecords, records' = Append(records, r),
         NEW asset
  PROVE  /\ Cardinality(Of(asset))' =
              IF r.asset = asset THEN Cardinality(Of(asset)) + 1 ELSE Cardinality(Of(asset))
         /\ Enriched(asset)' =
              IF r.asset = asset /\ r.enriched THEN Enriched(asset) + 1 ELSE Enriched(asset)
         /\ Of(asset)' = IF r.asset = asset THEN Of(asset) \cup {Len(records) + 1} ELSE Of(asset)
<1> DEFINE n == Len(records)
           E == {i \in Of(asset) : records[i].enriched}
           N == {i \in Of(asset)' : records'[i].enriched}
<1>1. /\ n \in Nat /\ DOMAIN records = 1..n /\ DOMAIN records' = 1..n + 1
      /\ \A i \in 1..n : records'[i] = records[i]
      /\ records'[n + 1] = r
  OBVIOUS
<1> HIDE DEF n
<1>2. \A i \in 1..n + 1 : i \in 1..n \/ i = n + 1
  BY <1>1
<1>3. 1..n \subseteq 1..n + 1 /\ n + 1 \in 1..n + 1 /\ n + 1 \notin 1..n
  BY <1>1
<1>4. Of(asset)' = {i \in 1..n + 1 : records'[i].asset = asset}
      /\ Of(asset) = {i \in 1..n : records[i].asset = asset}
  BY <1>1 DEF Of
<1>5. Of(asset)' = IF r.asset = asset THEN Of(asset) \cup {n + 1} ELSE Of(asset)
  BY <1>1, <1>2, <1>3, <1>4
<1>6. N = IF r.asset = asset /\ r.enriched THEN E \cup {n + 1} ELSE E
  BY <1>1, <1>3, <1>4, <1>5
<1>7. n + 1 \notin Of(asset) /\ n + 1 \notin E
  BY <1>3, <1>4
<1>8. IsFiniteSet(Of(asset)) /\ IsFiniteSet(E)
  BY CountsAreNumbers
<1>9. Cardinality(Of(asset)') = IF r.asset = asset THEN Cardinality(Of(asset)) + 1
                                 ELSE Cardinality(Of(asset))
  BY <1>5, <1>7, <1>8, FS_AddElement
<1>10. Cardinality(N) = IF r.asset = asset /\ r.enriched THEN Cardinality(E) + 1
                        ELSE Cardinality(E)
  <2> HIDE DEF N, E
  <2> QED
    BY <1>6, <1>7, <1>8, FS_AddElement
<1>11. Enriched(asset)' = Cardinality(N) /\ Enriched(asset) = Cardinality(E)
  BY DEF Enriched
<1> QED
  BY <1>5, <1>9, <1>10, <1>11 DEF n

\* A page more is kept: its number is new, and what the vision model said of it was within
\* the budget of its asset.
LEMMA PageMoreKeeps ==
  ASSUME ContentInv, phase = "extracting", Len(records) < Len(document),
         NEW r \in PageRecords, r.number = Cardinality(Of(r.asset)) + 1,
         r.enriched => WithinBudget(r.asset),
         \A l \in ToSet(Merged(r)) : IsWritten(l),
         records' = Append(records, r),
         UNCHANGED <<document, phase, passages, embedding, vectors, embedCache, searchable, tries>>
  PROVE  ContentInv'
<1> DEFINE n == Len(records)
<1>1. /\ n \in Nat /\ DOMAIN records = 1..n /\ DOMAIN records' = 1..n + 1 /\ Len(records') = n + 1
      /\ \A i \in 1..n : records'[i] = records[i] /\ records[i] \in PageRecords
      /\ records'[n + 1] = r /\ records \in Seq(PageRecords) /\ records' \in Seq(PageRecords)
  BY DEF ContentInv, RecordsOK
<1>2. /\ \A i \in 1..n + 1 : i \in 1..n \/ i = n + 1
      /\ 1..n \subseteq 1..n + 1 /\ n + 1 \in 1..n + 1 /\ n + 1 \notin 1..n
  BY <1>1
<1> HIDE DEF n
<1> DEFINE Now(asset) == {i \in 1..n + 1 : records'[i].asset = asset}
           Told(asset) == {i \in Now(asset) : records'[i].enriched}
<1>3. ASSUME NEW asset
      PROVE  /\ Cardinality(Of(asset)) \in Nat /\ Enriched(asset) \in Nat
             /\ Enriched(asset) > 0 => Of(asset) # {}
             /\ Cardinality(Now(asset)) =
                  IF r.asset = asset THEN Cardinality(Of(asset)) + 1 ELSE Cardinality(Of(asset))
             /\ Cardinality(Told(asset)) =
                  IF r.asset = asset /\ r.enriched THEN Enriched(asset) + 1 ELSE Enriched(asset)
             /\ \A i \in Of(asset) : i \in 1..n /\ records[i].asset = asset
             /\ Of(asset)' = Now(asset) /\ Enriched(asset)' = Cardinality(Told(asset))
  <2>1. Of(asset)' = Now(asset) /\ Enriched(asset)' = Cardinality(Told(asset))
    BY <1>1 DEF Of, Enriched
  <2>2. \A i \in Of(asset) : i \in 1..n /\ records[i].asset = asset
    BY <1>1 DEF Of
  <2> HIDE DEF Now, Told
  <2> QED
    BY <1>1, <2>1, <2>2, CountsAreNumbers, AppendedCounts
<1>4. ContentTypeOK'
  <2>1. document \in Seq(Pages)
    BY ContentAssumption DEF ContentInv, ContentTypeOK
  <2>2. Len(document) \in Nat
    BY <2>1
  <2>3. Len(records') <= Len(document)
    BY <1>1, <2>2 DEF n
  <2> QED
    BY <2>3 DEF ContentInv, ContentTypeOK
<1>5. \A i \in 1..n : /\ records[i].number \in Nat
                      /\ records[i].number <= Cardinality(Of(records[i].asset))
  BY <1>1 DEF ContentInv, RecordsOK, PageRecords
<1>6. RecordsOK'
  <2>1. ASSUME NEW i \in 1..n + 1, NEW l \in ToSet(Merged(records'[i]))
        PROVE  IsWritten(l)
    <3>1. CASE i = n + 1
      BY <1>1, <2>1, <3>1
    <3>2. CASE i \in 1..n
      BY <1>1, <2>1, <3>2 DEF ContentInv, RecordsOK
    <3> QED
      BY <1>2, <3>1, <3>2
  <2>2. ASSUME NEW i \in 1..n + 1 PROVE records'[i].number <= Cardinality(Now(records'[i].asset))
    <3> HIDE DEF Now, Told
    <3>1. CASE i = n + 1
      <4>1. r.number \in Nat /\ Cardinality(Now(r.asset)) = r.number
        BY <1>3 DEF PageRecords
      <4> QED
        BY <1>1, <3>1, <4>1
    <3>2. CASE i \in 1..n
      <4>1. PICK asset : asset = records[i].asset
        OBVIOUS
      <4>2. records[i].number \in Nat /\ records[i].number <= Cardinality(Of(asset))
        BY <1>5, <3>2, <4>1
      <4>3. /\ Cardinality(Of(asset)) \in Nat
            /\ Cardinality(Now(asset)) \in {Cardinality(Of(asset)), Cardinality(Of(asset)) + 1}
        BY <1>3
      <4> QED
        BY <1>1, <3>2, <4>1, <4>2, <4>3
    <3> QED
      BY <1>2, <3>1, <3>2
  <2>3. ASSUME NEW i \in 1..n, records[i].asset = r.asset, records[i].number = r.number
        PROVE  FALSE
    <3>1. r.number <= Cardinality(Of(r.asset)) /\ Cardinality(Of(r.asset)) \in Nat
      BY <1>3, <1>5, <2>3
    <3> QED
      BY <3>1
  <2>4. \A i, j \in 1..n :
          records[i].asset = records[j].asset /\ records[i].number = records[j].number => i = j
    BY <1>1 DEF ContentInv, RecordsOK
  <2>5. \A i, j \in 1..n + 1 :
          records'[i].asset = records'[j].asset /\ records'[i].number = records'[j].number => i = j
    BY <1>1, <1>2, <2>3, <2>4
  <2>6. \A i \in 1..n + 1 : Cardinality(Now(records'[i].asset)) = Cardinality(Of(records[i].asset))'
    BY <1>1 DEF Of
  <2>7. \A i \in 1..n + 1 : (records[i].number <= Cardinality(Of(records[i].asset)))'
    BY <2>2, <2>6
  <2> QED
    BY <1>1, <2>1, <2>5, <2>7 DEF RecordsOK, IsWritten
<1>7. EnrichmentKeepsToBudget'
  <2>1. ASSUME NEW asset
        PROVE  /\ Enriched(asset)' <= MaxPages
               /\ Enriched(asset)' > 0 =>
                    (Enriched(asset)' - 1) * 100 < MaxPercent * Cardinality(Of(asset)')
    <3> DEFINE e == Enriched(asset)
               c == Cardinality(Of(asset))
    <3>1. /\ e \in Nat /\ c \in Nat
          /\ Cardinality(Of(asset)') = IF r.asset = asset THEN c + 1 ELSE c
          /\ Enriched(asset)' = IF r.asset = asset /\ r.enriched THEN e + 1 ELSE e
      <4> HIDE DEF Now, Told
      <4> QED
        BY <1>3
    <3>2. MaxPages \in Nat /\ MaxPercent \in Nat
      BY ContentAssumption
    <3>3. e <= MaxPages /\ (e > 0 => (e - 1) * 100 < MaxPercent * c)
      <4>1. CASE Of(asset) = {}
        <5>1. e = 0
          <6> HIDE DEF Now, Told
          <6> QED
            BY <1>3, <4>1
        <5> QED
          BY <3>2, <5>1
      <4>2. CASE Of(asset) # {}
        <5>1. PICK i \in DOMAIN records : records[i].asset = asset
          BY <4>2 DEF Of
        <5> QED
          BY <5>1 DEF ContentInv, ContentHolds, EnrichmentKeepsToBudget
      <4> QED
        BY <4>1, <4>2
    <3>4. r.asset = asset /\ r.enriched => e < MaxPages /\ e * 100 < MaxPercent * (c + 1)
      BY DEF WithinBudget
    <3>5. MaxPercent * c \in Nat /\ MaxPercent * (c + 1) = MaxPercent * c + MaxPercent
      <4> HIDE DEF c, e
      <4> QED
        BY <3>1, <3>2
    <3> HIDE DEF e, c
    <3> DEFINE p == MaxPercent * c
               q == MaxPercent * (c + 1)
    <3> HIDE DEF p, q
    <3>6. CASE r.asset = asset /\ r.enriched
      <4>1. Enriched(asset)' = e + 1 /\ Cardinality(Of(asset)') = c + 1
        BY <3>1, <3>6
      <4>2. e < MaxPages /\ e * 100 < q
        BY <3>4, <3>6 DEF q
      <4> DEFINE x == Enriched(asset)'
      <4> HIDE DEF x
      <4>3. x = e + 1 /\ Cardinality(Of(asset)') = c + 1
        BY <4>1 DEF x
      <4>4. x <= MaxPages /\ (x - 1) * 100 < q
        BY <3>1, <3>2, <4>2, <4>3
      <4>5. x <= MaxPages /\ (x - 1) * 100 < MaxPercent * Cardinality(Of(asset)')
        BY <4>3, <4>4 DEF q
      <4> QED
        BY <4>5 DEF x
    <3>7. CASE r.asset = asset /\ ~r.enriched
      <4>1. Enriched(asset)' = e /\ Cardinality(Of(asset)') = c + 1
        BY <3>1, <3>7
      <4>2. e > 0 => (e - 1) * 100 < p
        BY <3>3 DEF p
      <4>3. p \in Nat /\ q = p + MaxPercent
        BY <3>5 DEF p, q
      <4>4. e > 0 => (e - 1) * 100 < q
        BY <3>1, <3>2, <4>2, <4>3
      <4> QED
        BY <3>3, <4>1, <4>4 DEF q
    <3>8. CASE r.asset # asset
      BY <3>1, <3>3, <3>8
    <3> QED
      BY <3>6, <3>7, <3>8
  <2>2. ASSUME NEW i \in 1..n + 1
        PROVE  (LET asset == records[i].asset
                    k == Enriched(asset)
                IN /\ k <= MaxPages
                   /\ k > 0 => (k - 1) * 100 < MaxPercent * Cardinality(Of(asset)))'
    <3> DEFINE a == records'[i].asset
    <3>1. PICK asset : asset = a
      OBVIOUS
    <3>2. Enriched(asset)' = (Enriched(records[i].asset))' /\ Of(asset)' = (Of(records[i].asset))'
      BY <3>1 DEF Enriched, Of
    <3> QED
      BY <2>1, <3>1, <3>2
  <2> QED
    BY <1>1, <2>2 DEF EnrichmentKeepsToBudget
<1>8. PassagesKeepTheText' /\ VectorsAreTheirOwn' /\ EmbeddingOK'
      /\ (phase = "indexing" => AllEmbedded)' /\ (passages \in Seq(Chunks))'
  BY DEF ContentInv, ContentHolds, PassagesKeepTheText, VectorsAreTheirOwn, EmbeddingOK,
         AllEmbedded
<1> QED
  BY <1>4, <1>6, <1>7, <1>8 DEF ContentInv, ContentHolds

LEMMA InitContent == ContentInit => ContentInv
<1> SUFFICES ASSUME ContentInit PROVE ContentInv
  OBVIOUS
<1>1. /\ document \in Documents /\ phase = "extracting" /\ records = <<>> /\ passages = <<>>
      /\ embedding = NoBatch /\ vectors = <<>> /\ embedCache = {} /\ searchable = {} /\ tries = 0
  BY DEF ContentInit
<1>2. Len(document) \in Nat /\ MaxTries \in Nat
  <2>1. document \in Seq(Pages)
    BY <1>1, ContentAssumption
  <2> QED
    BY <2>1, ContentAssumption
<1>3. /\ NoBatch \in [busy : BOOLEAN, redis : BOOLEAN, pending : Seq(Nat), sent : Nat,
                      made : Seq(Seq(Tokens))]
      /\ ~NoBatch.busy /\ NoBatch.pending = <<>> /\ NoBatch.sent = 0 /\ NoBatch.made = <<>>
  BY DEF NoBatch
<1>4. ContentTypeOK
  BY <1>1, <1>2, <1>3 DEF ContentTypeOK
<1>5. RecordsOK
  BY <1>1 DEF RecordsOK
<1>6. EmbeddingOK /\ passages \in Seq(Chunks)
  BY <1>1, <1>3 DEF EmbeddingOK
<1>7. ContentHolds
  BY <1>1 DEF ContentHolds, EnrichmentKeepsToBudget, PassagesKeepTheText, VectorsAreTheirOwn
<1> QED
  BY <1>1, <1>4, <1>5, <1>6, <1>7 DEF ContentInv

\* A page that is extracted, whatever its kind.
LEMMA PageKeeps ==
  ASSUME ContentInv, NEW kinds, Extracts(kinds),
         NEW ocr \in Readings(PageAtHand), NEW visual \in {<<>>, <<Summary>>},
         NEW enriched \in BOOLEAN, NEW confidence, enriched => WithinBudget(PageAtHand.asset),
         Keeps(Record(PageAtHand, ocr, visual, enriched, confidence)),
         UNCHANGED <<document, phase, passages, embedding, vectors, embedCache, searchable, tries>>
  PROVE  ContentInv'
<1> DEFINE r == Record(PageAtHand, ocr, visual, enriched, confidence)
           at == Len(records) + 1
<1>1. /\ document \in Documents /\ document \in Seq(Pages) /\ Len(document) \in Nat
      /\ records \in Seq(PageRecords) /\ Len(records) \in Nat /\ RecordsOK
      /\ phase = "extracting" /\ Len(records) < Len(document)
  BY ContentAssumption DEF ContentInv, ContentTypeOK, RecordsOK, Extracts
<1>2. at \in DOMAIN document /\ PageAtHand = document[at]
  BY <1>1 DEF PageAtHand
<1>3. Cardinality(Of(document[at].asset)) \in Nat
  BY <1>1, CountsAreNumbers
<1>4. ocr \in {<<>>, document[at].picture}
  BY <1>2 DEF Readings
<1> HIDE DEF at
<1>5. IsRecordOf(r, document[at])
  <2>1. r = Record(document[at], ocr, visual, enriched, confidence)
    BY <1>2
  <2> HIDE DEF r
  <2> QED
    BY <1>1, <1>2, <1>3, <1>4, <2>1, RecordIsOfItsPage
<1>6. r.enriched => WithinBudget(r.asset)
  BY <1>2 DEF Record
<1>7. records' = Append(records, r)
  BY DEF Keeps
<1> HIDE DEF r
<1> QED
  BY <1>1, <1>5, <1>6, <1>7, PageMoreKeeps DEF IsRecordOf

LEMMA PdfPageKeeps == ASSUME ContentInv, ExtractPdfPage PROVE ContentInv'
<1> DEFINE page == PageAtHand
           Others == UNCHANGED <<document, phase, passages, embedding, vectors, embedCache,
                                 searchable, tries>>
<1>1. Extracts({"pdf"}) /\ Others
  BY DEF ExtractPdfPage
<1>2. CASE Keeps(Record(page, <<>>, <<>>, FALSE, TextConfidence(page)))
  <2>1. <<>> \in Readings(page)
    BY DEF Readings
  <2> QED
    BY <1>1, <1>2, <2>1, PageKeeps
<1>3. CASE \E ocr \in Readings(page), sure \in Sureness, sight \in Sightings :
             /\ \/ ~sight.given
                \/ WithinBudget(page.asset) /\ HasOnlyImage(page) /\ sure < OcrThreshold
             /\ Keeps(Rescued(page, ocr, sure, sight))
  <2>1. PICK ocr \in Readings(page), sure \in Sureness, sight \in Sightings :
             /\ ~sight.given \/ WithinBudget(page.asset)
             /\ Keeps(Rescued(page, ocr, sure, sight))
    BY <1>3
  <2>2. sight.says \in {<<>>, <<Summary>>} /\ sight.given \in BOOLEAN
    <3>1. Sightings \subseteq [given : BOOLEAN, says : {<<>>, <<Summary>>}]
      BY DEF Sightings
    <3>2. sight \in [given : BOOLEAN, says : {<<>>, <<Summary>>}]
      BY <3>1
    <3> QED
      BY <3>2
  <2> DEFINE sureness == Max({TextConfidence(page), sure, IF sight.given THEN 70 ELSE 0})
  <2>3. Keeps(Record(page, ocr, sight.says, sight.given, sureness))
    BY <2>1 DEF Rescued
  <2>4. sight.given => WithinBudget(page.asset)
    BY <2>1
  <2> HIDE DEF sureness
  <2> QED
    BY <1>1, <2>2, <2>3, <2>4, PageKeeps
<1> QED
  BY <1>2, <1>3 DEF ExtractPdfPage

LEMMA SlideKeeps == ASSUME ContentInv, ExtractSlide PROVE ContentInv'
<1> DEFINE sureness == IF PageAtHand.native = <<>> THEN 30 ELSE 100
<1>1. /\ Extracts({"pptx"}) /\ Keeps(Record(PageAtHand, <<>>, <<>>, FALSE, sureness))
      /\ UNCHANGED <<document, phase, passages, embedding, vectors, embedCache, searchable, tries>>
  BY DEF ExtractSlide
<1>2. <<>> \in Readings(PageAtHand)
  BY DEF Readings
<1> HIDE DEF sureness
<1> QED
  BY <1>1, <1>2, PageKeeps

LEMMA FlatKeeps == ASSUME ContentInv, ExtractFlat PROVE ContentInv'
<1>1. /\ Extracts({"txt", "md", "docx", "vtt", "srt"})
      /\ Keeps(Record(PageAtHand, <<>>, <<>>, FALSE, 100))
      /\ UNCHANGED <<document, phase, passages, embedding, vectors, embedCache, searchable, tries>>
  BY DEF ExtractFlat
<1>2. <<>> \in Readings(PageAtHand)
  BY DEF Readings
<1> QED
  BY <1>1, <1>2, PageKeeps

\* With its records a version keeps what was found of them.
LEMMA SameRecords ==
  ASSUME UNCHANGED <<document, records>>
  PROVE  /\ RecordsOK => RecordsOK'
         /\ EnrichmentKeepsToBudget => EnrichmentKeepsToBudget'
         /\ /\ PassagesKeepTheText /\ UNCHANGED passages
            /\ phase' \in {"embedding", "indexing", "indexed"} =>
                 phase \in {"embedding", "indexing", "indexed"}
            => PassagesKeepTheText'
         /\ \A r : PassagesOf(r)' = PassagesOf(r)
<1>1. ASSUME NEW asset PROVE Of(asset)' = Of(asset)
  BY DEF Of
<1>2. ASSUME NEW asset PROVE Enriched(asset)' = Enriched(asset)
  BY <1>1 DEF Enriched
<1>3. ASSUME NEW i PROVE NamesOn(i)' = NamesOn(i)
  BY DEF NamesOn, Merged
<1>4. Boilerplate' = Boilerplate
  BY <1>3 DEF Boilerplate
<1>5. ASSUME NEW r PROVE PassagesOf(r)' = PassagesOf(r)
  BY <1>4 DEF PassagesOf
<1>6. RecordsOK => RecordsOK'
  BY <1>1 DEF RecordsOK, IsWritten
<1>7. EnrichmentKeepsToBudget => EnrichmentKeepsToBudget'
  BY <1>1, <1>2 DEF EnrichmentKeepsToBudget
<1>8. /\ PassagesKeepTheText /\ UNCHANGED passages
      /\ phase' \in {"embedding", "indexing", "indexed"} =>
           phase \in {"embedding", "indexing", "indexed"}
      => PassagesKeepTheText'
  <2>1. \A name : {j \in DOMAIN records : name \in NamesOn(j)}'
                    = {j \in DOMAIN records : name \in NamesOn(j)}
    BY <1>3
  <2>2. \A r : Merged(r)' = Merged(r)
    BY DEF Merged
  <2> SUFFICES ASSUME PassagesKeepTheText, UNCHANGED passages,
                      phase \in {"embedding", "indexing", "indexed"}
               PROVE  PassagesKeepTheText'
    BY DEF PassagesKeepTheText
  <2>3. \A c \in ToSet(passages)' : Len(c.words) \in 1..MaxLength
    BY DEF PassagesKeepTheText
  <2> QED
    BY <2>1, <2>2, <2>3, ZenonT(120) DEF PassagesKeepTheText
<1> QED
  BY <1>5, <1>6, <1>7, <1>8

LEMMA EndKeeps == ASSUME ContentInv, EndExtraction PROVE ContentInv'
<1>1. /\ phase = "extracting" /\ phase' \in {"review", "chunking"}
      /\ UNCHANGED <<document, records, passages, embedding, vectors, embedCache, searchable, tries>>
  BY DEF EndExtraction
<1>2. RecordsOK' /\ EnrichmentKeepsToBudget'
  BY <1>1, SameRecords DEF ContentInv, ContentHolds
<1>3. PassagesKeepTheText' /\ VectorsAreTheirOwn'
  BY <1>1 DEF ContentInv, ContentHolds, PassagesKeepTheText, VectorsAreTheirOwn
<1>4. ContentTypeOK' /\ EmbeddingOK' /\ (phase = "indexing" => AllEmbedded)'
      /\ (passages \in Seq(Chunks))'
  BY <1>1 DEF ContentInv, ContentTypeOK, EmbeddingOK, NoBatch
<1> QED
  BY <1>2, <1>3, <1>4 DEF ContentInv, ContentHolds

LEMMA ChunkKeeps == ASSUME ContentInv, ChunkContent PROVE ContentInv'
<1>1. /\ phase = "chunking" /\ phase' = "embedding"
      /\ passages' = FlattenSeq([i \in DOMAIN records |-> PassagesOf(records[i])])
      /\ UNCHANGED <<document, records, embedding, vectors, embedCache, searchable, tries>>
  BY DEF ChunkContent
<1>2. RecordsOK' /\ EnrichmentKeepsToBudget' /\ document' \in Documents
  BY <1>1, SameRecords DEF ContentInv, ContentHolds, ContentTypeOK
<1>3. (passages = FlattenSeq([i \in DOMAIN records |-> PassagesOf(records[i])]))'
  <2>1. \A i \in DOMAIN records : PassagesOf(records[i])' = PassagesOf(records[i])
    BY <1>1, SameRecords
  <2> QED
    BY <1>1, <2>1
<1>4. (passages \in Seq(Chunks))' /\ PassagesKeepTheText'
  <2>1. (/\ document \in Documents /\ RecordsOK
         /\ passages = FlattenSeq([i \in DOMAIN records |-> PassagesOf(records[i])]))'
    BY <1>2, <1>3
  <2> QED
    BY <2>1, ChunksKeepTheText, PTL
<1>5. VectorsAreTheirOwn' /\ ContentTypeOK' /\ EmbeddingOK' /\ (phase = "indexing" => AllEmbedded)'
  BY <1>1 DEF ContentInv, ContentHolds, VectorsAreTheirOwn, ContentTypeOK, EmbeddingOK, NoBatch
<1> QED
  BY <1>2, <1>4, <1>5 DEF ContentInv, ContentHolds

\* The places of the passages.
LEMMA PassagePlaces ==
  ASSUME passages \in Seq(Chunks)
  PROVE  /\ DOMAIN passages \in SUBSET Nat /\ IsFiniteSet(DOMAIN passages)
         /\ \A i \in DOMAIN passages : passages[i].words \in Seq(Tokens)
<1>1. Len(passages) \in Nat /\ DOMAIN passages = 1..Len(passages)
  OBVIOUS
<1>2. IsFiniteSet(1..Len(passages))
  BY <1>1, FS_Interval, 1 \in Int, Len(passages) \in Int
<1>3. \A i \in DOMAIN passages : passages[i] \in Chunks
  BY <1>1
<1> QED
  BY <1>1, <1>2, <1>3 DEF Chunks

\* A hit is a vector of its own; what is no hit is pending, once.
LEMMA LookUpKeeps == ASSUME ContentInv, LookUpVectors PROVE ContentInv'
<1>1. PICK redis \in BOOLEAN, hits \in SUBSET {i \in DOMAIN passages : Cached(i) # {}} :
        /\ embedding' = [NoBatch EXCEPT !.busy = TRUE, !.redis = redis,
                            !.pending = InOrder((DOMAIN passages) \ hits, Ascending)]
        /\ vectors' = [i \in DOMAIN passages |->
                          IF i \in hits THEN (CHOOSE e \in Cached(i) : TRUE).vector ELSE <<>>]
  BY DEF LookUpVectors
<1>2. /\ phase = "embedding"
      /\ UNCHANGED <<document, phase, records, passages, embedCache, searchable, tries>>
  BY DEF LookUpVectors
<1> DEFINE rest == (DOMAIN passages) \ hits
           pending == InOrder(rest, Ascending)
<1>3. passages \in Seq(Chunks)
  BY DEF ContentInv
<1>4. /\ pending \in Seq(Nat) /\ Len(pending) \in Nat /\ DOMAIN pending = 1..Len(pending)
      /\ \A k \in DOMAIN pending : pending[k] \in DOMAIN passages
      /\ \A k, l \in DOMAIN pending : pending[k] = pending[l] => k = l
      /\ \A i \in rest : \E k \in DOMAIN pending : pending[k] = i
  <2>1. rest \in SUBSET Nat /\ IsFiniteSet(rest) /\ rest \subseteq DOMAIN passages
    BY <1>3, PassagePlaces, FS_Subset
  <2> HIDE DEF rest
  <2>2. Orders(Ascending, rest)
    BY <2>1, AscendingOrders
  <2>3. /\ pending \in Seq(rest) /\ DOMAIN pending = 1..Cardinality(rest)
        /\ Len(pending) = Cardinality(rest) /\ Cardinality(rest) \in Nat
        /\ \A i \in 1..Cardinality(rest) : pending[i] \in rest
        /\ \A p \in rest : \E i \in 1..Cardinality(rest) : pending[i] = p
        /\ \A i, j \in 1..Cardinality(rest) : pending[i] = pending[j] => i = j
    BY <2>1, <2>2, InOrderLists
  <2> HIDE DEF pending
  <2>4. pending \in Seq(Nat)
    <3> DEFINE n == Cardinality(rest)
    <3>1. pending = [i \in 1..n |-> pending[i]]
      BY DEF pending, InOrder
    <3>2. n \in Nat /\ \A i \in 1..n : pending[i] \in Nat
      BY <2>1, <2>3
    <3> HIDE DEF n
    <3> QED
      BY <3>1, <3>2
  <2>5. DOMAIN pending = 1..Len(pending) /\ Len(pending) \in Nat
    BY <2>3
  <2>6. \A k \in DOMAIN pending : pending[k] \in DOMAIN passages
    BY <2>1, <2>3
  <2> QED
    BY <2>3, <2>4, <2>5, <2>6
<1> HIDE DEF pending
<1>5. embedding' = [busy |-> TRUE, redis |-> redis, pending |-> pending, sent |-> 0, made |-> <<>>]
  BY <1>1 DEF NoBatch, pending
<1>6. /\ embedding'.busy /\ embedding'.redis = redis /\ embedding'.pending = pending
      /\ embedding'.sent = 0 /\ embedding'.made = <<>>
  BY <1>5
<1>7. ASSUME NEW i \in hits PROVE vectors'[i] \in {passages[i].words, Bare}
  <2> DEFINE e == CHOOSE d \in Cached(i) : TRUE
  <2>1. i \in DOMAIN passages /\ e \in Cached(i)
    BY <1>1
  <2>2. e.vector \in {e.of.words, Bare} /\ e.of = passages[i]
    BY <2>1 DEF Cached, ContentInv, ContentHolds, VectorsAreTheirOwn
  <2> QED
    BY <1>1, <2>1, <2>2
<1>8. embedding' \in [busy : BOOLEAN, redis : BOOLEAN, pending : Seq(Nat), sent : Nat,
                      made : Seq(Seq(Tokens))]
  BY <1>4, <1>5
<1>9. EmbeddingOK'
  <2>1. DOMAIN vectors' = DOMAIN passages
    BY <1>1
  <2>2. \A i \in DOMAIN passages :
           vectors'[i] \in {passages[i].words, Bare} \/ \E k \in DOMAIN pending : pending[k] = i
    BY <1>4, <1>7
  <2> HIDE DEF rest
  <2>3. embedding'.sent = 0 /\ 1..embedding'.sent = {}
    BY <1>6
  <2> QED
    BY <1>2, <1>4, <1>6, <1>8, <2>1, <2>2, <2>3 DEF EmbeddingOK
<1>10. ContentTypeOK'
  BY <1>2, <1>4, <1>6 DEF ContentInv, ContentTypeOK
<1>11. RecordsOK' /\ EnrichmentKeepsToBudget' /\ PassagesKeepTheText' /\ (passages \in Seq(Chunks))'
  BY <1>2, SameRecords DEF ContentInv, ContentHolds
<1>12. VectorsAreTheirOwn' /\ (phase = "indexing" => AllEmbedded)'
  BY <1>2 DEF ContentInv, ContentHolds, VectorsAreTheirOwn
<1> QED
  BY <1>9, <1>10, <1>11, <1>12 DEF ContentInv, ContentHolds

\* What is left out of a list is missing.
LEMMA RemovedIsShorter ==
  ASSUME NEW S, NEW s \in Seq(S), NEW k \in DOMAIN s
  PROVE  RemoveAt(s, k) \in Seq(S) /\ Len(RemoveAt(s, k)) = Len(s) - 1
<1>1. Len(s) \in Nat /\ k \in 1..Len(s)
  OBVIOUS
<1> DEFINE a == SubSeq(s, 1, k - 1)
           b == SubSeq(s, k + 1, Len(s))
<1>2. a \in Seq(S) /\ Len(a) = k - 1
  BY <1>1
<1>3. b \in Seq(S) /\ Len(b) = Len(s) - k
  BY <1>1
<1> HIDE DEF a, b
<1>4. a \o b \in Seq(S) /\ Len(a \o b) = Len(s) - 1
  BY <1>1, <1>2, <1>3
<1> QED
  BY <1>4 DEF RemoveAt, a, b

\* An answer has for every text its own vector or an empty one, or misses one.
LEMMA AnswersAreTheirs ==
  ASSUME NEW S, NEW n \in Nat, NEW texts \in Seq(Seq(S)), Len(texts) = n,
         NEW answer \in Answers(texts)
  PROVE  /\ answer \in Seq(Seq(S))
         /\ \/ Len(answer) = n /\ \A k \in 1..n : answer[k] \in {texts[k], Bare}
            \/ Len(answer) = n - 1
<1>1. ASSUME NEW bare \in SUBSET DOMAIN texts
      PROVE  /\ Given(texts, bare) \in Seq(Seq(S)) /\ Len(Given(texts, bare)) = n
             /\ \A k \in 1..n : Given(texts, bare)[k] \in {texts[k], Bare}
  <2>1. DOMAIN texts = 1..n /\ Bare \in Seq(S) /\ \A k \in 1..n : texts[k] \in Seq(S)
    BY DEF Bare
  <2>2. /\ Given(texts, bare) \in [1..n -> Seq(S)]
        /\ \A k \in 1..n : Given(texts, bare)[k] \in {texts[k], Bare}
    BY <2>1 DEF Given
  <2> QED
    BY <2>2
<1>2. PICK bare \in SUBSET DOMAIN texts :
        \/ answer = Given(texts, bare)
        \/ \E k \in DOMAIN texts : answer = RemoveAt(Given(texts, bare), k)
  BY DEF Answers
<1>3. CASE answer = Given(texts, bare)
  BY <1>1, <1>3
<1>4. CASE \E k \in DOMAIN texts : answer = RemoveAt(Given(texts, bare), k)
  <2>1. PICK k \in DOMAIN texts : answer = RemoveAt(Given(texts, bare), k)
    BY <1>4
  <2>2. Given(texts, bare) \in Seq(Seq(S)) /\ k \in DOMAIN Given(texts, bare)
    BY <1>1 DEF Given
  <2> QED
    BY <1>1, <2>1, <2>2, RemovedIsShorter
<1> QED
  BY <1>2, <1>3, <1>4

\* A batch that is answered whole adds the vectors of the passages that were sent; one that is
\* not leaves less than was sent, for good.
LEMMA BatchKeeps == ASSUME ContentInv, EmbedBatch PROVE ContentInv'
<1> DEFINE pending == embedding.pending
           sent == embedding.sent
           made == embedding.made
           last == Min({sent + BatchSize, Len(pending)})
           batch == SubSeq(pending, sent + 1, last)
           texts == [k \in DOMAIN batch |-> passages[batch[k]].words]
<1>1. /\ embedding.busy /\ sent < Len(pending)
      /\ UNCHANGED <<document, phase, records, passages, vectors, embedCache, searchable, tries>>
  BY DEF EmbedBatch
<1>2. PICK answer \in Answers(texts) :
        embedding' = [embedding EXCEPT !.sent = last, !.made = @ \o answer]
  BY DEF EmbedBatch
<1>3. /\ embedding \in [busy : BOOLEAN, redis : BOOLEAN, pending : Seq(Nat), sent : Nat,
                        made : Seq(Seq(Tokens))]
      /\ phase = "embedding" /\ passages \in Seq(Chunks)
      /\ \A k \in DOMAIN pending : pending[k] \in DOMAIN passages
      /\ Len(made) = sent => \A k \in 1..sent : made[k] \in {passages[pending[k]].words, Bare}
  BY <1>1 DEF ContentInv, EmbeddingOK
<1>4. /\ pending \in Seq(Nat) /\ sent \in Nat /\ made \in Seq(Seq(Tokens))
      /\ Len(pending) \in Nat /\ Len(made) \in Nat /\ Len(made) <= sent
      /\ DOMAIN pending = 1..Len(pending)
  BY <1>3 DEF ContentInv, ContentTypeOK
<1>5. last \in sent + 1 .. Len(pending) /\ last \in Nat
  <2> DEFINE T == {sent + BatchSize, Len(pending)}
             m == IF sent + BatchSize < Len(pending) THEN sent + BatchSize ELSE Len(pending)
  <2>1. BatchSize \in Nat \ {0}
    BY ContentAssumption
  <2>2. m \in T /\ \A y \in T : m <= y
    BY <1>4, <2>1
  <2>3. T \in SUBSET Int /\ IsFiniteSet(T)
    <3>1. T = {sent + BatchSize} \cup {Len(pending)}
      OBVIOUS
    <3>2. IsFiniteSet({sent + BatchSize})
      BY FS_Singleton
    <3>3. IsFiniteSet({sent + BatchSize} \cup {Len(pending)})
      BY <3>2, FS_AddElement
    <3> QED
      BY <1>4, <2>1, <3>1, <3>3
  <2>4. Min(T) \in T
    BY <2>3, ExtremesAreMembers
  <2>5. \A t \in T : t \in sent + 1 .. Len(pending) \/ t = sent + BatchSize
    BY <1>1, <1>4
  <2>6. Min(T) <= Len(pending)
    BY <2>3, ExtremesAreMembers
  <2> QED
    BY <1>1, <1>4, <2>1, <2>4, <2>6
<1> HIDE DEF last
<1>6. /\ batch \in Seq(Nat) /\ Len(batch) = last - sent /\ DOMAIN batch = 1..last - sent
      /\ \A k \in 1..last - sent : batch[k] = pending[sent + k] /\ sent + k \in 1..Len(pending)
  <2> HIDE DEF pending, sent
  <2> QED
    BY <1>4, <1>5
<1> HIDE DEF batch
<1>7. /\ texts \in Seq(Seq(Tokens)) /\ Len(texts) = last - sent /\ last - sent \in Nat
      /\ DOMAIN texts = 1..last - sent
      /\ \A k \in 1..last - sent : texts[k] = passages[pending[sent + k]].words
  <2>1. \A k \in 1..last - sent : batch[k] \in DOMAIN passages
    BY <1>3, <1>4, <1>6
  <2>2. \A k \in 1..last - sent : passages[batch[k]].words \in Seq(Tokens)
    BY <1>3, <2>1, PassagePlaces
  <2>3. texts = [k \in 1..last - sent |-> passages[batch[k]].words]
    BY <1>6
  <2>4. last - sent \in Nat
    BY <1>4, <1>5
  <2> DEFINE n == last - sent
  <2> HIDE DEF texts, pending, sent, n
  <2>5. texts \in Seq(Seq(Tokens)) /\ Len(texts) = n /\ DOMAIN texts = 1..n
    BY <2>2, <2>3, <2>4 DEF n
  <2>6. \A k \in 1..last - sent : texts[k] = passages[batch[k]].words
    BY <2>3
  <2> QED
    BY <1>6, <2>4, <2>5, <2>6 DEF n
<1> HIDE DEF texts
<1> DEFINE all == made \o answer
<1>8. /\ answer \in Seq(Seq(Tokens))
      /\ \/ Len(answer) = last - sent
            /\ \A k \in 1..last - sent : answer[k] \in {texts[k], Bare}
         \/ Len(answer) = last - sent - 1
  <2>1. answer \in Answers(texts)
    BY <1>2 DEF texts, batch
  <2> HIDE DEF pending, sent, made, all
  <2> QED
    BY <1>7, <2>1, AnswersAreTheirs
<1>9. /\ all \in Seq(Seq(Tokens)) /\ Len(all) <= last
      /\ Len(all) = last => /\ Len(made) = sent /\ Len(answer) = last - sent
                            /\ \A k \in 1..last - sent : answer[k] \in {texts[k], Bare}
  <2> HIDE DEF made, sent, pending
  <2>1. all \in Seq(Seq(Tokens)) /\ Len(all) = Len(made) + Len(answer) /\ Len(answer) \in Nat
    BY <1>4, <1>8
  <2> HIDE DEF all
  <2>2. Len(made) <= sent /\ {Len(made), last, sent} \subseteq Nat
    BY <1>4, <1>5
  <2> QED
    BY <1>8, <2>1, <2>2
<1>10. ASSUME Len(all) = last, NEW k \in 1..last
       PROVE  all[k] \in {passages[pending[k]].words, Bare}
  <2>1. /\ Len(made) = sent /\ Len(answer) = last - sent
        /\ \A l \in 1..last - sent : answer[l] \in {texts[l], Bare}
    BY <1>9, <1>10
  <2> HIDE DEF made, sent, pending
  <2>2. all[k] = IF k <= sent THEN made[k] ELSE answer[k - sent]
    <3>1. made \in Seq(Seq(Tokens)) /\ answer \in Seq(Seq(Tokens)) /\ Len(made) = sent
      BY <1>4, <1>8, <2>1
    <3>2. k \in 1..Len(made) + Len(answer)
      BY <1>4, <1>5, <2>1
    <3>3. (made \o answer)[k] = IF k <= Len(made) THEN made[k] ELSE answer[k - Len(made)]
      BY ONLY <3>1, <3>2
    <3> QED
      BY <3>1, <3>3 DEF all
  <2>3. k <= sent => k \in 1..sent
    BY <1>4, <1>5
  <2>4. ~(k <= sent) => k - sent \in 1..last - sent /\ sent + (k - sent) = k
    BY <1>4, <1>5
  <2>5. k \in 1..sent => made[k] \in {passages[pending[k]].words, Bare}
    BY <1>3, <2>1 DEF made, sent, pending
  <2> HIDE DEF all
  <2>6. CASE k <= sent
    BY <2>2, <2>3, <2>5, <2>6
  <2>7. CASE ~(k <= sent)
    <3> DEFINE l == k - sent
    <3>1. l \in 1..last - sent /\ sent + l = k
      BY <2>4, <2>7
    <3>2. all[k] = answer[l]
      BY <2>2, <2>7
    <3>3. answer[l] \in {texts[l], Bare} /\ texts[l] = passages[pending[sent + l]].words
      BY <1>7, <2>1, <3>1
    <3> HIDE DEF l
    <3> QED
      BY <3>1, <3>2, <3>3
  <2> QED
    BY <2>6, <2>7
<1> HIDE DEF all
<1>11. /\ embedding'.busy = embedding.busy /\ embedding'.redis = embedding.redis
       /\ embedding'.pending = pending /\ embedding'.sent = last /\ embedding'.made = all
       /\ embedding' \in [busy : BOOLEAN, redis : BOOLEAN, pending : Seq(Nat), sent : Nat,
                          made : Seq(Seq(Tokens))]
  <2>1. embedding' = [embedding EXCEPT !.sent = last, !.made = all]
    BY <1>2 DEF all
  <2> QED
    BY <1>3, <1>5, <1>9, <2>1
<1>12. EmbeddingOK'
  <2>1. /\ \A k, l \in DOMAIN pending : pending[k] = pending[l] => k = l
        /\ DOMAIN vectors = DOMAIN passages
        /\ \A i \in DOMAIN passages :
             vectors[i] \in {passages[i].words, Bare} \/ \E k \in DOMAIN pending : pending[k] = i
    BY <1>1 DEF ContentInv, EmbeddingOK
  <2>2. Len(all) = last => \A k \in 1..last : all[k] \in {passages[pending[k]].words, Bare}
    BY <1>10
  <2> HIDE DEF pending
  <2>3. phase' = "embedding" /\ UNCHANGED <<passages, vectors>> /\ embedding'.busy
    BY <1>1, <1>2, <1>3, <1>11
  <2>4. /\ \A k \in DOMAIN pending : pending[k] \in DOMAIN passages
        /\ embedding' \in [busy : BOOLEAN, redis : BOOLEAN, pending : Seq(Nat), sent : Nat,
                            made : Seq(Seq(Tokens))]
    BY <1>3, <1>11
  <2> HIDE DEF last, all
  <2> QED
    BY <1>11, <2>1, <2>2, <2>3, <2>4 DEF EmbeddingOK
<1>13. ContentTypeOK'
  <2> HIDE DEF pending
  <2> QED
    BY <1>1, <1>4, <1>5, <1>9, <1>11 DEF ContentInv, ContentTypeOK
<1>14. RecordsOK' /\ EnrichmentKeepsToBudget' /\ PassagesKeepTheText' /\ (passages \in Seq(Chunks))'
  BY <1>1, SameRecords DEF ContentInv, ContentHolds
<1>15. VectorsAreTheirOwn' /\ (phase = "indexing" => AllEmbedded)'
  BY <1>1, <1>3 DEF ContentInv, ContentHolds, VectorsAreTheirOwn
<1> QED
  BY <1>12, <1>13, <1>14, <1>15 DEF ContentInv, ContentHolds

\* A place of a list without repetitions is found by what it has.
LEMMA PlaceIsFound ==
  ASSUME NEW S, NEW s \in Seq(S), \A k, l \in DOMAIN s : s[k] = s[l] => k = l,
         NEW k \in DOMAIN s
  PROVE  SelectInSeq(s, LAMBDA j : j = s[k]) = k
<1> DEFINE at == {i \in 1..Len(s) : s[i] = s[k]}
<1>1. DOMAIN s = 1..Len(s) /\ Len(s) \in Nat
  OBVIOUS
<1>2. at = {k}
  BY <1>1
<1>3. at \in SUBSET Int /\ IsFiniteSet(at) /\ at # {}
  <2>1. IsFiniteSet({k})
    BY FS_Singleton
  <2>2. k \in Int
    BY <1>1
  <2> HIDE DEF at
  <2> QED
    BY <1>2, <2>1, <2>2
<1>4. Min(at) = k
  <2> HIDE DEF at
  <2>1. Min(at) \in at
    BY <1>3, ExtremesAreMembers
  <2> QED
    BY <1>2, <2>1
<1> QED
  BY <1>3, <1>4 DEF SelectInSeq

\* When nothing is missing, every passage gets the vector of its own words.
LEMMA StoreKeeps == ASSUME ContentInv, StoreVectors PROVE ContentInv'
<1> DEFINE pending == embedding.pending
           made == embedding.made
<1>1. /\ embedding.busy /\ embedding.sent = Len(pending) /\ Len(made) = Len(pending)
      /\ vectors' = AllVectors
      /\ embedCache' = IF ~embedding.redis THEN embedCache
                       ELSE NewEntries \cup {e \in embedCache : \A n \in NewEntries : n.of # e.of}
      /\ embedding' = NoBatch /\ phase' = "indexing"
      /\ UNCHANGED <<document, records, passages, searchable, tries>>
  BY DEF StoreVectors
<1>2. /\ pending \in Seq(Nat) /\ Len(pending) \in Nat /\ DOMAIN pending = 1..Len(pending)
      /\ phase = "embedding"
      /\ \A k \in DOMAIN pending : pending[k] \in DOMAIN passages
      /\ \A k, l \in DOMAIN pending : pending[k] = pending[l] => k = l
      /\ DOMAIN vectors = DOMAIN passages
      /\ \A i \in DOMAIN passages :
           vectors[i] \in {passages[i].words, Bare} \/ \E k \in DOMAIN pending : pending[k] = i
      /\ \A k \in DOMAIN pending : made[k] \in {passages[pending[k]].words, Bare}
  <2>1. embedding \in [busy : BOOLEAN, redis : BOOLEAN, pending : Seq(Nat), sent : Nat,
                       made : Seq(Seq(Tokens))]
    BY DEF ContentInv, EmbeddingOK
  <2>2. pending \in Seq(Nat)
    BY <2>1
  <2>3. Len(pending) \in Nat /\ DOMAIN pending = 1..Len(pending)
    BY <2>2
  <2> QED
    BY <1>1, <2>2, <2>3 DEF ContentInv, EmbeddingOK
<1>3. ASSUME NEW i, \E k \in DOMAIN pending : pending[k] = i
      PROVE  Made(i) \in {passages[i].words, Bare} /\ i \in DOMAIN passages
  <2>1. PICK k \in DOMAIN pending : pending[k] = i
    BY <1>3
  <2>2. SelectInSeq(pending, LAMBDA j : j = pending[k]) = k
    <3> HIDE DEF pending
    <3> QED
      BY <1>2, PlaceIsFound
  <2>3. Made(i) = made[k]
    BY <2>1, <2>2 DEF Made
  <2> QED
    BY <1>2, <2>1, <2>3
<1>4. \A i : Contains(pending, i) <=> \E k \in DOMAIN pending : pending[k] = i
  BY <1>2 DEF Contains
<1>5. DOMAIN vectors' = DOMAIN passages /\ \A i \in DOMAIN passages : vectors'[i] \in {passages[i].words, Bare}
  <2>1. vectors' = [i \in DOMAIN vectors |-> IF Contains(pending, i) THEN Made(i) ELSE vectors[i]]
    BY <1>1 DEF AllVectors
  <2>2. DOMAIN vectors' = DOMAIN passages
    BY <1>2, <2>1
  <2>3. \A i \in DOMAIN passages : vectors'[i] = IF Contains(pending, i) THEN Made(i) ELSE vectors[i]
    BY <1>2, <2>1
  <2> HIDE DEF pending, made
  <2> QED
    BY <1>2, <1>3, <1>4, <2>2, <2>3
<1>6. \A e \in NewEntries : e.vector \in {e.of.words, Bare}
  <2> SUFFICES ASSUME NEW i \in ToSet(pending)
               PROVE  LET e == [of |-> passages[i], vector |-> Made(i)]
                       IN e.vector \in {e.of.words, Bare}
    BY DEF NewEntries
  <2>1. \E k \in DOMAIN pending : pending[k] = i
    BY DEF ToSet
  <2>2. Made(i) \in {passages[i].words, Bare}
    BY <1>3, <2>1
  <2> QED
    BY <2>2
<1>7. \A e \in embedCache' : e.vector \in {e.of.words, Bare}
  BY <1>1, <1>6 DEF ContentInv, ContentHolds, VectorsAreTheirOwn
<1>8. /\ NoBatch \in [busy : BOOLEAN, redis : BOOLEAN, pending : Seq(Nat), sent : Nat,
                      made : Seq(Seq(Tokens))]
      /\ ~NoBatch.busy /\ NoBatch.pending = <<>> /\ NoBatch.sent = 0 /\ NoBatch.made = <<>>
  BY DEF NoBatch
<1>9. EmbeddingOK' /\ ContentTypeOK'
  BY <1>1, <1>8 DEF ContentInv, EmbeddingOK, ContentTypeOK
<1>10. RecordsOK' /\ EnrichmentKeepsToBudget' /\ PassagesKeepTheText' /\ (passages \in Seq(Chunks))'
  BY <1>1, <1>2, SameRecords DEF ContentInv, ContentHolds
<1>11. VectorsAreTheirOwn' /\ AllEmbedded'
  BY <1>1, <1>5, <1>7 DEF VectorsAreTheirOwn, AllEmbedded
<1> QED
  BY <1>9, <1>10, <1>11 DEF ContentInv, ContentHolds

LEMMA IndexKeeps == ASSUME ContentInv, IndexPoints PROVE ContentInv'
<1>1. /\ phase = "indexing" /\ phase' = "indexed"
      /\ searchable' = {Point(i) : i \in DOMAIN passages}
      /\ UNCHANGED <<document, records, passages, embedding, vectors, embedCache, tries>>
  BY DEF IndexPoints
<1>2. \A i \in DOMAIN passages : vectors[i] = passages[i].words
  BY <1>1 DEF ContentInv, AllEmbedded, IndexPoints
<1>3. \A i \in DOMAIN passages : Point(i) = [of |-> passages[i], vector |-> passages[i].words]
  BY <1>2 DEF Point
<1>4. searchable' = {[of |-> c, vector |-> c.words] : c \in ToSet(passages)}
  <2>1. searchable' = {[of |-> passages[i], vector |-> passages[i].words] : i \in DOMAIN passages}
    BY <1>1, <1>3
  <2> QED
    BY <2>1 DEF ToSet
<1>5. VectorsAreTheirOwn'
  BY <1>1, <1>4 DEF ContentInv, ContentHolds, VectorsAreTheirOwn
<1>6. RecordsOK' /\ EnrichmentKeepsToBudget' /\ PassagesKeepTheText' /\ (passages \in Seq(Chunks))'
  BY <1>1, SameRecords DEF ContentInv, ContentHolds
<1>7. EmbeddingOK' /\ ContentTypeOK' /\ (phase = "indexing" => AllEmbedded)'
  BY <1>1 DEF ContentInv, EmbeddingOK, ContentTypeOK, NoBatch
<1> QED
  BY <1>5, <1>6, <1>7 DEF ContentInv, ContentHolds

\* What an attempt leaves for the next: nothing, or the records and the passages, and the
\* vectors only when all are there.
LEMMA FailKeepsContent == ASSUME ContentInv, AttemptFails PROVE ContentInv'
<1>1. /\ phase # "indexed" /\ tries < MaxTries /\ tries' = tries + 1
      /\ UNCHANGED <<document, passages, embedCache, searchable>>
  BY DEF AttemptFails
<1>2. /\ NoBatch \in [busy : BOOLEAN, redis : BOOLEAN, pending : Seq(Nat), sent : Nat,
                      made : Seq(Seq(Tokens))]
      /\ ~NoBatch.busy /\ NoBatch.pending = <<>> /\ NoBatch.sent = 0 /\ NoBatch.made = <<>>
  BY DEF NoBatch
<1>3. tries' \in 0..MaxTries
  BY <1>1, ContentAssumption DEF ContentInv, ContentTypeOK
<1>4. embedding' = NoBatch
  BY DEF AttemptFails, Again
<1>5. EmbeddingOK'
  BY <1>2, <1>4 DEF EmbeddingOK
<1>6. CASE Again("extracting")
  <2>1. phase' = "extracting" /\ records' = <<>>
    BY <1>6 DEF Again
  <2>2. ContentTypeOK'
    <3>1. document \in Seq(Pages) /\ Len(document) \in Nat
      BY ContentAssumption DEF ContentInv, ContentTypeOK
    <3> QED
      BY <1>1, <1>2, <1>3, <1>4, <2>1, <3>1 DEF ContentInv, ContentTypeOK
  <2>3. RecordsOK' /\ EnrichmentKeepsToBudget' /\ PassagesKeepTheText'
    BY <2>1 DEF RecordsOK, EnrichmentKeepsToBudget, PassagesKeepTheText
  <2>4. VectorsAreTheirOwn' /\ (phase = "indexing" => AllEmbedded)' /\ (passages \in Seq(Chunks))'
    BY <1>1, <2>1 DEF ContentInv, ContentHolds, VectorsAreTheirOwn
  <2> QED
    BY <1>5, <2>2, <2>3, <2>4 DEF ContentInv, ContentHolds
<1>7. CASE \E p \in {"chunking", "embedding", "indexing"} :
             Again(p) /\ (p = phase \/ (phase = "indexing" /\ p = "embedding"))
  <2>1. /\ phase' \in {"chunking", "embedding", "indexing"} /\ UNCHANGED records
        /\ phase' = phase \/ (phase = "indexing" /\ phase' = "embedding")
        /\ phase' = "indexing" => UNCHANGED vectors
    BY <1>7 DEF Again
  <2>2. ContentTypeOK'
    BY <1>1, <1>2, <1>3, <1>4, <2>1 DEF ContentInv, ContentTypeOK
  <2>3. RecordsOK' /\ EnrichmentKeepsToBudget' /\ PassagesKeepTheText'
    BY <1>1, <2>1, SameRecords DEF ContentInv, ContentHolds
  <2>4. VectorsAreTheirOwn' /\ (phase = "indexing" => AllEmbedded)' /\ (passages \in Seq(Chunks))'
    BY <1>1, <2>1 DEF ContentInv, ContentHolds, VectorsAreTheirOwn, AllEmbedded
  <2> QED
    BY <1>5, <2>2, <2>3, <2>4 DEF ContentInv, ContentHolds
<1> QED
  BY <1>6, <1>7 DEF AttemptFails

LEMMA StayKeepsContent == ASSUME ContentInv, UNCHANGED contentVars PROVE ContentInv'
<1>1. UNCHANGED <<document, phase, records, passages, embedding, vectors, embedCache, searchable,
                  tries>>
  BY DEF contentVars
<1>2. RecordsOK' /\ EnrichmentKeepsToBudget' /\ PassagesKeepTheText' /\ (passages \in Seq(Chunks))'
  BY <1>1, SameRecords DEF ContentInv, ContentHolds
<1>3. /\ ContentTypeOK' /\ EmbeddingOK' /\ (phase = "indexing" => AllEmbedded)'
      /\ VectorsAreTheirOwn'
  BY <1>1 DEF ContentInv, ContentHolds, ContentTypeOK, EmbeddingOK, AllEmbedded,
              VectorsAreTheirOwn, NoBatch
<1> QED
  BY <1>2, <1>3 DEF ContentInv, ContentHolds

LEMMA ContentStep == ContentInv /\ [ContentNext]_contentVars => ContentInv'
<1> SUFFICES ASSUME ContentInv, [ContentNext]_contentVars PROVE ContentInv'
  OBVIOUS
<1>1. CASE ExtractPdfPage
  BY <1>1, PdfPageKeeps
<1>2. CASE ExtractSlide
  BY <1>2, SlideKeeps
<1>3. CASE ExtractFlat
  BY <1>3, FlatKeeps
<1>4. CASE EndExtraction
  BY <1>4, EndKeeps
<1>5. CASE ChunkContent
  BY <1>5, ChunkKeeps
<1>6. CASE LookUpVectors
  BY <1>6, LookUpKeeps
<1>7. CASE EmbedBatch
  BY <1>7, BatchKeeps
<1>8. CASE StoreVectors
  BY <1>8, StoreKeeps
<1>9. CASE IndexPoints
  BY <1>9, IndexKeeps
<1>10. CASE AttemptFails
  BY <1>10, FailKeepsContent
<1>11. CASE UNCHANGED contentVars
  BY <1>11, StayKeepsContent
<1> QED
  BY <1>1, <1>2, <1>3, <1>4, <1>5, <1>6, <1>7, <1>8, <1>9, <1>10, <1>11 DEF ContentNext

\* What an attempt finds, it can go on from: the records are of the document and told apart by
\* their numbers, the vectors at hand and in the cache are those of their own passages, or empty.
THEOREM SpecContentInv == ContentSpec => []ContentInv
BY InitContent, ContentStep, PTL DEF ContentSpec

\* What students can search is what the files say, at a bounded price: whatever fails and is
\* run again, no page is described over the budget, no word of a page is lost but those of
\* boilerplate, and no passage is indexed under the vector of another.
THEOREM SpecContentHolds == ContentSpec => []ContentHolds
<1>1. ContentInv => ContentHolds
  BY DEF ContentInv
<1> QED
  BY <1>1, SpecContentInv, PTL
=============================================================================
