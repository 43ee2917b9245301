---------------------------- MODULE Paging_proofs ----------------------------
(***************************************************************************)
(* Proofs about Paging, for listings and pages of any length and without   *)
(* the bounds on what others do meanwhile.                                 *)
(***************************************************************************)
EXTENDS Paging, FiniteSetTheorems, TLAPS

\* How many of a set come before a place.
Below(S, i) == {j \in S : j < i}

\* The rank of a place is a number: that of the items before it.
LEMMA RankIsBelow ==
  ASSUME TypeOK, NEW i \in Nat
  PROVE  /\ Rank(i) = Cardinality(Below(items, i))
         /\ IsFiniteSet(Below(items, i))
         /\ Rank(i) \in Nat
  <1>1. IsFiniteSet(items) /\ Below(items, i) \in SUBSET items
    BY DEF TypeOK, Below
  <1>2. IsFiniteSet(Below(items, i))
    BY <1>1, FS_Subset
  <1> QED
    BY <1>2, FS_CardinalityType DEF Rank, Below

\* As many numbers lie from a to below b as b is above a.
LEMMA CountOfInterval ==
  ASSUME NEW a \in Nat, NEW b \in Nat
  PROVE  /\ IsFiniteSet(a..(b - 1))
         /\ Cardinality(a..(b - 1)) = IF a >= b THEN 0 ELSE b - a
  <1> DEFINE e == b - 1
  <1>1. e \in Int /\ a \in Int
    OBVIOUS
  <1> HIDE DEF e
  <1>2. IsFiniteSet(a..e) /\ Cardinality(a..e) = IF a > e THEN 0 ELSE e - a + 1
    BY <1>1, FS_Interval
  <1> QED
    BY <1>2 DEF e

\* Ranks follow the order of the items, and are fewer than the items.
LEMMA RankOrder ==
  ASSUME TypeOK, NEW i \in items, NEW j \in items, i < j
  PROVE  Rank(i) < Rank(j)
  <1>1. i \in Nat /\ j \in Nat
    BY PlacesAssumption DEF TypeOK
  <1>2. Below(items, i) \in SUBSET Below(items, j)
    <2> SUFFICES ASSUME NEW k \in items, k < i PROVE k < j
      BY DEF Below
    <2>1. k \in Nat
      BY PlacesAssumption DEF TypeOK
    <2> QED
      BY <1>1, <2>1
  <1>3. i \in Below(items, j) /\ i \notin Below(items, i)
    BY <1>1 DEF Below
  <1>4. Rank(i) <= Rank(j) /\ (Rank(i) = Rank(j) => Below(items, i) = Below(items, j))
    BY <1>1, <1>2, RankIsBelow, FS_Subset
  <1> QED
    BY <1>1, <1>3, <1>4, RankIsBelow

\* No two items have the same rank.
LEMMA RankIsPlace ==
  ASSUME TypeOK, NEW i \in items, NEW j \in items, Rank(i) = Rank(j)
  PROVE  i = j
  <1>1. i \in Nat /\ j \in Nat
    BY PlacesAssumption DEF TypeOK
  <1>2. Rank(i) \in Nat /\ Rank(j) \in Nat
    BY <1>1, RankIsBelow
  <1> QED
    BY <1>1, <1>2, RankOrder

\* The ranks are the numbers below that of the items.
LEMMA RankRange ==
  ASSUME TypeOK, NEW i \in items
  PROVE  /\ Cardinality(items) \in Nat
         /\ Rank(i) \in 0..(Cardinality(items) - 1)
  <1>1. IsFiniteSet(items) /\ i \in Nat
    BY PlacesAssumption DEF TypeOK
  <1>2. Below(items, i) \in SUBSET items /\ Below(items, i) # items
    BY <1>1 DEF Below
  <1>3. Rank(i) <= Cardinality(items) /\ Rank(i) # Cardinality(items)
    BY <1>1, <1>2, RankIsBelow, FS_Subset
  <1> QED
    BY <1>1, <1>3, RankIsBelow, FS_CardinalityType

\* Every number below that of the items is the rank of one.
LEMMA RankOnto ==
  ASSUME TypeOK, NEW r \in Nat, r < Cardinality(items)
  PROVE  \E i \in items : Rank(i) = r
  <1> DEFINE n == Cardinality(items)
             f == [i \in items |-> Rank(i)]
             V == 0..(n - 1)
  <1>1. IsFiniteSet(items) /\ n \in Nat
    BY FS_CardinalityType DEF TypeOK
  <1>2. f \in [items -> V]
    BY RankRange
  <1>3. \A i, j \in items : f[i] = f[j] => i = j
    BY RankIsPlace
  <1>4. f \in Injection(items, V)
    BY <1>2, <1>3 DEF Injection, IsInjective
  <1>5. IsFiniteSet(V) /\ Cardinality(V) = n
    BY <1>1, CountOfInterval
  <1>6. f \in Surjection(items, V)
    BY <1>1, <1>4, <1>5, FS_Injection
  <1>7. r \in V
    BY <1>1
  <1> QED
    BY <1>6, <1>7 DEF Surjection

\* A page holds its items in a row: as many as asked for, or all that are left.
LEMMA PageIsRun ==
  ASSUME TypeOK, NEW n \in Nat
  PROVE  /\ IsFiniteSet(Page(n)) /\ Cardinality(Page(n)) \in Nat
         /\ Page(n) \subseteq items
         /\ Cardinality(Page(n)) <= n
         /\ \A i \in Page(n) : Rank(i) < offset + Cardinality(Page(n))
  <1> DEFINE c == Cardinality(items)
             end == IF offset + n <= c THEN offset + n ELSE c
             V == offset..(end - 1)
             f == [i \in Page(n) |-> Rank(i)]
  <1>1. IsFiniteSet(items) /\ c \in Nat /\ offset \in Nat
    BY FS_CardinalityType DEF TypeOK
  <1>2. Page(n) \in SUBSET items
    BY DEF Page
  <1>3. IsFiniteSet(Page(n)) /\ Cardinality(Page(n)) \in Nat
    BY <1>1, <1>2, FS_Subset, FS_CardinalityType
  <1>4. \A i \in Page(n) : Rank(i) \in V
    BY <1>1, RankRange DEF Page
  <1>5. f \in [Page(n) -> V] /\ \A i, j \in Page(n) : f[i] = f[j] => i = j
    BY <1>2, <1>4, RankIsPlace
  <1>6. \A v \in V : \E i \in Page(n) : f[i] = v
    <2> SUFFICES ASSUME NEW v \in V PROVE \E i \in Page(n) : f[i] = v
      OBVIOUS
    <2>1. v \in Nat /\ v < c /\ offset <= v /\ v < offset + n
      BY <1>1
    <2>2. PICK i \in items : Rank(i) = v
      BY <2>1, RankOnto
    <2> QED
      BY <2>1, <2>2 DEF Page
  <1>7. f \in Bijection(Page(n), V)
    BY <1>5, <1>6 DEF Bijection, Injection, IsInjective, Surjection
  <1>8. Cardinality(V) = Cardinality(Page(n))
    BY <1>3, <1>7, FS_Bijection DEF ExistsBijection
  <1>9. end \in Nat /\ Cardinality(V) = IF offset >= end THEN 0 ELSE end - offset
    <2>1. end \in Nat
      BY <1>1
    <2> HIDE DEF end
    <2> QED
      BY <1>1, <2>1, CountOfInterval
  <1> QED
    BY <1>1, <1>2, <1>3, <1>4, <1>8, <1>9

-----------------------------------------------------------------------------
\* The first state has the right types,
LEMMA InitType == Init => TypeOK
  BY LimitAssumption, UnwantedAssumption, InitialAssumption DEF Init, TypeOK

\* an answer keeps them,
LEMMA FetchType ==
  ASSUME TypeOK, Fetch
  PROVE  TypeOK'
  <1>1. PICK n \in 1..Limit :
          /\ got' = got \cup Kept(Page(n))
          /\ repeats' = repeats + Cardinality(got \cap Page(n))
          /\ offset' = offset + Cardinality(Page(n))
    BY DEF Fetch, Advance
  <1>2. n \in Nat
    BY LimitAssumption
  <1>3. IsFiniteSet(Page(n)) /\ Cardinality(Page(n)) \in Nat /\ Page(n) \subseteq items
    BY <1>2, PageIsRun
  <1>4. Cardinality(got \cap Page(n)) \in Nat
    BY <1>3, FS_Intersection, FS_CardinalityType
  <1>5. total' \in Nat
    BY FS_CardinalityType DEF Fetch, Total, TypeOK
  <1>6. got' \subseteq Places \ Unwanted[kind]
    BY <1>1, <1>3 DEF Kept, TypeOK
  <1>7. state' \in {"listing", "done", "failed"}
    BY DEF Fetch
  <1> QED
    BY <1>1, <1>3, <1>4, <1>5, <1>6, <1>7 DEF Fetch, TypeOK, history

\* and so does what others do,
LEMMA OthersType ==
  ASSUME TypeOK, Insert \/ Remove
  PROVE  TypeOK'
  <1>1. IsFiniteSet(items')
    BY FS_AddElement, FS_RemoveElement DEF Insert, Remove, TypeOK
  <1>2. items' \subseteq Places /\ always' \subseteq items' \ Unwanted[kind]
    BY DEF Insert, Remove, TypeOK
  <1> QED
    BY <1>1, <1>2 DEF Insert, Remove, TypeOK

\* which is every step.
LEMMA NextType == TypeOK /\ [Next]_vars => TypeOK'
  <1> SUFFICES ASSUME TypeOK, [Next]_vars PROVE TypeOK'
    OBVIOUS
  <1>1. CASE NoData \/ Fail
    BY <1>1 DEF NoData, Fail, history, TypeOK
  <1>2. CASE UNCHANGED vars
    BY <1>2 DEF vars, TypeOK
  <1> QED
    BY <1>1, <1>2, FetchType, OthersType DEF Next

\* Every state has the right types.
THEOREM TypeCorrect == Spec => []TypeOK
  BY InitType, NextType, PTL DEF Spec

-----------------------------------------------------------------------------
\* The wanted items the offset has gone past, and the bound on those not read.
Passed == {i \in always \ got : Rank(i) < offset}

MissInv ==
  /\ TypeOK
  /\ state = "done" => \A i \in items : Rank(i) < offset
  /\ state # "failed" => Cardinality(Passed) <= removals

\* What has been passed can be counted, before a step
LEMMA PassedFinite ==
  ASSUME TypeOK
  PROVE  IsFiniteSet(Passed) /\ Cardinality(Passed) \in Nat
  <1>1. Passed \in SUBSET items /\ IsFiniteSet(items)
    BY DEF Passed, TypeOK
  <1> QED
    BY <1>1, FS_Subset, FS_CardinalityType

\* and after it.
LEMMA PassedFiniteNext ==
  ASSUME TypeOK'
  PROVE  Cardinality(Passed') \in Nat
  <1>1. Passed' \in SUBSET items' /\ IsFiniteSet(items')
    BY DEF Passed, TypeOK
  <1> QED
    BY <1>1, FS_Subset, FS_CardinalityType

\* Fewer are passed, lower is the count.
LEMMA FewerPassed ==
  ASSUME TypeOK, TypeOK', Passed' \subseteq Passed
  PROVE  Cardinality(Passed') <= Cardinality(Passed)
  BY PassedFinite, FS_Subset

\* A step that passes no more, and removes nothing, keeps the count.
LEMMA CountKept ==
  ASSUME MissInv, TypeOK', state # "failed", Passed' \subseteq Passed,
         removals' = removals
  PROVE  Cardinality(Passed') <= removals'
  <1>1. Cardinality(Passed') <= Cardinality(Passed)
    BY FewerPassed DEF MissInv
  <1>2. Cardinality(Passed) <= removals
    BY DEF MissInv
  <1>3. Cardinality(Passed') \in Nat /\ Cardinality(Passed) \in Nat
    BY PassedFinite, PassedFiniteNext DEF MissInv
  <1>4. removals \in Nat
    BY DEF MissInv, TypeOK
  <1> QED
    BY <1>1, <1>2, <1>3, <1>4

\* An answer reads all that the offset goes past.
LEMMA FetchMiss ==
  ASSUME MissInv, Fetch
  PROVE  MissInv'
  <1> USE DEF MissInv
  <1>1. TypeOK'
    BY FetchType
  <1>2. PICK n \in 1..Limit :
          /\ got' = got \cup Kept(Page(n))
          /\ offset' = offset + Cardinality(Page(n))
    BY DEF Fetch, Advance
  <1>3. n \in Nat /\ offset \in Nat
    BY LimitAssumption DEF TypeOK
  <1>4. Cardinality(Page(n)) \in Nat /\ Cardinality(Page(n)) <= n
    BY <1>3, PageIsRun
  <1>5. items' = items /\ always' = always /\ kind' = kind /\ removals' = removals
    BY DEF Fetch, history
  <1>6. \A i : Rank(i)' = Rank(i)
    BY <1>5 DEF Rank
  <1>7. Passed' \subseteq Passed
    <2> SUFFICES ASSUME NEW i \in always, i \notin got', Rank(i) < offset'
                 PROVE  Rank(i) < offset
      BY <1>2, <1>5, <1>6 DEF Passed
    <2>1. i \in items /\ i \notin Unwanted[kind] /\ i \in Nat
      BY PlacesAssumption DEF TypeOK
    <2>2. i \notin Page(n)
      BY <1>2, <2>1 DEF Kept
    <2>3. Rank(i) \in Nat
      BY <2>1, RankIsBelow
    <2> QED
      BY <1>2, <1>3, <1>4, <2>1, <2>2, <2>3 DEF Page
  <1>8. ASSUME state' = "done", NEW i \in items' PROVE Rank(i)' < offset'
    <2>1. ~(offset' < total') /\ total' = Cardinality(items)
      BY <1>8 DEF Fetch, Total
    <2>2. Rank(i) \in Nat /\ Cardinality(items) \in Nat /\ Rank(i) < Cardinality(items)
      BY <1>5, <1>8, RankRange
    <2> QED
      BY <1>1, <1>6, <2>1, <2>2 DEF TypeOK
  <1>9. state # "failed"
    BY DEF Fetch
  <1>10. Cardinality(Passed') <= removals'
    BY <1>1, <1>5, <1>7, <1>9, CountKept
  <1> QED
    BY <1>1, <1>8, <1>10

\* When there is no item at the offset there is none behind it.
LEMMA NoDataMiss ==
  ASSUME MissInv, NoData
  PROVE  MissInv'
  <1> USE DEF MissInv
  <1>1. TypeOK'
    BY NextType DEF Next
  <1>2. items' = items /\ offset' = offset /\ Passed' = Passed /\ removals' = removals
    BY DEF NoData, Passed, Rank, history
  <1>3. \A i : Rank(i)' = Rank(i)
    BY <1>2 DEF Rank
  <1>4. ASSUME NEW i \in items PROVE Rank(i) < offset
    <2>1. Rank(i) \in Nat /\ Cardinality(items) \in Nat /\ Rank(i) < Cardinality(items)
      BY RankRange
    <2>2. offset \in Nat
      BY DEF TypeOK
    <2>3. ASSUME offset < Cardinality(items) PROVE FALSE
      <3>1. PICK j \in items : Rank(j) = offset
        BY <2>2, <2>3, RankOnto
      <3>2. j \in Page(1)
        BY <2>2, <3>1 DEF Page
      <3> QED
        BY <3>2 DEF NoData
    <2> QED
      BY <2>1, <2>2, <2>3
  <1> QED
    BY <1>1, <1>2, <1>3, <1>4 DEF NoData

\* An item added moves others back.
LEMMA InsertMiss ==
  ASSUME MissInv, Insert
  PROVE  MissInv'
  <1> USE DEF MissInv
  <1>1. TypeOK'
    BY OthersType
  <1>2. UNCHANGED <<offset, got, always, removals, state>> /\ items \subseteq items'
    BY DEF Insert
  <1>3. ASSUME NEW i \in Nat PROVE Rank(i) <= Rank(i)'
    <2>1. Below(items, i) \in SUBSET Below(items', i)
      BY <1>2 DEF Below
    <2>2. IsFiniteSet(Below(items', i)) /\ Rank(i)' = Cardinality(Below(items', i))
      <3>1. IsFiniteSet(items') /\ Below(items', i) \in SUBSET items'
        BY <1>1 DEF TypeOK, Below
      <3> QED
        BY <3>1, FS_Subset DEF Rank, Below
    <2> QED
      BY <2>1, <2>2, RankIsBelow, FS_Subset
  <1>4. Passed' \subseteq Passed
    <2> SUFFICES ASSUME NEW i \in always, i \notin got, Rank(i)' < offset
                 PROVE  Rank(i) < offset
      BY <1>2 DEF Passed
    <2>1. i \in Nat /\ i \in items' /\ offset \in Nat
      BY <1>2, PlacesAssumption DEF TypeOK
    <2>2. Rank(i) \in Nat /\ Rank(i) <= Rank(i)'
      BY <1>3, <2>1, RankIsBelow
    <2>3. Rank(i)' \in Nat
      <3>1. IsFiniteSet(items') /\ Below(items', i) \in SUBSET items'
        BY <1>1 DEF TypeOK, Below
      <3> QED
        BY <3>1, FS_Subset, FS_CardinalityType DEF Rank, Below
    <2> QED
      BY <2>1, <2>2, <2>3
  <1>5. Cardinality(Passed') <= removals'
    BY <1>1, <1>2, <1>4, CountKept DEF Insert
  <1> QED
    BY <1>1, <1>2, <1>5 DEF Insert

\* An item removed moves others forward, and one past the offset at most.
LEMMA RemoveMiss ==
  ASSUME MissInv, Remove
  PROVE  MissInv'
  <1> USE DEF MissInv
  <1>1. TypeOK'
    BY OthersType
  <1>2. PICK x \in items : items' = items \ {x} /\ always' = always \ {x}
    BY DEF Remove
  <1>3. UNCHANGED <<offset, got, state>> /\ removals' = removals + 1 /\ state = "listing"
    BY DEF Remove
  <1>4. x \in Nat /\ offset \in Nat
    BY PlacesAssumption DEF TypeOK
  <1>5. ASSUME NEW i \in items PROVE Rank(i)' \in Nat /\ Rank(i) <= Rank(i)' + 1
    <2>1. i \in Nat /\ IsFiniteSet(Below(items, i))
      BY PlacesAssumption, RankIsBelow DEF TypeOK
    <2>2. Below(items', i) = Below(items, i) \ {x}
      BY <1>2 DEF Below
    <2>3. /\ IsFiniteSet(Below(items', i))
          /\ Cardinality(Below(items', i)) =
               IF x \in Below(items, i) THEN Cardinality(Below(items, i)) - 1
               ELSE Cardinality(Below(items, i))
      BY <2>1, <2>2, FS_RemoveElement
    <2>4. Rank(i)' = Cardinality(Below(items', i)) /\ Rank(i) = Cardinality(Below(items, i))
      BY DEF Rank, Below
    <2> QED
      BY <2>1, <2>3, <2>4, FS_CardinalityType
  <1>6. \E z : Passed' \subseteq Passed \cup {z}
    <2>1. \A i \in Passed' : i \in items /\ i \in always /\ i \notin got /\ Rank(i)' < offset
      BY <1>2, <1>3 DEF Passed, TypeOK
    <2>2. \A i \in Passed' : i \in Passed \/ Rank(i) = offset
      <3> SUFFICES ASSUME NEW i \in Passed', i \notin Passed PROVE Rank(i) = offset
        OBVIOUS
      <3>1. ~(Rank(i) < offset)
        BY <2>1 DEF Passed
      <3>2. i \in Nat
        BY <2>1, PlacesAssumption DEF TypeOK
      <3>3. Rank(i) \in Nat
        BY <3>2, RankIsBelow
      <3>4. Rank(i)' \in Nat /\ Rank(i) <= Rank(i)' + 1 /\ Rank(i)' < offset
        BY <1>5, <2>1
      <3>5. ASSUME NEW r \in Nat, NEW q \in Nat, NEW o \in Nat,
                   ~(r < o), r <= q + 1, q < o
            PROVE  r = o
        BY <3>5
      <3> QED
        BY <1>4, <3>1, <3>3, <3>4, <3>5
    <2>3. CASE \E z \in Passed' : Rank(z) = offset
      <3>1. PICK z \in Passed' : Rank(z) = offset
        BY <2>3
      <3>2. \A i \in Passed' : i \in Passed \/ i = z
        BY <2>1, <2>2, <3>1, RankIsPlace
      <3> QED
        BY <3>2
    <2>4. CASE ~\E z \in Passed' : Rank(z) = offset
      BY <2>2, <2>4
    <2> QED
      BY <2>3, <2>4
  <1>7. Cardinality(Passed') <= Cardinality(Passed) + 1
    <2>1. PICK z : Passed' \subseteq Passed \cup {z}
      BY <1>6
    <2>2. /\ IsFiniteSet(Passed \cup {z})
          /\ Cardinality(Passed \cup {z}) <= Cardinality(Passed) + 1
      BY PassedFinite, FS_AddElement
    <2>3. Passed' \in SUBSET (Passed \cup {z})
      BY <2>1
    <2>4. Cardinality(Passed') <= Cardinality(Passed \cup {z})
      BY <2>2, <2>3, FS_Subset
    <2>5. Cardinality(Passed \cup {z}) \in Nat
      BY <2>2, FS_CardinalityType
    <2>6. Cardinality(Passed') \in Nat
      BY <2>2, <2>3, FS_Subset, FS_CardinalityType
    <2> QED
      BY <2>2, <2>4, <2>5, <2>6, PassedFinite
  <1>8. Cardinality(Passed') \in Nat
    BY <1>1, PassedFiniteNext
  <1>9. Cardinality(Passed') <= removals'
    BY <1>3, <1>7, <1>8, PassedFinite DEF TypeOK
  <1> QED
    BY <1>1, <1>3, <1>9

\* At first nothing is passed,
LEMMA InitMiss == Init => MissInv
  <1> SUFFICES ASSUME Init PROVE MissInv
    OBVIOUS
  <1>1. TypeOK
    BY InitType
  <1>2. Passed = {}
    <2> SUFFICES ASSUME NEW i \in always, Rank(i) < offset PROVE FALSE
      BY DEF Passed
    <2>1. i \in Nat
      BY <1>1, PlacesAssumption DEF TypeOK
    <2>2. Rank(i) \in Nat
      BY <1>1, <2>1, RankIsBelow
    <2> QED
      BY <2>2 DEF Init
  <1> QED
    BY <1>1, <1>2, FS_EmptySet DEF Init, MissInv

\* and every step keeps the bound.
LEMMA NextMiss == MissInv /\ [Next]_vars => MissInv'
  <1> SUFFICES ASSUME MissInv, [Next]_vars PROVE MissInv'
    OBVIOUS
  <1>1. CASE Fail
    BY <1>1, NextType DEF Fail, Next, MissInv
  <1>2. CASE UNCHANGED vars
    BY <1>2, NextType DEF vars, MissInv, Passed, Rank
  <1> QED
    BY <1>1, <1>2, FetchMiss, NoDataMiss, InsertMiss, RemoveMiss DEF Next

\* Of the wanted items that were there throughout, a listing misses no more than
\* were removed while it ran (dnspod.go:147, privatedns.go:150).
THEOREM MissesAreFew == Spec => []MissesAreRemovals
  <1>1. MissInv => MissesAreRemovals
    <2> SUFFICES ASSUME MissInv, state # "failed" PROVE Cardinality(Missed) <= removals
      BY DEF MissesAreRemovals
    <2>1. Missed = Passed
      BY DEF MissInv, TypeOK, Missed, Passed
    <2> QED
      BY <2>1 DEF MissInv
  <1> QED
    BY <1>1, InitMiss, NextMiss, PTL DEF Spec

-----------------------------------------------------------------------------
\* The items read that the offset has yet to pass: those that will be read again.
Ahead == {i \in got \cap items : offset <= Rank(i)}

RepeatInv ==
  /\ TypeOK
  /\ repeats + Cardinality(Ahead) <= inserts

\* What lies ahead can be counted, before a step
LEMMA AheadFinite ==
  ASSUME TypeOK
  PROVE  IsFiniteSet(Ahead) /\ Cardinality(Ahead) \in Nat
  <1>1. Ahead \in SUBSET items /\ IsFiniteSet(items)
    BY DEF Ahead, TypeOK
  <1> QED
    BY <1>1, FS_Subset, FS_CardinalityType

\* and after it.
LEMMA AheadFiniteNext ==
  ASSUME TypeOK'
  PROVE  Cardinality(Ahead') \in Nat
  <1>1. Ahead' \in SUBSET items' /\ IsFiniteSet(items')
    BY DEF Ahead, TypeOK
  <1> QED
    BY <1>1, FS_Subset, FS_CardinalityType

\* A step that leaves no more ahead, and reads nothing, keeps the count.
LEMMA AheadKept ==
  ASSUME RepeatInv, TypeOK', Ahead' \subseteq Ahead,
         UNCHANGED <<repeats, inserts>>
  PROVE  RepeatInv'
  <1>1. Cardinality(Ahead') <= Cardinality(Ahead)
    BY AheadFinite, FS_Subset DEF RepeatInv
  <1>2. Cardinality(Ahead') \in Nat /\ Cardinality(Ahead) \in Nat
    BY AheadFinite, AheadFiniteNext DEF RepeatInv
  <1>3. repeats \in Nat /\ inserts \in Nat
    BY DEF RepeatInv, TypeOK
  <1> QED
    BY <1>1, <1>2, <1>3 DEF RepeatInv

\* What an answer reads again was ahead, and is no longer.
LEMMA FetchRepeat ==
  ASSUME RepeatInv, Fetch
  PROVE  RepeatInv'
  <1> USE DEF RepeatInv
  <1>1. TypeOK'
    BY FetchType
  <1>2. PICK n \in 1..Limit :
          /\ got' = got \cup Kept(Page(n))
          /\ repeats' = repeats + Cardinality(got \cap Page(n))
          /\ offset' = offset + Cardinality(Page(n))
    BY DEF Fetch, Advance
  <1> DEFINE again == got \cap Page(n)
  <1>3. n \in Nat /\ offset \in Nat /\ repeats \in Nat /\ inserts \in Nat
    BY LimitAssumption DEF TypeOK
  <1>4. /\ IsFiniteSet(Page(n)) /\ Cardinality(Page(n)) \in Nat
        /\ \A i \in Page(n) : Rank(i) < offset + Cardinality(Page(n))
    BY <1>3, PageIsRun
  <1>5. items' = items /\ inserts' = inserts
    BY DEF Fetch, history
  <1>6. \A i : Rank(i)' = Rank(i)
    BY <1>5 DEF Rank
  <1>7. ASSUME NEW i \in Ahead' PROVE i \in Ahead \ Page(n)
    <2>1. i \in got' /\ i \in items /\ offset' <= Rank(i)
      BY <1>5, <1>6 DEF Ahead
    <2>2. Rank(i) \in Nat
      BY <2>1, PlacesAssumption, RankIsBelow DEF TypeOK
    <2>3. i \notin Page(n)
      BY <1>2, <1>3, <1>4, <2>1, <2>2
    <2>4. i \in got
      BY <1>2, <2>1, <2>3 DEF Kept
    <2>5. offset <= Rank(i)
      BY <1>2, <1>3, <1>4, <2>1, <2>2
    <2> QED
      BY <2>1, <2>3, <2>4, <2>5 DEF Ahead
  <1>8. again \in SUBSET Ahead
    BY DEF Ahead, Page
  <1>9. Ahead' \in SUBSET (Ahead \ again)
    BY <1>7
  <1> HIDE DEF again
  <1>10. IsFiniteSet(Ahead) /\ Cardinality(Ahead) \in Nat
    BY AheadFinite
  <1>11. IsFiniteSet(again) /\ Cardinality(again) \in Nat
    BY <1>8, <1>10, FS_Subset, FS_CardinalityType
  <1>12. /\ IsFiniteSet(Ahead \ again)
         /\ Cardinality(Ahead \ again) = Cardinality(Ahead) - Cardinality(again)
    <2>1. Ahead \cap again = again
      BY <1>8
    <2> QED
      BY <1>10, <2>1, FS_Difference
  <1>13. Cardinality(Ahead') <= Cardinality(Ahead) - Cardinality(again)
    BY <1>9, <1>12, FS_Subset
  <1>14. Cardinality(Ahead') \in Nat
    BY <1>1, AheadFiniteNext
  <1>15. repeats' = repeats + Cardinality(again)
    BY <1>2 DEF again
  <1> QED
    BY <1>1, <1>3, <1>5, <1>10, <1>11, <1>13, <1>14, <1>15

\* An item added moves one past the offset to it at most, and none when it is
\* itself put behind.
LEMMA InsertRepeat ==
  ASSUME RepeatInv, Insert
  PROVE  RepeatInv'
  <1> USE DEF RepeatInv
  <1>1. TypeOK'
    BY OthersType
  <1>2. PICK x \in Places \ items : items' = items \cup {x}
    BY DEF Insert
  <1>3. UNCHANGED <<offset, got, repeats>> /\ inserts' = inserts + 1
    BY DEF Insert
  <1>4. /\ x \in Nat /\ offset \in Nat /\ repeats \in Nat /\ inserts \in Nat
        /\ \A i \in items' : i \in Nat
    BY <1>1, PlacesAssumption DEF TypeOK
  <1>5. ASSUME NEW i \in items'
        PROVE  /\ Rank(i) \in Nat /\ Rank(i)' \in Nat
               /\ Rank(i)' = IF x < i THEN Rank(i) + 1 ELSE Rank(i)
    <2>1. i \in Nat /\ IsFiniteSet(Below(items, i)) /\ x \notin Below(items, i)
      BY <1>2, <1>4, RankIsBelow DEF Below
    <2>2. Below(items', i) = IF x < i THEN Below(items, i) \cup {x} ELSE Below(items, i)
      BY <1>2 DEF Below
    <2>3. Cardinality(Below(items, i) \cup {x}) = Cardinality(Below(items, i)) + 1
      BY <2>1, FS_AddElement
    <2>4. Rank(i)' = Cardinality(Below(items', i)) /\ Rank(i) = Cardinality(Below(items, i))
      BY DEF Rank, Below
    <2> QED
      BY <2>1, <2>2, <2>3, <2>4, FS_CardinalityType
  <1>6. ASSUME NEW i \in Ahead', i \notin Ahead, i # x
        PROVE  i \in items /\ x < i /\ Rank(i)' = offset /\ Rank(i) + 1 = offset
    <2>1. i \in items /\ i \in items' /\ i \in got /\ offset <= Rank(i)'
      BY <1>2, <1>3, <1>6 DEF Ahead
    <2>2. ~(offset <= Rank(i))
      BY <1>6, <2>1 DEF Ahead
    <2> QED
      BY <1>4, <1>5, <2>1, <2>2
  <1>7. ASSUME NEW i \in Ahead', i \notin Ahead, i # x PROVE x \notin Ahead'
    <2>1. i \in items /\ x < i /\ Rank(i) + 1 = offset
      BY <1>6, <1>7
    <2>2. x \in items' /\ Rank(x)' = Rank(x)
      BY <1>2, <1>4, <1>5
    <2>3. Rank(x) <= Rank(i) /\ Rank(i) \in Nat /\ Rank(x) \in Nat
      <3>1. Below(items, x) \in SUBSET Below(items, i)
        <4> SUFFICES ASSUME NEW k \in items, k < x PROVE k < i
          BY DEF Below
        <4>1. k \in Nat /\ i \in Nat
          BY <1>2, <1>4, <2>1
        <4> QED
          BY <1>4, <2>1, <4>1
      <3>2. i \in Nat
        BY <1>2, <1>4, <2>1
      <3> QED
        BY <1>4, <3>1, <3>2, RankIsBelow, FS_Subset
    <2>4. ~(offset <= Rank(x)')
      BY <1>4, <2>1, <2>2, <2>3
    <2> QED
      BY <1>3, <2>4 DEF Ahead
  <1>8. \E z : Ahead' \subseteq Ahead \cup {z}
    <2>1. CASE \E z \in Ahead' : z \notin Ahead /\ z # x
      <3>1. PICK z \in Ahead' : z \notin Ahead /\ z # x
        BY <2>1
      <3>2. ASSUME NEW i \in Ahead', i \notin Ahead PROVE i = z
        <4>1. i # x
          BY <1>7, <3>1
        <4>2. i \in items /\ z \in items /\ Rank(i) + 1 = offset /\ Rank(z) + 1 = offset
          BY <1>6, <3>1, <3>2, <4>1
        <4>3. Rank(i) \in Nat /\ Rank(z) \in Nat
          BY <1>2, <1>5, <4>2
        <4>4. Rank(i) = Rank(z)
          BY <4>2, <4>3
        <4> QED
          BY <4>2, <4>4, RankIsPlace
      <3> QED
        BY <3>2
    <2>2. CASE ~\E z \in Ahead' : z \notin Ahead /\ z # x
      BY <2>2
    <2> QED
      BY <2>1, <2>2
  <1>9. Cardinality(Ahead') <= Cardinality(Ahead) + 1
    <2>1. PICK z : Ahead' \subseteq Ahead \cup {z}
      BY <1>8
    <2>2. /\ IsFiniteSet(Ahead \cup {z})
          /\ Cardinality(Ahead \cup {z}) <= Cardinality(Ahead) + 1
      <3>1. IsFiniteSet(Ahead) /\ Cardinality(Ahead) \in Nat
        BY AheadFinite
      <3>2. /\ IsFiniteSet(Ahead \cup {z})
            /\ Cardinality(Ahead \cup {z}) =
                 IF z \in Ahead THEN Cardinality(Ahead) ELSE Cardinality(Ahead) + 1
        BY <3>1, FS_AddElement
      <3> QED
        BY <3>1, <3>2
    <2>3. Ahead' \in SUBSET (Ahead \cup {z})
      BY <2>1
    <2>4. Cardinality(Ahead') <= Cardinality(Ahead \cup {z})
      BY <2>2, <2>3, FS_Subset
    <2>5. Cardinality(Ahead \cup {z}) \in Nat /\ Cardinality(Ahead') \in Nat
      BY <1>1, <2>2, AheadFiniteNext, FS_CardinalityType
    <2> QED
      BY <2>2, <2>4, <2>5, AheadFinite
  <1>10. Cardinality(Ahead') \in Nat /\ Cardinality(Ahead) \in Nat
    BY <1>1, AheadFinite, AheadFiniteNext
  <1> QED
    BY <1>1, <1>3, <1>4, <1>9, <1>10

\* An item removed moves none away from the offset.
LEMMA RemoveRepeat ==
  ASSUME RepeatInv, Remove
  PROVE  RepeatInv'
  <1> USE DEF RepeatInv
  <1>1. TypeOK'
    BY OthersType
  <1>2. UNCHANGED <<offset, got, repeats, inserts>> /\ items' \subseteq items
    BY DEF Remove
  <1>3. ASSUME NEW i \in items' PROVE Rank(i)' <= Rank(i)
    <2>1. i \in Nat
      BY <1>2, PlacesAssumption DEF TypeOK
    <2>2. Below(items', i) \in SUBSET Below(items, i)
      BY <1>2 DEF Below
    <2>3. Rank(i)' = Cardinality(Below(items', i))
      BY DEF Rank, Below
    <2> QED
      BY <2>1, <2>2, <2>3, RankIsBelow, FS_Subset
  <1>4. Ahead' \subseteq Ahead
    <2> SUFFICES ASSUME NEW i \in got \cap items', offset <= Rank(i)'
                 PROVE  offset <= Rank(i)
      BY <1>2 DEF Ahead
    <2>1. i \in Nat /\ i \in items /\ offset \in Nat
      BY <1>2, PlacesAssumption DEF TypeOK
    <2>2. Rank(i) \in Nat /\ Rank(i)' <= Rank(i)
      BY <1>3, <2>1, RankIsBelow
    <2>3. Rank(i)' \in Nat
      <3>1. IsFiniteSet(items') /\ Below(items', i) \in SUBSET items'
        BY <1>1 DEF TypeOK, Below
      <3> QED
        BY <3>1, FS_Subset, FS_CardinalityType DEF Rank, Below
    <2> QED
      BY <2>1, <2>2, <2>3
  <1> QED
    BY <1>1, <1>2, <1>4, AheadKept

\* At first nothing has been read,
LEMMA InitRepeat == Init => RepeatInv
  <1> SUFFICES ASSUME Init PROVE RepeatInv
    OBVIOUS
  <1>1. Ahead = {}
    BY DEF Init, Ahead
  <1> QED
    BY <1>1, InitType, FS_EmptySet DEF Init, RepeatInv

\* and every step keeps the bound.
LEMMA NextRepeat == RepeatInv /\ [Next]_vars => RepeatInv'
  <1> SUFFICES ASSUME RepeatInv, [Next]_vars PROVE RepeatInv'
    OBVIOUS
  <1>1. CASE NoData \/ Fail
    <2>1. Ahead' \subseteq Ahead /\ UNCHANGED <<repeats, inserts>>
      BY <1>1 DEF NoData, Fail, history, Ahead, Rank
    <2> QED
      BY <2>1, NextType, AheadKept DEF RepeatInv
  <1>2. CASE UNCHANGED vars
    BY <1>2, NextType DEF vars, RepeatInv, Ahead, Rank
  <1> QED
    BY <1>1, <1>2, FetchRepeat, InsertRepeat, RemoveRepeat DEF Next

\* A listing reads no more items twice than were added while it ran
\* (dnspod.go:147, privatedns.go:150).
THEOREM RepeatsAreFew == Spec => []RepeatsAreInserts
  <1>1. RepeatInv => RepeatsAreInserts
    BY AheadFinite DEF RepeatInv, TypeOK, RepeatsAreInserts
  <1> QED
    BY <1>1, InitRepeat, NextRepeat, PTL DEF Spec
=============================================================================
