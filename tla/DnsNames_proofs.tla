-------------------------- MODULE DnsNames_proofs --------------------------
(***************************************************************************)
(* Names, for every zone and every host: a host name is cut into sub       *)
(* domain and zone, and put together again, in one way only.  And lists:   *)
(* those of endpoints that the provider appends to one another, and finite *)
(* sets as lists, in some order or in a given one.                         *)
(***************************************************************************)
EXTENDS DnsNames, SequencesExt, SequenceTheorems, FiniteSetTheorems, TLAPS

\* The labels in front of a zone that covers a name, and the zone, are the name.
LEMMA SubDomainJoins ==
  ASSUME NEW zone \in Name, NEW name \in Name, Covers(zone, name)
  PROVE  DnsDomain(SubDomain(zone, name), zone) = name
<1> DEFINE n == Len(name) - Len(zone)
<1>1. n \in Nat /\ n <= Len(name) /\ Len(name) \in Nat
  BY DEF Covers, Name
<1>2. /\ name \in Seq(Label) /\ 1 \in 1..Len(name) + 1
      /\ n \in (1 - 1)..Len(name) /\ Len(name) \in n..Len(name)
  BY <1>1 DEF Name
<1>3. SubSeq(name, 1, n) \o SubSeq(name, n + 1, Len(name)) = SubSeq(name, 1, Len(name))
  BY <1>2, ConcatAdjacentSubSeq
<1>4. SubSeq(name, 1, Len(name)) = name
  BY SubSeqFull DEF Name
<1> QED
  BY <1>3, <1>4 DEF DnsDomain, SubDomain, Covers

\* And the other way round: a name is split at one place only.
LEMMA SubDomainOfJoin ==
  ASSUME NEW zone \in Name, NEW sub \in Name
  PROVE  SubDomain(zone, DnsDomain(sub, zone)) = sub
<1> DEFINE name == sub \o zone
<1>1. name \in Seq(Label) /\ Len(name) = Len(sub) + Len(zone)
  BY DEF Name
<1>2. Len(name) - Len(zone) = Len(sub) /\ Len(sub) \in Nat /\ Len(zone) \in Nat
  BY <1>1 DEF Name
<1>3. \A i \in 1..Len(sub) : name[i] = sub[i]
  BY DEF Name
<1>4. SubSeq(name, 1, Len(sub)) = sub
  BY <1>1, <1>2, <1>3 DEF Name
<1> QED
  BY <1>2, <1>4 DEF SubDomain, DnsDomain

\* Only the apex has the zone's own name.
LEMMA ApexHasNoSubDomain ==
  ASSUME NEW zone \in Name, NEW sub \in Name, DnsDomain(sub, zone) = zone
  PROVE  sub = <<>>
<1>1. Len(sub) = 0
  BY DEF DnsDomain, Name
<1> QED
  BY <1>1 DEF Name

\* A sub domain is a name again.
LEMMA SubDomainType ==
  ASSUME NEW zone \in Name, NEW name \in Name
  PROVE  SubDomain(zone, name) \in Name
  BY DEF SubDomain, Name
-----------------------------------------------------------------------------
(* The lists of changes, which the code appends to one another.             *)

Elements(s) == {s[i] : i \in DOMAIN s}

\* Two lists in a row: what stands at a place, and that they hold the elements of both.
LEMMA ElementsOfConcat ==
  ASSUME NEW S, NEW s \in Seq(S), NEW t \in Seq(S)
  PROVE  /\ Elements(s \o t) = Elements(s) \cup Elements(t)
         /\ s \o t \in Seq(S)
<1> DEFINE both == s \o t
<1>1. /\ both \in Seq(S)
      /\ Len(both) = Len(s) + Len(t)
      /\ \A i \in 1..Len(s) + Len(t) :
           both[i] = IF i <= Len(s) THEN s[i] ELSE t[i - Len(s)]
  BY ConcatProperties
<1> HIDE DEF both
<1>2. /\ DOMAIN s = 1..Len(s) /\ DOMAIN t = 1..Len(t)
      /\ DOMAIN both = 1..Len(s) + Len(t)
      /\ Len(s) \in Nat /\ Len(t) \in Nat
  BY <1>1, LenProperties
<1>3. ASSUME NEW i \in DOMAIN both PROVE both[i] \in Elements(s) \cup Elements(t)
  <2>1. i \in Nat /\ (i <= Len(s) => i \in 1..Len(s))
        /\ (~(i <= Len(s)) => i - Len(s) \in 1..Len(t))
    BY <1>2
  <2> QED BY <1>1, <1>2, <2>1 DEF Elements
<1>4. ASSUME NEW i \in DOMAIN s PROVE i \in DOMAIN both /\ both[i] = s[i]
  BY <1>1, <1>2
<1>5. ASSUME NEW i \in DOMAIN t
      PROVE  i + Len(s) \in DOMAIN both /\ both[i + Len(s)] = t[i]
  BY <1>1, <1>2
<1>6. Elements(both) \subseteq Elements(s) \cup Elements(t)
  BY <1>3 DEF Elements
<1>7. Elements(s) \subseteq Elements(both) /\ Elements(t) \subseteq Elements(both)
  BY <1>4, <1>5 DEF Elements
<1>8. Elements(both) = Elements(s) \cup Elements(t)
  BY <1>6, <1>7
<1> QED BY <1>1, <1>8 DEF both

\* The places of a list are numbers, and what stands there is of its kind.
LEMMA PlacesOfSeq ==
  ASSUME NEW S, NEW s \in Seq(S), NEW i \in DOMAIN s
  PROVE  i \in Nat /\ s[i] \in S
  BY LenProperties, ElementOfSeq
-----------------------------------------------------------------------------
(* Finite sets as lists.                                                     *)

\* A list as long as a finite set that repeats none of its elements has them all.
LEMMA NoneRepeated ==
  ASSUME NEW S, IsFiniteSet(S), NEW f \in [1..Cardinality(S) -> S], IsInjective(f)
  PROVE  f \in Seq(S) /\ Elements(f) = S
<1> DEFINE n == Cardinality(S)
<1>1. n \in Nat
  BY FS_CardinalityType
<1>2. IsFiniteSet(1..n) /\ Cardinality(1..n) = n
  BY <1>1, FS_Interval
<1>3. f \in Injection(1..n, S)
  BY DEF Injection
<1>4. f \in Surjection(1..n, S)
  BY <1>2, <1>3, FS_Injection
<1>5. \A x \in S : \E i \in 1..n : f[i] = x
  BY <1>4 DEF Surjection
<1>6. f \in Seq(S)
  BY <1>1, SeqDef
<1> HIDE DEF n
<1>7. DOMAIN f = 1..n
  BY DEF n
<1>8. Elements(f) = S
  BY <1>5, <1>7 DEF Elements, n
<1> QED BY <1>6, <1>8

\* The list of a finite set has just its elements.
LEMMA ListOfSet ==
  ASSUME NEW S, IsFiniteSet(S)
  PROVE  SetToSeq(S) \in Seq(S) /\ Elements(SetToSeq(S)) = S
<1> DEFINE n == Cardinality(S)
<1>1. PICK g \in Bijection(1..n, S) : TRUE
  BY FS_CardinalityType DEF ExistsBijection
<1>2. g \in [1..n -> S] /\ IsInjective(g)
  BY <1>1 DEF Bijection, Injection
<1>3. SetToSeq(S) \in [1..n -> S] /\ IsInjective(SetToSeq(S))
  BY <1>2 DEF SetToSeq
<1> QED BY <1>3, NoneRepeated

\* The image of a finite set is finite.
LEMMA FiniteImage ==
  ASSUME NEW S, NEW f, IsFiniteSet(S)
  PROVE  IsFiniteSet({f[x] : x \in S})
<1> DEFINE T == {f[x] : x \in S}
           g == [x \in S |-> f[x]]
<1>1. g \in Surjection(S, T)
  BY DEF Surjection
<1> QED BY <1>1, FS_Surjection

\* R is a strict order on S, in which any two elements are related.
InOrder(R, S) ==
  /\ \A x \in S : <<x, x>> \notin R
  /\ \A x, y, z \in S : <<x, y>> \in R /\ <<y, z>> \in R => <<x, z>> \in R
  /\ \A x, y \in S : x = y \/ <<x, y>> \in R \/ <<y, x>> \in R

\* A finite set can be written down in any such order: every element at the place
\* that the number of those before it gives.
LEMMA SetInOrder ==
  ASSUME NEW S, IsFiniteSet(S), NEW R, InOrder(R, S)
  PROVE  \E s \in [1..Cardinality(S) -> S] :
           \A i, j \in DOMAIN s : i < j => <<s[i], s[j]>> \in R
<1> DEFINE n == Cardinality(S)
           below == [x \in S |-> {y \in S : <<y, x>> \in R}]
           many == [x \in S |-> Cardinality(below[x])]
           rank == [x \in S |-> many[x] + 1]
<1>1. n \in Nat
  BY FS_CardinalityType
<1>2. ASSUME NEW x \in S
      PROVE  IsFiniteSet(below[x]) /\ many[x] \in Nat /\ many[x] < n
  <2>1. below[x] \in SUBSET S /\ x \notin below[x]
    BY DEF InOrder
  <2>2. IsFiniteSet(below[x]) /\ many[x] <= n /\ many[x] # n
    BY <2>1, FS_Subset
  <2>3. many[x] \in Nat
    BY <2>2, FS_CardinalityType
  <2> QED BY <1>1, <2>2, <2>3
<1>3. ASSUME NEW x \in S, NEW y \in S, <<x, y>> \in R
      PROVE  many[x] < many[y]
  <2>1. below[x] \in SUBSET below[y] /\ x \in below[y] /\ x \notin below[x]
    BY <1>3 DEF InOrder
  <2>2. many[x] <= many[y] /\ many[x] # many[y]
    BY <1>2, <2>1, FS_Subset
  <2> HIDE DEF many, below
  <2> QED BY <1>2, <2>2
<1> HIDE DEF many, below
<1>4. rank \in [S -> 1..n]
  BY <1>1, <1>2
<1>5. \A x, y \in S : <<x, y>> \in R => rank[x] < rank[y]
  BY <1>2, <1>3
<1> HIDE DEF rank
<1>6. ASSUME NEW x \in S, NEW y \in S, rank[x] = rank[y] PROVE x = y
  <2>1. rank[x] \in Nat /\ rank[y] \in Nat
    BY <1>4
  <2>2. <<x, y>> \notin R /\ <<y, x>> \notin R
    BY <1>5, <1>6, <2>1
  <2> QED BY <2>2 DEF InOrder
<1>7. rank \in Injection(S, 1..n)
  BY <1>4, <1>6 DEF Injection, IsInjective
<1>8. IsFiniteSet(1..n) /\ Cardinality(1..n) = n
  BY <1>1, FS_Interval
<1>9. \A i \in 1..n : \E x \in S : rank[x] = i
  BY <1>7, <1>8, FS_Injection DEF Surjection
<1> DEFINE s == [i \in 1..n |-> CHOOSE x \in S : rank[x] = i]
<1>10. \A i \in 1..n : s[i] \in S /\ rank[s[i]] = i
  BY <1>9
<1>11. s \in [1..n -> S] /\ DOMAIN s = 1..n
  BY <1>10
<1> HIDE DEF s
<1>12. ASSUME NEW i \in 1..n, NEW j \in 1..n, i < j PROVE <<s[i], s[j]>> \in R
  <2>1. s[i] \in S /\ s[j] \in S /\ rank[s[i]] = i /\ rank[s[j]] = j
    BY <1>10
  <2>2. s[i] # s[j]
    BY <1>12, <2>1
  <2>3. <<s[j], s[i]>> \notin R
    BY <1>5, <1>12, <2>1
  <2> QED BY <2>1, <2>2, <2>3 DEF InOrder
<1> QED BY <1>11, <1>12
-----------------------------------------------------------------------------
(* Names of ownership marks.                                                 *)

\* One element makes a sequence.
LEMMA SingletonSeq ==
  ASSUME NEW T, NEW x \in T
  PROVE  <<x>> \in Seq(T)
OBVIOUS

\* A name stays one when a part is put in front of its first label, as ownership
\* marks have it.
LEMMA PrefixType ==
  ASSUME NEW name \in Name, NEW type \in STRING
  PROVE  [name EXCEPT ![1] = <<type>> \o @] \in Name
<1> DEFINE first == <<type>> \o name[1]
           n == [i \in 1 .. Len(name) |-> IF i = 1 THEN first ELSE name[i]]
<1>1. Len(name) \in Nat /\ name \in [1 .. Len(name) -> Seq(STRING)]
  BY LenProperties DEF Name, Label
<1>2. [name EXCEPT ![1] = first] = n
  BY <1>1
<1>3. \A i \in 1 .. Len(name) : n[i] \in Seq(STRING)
  <2> SUFFICES ASSUME NEW i \in 1 .. Len(name)
               PROVE  n[i] \in Seq(STRING)
    OBVIOUS
  <2>1. CASE i = 1
    <3>1. name[1] \in Seq(STRING)
      BY <1>1, <2>1
    <3>2. <<type>> \in Seq(STRING)
      BY SingletonSeq
    <3>3. first \in Seq(STRING)
      BY <3>1, <3>2, ConcatProperties
    <3> QED BY <2>1, <3>3
  <2>2. CASE i # 1
    BY <1>1, <2>2
  <2> QED BY <2>1, <2>2
<1> HIDE DEF n
<1>4. n \in [1 .. Len(name) -> Seq(STRING)]
  BY <1>3 DEF n
<1>5. n \in Seq(Seq(STRING))
  BY <1>1, <1>4, SeqDef
<1> QED BY <1>2, <1>5 DEF Name, Label
=============================================================================
