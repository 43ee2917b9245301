-------------------------- MODULE ZoneFinder_proofs --------------------------
(***************************************************************************)
(* FindZone returns the most specific zone, and the same one whatever the  *)
(* order in which Go visits the map, for every set of zones and every host.*)
(***************************************************************************)
EXTENDS ZoneFinder, TLAPS

\* Two zones that cover one host and have as many labels are one name: they are
\* the same suffix of the host.
LEMMA SuffixesOfOneLength ==
  ASSUME NEW a, NEW b, NEW h, Covers(a, h), Covers(b, h), Len(a) = Len(b)
  PROVE  a = b
  BY DEF Covers

\* At most one zone id is ever the answer: the code's "longest suffix" is well
\* defined, so the order of the map cannot show in the result.
THEOREM ZoneIsUnique ==
  ASSUME NEW m \in ZoneMaps, NEW h \in Hosts,
         NEW y \in FindZone(m, h), NEW z \in FindZone(m, h)
  PROVE  y = z
<1>1. /\ y \in DOMAIN m /\ z \in DOMAIN m
      /\ Covers(m[y], h) /\ Covers(m[z], h)
      /\ Len(m[y]) <= Len(m[z]) /\ Len(m[z]) <= Len(m[y])
  BY DEF FindZone
<1>2. Len(m[y]) \in Nat /\ Len(m[z]) \in Nat
  BY <1>1, ZoneMapsAssumption
<1>3. m[y] = m[z]
  BY <1>1, <1>2, SuffixesOfOneLength
<1> QED
  BY <1>1, <1>3, ZoneMapsAssumption DEF Distinct
-----------------------------------------------------------------------------
Visited == DOMAIN zones \ unvisited

\* The loop invariant: what has been kept covers the host and is at least as
\* long as every covering zone visited so far; nothing kept, nothing covered.
BestSoFar ==
  \A z \in Visited : Covers(zones[z], host) =>
    /\ suitable # NoZone
    /\ Len(zones[z]) <= Len(zones[suitable])

KeptCovers == suitable # NoZone => Covers(zones[suitable], host)

IInv == TypeOK /\ BestSoFar /\ KeptCovers

\* Zone names have lengths.
LEMMA LengthsAreNatural ==
  ASSUME NEW m \in ZoneMaps, NEW z \in DOMAIN m
  PROVE  Len(m[z]) \in Nat
  BY ZoneMapsAssumption

\* The invariant holds at first,
LEMMA InitIInv == Init => IInv
  BY DEF Init, IInv, TypeOK, BestSoFar, KeptCovers, Visited

\* and every visit keeps it.
LEMMA NextIInv == IInv /\ [Next]_vars => IInv'
<1> SUFFICES ASSUME IInv, [Next]_vars PROVE IInv'
  OBVIOUS
<1> USE DEF IInv
<1>1. ASSUME NEW z \in unvisited, Visit(z) PROVE IInv'
  <2> USE <1>1 DEF Visit, TypeOK
  <2>1. TypeOK'
    OBVIOUS
  <2>2. KeptCovers'
    BY DEF KeptCovers
  <2>3. BestSoFar'
    <3> SUFFICES ASSUME NEW y \in Visited', Covers(zones[y], host)
                 PROVE  /\ suitable' # NoZone
                        /\ Len(zones[y]) <= Len(zones[suitable'])
      BY DEF BestSoFar
    <3>1. y \in DOMAIN zones /\ z \in DOMAIN zones /\ (y = z \/ y \in Visited)
      BY DEF Visited
    <3>2. z # NoZone /\ Len(zones[y]) \in Nat /\ Len(zones[z]) \in Nat
      BY <3>1, ZoneMapsAssumption, LengthsAreNatural
    <3>3. suitable # NoZone => Len(zones[suitable]) \in Nat
      BY LengthsAreNatural
    <3>4. CASE Covers(zones[z], host) /\ Better(z)
      BY <3>1, <3>2, <3>3, <3>4 DEF Better, BestSoFar
    <3>5. CASE ~(Covers(zones[z], host) /\ Better(z))
      BY <3>1, <3>2, <3>3, <3>5 DEF Better, BestSoFar
    <3> QED BY <3>4, <3>5
  <2> QED BY <2>1, <2>2, <2>3
<1>2. CASE UNCHANGED vars
  BY <1>2 DEF vars, TypeOK, BestSoFar, KeptCovers, Visited
<1> QED BY <1>1, <1>2 DEF Next

\* The answer of the finished loop, from the loop invariant and uniqueness.
LEMMA IInvAnswers == IInv => ReturnsTheMostSpecific
<1> SUFFICES ASSUME IInv, unvisited = {}
             PROVE  FindZone(zones, host)
                      = IF suitable = NoZone THEN {} ELSE {suitable}
  BY DEF ReturnsTheMostSpecific
<1> USE DEF IInv, TypeOK
<1>1. Visited = DOMAIN zones
  BY DEF Visited
<1>2. CASE suitable = NoZone
  BY <1>1, <1>2 DEF BestSoFar, FindZone
<1>3. CASE suitable # NoZone
  <2>1. suitable \in FindZone(zones, host)
    BY <1>1, <1>3 DEF BestSoFar, KeptCovers, FindZone
  <2>2. \A z \in FindZone(zones, host) : z = suitable
    BY <2>1, ZoneIsUnique
  <2> QED BY <1>3, <2>1, <2>2
<1> QED BY <1>2, <1>3

\* Every state of the loop satisfies its invariant.
THEOREM LoopInvariant == Spec => []IInv
  BY InitIInv, NextIInv, PTL DEF Spec

\* Type correctness of the loop.
THEOREM TypeCorrect == Spec => []TypeOK
  BY LoopInvariant, PTL DEF IInv

\* Whatever the order of the map, FindZone returns the most specific zone that
\* covers the host, and returns no zone exactly when none covers it.
THEOREM FindZoneCorrect == Spec => []ReturnsTheMostSpecific
  BY LoopInvariant, IInvAnswers, PTL
=============================================================================
