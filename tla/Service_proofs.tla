---------------------------- MODULE Service_proofs ----------------------------
(***************************************************************************)
(* Proofs about RateLimit, for any number of goroutines, actions and ticks *)
(* of a second, and without the bound on time; and about Service: the rate *)
(* limit holds in every process, whatever it was started with and however  *)
(* often it is killed, and what a healthy process and its keys are worth.  *)
(***************************************************************************)
EXTENDS Service, FiniteSetTheorems, SequenceTheorems, TLAPS

\* What a quotient is.
LEMMA Division ==
  ASSUME NEW n \in Nat, NEW r \in Nat \ {0}
  PROVE  /\ n \div r \in Nat
         /\ r * (n \div r) <= n
         /\ n < r * (n \div r) + r
  OBVIOUS

\* A second is at least rate periods long, and shorter by less than a period of
\* one tick for each.
LEMMA Periods ==
  ASSUME TypeOK
  PROVE  /\ PerRequest \in Nat \ {0}
         /\ rate * PerRequest <= Second
         /\ Second < rate * PerRequest + rate
  <1>1. Second \in Nat /\ rate \in Nat \ {0} /\ rate <= Second
    BY SecondAssumption DEF TypeOK
  <1>2. /\ Second \div rate \in Nat
        /\ rate * (Second \div rate) <= Second
        /\ Second < rate * (Second \div rate) + rate
    BY <1>1, Division
  <1>3. Second \div rate # 0
    BY <1>1, <1>2
  <1> QED
    BY <1>2, <1>3 DEF PerRequest

\* The moment of a permission.
LEMMA PermissionType ==
  ASSUME TypeOK, NEW a \in Actions
  PROVE  /\ Permission(a) \in Nat \ {0}
         /\ Permission(a) >= now
         /\ last[a] # 0 => Permission(a) >= last[a] + PerRequest
  BY Periods DEF TypeOK, Permission

\* The initial states and every step of the specification have the right types.
LEMMA InitType == Init => TypeOK
  BY SecondAssumption DEF Init, Fresh, TypeOK

\* A call let go leaves times behind.
LEMMA AllowType ==
  ASSUME TypeOK, NEW c \in Callers, NEW a \in Actions, NEW t \in Nat \ {0}, Allow(c, a, t)
  PROVE  /\ due' \in [Callers -> Nat]
         /\ sent' \in [Actions -> Seq(Nat \ {0})]
  <1> DEFINE at == IF t < now THEN now ELSE t
  <1>1. at \in Nat \ {0}
    BY DEF TypeOK
  <1>2. Append(sent[a], at) \in Seq(Nat \ {0})
    BY <1>1, AppendProperties DEF TypeOK
  <1> QED
    BY <1>1, <1>2 DEF TypeOK, Allow

\* Every step keeps the types.
LEMMA NextType == TypeOK /\ [Next]_vars => TypeOK'
  <1> SUFFICES ASSUME TypeOK, [Next]_vars PROVE TypeOK'
    OBVIOUS
  <1>1. CASE \E c \in Callers, a \in Actions : Call(c, a)
    <2>1. PICK c \in Callers, a \in Actions : Call(c, a)
      BY <1>1
    <2>2. CASE FirstCall(c, a)
      BY <2>2, AllowType DEF FirstCall, TypeOK
    <2>3. CASE Take(c, a)
      BY <2>3, AllowType, PermissionType DEF Take, TypeOK
    <2> QED
      BY <2>1, <2>2, <2>3 DEF Call
  <1>2. CASE \E c \in Callers : Go(c)
    BY <1>2 DEF Go, TypeOK
  <1>3. CASE Tick
    BY <1>3 DEF Tick, TypeOK
  <1>4. CASE UNCHANGED vars
    BY <1>4 DEF vars, TypeOK
  <1> QED
    BY <1>1, <1>2, <1>3, <1>4 DEF Next

\* Every state has the right types.
THEOREM TypeCorrect == Spec => []TypeOK
  BY InitType, NextType, PTL DEF Spec

-----------------------------------------------------------------------------
\* What the limiter of an action knows of the calls it has let go: the last of
\* them, after which the next has to wait.  The first is not one of its.
Remembered ==
  \A a \in Actions :
    /\ a \notin limiters => sent[a] = <<>> /\ last[a] = 0
    /\ a \in limiters => sent[a] # <<>>
    /\ last[a] = 0 => Len(sent[a]) <= 1
    /\ \A i \in 2..Len(sent[a]) : sent[a][i] <= last[a]

\* The calls of one action, but for the first, are a period apart.
Spaced ==
  \A a \in Actions : \A i, j \in 2..Len(sent[a]) :
    i < j => sent[a][i] + PerRequest <= sent[a][j]

\* The permissions of the future belong to sleepers, one to each: they end at the
\* last and go back from it in periods.
Queued ==
  \A a \in Actions : \A k \in Nat :
    last[a] - k * PerRequest > now => \E c \in Callers : due[c] = last[a] - k * PerRequest

\* And nobody sleeps but for a permission.
Behind == \A c \in Callers : due[c] <= now \/ \E a \in Actions : due[c] <= last[a]

LimitInv == TypeOK /\ Remembered /\ Spaced /\ Queued /\ Behind

\* A client set without calls, at whatever time it is made.
NewClient == Fresh /\ now \in Nat \ {0} /\ rate \in 1..Second

\* There is nothing to keep apart and nobody asleep.
LEMMA FreshLimit == NewClient => LimitInv
  <1> SUFFICES ASSUME NewClient PROVE LimitInv
    OBVIOUS
  <1> USE DEF NewClient
  <1>1. TypeOK
    BY SecondAssumption DEF TypeOK, Fresh
  <1>2. Remembered /\ Spaced /\ Behind
    BY DEF Remembered, Spaced, Behind, Fresh
  <1>3. Queued
    <2> SUFFICES ASSUME NEW a \in Actions, NEW k \in Nat PROVE ~(last[a] - k * PerRequest > now)
      BY DEF Queued
    <2>1. PerRequest \in Nat /\ k * PerRequest \in Nat
      BY <1>1, Periods
    <2> QED
      BY <2>1 DEF Fresh
  <1> QED
    BY <1>1, <1>2, <1>3 DEF LimitInv

\* At first no call has been let go.
LEMMA InitSpaced == Init => LimitInv
  BY FreshLimit DEF Init, NewClient

\* A step that lets no call go keeps the calls apart.
LEMMA SameCalls ==
  ASSUME LimitInv, UNCHANGED <<rate, limiters, last, sent>>
  PROVE  Remembered' /\ Spaced'
  BY DEF LimitInv, Remembered, Spaced, PerRequest

\* The first call of an action comes after none.
LEMMA FirstCallSpaced ==
  ASSUME LimitInv, NEW c \in Callers, NEW a \in Actions, FirstCall(c, a)
  PROVE  Remembered' /\ Spaced'
  <1>1. sent[a] = <<>> /\ last[a] = 0
    BY DEF LimitInv, Remembered, FirstCall
  <1>2. now \in Nat \ {0} /\ sent \in [Actions -> Seq(Nat \ {0})]
    BY DEF LimitInv, TypeOK
  <1>3. sent' = [sent EXCEPT ![a] = <<now>>]
    BY <1>1, <1>2 DEF FirstCall, Allow
  <1>4. Len(sent'[a]) = 1 /\ sent'[a] # <<>> /\ \A b \in Actions \ {a} : sent'[b] = sent[b]
    BY <1>2, <1>3
  <1>5. limiters' = limiters \cup {a} /\ UNCHANGED <<rate, last>>
    BY DEF FirstCall
  <1>6. Remembered'
    <2> SUFFICES ASSUME NEW b \in Actions
                 PROVE  /\ b \notin limiters' => sent'[b] = <<>> /\ last'[b] = 0
                        /\ b \in limiters' => sent'[b] # <<>>
                        /\ last'[b] = 0 => Len(sent'[b]) <= 1
                        /\ \A i \in 2..Len(sent'[b]) : sent'[b][i] <= last'[b]
      BY DEF Remembered
    <2>1. CASE b # a
      BY <2>1, <1>4, <1>5 DEF LimitInv, Remembered
    <2>2. CASE b = a
      BY <2>2, <1>1, <1>4, <1>5
    <2> QED
      BY <2>1, <2>2
  <1>7. Spaced'
    BY <1>4, <1>5 DEF LimitInv, Spaced, PerRequest
  <1> QED
    BY <1>6, <1>7

\* What a sequence of moments is with one more at its end.
LEMMA Appended ==
  ASSUME NEW s \in Seq(Nat \ {0}), NEW t \in Nat \ {0}
  PROVE  /\ Len(Append(s, t)) = Len(s) + 1
         /\ \A i \in 1..Len(s) : Append(s, t)[i] = s[i]
         /\ Append(s, t)[Len(s) + 1] = t
         /\ Append(s, t) # <<>>
         /\ Len(s) \in Nat
         /\ \A i \in 1..Len(s) : s[i] \in Nat
  <1>1. Len(s) \in Nat
    BY LenProperties
  <1>2. Len(Append(s, t)) = Len(s) + 1 /\ Append(s, t) # <<>>
    BY <1>1, AppendProperties
  <1>3. \A i \in 1..Len(s) : s[i] \in Nat /\ Append(s, t)[i] = s[i]
    BY <1>1, AppendProperties, ElementOfSeq
  <1>4. Append(s, t)[Len(s) + 1] = t
    BY <1>1, AppendProperties
  <1> QED
    BY <1>1, <1>2, <1>3, <1>4

\* A permission is a period after the last.
LEMMA TakeSpaced ==
  ASSUME LimitInv, NEW c \in Callers, NEW a \in Actions, Take(c, a)
  PROVE  Remembered' /\ Spaced'
  <1> DEFINE t == Permission(a)
  <1>1. t \in Nat \ {0} /\ t >= now /\ (last[a] # 0 => t >= last[a] + PerRequest)
    BY PermissionType DEF LimitInv
  <1>2. /\ now \in Nat \ {0} /\ last \in [Actions -> Nat]
        /\ sent \in [Actions -> Seq(Nat \ {0})]
    BY DEF LimitInv, TypeOK
  <1>3. PerRequest \in Nat \ {0} /\ PerRequest' = PerRequest
    BY Periods DEF LimitInv, Take, PerRequest
  <1>4. /\ sent' = [sent EXCEPT ![a] = Append(@, t)]
        /\ last' = [last EXCEPT ![a] = t]
        /\ limiters' = limiters /\ a \in limiters
    <2>1. (IF t < now THEN now ELSE t) = t
      BY <1>1, <1>2
    <2> QED
      BY <2>1 DEF Take, Allow
  <1>5. /\ Len(sent'[a]) = Len(sent[a]) + 1
        /\ \A i \in 1..Len(sent[a]) : sent'[a][i] = sent[a][i]
        /\ sent'[a][Len(sent[a]) + 1] = t
        /\ sent'[a] # <<>>
        /\ Len(sent[a]) \in Nat
        /\ \A i \in 1..Len(sent[a]) : sent[a][i] \in Nat
    <2>1. sent[a] \in Seq(Nat \ {0}) /\ sent'[a] = Append(sent[a], t)
      BY <1>2, <1>4
    <2> QED
      BY <1>1, <2>1, Appended
  <1>6. \A b \in Actions \ {a} : sent'[b] = sent[b] /\ last'[b] = last[b]
    BY <1>2, <1>4
  <1>7. last'[a] = t
    BY <1>2, <1>4
  <1>8. \A i \in 2..Len(sent[a]) : sent[a][i] + PerRequest <= t
    <2> SUFFICES ASSUME NEW i \in 2..Len(sent[a]) PROVE sent[a][i] + PerRequest <= t
      OBVIOUS
    <2>1. last[a] # 0 /\ sent[a][i] <= last[a]
      BY <1>5 DEF LimitInv, Remembered
    <2> QED
      BY <1>1, <1>2, <1>3, <1>5, <2>1
  <1>9. Remembered'
    <2> SUFFICES ASSUME NEW b \in Actions
                 PROVE  /\ b \notin limiters' => sent'[b] = <<>> /\ last'[b] = 0
                        /\ b \in limiters' => sent'[b] # <<>>
                        /\ last'[b] = 0 => Len(sent'[b]) <= 1
                        /\ \A i \in 2..Len(sent'[b]) : sent'[b][i] <= last'[b]
      BY DEF Remembered
    <2>1. CASE b # a
      BY <2>1, <1>4, <1>6 DEF LimitInv, Remembered
    <2>2. CASE b = a
      BY <2>2, <1>1, <1>3, <1>4, <1>5, <1>7, <1>8
    <2> QED
      BY <2>1, <2>2
  <1>10. Spaced'
    <2> SUFFICES ASSUME NEW b \in Actions, NEW i \in 2..Len(sent'[b]),
                        NEW j \in 2..Len(sent'[b]), i < j
                 PROVE  sent'[b][i] + PerRequest <= sent'[b][j]
      BY <1>3 DEF Spaced
    <2>1. CASE b # a
      BY <2>1, <1>6 DEF LimitInv, Spaced
    <2>2. CASE b = a /\ j <= Len(sent[a])
      BY <2>2, <1>5 DEF LimitInv, Spaced
    <2>3. CASE b = a /\ j = Len(sent[a]) + 1
      BY <2>3, <1>5, <1>8
    <2> QED
      BY <1>5, <2>1, <2>2, <2>3
  <1> QED
    BY <1>9, <1>10

\* A call let go at the time of a permission puts its caller behind it.
LEMMA TakeQueued ==
  ASSUME LimitInv, NEW c \in Callers, NEW a \in Actions, Take(c, a)
  PROVE  Queued' /\ Behind'
  <1> DEFINE t == Permission(a)
  <1>1. t \in Nat \ {0} /\ t >= now /\ (last[a] # 0 => t >= last[a] + PerRequest)
    BY PermissionType DEF LimitInv
  <1>2. /\ now \in Nat \ {0} /\ last \in [Actions -> Nat] /\ due \in [Callers -> Nat]
        /\ PerRequest \in Nat \ {0} /\ PerRequest' = PerRequest
    BY Periods DEF LimitInv, TypeOK, Take, PerRequest
  <1>3. /\ due[c] = 0 /\ now' = now
        /\ due' = [due EXCEPT ![c] = t] /\ last' = [last EXCEPT ![a] = t]
    <2>1. (IF t < now THEN now ELSE t) = t
      BY <1>1, <1>2
    <2> QED BY <2>1 DEF Take, Allow
  <1>4. /\ due'[c] = t /\ last'[a] = t
        /\ \A b \in Actions \ {a} : last'[b] = last[b]
        /\ \A d \in Callers \ {c} : due'[d] = due[d]
    BY <1>2, <1>3
  <1>5. last[a] > now => t = last[a] + PerRequest
    BY <1>2 DEF Permission
  <1>6. last[a] <= now => t <= now + PerRequest
    BY <1>2 DEF Permission
  <1> HIDE DEF t
  <1>7. ASSUME NEW b \in Actions, NEW k \in Nat, last'[b] - k * PerRequest > now
        PROVE  \E d \in Callers : due'[d] = last'[b] - k * PerRequest
    <2>1. k * PerRequest \in Nat /\ (k # 0 => (k - 1) \in Nat)
      BY <1>2
    <2>2. k # 0 => (k - 1) * PerRequest = k * PerRequest - PerRequest
      BY <1>2
    <2>3. CASE b # a
      <3>1. \E d \in Callers : due[d] = last[b] - k * PerRequest
        BY <1>2, <1>4, <1>7, <2>3 DEF LimitInv, Queued
      <3> QED BY <1>2, <1>3, <1>4, <1>7, <2>1, <2>3, <3>1
    <2>4. CASE b = a /\ k = 0
      BY <1>1, <1>2, <1>4, <2>4
    <2>5. CASE b = a /\ k # 0
      <3>1. last[a] > now /\ last[a] - (k - 1) * PerRequest = t - k * PerRequest
        <4>1. t - k * PerRequest > now /\ k * PerRequest >= PerRequest
          BY <1>2, <1>4, <1>7, <2>5
        <4>2. last[a] > now
          BY <1>1, <1>2, <1>6, <2>1, <4>1
        <4> QED BY <1>1, <1>2, <1>5, <2>1, <2>2, <2>5, <4>2
      <3>2. \E d \in Callers : due[d] = last[a] - (k - 1) * PerRequest
        BY <1>4, <1>7, <2>1, <2>5, <3>1 DEF LimitInv, Queued
      <3> QED BY <1>2, <1>3, <1>4, <1>7, <2>1, <2>5, <3>1, <3>2
    <2> QED BY <2>3, <2>4, <2>5
  <1>8. Queued'
    BY <1>2, <1>3, <1>7 DEF Queued
  <1>9. last[a] <= t
    BY <1>1, <1>2, <1>5
  <1>10. Behind'
    <2> SUFFICES ASSUME NEW d \in Callers
                 PROVE  due'[d] <= now \/ \E b \in Actions : due'[d] <= last'[b]
      BY <1>3 DEF Behind
    <2>1. CASE d = c
      BY <1>1, <1>4, <2>1
    <2>2. CASE d # c
      <3>1. due[d] <= now \/ \E b \in Actions : due[d] <= last[b]
        BY DEF LimitInv, Behind
      <3>2. \A b \in Actions : last[b] <= last'[b]
        BY <1>2, <1>4, <1>9
      <3>3. \A b \in Actions : last'[b] \in Nat
        BY <1>1, <1>2, <1>4
      <3> QED BY <1>2, <1>4, <2>2, <3>1, <3>2, <3>3
    <2> QED BY <2>1, <2>2
  <1> QED
    BY <1>8, <1>10

\* A step that takes no permission, and of which nobody is asleep afterwards that
\* was not before, keeps the permissions of the future with their sleepers.
LEMMA StillQueued ==
  ASSUME LimitInv, UNCHANGED <<rate, last>>, now' \in Nat, now <= now',
         \A c \in Callers : due'[c] <= now' \/ due'[c] = due[c],
         \A c \in Callers : due[c] > now' => due'[c] = due[c]
  PROVE  Queued' /\ Behind'
  <1>1. /\ now \in Nat /\ last \in [Actions -> Nat] /\ due \in [Callers -> Nat]
        /\ PerRequest \in Nat /\ PerRequest' = PerRequest
    BY Periods DEF LimitInv, TypeOK, PerRequest
  <1>2. ASSUME NEW a \in Actions, NEW k \in Nat, last[a] - k * PerRequest > now'
        PROVE  \E c \in Callers : due'[c] = last[a] - k * PerRequest
    <2>1. last[a] - k * PerRequest \in Int
      BY <1>1
    <2>2. PICK c \in Callers : due[c] = last[a] - k * PerRequest
      BY <1>1, <1>2, <2>1 DEF LimitInv, Queued
    <2> QED BY <1>2, <2>2
  <1>3. ASSUME NEW c \in Callers
        PROVE  due'[c] <= now' \/ \E a \in Actions : due'[c] <= last[a]
    <2>1. due[c] <= now \/ \E a \in Actions : due[c] <= last[a]
      BY DEF LimitInv, Behind
    <2>2. CASE due'[c] = due[c]
      BY <1>1, <2>1, <2>2
    <2> QED BY <2>2
  <1> QED BY <1>1, <1>2, <1>3 DEF Queued, Behind

\* Every step keeps the calls apart and the sleepers behind their permissions.
LEMMA NextSpaced == LimitInv /\ [Next]_vars => LimitInv'
  <1> SUFFICES ASSUME LimitInv, [Next]_vars PROVE LimitInv'
    OBVIOUS
  <1>1. TypeOK'
    BY NextType DEF LimitInv
  <1>2. now \in Nat /\ now' \in Nat /\ due \in [Callers -> Nat] /\ due' \in [Callers -> Nat]
    BY <1>1 DEF LimitInv, TypeOK
  <1>3. Remembered' /\ Spaced' /\ Queued' /\ Behind'
    <2>1. ASSUME NEW c \in Callers, NEW a \in Actions, FirstCall(c, a)
          PROVE  Remembered' /\ Spaced' /\ Queued' /\ Behind'
      <3>1. due' = [due EXCEPT ![c] = now] /\ due[c] = 0 /\ UNCHANGED <<rate, now, last>>
        BY <1>2, <2>1 DEF FirstCall, Allow
      <3>2. Queued' /\ Behind'
        BY <1>2, <3>1, StillQueued
      <3> QED BY <2>1, <3>2, FirstCallSpaced
    <2>2. ASSUME NEW c \in Callers, NEW a \in Actions, Take(c, a)
          PROVE  Remembered' /\ Spaced' /\ Queued' /\ Behind'
      BY <2>2, TakeSpaced, TakeQueued
    <2>3. ASSUME NEW c \in Callers, Go(c)
          PROVE  Remembered' /\ Spaced' /\ Queued' /\ Behind'
      <3>1. due' = [due EXCEPT ![c] = 0] /\ due[c] <= now /\ UNCHANGED <<rate, now, last>>
        BY <2>3 DEF Go
      <3>2. Queued' /\ Behind'
        BY <1>2, <3>1, StillQueued
      <3> QED BY <2>3, <3>2, SameCalls DEF Go
    <2>4. CASE Tick
      <3>1. Queued' /\ Behind'
        BY <1>2, <2>4, StillQueued DEF Tick
      <3> QED BY <2>4, <3>1, SameCalls DEF Tick
    <2>5. CASE UNCHANGED vars
      <3>1. Queued' /\ Behind'
        BY <1>2, <2>5, StillQueued DEF vars
      <3> QED BY <2>5, <3>1, SameCalls DEF vars
    <2> QED
      BY <2>1, <2>2, <2>3, <2>4, <2>5 DEF Next, Call
  <1> QED
    BY <1>1, <1>3 DEF LimitInv

-----------------------------------------------------------------------------
\* The pigeonhole principle, for a function that takes no value twice.
LEMMA NoMoreThanValues ==
  ASSUME NEW I, NEW V, IsFiniteSet(I), IsFiniteSet(V), NEW f \in [I -> V],
         \A i, j \in I : i # j => f[i] # f[j]
  PROVE  Cardinality(I) <= Cardinality(V)
  <1>1. Cardinality(I) \in Nat /\ Cardinality(V) \in Nat
    BY FS_CardinalityType
  <1>2. ~(Cardinality(V) < Cardinality(I))
    BY FS_PigeonHole
  <1> QED
    BY <1>1, <1>2

\* Times a period apart are in different periods of a second, counted from its
\* start, of which it has no more than rate + 1.
LEMMA DifferentPeriods ==
  ASSUME NEW p \in Nat \ {0}, NEW x \in Nat, NEW y \in Nat, x + p <= y
  PROVE  x \div p # y \div p
  <1>1. /\ x \div p \in Nat /\ y \div p \in Nat
        /\ y < (y \div p) * p + p
        /\ (x \div p) * p <= x
    OBVIOUS
  <1> QED
    BY <1>1

\* How many periods go into a second.
LEMMA PeriodsOfASecond ==
  ASSUME TypeOK, rate * rate <= Second, NEW x \in Nat, x < Second
  PROVE  x \div PerRequest \in 0..rate
  <1> DEFINE p == PerRequest
  <1>1. p \in Nat \ {0} /\ Second < rate * p + rate /\ rate \in Nat \ {0}
    BY Periods DEF TypeOK
  <1>2. rate <= p
    <2> SUFFICES ASSUME p + 1 <= rate PROVE FALSE
      BY <1>1
    <2>1. rate * (p + 1) <= rate * rate
      BY <1>1
    <2>2. rate * (p + 1) = rate * p + rate
      BY <1>1
    <2> QED
      BY <1>1, <2>1, <2>2, SecondAssumption
  <1>3. x < (rate + 1) * p
    <2>1. (rate + 1) * p = rate * p + p
      BY <1>1
    <2> QED
      BY <1>1, <1>2, <2>1, SecondAssumption
  <1>4. x \div p \in Nat /\ (x \div p) * p <= x
    BY <1>1
  <1>5. x \div p < rate + 1
    <2> DEFINE q == x \div p
    <2> SUFFICES ASSUME rate + 1 <= q PROVE FALSE
      BY <1>1, <1>4
    <2>1. (rate + 1) * p <= q * p
      BY <1>1, <1>4
    <2> QED
      BY <1>1, <1>3, <1>4, <2>1
  <1> QED
    BY <1>1, <1>4, <1>5

\* Calls a period apart keep to the limit.
LEMMA SpacedIsKept == LimitInv => RateKept
  <1> SUFFICES ASSUME LimitInv, rate * rate <= Second, NEW a \in Actions, NEW s \in 1..now
               PROVE  Cardinality(InSecond(a, s)) <= rate + 1
    BY DEF RateKept
  <1> DEFINE I == InSecond(a, s)
             period == [i \in I |-> (sent[a][i] - s) \div PerRequest]
  <1>1. rate \in Nat \ {0} /\ s \in Nat /\ TypeOK
    BY DEF LimitInv, TypeOK
  <1>2. \A i \in I : sent[a][i] - s \in Nat /\ sent[a][i] - s < Second
    <2> SUFFICES ASSUME NEW i \in I PROVE sent[a][i] - s \in Nat /\ sent[a][i] - s < Second
      OBVIOUS
    <2>1. i \in 1..Len(sent[a]) /\ sent[a] \in Seq(Nat \ {0})
      BY <1>1, LenProperties DEF InSecond, TypeOK
    <2>2. sent[a][i] \in Nat
      BY <2>1, ElementOfSeq
    <2> QED
      BY <1>1, <2>2, SecondAssumption DEF InSecond
  <1>3. IsFiniteSet(I) /\ Cardinality(I) \in Nat
    <2>1. sent[a] \in Seq(Nat \ {0})
      BY <1>1 DEF TypeOK
    <2>2. Len(sent[a]) \in Nat
      BY <2>1, LenProperties
    <2>3. IsFiniteSet(2..Len(sent[a]))
      BY <2>2, FS_Interval
    <2>4. I \in SUBSET (2..Len(sent[a]))
      BY DEF InSecond
    <2>5. IsFiniteSet(I)
      BY <2>3, <2>4, FS_Subset
    <2> QED
      BY <2>5, FS_CardinalityType
  <1>4. period \in [I -> 0..rate]
    BY <1>1, <1>2, PeriodsOfASecond
  <1>5. \A i, j \in I : i # j => period[i] # period[j]
    <2>1. ASSUME NEW i \in I, NEW j \in I, i < j
          PROVE  period[i] # period[j]
      <3>1. sent[a][i] + PerRequest <= sent[a][j]
        BY <2>1 DEF LimitInv, Spaced, InSecond
      <3>2. sent[a][i] \in Int /\ sent[a][j] \in Int /\ PerRequest \in Nat \ {0}
        <4>1. sent[a] \in Seq(Nat \ {0}) /\ i \in 1..Len(sent[a]) /\ j \in 1..Len(sent[a])
          BY <1>1, LenProperties DEF InSecond, TypeOK
        <4> QED
          BY <4>1, <1>1, ElementOfSeq, Periods
      <3>3. (sent[a][i] - s) + PerRequest <= sent[a][j] - s
        BY <1>1, <3>1, <3>2
      <3> QED
        BY <1>2, <3>2, <3>3, DifferentPeriods
    <2>2. ASSUME NEW i \in I, NEW j \in I, i # j PROVE i < j \/ j < i
      BY <2>2 DEF InSecond
    <2> QED
      BY <2>1, <2>2
  <1>6. IsFiniteSet(0..rate) /\ Cardinality(0..rate) = rate + 1
    BY <1>1, FS_Interval
  <1> HIDE DEF period, I
  <1>7. Cardinality(I) <= Cardinality(0..rate)
    BY <1>3, <1>4, <1>5, <1>6, NoMoreThanValues
  <1> QED
    BY <1>6, <1>7 DEF I

\* No second has more than rate + 1 calls of an action beside its first
\* (clientset.go:69).
THEOREM LimitKept == Spec => []RateKept
  <1>1. Init => LimitInv
    BY InitSpaced
  <1>2. LimitInv /\ [Next]_vars => LimitInv'
    BY NextSpaced
  <1> QED
    BY <1>1, <1>2, SpacedIsKept, PTL DEF Spec

-----------------------------------------------------------------------------
\* With a permission further than a period for each goroutine there would be more
\* sleepers than goroutines.
LEMMA PermissionsNear ==
  ASSUME LimitInv, NEW a \in Actions
  PROVE  last[a] <= now + Cardinality(Callers) * PerRequest
  <1> DEFINE N == Cardinality(Callers)
  <1>1. /\ N \in Nat /\ now \in Nat /\ last[a] \in Nat
        /\ PerRequest \in Nat \ {0} /\ due \in [Callers -> Nat]
    BY CallersAssumption, FS_CardinalityType, Periods DEF LimitInv, TypeOK
  <1> HIDE DEF N
  <1> SUFFICES ASSUME last[a] > now + N * PerRequest PROVE FALSE
    BY <1>1 DEF N
  <1>2. ASSUME NEW k \in 0..N PROVE \E c \in Callers : due[c] = last[a] - k * PerRequest
    <2>1. k \in Nat /\ k <= N
      BY <1>1
    <2>2. k * PerRequest <= N * PerRequest
      BY <1>1, <2>1
    <2>3. k * PerRequest \in Nat /\ N * PerRequest \in Nat
      BY <1>1, <2>1
    <2>4. last[a] - k * PerRequest > now
      BY <1>1, <2>2, <2>3
    <2> QED BY <2>1, <2>4 DEF LimitInv, Queued
  <1> DEFINE sleeper == [k \in 0..N |-> CHOOSE c \in Callers : due[c] = last[a] - k * PerRequest]
  <1>3. \A k \in 0..N : sleeper[k] \in Callers /\ due[sleeper[k]] = last[a] - k * PerRequest
    BY <1>2
  <1>4. sleeper \in [0..N -> Callers]
    BY <1>3
  <1> HIDE DEF sleeper
  <1>5. ASSUME NEW i \in 0..N, NEW j \in 0..N, i # j PROVE sleeper[i] # sleeper[j]
    <2>1. i \in Nat /\ j \in Nat
      BY <1>1
    <2>2. i * PerRequest # j * PerRequest
      BY <1>1, <1>5, <2>1
    <2>3. i * PerRequest \in Nat /\ j * PerRequest \in Nat
      BY <1>1, <2>1
    <2>4. last[a] - i * PerRequest # last[a] - j * PerRequest
      BY <1>1, <2>2, <2>3
    <2> QED BY <1>3, <2>4
  <1>6. IsFiniteSet(0..N) /\ Cardinality(0..N) = N + 1
    <2>1. 0 \in Int /\ N \in Int /\ ~(0 > N) /\ N - 0 + 1 = N + 1
      BY <1>1
    <2>2. IsFiniteSet(0..N) /\ Cardinality(0..N) = IF 0 > N THEN 0 ELSE N - 0 + 1
      BY <2>1, FS_Interval
    <2> QED
      BY <2>1, <2>2
  <1>7. Cardinality(0..N) <= Cardinality(Callers)
    BY <1>4, <1>5, <1>6, CallersAssumption, NoMoreThanValues
  <1> QED
    BY <1>1, <1>6, <1>7 DEF N

\* A call is never let go further in the future than that.
LEMMA BehindIsBounded == LimitInv => SleepIsBounded
  <1> SUFFICES ASSUME LimitInv, NEW c \in Callers
               PROVE  due[c] <= now + Cardinality(Callers) * PerRequest
    BY DEF SleepIsBounded
  <1>1. Cardinality(Callers) \in Nat /\ now \in Nat /\ due[c] \in Nat /\ PerRequest \in Nat
    BY CallersAssumption, FS_CardinalityType, Periods DEF LimitInv, TypeOK
  <1>2. Cardinality(Callers) * PerRequest \in Nat
    BY <1>1
  <1>3. CASE due[c] <= now
    BY <1>1, <1>2, <1>3
  <1>4. CASE \E a \in Actions : due[c] <= last[a]
    <2>1. PICK a \in Actions : due[c] <= last[a]
      BY <1>4
    <2>2. last[a] \in Nat /\ last[a] <= now + Cardinality(Callers) * PerRequest
      BY PermissionsNear DEF LimitInv, TypeOK
    <2> QED BY <1>1, <1>2, <2>1, <2>2
  <1> QED
    BY <1>3, <1>4 DEF LimitInv, Behind

\* However the goroutines interleave at the limiters, none sleeps longer than a
\* period for each of them (clientset.go:60).
THEOREM SleepBounded == Spec => []SleepIsBounded
  BY InitSpaced, NextSpaced, BehindIsBounded, PTL DEF Spec
-----------------------------------------------------------------------------
(* A process and its restarts.                                               *)

\* Before main serves, and after the process is gone, its client has made no call.
Idle == main # "serving" => Fresh

\* Once read, a setting is from the source the launch says, and main reads the
\* settings, and builds the provider, before it starts the health server.
Settled ==
  /\ main \notin {"settings", "dead"} => \A s \in Settings : source[s] = SourceOf(s)
  /\ main \notin {"settings", "dead"} => launch.oidc \/ HasKeys
  /\ main \notin {"settings", "provider", "dead"} => (launch.oidc => launch.oidcWorks)
  /\ health # "off" => main \in {"listen", "serving"}

Read == \/ \A s \in Settings : source[s] = "none"
        \/ \A s \in Settings : source[s] = SourceOf(s)

Typed ==
  /\ main \in {"settings", "provider", "health", "listen", "serving", "dead"}
  /\ source \in [Settings -> {"none", "flag", "file", "env", "tke"}]
  /\ health \in {"off", "starting", "up"}

ServiceInv ==
  /\ LimitInv /\ Idle
  /\ launch \in Launch
  /\ Settled /\ Read /\ Typed

\* The invariant holds at first,
LEMMA ServiceInitInv == ServiceInit => ServiceInv
  <1> SUFFICES ASSUME ServiceInit PROVE ServiceInv
    OBVIOUS
  <1>1. LimitInv
    BY FreshLimit, DefaultAssumption DEF ServiceInit, NewClient
  <1> QED
    BY <1>1, LaunchesAssumption DEF ServiceInit, ServiceInv, Idle, Settled, Read, Typed

\* A process that ends leaves nothing behind.
LEMMA DieInv ==
  ASSUME ServiceInv, Die
  PROVE  ServiceInv'
  <1>1. Fresh' /\ now' = 1 /\ rate' = rate
    BY DEF Die, Fresh
  <1>2. rate' \in 1..Second
    BY <1>1 DEF ServiceInv, LimitInv, TypeOK
  <1>3. NewClient'
    BY <1>1, <1>2 DEF NewClient
  <1>4. LimitInv'
    BY <1>3, FreshLimit, PTL
  <1> QED
    BY <1>1, <1>4 DEF ServiceInv, Die, Idle, Settled, Read, Typed, SourceOf

\* A step of main before it serves leaves the client as new as it is.
LEMMA ProceedFresh ==
  ASSUME ServiceInv, main # "serving", rate' \in 1..Second,
         UNCHANGED <<now, limiters, last, due, sent>>
  PROVE  LimitInv' /\ Fresh'
  <1>1. Fresh /\ Fresh'
    BY DEF ServiceInv, Idle, Fresh
  <1>2. now' \in Nat \ {0}
    BY DEF ServiceInv, LimitInv, TypeOK
  <1>3. NewClient'
    BY <1>1, <1>2 DEF NewClient
  <1> QED
    BY <1>1, <1>3, FreshLimit, PTL

\* every step of main keeps it,
LEMMA MainInv ==
  ASSUME ServiceInv, Main
  PROVE  ServiceInv'
  <1> USE DEF ServiceInv
  <1>1. rate \in 1..Second
    BY DEF LimitInv, TypeOK
  <1>2. CASE ReadSettings
    <2>1. LimitInv' /\ Fresh'
      BY <1>1, <1>2, ProceedFresh DEF ReadSettings, Proceed
    <2> QED
      BY <1>2, <2>1 DEF ReadSettings, Proceed, Idle, Settled, Read, Typed, SourceOf
  <1>3. CASE BadSettings \/ NoProvider \/ ProviderFails
    BY <1>3, DieInv DEF BadSettings, NoProvider, ProviderFails
  <1>4. CASE BuildProvider
    <2>1. rate' \in 1..Second
      BY <1>4, DefaultAssumption DEF BuildProvider, EffectiveRate, Launch
    <2>2. LimitInv' /\ Fresh'
      BY <1>4, <2>1, ProceedFresh DEF BuildProvider, Proceed
    <2> QED
      BY <1>4, <2>2 DEF BuildProvider, Proceed, Idle, Settled, Read, Typed, SourceOf, HasKeys
  <1>5. CASE StartHealth
    <2>1. LimitInv' /\ Fresh'
      BY <1>1, <1>5, ProceedFresh DEF StartHealth, Proceed
    <2> QED
      BY <1>5, <2>1 DEF StartHealth, Proceed, Idle, Settled, Read, Typed, SourceOf, HasKeys
  <1>6. CASE ProviderListens
    <2>1. LimitInv' /\ Fresh'
      BY <1>1, <1>6, ProceedFresh DEF ProviderListens, Proceed
    <2> QED
      BY <1>6, <2>1 DEF ProviderListens, Proceed, Idle, Settled, Read, Typed, SourceOf, HasKeys
  <1> QED
    BY <1>2, <1>3, <1>4, <1>5, <1>6 DEF Main

\* A step of the client is one of RateLimit.
LEMMA CallInv ==
  ASSUME ServiceInv, main = "serving", [Next]_vars, UNCHANGED processVars
  PROVE  ServiceInv'
  <1>1. LimitInv'
    BY NextSpaced DEF ServiceInv
  <1> QED
    BY <1>1 DEF ServiceInv, processVars, Idle, Settled, Read, Typed, SourceOf, HasKeys

\* and so does every step.
LEMMA ServiceNextInv == ServiceInv /\ [ServiceNext]_serviceVars => ServiceInv'
  <1> SUFFICES ASSUME ServiceInv, [ServiceNext]_serviceVars PROVE ServiceInv'
    OBVIOUS
  <1>1. CASE Main
    BY <1>1, MainInv
  <1>2. CASE Health
    <2>1. CASE HealthListens
      <3>1. LimitInv'
        BY <2>1, NextSpaced DEF HealthListens, ServiceInv
      <3>2. Idle'
        BY <2>1 DEF HealthListens, vars, ServiceInv, Idle, Fresh
      <3> QED
        BY <2>1, <3>1, <3>2 DEF HealthListens, ServiceInv, Settled, Read, Typed, SourceOf, HasKeys
    <2>2. CASE HealthFails
      BY <2>2, DieInv DEF HealthFails
    <2> QED
      BY <1>2, <2>1, <2>2 DEF Health
  <1>3. CASE Kill
    BY <1>3, DieInv DEF Kill
  <1>4. CASE Restart
    <2>1. LimitInv'
      BY <1>4, NextSpaced DEF Restart, ServiceInv
    <2>2. Idle'
      BY <1>4 DEF Restart, vars, ServiceInv, Idle, Fresh
    <2>3. health' = "off"
      BY <1>4 DEF Restart, ServiceInv, Settled
    <2> QED
      BY <1>4, <2>1, <2>2, <2>3, LaunchesAssumption DEF Restart, ServiceInv, Settled, Read, Typed
  <1>5. CASE \E c \in Callers, a \in Actions : MakeCall(c, a)
    BY <1>5, CallInv DEF MakeCall, Next
  <1>6. CASE \E c \in Callers : WakeUp(c)
    <2>1. PICK c \in Callers : WakeUp(c)
      BY <1>6
    <2>2. due[c] # 0
      BY <2>1 DEF WakeUp, Go
    <2>3. main = "serving"
      BY <2>2 DEF ServiceInv, Idle, Fresh
    <2> QED
      BY <2>1, <2>3, CallInv DEF WakeUp, Next
  <1>7. CASE TimePasses
    BY <1>7, CallInv DEF TimePasses, Next
  <1>8. CASE UNCHANGED serviceVars
    <2>1. LimitInv'
      BY <1>8, NextSpaced DEF serviceVars, ServiceInv
    <2>2. Idle'
      BY <1>8 DEF serviceVars, vars, processVars, ServiceInv, Idle, Fresh
    <2> QED
      BY <1>8, <2>1, <2>2 DEF serviceVars, processVars, ServiceInv, Settled, Read, Typed, SourceOf, HasKeys
  <1> QED
    BY <1>1, <1>2, <1>3, <1>4, <1>5, <1>6, <1>7, <1>8 DEF ServiceNext

\* Every process keeps its shape, and calls of the API are made only by one that serves.
THEOREM ServiceTypeCorrect == ServiceSpec => []ServiceTypeOK
  <1>1. ServiceInv => ServiceTypeOK
    BY DEF ServiceInv, LimitInv, Idle, Fresh, Typed, ServiceTypeOK
  <1> QED
    BY <1>1, ServiceInitInv, ServiceNextInv, PTL DEF ServiceSpec

\* And in each of them nobody sleeps longer than a period for each goroutine.
THEOREM EveryProcessSleepsBounded == ServiceSpec => []SleepIsBounded
  <1>1. ServiceInv => SleepIsBounded
    BY BehindIsBounded DEF ServiceInv
  <1> QED
    BY <1>1, ServiceInitInv, ServiceNextInv, PTL DEF ServiceSpec

\* However the webhook is started, killed and started again, each of its
\* processes keeps the rate (clientset.go:69).
THEOREM EveryProcessKeepsLimit == ServiceSpec => []RateKept
  <1>1. ServiceInv => RateKept
    BY SpacedIsKept DEF ServiceInv
  <1> QED
    BY <1>1, ServiceInitInv, ServiceNextInv, PTL DEF ServiceSpec

\* When every source gives both halves of the key pair or neither, the pair in
\* use is from one source (main.go:96).
THEOREM PairsStayTogether == ServiceSpec => []KeysMatch
  <1>1. ServiceInv => KeysMatch
    BY DEF ServiceInv, Read, KeysMatch, SourceOf, Settings
  <1> QED
    BY <1>1, ServiceInitInv, ServiceNextInv, PTL DEF ServiceSpec

\* A process that answers its probe has a provider with credentials (main.go:163).
THEOREM ProbesMeanConfigured == ServiceSpec => []HealthyIsConfigured
  <1>1. ServiceInv => HealthyIsConfigured
    BY DEF ServiceInv, LimitInv, TypeOK, Settled, HasKeys, HealthyIsConfigured
  <1> QED
    BY <1>1, ServiceInitInv, ServiceNextInv, PTL DEF ServiceSpec
=============================================================================
