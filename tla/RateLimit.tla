------------------------------ MODULE RateLimit ------------------------------
(***************************************************************************)
(* The rate limit of the API client: before each attempt of an API call    *)
(* the goroutine at it takes a permission of the limiter of its action,    *)
(* and sleeps until the permission is due.  The limiters are of            *)
(* go.uber.org/ratelimit, WithoutSlack.                                    *)
(*                                                                         *)
(* Time goes in ticks.  A permission may be taken while others of the      *)
(* future are out, so a goroutine may have to sleep for several periods.   *)
(***************************************************************************)
EXTENDS Naturals, Sequences, FiniteSets

CONSTANTS
  Callers,     \* goroutines that make API calls
  Actions,     \* the names of the API actions: a limiter each
  Second,      \* ticks of a second
  Horizon      \* bound: no call starts later

ASSUME SecondAssumption == Second \in Nat \ {0} /\ Horizon \in Nat
ASSUME CallersAssumption == IsFiniteSet(Callers)

VARIABLES
  rate,        \* RateLimit, positive
  now,
  limiters,    \* RateLimitSyncMap: the actions that have a limiter
  last,        \* action -> time of the last permission of its limiter, 0 for none
  due,         \* caller -> when it may go on, 0 if it is not at a call
  sent         \* history: action -> the times its calls were let go at

vars == <<rate, now, limiters, last, due, sent>>

\* time.Second / rate, in whole ticks.
PerRequest == Second \div rate

\* A client set without a call made yet.
Fresh ==
  /\ limiters = {}
  /\ last = [a \in Actions |-> 0]
  /\ due = [c \in Callers |-> 0]
  /\ sent = [a \in Actions |-> <<>>]

\* Mutant: time without calls is made up for, as with the slack of the library.
PermissionWithSlack(a) == IF last[a] = 0 THEN now ELSE last[a] + PerRequest

\* Take: the time of the next permission.
Permission(a) ==
  IF last[a] = 0 \/ now - last[a] > PerRequest THEN now ELSE last[a] + PerRequest

\* Mutant: the caller sleeps for as long as the permission's time says.
AllowFromNow(c, a, t) ==
  /\ due' = [due EXCEPT ![c] = IF t <= now THEN now ELSE now + t]
  /\ sent' = [sent EXCEPT ![a] = Append(@, now)]

\* The caller goes on at t, at once if that has passed.
Allow(c, a, t) ==
  LET at == IF t < now THEN now ELSE t IN
  /\ due' = [due EXCEPT ![c] = at]
  /\ sent' = [sent EXCEPT ![a] = Append(@, at)]

\* LoadOrStore stores: the first call of an action takes no permission.
FirstCall(c, a) ==
  /\ due[c] = 0
  /\ a \notin limiters
  /\ limiters' = limiters \cup {a}
  /\ Allow(c, a, now)
  /\ UNCHANGED <<rate, now, last>>

\* LoadOrStore loads, and Take sets the next permission in one compare-and-swap.
Take(c, a) ==
  /\ due[c] = 0
  /\ a \in limiters
  /\ last' = [last EXCEPT ![a] = Permission(a)]
  /\ Allow(c, a, Permission(a))
  /\ UNCHANGED <<rate, now, limiters>>

\* An attempt at an API call.
Call(c, a) == now < Horizon /\ (FirstCall(c, a) \/ Take(c, a))

\* The sleep is over, sooner or later after the permission was due.
Go(c) ==
  /\ due[c] # 0 /\ due[c] <= now
  /\ due' = [due EXCEPT ![c] = 0]
  /\ UNCHANGED <<rate, now, limiters, last, sent>>

Tick ==
  /\ now < Horizon \/ \E c \in Callers : due[c] > now
  /\ now' = now + 1
  /\ UNCHANGED <<rate, limiters, last, due, sent>>

Init == Fresh /\ now = 1 /\ rate \in 1..Second

Next ==
  \/ \E c \in Callers, a \in Actions : Call(c, a)
  \/ \E c \in Callers : Go(c)
  \/ Tick

Spec == Init /\ [][Next]_vars
-----------------------------------------------------------------------------
TypeOK ==
  /\ rate \in 1..Second
  /\ now \in Nat \ {0}
  /\ limiters \subseteq Actions
  /\ last \in [Actions -> Nat]
  /\ due \in [Callers -> Nat]
  /\ sent \in [Actions -> Seq(Nat \ {0})]

\* The calls of action a, but for its first, let go in the second that starts at s.
InSecond(a, s) == {i \in 2..Len(sent[a]) : s <= sent[a][i] /\ sent[a][i] < s + Second}

\* "API rate limit per second" (docs/reference/configuration.md:18), as the code
\* keeps it: for each action, with one call more, because the library divides the
\* second into whole nanoseconds and nine periods are one short of it; and with
\* another when the second has the first call, which takes no permission
\* (clientset.go:69).
RateKept ==
  rate * rate <= Second =>
    \A a \in Actions : \A s \in 1..now : Cardinality(InSecond(a, s)) <= rate + 1

\* Nobody sleeps for longer than a period for each goroutine that may be
\* sleeping: permissions of the future belong to sleepers, one to each.
\* A request's calls go one after another, so this is what a call may cost of
\* the ten seconds its answer has (server.go:107).
SleepIsBounded ==
  \A c \in Callers : due[c] <= now + Cardinality(Callers) * PerRequest
=============================================================================
