------------------------------- MODULE Paging -------------------------------
(***************************************************************************)
(* The four listings of the provider: DNSPod's domains and records,        *)
(* PrivateDNS's zones and records.  Each asks for page after page, the     *)
(* next at the number of items it has been given, until that number        *)
(* reaches the total of the last answer.  Others add and remove items      *)
(* between two pages, which moves all that come after to another place.    *)
(*                                                                         *)
(* DnsPodApply and PrivateApply take a listing as one step.  What that     *)
(* leaves out is said here.                                                *)
(***************************************************************************)
EXTENDS Naturals, FiniteSets

CONSTANTS
  Kinds,         \* the listings: some of "domains", "records", "zones", "zoneRecords"
  Places,        \* numbers items may have, in the order the service lists them
  Limit,         \* the most items of a page, 3000 and 100
  FirstTotal,    \* totalCount before the first answer, 100
  Unwanted,      \* kind -> items it drops: NS of an apex, zones filtered out
  InitialItems,  \* the items there may be at first
  MaxInserts, MaxRemovals    \* bounds of the model

ASSUME PlacesAssumption == Places \subseteq Nat
ASSUME LimitAssumption == Limit \in Nat \ {0} /\ FirstTotal \in Nat \ {0}
ASSUME UnwantedAssumption == Unwanted \in [Kinds -> SUBSET Places]
ASSUME InitialAssumption == \A S \in InitialItems : S \subseteq Places /\ IsFiniteSet(S)

VARIABLES
  kind,      \* the listing at work
  items,     \* what the service holds
  offset,    \* request.Offset
  total,     \* totalCount
  got,       \* the items appended to the list
  state,     \* listing, done or failed
  repeats,   \* history: the times an item was appended again,
  always,    \*   the wanted items that have been there since the first call,
  inserts,   \*   the items added since then,
  removals   \*   and those removed

vars == <<kind, items, offset, total, got, state, repeats, always, inserts, removals>>
history == <<always, inserts, removals>>

Rank(i) == Cardinality({j \in items : j < i})

\* The page of at most n items at the offset.
Page(n) == {i \in items : offset <= Rank(i) /\ Rank(i) < offset + n}

Init ==
  /\ kind \in Kinds
  /\ items \in InitialItems
  /\ offset = 0 /\ total = FirstTotal
  /\ got = {} /\ repeats = 0
  /\ state = "listing"
  /\ always = items \ Unwanted[kind]
  /\ inserts = 0 /\ removals = 0

\* Mutant: nothing is dropped.
KeptAll(page) == page

\* What is appended of a page.  (getPrivateZones drops after the last page.)
Kept(page) == page \ Unwanted[kind]

\* Mutant: the offset moves on by full pages.
AdvanceByLimit(page) == Limit

\* Mutant: the offset counts what was kept.
AdvanceByKept(page) == Cardinality(Kept(page))

\* How far the offset moves: by what was given, kept or not.
Advance(page) == Cardinality(page)

\* Mutant: the total of the first answer stands.
TotalOnce == IF offset = 0 THEN Cardinality(items) ELSE total

\* The total of an answer, of the same moment as its page.
Total == Cardinality(items)

\* One answer: a page, shorter than the limit if the service likes.  DNSPod does
\* not answer an empty page of records.  The loop goes on while offset < total.
Fetch ==
  /\ state = "listing"
  /\ \E n \in 1..Limit :
       LET page == Page(n) IN
       /\ kind = "records" => page # {}
       /\ got' = got \cup Kept(page)
       /\ repeats' = repeats + Cardinality(got \cap page)
       /\ offset' = offset + Advance(page)
       /\ total' = Total
  /\ state' = IF offset' < total' THEN "listing" ELSE "done"
  /\ UNCHANGED <<kind, items, history>>

\* It answers NoDataOfRecord instead, which ends the loop without an error.
NoData ==
  /\ state = "listing" /\ kind = "records"
  /\ Page(1) = {}
  /\ state' = "done"
  /\ UNCHANGED <<kind, items, offset, total, got, repeats, history>>

\* Any other error, after all attempts, is the caller's: nothing is listed.
Fail ==
  /\ state = "listing"
  /\ state' = "failed" /\ got' = {}
  /\ UNCHANGED <<kind, items, offset, total, repeats, history>>

\* Someone else adds an item, anywhere in the order,
Insert ==
  /\ state = "listing" /\ inserts < MaxInserts
  /\ \E i \in Places \ items : items' = items \cup {i}
  /\ inserts' = inserts + 1
  /\ UNCHANGED <<kind, offset, total, got, state, repeats, always, removals>>

\* or removes one.
Remove ==
  /\ state = "listing" /\ removals < MaxRemovals
  /\ \E i \in items : items' = items \ {i} /\ always' = always \ {i}
  /\ removals' = removals + 1
  /\ UNCHANGED <<kind, offset, total, got, state, repeats, inserts>>

Next == Fetch \/ NoData \/ Fail \/ Insert \/ Remove

Spec == Init /\ [][Next]_vars
FairSpec == Spec /\ WF_vars(Fetch \/ NoData)
-----------------------------------------------------------------------------
TypeOK ==
  /\ kind \in Kinds
  /\ items \subseteq Places /\ IsFiniteSet(items)
  /\ offset \in Nat /\ total \in Nat
  /\ got \subseteq Places \ Unwanted[kind]
  /\ state \in {"listing", "done", "failed"}
  /\ always \subseteq items \ Unwanted[kind]
  /\ repeats \in Nat /\ inserts \in Nat /\ removals \in Nat

\* The wanted items the listing has gone past without reading them.
Missed ==
  {i \in always \ got : state = "done" \/ Rank(i) < offset}

\* A listing misses no more of the items that were there throughout than were
\* removed while it ran: above all, when nothing is removed it misses none
\* (dnspod.go:147, privatedns.go:150).  A record missed is one that a request to
\* remove it leaves in place, and Records does not show.
MissesAreRemovals == state # "failed" => Cardinality(Missed) <= removals

\* It reads no more items twice than were added.  A record read twice has two
\* deletes, of which DNSPod refuses the second.
RepeatsAreInserts == repeats <= inserts

\* As long as nothing else changes forever, every listing ends: the offset gets
\* ahead with every answer or the total falls to it.
ListingEnds == <>(state # "listing")
=============================================================================
