---------------------------- MODULE PrivateApply ----------------------------
(***************************************************************************)
(* ApplyChanges on private zones: what POST /records makes of a set of     *)
(* changes, against PrivateDNS, while others use the account too.          *)
(*                                                                         *)
(* It runs as DnsPodApply does, with four differences.  PrivateDNS refuses *)
(* to delete the last record of a zone, so the handler first gives every   *)
(* zone it has listed a base record.  The deletes of a zone are one call.  *)
(* A record that is there already is an error.  And there are no lines.    *)
(***************************************************************************)
EXTENDS PrivateEdit, FiniteSets

CONSTANTS
  Handlers,        \* the goroutines that may serve a request at once
  Requests,        \* the changes that may be posted
  InitialLive,     \* the records PrivateDNS may hold at first
  ConsoleRecords,  \* the records a user may add in the console
  RetryDefault,    \* attempts of one API call, 3 in NewTencentAPIService
  MaxRequests, MaxFaults, MaxConsole, MaxCrashes, MaxTrouble    \* bounds, as in DnsPodApply

\* The changes of one request, plan.Changes.
IsChange(changes) ==
  LET eps == ToRemove(changes) \cup ToAdd(changes) IN
  /\ changes \in [create : Seq(eps), updateOld : Seq(eps), updateNew : Seq(eps), delete : Seq(eps)]
  /\ \A ep \in eps : IsEndpoint(ep)

\* Recorded tells the others from the handlers by this name.
ASSUME HandlersAssumption == "others" \notin Handlers
ASSUME RetryAssumption == RetryDefault \in Nat \ {0}
ASSUME RequestsAssumption == \A changes \in Requests : IsChange(changes)
\* The base record has no ownership mark: it is not ExternalDNS's to remove.  (But as
\* part of a TXT endpoint of its own at the apex, see MCPrivateSync_spurious.cfg; such
\* requests are left out here.)
ASSUME BasesAssumption ==
  \A changes \in Requests, z \in ZoneFilter : ~AskedToRemove(changes, Entry(BaseRecord(z)))
\* Ownership marks are held without quotes, as createPrivateZoneRecords writes them.
Canonical(r) == r.type = "TXT" /\ r.value.text \in Heritage => ~r.value.quoted
ASSUME CanonicalAssumption ==
  \A S \in InitialLive \cup {ConsoleRecords} : \A r \in S : Canonical(r)
ASSUME RecordsAssumption ==
  /\ ConsoleRecords \subseteq Record
  /\ \A S \in InitialLive :
       /\ IsFiniteSet(S) /\ S \subseteq Record
       /\ \A r \in S : r.id <= Cardinality(S)
       /\ \A r, s \in S : r.id = s.id \/ SameRecord(r, s) => r = s

VARIABLES
  live,      \* the records of the private zones
  nextId,    \* the id of the next record
  pc,        \* where each handler is
  req,       \* the changes it serves
  unread,    \* the zones whose records it has still to list
  snap,      \* zoneGroups: the records it has listed
  todo,      \* the calls it has to make
  job,       \* the call it is making, or made last
  times,     \* the attempt it is at
  base,      \* history: the account when the request came in
  foreign,   \* history: the slots others have changed since
  hit,       \* history: has a fault hit it that a retry may not make good?
  spent      \* the part of each bound used up

handlerVars == <<pc, req, unread, snap, todo, job, times>>
vars == <<live, nextId, handlerVars, base, foreign, hit, spent>>

None == [op |-> "none"]

\* recs: what to delete, in one call, or the one record to create.  twice: those of
\* recs whose id the call has more than once.
Call(op, z, i, k, recs, twice) ==
  [op |-> op, zone |-> z, endpoint |-> i, target |-> k, recs |-> recs, twice |-> twice]
Job == [op : {"base", "delete", "create"}, zone : ZoneFilter, endpoint : Nat, target : Nat,
        recs : SUBSET Record, twice : SUBSET Record]

Removals(changes) == changes.delete \o changes.updateOld
Creations(changes) == changes.create \o changes.updateNew

\* Mutant: every zone is given its base record, whatever it has.
BasesAlways(records) ==
  {Call("base", z, 0, 0, {BaseRecord(z)}, {}) : z \in ZoneFilter}

\* A call for each zone without base record among the records listed.
BasesFor(records) ==
  {Call("base", z, 0, 0, {BaseRecord(z)}, {}) :
     z \in {z \in ZoneFilter : ~\E r \in records : r.zone = z /\ IsBase(r)}}

\* Mutant: every zone that covers the name is searched, not the most specific.
DoomedInAllZones(z, changes, records) ==
  {r \in records : r.zone = z /\ \E ep \in ToRemove(changes) :
                                   Covers(Zones[z], ep.name) /\ Matches(ep, r)}

\* deleteEndpoints: the ids to delete in each zone.
DoomedIn(z, changes, records) ==
  {r \in records : r.zone = z /\ \E ep \in ToRemove(changes) :
                                   z \in FindZone(Managed, ep.name) /\ Matches(ep, r)}

\* An id is appended for every endpoint and target that match its record.
DoomedTwiceIn(z, changes, records) ==
  LET eps == Removals(changes) IN
  {r \in DoomedIn(z, changes, records) :
     \E i, j \in DOMAIN eps : \E k \in DOMAIN eps[i].targets, l \in DOMAIN eps[j].targets :
       /\ <<i, k>> # <<j, l>>
       /\ \A ep \in {eps[i], eps[j]} : z \in FindZone(Managed, ep.name) /\ Matches(ep, r)
       /\ r.value = eps[i].targets[k] /\ r.value = eps[j].targets[l]}

DeletesIn(changes, records) ==
  {Call("delete", z, 0, 0, DoomedIn(z, changes, records), DoomedTwiceIn(z, changes, records)) :
     z \in {z \in ZoneFilter : DoomedIn(z, changes, records) # {}}}

\* createEndpoints: one call for each endpoint and target.
CreatesIn(changes) ==
  UNION {UNION {{Call("create", z, i, k, {NewRecord(Creations(changes)[i], z, k)}, {})
                  : k \in DOMAIN Creations(changes)[i].targets}
                  : z \in FindZone(Managed, Creations(changes)[i].name)}
           : i \in DOMAIN Creations(changes)}

\* In one zone: by endpoint, then by target.
Before(i, j) == i.endpoint < j.endpoint \/ (i.endpoint = j.endpoint /\ i.target < j.target)

\* Mutant: the creates come before the deletes.
ReadyCreatesFirst(h) ==
  LET of(op) == {j \in todo[h] : j.op = op} IN
  IF of("base") # {} THEN of("base")
  ELSE IF of("create") # {} THEN of("create") ELSE of("delete")

\* Mutant: the base records come last.
ReadyBaseLast(h) ==
  LET of(op) == {j \in todo[h] : j.op = op} IN
  IF of("delete") # {} THEN of("delete")
  ELSE IF of("create") # {} THEN of("create") ELSE of("base")

\* The calls h may make next: base records, deletes, creates; of each, zone
\* after zone in the order of a Go map.
Ready(h) ==
  LET of(op) == {j \in todo[h] : j.op = op}
      phase  == IF of("base") # {} THEN of("base")
                ELSE IF of("delete") # {} THEN of("delete") ELSE of("create")
      same   == {j \in phase : job[h] # None /\ j.op = job[h].op /\ j.zone = job[h].zone}
      now    == IF same = {} THEN phase ELSE same
  IN  {j \in now : \A i \in now : i.zone = j.zone => ~Before(i, j)}
-----------------------------------------------------------------------------
Slots(S) == {Slot(Entry(r)) : r \in S}
Contents(S) == {Entry(r) : r \in S}

Active(h) == pc[h] \in {"zones", "records", "apply", "call"}

\* The history, as in DnsPodApply.
Recorded(by) ==
  LET changed == (live \ live') \cup (live' \ live) IN
  /\ base' = [h \in Handlers |->
                IF ~Active(h)' THEN {} ELSE IF Active(h) THEN base[h] ELSE live]
  /\ foreign' = [h \in Handlers |->
                   IF ~Active(h)' THEN {}
                   ELSE IF h = by THEN foreign[h] ELSE foreign[h] \cup Slots(changed)]

Budgets == {"requests", "faults", "console", "crashes"}
Trouble == spent["faults"] + spent["console"] + spent["crashes"]
Spend(what, max) ==
  /\ spent[what] < max
  /\ what = "requests" \/ Trouble < MaxTrouble
  /\ spent' = [spent EXCEPT ![what] = @ + 1]

Init ==
  /\ live \in InitialLive
  /\ nextId = Cardinality(live) + 1
  /\ pc = [h \in Handlers |-> "idle"]
  /\ req = [h \in Handlers |-> None]
  /\ unread = [h \in Handlers |-> {}]
  /\ snap = [h \in Handlers |-> {}]
  /\ todo = [h \in Handlers |-> {}]
  /\ job = [h \in Handlers |-> None]
  /\ times = [h \in Handlers |-> 1]
  /\ base = [h \in Handlers |-> {}]
  /\ foreign = [h \in Handlers |-> {}]
  /\ hit = [h \in Handlers |-> FALSE]
  /\ spent = [what \in Budgets |-> 0]

\* plan.Changes.HasChanges.  (The library takes updates that equal what they are to
\* replace for no changes as well; ExternalDNS posts none.)
HasChanges(changes) ==
  <<>> # changes.create \o changes.updateOld \o changes.updateNew \o changes.delete

\* Mutant: the calls not made stay behind, as in a queue kept for later.
EndKeepsCalls(h, result) ==
  /\ pc' = [pc EXCEPT ![h] = result]
  /\ unread' = [unread EXCEPT ![h] = {}]
  /\ snap' = [snap EXCEPT ![h] = {}]
  /\ job' = [job EXCEPT ![h] = None]
  /\ times' = [times EXCEPT ![h] = 1]
  /\ UNCHANGED <<req, todo>>

\* The end of a handler: its locals are gone.
End(h, result) ==
  /\ pc' = [pc EXCEPT ![h] = result]
  /\ unread' = [unread EXCEPT ![h] = {}]
  /\ snap' = [snap EXCEPT ![h] = {}]
  /\ todo' = [todo EXCEPT ![h] = {}]
  /\ job' = [job EXCEPT ![h] = None]
  /\ times' = [times EXCEPT ![h] = 1]
  /\ UNCHANGED req

\* A handler takes a set of changes; no changes are answered without a call.
Take(h, changes) ==
  /\ ~Active(h)
  /\ pc' = [pc EXCEPT ![h] = IF HasChanges(changes) THEN "zones" ELSE "ok"]
  /\ req' = [req EXCEPT ![h] = changes]
  /\ hit' = [hit EXCEPT ![h] = FALSE]
  /\ UNCHANGED <<live, nextId, unread, snap, todo, job, times>>

\* POST /records.
Receive(h, changes) == Take(h, changes) /\ Spend("requests", MaxRequests)

\* getPrivateZones.
ListZones(h) ==
  /\ pc[h] = "zones"
  /\ pc' = [pc EXCEPT ![h] = "records"]
  /\ unread' = [unread EXCEPT ![h] = ZoneFilter]
  /\ times' = [times EXCEPT ![h] = 1]
  /\ UNCHANGED <<live, nextId, req, snap, todo, job, hit, spent>>

\* Mutant: the ownership marks are listed as PrivateDNS holds them.
ListRecordsAsStored(h) ==
  /\ pc[h] = "records"
  /\ \E z \in unread[h] :
       /\ unread' = [unread EXCEPT ![h] = @ \ {z}]
       /\ snap' = [snap EXCEPT ![h] = @ \cup {r \in live : r.zone = z}]
  /\ times' = [times EXCEPT ![h] = 1]
  /\ UNCHANGED <<live, nextId, pc, req, todo, job, hit, spent>>

\* getPrivateZoneRecords of one zone; recordForPrivateZone quotes the marks.
ListRecords(h) ==
  /\ pc[h] = "records"
  /\ \E z \in unread[h] :
       /\ unread' = [unread EXCEPT ![h] = @ \ {z}]
       /\ snap' = [snap EXCEPT ![h] = @ \cup {Listed(r) : r \in {r \in live : r.zone = z}}]
  /\ times' = [times EXCEPT ![h] = 1]
  /\ UNCHANGED <<live, nextId, pc, req, todo, job, hit, spent>>

\* All zones listed: the handler works out its calls, all from the one snapshot.
Plan(h) ==
  /\ pc[h] = "records" /\ unread[h] = {}
  /\ pc' = [pc EXCEPT ![h] = "apply"]
  /\ todo' = [todo EXCEPT ![h] =
                BasesFor(snap[h]) \cup DeletesIn(req[h], snap[h]) \cup CreatesIn(req[h])]
  /\ UNCHANGED <<live, nextId, req, unread, snap, job, times, hit, spent>>

StartCall(h) ==
  /\ pc[h] = "apply"
  /\ \E j \in Ready(h) : job' = [job EXCEPT ![h] = j]
  /\ pc' = [pc EXCEPT ![h] = "call"]
  /\ times' = [times EXCEPT ![h] = 1]
  /\ UNCHANGED <<live, nextId, req, unread, snap, todo, hit, spent>>

\* All calls made: 204.
Succeed(h) ==
  /\ pc[h] = "apply" /\ todo[h] = {}
  /\ End(h, "ok")
  /\ UNCHANGED <<live, nextId, hit, spent>>
-----------------------------------------------------------------------------
(* PrivateDNS.                                                               *)

Held(recs) == {r \in live : \E s \in recs : s.id = r.id}
Remaining(j) == {r \in live \ Held(j.recs) : r.zone = j.zone}

\* It never lets a zone run empty and never holds a record twice.  When only
\* some of the ids to delete are there, or an id is named twice, it may do either:
\* delete those, or refuse.
MayAccept(j) ==
  IF j.op = "delete" THEN Remaining(j) # {}
  ELSE \A r \in live, s \in j.recs : ~SameRecord(r, s)
MayRefuse(j) ==
  \/ ~MayAccept(j)
  \/ j.op = "delete" /\ \E s \in j.recs : \A r \in live : r.id # s.id
  \/ j.op = "delete" /\ j.twice # {}

\* What an accepted call does.
Execute(j) ==
  IF j.op = "delete"
  THEN live' = live \ Held(j.recs) /\ UNCHANGED nextId
  ELSE live' = live \cup {[s EXCEPT !.id = nextId] : s \in j.recs} /\ nextId' = nextId + 1

Serve(h) == MayAccept(job[h]) /\ Execute(job[h])

\* The handler goes on to its next call.
Done(h) ==
  /\ pc' = [pc EXCEPT ![h] = "apply"]
  /\ todo' = [todo EXCEPT ![h] = @ \ {job[h]}]
  /\ UNCHANGED <<req, unread, snap, job, times>>

\* dealWithError false: another attempt while there is one.
Again(h) ==
  /\ times[h] < RetryDefault
  /\ times' = [times EXCEPT ![h] = @ + 1]
  /\ UNCHANGED <<pc, req, unread, snap, todo, job>>

LastAttempt(h) == times[h] = RetryDefault

\* Executed and answered.
Answered(h) ==
  /\ pc[h] = "call"
  /\ Serve(h)
  /\ Done(h)
  /\ UNCHANGED <<hit, spent>>

\* Refused, and after the last attempt the handler's error, whatever it was.
Refused(h) ==
  /\ pc[h] = "call"
  /\ MayRefuse(job[h])
  /\ Again(h) \/ (LastAttempt(h) /\ End(h, "failed"))
  /\ UNCHANGED <<live, nextId, hit, spent>>

Fault(h, final) ==
  /\ Spend("faults", MaxFaults)
  /\ hit' = [hit EXCEPT ![h] = @ \/ final]

\* Executed, but the answer is lost.  The retry of a create is refused for good.
AnswerLost(h) ==
  /\ pc[h] = "call"
  /\ Serve(h)
  /\ Fault(h, TRUE)
  /\ Again(h) \/ (LastAttempt(h) /\ End(h, "failed"))

\* At an API call: of a listing or of an edit.
Calling(h) ==
  \/ pc[h] \in {"zones", "call"}
  \/ pc[h] = "records" /\ unread[h] # {}

\* An error before anything is executed.
NotExecuted(h) ==
  /\ Calling(h)
  /\ Fault(h, LastAttempt(h))
  /\ Again(h) \/ (LastAttempt(h) /\ End(h, "failed"))
  /\ UNCHANGED <<live, nextId>>

\* RequestLimitExceeded: no further attempt.
Throttled(h) ==
  /\ Calling(h)
  /\ Fault(h, TRUE)
  /\ End(h, "failed")
  /\ UNCHANGED <<live, nextId>>

\* The webhook dies.
Crash ==
  /\ \E h \in Handlers : Active(h)
  /\ Spend("crashes", MaxCrashes)
  /\ pc' = [h \in Handlers |-> IF Active(h) THEN "failed" ELSE pc[h]]
  /\ hit' = [h \in Handlers |-> hit[h] \/ Active(h)]
  /\ unread' = [h \in Handlers |-> {}]
  /\ snap' = [h \in Handlers |-> {}]
  /\ todo' = [h \in Handlers |-> {}]
  /\ job' = [h \in Handlers |-> None]
  /\ times' = [h \in Handlers |-> 1]
  /\ UNCHANGED <<live, nextId, req>>

\* A user in the console, to whom the rules of PrivateDNS apply as well.
ConsoleAdd ==
  /\ Spend("console", MaxConsole)
  /\ \E r \in ConsoleRecords :
       /\ \A s \in live : ~SameRecord(r, s)
       /\ live' = live \cup {[r EXCEPT !.id = nextId]}
  /\ nextId' = nextId + 1
  /\ UNCHANGED <<handlerVars, hit>>

ConsoleRemove ==
  /\ Spend("console", MaxConsole)
  /\ \E r \in live :
       /\ \E s \in live \ {r} : s.zone = r.zone
       /\ live' = live \ {r}
  /\ UNCHANGED <<nextId, handlerVars, hit>>
-----------------------------------------------------------------------------
HandlerStep(h) ==
  \/ ListZones(h) \/ ListRecords(h) \/ Plan(h) \/ StartCall(h) \/ Succeed(h)
  \/ Answered(h) \/ Refused(h)
  \/ AnswerLost(h) \/ NotExecuted(h) \/ Throttled(h)

Environment ==
  \/ \E h \in Handlers, changes \in Requests : Receive(h, changes)
  \/ Crash \/ ConsoleAdd \/ ConsoleRemove

Next ==
  \/ \E h \in Handlers : HandlerStep(h) /\ Recorded(h)
  \/ Environment /\ Recorded("others")

Spec == Init /\ [][Next]_vars
-----------------------------------------------------------------------------
PcValues == {"idle", "zones", "records", "apply", "call", "ok", "failed"}

\* Beside the usual: ids are given out in order and name one record, PrivateDNS
\* never holds a record twice, a handler has locals only where the code has
\* them, and a call is one of its calls.
TypeOK ==
  /\ nextId \in Nat
  /\ live \subseteq Record
  /\ \A r \in live : r.id < nextId
  /\ \A r, s \in live : r.id = s.id \/ SameRecord(r, s) => r = s
  /\ pc \in [Handlers -> PcValues]
  /\ req \in [Handlers -> Requests \cup {None}]
  /\ unread \in [Handlers -> SUBSET ZoneFilter]
  /\ snap \in [Handlers -> SUBSET Record]
  /\ todo \in [Handlers -> SUBSET Job]
  /\ job \in [Handlers -> Job \cup {None}]
  /\ times \in [Handlers -> 1..RetryDefault]
  /\ spent \in [Budgets -> Nat]
  /\ \A h \in Handlers :
       /\ Active(h) => req[h] \in Requests
       /\ ~Active(h) => snap[h] = {} /\ todo[h] = {}
       /\ pc[h] = "call" => job[h] \in todo[h]

\* Has anyone else touched the base record of zone z since h began?
BaseDisturbed(h, z) == Slot(Entry(BaseRecord(z))) \in foreign[h]

\* "A Zone has at least one record. The last rule cannot be deleted."
\* (privatedns.go:176.)  The base record made first does its work: whatever the
\* changes delete, the call leaves a record in the zone and cannot be refused
\* for emptying it, unless someone else took the base record away meanwhile.
\* (No changes name it: BasesAssumption.)
NeverLast ==
  \A h \in Handlers : pc[h] = "call" /\ job[h].op = "delete" =>
    Remaining(job[h]) # {} \/ BaseDisturbed(h, job[h].zone)

\* What a handler takes out of the zones is a record that, as it stands at that
\* moment, its changes ask to remove: this name, type and target, in the zone
\* the name belongs to.
DeletesOnlyPlanned ==
  [][spent'["console"] = spent["console"] =>
       \A r \in live \ live' :
         \E h \in Handlers : pc[h] = "call" /\ AskedToRemove(req[h], Entry(r))]_vars

\* The part of content S that nobody but h has touched since h began.
Undisturbed(h, S) == {e \in S : Slot(e) \notin foreign[h]}

\* A handler that answers 204 has done all it was asked and nothing else but
\* give every zone its base record.
SuccessIsOutcome ==
  [][\A h \in Handlers : Active(h) /\ pc'[h] = "ok" =>
       Undisturbed(h, Contents(live'))
         = Undisturbed(h, Outcome(req[h], Contents(base[h])))]_vars

\* At every moment of a handler, and so wherever it fails or the webhook dies,
\* nothing it was not asked to remove is missing, and nothing is there that it
\* was not asked to add but the base records.
NothingElseChanges ==
  \A h \in Handlers : Active(h) =>
    LET now == Undisturbed(h, Contents(live)) IN
    /\ Undisturbed(h, Kept(req[h], Contents(base[h]))) \subseteq now
    /\ now \subseteq Contents(base[h]) \cup Bases \cup Additions(req[h])

\* No record is created, base records apart, while one the handler has listed
\* for removal is still there: the delete of every zone comes before the first
\* create in any.
OldGoneBeforeNew ==
  \A h \in Handlers : pc[h] = "call" /\ job[h].op = "create" =>
    \A s \in snap[h] : AskedToRemove(req[h], Entry(s)) => \A r \in live : r.id # s.id

\* Do the changes ask for one record twice?  Two endpoints that differ in their
\* set identifier only do, and each makes its create.
AddedTwice(changes) ==
  LET eps == Creations(changes) IN
  \E i, j \in DOMAIN eps : \E k \in DOMAIN eps[i].targets, l \in DOMAIN eps[j].targets :
    /\ <<i, k>> # <<j, l>>
    /\ eps[i].name = eps[j].name /\ eps[i].type = eps[j].type
    /\ Stripped(eps[i].type, eps[i].targets[k]) = Stripped(eps[j].type, eps[j].targets[l])

\* Do they ask to remove one record twice?  The delete of its zone then names its
\* id twice.
RemovedTwice(changes) ==
  LET eps == Removals(changes) IN
  \E i, j \in DOMAIN eps : \E k \in DOMAIN eps[i].targets, l \in DOMAIN eps[j].targets :
    /\ <<i, k>> # <<j, l>>
    /\ eps[i].name = eps[j].name /\ eps[i].type = eps[j].type
    /\ eps[i].targets[k] = eps[j].targets[l]

\* Changes fail only for a cause: a fault that the retry cannot make good,
\* someone else at work on a name and type of the changes or on a base record,
\* a delete that may be refused since it names one id twice, or a create that
\* PrivateDNS must refuse: of a record that is there and stays, of a base record,
\* or of one record twice.
FailsOnlyForACause ==
  [][\A h \in Handlers : Active(h) /\ pc'[h] = "failed" =>
       \/ hit'[h]
       \/ \E ep \in ToRemove(req[h]) \cup ToAdd(req[h]) : <<ep.name, ep.type>> \in foreign[h]
       \/ \E z \in ZoneFilter : BaseDisturbed(h, z)
       \/ \E a \in Additions(req[h]) : \E e \in Kept(req[h], Contents(base[h])) \cup Bases :
            Key(a) = Key(e)
       \/ AddedTwice(req[h]) \/ RemovedTwice(req[h])]_vars
=============================================================================
