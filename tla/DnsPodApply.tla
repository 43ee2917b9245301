---------------------------- MODULE DnsPodApply ----------------------------
(***************************************************************************)
(* ApplyChanges on public zones: what POST /records makes of a set of      *)
(* changes, against a DNSPod account that others use at the same time.     *)
(*                                                                         *)
(* The HTTP server runs each request on its own goroutine, the provider    *)
(* has no lock, and the request's context is ignored, so a handler whose   *)
(* client went away runs on beside the next one.  A handler lists the      *)
(* domains, lists each domain's records into a snapshot, computes from it  *)
(* the ids to delete, deletes them one call at a time, and then creates    *)
(* the new records one call at a time.  The first call that fails for good *)
(* ends it, with everything before that call done.                         *)
(***************************************************************************)
EXTENDS ZoneEdit, Naturals, Sequences, FiniteSets

CONSTANTS
  Handlers,        \* the goroutines that may serve a request at once
  Requests,        \* the changes that may be posted
  InitialLive,     \* the records DNSPod may hold at first
  ConsoleRecords,  \* the records a user may add in the console
  RetryDefault,    \* attempts of one API call, 3 in NewTencentAPIService
  MaxRequests,     \* bounds of the model: requests posted,
  MaxFaults,       \*   API attempts that go wrong,
  MaxConsole,      \*   records added or removed in the console,
  MaxEdits,        \*   records moved to another line there,
  MaxCrashes,      \*   restarts of the webhook,
  MaxTrouble       \*   and of the last four together

\* The changes of one request, plan.Changes.
IsChange(changes) ==
  LET eps == ToRemove(changes) \cup ToAdd(changes) IN
  /\ changes \in [create : Seq(eps), updateOld : Seq(eps), updateNew : Seq(eps), delete : Seq(eps)]
  /\ \A ep \in eps : IsEndpoint(ep)

\* Recorded tells the others from the handlers by this name.
ASSUME HandlersAssumption == "others" \notin Handlers
ASSUME RetryAssumption == RetryDefault \in Nat \ {0}
ASSUME RequestsAssumption == \A changes \in Requests : IsChange(changes)
ASSUME RecordsAssumption ==
  /\ ConsoleRecords \subseteq Record
  /\ \A S \in InitialLive :
       /\ IsFiniteSet(S) /\ S \subseteq Record
       /\ \A r \in S : r.id <= Cardinality(S)
       /\ \A r, s \in S : r.id = s.id => r = s

VARIABLES
  live,      \* the records of the account
  nextId,    \* the id of the next record: DNSPod never uses an id twice
  pc,        \* where each handler is
  req,       \* the changes it serves
  unread,    \* the domains whose records it has still to list
  snap,      \* recordsGroupMap: the records it has listed
  todo,      \* deleteEndpoints and createEndpoints: the calls it has to make
  job,       \* the call it is making, or made last
  times,     \* the attempt it is at, in the loop of every API function
  base,      \* history: the account when the request came in
  foreign,   \* history: the slots others have changed since
  hit,       \* history: has a fault hit it that no retry makes good?
  spent      \* the part of each bound used up

handlerVars == <<pc, req, unread, snap, todo, job, times>>
vars == <<live, nextId, handlerVars, base, foreign, hit, spent>>

None == [op |-> "none"]
Job == [op : {"delete", "create"}, zone : DomainFilter, endpoint : Nat, target : Nat,
        rec : Record]

Call(op, i, k, r) ==
  [op |-> op, zone |-> r.zone, endpoint |-> i, target |-> k, rec |-> r]

\* The endpoints in the order the two loops visit them.
Removals(changes) == changes.delete \o changes.updateOld
Creations(changes) == changes.create \o changes.updateNew

\* Mutant: every zone that covers the name is searched, not the most specific.
DeletesInAllZones(changes, records) ==
  UNION {UNION {{Call("delete", i, k, r) : k \in Matches(Removals(changes)[i], r)}
                  : r \in {s \in records : Covers(Zones[s.zone], Removals(changes)[i].name)}}
           : i \in DOMAIN Removals(changes)}

\* deleteEndpoints: one call for each endpoint, matching record of the snapshot
\* and matching target.  The zone is the one FindZone returns; when there is
\* none the endpoint is skipped with a warning.
DeletesIn(changes, records) ==
  UNION {UNION {{Call("delete", i, k, r) : k \in Matches(Removals(changes)[i], r)}
                  : r \in {s \in records : s.zone \in FindZone(Managed, Removals(changes)[i].name)}}
           : i \in DOMAIN Removals(changes)}

\* createEndpoints: one call for each endpoint and target.
CreatesIn(changes) ==
  UNION {UNION {{Call("create", i, k, NewRecord(Creations(changes)[i], z, k))
                  : k \in DOMAIN Creations(changes)[i].targets}
                  : z \in FindZone(Managed, Creations(changes)[i].name)}
           : i \in DOMAIN Creations(changes)}

\* The order inside one zone: by endpoint, and on create by target.  (The
\* records of one endpoint are deleted in the order DNSPod lists them: any.)
Before(i, j) ==
  \/ i.endpoint < j.endpoint
  \/ i.op = "create" /\ i.endpoint = j.endpoint /\ i.target < j.target

\* Mutant: the creates come first.
ReadyCreatesFirst(h) ==
  {j \in todo[h] : j.op = "create" \/ \A i \in todo[h] : i.op = "delete"}

\* The calls h may make next: all deletes before the first create, and the
\* zones one after the other, in the order of a Go map.
Ready(h) ==
  LET phase == {j \in todo[h] : j.op = "delete" \/ \A i \in todo[h] : i.op = "create"}
      same  == {j \in phase : job[h] # None /\ j.op = job[h].op /\ j.zone = job[h].zone}
      now   == IF same = {} THEN phase ELSE same
  IN  {j \in now : \A i \in now : i.zone = j.zone => ~Before(i, j)}
-----------------------------------------------------------------------------
Slots(S) == {Slot(Entry(r)) : r \in S}
Contents(S) == {Entry(r) : r \in S}

Active(h) == pc[h] \in {"domains", "records", "apply", "call"}

\* The history: a handler at work remembers the account it started from and
\* every slot that anyone but itself has changed since.
Recorded(by) ==
  LET changed == (live \ live') \cup (live' \ live) IN
  /\ base' = [h \in Handlers |->
                IF ~Active(h)' THEN {} ELSE IF Active(h) THEN base[h] ELSE live]
  /\ foreign' = [h \in Handlers |->
                   IF ~Active(h)' THEN {}
                   ELSE IF h = by THEN foreign[h] ELSE foreign[h] \cup Slots(changed)]

Budgets == {"requests", "faults", "console", "edits", "crashes"}
Trouble == spent["faults"] + spent["console"] + spent["edits"] + spent["crashes"]
Spend(what, max) ==
  /\ spent[what] < max
  /\ what = "requests" \/ Trouble < MaxTrouble
  /\ spent' = [spent EXCEPT ![what] = @ + 1]

Init ==
  /\ live \in InitialLive
  /\ nextId = Cardinality(live) + 1
  /\ pc = [h \in Handlers |-> "idle"]
  /\ req = [h \in Handlers |-> None]
  /\ unread = [h \in Handlers |-> {}]
  /\ snap = [h \in Handlers |-> {}]
  /\ todo = [h \in Handlers |-> {}]
  /\ job = [h \in Handlers |-> None]
  /\ times = [h \in Handlers |-> 1]
  /\ base = [h \in Handlers |-> {}]
  /\ foreign = [h \in Handlers |-> {}]
  /\ hit = [h \in Handlers |-> FALSE]
  /\ spent = [what \in Budgets |-> 0]

\* plan.Changes.HasChanges.  (The library takes updates that equal what they are to
\* replace for no changes as well; ExternalDNS posts none.)
HasChanges(changes) ==
  <<>> # changes.create \o changes.updateOld \o changes.updateNew \o changes.delete

\* Mutant: the snapshot outlives the handler, as a cache would.
EndKeepsSnapshot(h, result) ==
  /\ pc' = [pc EXCEPT ![h] = result]
  /\ unread' = [unread EXCEPT ![h] = {}]
  /\ todo' = [todo EXCEPT ![h] = {}]
  /\ job' = [job EXCEPT ![h] = None]
  /\ times' = [times EXCEPT ![h] = 1]
  /\ UNCHANGED <<req, snap>>

\* The end of a handler: its locals are gone.
End(h, result) ==
  /\ pc' = [pc EXCEPT ![h] = result]
  /\ unread' = [unread EXCEPT ![h] = {}]
  /\ snap' = [snap EXCEPT ![h] = {}]
  /\ todo' = [todo EXCEPT ![h] = {}]
  /\ job' = [job EXCEPT ![h] = None]
  /\ times' = [times EXCEPT ![h] = 1]
  /\ UNCHANGED req

\* ApplyChanges begins on h; no changes are answered at once, without a call.
Take(h, changes) ==
  /\ ~Active(h)
  /\ pc' = [pc EXCEPT ![h] = IF HasChanges(changes) THEN "domains" ELSE "ok"]
  /\ req' = [req EXCEPT ![h] = changes]
  /\ hit' = [hit EXCEPT ![h] = FALSE]
  /\ UNCHANGED <<live, nextId, unread, snap, todo, job, times>>

\* POST /records, from anyone.
Receive(h, changes) == Take(h, changes) /\ Spend("requests", MaxRequests)

\* getDomainList.
ListDomains(h) ==
  /\ pc[h] = "domains"
  /\ pc' = [pc EXCEPT ![h] = "records"]
  /\ unread' = [unread EXCEPT ![h] = DomainFilter]
  /\ times' = [times EXCEPT ![h] = 1]
  /\ UNCHANGED <<live, nextId, req, snap, todo, job, hit, spent>>

\* Mutant: the ownership marks are listed as DNSPod holds them.
ListRecordsAsStored(h) ==
  /\ pc[h] = "records"
  /\ \E z \in unread[h] :
       /\ unread' = [unread EXCEPT ![h] = @ \ {z}]
       /\ snap' = [snap EXCEPT ![h] = @ \cup {r \in live : r.zone = z /\ ~IsSpecial(r)}]
  /\ times' = [times EXCEPT ![h] = 1]
  /\ UNCHANGED <<live, nextId, pc, req, todo, job, hit, spent>>

\* getDomainRecordList of one domain; recordsForDNS quotes the ownership marks.
ListRecords(h) ==
  /\ pc[h] = "records"
  /\ \E z \in unread[h] :
       /\ unread' = [unread EXCEPT ![h] = @ \ {z}]
       /\ snap' = [snap EXCEPT ![h] =
                     @ \cup {Listed(r) : r \in {r \in live : r.zone = z /\ ~IsSpecial(r)}}]
  /\ times' = [times EXCEPT ![h] = 1]
  /\ UNCHANGED <<live, nextId, pc, req, todo, job, hit, spent>>

\* All domains listed: the handler works out its calls.
Plan(h) ==
  /\ pc[h] = "records" /\ unread[h] = {}
  /\ pc' = [pc EXCEPT ![h] = "apply"]
  /\ todo' = [todo EXCEPT ![h] = DeletesIn(req[h], snap[h]) \cup CreatesIn(req[h])]
  /\ UNCHANGED <<live, nextId, req, unread, snap, job, times, hit, spent>>

\* The next turn of the loops of deleteRecords and createRecord.
StartCall(h) ==
  /\ pc[h] = "apply"
  /\ \E j \in Ready(h) : job' = [job EXCEPT ![h] = j]
  /\ pc' = [pc EXCEPT ![h] = "call"]
  /\ times' = [times EXCEPT ![h] = 1]
  /\ UNCHANGED <<live, nextId, req, unread, snap, todo, hit, spent>>

\* All calls made: 204.
Succeed(h) ==
  /\ pc[h] = "apply" /\ todo[h] = {}
  /\ End(h, "ok")
  /\ UNCHANGED <<live, nextId, hit, spent>>
-----------------------------------------------------------------------------
\* Does DNSPod accept the call?  It refuses to delete an id it does not hold
\* and to create a record it holds already.
Accepted(j) ==
  IF j.op = "delete" THEN \E r \in live : r.id = j.rec.id
  ELSE \A r \in live : ~SameRecord(r, j.rec)

\* What an accepted call does to the account.
Execute(j) ==
  IF j.op = "delete"
  THEN live' = {r \in live : r.id # j.rec.id} /\ UNCHANGED nextId
  ELSE live' = live \cup {[j.rec EXCEPT !.id = nextId]} /\ nextId' = nextId + 1

Serve(h) == Accepted(job[h]) /\ Execute(job[h])

\* The loop goes on to the next call.
Done(h) ==
  /\ pc' = [pc EXCEPT ![h] = "apply"]
  /\ todo' = [todo EXCEPT ![h] = @ \ {job[h]}]
  /\ UNCHANGED <<req, unread, snap, job, times>>

\* Mutant: the retry loop does not count.
AgainUncounted(h) ==
  /\ times[h] < RetryDefault
  /\ UNCHANGED <<pc, req, unread, snap, todo, job, times>>

\* dealWithError false: another attempt while there is one.
Again(h) ==
  /\ times[h] < RetryDefault
  /\ times' = [times EXCEPT ![h] = @ + 1]
  /\ UNCHANGED <<pc, req, unread, snap, todo, job>>

LastAttempt(h) == times[h] = RetryDefault

\* Executed and answered.
Answered(h) ==
  /\ pc[h] = "call"
  /\ Serve(h)
  /\ Done(h)
  /\ UNCHANGED <<hit, spent>>

\* Mutant: DomainRecordExist is an error like any other.
RefusedIsFatal(h) ==
  /\ pc[h] = "call"
  /\ ~Accepted(job[h])
  /\ Again(h) \/ (LastAttempt(h) /\ End(h, "failed"))
  /\ UNCHANGED <<live, nextId, hit, spent>>

\* Refused.  Every refusal is retried; in the end DomainRecordExist counts as
\* created, and any other refusal is the handler's error.
Refused(h) ==
  /\ pc[h] = "call"
  /\ ~Accepted(job[h])
  /\ \/ Again(h)
     \/ LastAttempt(h) /\ job[h].op = "create" /\ Done(h)
     \/ LastAttempt(h) /\ job[h].op = "delete" /\ End(h, "failed")
  /\ UNCHANGED <<live, nextId, hit, spent>>

\* A fault, and whether it is one that no retry makes good.
Fault(h, final) ==
  /\ Spend("faults", MaxFaults)
  /\ hit' = [hit EXCEPT ![h] = @ \/ final]

\* Executed, but the answer is lost.  The retry of a create meets
\* DomainRecordExist and counts as created; that of a delete is refused for good,
\* though the record is gone.  On the last attempt the handler fails with the
\* call done.
AnswerLost(h) ==
  /\ pc[h] = "call"
  /\ Serve(h)
  /\ Fault(h, job[h].op = "delete" \/ LastAttempt(h))
  /\ Again(h) \/ (LastAttempt(h) /\ End(h, "failed"))

\* At an API call: of a listing or of an edit.
Calling(h) ==
  \/ pc[h] \in {"domains", "call"}
  \/ pc[h] = "records" /\ unread[h] # {}

\* An error before anything is executed.
NotExecuted(h) ==
  /\ Calling(h)
  /\ Fault(h, LastAttempt(h))
  /\ Again(h) \/ (LastAttempt(h) /\ End(h, "failed"))
  /\ UNCHANGED <<live, nextId>>

\* RequestLimitExceeded: dealWithError true, and that means no further attempt.
Throttled(h) ==
  /\ Calling(h)
  /\ Fault(h, TRUE)
  /\ End(h, "failed")
  /\ UNCHANGED <<live, nextId>>

\* The webhook dies: every handler is gone, what it did stays.
Crash ==
  /\ \E h \in Handlers : Active(h)
  /\ Spend("crashes", MaxCrashes)
  /\ pc' = [h \in Handlers |-> IF Active(h) THEN "failed" ELSE pc[h]]
  /\ hit' = [h \in Handlers |-> hit[h] \/ Active(h)]
  /\ unread' = [h \in Handlers |-> {}]
  /\ snap' = [h \in Handlers |-> {}]
  /\ todo' = [h \in Handlers |-> {}]
  /\ job' = [h \in Handlers |-> None]
  /\ times' = [h \in Handlers |-> 1]
  /\ UNCHANGED <<live, nextId, req>>
-----------------------------------------------------------------------------
\* A user in the console of DNSPod.
ConsoleStep(added, removed) ==
  /\ live' = (live \ removed) \cup added
  /\ UNCHANGED <<handlerVars, hit>>

ConsoleAdd ==
  /\ Spend("console", MaxConsole)
  /\ \E r \in ConsoleRecords :
       /\ \A s \in live : ~SameRecord(r, s)
       /\ ConsoleStep({[r EXCEPT !.id = nextId]}, {})
  /\ nextId' = nextId + 1

ConsoleRemove ==
  /\ Spend("console", MaxConsole)
  /\ \E r \in live : ConsoleStep({}, {r})
  /\ UNCHANGED nextId

\* Moving a record to the line of another keeps its id.
ConsoleEdit ==
  /\ Spend("edits", MaxEdits)
  /\ \E r, s \in live :
       LET moved == [r EXCEPT !.line = s.line] IN
       /\ \A t \in live : ~SameRecord(moved, t)
       /\ ConsoleStep({moved}, {r})
  /\ UNCHANGED nextId

\* The steps the code takes by itself once a request is in.
HandlerStep(h) ==
  \/ ListDomains(h) \/ ListRecords(h) \/ Plan(h) \/ StartCall(h) \/ Succeed(h)
  \/ Answered(h) \/ Refused(h)
  \/ AnswerLost(h) \/ NotExecuted(h) \/ Throttled(h)

Environment ==
  \/ \E h \in Handlers, changes \in Requests : Receive(h, changes)
  \/ Crash \/ ConsoleAdd \/ ConsoleRemove \/ ConsoleEdit

Step(h) == HandlerStep(h) /\ Recorded(h)

Next ==
  \/ \E h \in Handlers : Step(h)
  \/ Environment /\ Recorded("others")

Spec == Init /\ [][Next]_vars
FairSpec == Spec /\ \A h \in Handlers : WF_vars(Step(h))
-----------------------------------------------------------------------------
PcValues == {"idle", "domains", "records", "apply", "call", "ok", "failed"}

\* Beside the usual: ids are given out in order and name one record, a handler
\* holds locals only where the code has them, and a call is one of its calls.
TypeOK ==
  /\ nextId \in Nat
  /\ live \subseteq Record
  /\ \A r \in live : r.id < nextId
  /\ \A r, s \in live : r.id = s.id => r = s
  /\ pc \in [Handlers -> PcValues]
  /\ req \in [Handlers -> Requests \cup {None}]
  /\ unread \in [Handlers -> SUBSET DomainFilter]
  /\ snap \in [Handlers -> SUBSET Record]
  /\ todo \in [Handlers -> SUBSET Job]
  /\ job \in [Handlers -> Job \cup {None}]
  /\ times \in [Handlers -> 1..RetryDefault]
  /\ spent \in [Budgets -> Nat]
  /\ \A h \in Handlers :
       /\ Active(h) => req[h] \in Requests
       /\ ~Active(h) => snap[h] = {} /\ todo[h] = {}
       /\ pc[h] = "call" => job[h] \in todo[h]

\* Line-aware delete (CHANGELOG.md:15, docs/reference/annotations.md:81): over
\* any interleaving of handlers, lost answers and retries, what a handler takes
\* out of the account is a record that, as it stands at that moment, its
\* changes ask to remove: this name, type, line and target, in the zone the
\* name belongs to, and no NS record of an apex.  That is, until someone moves a
\* record to another line in place: the id stays, and the code deletes by id.
DeletesOnlyPlanned ==
  [][spent'["console"] = spent["console"] /\ spent'["edits"] = 0 =>
       \A r \in live \ live' :
         \E h \in Handlers : pc[h] = "call" /\ AskedToRemove(req[h], Entry(r))]_vars

\* No record is created while one the handler has listed for removal is still
\* there: an old and a new target of a name are never served side by side, and
\* a failed delete ends the handler before its first create.
OldGoneBeforeNew ==
  \A h \in Handlers : pc[h] = "call" /\ job[h].op = "create" =>
    \A s \in snap[h] : AskedToRemove(req[h], Entry(s)) => \A r \in live : r.id # s.id

\* Do the changes ask for the removal of one record twice?  Two endpoints that
\* differ in their set identifier only do, and each appends the id.
RemovedTwice(changes) ==
  LET eps == Removals(changes) IN
  \E i, j \in DOMAIN eps : \E k \in DOMAIN eps[i].targets, l \in DOMAIN eps[j].targets :
    /\ <<i, k>> # <<j, l>>
    /\ eps[i].name = eps[j].name /\ eps[i].type = eps[j].type
    /\ EndpointLine(eps[i]) = EndpointLine(eps[j])
    /\ eps[i].targets[k] = eps[j].targets[l]

\* Changes fail only for a cause: a call throttled or out of attempts, the
\* answer of a delete lost, a crash, one record to be removed twice, or someone
\* else at work on a name and type the handler is to remove.  An answer lost on
\* create, above all, is made good by the retry (CHANGELOG.md:16).
FailsOnlyForACause ==
  [][\A h \in Handlers : Active(h) /\ pc'[h] = "failed" =>
       \/ hit'[h]
       \/ RemovedTwice(req[h])
       \/ \E ep \in ToRemove(req[h]) : <<ep.name, ep.type>> \in foreign[h]]_vars

\* Have these changes been posted, once to each handler that has served them, and
\* nothing else been done to the account?
OnlyPosted(changes) ==
  /\ \A h \in Handlers : req[h] \in {changes, None}
  /\ spent["requests"] = Cardinality({h \in Handlers : req[h] = changes})
  /\ Trouble = 0

\* A client that gives up waiting posts its changes again while the first
\* handlers still run.  Each may list what another is in the middle of, and delete
\* what another has created; but when all of them say they are done, the account
\* is what the changes lead to.  (For one account at first.)
RepostConverges ==
  \A changes \in Requests :
    /\ OnlyPosted(changes)
    /\ \A h \in Handlers : pc[h] \in {"idle", "ok"}
    /\ \E h \in Handlers : pc[h] = "ok"
    => \A S \in InitialLive : Contents(live) = Outcome(changes, Contents(S))

\* Are all names of the changes of one zone?
InOneZone(changes) ==
  \E z \in DomainFilter : \A ep \in ToRemove(changes) \cup ToAdd(changes) :
    FindZone(Managed, ep.name) \subseteq {z}

\* One may fail, as its records are taken by the other; when changes in one zone
\* are posted twice, it is enough that one says it is done.  (Not so in two zones,
\* nor posted three times: a handler may delete what another has put back, and
\* then fail before it creates it again.  Nor if they ask to remove a record twice,
\* at which a handler fails after it has deleted what another has put back.)
OneDoneSuffices ==
  \A changes \in Requests :
    /\ OnlyPosted(changes) /\ spent["requests"] <= 2
    /\ InOneZone(changes) /\ ~RemovedTwice(changes)
    /\ \A h \in Handlers : ~Active(h)
    /\ \E h \in Handlers : pc[h] = "ok"
    => \A S \in InitialLive : Contents(live) = Outcome(changes, Contents(S))

\* Every request that came in is answered, or the webhook has died.
EveryRequestEnds == \A h \in Handlers : Active(h) ~> ~Active(h)
=============================================================================
