# Verification of external-dns-tencentcloud-webhook

TLA+ models of the webhook, checked with TLC, and theorems about them, checked
with TLAPS. The webhook stands between ExternalDNS and two DNS services of
Tencent Cloud: DNSPod (public zones) and PrivateDNS (zones of a VPC). It keeps
no state of its own; everything that matters is in the account, which other
handlers, other ExternalDNS instances and users of the console change too.

## 1. The system

| component | code | state | operations |
|---|---|---|---|
| HTTP server | `pkg/server/server.go` | none; one goroutine per request, 10 s read and write timeouts | `GET /` (negotiate), `GET /records`, `POST /records`, `POST /adjustendpoints`, `/healthz` on a second port |
| Provider, common part | `pkg/provider/provider.go` | the filters and the API service, fixed at start | `Records`, `AdjustEndpoints`, `ApplyChanges` (no lock, context ignored), reading of provider-specific properties |
| Zone lookup | `pkg/provider/zonefinder.go` | a map built for each request | `FindZone`: the most specific zone of a name |
| DNSPod provider | `pkg/provider/dnspod.go` | locals of a request: the snapshot, two maps of calls | list domains and records by pages, group, delete one by one, create one by one; `DomainRecordExist` counts as created |
| PrivateDNS provider | `pkg/provider/privatedns.go` | the same | the same, with a base record per zone, one batch delete per zone, creates that are not idempotent |
| API service | `pkg/cloudapi/tencentapi.go` | the attempt counter of a call | a loop of three attempts around every SDK call; `RequestLimitExceeded` ends it at once |
| Client set | `pkg/cloudapi/clientset.go` | one rate limiter per action, made on first use | wait for a slot, hand out the SDK client |
| Read-only service | `pkg/cloudapi/readonlyapi.go` | none | the dry run: writes are answered without a call |
| Start-up | `main.go` | flags, environment, config file | choose the configuration, start both servers |
| Credentials | `pkg/provider/provider.go` | none | static keys or OIDC |

How they interact. A request enters through the server, which calls the
provider synchronously on the request's goroutine. The provider calls the API
service, which takes a client (and waits for its limiter) for every attempt.
Nothing is shared between two requests but the limiters and the account.
ExternalDNS is the client: every turn of its loop reads `/records`, has the
wished-for endpoints adjusted, compares, and posts the difference.

What is hard, and where (PROJECT.json has each at its line):

- the snapshot is stale when it is used: ids are listed once and deleted later,
  with other handlers and the console in between;
- an apply is many calls, and any of them may be the last: a call out of
  attempts, throttled, or a crash, leaves deletes done and creates not;
- an answer may be lost after the call was executed; the retry of a delete then
  fails, that of a public create must count as done, that of a private create
  fails;
- the write timeout of 10 s cuts off the answer of a long apply, while its
  handler runs on; the client starts over, perhaps with other changes;
- zone maps are visited in a random order, and zones may be nested;
- `Records`, `AdjustEndpoints` and `ApplyChanges` are three readings of one
  record, and the loop rests only if they agree;
- PrivateDNS refuses to delete the last record of a zone, and to create one twice;
- a listing goes by offsets, which others' inserts and deletes shift between pages;
- an API call may have to wait behind permissions other goroutines have taken;
- the health port answers before the provider port does, or when it never will.

What makes each part correct: the lookup returns the one most specific zone; an
apply removes only what it was asked to, removes before it creates, and a 204
means all was done and nothing else; it fails only for a cause; the whole loop
comes to what the user asked for, leaves other lines and names alone, and then
rests; a listing misses nothing unless something is removed under it; no action is
called more often than the rate allows; a process that is healthy has its credentials
and will serve.

## 2. The modules

    DnsNames                    names, FindZone as a function, sub domains  DnsNames_proofs
      ZoneFinder                the loop of FindZone           ZoneFinder_proofs
      DnsPodData                records, endpoints, matching, Adjust
        ZoneEdit                what ApplyChanges promises
          Editing               one apply, as its poster sees it
          DnsPodApply           ApplyChanges on public zones   DnsPodApply_proofs
            DnsPodEditing       a handler implements Editing   DnsPodEditing_proofs
            DnsPodSync          the loop with ExternalDNS      DnsPodSync_proofs
      PrivateEdit               data and promise for private zones
        PrivateApply            ApplyChanges on private zones  PrivateSync_proofs
          PrivateSync           the loop with ExternalDNS      PrivateSync_proofs
    ExternalDNS                 plan and TXT registry, for the two loops
    Paging                      the four listings, page by page  Paging_proofs
    RateLimit                   the limiters of the API client   Service_proofs
      Service                   a process, from start to calls   Service_proofs

Every module with a specification of its own has an MC module beside it
(`MCDnsPodApply`, `MCDnsPodSync`, `MCPrivateApply`, `MCPrivateSync`, `MCPaging`,
`MCService`, `MCZoneFinder`). `MCDnsPodApply` has the runs of `DnsPodEditing`,
`MCService` those of `RateLimit`.

**Names** are sequences of labels, most specific first, so `HasSuffix(host, "." +
zone)` is the suffix relation on sequences, and the longer of two suffixes has
more labels. `<<>>` is the sub domain `@`. A label is itself a sequence, of the parts
between its hyphens, since ExternalDNS puts a part in front of it (below).

**Values** are `[text, quoted]`: the code puts quotes around TXT values that
start with `heritage=` when it lists them and takes them off when it creates, and
whether that matches decides whether an ownership mark is ever found again. TTL,
MX and, in public zones, remark are copied like weight and status and left out.

**ZoneFinder** is the range loop: `Visit(z)` is one turn, on any key not visited.
`DnsNames!FindZone` is what it should return; the rest of the project uses that.

**DnsPodApply** models every handler that serves `POST /records`. `pc` is where it is:

| `pc` | code |
|---|---|
| `domains` | `getDomainList` |
| `records` | the loop over the domains, `getDomainRecordList`; `unread` are those to come; `snap` is `recordsGroupMap` |
| `apply` | between two calls; `todo` are `deleteEndpoints` and `createEndpoints`, `job` the last call |
| `call` | in the attempt `times` of an API call |
| `ok`, `failed` | 204, 500 (or dead) |

`Plan` computes all calls at once from the snapshot, as the code does. `Ready` is
the order: deletes before creates, one zone after the other in any order, within
a zone by endpoint (and by target on create). A call ends as `Answered`,
`Refused`, `AnswerLost` (executed, answer gone), `NotExecuted` or `Throttled`; the
last three are faults, and `dealWithError` decides between another attempt and
the end. `Crash` ends every handler. `ConsoleAdd`, `ConsoleRemove` and
`ConsoleEdit` are users of the console. `base` and `foreign` are history: the
account when a handler began, and the slots (name and type) anyone but it has
touched since. They let a property speak of the part of the account nobody else
was working on, which is all a handler without locks can promise.

DNSPod is external and modelled as the code counts on it: ids are never used
twice, a delete of an id that is gone is refused, and so is a create of a record
with the zone, name, type, value and line of one that is there
(`DomainRecordExist`). `RecordLineId` goes before `RecordLine`.

**ZoneEdit** says what a set of changes means without ids, snapshots, quoting or
loops: `Outcome(changes, S)` is the content that content S becomes. It is the
meaning the apply is held to.

**Editing** is the abstract specification of an apply amid others: the content of
the account, and one poster who removes entries asked for one by one, turns to
adding when none is left that nobody else touched, adds those asked for one by
one, and may fail anywhere, but succeeds only on `Outcome`. **DnsPodEditing** maps
every handler to such a poster (records to entries, the calls left to `removing`
or `adding`, `base` and `foreign` to `start` and `touched`); steps of anyone else
map to `Meddle`, listings and failed attempts to stutters.

**DnsPodSync** puts ExternalDNS around the handlers: `Observe` (`GET /records`),
`Rest` or `Post` (adjust, compare, post), `Hear` (the answer), `GiveUp` (a timeout),
`Wish` (the user wants something else). `Group`, `EndpointOf` and `Records` are
`groupDomainRecordList` and `dnsRecords`; the order of the zones, on which the
first record of a group and so its metadata depends, is `Orders`.

**ExternalDNS** has of that program what the code is written against: the key name,
type, set identifier; the comparison of targets and provider-specific properties; the
TXT registry, with one mark for each endpoint, and ownership read from the first target
of a TXT endpoint. The mark is named by `MarkName`: the type goes in front of the first
label, so that of an A record `www.com` is `a-www.com`, as the tests have it
(`dnspod_test.go:246`) and as ExternalDNS v0.21.0, which go.mod pins, names it. The mark
of an apex `sub.com` is `a-sub.com`, a name of the outer zone, or, if there is none, of
no zone at all: then its create is left out (`dnspod.go:243`, `privatedns.go:235`).

**PrivateEdit** and **PrivateApply** are the same for private zones. `todo` holds
three kinds of calls: base records for the zones whose listing has none, one
delete for each zone with all its ids, and the creates. PrivateDNS, external,
refuses to empty a zone and to hold a record twice; when only some of the ids of
a delete are there it may delete those or refuse. `NeverLast` is what the
comment in `privatedns.go:176` is about.

The ids of a delete are collected by endpoint and target, and one that two endpoints
match is in `RecordIdSet` twice: `Call` has the records (`DoomedIn`) and those of them
named twice (`DoomedTwiceIn`). What PrivateDNS makes of such a call nothing in the code
says, so it may do either: delete, or refuse.

Of PrivateDNS's console the model assumes the same rules. The base record has no
ownership mark of its own, and the requests of PrivateApply's runs do not ask to remove
it. There is one way ExternalDNS comes to ask: Records counts the base record among the
targets of a TXT endpoint at the apex, and when the user wishes for one, that is the
user's endpoint with a target too many. `private_spurious` shows it; PrivateSync makes
no such assumption.

**PrivateSync** puts the same loop around PrivateApply, `GiveUp` included. AdjustEndpoints
does nothing there, Records has no lines, the base records are among those it lists, and
an error of a create ends the request. Weight is a set in the records, empty for the
`nil` of the code, since a weight of 0 is read back here.

In both loops the goroutines are alike, so a post is taken by the first free one
(`NextHandler`), and `claimed` is history: the places where a mark of this ExternalDNS
lies, lay, or was to lie.

**Paging** is the loop all four listings share. An item is a number that says where it
stands in the order of the service; a page is the items whose ranks follow the offset,
as many as the service likes up to the limit; the offset moves on by what was given,
kept or not. `Insert` and `Remove` are everyone else, between two pages. The kinds
differ in what they drop (`Unwanted`) and in `NoData`, the error by which DNSPod says
that there are no records from this offset on.

The other modules take a listing as one step, at one moment. What this leaves out is
what Paging bounds: a listing of more than a page (3000 items of DNSPod, 100 of
PrivateDNS) may miss a record that was there, if another was removed meanwhile, and may
read one twice, if another was added. A record missed is not deleted; the request
succeeds all the same, and the next turn of ExternalDNS lists again. A record read
twice has two deletes, the second of which DNSPod refuses. `EveryHandlerEdits`,
`SuccessIsOutcome`, `NothingElseChanges`, `FailsOnlyForACause`, `Converges` and, on
private zones, `NeverLast` are checked for accounts whose listings fit a page, or which nobody else changes during the listing.

**RateLimit** is `checkRateLimit` and the library's limiter (external): `Take` sets the
time of the next permission, a period after the last or now, and the goroutine sleeps
till then. Permissions of the future may be out, one for each sleeper. The first call
of an action stores its limiter and takes nothing.

**Service** is `main` step by step (`main` says where it is: `settings`, `provider`,
`health`, `listen`, `serving`, `dead`), the health server on a goroutine of its own,
and, while it serves, the goroutines of RateLimit. A setting's value is the source it
is from; of `--log-level` it counts whether there is such a level. `Die` is every `log.Fatalf`, `Restart` is the kubelet. A dry run keeps its
writes from the API, and so from the limiters. Handlers of different requests are the
`Callers`; which call each makes next is left open.

A definition whose comment begins with "Mutant" is not part of the model: it is a
plausible bug in the definition after it (a guard dropped, an order swapped) that
must make the property named in PROJECT.json fail in the run named there. That
has been checked for each property of each passing run.

## 3. The runs

| run | question | bounds |
|---|---|---|
| `zone_finder` | Does the loop return the one most specific zone, in any order? | all maps of 3 ids to distinct names over 2 labels, up to 2 long; all hosts up to 3 long |
| `apply_faults` | What does one handler do, what does a 204 mean, why may it fail, does it end? | 2 nested zones, 2 starts, 8 requests, 2 in a row, 3 faults, 1 crash |
| `apply_race` | Does each of two handlers implement the abstract edit, why may it fail, and what if the same changes are posted twice? | 1 zone, 4 requests, 2 posted, 2 attempts to a call; 1 fault, or 1 record added, removed or edited in the console |
| `sync_loop` | Does the loop come to what was asked for, leave others alone, and rest? | 2 nested zones, 4 wishes, 1 change of mind, 1 fault, 1 console change |
| `sync_overlap` | The same when ExternalDNS starts over beside a handler still at work | 2 handlers, 1 timeout, 1 crash, 1 change of mind |
| `sync_spurious` | Disagreements with the documentation, below | 3 endpoints wished for |
| `private_faults` | As `apply_faults`, on private zones | 2 nested zones; the inner one empty, without and with its base record, and with other records at its apex, their marks in the outer zone; 10 requests, one of which adds a record twice and one removes one twice, 2 in a row, 3 faults, 1 crash |
| `private_race` | As `apply_race`, on a private zone with or without base record | 2 handlers, 1 fault, 1 console change |
| `private_sync` | As `sync_loop`, on private zones | 2 nested zones, 4 wishes, among them the apex of each zone, 1 change of mind; 1 fault or console change, or 1 timeout, beside which a second handler works |
| `private_spurious` | Disagreements with the documentation, below | 2 endpoints wished for |
| `paging` | What may a listing miss or repeat, and does it end? | up to 5 items at first, in 7 places, pages of up to 2, 2 inserts, 2 removals |
| `service` | Where are the keys from, what is health worth, how many calls in a second, how long may one wait? | 9 ways to start, 1 restart or kill, 2 goroutines, 2 actions, 5 ticks to a second, calls up to tick 7 |

Why these bounds. Three faults are what it takes for an API call to run out of
its three attempts, so `apply_faults` and `private_faults` reach every way a call
can end. Faults, crashes and console changes have a bound each and one together
(`MaxTrouble`), which is 4 where a call may run out of attempts and a crash may follow,
2 in `sync_loop`, `sync_overlap` and `private_race`, 1 where the properties speak of
what one such event does. In `private_sync` a client that gives up does so before the
user changes their mind, over the two smaller wishes, and without a fault: the run's
`ACTION_CONSTRAINT`, `Hasty`, says so. It only bars steps of the client's timer, of the
user, of faults and of the console, on which no fairness is assumed, so it hides no
behaviour in which something that must go on does not. A crash of the webhook is left to
`private_faults` and `sync_overlap`: with no state kept, the loop sees no more of it than
of a fault that ends a handler. `MaxEdits` counts records moved to another line in the
console. Two requests in a row show that nothing of the first is left to the
second. Two handlers suffice for the races between handlers, since the properties
speak of one handler against everyone else. Two zones, one nested in the other,
with a record of the same full name in both, are the case that can confuse the
choice of the zone; two lines with the same name and target are the case that can
confuse the line. The requests are a birth, a move (old and new target), a death,
an update that keeps a target, one that works in both zones with a name of no zone
and a line id, NS records of an apex, one record asked for by two endpoints, and no
changes; on private zones also a record that is there already, one that two endpoints ask
to remove, and the base record itself. For Paging, two removals are what lets two items be missed, and five
items in pages of two are three pages, so a change may come before, between and behind
those read; the theorems are for any number. For Service, the nine ways to start are
each way `main` may end and each source of a key; a second of five ticks at rates 1 and
2 has both a period that divides it and one that does not. `Horizon` ends the calls, not
the time. `CHECK_DEADLOCK FALSE` is
set where the requests are bounded: the system then rightly stops.

The properties (each is stated with its reason where it is defined):

- `DeletesOnlyPlanned`: what a handler removes is, as it stands at that moment,
  asked for: name, type, line, target, and the zone the name belongs to.
- `OldGoneBeforeNew`: nothing is created while a record listed for removal is left.
- `EveryHandlerEdits`: every handler on public zones implements `Editing`, with others at
  work beside it: step by step, and so at every crash and failure, it changes only what it
  was asked to, and a 204 means `Outcome`, on all slots nobody else touched.
- `SuccessIsOutcome`, `NothingElseChanges`: the same of private zones, as two properties.
- `FailsOnlyForACause`: a lost answer on a public create, or another handler at
  work on other names, never fails a request. What does, beside faults and others: on
  public zones, one record that two endpoints ask to remove (they differ in their set
  identifier only), since its id is deleted twice; on private zones, an addition that is
  there already, one that is the base record, one that two endpoints ask for, or one that
  two ask to remove, whose id the delete names twice.
- `RepostConverges`: changes may be posted again while the first post is still at work:
  when all handlers say they are done, the account is what the changes lead to.
- `OneDoneSuffices`: of two posts in one zone it is enough that one says so. In two zones
  it is not: a handler may delete what the other has put back, and then fail before it
  creates it again. Nor when two endpoints ask to remove one record that the changes also
  put back: the second handler lists what the first has created, deletes it, and fails at
  the second delete of the same id.
- `NeverLast`: no batch delete can be refused for emptying its zone.
- `EveryRequestEnds`: through faults, refusals and crashes, every handler comes to an end.
- `NoSpuriousUpdates`: an account that is what was asked for is left in peace.
- `OthersUntouched`: what the loop removes is a mark of its own, or has its mark in its
  place, had it, or was to have it (`InCharge`): by name and type, on public zones also by
  line. All else is left alone, by handlers of turns long given up as well.
- `Converges`: in the end, and for good, the account is what was asked for.
- `MissesAreRemovals`, `RepeatsAreInserts`: a listing misses at most as many of the
  items that were there throughout as were removed meanwhile, and reads at most as many
  twice as were added.
- `ListingEnds`: an offset that moves by what was given and a total of the last answer
  meet, whatever others did meanwhile.
- `RateKept`: no second has more than `rate + 1` calls of an action. The one more is the
  library's, which divides the second into whole nanoseconds; and the first call of all,
  which takes no permission, is not counted. The limit is for each action: "API rate
  limit per second" (configuration.md:18) is not the sum of all calls. What is counted
  is when a call may go; a goroutine that wakes up late sends later than that.
- `SleepIsBounded`: nobody waits for longer than a period for each goroutine there may be.
- `KeysMatch`: if every source gives both halves of a key pair or none, the two in use
  are from one source. (A source that gives one half may be paired with another's.)
- `HealthyIsConfigured`, `HealthySoonServes`: what a 200 of `/healthz` is worth.

`Converges` has exceptions, which the code really has.

- A record is created before its mark, so a create cut short between the two leaves a
  record that ExternalDNS takes for someone else's (`Orphaned`). On public zones that takes
  a fault, a crash or a console change. On private zones two more things cut creates short: a mark
  left over from elsewhere, which is refused, and a second handler. When a client gives up
  on a handler and posts again, the new handler is refused what the old one has made, and
  stops there, before the marks of the records it has made itself (or the other way round).
  So there a client that has given up counts like a fault (`Disturbed`).
- The mark of an apex that lies in no other zone is never created (`OutOfReach`): its
  record, once there, is neither updated nor removed. This needs no fault at all; both
  loops wish for such an endpoint, and for one at the apex of the nested zone, whose mark
  lies in the outer one, there is no exception.
- On public zones, Records shows the weight and status of the first record of an
  endpoint: one added in the console behind it with others is never put right (`Masked`).

A mark whose record is gone is not counted as left over: it resolves to nothing, but it
stays, and on private zones it is what cuts later creates short.

Fairness. `FairSpec` and `FairSyncSpec` assume weak fairness of a handler's steps
and of the controller's, each as one action: a goroutine that can go on does, as
the Go scheduler guarantees and since every SDK call has a timeout, and
ExternalDNS runs its loop at an interval. Nothing is assumed of users, of faults, or
of the console, nor that a particular call succeeds: which of the ways a call ends
is never subject to fairness, only the number of faults is bounded. `FairSyncSpec` of
PrivateSync also assumes strong fairness of `Visit(z)`, a handler's turning to zone z:
Go starts every range over a map at a random place, so two zones do not come in the same
order for ever. Without that the property would fail: a leftover mark
refuses the creates of one zone at every turn, and those of a zone always visited after it
would never be made. Crashes are
followed by a restart, which is the same as an idle handler. `FairSpec` of Paging assumes
that the loop goes on, for the same reason; whether an answer is an error is left open,
and others change only boundedly much, without which no listing need ever end.
`FairServiceSpec` assumes of `main` and of the health goroutine that they are scheduled,
and nothing of the kubelet, of calls or of time.

### Disagreements with the documentation

The first five are counterexamples to `NoSpuriousUpdates`; CHANGELOG.md:17 promises
"AdjustEndpoints normalization aligned with Records() output to prevent spurious
update loops". `sync_spurious` wishes for the first three at once: where it ends, the
account is what was asked for, and the difference has all three endpoints in it.

- An endpoint with `record-line-id` is created on that line, but AdjustEndpoints gives
  it the default line as set identifier and `record-line` (`provider.go:224`). What
  Records answers never equals the wish.
- A weight of 0, which annotations.md:11 allows, is not read back (`dnspod.go:59`), and
  the endpoint differs at every turn.
- Records groups by full name across zones (`dnspod.go:360`), while ApplyChanges edits
  the most specific zone only: a record of the same full name, type and line in the outer
  zone (here one a user adds) is a target that no update removes.
- `private_spurious`: `createPrivateZoneRecord` writes the remark of annotations.md:13, and
  Records does not read it back (`privatedns.go:53`).
- `private_spurious`: a TXT endpoint at the apex of a private zone has the base record among
  the targets that Records answers (`privatedns.go:47`), so it differs from the wish at every
  turn. The update asks to delete the base record with the rest, and the next one makes it
  again (`privatedns.go:178`). The run wishes for both at once.
- configuration.md:27 and :56, and the comments at `main.go:89` and `main.go:114`, say
  that the environment comes before the config file. The file is read first and the
  environment asked only for what is still empty, so the file wins (`SourceOf` is the
  order the code has). No run is needed to see it.

## 4. The proofs

The theorems hold for any zones, account, requests, number of handlers, faults,
crashes and console users. What they assume is named in the modules:

- `ZonesAssumption`, `ValuesAssumption`, `RecordsAssumption`, `RequestsAssumption`:
  distinct zone names; endpoints and records are well formed; in the account an id names
  one record, and on private zones no record is there twice, as PrivateDNS sees to.
- `RetryAssumption`: at least one attempt. `HandlersAssumption`: "others" names no handler.
- `CanonicalAssumption`, `HeldOnceAssumption`, `LinesAssumption`, for `HandlersEdit`,
  `RepostsConverge`, `OneDoneIsEnough` and, the first, the last two theorems about
  PrivateApply: the services
  hold ownership marks without quotes, hold no record twice, and know no line without a
  name. DNSPod refuses an empty line; the code takes the quotes off whatever it creates.
- `AskedOnceAssumption`, for the same three theorems: no changes ask for one
  record with two weights or two statuses. This is a contract of the client; the code does
  not enforce it, and which of the two would be made is then a matter of order.
- `BasesAssumption`, on private zones: no changes ask to remove a base record, which has no
  ownership mark of its own. The theorems about PrivateApply's `Spec` use it; those about the
  loop do not, and with a TXT endpoint at an apex it does not hold there (section 3).
- `FormatAssumption`, `MarkAssumption`, `WishesAssumption`, for the two loops: numbers are
  printed and parsed back; ExternalDNS's mark is one of the texts that start with
  `heritage=`; the wishes are finite sets of well-formed endpoints.
- A few of them say that a string of the code (`"ENABLE"`, `"TXT"`) is a string, which
  TLC knows and the provers do not.

The theorems, and what they rest on:

- `ZoneFinder_proofs`: `FindZoneCorrect` (the loop returns the most specific
  covering zone, none exactly when there is none), on `ZoneIsUnique` (two zones of
  one length that cover a host are one zone) and the loop invariant `IInv` (what is
  kept is the best of those visited).
- `DnsPodApply_proofs`, `TypeCorrect`: `TypeOK` is inductive. It holds the facts the
  others stand on: ids name one record and are below `nextId`, a handler has
  locals only while it works, a call is one of its calls.
- `OldBeforeNew`: `OldGoneBeforeNew` is not inductive: nothing in it says why a
  record is gone when the creates begin. `OInv` adds that every listed record
  asked to be removed is either gone or still has its delete in `todo`. With
  creates only when no delete is left, the property follows. That a record gone stays
  gone is `IdsStayGone`, which needs that ids are not used twice.
- `RemovesOnlyPlanned`: the step that deletes id `r` deletes what the snapshot says
  `r` is. `SnapshotsTrue` says that a listed record still in the account is as it was
  listed, as long as nobody has edited a record in place; `DeletesOnlyPlanned` has the
  same premise. It is needed: the code deletes by id, and a record a user moves to
  another line between the listing and the delete is deleted on its new line. (The
  API has no conditional delete.) `SubDomainJoins` and `MatchIsEntry` bridge from the
  comparison of sub domains in the code to that of full names in the promise.
- `Paging_proofs`: `TypeCorrect`, `MissesAreFew` and `RepeatsAreFew`, for pages, totals
  and changes of any number. Ranks run through the numbers below that of the items
  (`RankOrder`, `RankOnto`), so a page is a run of as many ranks as it has items
  (`PageIsRun`): the offset goes past exactly what was given. `MissInv` counts the items
  passed unread: an answer adds none, an insert moves items away from the front of the
  offset, a removal moves at most one, the one at the offset, past it. `RepeatInv` counts
  those read that are still ahead, plus those repeated: an insert moves at most one to the
  offset, an answer turns what was ahead into repeats.
- `DnsPodApply_proofs`, `FailureHasCause`: a delete is refused when its id is gone, and
  the id does not say who took it. `CauseInv` follows every id from the listing to the
  call: it is listed once (`OnceAt`), to be deleted once if the changes ask for it once
  (`DifferAt`), and still there unless others have been at its slot (`ExplainedAt`).
  `SnapshotsPlace` keeps the slot of a record a user has moved to another line.
- `DnsPodEditing_proofs`, `HandlersEdit`: the refinement, `EveryHandlerEdits`. Editing
  knows neither snapshots nor calls; `EditInv` ties the account to them, in the slots
  nobody else has touched. `AccountCanonical`: two records never look the same, so the
  delete of an id takes one entry out. `CreatesAt`: every create to come is for an entry
  asked for. `ListedAt`: until the handler creates, its snapshot has all of the zones
  read, so what is to be removed is planned. `KeptAt`: what is to stay is there. `FoundAt`:
  what is there was there, or has been asked for. `AddedAt`: what is asked for has its
  create to come, or is there under its key, also when an answer was lost and the retry
  met `DomainRecordExist`. With nothing left to do the last three are `Outcome`. Until a
  record is edited in place, as in the property.
- `RepostsConverge`: `RepostInv` has, beside `EditInv`, that while only these changes are
  at work nothing but their additions is new (`Within`), every handler has listed what is
  stale or it is gone (`SeenAt`, `GoneAt`), and, as long as none has failed, every addition
  is there or claimed by a handler that has still to create it (`Claimed`). The property
  compares with the account at first, so the theorem has one such account.
- `OneDoneIsEnough`: `OneDoneSuffices`. Now the other handler may fail, and what is asked to
  be removed may be among the additions, so the done handler's creates must be safe from
  it. `TwiceInv` says when they are. The first to be through with its removals leaves
  nothing asked to be removed (`SeenAt` for both until then), so what the other had listed
  is gone: it `Misses` all of it, has nothing left that it could take, and the additions
  are `Bound` to be there. Or it had listed nothing asked to be removed: then whatever it
  lists later it `Finds`, since only itself removes by now, so none of its deletes is
  refused and it does not fail. That it never has some of both needs one zone, whose records
  are listed in one answer, and no third handler (`AtMostTwo`); that it finds what it
  has not deleted itself needs each record deleted once (`DeletedOnce`, from `CauseInv`).
- `PrivateSync_proofs`: `TypeCorrect`, `OldBeforeNew` and `RemovesOnlyPlanned` as above,
  without lines and edits in place. `ZonesStayFilled` needs `BInv`: a zone whose base
  record was listed, or for which none is to come, has one, unless others took it.
  `RestIsLeftAlone`: a record that comes or goes is asked for, a base record, or noted in
  `foreign` (`RemovedIsExplained`, `AddedIsExplained`).
- `AnswerIsOutcome`: what a 204 is worth on private zones, `SuccessIsOutcome`. Its
  `EditInv` says of the slots left to the handler where each record is from (`SourceAt`),
  that what is to be removed is in the snapshot once its zone is listed (`FoundAt`), that
  a zone without base record has its call (`BasedAt`), and that what has been created is
  there (`AddedAt`). A lost answer is no exception: the retry of a create is refused, so
  there is no 204, and where that of a delete passes, the records are gone all the same.
- `PrivateFailureHasCause`: `CauseInv` adds that a base record to be made is not there
  (`BarredAt`) and a listed record to be removed is (`GoneAt`), but for faults and others.
  A create is refused only for a record there; where that is from is what `SourceAt` says.
  A delete is refused only for an empty zone, which `NeverLast` rules out, for an id that is
  gone, or for one named twice: `DoomedTwiceMeans` shows that then the changes ask to remove
  one record twice (`RemovedTwice`), which is a cause by itself.
- `DnsPodSync_proofs`, `SyncTypeCorrect` and `OthersAreUntouched`: the loop. The lemmas about
  handlers are about any step that begins to serve any changes (`Move`), so they hold of
  those the loop posts. `OthersUntouched` is not inductive, and its `SyncInv` goes round the
  loop once. `ClaimInv`: marks are only in places claimed, and requests and creates to come
  only ask for what is claimed (`Charged`: an endpoint whose mark's place is claimed, or a
  mark). `SeenInv`: so an endpoint that looks like ExternalDNS's own in an answer of Records
  is in charge, since its mark was there when the answer was given, and claims are never
  given up. `DifferenceType`: what is posted is made of such endpoints, those wished for, and
  their marks. `SnapshotsMatch`: what a handler deletes by id is still what its changes
  named. A handler at work on a turn that was given up is covered by `ClaimInv` like any
  other. `MarkNameType` and `PrefixType` are about the names of marks. That keys are unique
  (`SyncTypeOK`) is that an endpoint's set identifier is the line all records of its group
  are on.
- `PrivateSync_proofs`, `SyncTypeCorrect` and `OthersAreUntouched`: the same without lines,
  and without `BasesAssumption`. A base record is left alone as any record without a mark is;
  one that shares its name with a TXT endpoint wished for or marked is in charge of the loop.
- `Service_proofs`, `LimitKept`: the inductive invariant says that the permissions of an
  action are a period apart or more, and the last of them is the limiter's; so no more
  than `Second \div PerRequest + 1` fall into a second, which is `rate + 1` when the
  period does not round down too far (`rate * rate <= Second`; with nanoseconds, rates up
  to 31622). `SleepBounded`: every permission of the future belongs to a goroutine that
  sleeps for it (`Queued`), they are a period apart, so there are no more than goroutines.
- Every process keeps the limit and the bound on sleep
  (`EveryProcessKeepsLimit`, `EveryProcessSleepsBounded`: steps of the process are steps or
  stutters of RateLimit or begin a new one), its keys match (`PairsStayTogether`), a
  healthy one is configured (`ProbesMeanConfigured`); `ServiceTypeCorrect`.

Only model-checked:

- `NoSpuriousUpdates` of both loops. It says that for an account that is as wished, the
  difference is empty, for every order of the zones. It does not hold for all wishes (see
  the disagreements), so a theorem would be about wishes without those, and its proof is
  about the sequence of targets that `CHOOSE` makes of a group, counted against the one
  wished for. `SyncTypeCorrect` proves the part about keys.
- Liveness (`EveryRequestEnds`, `Converges`, `ListingEnds`, `HealthySoonServes`) is out of
  the prover's reach.

## 5. Not modelled

- Of the HTTP server: the negotiation (`GET /`), content types, and the statuses of
  requests it cannot read. They change nothing.
- Of the API service: `ModifyRecord` and `ModifyPrivateZoneRecord`, which nothing calls;
  logging. Of the credentials: their renewal, which is the SDK's.
- `HasChanges` is the test of the four lists for being empty. The library also takes updates
  that equal, deep down, what they replace for no changes; ExternalDNS posts none.
- Marks of ExternalDNS under a name without the type, as versions before the pinned one wrote.
- TTL and MX of records: copied as weight is. Their absence from `NoSpuriousUpdates` is
  deliberate: a TTL not configured is not compared.
- Paging inside the handlers and loops; see Paging above for what that means.
- The sum of waits of one request against the 10 s of the server: RateLimit bounds each
  wait, DnsPodApply has the client give up at any moment.
- The mock API service (a test double), the setup script, Helm values, e2e tests: not part
  of the running program.

## 6. The plan

1. done: ZoneFinder, DnsPodApply, DnsPodSync, PrivateApply, PrivateSync, Paging, RateLimit,
   Service; the proofs of section 4.
2. What is left: `NoSpuriousUpdates` for the wishes that need no exception.
