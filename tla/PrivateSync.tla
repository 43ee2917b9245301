----------------------------- MODULE PrivateSync -----------------------------
(***************************************************************************)
(* The whole loop on private zones, as DnsPodSync is on public ones, with  *)
(* ExternalDNS around PrivateApply.  AdjustEndpoints leaves endpoints      *)
(* alone here, Records knows no lines, a create of what is there already   *)
(* is an error, and the base records lie among the records it lists.       *)
(***************************************************************************)
EXTENDS PrivateApply, SequencesExt

CONSTANTS
  FormatInt,     \* number -> its decimal string
  OurMark,       \* the ownership text of this ExternalDNS, one of Heritage
  Wishes,        \* the sets of endpoints a user may declare
  MaxWishes,     \* bounds: changes of mind,
  MaxGiveUps     \*   requests the client gives up waiting for

\* FormatInt and ParseInt hold the numbers that occur.
ASSUME FormatAssumption ==
  /\ \A n \in DOMAIN FormatInt : FormatInt[n] \in STRING /\ ParseInt[FormatInt[n]] = n
  /\ \A s \in DOMAIN ParseInt : ParseInt[s] \in DOMAIN FormatInt
  /\ \A S \in InitialLive \cup {ConsoleRecords} : \A r \in S : r.weight \subseteq DOMAIN FormatInt
ASSUME MarkAssumption == OurMark \in Heritage \cap STRING
ASSUME WishesAssumption ==
  \A W \in Wishes : IsFiniteSet(W) /\ \A ep \in W : IsEndpoint(ep)

VARIABLES
  wish,      \* the endpoints the user wants
  seen,      \* what GET /records has answered
  loop,      \* where ExternalDNS is: idle, seen or waiting
  serving,   \* the handler it waits for
  claimed,   \* history: the names it has, or has had, its marks at
  changed    \* the part of each bound used up

syncVars == <<wish, seen, loop, serving, claimed, changed>>
allVars == <<vars, syncVars>>
-----------------------------------------------------------------------------
\* Mutant: every record is an endpoint of its own.
GroupPerRecord(r) == <<r.type, DnsDomain(r.sub, Zones[r.zone]), r.value>>

\* groupPrivateZoneRecords: records of one type and full name are one endpoint,
\* whatever zone they are in.
Group(r) == <<r.type, DnsDomain(r.sub, Zones[r.zone])>>

\* Mutant: the weight is not read back.
PropertiesLost(r) == <<>>

\* The properties an endpoint has from a record: its weight if it has one.  The
\* remark is not read.
PropertiesOf(r) ==
  [p \in {p \in {"weight"} : r.weight # {}} |-> FormatInt[CHOOSE n \in r.weight : TRUE]]

\* The endpoint of a group: its properties are those of the record that comes
\* first, in the order the zones are visited in, and within a zone that of ids.
EndpointOf(group, order) ==
  LET earlier(r, s) == order[r.zone] < order[s.zone] \/ (r.zone = s.zone /\ r.id < s.id)
      records == CHOOSE s \in [1..Cardinality(group) -> group] :
                   \A i, j \in DOMAIN s : i < j => earlier(s[i], s[j])
      first   == records[1]
  IN  [name    |-> DnsDomain(first.sub, Zones[first.zone]),
       type    |-> first.type,
       targets |-> [i \in DOMAIN records |-> records[i].value],
       setId   |-> "",
       props   |-> PropertiesOf(first)]

\* The orders in which Go may visit the zones.
Orders == {f \in [ZoneFilter -> 1..Cardinality(ZoneFilter)] : IsInjective(f)}

\* privateZoneRecords: the answer to GET /records for account S.
Records(S, order) ==
  LET listed == {Listed(r) : r \in {r \in S : r.zone \in ZoneFilter}}
  IN  {EndpointOf({s \in listed : Group(s) = Group(r)}, order) : r \in listed}
-----------------------------------------------------------------------------
INSTANCE ExternalDNS

\* The names where the marks of endpoints come to lie.  (A TXT endpoint may look like
\* a mark itself.)
Claims(eps) ==
  {m.name : m \in {MarkFor(ep) : ep \in eps} \cup {ep \in eps : ep.type = "TXT"}}

\* And those where one lies.
IsOurs(e) == e.type = "TXT" /\ e.value.text = OurMark
Marks(S) == {e \in Contents(S) : IsOurs(e)}
Marked(S) == {m.name : m \in Marks(S)}

\* Is entry e ExternalDNS's, or has it been: a mark of its own, or one whose mark is,
\* or was, in its place?
InCharge(e) == IsOurs(e) \/ MarkName(e.name, e.type) \in claimed

\* Goroutines are all alike: any one that is free will do.
NextHandler == CHOOSE h \in Handlers : ~Active(h)

SyncInit ==
  /\ Init
  /\ wish \in Wishes
  /\ seen = {}
  /\ loop = "idle"
  /\ serving \in Handlers /\ serving = NextHandler
  /\ claimed = Claims(wish) \cup Marked(live)
  /\ changed = [what \in {"wishes", "giveups"} |-> 0]

\* GET /records.
Observe ==
  /\ loop = "idle"
  /\ loop' = "seen"
  /\ \E order \in Orders : seen' = Records(live, order)
  /\ UNCHANGED <<vars, wish, serving, claimed, changed>>

\* POST /adjustendpoints, which changes nothing, and the comparison: all is up
\* to date,
Rest ==
  /\ loop = "seen"
  /\ ~HasChanges(Difference(seen, wish))
  /\ loop' = "idle" /\ seen' = {}
  /\ UNCHANGED <<vars, wish, serving, claimed, changed>>

\* or the difference is posted.
Post ==
  /\ loop = "seen"
  /\ HasChanges(Difference(seen, wish))
  /\ \E h \in Handlers : ~Active(h)
  /\ Take(NextHandler, Difference(seen, wish))
  /\ serving' = NextHandler
  /\ loop' = "waiting" /\ seen' = {}
  /\ UNCHANGED <<base, foreign, spent, wish, claimed, changed>>

\* The answer, a 204 or a 500: either way ExternalDNS starts over.
Hear ==
  /\ loop = "waiting" /\ ~Active(serving)
  /\ loop' = "idle"
  /\ UNCHANGED <<vars, wish, seen, serving, claimed, changed>>

\* The client's timeout, or the server's write timeout: no answer, while the
\* handler goes on.
GiveUp ==
  /\ loop = "waiting" /\ Active(serving)
  /\ changed["giveups"] < MaxGiveUps
  /\ changed' = [changed EXCEPT !["giveups"] = @ + 1]
  /\ loop' = "idle"
  /\ UNCHANGED <<vars, wish, seen, serving, claimed>>

\* The user wants something else.
Wish ==
  /\ changed["wishes"] < MaxWishes
  /\ changed' = [changed EXCEPT !["wishes"] = @ + 1]
  /\ wish' \in Wishes
  /\ claimed' = claimed \cup Claims(wish')
  /\ UNCHANGED <<vars, seen, loop, serving>>

\* A step of a handler or of others; whoever puts the mark somewhere by hand gives
\* away what it marks.  The history of PrivateApply is not kept.
Work(h) == HandlerStep(h) /\ UNCHANGED <<base, foreign, syncVars>>
Others ==
  /\ Crash \/ ConsoleAdd \/ ConsoleRemove
  /\ claimed' = claimed \cup Marked(live' \ live)
  /\ UNCHANGED <<base, foreign, wish, seen, loop, serving, changed>>

Controller == Observe \/ Rest \/ Post \/ Hear

SyncNext ==
  \/ Controller \/ GiveUp \/ Wish
  \/ \E h \in Handlers : Work(h)
  \/ Others

SyncSpec == SyncInit /\ [][SyncNext]_allVars
\* Go starts every range over a map at a place of its own choice, so no zone is put
\* off for ever.
Visit(z) ==
  \E h \in Handlers : StartCall(h) /\ job'[h].zone = z /\ UNCHANGED <<base, foreign, syncVars>>
FairSyncSpec ==
  /\ SyncSpec
  /\ WF_allVars(Controller)
  /\ \A h \in Handlers : WF_allVars(Work(h))
  /\ \A z \in ZoneFilter : SF_allVars(Visit(z))
-----------------------------------------------------------------------------
\* What resolvers see: a record of a name that belongs to another zone is dead.
Served(S) == {e \in Contents(S) : e.zone \in FindZone(Managed, e.name)}

\* The entries endpoint d and its mark ask for, and those that are in their place,
\* the webhook's own base records apart.
Asked(d) ==
  Additions([create |-> <<d, MarkFor(d)>>, updateOld |-> <<>>, updateNew |-> <<>>,
             delete |-> <<>>])
Found(d) ==
  {e \in Served(live) \ Bases : \E a \in Asked(d) : Slot(e) = Slot(a)}

\* Of a mark it counts only that it is there.
Bared(S) ==
  {IF IsOurs(e) THEN [e EXCEPT !.weight = {}, !.remark = ""] ELSE e : e \in S}
InPlace(d) == Bared(Found(d)) = Bared(Asked(d))

\* Entries of ExternalDNS that nobody wishes for any more.  (A mark alone is not
\* counted, as in DnsPodSync.)
LeftOver ==
  {e \in Served(live) :
     /\ ~(e.type = "TXT" /\ e.value.text \in Heritage)
     /\ InCharge(e)
     /\ \A d \in wish : Slot(e) # Slot(d)}

\* What is there without its mark ExternalDNS does not touch.
HasMark(e) == MarkName(e.name, e.type) \in Marked(live)
Orphaned(d) == \E e \in Found(d) : e.type = d.type /\ ~HasMark(e)

\* Nor has it a mark at the apex of a zone that lies in no other: the create of the
\* mark is left out (privatedns.go:235).
OutOfReach(e) == FindZone(Managed, MarkName(e.name, e.type)) = {}

Settled == (\A e \in LeftOver : ~HasMark(e)) /\ \A d \in wish : InPlace(d)

\* Two endpoints of one answer never share name, type and set identifier.
SyncTypeOK ==
  /\ wish \in Wishes
  /\ loop \in {"idle", "seen", "waiting"}
  /\ serving \in Handlers
  /\ loop # "seen" => seen = {}
  /\ \A c, d \in seen : Same(c, d) => c = d

\* "AdjustEndpoints normalization aligned with Records() output to prevent spurious
\* update loops" (CHANGELOG.md:17): once the account is what the user asked for,
\* nothing is posted.  Records must then answer just what the wish says, marks and
\* weights included, whatever base records lie beside it (privatedns.go:53).
NoSpuriousUpdates ==
  (\A h \in Handlers : ~Active(h)) /\ Settled =>
    \A order \in Orders : ~HasChanges(Difference(Records(live, order), wish))

\* Names that were never wished for, nor marked as its own, belong to others: whatever
\* the loop posts, however late its handlers work on it, none of their records is
\* removed; nor is a base record, unless a TXT endpoint of its name is marked.
OthersUntouched ==
  [][spent'["console"] = spent["console"] =>
       \A r \in live \ live' : InCharge(Entry(r))]_allVars

\* When the user has made up their mind and the faults are over, the account
\* becomes what was asked for and stays so.  But for a record without a mark: one
\* whose create was cut short before the mark, by a fault or since another handler,
\* not waited for, had made a record of the same request first; or an apex out of
\* reach.
Disturbed == Trouble > 0 \/ changed["giveups"] > 0
Converges ==
  <>[](/\ \A e \in LeftOver : ~HasMark(e) /\ (Disturbed \/ OutOfReach(e))
       /\ \A d \in wish :
            InPlace(d) \/ (Orphaned(d) /\ (Disturbed \/ OutOfReach(d))))
=============================================================================
