----------------------------- MODULE DnsPodSync -----------------------------
(***************************************************************************)
(* The whole loop on public zones: ExternalDNS reads GET /records, has the *)
(* endpoints its user wishes for adjusted by POST /adjustendpoints,        *)
(* compares the two, and posts the difference to POST /records, where a    *)
(* handler of DnsPodApply works on it.  Then it starts over.               *)
(*                                                                         *)
(* Records, AdjustEndpoints and ApplyChanges are three readings of one     *)
(* record, and the loop comes to rest only if they agree.                  *)
(***************************************************************************)
EXTENDS DnsPodApply, SequencesExt

CONSTANTS
  FormatUint,    \* number -> its decimal string
  OurMark,       \* the ownership text of this ExternalDNS, one of Heritage
  Wishes,        \* the sets of endpoints a user may declare
  MaxWishes,     \* bounds: changes of mind,
  MaxGiveUps     \*   requests the client gives up waiting for

\* FormatUint and ParseUint hold the numbers that occur.
ASSUME FormatAssumption ==
  /\ \A n \in DOMAIN FormatUint : FormatUint[n] \in STRING /\ ParseUint[FormatUint[n]] = n
  /\ {0} \cup {ParseUint[s] : s \in DOMAIN ParseUint} \subseteq DOMAIN FormatUint
  /\ \A S \in InitialLive \cup {ConsoleRecords} : \A r \in S : r.weight \in DOMAIN FormatUint
ASSUME MarkAssumption ==
  /\ OurMark \in Heritage \cap STRING
  /\ "TXT" \in STRING    \* true, but not known to the provers
ASSUME WishesAssumption ==
  \A W \in Wishes : IsFiniteSet(W) /\ \A ep \in W : IsEndpoint(ep)

VARIABLES
  wish,      \* the endpoints the user wants
  seen,      \* what GET /records has answered
  loop,      \* where ExternalDNS is: idle, seen or waiting
  serving,   \* the handler it waits for
  claimed,   \* history: the places it has, or has had, its marks at
  changed    \* the part of each bound used up

syncVars == <<wish, seen, loop, serving, claimed, changed>>
allVars == <<vars, syncVars>>
-----------------------------------------------------------------------------
\* Mutant: lines are not told apart.
GroupAcrossLines(r) == <<r.type, DnsDomain(r.sub, Zones[r.zone])>>

\* Mutant: every record is an endpoint of its own.
GroupPerRecord(r) == <<r.type, DnsDomain(r.sub, Zones[r.zone]), LineOf(r), r.value>>

\* groupDomainRecordList: records of one type, full name and line are one
\* endpoint, whatever zone they are in.
Group(r) == <<r.type, DnsDomain(r.sub, Zones[r.zone]), LineOf(r)>>

\* The properties an endpoint has from a record.
PropertiesOf(r) ==
  LET given == {p \in {"record-line", "weight", "status"} :
                  \/ p = "record-line" /\ r.line # ""
                  \/ p = "weight" /\ r.weight > 0
                  \/ p = "status" /\ r.status # ""}
  IN  [p \in given |-> CASE p = "record-line" -> r.line
                         [] p = "weight" -> FormatUint[r.weight]
                         [] p = "status" -> r.status]

\* The endpoint of a group: its properties are those of the record that comes
\* first, in the order the zones are visited in, and within a zone that of ids.
EndpointOf(group, order) ==
  LET earlier(r, s) == order[r.zone] < order[s.zone] \/ (r.zone = s.zone /\ r.id < s.id)
      records == CHOOSE s \in [1..Cardinality(group) -> group] :
                   \A i, j \in DOMAIN s : i < j => earlier(s[i], s[j])
      first   == records[1]
  IN  [name    |-> DnsDomain(first.sub, Zones[first.zone]),
       type    |-> first.type,
       targets |-> [i \in DOMAIN records |-> records[i].value],
       setId   |-> first.line,
       props   |-> PropertiesOf(first)]

\* The orders in which Go may visit the zones.
Orders == {f \in [DomainFilter -> 1..Cardinality(DomainFilter)] : IsInjective(f)}

\* dnsRecords: the answer to GET /records for account S.
Records(S, order) ==
  LET listed == {Listed(r) : r \in {r \in S : r.zone \in DomainFilter /\ ~IsSpecial(r)}}
  IN  {EndpointOf({s \in listed : Group(s) = Group(r)}, order) : r \in listed}
-----------------------------------------------------------------------------
(* ExternalDNS.                                                             *)

INSTANCE ExternalDNS

Wanted == {Adjust(ep) : ep \in wish}
-----------------------------------------------------------------------------
\* The places, a name and a line, where the marks of endpoints come to lie.  (A TXT
\* endpoint may look like a mark itself.)
Claims(eps) ==
  {<<m.name, LineOf([line |-> CreatedLine(m)])>> :
     m \in {MarkFor(ep) : ep \in eps} \cup {ep \in eps : ep.type = "TXT"}}

\* And those where one lies.
IsOurs(e) == e.type = "TXT" /\ e.value.text = OurMark
Marks(S) == {e \in Contents(S) : IsOurs(e)}
Marked(S) == {<<m.name, m.line>> : m \in Marks(S)}

\* Is entry e ExternalDNS's, or has it been: a mark of its own, or one whose mark is,
\* or was, in its place?
InCharge(e) == IsOurs(e) \/ <<MarkName(e.name, e.type), e.line>> \in claimed

\* Goroutines are all alike: any one that is free will do.
NextHandler == CHOOSE h \in Handlers : ~Active(h)

SyncInit ==
  /\ Init
  /\ wish \in Wishes
  /\ seen = {}
  /\ loop = "idle"
  /\ serving \in Handlers /\ serving = NextHandler
  /\ claimed = Claims(Wanted) \cup Marked(live)
  /\ changed = [what \in {"wishes", "giveups"} |-> 0]

\* GET /records.
Observe ==
  /\ loop = "idle"
  /\ loop' = "seen"
  /\ \E order \in Orders : seen' = Records(live, order)
  /\ UNCHANGED <<vars, wish, serving, claimed, changed>>

\* POST /adjustendpoints and the comparison: all is up to date,
Rest ==
  /\ loop = "seen"
  /\ ~HasChanges(Difference(seen, Wanted))
  /\ loop' = "idle" /\ seen' = {}
  /\ UNCHANGED <<vars, wish, serving, claimed, changed>>

\* or the difference is posted.
Post ==
  /\ loop = "seen"
  /\ HasChanges(Difference(seen, Wanted))
  /\ \E h \in Handlers : ~Active(h)
  /\ Take(NextHandler, Difference(seen, Wanted))
  /\ serving' = NextHandler
  /\ loop' = "waiting" /\ seen' = {}
  /\ UNCHANGED <<base, foreign, spent, wish, claimed, changed>>

\* The answer, a 204 or a 500: either way ExternalDNS starts over.
Hear ==
  /\ loop = "waiting" /\ ~Active(serving)
  /\ loop' = "idle"
  /\ UNCHANGED <<vars, wish, seen, serving, claimed, changed>>

\* The client's timeout, or the server's write timeout: no answer, while the
\* handler goes on.
GiveUp ==
  /\ loop = "waiting" /\ Active(serving)
  /\ changed["giveups"] < MaxGiveUps
  /\ changed' = [changed EXCEPT !["giveups"] = @ + 1]
  /\ loop' = "idle"
  /\ UNCHANGED <<vars, wish, seen, serving, claimed>>

\* The user wants something else.
Wish ==
  /\ changed["wishes"] < MaxWishes
  /\ changed' = [changed EXCEPT !["wishes"] = @ + 1]
  /\ wish' \in Wishes
  /\ claimed' = claimed \cup Claims(Wanted')
  /\ UNCHANGED <<vars, seen, loop, serving>>

\* A step of a handler or of others, which change the account and nothing here;
\* but whoever puts the mark somewhere by hand gives away what it marks.  The history
\* of DnsPodApply is not kept.
Work(h) == HandlerStep(h) /\ UNCHANGED <<base, foreign, syncVars>>
Others ==
  /\ Crash \/ ConsoleAdd \/ ConsoleRemove
  /\ claimed' = claimed \cup Marked(live' \ live)
  /\ UNCHANGED <<base, foreign, wish, seen, loop, serving, changed>>

Controller == Observe \/ Rest \/ Post \/ Hear

SyncNext ==
  \/ Controller \/ GiveUp \/ Wish
  \/ \E h \in Handlers : Work(h)
  \/ Others

SyncSpec == SyncInit /\ [][SyncNext]_allVars
FairSyncSpec ==
  /\ SyncSpec
  /\ WF_allVars(Controller)
  /\ \A h \in Handlers : WF_allVars(Work(h))
-----------------------------------------------------------------------------
\* What resolvers see: a record of a name that belongs to another zone is dead.
Served(S) == {e \in Contents(S) : e.zone \in FindZone(Managed, e.name)}

\* The entries endpoint d and its mark ask for, and those that are in their place.
Asked(d) ==
  Additions([create |-> <<d, MarkFor(d)>>, updateOld |-> <<>>, updateNew |-> <<>>,
             delete |-> <<>>])
Place(e) == <<e.name, e.type, e.line>>
Found(d) == {e \in Served(live) : \E a \in Asked(d) : Place(e) = Place(a)}

\* All that counts of a mark is that it is there: the create of one that is left
\* from earlier counts as done (DomainRecordExist), whatever weight or status it has.
Bared(S) ==
  {IF IsOurs(e) THEN [e EXCEPT !.weight = 0, !.status = ""] ELSE e : e \in S}
InPlace(d) == Bared(Found(d)) = Bared(Asked(d))

\* Entries of ExternalDNS that nobody wishes for any more.  (A mark alone, whose
\* record went first, is not counted: it stays, and resolves to nothing.)
LeftOver ==
  {e \in Served(live) :
     /\ ~(e.type = "TXT" /\ e.value.text \in Heritage)
     /\ InCharge(e)
     /\ \A d \in Wanted : \A a \in Asked(d) : Place(a) # Place(e)}

\* What is there without its mark ExternalDNS does not touch.
HasMark(e) == <<MarkName(e.name, e.type), e.line>> \in Marked(live)
Orphaned(d) == \E e \in Found(d) : e.type = d.type /\ ~HasMark(e)

\* Nor has it a mark at the apex of a zone that lies in no other: the create of the
\* mark is left out (dnspod.go:224).
OutOfReach(e) == FindZone(Managed, MarkName(e.name, e.type)) = {}

\* Records reads the properties of an endpoint from its first record, so a target
\* that is there with others looks right once the first one is.
Masked(d) ==
  LET own == {r \in live : r.type = d.type /\ Entry(r) \in Found(d)} IN
  /\ {Key(e) : e \in Found(d)} = {Key(a) : a \in Asked(d)}
  /\ \E r \in own : Entry(r) \in Asked(d) /\ \A s \in own : r.id <= s.id

Settled == (\A e \in LeftOver : ~HasMark(e)) /\ \A d \in Wanted : InPlace(d)

\* Two endpoints of one answer never share name, type and set identifier, the key
\* under which ExternalDNS holds them (one would hide the other).
SyncTypeOK ==
  /\ wish \in Wishes
  /\ loop \in {"idle", "seen", "waiting"}
  /\ serving \in Handlers
  /\ loop # "seen" => seen = {}
  /\ \A c, d \in seen : Same(c, d) => c = d

\* AdjustEndpoints normalises what is wished for so that it compares with what
\* Records answers (pkg/provider/provider.go:207, CHANGELOG.md:17): once the
\* account is what the user asked for, nothing is posted.  Anything else deletes
\* and creates the same records at every turn, since an update is both.
NoSpuriousUpdates ==
  (\A h \in Handlers : ~Active(h)) /\ Settled =>
    \A order \in Orders : ~HasChanges(Difference(Records(live, order), Wanted))

\* Names and lines that were never wished for, nor marked as its own, belong to
\* others: whatever the loop posts, however late its handlers work on it, none of
\* their records is removed (docs/reference/annotations.md:22 and 81).
OthersUntouched ==
  [][spent'["console"] = spent["console"] =>
       \A r \in live \ live' : InCharge(Entry(r))]_allVars

\* When the user has made up their mind and the faults are over, the account
\* becomes what was asked for and stays so, after any updates cut short half
\* way.  But for a record without a mark, which is then taken for someone else's:
\* one whose create was cut short before the mark, or an apex out of reach.  And but
\* for a target that someone put there by hand with another weight or status behind
\* the first.
Converges ==
  <>[](/\ \A e \in LeftOver : ~HasMark(e) /\ (Trouble > 0 \/ OutOfReach(e))
       /\ \A d \in Wanted :
            \/ InPlace(d)
            \/ Orphaned(d) /\ (Trouble > 0 \/ OutOfReach(d))
            \/ Masked(d) /\ spent["console"] > 0)
=============================================================================
