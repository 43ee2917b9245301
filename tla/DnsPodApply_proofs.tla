------------------------- MODULE DnsPodApply_proofs -------------------------
(***************************************************************************)
(* Type correctness of ApplyChanges on public zones, and its two promises  *)
(* about what it removes: for any account, any zones, any requests and any *)
(* number of handlers, faults, crashes and console users.                  *)
(***************************************************************************)
EXTENDS DnsPodApply, DnsNames_proofs, FiniteSetTheorems

-----------------------------------------------------------------------------
(* Endpoints and changes as sets.                                            *)

Endpoint ==
  {ep \in [name : Name, type : STRING, targets : Seq(Value), setId : STRING,
           props : UNION {[P -> STRING] : P \in SUBSET Property}] : IsEndpoint(ep)}
Change == [create : Seq(Endpoint), updateOld : Seq(Endpoint), updateNew : Seq(Endpoint),
           delete : Seq(Endpoint)]

\* An endpoint is an element of the one,
LEMMA EndpointType ==
  ASSUME NEW ep
  PROVE  ep \in Endpoint <=> IsEndpoint(ep)
<1>1. ASSUME IsEndpoint(ep) PROVE ep \in Endpoint
  <2>1. PICK P \in SUBSET Property : ep.props \in [P -> STRING]
    BY <1>1 DEF IsEndpoint
  <2>2. ep.props \in UNION {[Q -> STRING] : Q \in SUBSET Property}
    BY <2>1
  <2>3. ep \in [name : Name, type : STRING, targets : Seq(Value), setId : STRING,
                props : UNION {[Q -> STRING] : Q \in SUBSET Property}]
    BY <1>1, <2>2 DEF IsEndpoint
  <2> QED BY <1>1, <2>3 DEF Endpoint
<1> QED BY <1>1 DEF Endpoint

\* and a request is one of the other.
LEMMA RequestsType == Requests \subseteq Change
<1> SUFFICES ASSUME NEW changes \in Requests PROVE changes \in Change
  OBVIOUS
<1> DEFINE eps == ToRemove(changes) \cup ToAdd(changes)
<1>1. /\ changes \in [create : Seq(eps), updateOld : Seq(eps), updateNew : Seq(eps), delete : Seq(eps)]
      /\ eps \subseteq Endpoint
  BY RequestsAssumption, EndpointType DEF IsChange
<1>2. ASSUME NEW s \in Seq(eps) PROVE s \in Seq(Endpoint)
  BY <1>1, SeqDef
<1> HIDE DEF eps
<1> QED BY <1>1, <1>2 DEF Change
-----------------------------------------------------------------------------
(* Records and the calls computed from them.                                 *)

\* Listing a record changes how its value is written and nothing else; a user
\* sees the same entry either way.
LEMMA ListedProperties ==
  ASSUME NEW r \in Record
  PROVE  /\ Listed(r) \in Record
         /\ Listed(r).id = r.id
         /\ Listed(r).zone = r.zone
         /\ Listed(Listed(r)) = Listed(r)
         /\ IsSpecial(Listed(r)) = IsSpecial(r)
         /\ Entry(Listed(r)) = Entry(r)
  BY DEF Listed, Record, Value, IsSpecial, Entry, LineOf

\* A record made for a target of an endpoint is a record.
LEMMA NewRecordType ==
  ASSUME NEW ep \in Endpoint, NEW z \in DomainFilter, NEW k \in DOMAIN ep.targets
  PROVE  NewRecord(ep, z, k) \in Record /\ NewRecord(ep, z, k).zone = z
<1>1. IsEndpoint(ep)
  BY EndpointType
<1>2. z \in DOMAIN Zones /\ SubDomain(Zones[z], ep.name) \in Name
  BY <1>1, ZonesAssumption, SubDomainType DEF IsEndpoint
<1>3. ep.targets[k] \in Value
  BY <1>1, LenProperties, ElementOfSeq DEF IsEndpoint
<1>4. Stripped(ep.type, ep.targets[k]) \in Value
  BY <1>3 DEF Stripped, Value
<1>5. ASSUME NEW p \in DOMAIN ep.props PROVE ep.props[p] \in STRING
  BY <1>1 DEF IsEndpoint
<1>6. EndpointLine(ep) \in STRING
  BY <1>5, ValuesAssumption DEF EndpointLine, HasProp
<1>7. HasProp(ep, "record-line-id") => Line[ep.props["record-line-id"]] \in STRING
  BY <1>1, ValuesAssumption DEF IsEndpoint, HasProp
<1>8. (IF HasProp(ep, "weight") /\ ep.props["weight"] \in DOMAIN ParseUint
       THEN ParseUint[ep.props["weight"]] ELSE 0) \in Nat
  BY ValuesAssumption
<1>9. (IF HasProp(ep, "status") THEN ep.props["status"] ELSE "ENABLE") \in STRING
  <2>1. HasProp(ep, "status") => ep.props["status"] \in STRING
    BY <1>5 DEF HasProp
  <2>2. "ENABLE" \in STRING
    BY ValuesAssumption
  <2> QED BY <2>1, <2>2
<1>10. ep.type \in STRING
  BY <1>1 DEF IsEndpoint
<1> QED
  BY <1>2, <1>4, <1>6, <1>7, <1>8, <1>9, <1>10 DEF NewRecord, CreatedLine, Record

\* The loops of ApplyChanges visit the endpoints asked for, and all of them.
LEMMA RequestProperties ==
  ASSUME NEW changes \in Change
  PROVE  /\ \A i \in DOMAIN Removals(changes) :
              /\ i \in Nat
              /\ Removals(changes)[i] \in Endpoint
              /\ Removals(changes)[i] \in ToRemove(changes)
         /\ \A ep \in ToRemove(changes) :
              \E i \in DOMAIN Removals(changes) : Removals(changes)[i] = ep
         /\ \A i \in DOMAIN Creations(changes) :
              /\ i \in Nat
              /\ Creations(changes)[i] \in Endpoint
              /\ Creations(changes)[i] \in ToAdd(changes)
         /\ \A ep \in ToAdd(changes) :
              \E i \in DOMAIN Creations(changes) : Creations(changes)[i] = ep
<1>1. /\ changes.create \in Seq(Endpoint) /\ changes.updateOld \in Seq(Endpoint)
      /\ changes.updateNew \in Seq(Endpoint) /\ changes.delete \in Seq(Endpoint)
  BY DEF Change
<1>2. /\ Removals(changes) = changes.delete \o changes.updateOld
      /\ Creations(changes) = changes.create \o changes.updateNew
  BY DEF Removals, Creations
<1>3. Removals(changes) \in Seq(Endpoint) /\ Creations(changes) \in Seq(Endpoint)
  BY <1>1, <1>2, ElementsOfConcat
<1>4. ASSUME NEW seq PROVE Elements(seq) = Endpoints(seq)
  BY DEF Elements, Endpoints
<1>5. Elements(Removals(changes)) = Elements(changes.delete) \cup Elements(changes.updateOld)
  BY <1>1, <1>2, ElementsOfConcat
<1>6. Elements(Creations(changes)) = Elements(changes.create) \cup Elements(changes.updateNew)
  BY <1>1, <1>2, ElementsOfConcat
<1>7. /\ Endpoints(Removals(changes)) = ToRemove(changes)
      /\ Endpoints(Creations(changes)) = ToAdd(changes)
  BY <1>4, <1>5, <1>6 DEF ToRemove, ToAdd
<1> QED
  BY <1>3, <1>7, PlacesOfSeq DEF Endpoints

\* FindZone on the managed zones answers with a managed zone that covers the name.
LEMMA ZoneFound ==
  ASSUME NEW name, NEW z \in FindZone(Managed, name)
  PROVE  z \in DomainFilter /\ Covers(Zones[z], name) /\ Zones[z] \in Name
  BY ZonesAssumption DEF FindZone, Managed

\* A record that matches an endpoint in the zone of its name is one a user would
\* say the endpoint asks to remove, and the other way round.
LEMMA MatchIsEntry ==
  ASSUME NEW ep \in Endpoint, NEW r \in Record, r.zone \in FindZone(Managed, ep.name),
         Listed(r) = r, ~IsSpecial(r)
  PROVE  Matches(ep, r) # {} <=>
           /\ Entry(r).name = ep.name /\ Entry(r).type = ep.type
           /\ Entry(r).line = EndpointLine(ep)
           /\ \E k \in DOMAIN ep.targets : Entry(r).value = ep.targets[k]
           /\ ~(Entry(r).type = "NS" /\ Entry(r).name = Zones[Entry(r).zone])
<1>1. /\ Entry(r).name = DnsDomain(r.sub, Zones[r.zone]) /\ Entry(r).type = r.type
      /\ Entry(r).line = LineOf(r) /\ Entry(r).value = r.value /\ Entry(r).zone = r.zone
  BY DEF Entry
<1>2. /\ ep.name \in Name /\ r.sub \in Name /\ Zones[r.zone] \in Name
      /\ Covers(Zones[r.zone], ep.name)
  BY EndpointType, ZoneFound DEF IsEndpoint, Record
<1>3. r.sub = SubDomain(Zones[r.zone], ep.name) <=> Entry(r).name = ep.name
  BY <1>1, <1>2, SubDomainJoins, SubDomainOfJoin
<1>4. ~(Entry(r).type = "NS" /\ Entry(r).name = Zones[Entry(r).zone])
  BY <1>1, <1>2, ApexHasNoSubDomain DEF IsSpecial
<1> QED
  BY <1>1, <1>3, <1>4 DEF Matches

\* A delete call: where it comes from.
LEMMA DeletesType ==
  ASSUME NEW changes \in Change, NEW S \in SUBSET Record,
         NEW j \in DeletesIn(changes, S)
  PROVE  /\ j \in Job /\ j.op = "delete" /\ j.rec \in S
         /\ \E ep \in ToRemove(changes) :
              /\ ep \in Endpoint
              /\ j.rec.zone \in FindZone(Managed, ep.name)
              /\ Matches(ep, j.rec) # {}
<1> DEFINE eps == Removals(changes)
<1>1. \E i \in DOMAIN eps, r \in S :
        /\ r.zone \in FindZone(Managed, eps[i].name)
        /\ \E k \in Matches(eps[i], r) : j = Call("delete", i, k, r)
  BY DEF DeletesIn
<1>2. PICK i \in DOMAIN eps, r \in S :
        /\ r.zone \in FindZone(Managed, eps[i].name)
        /\ \E k \in Matches(eps[i], r) : j = Call("delete", i, k, r)
  BY <1>1
<1>3. PICK k \in Matches(eps[i], r) : j = Call("delete", i, k, r)
  BY <1>2
<1>4. eps[i] \in Endpoint /\ i \in Nat /\ eps[i] \in ToRemove(changes)
  BY RequestProperties
<1>5. k \in Nat
  <2>1. k \in DOMAIN eps[i].targets
    BY DEF Matches
  <2>2. DOMAIN eps[i].targets = 1..Len(eps[i].targets)
    BY <1>4, EndpointType, LenProperties DEF IsEndpoint
  <2> QED BY <2>1, <2>2
<1> QED
  BY <1>2, <1>3, <1>4, <1>5, ZoneFound DEF Job, Call

\* Every delete call is for a record of the snapshot that is asked to be removed,
LEMMA DeletesAreAsked ==
  ASSUME NEW changes \in Change, NEW S \in SUBSET Record,
         \A r \in S : Listed(r) = r /\ ~IsSpecial(r),
         NEW j \in DeletesIn(changes, S)
  PROVE  AskedToRemove(changes, Entry(j.rec))
<1>1. PICK ep \in ToRemove(changes) :
        /\ ep \in Endpoint
        /\ j.rec.zone \in FindZone(Managed, ep.name)
        /\ Matches(ep, j.rec) # {}
  BY DeletesType
<1>2. j.rec \in Record /\ Listed(j.rec) = j.rec /\ ~IsSpecial(j.rec)
  BY DeletesType
<1>3. Entry(j.rec).zone = j.rec.zone
  BY DEF Entry
<1> QED
  BY <1>1, <1>2, <1>3, MatchIsEntry DEF AskedToRemove

\* and every record of the snapshot that is asked to be removed has a delete call.
LEMMA AskedAreDeleted ==
  ASSUME NEW changes \in Change, NEW S \in SUBSET Record,
         \A r \in S : Listed(r) = r /\ ~IsSpecial(r),
         NEW r \in S, AskedToRemove(changes, Entry(r))
  PROVE  \E j \in DeletesIn(changes, S) : j.op = "delete" /\ j.rec = r
<1> DEFINE eps == Removals(changes)
<1>1. PICK ep \in ToRemove(changes) :
        /\ Entry(r).name = ep.name /\ Entry(r).type = ep.type
        /\ Entry(r).line = EndpointLine(ep)
        /\ \E k \in DOMAIN ep.targets : Entry(r).value = ep.targets[k]
        /\ Entry(r).zone \in FindZone(Managed, ep.name)
        /\ ~(Entry(r).type = "NS" /\ Entry(r).name = Zones[Entry(r).zone])
  BY DEF AskedToRemove
<1>2. \E i \in DOMAIN eps : eps[i] = ep
  BY RequestProperties
<1>3. PICK i \in DOMAIN eps : eps[i] = ep
  BY <1>2
<1>4. ep \in Endpoint
  BY <1>3, RequestProperties
<1>5. r.zone \in FindZone(Managed, ep.name)
  BY <1>1 DEF Entry
<1>6. Matches(ep, r) # {}
  BY <1>1, <1>4, <1>5, MatchIsEntry
<1>7. PICK k \in Matches(ep, r) : TRUE
  BY <1>6
<1>8. Call("delete", i, k, r) \in DeletesIn(changes, S)
  BY <1>3, <1>5, <1>7 DEF DeletesIn
<1> QED BY <1>8 DEF Call

\* The creates of a request are calls.
LEMMA CreatesType ==
  ASSUME NEW changes \in Change, NEW j \in CreatesIn(changes)
  PROVE  j \in Job /\ j.op = "create"
<1> DEFINE eps == Creations(changes)
<1>1. \E i \in DOMAIN eps : \E z \in FindZone(Managed, eps[i].name) :
        \E k \in DOMAIN eps[i].targets : j = Call("create", i, k, NewRecord(eps[i], z, k))
  BY DEF CreatesIn
<1>2. PICK i \in DOMAIN eps : \E z \in FindZone(Managed, eps[i].name) :
        \E k \in DOMAIN eps[i].targets : j = Call("create", i, k, NewRecord(eps[i], z, k))
  BY <1>1
<1>3. PICK z \in FindZone(Managed, eps[i].name) :
        \E k \in DOMAIN eps[i].targets : j = Call("create", i, k, NewRecord(eps[i], z, k))
  BY <1>2
<1>4. PICK k \in DOMAIN eps[i].targets : j = Call("create", i, k, NewRecord(eps[i], z, k))
  BY <1>3
<1>5. eps[i] \in Endpoint /\ i \in Nat
  BY RequestProperties
<1>6. k \in Nat
  <2>1. DOMAIN eps[i].targets = 1..Len(eps[i].targets)
    BY <1>5, EndpointType, LenProperties DEF IsEndpoint
  <2> QED BY <2>1
<1>7. z \in DomainFilter
  BY ZoneFound
<1>8. NewRecord(eps[i], z, k) \in Record /\ NewRecord(eps[i], z, k).zone = z
  BY <1>5, <1>7, NewRecordType
<1> QED
  BY <1>4, <1>5, <1>6, <1>7, <1>8 DEF Job, Call
-----------------------------------------------------------------------------
(* Type correctness.  What is said of handlers and account is proved for     *)
(* more than Spec, which posts Requests only: for Move, a step in which any  *)
(* changes may come in, so that it holds of the closed loop as well.         *)

\* TypeOK, for any changes.
Sound ==
  /\ nextId \in Nat
  /\ live \subseteq Record
  /\ \A r \in live : r.id < nextId
  /\ \A r, s \in live : r.id = s.id => r = s
  /\ pc \in [Handlers -> PcValues]
  /\ req \in [Handlers -> Change \cup {None}]
  /\ unread \in [Handlers -> SUBSET DomainFilter]
  /\ snap \in [Handlers -> SUBSET Record]
  /\ todo \in [Handlers -> SUBSET Job]
  /\ job \in [Handlers -> Job \cup {None}]
  /\ times \in [Handlers -> 1..RetryDefault]
  /\ \A h \in Handlers :
       /\ Active(h) => req[h] \in Change
       /\ ~Active(h) => snap[h] = {} /\ todo[h] = {}
       /\ pc[h] = "call" => job[h] \in todo[h]

\* A step of the account and the handlers, whatever their history and budgets.
Move ==
  \/ \E h \in Handlers : HandlerStep(h)
  \/ \E h \in Handlers, changes \in Change : Take(h, changes)
  \/ Crash \/ ConsoleAdd \/ ConsoleRemove \/ ConsoleEdit
  \/ UNCHANGED <<live, nextId, handlerVars>>

\* The first state has the right types,
LEMMA InitSound == Init => Sound
<1> SUFFICES ASSUME Init PROVE Sound
  OBVIOUS
<1> USE DEF Init
<1>1. /\ live \subseteq Record /\ IsFiniteSet(live)
      /\ \A r \in live : r.id <= Cardinality(live) /\ r.id \in Nat
      /\ \A r, s \in live : r.id = s.id => r = s
  BY RecordsAssumption DEF Record
<1>2. Cardinality(live) \in Nat
  BY <1>1, FS_CardinalityType
<1>3. 1 \in 1..RetryDefault
  BY RetryAssumption
<1> QED
  BY <1>1, <1>2, <1>3 DEF Sound, PcValues, Active

\* An accepted call leaves an account in which ids are unique and below nextId.
LEMMA ExecuteType ==
  ASSUME Sound, NEW j \in Job, Execute(j)
  PROVE  /\ nextId' \in Nat /\ live' \subseteq Record
         /\ \A r \in live' : r.id < nextId'
         /\ \A r, s \in live' : r.id = s.id => r = s
<1>1. CASE j.op = "delete"
  BY <1>1 DEF Sound, Execute, Record
<1>2. CASE j.op # "delete"
  <2> DEFINE new == [j.rec EXCEPT !.id = nextId]
  <2>1. j.rec \in Record
    BY DEF Job
  <2>2. new \in Record /\ new.id = nextId
    BY <2>1 DEF Sound, Record
  <2>3. live' = live \cup {new} /\ nextId' = nextId + 1
    BY <1>2 DEF Execute
  <2> HIDE DEF new
  <2> QED BY <2>2, <2>3 DEF Sound, Record
<1> QED BY <1>1, <1>2

\* and every step keeps them.
LEMMA MoveSound == Sound /\ Move => Sound'
<1> SUFFICES ASSUME Sound, Move PROVE Sound'
  OBVIOUS
<1> USE DEF Sound, PcValues, Active
<1>1. ASSUME NEW h \in Handlers, ListDomains(h) PROVE Sound'
  BY <1>1, RetryAssumption DEF ListDomains
<1>2. ASSUME NEW h \in Handlers, ListRecords(h) PROVE Sound'
  BY <1>2, RetryAssumption, ListedProperties DEF ListRecords
<1>3. ASSUME NEW h \in Handlers, Plan(h) PROVE Sound'
  <2>1. DeletesIn(req[h], snap[h]) \subseteq Job /\ CreatesIn(req[h]) \subseteq Job
    BY <1>3, DeletesType, CreatesType DEF Plan
  <2> QED BY <1>3, <2>1 DEF Plan
<1>4. ASSUME NEW h \in Handlers, StartCall(h) PROVE Sound'
  BY <1>4, RetryAssumption DEF StartCall, Ready
<1>5. ASSUME NEW h \in Handlers, Succeed(h) PROVE Sound'
  BY <1>5, RetryAssumption DEF Succeed, End
<1>6. ASSUME NEW h \in Handlers, Answered(h) PROVE Sound'
  BY <1>6, ExecuteType DEF Answered, Serve, Done
<1>7. ASSUME NEW h \in Handlers, Refused(h) PROVE Sound'
  BY <1>7, RetryAssumption DEF Refused, Again, Done, End
<1>8. ASSUME NEW h \in Handlers, AnswerLost(h) PROVE Sound'
  BY <1>8, ExecuteType, RetryAssumption DEF AnswerLost, Serve, Again, End
<1>9. ASSUME NEW h \in Handlers, NotExecuted(h) PROVE Sound'
  BY <1>9, RetryAssumption DEF NotExecuted, Calling, Again, End
<1>10. ASSUME NEW h \in Handlers, Throttled(h) PROVE Sound'
  BY <1>10, RetryAssumption DEF Throttled, Calling, End
<1>11. ASSUME NEW h \in Handlers, NEW changes \in Change, Take(h, changes)
       PROVE  Sound'
  BY <1>11 DEF Take
<1>12. ASSUME Crash PROVE Sound'
  BY <1>12, RetryAssumption DEF Crash
<1>13. ASSUME ConsoleAdd PROVE Sound'
  BY <1>13, RecordsAssumption DEF ConsoleAdd, ConsoleStep, handlerVars, Record
<1>14. ASSUME ConsoleRemove PROVE Sound'
  BY <1>14 DEF ConsoleRemove, ConsoleStep, handlerVars
<1>15. ASSUME ConsoleEdit PROVE Sound'
  BY <1>15 DEF ConsoleEdit, ConsoleStep, handlerVars, Record
<1>16. CASE UNCHANGED <<live, nextId, handlerVars>>
  BY <1>16 DEF handlerVars
<1> QED
  BY <1>1, <1>2, <1>3, <1>4, <1>5, <1>6, <1>7, <1>8, <1>9, <1>10, <1>11, <1>12,
     <1>13, <1>14, <1>15, <1>16
  DEF Move, HandlerStep

\* Steps of Spec are such steps,
LEMMA NextMoves == [Next]_vars => Move
  BY RequestsType DEF Next, Step, Environment, Receive, Move, vars

\* and its types are those, with its requests and its budgets.
LEMMA TypeIsSound ==
  TypeOK <=> /\ Sound
             /\ req \in [Handlers -> Requests \cup {None}]
             /\ spent \in [Budgets -> Nat]
             /\ \A h \in Handlers : Active(h) => req[h] \in Requests
<1>1. ASSUME NEW h \in Handlers, req[h] \in Requests PROVE req[h] \in Change
  BY <1>1, RequestsType
<1>2. ASSUME req \in [Handlers -> Requests \cup {None}]
      PROVE  req \in [Handlers -> Change \cup {None}]
  BY <1>2, RequestsType
<1> QED BY <1>1, <1>2 DEF TypeOK, Sound

LEMMA InitTypeOK == Init => TypeOK
  BY InitSound, TypeIsSound DEF Init, Active

\* Every budget stays a number.
LEMMA SpendType ==
  ASSUME spent \in [Budgets -> Nat], NEW what \in Budgets, NEW max, Spend(what, max)
  PROVE  spent' \in [Budgets -> Nat]
BY DEF Spend

\* The bounds a step may spend.
LEMMA BudgetNames ==
  /\ "requests" \in Budgets /\ "faults" \in Budgets /\ "console" \in Budgets
  /\ "edits" \in Budgets /\ "crashes" \in Budgets
BY DEF Budgets

\* Every step keeps the types.
LEMMA NextTypeOK == TypeOK /\ [Next]_vars => TypeOK'
<1> SUFFICES ASSUME TypeOK, [Next]_vars PROVE TypeOK'
  OBVIOUS
<1>0. /\ Sound /\ req \in [Handlers -> Requests \cup {None}] /\ spent \in [Budgets -> Nat]
      /\ pc \in [Handlers -> PcValues]
      /\ \A h \in Handlers : Active(h) => req[h] \in Requests
  BY TypeIsSound DEF TypeOK
<1> DEFINE Rest == /\ req' \in [Handlers -> Requests \cup {None}] /\ spent' \in [Budgets -> Nat]
                   /\ \A h \in Handlers : Active(h)' => req'[h] \in Requests
<1>1. ASSUME NEW g \in Handlers, HandlerStep(g) PROVE Rest
  <2>1. UNCHANGED req
    BY <1>1
    DEF HandlerStep, ListDomains, ListRecords, Plan, StartCall, Succeed, Answered, Refused,
        AnswerLost, NotExecuted, Throttled, Again, Done, End
  <2>2. \A h \in Handlers : Active(h)' => Active(h)
    BY <1>0, <1>1
    DEF HandlerStep, ListDomains, ListRecords, Plan, StartCall, Succeed, Answered, Refused,
        AnswerLost, NotExecuted, Throttled, Calling, Again, Done, End, Active
  <2>3. spent' \in [Budgets -> Nat]
    BY <1>0, <1>1, SpendType, BudgetNames
    DEF HandlerStep, ListDomains, ListRecords, Plan, StartCall, Succeed, Answered, Refused,
        AnswerLost, NotExecuted, Throttled, Fault
  <2> QED BY <1>0, <2>1, <2>2, <2>3
<1>2. ASSUME NEW g \in Handlers, NEW changes \in Requests, Receive(g, changes) PROVE Rest
  BY <1>0, <1>2, SpendType, BudgetNames DEF Receive, Take, Active
<1>3. ASSUME Crash PROVE Rest
  BY <1>0, <1>3, SpendType, BudgetNames DEF Crash, Active
<1>4. ASSUME ConsoleAdd \/ ConsoleRemove \/ ConsoleEdit PROVE Rest
  BY <1>0, <1>4, SpendType, BudgetNames
  DEF ConsoleAdd, ConsoleRemove, ConsoleEdit, ConsoleStep, handlerVars, Active
<1>5. ASSUME UNCHANGED vars PROVE Rest
  BY <1>0, <1>5 DEF vars, handlerVars, Active
<1>6. Rest
  BY <1>1, <1>2, <1>3, <1>4, <1>5 DEF Next, Step, Environment
<1>7. Sound'
  BY <1>0, MoveSound, NextMoves
<1>8. TypeOK' <=> (/\ Sound
                  /\ req \in [Handlers -> Requests \cup {None}]
                  /\ spent \in [Budgets -> Nat]
                  /\ \A h \in Handlers : Active(h) => req[h] \in Requests)'
  BY TypeIsSound, PTL
<1> QED
  BY <1>6, <1>7, <1>8

\* The account, the handlers and their calls keep their shape: ids stay unique
\* and are never given twice, locals live only in a handler at work.
THEOREM TypeCorrect == Spec => []TypeOK
  BY InitTypeOK, NextTypeOK, PTL DEF Spec
-----------------------------------------------------------------------------
(* What a handler removes.  DeletesOnlyPlanned speaks of the record as it    *)
(* stands when it is removed, the code of an id it read earlier.  What ties  *)
(* the two: an id in a snapshot was given out before, so no later record     *)
(* has it; and a record that still has it is the one listed, unless a user   *)
(* may edit records in place.                                                *)

\* A snapshot holds records as the listing shows them.
SnapshotsListed ==
  \A h \in Handlers : \A s \in snap[h] :
    Listed(s) = s /\ ~IsSpecial(s) /\ s.id < nextId

\* A delete call is for a listed record that the changes ask to remove.
DeletesAsked ==
  \A h \in Handlers : \A j \in todo[h] : j.op = "delete" =>
    j.rec \in snap[h] /\ AskedToRemove(req[h], Entry(j.rec))

\* A listed record that is still there is as it was listed,
SnapshotsMatch ==
  \A h \in Handlers : \A s \in snap[h], r \in live : r.id = s.id => Listed(r) = s

\* until someone edits one in place.
SnapshotsTrue == spent["edits"] = 0 => SnapshotsMatch

\* What is asked to be removed is gone or has a delete call to come,
RemovalsCovered ==
  \A h \in Handlers : pc[h] \in {"apply", "call"} =>
    \A s \in snap[h] : AskedToRemove(req[h], Entry(s)) =>
      \/ \E j \in todo[h] : j.op = "delete" /\ j.rec = s
      \/ \A r \in live : r.id # s.id

\* and no delete call is to come once a create is being made.
DeletesFirst ==
  \A h \in Handlers : pc[h] = "call" /\ job[h].op = "create" =>
    \A j \in todo[h] : j.op # "delete"

SInv == Sound /\ SnapshotsListed /\ DeletesAsked
OInv == TypeOK /\ SInv /\ RemovalsCovered /\ DeletesFirst

\* What a step may do to a snapshot and to the calls of a handler: most leave
\* both alone or drop them, a listing adds to the one, planning sets the other.
LEMMA ListRecordsAdds ==
  ASSUME Sound, NEW h \in Handlers, ListRecords(h), NEW s \in snap'[h]
  PROVE  s \in snap[h] \/ \E r \in live : s = Listed(r) /\ ~IsSpecial(r)
  BY DEF ListRecords, Sound

\* At first no record is listed.
LEMMA InitOInv == Init => OInv
  BY InitTypeOK, InitSound
  DEF Init, OInv, SInv, SnapshotsListed, DeletesAsked, RemovalsCovered, DeletesFirst

\* Every step keeps what snapshots say of ids.
LEMMA MoveSInv == SInv /\ Move => SInv'
<1> SUFFICES ASSUME SInv, Move PROVE SnapshotsListed' /\ DeletesAsked'
  BY MoveSound DEF SInv
<1> USE DEF SInv, SnapshotsListed, DeletesAsked
<1>0. Sound /\ snap \in [Handlers -> SUBSET Record] /\ todo \in [Handlers -> SUBSET Job]
      /\ nextId \in Nat /\ live \subseteq Record /\ \A r \in live : r.id < nextId
      /\ req \in [Handlers -> Change \cup {None}]
  BY DEF Sound
<1>1. ASSUME NEW h \in Handlers, ListDomains(h) PROVE SnapshotsListed' /\ DeletesAsked'
  BY <1>1 DEF ListDomains
<1>2. ASSUME NEW h \in Handlers, ListRecords(h) PROVE SnapshotsListed' /\ DeletesAsked'
  <2>1. SnapshotsListed'
    BY <1>0, <1>2, ListRecordsAdds, ListedProperties DEF ListRecords
  <2>2. DeletesAsked'
    BY <1>0, <1>2 DEF ListRecords
  <2> QED BY <2>1, <2>2
<1>3. ASSUME NEW h \in Handlers, Plan(h) PROVE SnapshotsListed' /\ DeletesAsked'
  <2>1. SnapshotsListed'
    BY <1>3 DEF Plan
  <2>2. req[h] \in Change
    BY <1>3 DEF Plan, Sound, Active
  <2>3. ASSUME NEW j \in DeletesIn(req[h], snap[h])
        PROVE  j.rec \in snap[h] /\ AskedToRemove(req[h], Entry(j.rec))
    BY <1>0, <2>2, DeletesType, DeletesAreAsked
  <2>4. ASSUME NEW j \in CreatesIn(req[h]) PROVE j.op # "delete"
    BY <2>2, CreatesType
  <2> QED BY <1>0, <1>3, <2>1, <2>3, <2>4 DEF Plan
<1>4. ASSUME NEW h \in Handlers, StartCall(h) PROVE SnapshotsListed' /\ DeletesAsked'
  BY <1>4 DEF StartCall
<1>5. ASSUME NEW h \in Handlers, Succeed(h) PROVE SnapshotsListed' /\ DeletesAsked'
  BY <1>0, <1>5 DEF Succeed, End
<1>6. ASSUME NEW h \in Handlers, Answered(h) PROVE SnapshotsListed' /\ DeletesAsked'
  BY <1>0, <1>6 DEF Answered, Serve, Execute, Done, Record
<1>7. ASSUME NEW h \in Handlers, Refused(h) PROVE SnapshotsListed' /\ DeletesAsked'
  BY <1>0, <1>7 DEF Refused, Again, Done, End
<1>8. ASSUME NEW h \in Handlers, AnswerLost(h) PROVE SnapshotsListed' /\ DeletesAsked'
  BY <1>0, <1>8 DEF AnswerLost, Serve, Execute, Again, End, Record
<1>9. ASSUME NEW h \in Handlers, NotExecuted(h) PROVE SnapshotsListed' /\ DeletesAsked'
  BY <1>0, <1>9 DEF NotExecuted, Again, End
<1>10. ASSUME NEW h \in Handlers, Throttled(h) PROVE SnapshotsListed' /\ DeletesAsked'
  BY <1>0, <1>10 DEF Throttled, End
<1>11. ASSUME NEW h \in Handlers, NEW changes \in Change, Take(h, changes)
       PROVE  SnapshotsListed' /\ DeletesAsked'
  BY <1>0, <1>11 DEF Take, Sound
<1>12. ASSUME Crash PROVE SnapshotsListed' /\ DeletesAsked'
  BY <1>12 DEF Crash
<1>13. ASSUME ConsoleAdd PROVE SnapshotsListed' /\ DeletesAsked'
  BY <1>0, <1>13 DEF ConsoleAdd, ConsoleStep, handlerVars, Record
<1>14. ASSUME ConsoleRemove PROVE SnapshotsListed' /\ DeletesAsked'
  BY <1>14 DEF ConsoleRemove, ConsoleStep, handlerVars
<1>15. ASSUME ConsoleEdit PROVE SnapshotsListed' /\ DeletesAsked'
  BY <1>15 DEF ConsoleEdit, ConsoleStep, handlerVars
<1>16. CASE UNCHANGED <<live, nextId, handlerVars>>
  BY <1>16 DEF handlerVars
<1> QED
  BY <1>1, <1>2, <1>3, <1>4, <1>5, <1>6, <1>7, <1>8, <1>9, <1>10, <1>11, <1>12,
     <1>13, <1>14, <1>15, <1>16
  DEF Move, HandlerStep

\* A step that edits no record in place keeps the snapshots true.
LEMMA MoveSnapshotsMatch ==
  ASSUME ~ConsoleEdit, SInv, SnapshotsMatch, Move
  PROVE  SnapshotsMatch'
<1> USE DEF SInv, SnapshotsMatch
<1>0. /\ snap \in [Handlers -> SUBSET Record] /\ nextId \in Nat /\ live \subseteq Record
      /\ \A r, s \in live : r.id = s.id => r = s
      /\ \A h \in Handlers : \A s \in snap[h] : s.id < nextId /\ s.id \in Nat
  BY DEF Sound, SnapshotsListed, Record
\* No new record has the id of a listed one, and the others are as they were.
<1>a. ASSUME UNCHANGED snap, \A r \in live' : r \in live \/ r.id = nextId
      PROVE  SnapshotsMatch'
  BY <1>0, <1>a
\* An accepted call adds a record under nextId or takes one away.
<1>b. ASSUME NEW j \in Job, Execute(j) PROVE \A r \in live' : r \in live \/ r.id = nextId
  BY <1>b DEF Execute, Job, Record
\* A handler that ends drops its snapshot and touches no other.
<1>c. ASSUME NEW h \in Handlers, NEW result, End(h, result),
             \A r \in live' : r \in live \/ r.id = nextId
      PROVE  SnapshotsMatch'
  BY <1>0, <1>c DEF End
<1>1. ASSUME NEW h \in Handlers, ListDomains(h) PROVE SnapshotsMatch'
  BY <1>1 DEF ListDomains
<1>2. ASSUME NEW h \in Handlers, ListRecords(h) PROVE SnapshotsMatch'
  <2>1. UNCHANGED live /\ \A g \in Handlers \ {h} : snap'[g] = snap[g]
    BY <1>0, <1>2 DEF ListRecords
  <2>2. ASSUME NEW s \in snap'[h], NEW r \in live, r.id = s.id PROVE Listed(r) = s
    BY <1>0, <1>2, <2>2, ListRecordsAdds, ListedProperties
  <2> QED BY <2>1, <2>2
<1>3. ASSUME NEW h \in Handlers, Plan(h) PROVE SnapshotsMatch'
  BY <1>3 DEF Plan
<1>4. ASSUME NEW h \in Handlers, StartCall(h) PROVE SnapshotsMatch'
  BY <1>4 DEF StartCall
<1>5. ASSUME NEW h \in Handlers, Succeed(h) PROVE SnapshotsMatch'
  BY <1>5, <1>c DEF Succeed
<1>6. ASSUME NEW h \in Handlers, Answered(h) PROVE SnapshotsMatch'
  BY <1>6, <1>a, <1>b DEF Answered, Serve, Done, Sound
<1>7. ASSUME NEW h \in Handlers, Refused(h) PROVE SnapshotsMatch'
  BY <1>7, <1>c DEF Refused, Again, Done
<1>8. ASSUME NEW h \in Handlers, AnswerLost(h) PROVE SnapshotsMatch'
  BY <1>8, <1>a, <1>b, <1>c DEF AnswerLost, Serve, Again, Sound
<1>9. ASSUME NEW h \in Handlers, NotExecuted(h) PROVE SnapshotsMatch'
  BY <1>9, <1>c DEF NotExecuted, Again
<1>10. ASSUME NEW h \in Handlers, Throttled(h) PROVE SnapshotsMatch'
  BY <1>10, <1>c DEF Throttled
<1>11. ASSUME NEW h \in Handlers, NEW changes \in Change, Take(h, changes)
       PROVE  SnapshotsMatch'
  BY <1>11 DEF Take
<1>12. ASSUME Crash PROVE SnapshotsMatch'
  BY <1>12 DEF Crash
<1>13. ASSUME ConsoleAdd PROVE SnapshotsMatch'
  BY <1>a, <1>13, RecordsAssumption DEF ConsoleAdd, ConsoleStep, handlerVars, Record
<1>14. ASSUME ConsoleRemove PROVE SnapshotsMatch'
  BY <1>14 DEF ConsoleRemove, ConsoleStep, handlerVars
<1>15. CASE UNCHANGED <<live, nextId, handlerVars>>
  BY <1>15 DEF handlerVars
<1> QED
  BY <1>1, <1>2, <1>3, <1>4, <1>5, <1>6, <1>7, <1>8, <1>9, <1>10, <1>11, <1>12,
     <1>13, <1>14, <1>15
  DEF Move, HandlerStep

\* No step takes an edit in place back, and one that is none leaves the count.
LEMMA EditsAreCounted ==
  ASSUME TypeOK, [Next]_vars, spent'["edits"] = 0
  PROVE  spent["edits"] = 0 /\ ~ConsoleEdit
<1>1. spent \in [Budgets -> Nat] /\ \A what \in Budgets : spent[what] \in Nat
  BY DEF TypeOK
<1>2. ASSUME NEW what \in Budgets, NEW max, Spend(what, max)
      PROVE  spent["edits"] = 0 /\ what # "edits"
  BY <1>1, <1>2 DEF Spend, Budgets
<1>3. ASSUME NEW h \in Handlers, NEW final, Fault(h, final) PROVE spent["edits"] = 0
  BY <1>2, <1>3 DEF Fault, Budgets
<1>4. ~ConsoleEdit
  BY <1>2 DEF ConsoleEdit, Budgets
<1>5. ASSUME NEW h \in Handlers, NEW changes \in Requests, Receive(h, changes)
      PROVE  spent["edits"] = 0
  BY <1>2, <1>5 DEF Receive, Budgets
<1>6. ASSUME Crash \/ ConsoleAdd \/ ConsoleRemove PROVE spent["edits"] = 0
  BY <1>2, <1>6 DEF Crash, ConsoleAdd, ConsoleRemove, Budgets
<1>7. ASSUME NEW h \in Handlers, HandlerStep(h) PROVE spent["edits"] = 0
  BY <1>3, <1>7
  DEF HandlerStep, ListDomains, ListRecords, Plan, StartCall, Succeed, Answered, Refused,
      AnswerLost, NotExecuted, Throttled
<1> QED
  BY <1>4, <1>5, <1>6, <1>7 DEF Next, Step, Environment, vars

\* So they are true until the first edit.
LEMMA NextSnapshotsTrue ==
  ASSUME TypeOK, SInv, SnapshotsTrue, [Next]_vars
  PROVE  SnapshotsTrue'
BY EditsAreCounted, MoveSnapshotsMatch, NextMoves DEF SnapshotsTrue
-----------------------------------------------------------------------------
(* Old before new.                                                           *)

\* No step of anyone gives a listed id back to the account.
LEMMA IdsStayGone ==
  ASSUME TypeOK, SInv, [Next]_vars, NEW h \in Handlers, NEW s \in snap[h],
         \A r \in live : r.id # s.id
  PROVE  \A r \in live' : r.id # s.id
<1> USE DEF SInv
<1>0. s.id < nextId /\ s.id \in Nat /\ nextId \in Nat /\ live \subseteq Record
  BY DEF TypeOK, SnapshotsListed, Record
<1>1. ASSUME NEW j \in Job, Execute(j) PROVE \A r \in live' : r.id # s.id
  BY <1>0, <1>1 DEF Execute, Job, Record
<1>2. ASSUME NEW g \in Handlers, Answered(g) \/ AnswerLost(g)
      PROVE  \A r \in live' : r.id # s.id
  BY <1>1, <1>2 DEF Answered, AnswerLost, Serve, TypeOK
<1>3. ASSUME ConsoleAdd PROVE \A r \in live' : r.id # s.id
  BY <1>0, <1>3, RecordsAssumption DEF ConsoleAdd, ConsoleStep, Record
<1>4. ASSUME ConsoleEdit PROVE \A r \in live' : r.id # s.id
  BY <1>0, <1>4 DEF ConsoleEdit, ConsoleStep, Record
<1>5. ASSUME ConsoleRemove PROVE \A r \in live' : r.id # s.id
  BY <1>5 DEF ConsoleRemove, ConsoleStep
<1> QED
  BY <1>2, <1>3, <1>4, <1>5
  DEF Next, Step, HandlerStep, Environment, ListDomains, ListRecords, Plan, StartCall,
      Succeed, Refused, NotExecuted, Throttled, Receive, Take, Crash, vars

\* The two conditions for one handler, to be carried over a step.
CoveredAt(h) ==
  pc[h] \in {"apply", "call"} =>
    \A s \in snap[h] : AskedToRemove(req[h], Entry(s)) =>
      \/ \E j \in todo[h] : j.op = "delete" /\ j.rec = s
      \/ \A r \in live : r.id # s.id

FirstAt(h) ==
  pc[h] = "call" /\ job[h].op = "create" => \A j \in todo[h] : j.op # "delete"

\* Every step keeps records listed for removal gone, or their deletes to come.
LEMMA NextOInv == OInv /\ [Next]_vars => OInv'
<1> SUFFICES ASSUME OInv, [Next]_vars, NEW h \in Handlers
             PROVE  CoveredAt(h)' /\ FirstAt(h)'
  BY NextTypeOK, MoveSInv, NextMoves DEF OInv, RemovalsCovered, DeletesFirst, CoveredAt, FirstAt
<1>0. /\ CoveredAt(h) /\ FirstAt(h) /\ SInv /\ TypeOK
      /\ todo \in [Handlers -> SUBSET Job] /\ job \in [Handlers -> Job \cup {None}]
      /\ pc \in [Handlers -> PcValues] /\ req \in [Handlers -> Requests \cup {None}]
      /\ snap \in [Handlers -> SUBSET Record]
      /\ pc[h] = "call" => job[h] \in todo[h]
  BY DEF OInv, SInv, RemovalsCovered, DeletesFirst, CoveredAt, FirstAt, TypeOK
\* A step that leaves the handler where it is leaves both conditions.
<1>a. ASSUME pc'[h] = pc[h], req'[h] = req[h], snap'[h] = snap[h], todo'[h] = todo[h],
             job'[h] = job[h]
      PROVE  CoveredAt(h)' /\ FirstAt(h)'
  BY <1>0, <1>a, IdsStayGone DEF CoveredAt, FirstAt
\* A handler that is not at its calls has nothing to keep.
<1>b. ASSUME pc'[h] \notin {"apply", "call"} PROVE CoveredAt(h)' /\ FirstAt(h)'
  BY <1>b DEF CoveredAt, FirstAt
\* One call done: a delete has taken its record away, or it was a create.
<1>c. ASSUME Done(h), pc[h] = "call",
             job[h].op = "create" \/ \A r \in live' : r.id # job[h].rec.id
      PROVE  CoveredAt(h)' /\ FirstAt(h)'
  <2>1. pc'[h] = "apply" /\ todo'[h] = todo[h] \ {job[h]}
        /\ req'[h] = req[h] /\ snap'[h] = snap[h]
    BY <1>0, <1>c DEF Done
  <2>2. ASSUME NEW s \in snap[h], AskedToRemove(req[h], Entry(s)),
               NEW j \in todo[h], j.op = "delete", j.rec = s
        PROVE  \/ \E i \in todo'[h] : i.op = "delete" /\ i.rec = s
               \/ \A r \in live' : r.id # s.id
    BY <1>c, <2>1, <2>2
  <2> QED BY <1>0, <1>c, <2>1, <2>2, IdsStayGone DEF CoveredAt, FirstAt
<1>1. ASSUME NEW g \in Handlers, HandlerStep(g), g # h PROVE CoveredAt(h)' /\ FirstAt(h)'
  BY <1>0, <1>1, <1>a
  DEF HandlerStep, ListDomains, ListRecords, Plan, StartCall, Succeed, Answered, Refused,
      AnswerLost, NotExecuted, Throttled, Serve, Execute, Done, Again, End
<1>2. ASSUME ListDomains(h) \/ ListRecords(h) \/ Succeed(h) \/ Throttled(h)
      PROVE  CoveredAt(h)' /\ FirstAt(h)'
  BY <1>0, <1>2, <1>b DEF ListDomains, ListRecords, Succeed, Throttled, End
<1>3. ASSUME Plan(h) PROVE CoveredAt(h)' /\ FirstAt(h)'
  <2>1. req[h] \in Change
    BY <1>0, <1>3 DEF Plan, SInv, Sound, Active
  <2>2. ASSUME NEW s \in snap[h], AskedToRemove(req[h], Entry(s))
        PROVE  \E j \in DeletesIn(req[h], snap[h]) : j.op = "delete" /\ j.rec = s
    BY <1>0, <2>1, <2>2, AskedAreDeleted DEF SInv, SnapshotsListed
  <2>3. /\ pc'[h] = "apply" /\ req'[h] = req[h] /\ snap'[h] = snap[h]
        /\ DeletesIn(req[h], snap[h]) \subseteq todo'[h]
    BY <1>0, <1>3 DEF Plan
  <2> QED BY <2>2, <2>3 DEF CoveredAt, FirstAt
<1>4. ASSUME StartCall(h) PROVE CoveredAt(h)' /\ FirstAt(h)'
  <2>1. /\ job'[h] \in Ready(h) /\ UNCHANGED <<live, req, snap, todo>>
        /\ pc[h] = "apply" /\ pc'[h] = "call"
    BY <1>0, <1>4 DEF StartCall
  <2>2. job'[h].op = "create" => \A j \in todo[h] : j.op # "delete"
    BY <2>1 DEF Ready
  <2> QED BY <1>0, <2>1, <2>2 DEF CoveredAt, FirstAt
<1>5. ASSUME Answered(h) PROVE CoveredAt(h)' /\ FirstAt(h)'
  <2>1. job[h] \in Job /\ Done(h) /\ Execute(job[h]) /\ pc[h] = "call"
    BY <1>0, <1>5 DEF Answered, Serve
  <2>2. job[h].op = "create" \/ \A r \in live' : r.id # job[h].rec.id
    BY <2>1 DEF Execute, Job
  <2> QED BY <1>c, <2>1, <2>2
<1>6. ASSUME Refused(h) PROVE CoveredAt(h)' /\ FirstAt(h)'
  BY <1>0, <1>6, <1>a, <1>b, <1>c DEF Refused, Again, End
<1>7. ASSUME AnswerLost(h) \/ NotExecuted(h) PROVE CoveredAt(h)' /\ FirstAt(h)'
  BY <1>0, <1>7, <1>a, <1>b DEF AnswerLost, NotExecuted, Again, End
<1>8. ASSUME NEW g \in Handlers, NEW changes \in Requests, Receive(g, changes)
      PROVE  CoveredAt(h)' /\ FirstAt(h)'
  BY <1>0, <1>8, <1>a, <1>b DEF Receive, Take
<1>9. ASSUME Crash PROVE CoveredAt(h)' /\ FirstAt(h)'
  BY <1>9, <1>b DEF Crash, Active
<1>10. ASSUME ConsoleAdd \/ ConsoleRemove \/ ConsoleEdit PROVE CoveredAt(h)' /\ FirstAt(h)'
  BY <1>10, <1>a DEF ConsoleAdd, ConsoleRemove, ConsoleEdit, ConsoleStep, handlerVars
<1>11. CASE UNCHANGED vars
  BY <1>11, <1>a DEF vars, handlerVars
<1> QED
  BY <1>1, <1>2, <1>3, <1>4, <1>5, <1>6, <1>7, <1>8, <1>9, <1>10, <1>11
  DEF Next, Step, HandlerStep, Environment

\* No create is called while a record the handler listed for removal is still in
\* the account: applyChangesForDNS runs all its deletes before its first create,
\* has one for every record that must go, and leaves at the first that fails.
THEOREM OldBeforeNew == Spec => []OldGoneBeforeNew
<1>1. OInv => OldGoneBeforeNew
  BY DEF OInv, RemovalsCovered, DeletesFirst, OldGoneBeforeNew
<1> QED BY <1>1, InitOInv, NextOInv, PTL DEF Spec
-----------------------------------------------------------------------------
(* Only what is asked for is removed.                                        *)

\* The record an accepted delete takes away is one the changes ask to remove.
LEMMA DeleteIsAsked ==
  ASSUME SInv, SnapshotsMatch, NEW h \in Handlers, pc[h] = "call", Execute(job[h]),
         NEW r \in live \ live'
  PROVE  AskedToRemove(req[h], Entry(r))
<1> DEFINE j == job[h]
<1>1. j \in todo[h] /\ todo[h] \subseteq Job /\ snap[h] \subseteq Record
  BY DEF SInv, Sound
<1>2. j.op = "delete" /\ r.id = j.rec.id
  BY DEF Execute
<1>3. j.rec \in snap[h] /\ AskedToRemove(req[h], Entry(j.rec))
  BY <1>1, <1>2 DEF SInv, DeletesAsked
<1>4. Listed(r) = j.rec
  BY <1>2, <1>3 DEF SnapshotsMatch
<1>5. r \in Record
  BY DEF SInv, Sound
<1> QED BY <1>3, <1>4, <1>5, ListedProperties

\* Of all steps but those of console users, only the two in which DNSPod executes
\* a call remove anything,
LEMMA MoveRemovesOnlyAsked ==
  ASSUME SInv, SnapshotsMatch, Move, ~ConsoleRemove, ~ConsoleEdit, NEW r \in live \ live'
  PROVE  \E h \in Handlers : pc[h] = "call" /\ AskedToRemove(req[h], Entry(r))
<1>1. ASSUME NEW h \in Handlers, Answered(h) \/ AnswerLost(h)
      PROVE  pc[h] = "call" /\ AskedToRemove(req[h], Entry(r))
  BY <1>1, DeleteIsAsked DEF Answered, AnswerLost, Serve
<1> QED
  BY <1>1
  DEF Move, HandlerStep, ListDomains, ListRecords, Plan, StartCall,
      Succeed, Refused, NotExecuted, Throttled, Take, Crash, ConsoleAdd, ConsoleStep

\* and of those none but an edit or a removal, which are counted.
LEMMA StepRemovesOnlyPlanned ==
  ASSUME TypeOK, SInv, SnapshotsTrue, [Next]_vars,
         spent'["console"] = spent["console"], spent'["edits"] = 0,
         NEW r \in live \ live'
  PROVE  \E h \in Handlers : pc[h] = "call" /\ AskedToRemove(req[h], Entry(r))
<1>0. SnapshotsMatch /\ ~ConsoleEdit
  BY EditsAreCounted DEF SnapshotsTrue
<1>1. ~ConsoleRemove
  <2>1. spent \in [Budgets -> Nat] /\ spent["console"] \in Nat
    BY DEF TypeOK, Budgets
  <2>2. ConsoleRemove => spent'["console"] = spent["console"] + 1
    BY <2>1 DEF ConsoleRemove, Spend, Budgets
  <2> QED BY <2>1, <2>2
<1> QED
  BY <1>0, <1>1, NextMoves, MoveRemovesOnlyAsked

\* Line-aware delete for all accounts, requests and interleavings: a handler takes
\* out nothing but records its changes ask to remove, as they stand at that moment,
\* though it deletes by ids it read before its first call and others are at work in
\* between; until someone moves a record to another line in place.
THEOREM RemovesOnlyPlanned == Spec => DeletesOnlyPlanned
<1>1. Init => TypeOK /\ SInv /\ SnapshotsTrue
  BY InitOInv DEF OInv, Init, SnapshotsTrue, SnapshotsMatch
<1>2. TypeOK /\ SInv /\ SnapshotsTrue /\ [Next]_vars => (TypeOK /\ SInv /\ SnapshotsTrue)'
  BY NextTypeOK, MoveSInv, NextMoves, NextSnapshotsTrue
<1>3. TypeOK /\ SInv /\ SnapshotsTrue /\ [Next]_vars =>
        [spent'["console"] = spent["console"] /\ spent'["edits"] = 0 =>
           \A r \in live \ live' :
             \E h \in Handlers : pc[h] = "call" /\ AskedToRemove(req[h], Entry(r))]_vars
  BY StepRemovesOnlyPlanned
<1> QED BY <1>1, <1>2, <1>3, PTL DEF Spec, DeletesOnlyPlanned
-----------------------------------------------------------------------------
(* Why changes fail.  A delete is refused when its id is gone, and the id    *)
(* says nothing of who took it.  So the invariant keeps an account of every  *)
(* id on the way from the listing to the call: it is there, or the slot it   *)
(* was in is one that others have been at.                                   *)

\* A record of the account is where and of the type that it was listed, even when
\* a user has moved it to another line since.
SnapshotsPlace ==
  \A h \in Handlers : \A s \in snap[h], r \in live :
    r.id = s.id => r.zone = s.zone /\ r.sub = s.sub /\ r.type = s.type

\* A record is listed once, in its zone;
OnceAt(h) ==
  /\ pc[h] = "domains" => snap[h] = {}
  /\ pc[h] = "records" => \A s \in snap[h] : s.zone \notin unread[h]
  /\ \A s, t \in snap[h] : s.id = t.id => s = t

\* and is to be deleted once, when the changes ask for it once.
DifferAt(h) ==
  \/ RemovedTwice(req[h])
  \/ \A i, j \in todo[h] : i.op = "delete" /\ j.op = "delete" /\ i.rec.id = j.rec.id => i = j

\* Is the record listed as s there, or in a slot that others than h have been at?
Accounted(h, s) == (\E r \in live : r.id = s.id) \/ Slot(Entry(s)) \in foreign[h]

ExplainedAt(h) ==
  \/ hit[h]
  \/ RemovedTwice(req[h])
  \/ /\ pc[h] = "records" => \A s \in snap[h] : Accounted(h, s)
     /\ \A j \in todo[h] : j.op = "delete" => Accounted(h, j.rec)

CauseInv ==
  /\ TypeOK /\ SInv /\ SnapshotsPlace /\ hit \in [Handlers -> BOOLEAN]
  /\ \A h \in Handlers : OnceAt(h) /\ DifferAt(h) /\ ExplainedAt(h)

\* At first nothing is listed.
LEMMA InitCauseInv == Init => CauseInv
  BY InitOInv
  DEF Init, OInv, CauseInv, SnapshotsPlace, OnceAt, DifferAt, ExplainedAt

\* Every step leaves records at their place.
LEMMA NextSnapshotsPlace ==
  ASSUME TypeOK, SInv, SnapshotsPlace, [Next]_vars
  PROVE  SnapshotsPlace'
<1> USE DEF SInv, SnapshotsPlace
<1>0. /\ snap \in [Handlers -> SUBSET Record] /\ nextId \in Nat /\ live \subseteq Record
      /\ \A r, s \in live : r.id = s.id => r = s
      /\ \A h \in Handlers : \A s \in snap[h] : s.id < nextId /\ s.id \in Nat
  BY DEF TypeOK, SnapshotsListed, Record
<1>1. ASSUME NEW h \in Handlers, ListRecords(h) PROVE SnapshotsPlace'
  <2>1. UNCHANGED live /\ \A g \in Handlers \ {h} : snap'[g] = snap[g]
    BY <1>0, <1>1 DEF ListRecords
  <2>2. ASSUME NEW r \in Record
        PROVE  Listed(r).zone = r.zone /\ Listed(r).sub = r.sub /\ Listed(r).type = r.type
    BY DEF Listed, Record
  <2>3. ASSUME NEW s \in snap'[h], NEW r \in live, r.id = s.id
        PROVE  r.zone = s.zone /\ r.sub = s.sub /\ r.type = s.type
    BY <1>0, <1>1, <2>2, <2>3, ListRecordsAdds, ListedProperties
  <2> QED BY <2>1, <2>3
\* A step that lists nothing drops snapshots or leaves them, and records are new, or
\* where they were.
<1>2. ASSUME \A h \in Handlers : snap'[h] \subseteq snap[h],
             \A r \in live' : \/ r.id = nextId
                              \/ \E s \in live : /\ r.id = s.id /\ r.zone = s.zone
                                                 /\ r.sub = s.sub /\ r.type = s.type
      PROVE  SnapshotsPlace'
  BY <1>0, <1>2
<1>3. ASSUME ~\E h \in Handlers : ListRecords(h)
      PROVE  \A h \in Handlers : snap'[h] \subseteq snap[h]
  BY <1>0, <1>3
  DEF Next, Step, HandlerStep, Environment, ListDomains, Plan, StartCall, Succeed, Answered,
      Refused, AnswerLost, NotExecuted, Throttled, Again, Done, End, Receive, Take, Crash,
      ConsoleAdd, ConsoleRemove, ConsoleEdit, ConsoleStep, handlerVars, vars
<1> DEFINE Same == \A r \in live' : \/ r.id = nextId
                                   \/ \E s \in live : /\ r.id = s.id /\ r.zone = s.zone
                                                      /\ r.sub = s.sub /\ r.type = s.type
<1>4. ASSUME live' = live PROVE Same
  BY <1>4
<1>5. ASSUME NEW h \in Handlers, Answered(h) \/ AnswerLost(h) PROVE Same
  <2>1. job[h] \in Job /\ Execute(job[h])
    BY <1>5 DEF Answered, AnswerLost, Serve, TypeOK
  <2> QED BY <2>1 DEF Execute, Job, Record
<1>6. ASSUME ConsoleAdd \/ ConsoleRemove PROVE Same
  BY <1>6, RecordsAssumption DEF ConsoleAdd, ConsoleRemove, ConsoleStep, Record
<1>7. ASSUME ConsoleEdit PROVE Same
  BY <1>0, <1>7 DEF ConsoleEdit, ConsoleStep, Record
<1>8. ASSUME ~\E h \in Handlers : ListRecords(h) PROVE Same
  BY <1>4, <1>5, <1>6, <1>7, <1>8
  DEF Next, Step, HandlerStep, Environment, ListDomains, Plan, StartCall, Succeed, Refused,
      NotExecuted, Throttled, Receive, Take, Crash, vars
<1> QED BY <1>1, <1>2, <1>3, <1>8

\* The delete calls for one id are one call, unless the changes ask for it twice.
LEMMA DeletesDiffer ==
  ASSUME NEW changes \in Change, NEW S \in SUBSET Record,
         \A r \in S : Listed(r) = r /\ ~IsSpecial(r),
         \A r, s \in S : r.id = s.id => r = s,
         NEW i \in DeletesIn(changes, S), NEW j \in DeletesIn(changes, S),
         i.rec.id = j.rec.id, ~RemovedTwice(changes)
  PROVE  i = j
<1> DEFINE eps == Removals(changes)
           From(c, n, r, k) == /\ r.zone \in FindZone(Managed, eps[n].name)
                               /\ k \in Matches(eps[n], r) /\ c = Call("delete", n, k, r)
<1>1. ASSUME NEW c \in DeletesIn(changes, S)
      PROVE  \E n \in DOMAIN eps, r \in S : \E k \in Matches(eps[n], r) : From(c, n, r, k)
  BY DEF DeletesIn
<1>2. PICK n \in DOMAIN eps, r \in S : \E k \in Matches(eps[n], r) : From(i, n, r, k)
  BY <1>1
<1>3. PICK k \in Matches(eps[n], r) : From(i, n, r, k)
  BY <1>2
<1>4. PICK m \in DOMAIN eps, s \in S : \E l \in Matches(eps[m], s) : From(j, m, s, l)
  BY <1>1
<1>5. PICK l \in Matches(eps[m], s) : From(j, m, s, l)
  BY <1>4
<1>6. r = s
  BY <1>3, <1>5 DEF Call
<1>7. eps[n] \in Endpoint /\ eps[m] \in Endpoint
  BY RequestProperties
<1>8. Entry(r).name = eps[n].name /\ Entry(r).name = eps[m].name
  BY <1>3, <1>5, <1>6, <1>7, MatchIsEntry
<1>9. /\ k \in DOMAIN eps[n].targets /\ r.type = eps[n].type
      /\ LineOf(r) = EndpointLine(eps[n]) /\ r.value = eps[n].targets[k]
      /\ l \in DOMAIN eps[m].targets /\ r.type = eps[m].type
      /\ LineOf(r) = EndpointLine(eps[m]) /\ r.value = eps[m].targets[l]
  BY <1>6 DEF Matches
<1>10. <<n, k>> = <<m, l>>
  <2> SUFFICES ASSUME <<n, k>> # <<m, l>> PROVE RemovedTwice(changes)
    OBVIOUS
  <2>1. /\ k \in DOMAIN eps[n].targets /\ l \in DOMAIN eps[m].targets
        /\ eps[n].name = eps[m].name /\ eps[n].type = eps[m].type
        /\ EndpointLine(eps[n]) = EndpointLine(eps[m])
        /\ eps[n].targets[k] = eps[m].targets[l]
    BY <1>8, <1>9
  <2> HIDE DEF eps
  <2>2. RemovedTwice(changes) <=>
          \E x, y \in DOMAIN eps :
            \E u \in DOMAIN eps[x].targets, v \in DOMAIN eps[y].targets :
              /\ <<x, u>> # <<y, v>>
              /\ eps[x].name = eps[y].name /\ eps[x].type = eps[y].type
              /\ EndpointLine(eps[x]) = EndpointLine(eps[y])
              /\ eps[x].targets[u] = eps[y].targets[v]
    BY DEF RemovedTwice, eps
  <2>3. n \in DOMAIN eps /\ m \in DOMAIN eps
    BY DEF eps
  <2> QED BY <2>1, <2>2, <2>3
<1> QED
  BY <1>3, <1>5, <1>6, <1>10

\* The handler at the same place, with the same snapshot and calls.
Unmoved(h) ==
  /\ pc'[h] = pc[h] /\ req'[h] = req[h] /\ unread'[h] = unread[h] /\ snap'[h] = snap[h]
  /\ todo'[h] = todo[h] /\ hit'[h] = hit[h]

\* All a step may do to a handler's snapshot and calls.
Emptied(h) == ~Active(h)' /\ snap'[h] = {} /\ todo'[h] = {}

\* One call fewer: it was a create, or a delete now executed.
Struck(h) ==
  /\ pc[h] = "call" /\ pc'[h] = "apply" /\ req'[h] = req[h] /\ snap'[h] = snap[h]
  /\ hit'[h] = hit[h]
  /\ job[h] \in todo[h] /\ todo'[h] = todo[h] \ {job[h]}
  /\ \/ job[h].op = "create" /\ live \subseteq live'
     \/ job[h].op = "delete" /\ live' = {r \in live : r.id # job[h].rec.id}

\* Another attempt: nothing executed, or a create, or a fault that explains all.
Retried(h) ==
  /\ pc'[h] = pc[h] /\ req'[h] = req[h] /\ unread'[h] = unread[h] /\ snap'[h] = snap[h]
  /\ todo'[h] = todo[h]
  /\ hit'[h] \/ (hit'[h] = hit[h] /\ live \subseteq live')

\* A call is started.
Started(h) ==
  /\ pc[h] = "apply" /\ pc'[h] = "call" /\ req'[h] = req[h] /\ snap'[h] = snap[h]
  /\ todo'[h] = todo[h] /\ hit'[h] = hit[h] /\ live' = live

\* A request comes in on a handler that has nothing.
Opened(h) == ~Active(h) /\ snap'[h] = {} /\ todo'[h] = {} /\ pc'[h] \in {"domains", "ok"}

\* A step is one of the handler, or leaves it where it is.
LEMMA CauseMoves ==
  ASSUME CauseInv, [Next]_vars, NEW h \in Handlers
  PROVE  \/ Unmoved(h) /\ (UNCHANGED vars \/ \E by : by # h /\ Recorded(by))
         \/ Opened(h) \/ Emptied(h)
         \/ /\ ListDomains(h) \/ ListRecords(h) \/ Plan(h) \/ Started(h) \/ Struck(h) \/ Retried(h)
            /\ Recorded(h)
<1>0. /\ TypeOK /\ hit \in [Handlers -> BOOLEAN]
      /\ pc \in [Handlers -> PcValues] /\ req \in [Handlers -> Requests \cup {None}]
      /\ unread \in [Handlers -> SUBSET DomainFilter] /\ snap \in [Handlers -> SUBSET Record]
      /\ todo \in [Handlers -> SUBSET Job]
      /\ ~Active(h) => snap[h] = {} /\ todo[h] = {}
      /\ pc[h] = "call" => job[h] \in todo[h] /\ job[h].op \in {"delete", "create"}
  BY DEF CauseInv, SInv, TypeOK, Job
<1>a. ASSUME NEW result \in {"ok", "failed"}, End(h, result) PROVE Emptied(h)
  BY <1>0, <1>a DEF End, Emptied, Active
<1>b. ASSUME Again(h) PROVE pc'[h] = pc[h] /\ req'[h] = req[h] /\ unread'[h] = unread[h]
                            /\ snap'[h] = snap[h] /\ todo'[h] = todo[h]
  BY <1>b DEF Again
<1>c. ASSUME Done(h), pc[h] = "call"
      PROVE  /\ pc'[h] = "apply" /\ req'[h] = req[h] /\ snap'[h] = snap[h]
             /\ job[h] \in todo[h] /\ todo'[h] = todo[h] \ {job[h]}
  BY <1>0, <1>c DEF Done
<1>d. ASSUME Execute(job[h])
      PROVE  /\ job[h].op = "delete" => live' = {r \in live : r.id # job[h].rec.id}
             /\ job[h].op # "delete" => live \subseteq live'
  BY <1>d DEF Execute
<1>1. ASSUME NEW g \in Handlers, HandlerStep(g), g # h PROVE Unmoved(h)
  BY <1>0, <1>1
  DEF HandlerStep, ListDomains, ListRecords, Plan, StartCall, Succeed, Answered, Refused,
      AnswerLost, NotExecuted, Throttled, Again, Done, End, Fault, Unmoved
<1>2. ASSUME NEW g \in Handlers, NEW changes \in Requests, Receive(g, changes)
      PROVE  Unmoved(h) \/ Opened(h)
  <2>1. CASE g = h
    BY <1>0, <1>2, <2>1 DEF Receive, Take, Opened
  <2>2. CASE g # h
    BY <1>0, <1>2, <2>2 DEF Receive, Take, Unmoved
  <2> QED BY <2>1, <2>2
<1>3. ASSUME Crash PROVE Emptied(h)
  BY <1>0, <1>3 DEF Crash, Emptied, Active
<1>4. ASSUME ConsoleAdd \/ ConsoleRemove \/ ConsoleEdit PROVE Unmoved(h)
  BY <1>4 DEF ConsoleAdd, ConsoleRemove, ConsoleEdit, ConsoleStep, handlerVars, Unmoved
<1>5. CASE UNCHANGED vars
  BY <1>5 DEF vars, handlerVars, Unmoved
<1>6. ASSUME HandlerStep(h)
      PROVE  \/ Emptied(h)
             \/ ListDomains(h) \/ ListRecords(h) \/ Plan(h) \/ Started(h) \/ Struck(h) \/ Retried(h)
  <2>1. CASE StartCall(h)
    BY <1>0, <2>1 DEF StartCall, Started
  <2>2. CASE Succeed(h) \/ Throttled(h)
    BY <2>2, <1>a DEF Succeed, Throttled
  <2>3. CASE Answered(h)
    <3>1. pc[h] = "call" /\ Done(h) /\ Execute(job[h]) /\ hit'[h] = hit[h]
      BY <2>3 DEF Answered, Serve
    <3> QED BY <1>0, <1>c, <1>d, <3>1 DEF Struck
  <2>4. CASE Refused(h)
    <3>1. pc[h] = "call" /\ live' = live /\ hit'[h] = hit[h]
      BY <2>4 DEF Refused
    <3>2. Again(h) \/ (job[h].op = "create" /\ Done(h)) \/ End(h, "failed")
      BY <2>4 DEF Refused
    <3> QED BY <1>a, <1>b, <1>c, <3>1, <3>2 DEF Struck, Retried
  <2>5. CASE AnswerLost(h)
    <3>1. /\ pc[h] = "call" /\ Execute(job[h]) /\ (Again(h) \/ End(h, "failed"))
          /\ hit' = [hit EXCEPT ![h] = @ \/ (job[h].op = "delete" \/ LastAttempt(h))]
      BY <2>5 DEF AnswerLost, Serve, Fault
    <3>2. hit'[h] = (hit[h] \/ job[h].op = "delete" \/ LastAttempt(h)) /\ hit[h] \in BOOLEAN
      BY <1>0, <3>1, Zenon
    <3>3. hit'[h] \/ (hit'[h] = hit[h] /\ job[h].op # "delete")
      BY <3>2, Zenon
    <3>4. hit'[h] \/ (hit'[h] = hit[h] /\ live \subseteq live')
      BY <1>d, <3>1, <3>3
    <3> QED BY <1>a, <1>b, <3>1, <3>4 DEF Retried
  <2>6. CASE NotExecuted(h)
    <3>1. /\ live' = live /\ (Again(h) \/ End(h, "failed"))
          /\ hit' = [hit EXCEPT ![h] = @ \/ LastAttempt(h)]
      BY <2>6 DEF NotExecuted, Fault
    <3>2. hit'[h] = (hit[h] \/ LastAttempt(h)) /\ hit[h] \in BOOLEAN
      BY <1>0, <3>1, Zenon
    <3>3. hit'[h] \/ hit'[h] = hit[h]
      BY <3>2, Zenon
    <3> QED BY <1>a, <1>b, <3>1, <3>3 DEF Retried
  <2> QED BY <1>6, <2>1, <2>2, <2>3, <2>4, <2>5, <2>6 DEF HandlerStep
<1>7. "others" # h
  BY HandlersAssumption
<1> QED
  BY <1>1, <1>2, <1>3, <1>4, <1>5, <1>6, <1>7 DEF Next, Step, Environment

\* What is accounted for stays so when nothing is removed,
LEMMA StaysAccounted ==
  ASSUME NEW h, NEW s, Accounted(h, s), live \subseteq live', foreign'[h] = foreign[h]
  PROVE  Accounted(h, s)'
  BY DEF Accounted

\* and when others act, whose slots are remembered.
LEMMA OthersAreNoted ==
  ASSUME CauseInv, NEW h \in Handlers, Active(h), Active(h)', NEW by, by # h, Recorded(by),
         NEW s \in snap[h], Accounted(h, s)
  PROVE  Accounted(h, s)'
<1>1. foreign'[h] = foreign[h] \cup Slots((live \ live') \cup (live' \ live))
  BY DEF Recorded
<1>2. CASE Slot(Entry(s)) \in foreign[h]
  BY <1>1, <1>2 DEF Accounted
<1>3. ASSUME NEW r \in live, r.id = s.id PROVE Accounted(h, s)'
  <2>1. CASE r \in live'
    BY <1>3, <2>1 DEF Accounted
  <2>2. CASE r \notin live'
    <3>1. r.zone = s.zone /\ r.sub = s.sub /\ r.type = s.type
      BY <1>3 DEF CauseInv, SnapshotsPlace
    <3>2. Slot(Entry(r)) = Slot(Entry(s))
      BY <3>1 DEF Slot, Entry
    <3>3. Slot(Entry(r)) \in Slots((live \ live') \cup (live' \ live))
      BY <2>2 DEF Slots
    <3> QED BY <1>1, <3>2, <3>3 DEF Accounted
  <2> QED BY <2>1, <2>2
<1> QED BY <1>2, <1>3 DEF Accounted

\* What a handler does to its history.
LEMMA OwnHistory ==
  ASSUME NEW h \in Handlers, Recorded(h), Active(h)'
  PROVE  foreign'[h] = foreign[h]
  BY DEF Recorded

\* Records are listed once.
LEMMA NextOnce ==
  ASSUME CauseInv, [Next]_vars, NEW h \in Handlers
  PROVE  OnceAt(h)'
<1>0. /\ OnceAt(h) /\ SnapshotsPlace /\ TypeOK
      /\ snap \in [Handlers -> SUBSET Record] /\ unread \in [Handlers -> SUBSET DomainFilter]
      /\ pc \in [Handlers -> PcValues]
  BY DEF CauseInv, SInv, TypeOK
<1>1. CASE Unmoved(h)
  BY <1>0, <1>1 DEF Unmoved, OnceAt
<1>2. CASE Opened(h) \/ Emptied(h)
  BY <1>2 DEF Opened, Emptied, OnceAt
<1>3. CASE ListDomains(h)
  BY <1>0, <1>3 DEF ListDomains, OnceAt
<1>4. CASE ListRecords(h)
  <2>1. PICK z \in unread[h] :
          /\ unread'[h] = unread[h] \ {z}
          /\ snap'[h] = snap[h] \cup {Listed(r) : r \in {r \in live : r.zone = z /\ ~IsSpecial(r)}}
    BY <1>0, <1>4 DEF ListRecords
  <2>2. pc[h] = "records" /\ pc'[h] = "records"
    BY <1>4 DEF ListRecords
  <2>3. ASSUME NEW s \in snap'[h]
        PROVE  \/ s \in snap[h] /\ s.zone \notin unread[h]
               \/ \E r \in live : s = Listed(r) /\ s.id = r.id /\ s.zone = z /\ r.zone = z
    <3>1. CASE s \in snap[h]
      BY <1>0, <2>2, <3>1 DEF OnceAt
    <3>2. ASSUME NEW r \in live, r.zone = z, s = Listed(r)
          PROVE  s = Listed(r) /\ s.id = r.id /\ s.zone = z /\ r.zone = z
      BY <1>0, <3>2, ListedProperties DEF TypeOK
    <3> QED BY <2>1, <3>1, <3>2
  <2>4. ASSUME NEW s \in snap'[h], NEW t \in snap'[h], s.id = t.id PROVE s = t
    <3>1. ASSUME NEW a \in snap[h], a.zone \notin unread[h], NEW r \in live, r.zone = z
          PROVE  a.id # r.id
      BY <1>0, <3>1 DEF SnapshotsPlace
    <3>2. \A q, r \in live : q.id = r.id => q = r
      BY <1>0 DEF TypeOK
    <3>3. \A a, b \in snap[h] : a.id = b.id => a = b
      BY <1>0 DEF OnceAt
    <3> QED BY <2>3, <2>4, <3>1, <3>2, <3>3
  <2> QED BY <2>1, <2>2, <2>3, <2>4 DEF OnceAt
<1>5. CASE Plan(h)
  BY <1>0, <1>5 DEF Plan, OnceAt
<1>6. CASE Started(h) \/ Struck(h) \/ Retried(h)
  BY <1>0, <1>6 DEF Started, Struck, Retried, OnceAt
<1> QED
  BY <1>1, <1>2, <1>3, <1>4, <1>5, <1>6, CauseMoves

\* Calls stay different.
LEMMA NextDiffer ==
  ASSUME CauseInv, [Next]_vars, NEW h \in Handlers
  PROVE  DifferAt(h)'
<1>0. /\ DifferAt(h) /\ OnceAt(h) /\ SnapshotsListed
      /\ snap \in [Handlers -> SUBSET Record] /\ todo \in [Handlers -> SUBSET Job]
      /\ Active(h) => req[h] \in Requests
  BY DEF CauseInv, SInv, TypeOK
<1>1. CASE Opened(h) \/ Emptied(h)
  BY <1>1 DEF Opened, Emptied, DifferAt
<1>2. ASSUME req'[h] = req[h], todo'[h] \subseteq todo[h] PROVE DifferAt(h)'
  BY <1>0, <1>2 DEF DifferAt
<1>3. CASE Plan(h)
  <2>1. /\ req'[h] = req[h] /\ req[h] \in Requests
        /\ todo'[h] = DeletesIn(req[h], snap[h]) \cup CreatesIn(req[h])
    BY <1>0, <1>3 DEF Plan, Active
  <2>2. \A j \in CreatesIn(req[h]) : j.op = "create"
    BY <2>1, CreatesType, RequestsType
  <2>3. ASSUME ~RemovedTwice(req[h]),
               NEW i \in DeletesIn(req[h], snap[h]), NEW j \in DeletesIn(req[h], snap[h]),
               i.rec.id = j.rec.id
        PROVE  i = j
    <3>1. \A r \in snap[h] : Listed(r) = r /\ ~IsSpecial(r)
      BY <1>0 DEF SnapshotsListed
    <3>2. snap[h] \in SUBSET Record
      BY <1>0
    <3>3. \A r, s \in snap[h] : r.id = s.id => r = s
      BY <1>0 DEF OnceAt
    <3> QED BY <2>1, <2>3, <3>1, <3>2, <3>3, DeletesDiffer, RequestsType
  <2> QED BY <2>1, <2>2, <2>3 DEF DifferAt
<1>4. CASE ListDomains(h) \/ ListRecords(h)
  BY <1>4, <1>2 DEF ListDomains, ListRecords
<1> QED
  BY <1>1, <1>2, <1>3, <1>4, CauseMoves DEF Unmoved, Started, Struck, Retried

\* Every id on its way to a call stays accounted for.
LEMMA NextExplained ==
  ASSUME CauseInv, [Next]_vars, NEW h \in Handlers
  PROVE  ExplainedAt(h)'
<1>0. /\ ExplainedAt(h) /\ OnceAt(h) /\ DifferAt(h) /\ TypeOK /\ DeletesAsked
      /\ hit \in [Handlers -> BOOLEAN] /\ pc \in [Handlers -> PcValues]
      /\ snap \in [Handlers -> SUBSET Record] /\ todo \in [Handlers -> SUBSET Job]
      /\ ~Active(h) => snap[h] = {} /\ todo[h] = {}
      /\ Active(h) => req[h] \in Requests
  BY DEF CauseInv, SInv, TypeOK
<1>1. CASE Opened(h) \/ Emptied(h)
  BY <1>1 DEF Opened, Emptied, ExplainedAt, Active
<1>2. CASE Unmoved(h) /\ UNCHANGED vars
  BY <1>0, <1>2 DEF Unmoved, vars, ExplainedAt, Accounted
<1>3. ASSUME Unmoved(h), NEW by, by # h, Recorded(by) PROVE ExplainedAt(h)'
  <2>1. CASE ~Active(h)
    BY <1>0, <1>3, <2>1 DEF Unmoved, ExplainedAt
  <2>2. CASE Active(h)
    <3>1. Active(h)'
      BY <1>3, <2>2 DEF Unmoved, Active
    <3>2. \A s \in snap[h] : Accounted(h, s) => Accounted(h, s)'
      BY <1>3, <2>2, <3>1, OthersAreNoted
    <3>3. \A j \in todo[h] : j.op = "delete" => j.rec \in snap[h]
      BY <1>0 DEF DeletesAsked
    <3> QED BY <1>0, <1>3, <3>2, <3>3 DEF Unmoved, ExplainedAt
  <2> QED BY <2>1, <2>2
<1>4. CASE ListDomains(h)
  <2>1. /\ snap[h] = {} /\ snap'[h] = snap[h] /\ todo'[h] = todo[h] /\ req'[h] = req[h]
        /\ hit'[h] = hit[h]
    BY <1>0, <1>4 DEF ListDomains, OnceAt
  <2>2. \A j \in todo[h] : j.op # "delete"
    BY <1>0, <2>1 DEF DeletesAsked
  <2> QED BY <2>1, <2>2 DEF ExplainedAt
<1>5. ASSUME ListRecords(h), Recorded(h) PROVE ExplainedAt(h)'
  <2>1. /\ pc[h] = "records" /\ pc'[h] = "records" /\ live' = live /\ hit'[h] = hit[h]
        /\ todo'[h] = todo[h] /\ req'[h] = req[h]
    BY <1>5 DEF ListRecords
  <2>2. foreign'[h] = foreign[h]
    BY <1>5, <2>1, OwnHistory DEF Active
  <2>3. \A s : Accounted(h, s) => Accounted(h, s)'
    BY <2>1, <2>2, StaysAccounted
  <2>4. ASSUME NEW s \in snap'[h] PROVE s \in snap[h] \/ Accounted(h, s)'
    <3>1. s \in snap[h] \/ \E r \in live : s = Listed(r)
      BY <1>0, <1>5, ListRecordsAdds, TypeIsSound
    <3>2. ASSUME NEW r \in live, s = Listed(r) PROVE Accounted(h, s)'
      BY <1>0, <2>1, <3>2, ListedProperties DEF TypeOK, Accounted
    <3> QED BY <3>1, <3>2
  <2> QED BY <1>0, <2>1, <2>3, <2>4 DEF ExplainedAt
<1>6. ASSUME Plan(h), Recorded(h) PROVE ExplainedAt(h)'
  <2>1. /\ pc[h] = "records" /\ pc'[h] = "apply" /\ live' = live /\ hit'[h] = hit[h]
        /\ req'[h] = req[h] /\ req[h] \in Requests
        /\ todo'[h] = DeletesIn(req[h], snap[h]) \cup CreatesIn(req[h])
    BY <1>0, <1>6 DEF Plan, Active
  <2>2. foreign'[h] = foreign[h]
    BY <1>6, <2>1, OwnHistory DEF Active
  <2>3. \A s : Accounted(h, s) => Accounted(h, s)'
    BY <2>1, <2>2, StaysAccounted
  <2>4. \A j \in todo'[h] : j.op = "delete" => j.rec \in snap[h]
    BY <1>0, <2>1, DeletesType, CreatesType, RequestsType
  <2> QED BY <1>0, <2>1, <2>3, <2>4 DEF ExplainedAt
<1>7. ASSUME Started(h), Recorded(h) PROVE ExplainedAt(h)'
  <2>1. foreign'[h] = foreign[h]
    BY <1>7, OwnHistory DEF Started, Active
  <2>2. \A s : Accounted(h, s) => Accounted(h, s)'
    BY <1>7, <2>1, StaysAccounted DEF Started
  <2> QED BY <1>0, <1>7, <2>2 DEF Started, ExplainedAt
<1>8. ASSUME Struck(h), Recorded(h) PROVE ExplainedAt(h)'
  <2>1. foreign'[h] = foreign[h]
    BY <1>8, OwnHistory DEF Struck, Active
  <2>2. CASE live \subseteq live'
    <3>1. \A s : Accounted(h, s) => Accounted(h, s)'
      BY <2>1, <2>2, StaysAccounted
    <3> QED BY <1>0, <1>8, <3>1 DEF Struck, ExplainedAt
  <2>3. CASE job[h].op = "delete" /\ live' = {r \in live : r.id # job[h].rec.id}
    <3>1. ASSUME ~RemovedTwice(req[h]), NEW j \in todo'[h], j.op = "delete", Accounted(h, j.rec)
          PROVE  Accounted(h, j.rec)'
      <4>1. j \in todo[h] /\ j # job[h] /\ job[h] \in todo[h]
        BY <1>8, <3>1 DEF Struck
      <4>2. j.rec.id # job[h].rec.id
        BY <1>0, <2>3, <3>1, <4>1 DEF DifferAt
      <4> QED BY <2>1, <2>3, <3>1, <4>2 DEF Accounted
    <3> QED BY <1>0, <1>8, <3>1 DEF Struck, ExplainedAt
  <2> QED BY <1>8, <2>2, <2>3 DEF Struck
<1>9. ASSUME Retried(h), Recorded(h) PROVE ExplainedAt(h)'
  <2>1. CASE hit'[h]
    BY <2>1 DEF ExplainedAt
  <2>2. CASE hit'[h] = hit[h] /\ live \subseteq live'
    <3>1. CASE Active(h)
      <4>1. foreign'[h] = foreign[h]
        BY <1>9, <3>1, OwnHistory DEF Retried, Active
      <4>2. \A s : Accounted(h, s) => Accounted(h, s)'
        BY <2>2, <4>1, StaysAccounted
      <4> QED BY <1>0, <1>9, <2>2, <4>2 DEF Retried, ExplainedAt
    <3>2. CASE ~Active(h)
      BY <1>0, <1>9, <3>2 DEF Retried, ExplainedAt
    <3> QED BY <3>1, <3>2
  <2> QED BY <1>9, <2>1, <2>2 DEF Retried
<1> QED
  BY <1>1, <1>2, <1>3, <1>4, <1>5, <1>6, <1>7, <1>8, <1>9, CauseMoves

\* Every step keeps the account of ids.
LEMMA NextCauseInv == CauseInv /\ [Next]_vars => CauseInv'
<1> SUFFICES ASSUME CauseInv, [Next]_vars PROVE CauseInv'
  OBVIOUS
<1>1. TypeOK' /\ SInv' /\ SnapshotsPlace'
  BY NextTypeOK, MoveSInv, NextMoves, NextSnapshotsPlace DEF CauseInv
<1>2. ASSUME NEW h \in Handlers PROVE (OnceAt(h) /\ DifferAt(h) /\ ExplainedAt(h))'
  BY NextOnce, NextDiffer, NextExplained
<1>3. hit' \in [Handlers -> BOOLEAN]
  <2>0. hit \in [Handlers -> BOOLEAN]
    BY DEF CauseInv
  <2>1. ASSUME NEW h \in Handlers, NEW final \in BOOLEAN, Fault(h, final)
        PROVE  hit' \in [Handlers -> BOOLEAN]
    BY <2>0, <2>1 DEF Fault
  <2>2. ASSUME NEW h \in Handlers, AnswerLost(h) \/ NotExecuted(h) \/ Throttled(h)
        PROVE  hit' \in [Handlers -> BOOLEAN]
    <3>1. LastAttempt(h) \in BOOLEAN /\ (job[h].op = "delete" \/ LastAttempt(h)) \in BOOLEAN
      BY DEF LastAttempt
    <3> QED BY <2>1, <2>2, <3>1 DEF AnswerLost, NotExecuted, Throttled
  <2>3. ASSUME NEW h \in Handlers, NEW changes \in Requests, Receive(h, changes)
        PROVE  hit' \in [Handlers -> BOOLEAN]
    BY <2>0, <2>3 DEF Receive, Take
  <2>4. CASE Crash
    BY <2>0, <2>4 DEF Crash, Active
  <2> QED
    BY <2>0, <2>2, <2>3, <2>4
    DEF Next, Step, HandlerStep, Environment, ListDomains, ListRecords, Plan, StartCall,
        Succeed, Answered, Refused, ConsoleAdd, ConsoleRemove, ConsoleEdit, ConsoleStep, vars
<1> QED
  BY <1>1, <1>2, <1>3 DEF CauseInv

\* A handler that fails is hit, or was making a delete that is refused.
LEMMA FailureIs ==
  ASSUME CauseInv, [Next]_vars, NEW h \in Handlers, Active(h), pc'[h] = "failed"
  PROVE  hit'[h] \/ (pc[h] = "call" /\ job[h].op = "delete" /\ ~Accepted(job[h])
                      /\ hit'[h] = hit[h])
<1>0. /\ pc \in [Handlers -> PcValues] /\ hit \in [Handlers -> BOOLEAN]
      /\ pc[h] # "failed"
  BY DEF CauseInv, SInv, TypeOK, Active
<1>1. ASSUME NEW g \in Handlers, HandlerStep(g), g # h PROVE FALSE
  BY <1>0, <1>1
  DEF HandlerStep, ListDomains, ListRecords, Plan, StartCall, Succeed, Answered, Refused,
      AnswerLost, NotExecuted, Throttled, Again, Done, End
<1>2. ASSUME NEW g \in Handlers, NEW changes \in Requests, Receive(g, changes) PROVE FALSE
  BY <1>0, <1>2 DEF Receive, Take
<1>3. ASSUME Crash PROVE hit'[h]
  <2>1. hit'[h] = (hit[h] \/ Active(h))
    BY <1>3 DEF Crash
  <2> QED BY <2>1
<1>4. ASSUME ConsoleAdd \/ ConsoleRemove \/ ConsoleEdit PROVE FALSE
  BY <1>0, <1>4 DEF ConsoleAdd, ConsoleRemove, ConsoleEdit, ConsoleStep, handlerVars
<1>5. CASE UNCHANGED vars
  BY <1>0, <1>5 DEF vars, handlerVars
<1>6. ASSUME ListDomains(h) \/ ListRecords(h) \/ Plan(h) \/ StartCall(h) \/ Succeed(h) \/ Answered(h)
      PROVE  FALSE
  BY <1>0, <1>6 DEF ListDomains, ListRecords, Plan, StartCall, Succeed, Answered, Done, End
<1>7. ASSUME Refused(h)
      PROVE  pc[h] = "call" /\ job[h].op = "delete" /\ ~Accepted(job[h]) /\ hit'[h] = hit[h]
  <2>1. ~Again(h) /\ ~Done(h)
    BY <1>0 DEF Again, Done, Active
  <2> QED BY <1>7, <2>1 DEF Refused
<1>8. ASSUME AnswerLost(h) \/ NotExecuted(h) PROVE hit'[h]
  <2>1. ~Again(h)
    BY <1>0 DEF Again
  <2>2. LastAttempt(h)
    BY <1>8, <2>1 DEF AnswerLost, NotExecuted
  <2>3. \/ hit' = [hit EXCEPT ![h] = @ \/ (job[h].op = "delete" \/ LastAttempt(h))]
        \/ hit' = [hit EXCEPT ![h] = @ \/ LastAttempt(h)]
    BY <1>8 DEF AnswerLost, NotExecuted, Fault
  <2>4. hit'[h] = (hit[h] \/ (job[h].op = "delete" \/ LastAttempt(h)))
        \/ hit'[h] = (hit[h] \/ LastAttempt(h))
    BY <1>0, <2>3, Zenon
  <2> QED BY <2>2, <2>4, Zenon
<1>9. ASSUME Throttled(h) PROVE hit'[h]
  <2>1. hit' = [hit EXCEPT ![h] = @ \/ TRUE]
    BY <1>9 DEF Throttled, Fault
  <2> QED BY <1>0, <2>1
<1> QED
  BY <1>1, <1>2, <1>3, <1>4, <1>5, <1>6, <1>7, <1>8, <1>9
  DEF Next, Step, HandlerStep, Environment

\* Changes never fail without a cause, whatever accounts, requests, handlers and users
\* there are: a request that is not hit by a fault, and asks for the removal of no
\* record twice, fails only beside others who work on a name and type it is to remove.
THEOREM FailureHasCause == Spec => FailsOnlyForACause
<1>1. CauseInv /\ [Next]_vars =>
        [\A h \in Handlers : Active(h) /\ pc'[h] = "failed" =>
           \/ hit'[h]
           \/ RemovedTwice(req[h])
           \/ \E ep \in ToRemove(req[h]) : <<ep.name, ep.type>> \in foreign[h]]_vars
  <2> SUFFICES ASSUME CauseInv, [Next]_vars, NEW h \in Handlers, Active(h), pc'[h] = "failed",
                      ~hit'[h], ~RemovedTwice(req[h])
               PROVE  \E ep \in ToRemove(req[h]) : <<ep.name, ep.type>> \in foreign[h]
    OBVIOUS
  <2>1. pc[h] = "call" /\ job[h].op = "delete" /\ ~Accepted(job[h]) /\ ~hit[h]
    BY FailureIs
  <2>2. job[h] \in todo[h] /\ job[h].rec \in snap[h] /\ AskedToRemove(req[h], Entry(job[h].rec))
    BY <2>1 DEF CauseInv, SInv, TypeOK, DeletesAsked
  <2>3. Accounted(h, job[h].rec)
    BY <2>1, <2>2 DEF CauseInv, ExplainedAt
  <2>4. Slot(Entry(job[h].rec)) \in foreign[h]
    BY <2>1, <2>3 DEF Accounted, Accepted
  <2>5. PICK ep \in ToRemove(req[h]) :
          Entry(job[h].rec).name = ep.name /\ Entry(job[h].rec).type = ep.type
    BY <2>2 DEF AskedToRemove
  <2>6. <<ep.name, ep.type>> \in foreign[h]
    BY <2>4, <2>5 DEF Slot
  <2> QED BY <2>6
<1> QED
  BY <1>1, InitCauseInv, NextCauseInv, PTL DEF Spec, FailsOnlyForACause
=============================================================================
