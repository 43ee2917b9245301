------------------------- MODULE PrivateSync_proofs -------------------------
(***************************************************************************)
(* Private zones, for any account, zones, requests and any number of       *)
(* handlers, faults, crashes and console users.                            *)
(*                                                                         *)
(* First ApplyChanges (PrivateApply): type correctness, what it removes    *)
(* and in which order, that it never empties a zone, that it leaves the    *)
(* rest of the account alone, what a 204 is worth, and why else it may     *)
(* fail.  Then the closed loop (PrivateSync), for any wishes: what GET     *)
(* /records answers, and what the loop may remove.                         *)
(***************************************************************************)
EXTENDS PrivateSync, DnsNames_proofs, FiniteSetTheorems

-----------------------------------------------------------------------------
(* Endpoints and changes as sets.                                            *)

Endpoint ==
  {ep \in [name : Name, type : STRING, targets : Seq(Value), setId : STRING,
           props : UNION {[P -> STRING] : P \in SUBSET {"weight", "remark"}}] : IsEndpoint(ep)}
Change == [create : Seq(Endpoint), updateOld : Seq(Endpoint), updateNew : Seq(Endpoint),
           delete : Seq(Endpoint)]

\* An endpoint is an element of the one,
LEMMA EndpointType ==
  ASSUME NEW ep
  PROVE  ep \in Endpoint <=> IsEndpoint(ep)
<1>1. ASSUME IsEndpoint(ep) PROVE ep \in Endpoint
  <2>1. PICK P \in SUBSET {"weight", "remark"} : ep.props \in [P -> STRING]
    BY <1>1 DEF IsEndpoint
  <2>2. ep.props \in UNION {[Q -> STRING] : Q \in SUBSET {"weight", "remark"}}
    BY <2>1
  <2>3. ep \in [name : Name, type : STRING, targets : Seq(Value), setId : STRING,
                props : UNION {[Q -> STRING] : Q \in SUBSET {"weight", "remark"}}]
    BY <1>1, <2>2 DEF IsEndpoint
  <2> QED BY <1>1, <2>3 DEF Endpoint
<1> QED BY <1>1 DEF Endpoint

\* and a request is one of the other.
LEMMA RequestsType == Requests \subseteq Change
<1> SUFFICES ASSUME NEW changes \in Requests PROVE changes \in Change
  OBVIOUS
<1> DEFINE eps == ToRemove(changes) \cup ToAdd(changes)
<1>1. /\ changes \in [create : Seq(eps), updateOld : Seq(eps), updateNew : Seq(eps),
                       delete : Seq(eps)]
      /\ eps \subseteq Endpoint
  BY RequestsAssumption, EndpointType DEF IsChange
<1>2. ASSUME NEW s \in Seq(eps) PROVE s \in Seq(Endpoint)
  BY <1>1, SeqDef
<1> HIDE DEF eps
<1> QED BY <1>1, <1>2 DEF Change
-----------------------------------------------------------------------------
(* Records and the calls computed from them.                                 *)

\* Listing a record changes how its value is written and nothing else; a user
\* sees the same entry either way.
LEMMA ListedProperties ==
  ASSUME NEW r \in Record
  PROVE  /\ Listed(r) \in Record
         /\ Listed(r).id = r.id
         /\ Listed(r).zone = r.zone
         /\ Listed(Listed(r)) = Listed(r)
         /\ Entry(Listed(r)) = Entry(r)
  BY DEF Listed, Record, Value, Entry

\* Nor does it make a base record or hide one.
LEMMA ListedBase ==
  ASSUME NEW r \in Record
  PROVE  IsBase(Listed(r)) <=> IsBase(r)
<1>1. CASE r.type = "TXT" /\ r.value.text \in Heritage
  <2>1. Listed(r).value.text = r.value.text
    BY <1>1 DEF Listed, Record, Value
  <2>2. r.value.text # BaseText
    BY <1>1, ValuesAssumption
  <2> QED BY <2>1, <2>2 DEF IsBase
<1>2. CASE ~(r.type = "TXT" /\ r.value.text \in Heritage)
  BY <1>2 DEF Listed
<1> QED BY <1>1, <1>2

\* A record is the same to a user whatever id it is given.
LEMMA EntryOfNew ==
  ASSUME NEW r \in Record, NEW n \in Nat
  PROVE  /\ [r EXCEPT !.id = n] \in Record
         /\ [r EXCEPT !.id = n].id = n
         /\ [r EXCEPT !.id = n].zone = r.zone
         /\ Entry([r EXCEPT !.id = n]) = Entry(r)
         /\ IsBase([r EXCEPT !.id = n]) <=> IsBase(r)
         /\ \A s : SameRecord(s, [r EXCEPT !.id = n]) <=> SameRecord(s, r)
  BY DEF Record, Entry, Listed, SameRecord, IsBase

\* The base record of a zone is a record of it.
LEMMA BaseRecordType ==
  ASSUME NEW z \in ZoneFilter
  PROVE  /\ BaseRecord(z) \in Record /\ BaseRecord(z).zone = z
         /\ IsBase(BaseRecord(z)) /\ Entry(BaseRecord(z)) \in Bases
<1>1. <<>> \in Name /\ {} \in SUBSET Nat /\ 0 \in Nat
  BY DEF Name
<1>2. "TXT" \in STRING /\ "" \in STRING /\ BaseText \in STRING
  BY ValuesAssumption
<1>3. z \in DOMAIN Zones
  BY ZonesAssumption
<1> QED
  BY <1>1, <1>2, <1>3 DEF BaseRecord, Record, Value, IsBase, Bases

\* A record made for a target of an endpoint is a record.
LEMMA NewRecordType ==
  ASSUME NEW ep \in Endpoint, NEW z \in ZoneFilter, NEW k \in DOMAIN ep.targets
  PROVE  NewRecord(ep, z, k) \in Record /\ NewRecord(ep, z, k).zone = z
<1>1. IsEndpoint(ep)
  BY EndpointType
<1>2. z \in DOMAIN Zones /\ SubDomain(Zones[z], ep.name) \in Name
  BY <1>1, ZonesAssumption, SubDomainType DEF IsEndpoint
<1>3. ep.targets[k] \in Value
  BY <1>1, LenProperties, ElementOfSeq DEF IsEndpoint
<1>4. Stripped(ep.type, ep.targets[k]) \in Value
  BY <1>3 DEF Stripped, Value
<1>5. ASSUME NEW p \in DOMAIN ep.props PROVE ep.props[p] \in STRING
  BY <1>1 DEF IsEndpoint
<1>6. (IF "weight" \in DOMAIN ep.props /\ ep.props["weight"] \in DOMAIN ParseInt
       THEN {ParseInt[ep.props["weight"]]} ELSE {}) \in SUBSET Nat
  BY ValuesAssumption
<1>7. (IF "remark" \in DOMAIN ep.props THEN ep.props["remark"] ELSE "") \in STRING
  <2>1. "" \in STRING
    BY ValuesAssumption
  <2> QED BY <1>5, <2>1
<1>8. ep.type \in STRING
  BY <1>1 DEF IsEndpoint
<1> QED
  BY <1>2, <1>4, <1>6, <1>7, <1>8 DEF NewRecord, Record

\* The loops of ApplyChanges visit the endpoints asked for, and all of them.
LEMMA RequestProperties ==
  ASSUME NEW changes \in Change
  PROVE  /\ ToRemove(changes) \subseteq Endpoint
         /\ \A i \in DOMAIN Creations(changes) :
              /\ i \in Nat
              /\ Creations(changes)[i] \in Endpoint
              /\ Creations(changes)[i] \in ToAdd(changes)
         /\ \A ep \in ToAdd(changes) :
              \E i \in DOMAIN Creations(changes) : Creations(changes)[i] = ep
         /\ \A i \in DOMAIN Removals(changes) : Removals(changes)[i] \in Endpoint
<1>1. /\ changes.create \in Seq(Endpoint) /\ changes.updateOld \in Seq(Endpoint)
      /\ changes.updateNew \in Seq(Endpoint) /\ changes.delete \in Seq(Endpoint)
  BY DEF Change
<1>2. Creations(changes) = changes.create \o changes.updateNew
  BY DEF Creations
<1>3. Creations(changes) \in Seq(Endpoint)
  BY <1>1, <1>2, ElementsOfConcat
<1>4. ASSUME NEW seq PROVE Elements(seq) = Endpoints(seq)
  BY DEF Elements, Endpoints
<1>5. Elements(Creations(changes)) = Elements(changes.create) \cup Elements(changes.updateNew)
  BY <1>1, <1>2, ElementsOfConcat
<1>6. Endpoints(Creations(changes)) = ToAdd(changes)
  BY <1>4, <1>5 DEF ToAdd
<1>7. ToRemove(changes) \subseteq Endpoint
  BY <1>1, PlacesOfSeq DEF ToRemove, Endpoints
<1>8. Removals(changes) \in Seq(Endpoint)
  BY <1>1, ElementsOfConcat DEF Removals
<1>9. \A i \in DOMAIN Removals(changes) : Removals(changes)[i] \in Endpoint
  BY <1>8, PlacesOfSeq
<1> QED
  BY <1>3, <1>6, <1>7, <1>9, PlacesOfSeq DEF Endpoints

\* FindZone on the managed zones answers with a managed zone that covers the name.
LEMMA ZoneFound ==
  ASSUME NEW name, NEW z \in FindZone(Managed, name)
  PROVE  z \in ZoneFilter /\ Covers(Zones[z], name) /\ Zones[z] \in Name
  BY ZonesAssumption DEF FindZone, Managed

\* A record that matches an endpoint in the zone of its name is one a user would
\* say the endpoint asks to remove, and the other way round.
LEMMA MatchIsEntry ==
  ASSUME NEW ep \in Endpoint, NEW r \in Record, r.zone \in FindZone(Managed, ep.name),
         Listed(r) = r
  PROVE  Matches(ep, r) <=>
           /\ Entry(r).name = ep.name /\ Entry(r).type = ep.type
           /\ \E k \in DOMAIN ep.targets : Entry(r).value = ep.targets[k]
<1>1. /\ Entry(r).name = DnsDomain(r.sub, Zones[r.zone]) /\ Entry(r).type = r.type
      /\ Entry(r).value = r.value /\ Entry(r).zone = r.zone
  BY DEF Entry
<1>2. /\ ep.name \in Name /\ r.sub \in Name /\ Zones[r.zone] \in Name
      /\ Covers(Zones[r.zone], ep.name)
  BY EndpointType, ZoneFound DEF IsEndpoint, Record
<1>3. r.sub = SubDomain(Zones[r.zone], ep.name) <=> Entry(r).name = ep.name
  BY <1>1, <1>2, SubDomainJoins, SubDomainOfJoin
<1> QED
  BY <1>1, <1>3 DEF Matches

\* The ids of a delete call are those of the listed records that are asked to be
\* removed, all of them.
LEMMA DoomedIsAsked ==
  ASSUME NEW changes \in Change, NEW S \in SUBSET Record,
         NEW r \in S, Listed(r) = r, NEW z
  PROVE  r \in DoomedIn(z, changes, S) <=> r.zone = z /\ AskedToRemove(changes, Entry(r))
<1>1. Entry(r).zone = r.zone /\ r \in Record
  BY DEF Entry
<1>2. ASSUME NEW ep \in ToRemove(changes), r.zone \in FindZone(Managed, ep.name)
      PROVE  Matches(ep, r) <=>
               /\ Entry(r).name = ep.name /\ Entry(r).type = ep.type
               /\ \E k \in DOMAIN ep.targets : Entry(r).value = ep.targets[k]
  BY <1>1, <1>2, RequestProperties, MatchIsEntry
<1> QED
  BY <1>1, <1>2 DEF DoomedIn, AskedToRemove

\* A call for a base record.
LEMMA BasesType ==
  ASSUME NEW S, NEW j \in BasesFor(S)
  PROVE  /\ j \in Job /\ j.op = "base" /\ j.recs = {BaseRecord(j.zone)}
         /\ ~\E r \in S : r.zone = j.zone /\ IsBase(r)
<1>1. PICK z \in ZoneFilter : /\ ~\E r \in S : r.zone = z /\ IsBase(r)
                              /\ j = Call("base", z, 0, 0, {BaseRecord(z)}, {})
  BY DEF BasesFor
<1>2. BaseRecord(z) \in Record
  BY BaseRecordType
<1> QED
  BY <1>1, <1>2 DEF Call, Job

\* An id is in a delete call twice only if the changes ask to remove its record
\* twice.
LEMMA DoomedTwiceMeans ==
  ASSUME NEW changes \in Change, NEW S \in SUBSET Record, \A r \in S : Listed(r) = r,
         NEW z, DoomedTwiceIn(z, changes, S) # {}
  PROVE  RemovedTwice(changes)
<1> DEFINE eps == Removals(changes)
<1>1. PICK r \in DoomedIn(z, changes, S) :
        \E i, j \in DOMAIN eps : \E k \in DOMAIN eps[i].targets, l \in DOMAIN eps[j].targets :
          /\ <<i, k>> # <<j, l>>
          /\ \A ep \in {eps[i], eps[j]} : z \in FindZone(Managed, ep.name) /\ Matches(ep, r)
          /\ r.value = eps[i].targets[k] /\ r.value = eps[j].targets[l]
  BY DEF DoomedTwiceIn
<1>2. PICK i \in DOMAIN eps, j \in DOMAIN eps :
        \E k \in DOMAIN eps[i].targets, l \in DOMAIN eps[j].targets :
          /\ <<i, k>> # <<j, l>>
          /\ \A ep \in {eps[i], eps[j]} : z \in FindZone(Managed, ep.name) /\ Matches(ep, r)
          /\ r.value = eps[i].targets[k] /\ r.value = eps[j].targets[l]
  BY <1>1
<1>3. PICK k \in DOMAIN eps[i].targets, l \in DOMAIN eps[j].targets :
        /\ <<i, k>> # <<j, l>>
        /\ \A ep \in {eps[i], eps[j]} : z \in FindZone(Managed, ep.name) /\ Matches(ep, r)
        /\ r.value = eps[i].targets[k] /\ r.value = eps[j].targets[l]
  BY <1>2
<1>4. r \in S /\ r \in Record /\ Listed(r) = r /\ r.zone = z
  BY DEF DoomedIn
<1>5. eps[i] \in Endpoint /\ eps[j] \in Endpoint
  BY RequestProperties
<1> HIDE DEF eps
<1>6. Entry(r).name = eps[i].name /\ Entry(r).type = eps[i].type
  BY <1>3, <1>4, <1>5, MatchIsEntry
<1>7. Entry(r).name = eps[j].name /\ Entry(r).type = eps[j].type
  BY <1>3, <1>4, <1>5, MatchIsEntry
<1>8. /\ <<i, k>> # <<j, l>> /\ eps[i].name = eps[j].name /\ eps[i].type = eps[j].type
      /\ eps[i].targets[k] = eps[j].targets[l]
  BY <1>3, <1>6, <1>7
<1> QED BY <1>8 DEF RemovedTwice, eps

\* A delete call, for listed records that the changes ask to remove.
LEMMA DeletesType ==
  ASSUME NEW changes \in Change, NEW S \in SUBSET Record, \A r \in S : Listed(r) = r,
         NEW j \in DeletesIn(changes, S)
  PROVE  /\ j \in Job /\ j.op = "delete"
         /\ \A s \in j.recs : s \in S /\ s.zone = j.zone /\ AskedToRemove(changes, Entry(s))
         /\ j.twice # {} => RemovedTwice(changes)
<1>1. PICK z \in ZoneFilter : j = Call("delete", z, 0, 0, DoomedIn(z, changes, S),
                                     DoomedTwiceIn(z, changes, S))
  BY DEF DeletesIn
<1>2. /\ j.recs = DoomedIn(z, changes, S) /\ j.twice = DoomedTwiceIn(z, changes, S)
      /\ j.zone = z /\ j.op = "delete"
  BY <1>1 DEF Call
<1>3. DoomedIn(z, changes, S) \subseteq S
  BY DEF DoomedIn
<1>4. \A s \in j.recs : s \in S /\ s.zone = j.zone /\ AskedToRemove(changes, Entry(s))
  BY <1>2, <1>3, DoomedIsAsked
<1>5. DoomedTwiceIn(z, changes, S) \subseteq S
  BY <1>3 DEF DoomedTwiceIn
<1>6. j.twice # {} => RemovedTwice(changes)
  BY <1>2, DoomedTwiceMeans
<1> QED
  BY <1>1, <1>3, <1>4, <1>5, <1>6 DEF Call, Job

\* Every listed record that is asked to be removed has one.
LEMMA AskedAreDeleted ==
  ASSUME NEW changes \in Change, NEW S \in SUBSET Record, \A r \in S : Listed(r) = r,
         NEW r \in S, AskedToRemove(changes, Entry(r))
  PROVE  \E j \in DeletesIn(changes, S) : j.op = "delete" /\ r \in j.recs
<1>1. r \in DoomedIn(r.zone, changes, S)
  BY DoomedIsAsked
<1>2. r.zone \in ZoneFilter
  <2>1. PICK ep \in ToRemove(changes) : Entry(r).zone \in FindZone(Managed, ep.name)
    BY DEF AskedToRemove
  <2> QED BY <2>1, ZoneFound DEF Entry
<1>3. Call("delete", r.zone, 0, 0, DoomedIn(r.zone, changes, S),
           DoomedTwiceIn(r.zone, changes, S)) \in DeletesIn(changes, S)
  BY <1>1, <1>2 DEF DeletesIn
<1> QED
  BY <1>1, <1>3 DEF Call

\* A create call, for one record the changes ask for.
LEMMA CreatesType ==
  ASSUME NEW changes \in Change, NEW j \in CreatesIn(changes)
  PROVE  /\ j \in Job /\ j.op = "create"
         /\ \E r \in Record : j.recs = {r} /\ Entry(r) \in Additions(changes)
<1> DEFINE eps == Creations(changes)
<1>1. PICK i \in DOMAIN eps : \E z \in FindZone(Managed, eps[i].name) :
        \E k \in DOMAIN eps[i].targets : j = Call("create", z, i, k, {NewRecord(eps[i], z, k)}, {})
  BY SMTT(60) DEF CreatesIn
<1>2. PICK z \in FindZone(Managed, eps[i].name) :
        \E k \in DOMAIN eps[i].targets : j = Call("create", z, i, k, {NewRecord(eps[i], z, k)}, {})
  BY <1>1
<1>3. PICK k \in DOMAIN eps[i].targets : j = Call("create", z, i, k, {NewRecord(eps[i], z, k)}, {})
  BY <1>2
<1>4. eps[i] \in Endpoint /\ i \in Nat /\ eps[i] \in ToAdd(changes)
  BY RequestProperties
<1>5. k \in Nat
  <2>1. DOMAIN eps[i].targets = 1..Len(eps[i].targets)
    BY <1>4, EndpointType, LenProperties DEF IsEndpoint
  <2> QED BY <2>1
<1>6. z \in ZoneFilter
  BY ZoneFound
<1> DEFINE r == NewRecord(eps[i], z, k)
<1>7. r \in Record
  BY <1>4, <1>6, NewRecordType
<1>8. Entry(r) \in Additions(changes)
  BY <1>4 DEF Additions
<1> HIDE DEF r
<1>9. j = Call("create", z, i, k, {r}, {})
  BY <1>3 DEF r
<1> QED
  BY <1>4, <1>5, <1>6, <1>7, <1>8, <1>9 DEF Job, Call
-----------------------------------------------------------------------------
(* Type correctness.  That a record is added under one id needs to know that *)
(* a call that creates is for one record, and so what calls are made of.     *)
(* What is said of handlers and account is proved for more than Spec, which  *)
(* posts Requests only: for Move, a step in which any changes may come in,   *)
(* so that it holds of the closed loop as well.                              *)

\* TypeOK, for any changes.
Sound ==
  /\ nextId \in Nat
  /\ live \subseteq Record
  /\ \A r \in live : r.id < nextId
  /\ \A r, s \in live : r.id = s.id \/ SameRecord(r, s) => r = s
  /\ pc \in [Handlers -> PcValues]
  /\ req \in [Handlers -> Change \cup {None}]
  /\ unread \in [Handlers -> SUBSET ZoneFilter]
  /\ snap \in [Handlers -> SUBSET Record]
  /\ todo \in [Handlers -> SUBSET Job]
  /\ job \in [Handlers -> Job \cup {None}]
  /\ times \in [Handlers -> 1..RetryDefault]
  /\ \A h \in Handlers :
       /\ Active(h) => req[h] \in Change
       /\ ~Active(h) => snap[h] = {} /\ todo[h] = {}
       /\ pc[h] = "call" => job[h] \in todo[h]

\* A step of the account and the handlers, whatever their history and budgets.
Move ==
  \/ \E h \in Handlers : HandlerStep(h)
  \/ \E h \in Handlers, changes \in Change : Take(h, changes)
  \/ Crash \/ ConsoleAdd \/ ConsoleRemove
  \/ UNCHANGED <<live, nextId, handlerVars>>

\* Steps of Spec are such steps,
LEMMA NextMoves == [Next]_vars => Move
  BY RequestsType DEF Next, Environment, Receive, Move, vars

\* and its types are those, with its requests and its budgets.
LEMMA TypeIsSound ==
  TypeOK <=> /\ Sound
             /\ req \in [Handlers -> Requests \cup {None}]
             /\ spent \in [Budgets -> Nat]
             /\ \A h \in Handlers : Active(h) => req[h] \in Requests
<1>1. ASSUME NEW h \in Handlers, req[h] \in Requests PROVE req[h] \in Change
  BY <1>1, RequestsType
<1>2. ASSUME req \in [Handlers -> Requests \cup {None}]
      PROVE  req \in [Handlers -> Change \cup {None}]
  BY <1>2, RequestsType
<1> QED BY <1>1, <1>2 DEF TypeOK, Sound

\* A snapshot holds records as the listing shows them.
SnapshotsListed ==
  \A h \in Handlers : \A s \in snap[h] : Listed(s) = s /\ s.id < nextId

\* A call is for a base record, for listed records the changes ask to remove (with
\* an id twice only if they ask for that), or for one they ask to add.
IsPlanned(h, j) ==
  \/ j.op = "base" /\ j.recs = {BaseRecord(j.zone)}
  \/ /\ j.op = "delete"
     /\ \A s \in j.recs : s \in snap[h] /\ s.zone = j.zone /\ AskedToRemove(req[h], Entry(s))
     /\ j.twice # {} => RemovedTwice(req[h])
  \/ j.op = "create" /\ \E r \in Record : j.recs = {r} /\ Entry(r) \in Additions(req[h])
CallsPlanned == \A h \in Handlers : \A j \in todo[h] : IsPlanned(h, j)

SInv == Sound /\ SnapshotsListed /\ CallsPlanned

\* The first state has the right types.
LEMMA InitSInv == Init => SInv
<1> SUFFICES ASSUME Init PROVE SInv
  OBVIOUS
<1> USE DEF Init
<1>1. /\ live \subseteq Record /\ IsFiniteSet(live)
      /\ \A r \in live : r.id <= Cardinality(live) /\ r.id \in Nat
      /\ \A r, s \in live : r.id = s.id \/ SameRecord(r, s) => r = s
  BY RecordsAssumption DEF Record
<1>2. Cardinality(live) \in Nat
  BY <1>1, FS_CardinalityType
<1>3. 1 \in 1..RetryDefault
  BY RetryAssumption
<1>4. \A r \in live : r.id < nextId
  BY <1>1, <1>2
<1>5. Sound
  BY <1>1, <1>2, <1>3, <1>4 DEF Sound, PcValues, Active
<1>6. SnapshotsListed /\ CallsPlanned
  BY DEF SnapshotsListed, CallsPlanned
<1> QED
  BY <1>5, <1>6 DEF SInv

\* An account stays one in which ids are below nextId and name one record, and no
\* record is there twice, when some are taken out,
Account(L, n) ==
  /\ n \in Nat /\ L \subseteq Record
  /\ \A r \in L : r.id < n
  /\ \A r, s \in L : r.id = s.id \/ SameRecord(r, s) => r = s

\* and when one that is not there is added under the next id.
LEMMA AddType ==
  ASSUME NEW L, NEW n, Account(L, n), NEW r \in Record, \A s \in L : ~SameRecord(s, r)
  PROVE  Account(L \cup {[r EXCEPT !.id = n]}, n + 1)
<1> DEFINE new == [r EXCEPT !.id = n]
<1>1. n \in Nat
  BY DEF Account
<1>2. new \in Record /\ new.id = n
  BY <1>1, EntryOfNew
<1>3. \A s \in L : ~SameRecord(s, new) /\ ~SameRecord(new, s)
  <2>1. \A s : SameRecord(s, new) <=> SameRecord(s, r)
    BY <1>1, EntryOfNew
  <2>2. \A s : SameRecord(s, new) <=> SameRecord(new, s)
    BY DEF SameRecord
  <2> QED BY <2>1, <2>2
<1>4. \A s \in L : s.id < n /\ s.id \in Nat
  BY DEF Account, Record
<1> HIDE DEF new
<1>5. \A s \in L \cup {new} : s.id < n + 1
  BY <1>1, <1>2, <1>4
<1>6. \A s \in L : s.id # new.id
  BY <1>1, <1>2, <1>4
<1>7. \A s, t \in L \cup {new} : s.id = t.id \/ SameRecord(s, t) => s = t
  BY <1>3, <1>6 DEF Account
<1>8. L \cup {new} \subseteq Record /\ n + 1 \in Nat
  BY <1>1, <1>2 DEF Account
<1>9. Account(L \cup {new}, n + 1)
  BY <1>5, <1>7, <1>8 DEF Account
<1> QED BY <1>9 DEF new

\* What an accepted call does to the account: a delete takes listed records out
\* that the changes ask to remove; the others add one record under the next id.
Deletes(h) ==
  /\ job[h].op = "delete" /\ live' = live \ Held(job[h].recs) /\ nextId' = nextId

Adds(h, r) ==
  /\ job[h].op \in {"base", "create"} /\ job[h].recs = {r}
  /\ r \in Record /\ \A s \in live : ~SameRecord(s, r)
  /\ live' = live \cup {[r EXCEPT !.id = nextId]} /\ nextId' = nextId + 1

\* An accepted call does one or the other.
LEMMA ServeMeans ==
  ASSUME SInv, NEW h \in Handlers, pc[h] = "call", Serve(h)
  PROVE  /\ job[h] \in Job /\ job[h] \in todo[h] /\ IsPlanned(h, job[h])
         /\ Deletes(h) \/ \E r \in Record : Adds(h, r)
<1>1. job[h] \in Job /\ job[h] \in todo[h] /\ IsPlanned(h, job[h])
  BY DEF SInv, Sound, CallsPlanned
<1>2. CASE job[h].op = "delete"
  BY <1>1, <1>2 DEF Serve, Execute, Deletes
<1>3. CASE job[h].op # "delete"
  <2>1. \E r \in Record : job[h].recs = {r}
    BY <1>1, <1>3, BaseRecordType DEF IsPlanned, Job
  <2>2. PICK r \in Record : job[h].recs = {r}
    BY <2>1
  <2>3. \A s \in live : ~SameRecord(s, r)
    BY <1>3, <2>2 DEF Serve, MayAccept
  <2>4. live' = live \cup {[r EXCEPT !.id = nextId]} /\ nextId' = nextId + 1
    <3>1. {[s EXCEPT !.id = nextId] : s \in {r}} = {[r EXCEPT !.id = nextId]}
      OBVIOUS
    <3> QED BY <1>3, <2>2, <3>1 DEF Serve, Execute
  <2>5. job[h].op \in {"base", "create"}
    BY <1>1, <1>3 DEF Job
  <2> QED BY <1>1, <2>2, <2>3, <2>4, <2>5 DEF Adds
<1> QED BY <1>1, <1>2, <1>3

\* Whatever is done to the account, it stays one.
LEMMA AccountType ==
  ASSUME SInv, NEW h \in Handlers, pc[h] = "call", Serve(h)
  PROVE  Account(live', nextId')
<1>1. Account(live, nextId)
  BY DEF SInv, Sound, Account
<1>2. CASE Deletes(h)
  BY <1>1, <1>2 DEF Deletes, Account
<1>3. ASSUME NEW r \in Record, Adds(h, r) PROVE Account(live', nextId')
  BY <1>1, <1>3, AddType DEF Adds
<1> QED BY <1>2, <1>3, ServeMeans

\* The calls a handler plans are calls it can make.
LEMMA PlanType ==
  ASSUME SInv, NEW h \in Handlers, Plan(h), NEW j \in todo'[h]
  PROVE  j \in Job /\ IsPlanned(h, j)
<1>1. req[h] \in Change /\ snap[h] \in SUBSET Record /\ \A s \in snap[h] : Listed(s) = s
  BY DEF SInv, Sound, SnapshotsListed, Plan, Active
<1>2. \/ j \in BasesFor(snap[h]) \/ j \in DeletesIn(req[h], snap[h])
      \/ j \in CreatesIn(req[h])
  BY DEF SInv, Sound, Plan
<1>3. CASE j \in BasesFor(snap[h])
  BY <1>3, BasesType DEF IsPlanned
<1>4. CASE j \in DeletesIn(req[h], snap[h])
  BY <1>1, <1>4, DeletesType DEF IsPlanned
<1>5. CASE j \in CreatesIn(req[h])
  BY <1>1, <1>5, CreatesType DEF IsPlanned
<1> QED BY <1>2, <1>3, <1>4, <1>5

\* The handler takes none but its calls next.
LEMMA ReadyType ==
  ASSUME NEW h \in Handlers
  PROVE  Ready(h) \subseteq todo[h]
  BY DEF Ready

\* Every budget stays a number.
LEMMA SpendType ==
  ASSUME spent \in [Budgets -> Nat], NEW what \in Budgets, NEW max, Spend(what, max)
  PROVE  spent' \in [Budgets -> Nat] /\ spent'[what] = spent[what] + 1
  BY DEF Spend

\* The bounds a step may spend.
LEMMA BudgetNames ==
  /\ "requests" \in Budgets /\ "faults" \in Budgets
  /\ "console" \in Budgets /\ "crashes" \in Budgets
  BY DEF Budgets

\* Every step keeps the types.
LEMMA MoveSound == SInv /\ Move => Sound'
<1> SUFFICES ASSUME SInv, Move PROVE Sound'
  OBVIOUS
<1>0. Sound
  BY DEF SInv
<1> USE DEF Sound, PcValues, Active
<1>1. ASSUME NEW h \in Handlers, ListZones(h) PROVE Sound'
  BY <1>0, <1>1, RetryAssumption DEF ListZones
<1>2. ASSUME NEW h \in Handlers, ListRecords(h) PROVE Sound'
  BY <1>0, <1>2, RetryAssumption, ListedProperties DEF ListRecords
<1>3. ASSUME NEW h \in Handlers, Plan(h) PROVE Sound'
  <2>1. todo'[h] \subseteq Job
    BY <1>3, PlanType
  <2>2. todo' \in [Handlers -> SUBSET Job]
    BY <1>0, <1>3, <2>1 DEF Plan
  <2> QED BY <1>0, <1>3, <2>2 DEF Plan
<1>4. ASSUME NEW h \in Handlers, StartCall(h) PROVE Sound'
  BY <1>0, <1>4, RetryAssumption, ReadyType DEF StartCall
<1>5. ASSUME NEW h \in Handlers, Succeed(h) PROVE Sound'
  BY <1>0, <1>5, RetryAssumption DEF Succeed, End
<1>6. ASSUME NEW h \in Handlers, Answered(h) PROVE Sound'
  <2>1. Account(live', nextId')
    BY <1>6, AccountType DEF Answered
  <2> QED BY <1>0, <1>6, <2>1 DEF Answered, Done, Account
<1>7. ASSUME NEW h \in Handlers, Refused(h) PROVE Sound'
  BY <1>0, <1>7, RetryAssumption DEF Refused, Again, End
<1>8. ASSUME NEW h \in Handlers, AnswerLost(h) PROVE Sound'
  <2>1. Account(live', nextId')
    BY <1>8, AccountType DEF AnswerLost
  <2> QED
    BY <1>0, <1>8, <2>1, RetryAssumption
    DEF AnswerLost, Again, End, Account
<1>9. ASSUME NEW h \in Handlers, NotExecuted(h) PROVE Sound'
  BY <1>0, <1>9, RetryAssumption DEF NotExecuted, Calling, Again, End
<1>10. ASSUME NEW h \in Handlers, Throttled(h) PROVE Sound'
  BY <1>0, <1>10, RetryAssumption DEF Throttled, Calling, End
<1>11. ASSUME NEW h \in Handlers, NEW changes \in Change, Take(h, changes)
       PROVE  Sound'
  BY <1>0, <1>11 DEF Take
<1>12. ASSUME Crash PROVE Sound'
  BY <1>0, <1>12, RetryAssumption DEF Crash
<1>13. ASSUME ConsoleAdd PROVE Sound'
  <2>1. PICK r \in ConsoleRecords : /\ \A s \in live : ~SameRecord(r, s)
                                    /\ live' = live \cup {[r EXCEPT !.id = nextId]}
    BY <1>13 DEF ConsoleAdd
  <2>2. r \in Record /\ \A s \in live : ~SameRecord(s, r)
    BY <2>1, RecordsAssumption DEF SameRecord
  <2>3. Account(live, nextId)
    BY <1>0 DEF Account
  <2>4. Account(live', nextId')
    BY <1>13, <2>1, <2>2, <2>3, AddType DEF ConsoleAdd
  <2> QED BY <1>0, <1>13, <2>4 DEF ConsoleAdd, handlerVars, Account
<1>14. ASSUME ConsoleRemove PROVE Sound'
  BY <1>0, <1>14 DEF ConsoleRemove, handlerVars
<1>15. CASE UNCHANGED <<live, nextId, handlerVars>>
  BY <1>0, <1>15 DEF handlerVars
<1> QED
  BY <1>1, <1>2, <1>3, <1>4, <1>5, <1>6, <1>7, <1>8, <1>9, <1>10, <1>11, <1>12,
     <1>13, <1>14, <1>15
  DEF Move, HandlerStep

\* and the requests and the budgets.
LEMMA NextTypeOK == TypeOK /\ SInv /\ [Next]_vars => TypeOK'
<1> SUFFICES ASSUME TypeOK, SInv, [Next]_vars PROVE TypeOK'
  OBVIOUS
<1>0. /\ req \in [Handlers -> Requests \cup {None}] /\ spent \in [Budgets -> Nat]
      /\ pc \in [Handlers -> PcValues]
      /\ \A h \in Handlers : Active(h) => req[h] \in Requests
  BY DEF TypeOK
<1> DEFINE Posts == /\ req' \in [Handlers -> Requests \cup {None}] /\ spent' \in [Budgets -> Nat]
                    /\ \A h \in Handlers : Active(h)' => req'[h] \in Requests
<1>1. ASSUME NEW g \in Handlers, HandlerStep(g) PROVE Posts
  <2>1. UNCHANGED req
    BY <1>1
    DEF HandlerStep, ListZones, ListRecords, Plan, StartCall, Succeed, Answered, Refused,
        AnswerLost, NotExecuted, Throttled, Again, Done, End
  <2>2. \A h \in Handlers : Active(h)' => Active(h)
    BY <1>0, <1>1
    DEF HandlerStep, ListZones, ListRecords, Plan, StartCall, Succeed, Answered, Refused,
        AnswerLost, NotExecuted, Throttled, Calling, Again, Done, End, Active
  <2>3. spent' \in [Budgets -> Nat]
    BY <1>0, <1>1, SpendType, BudgetNames
    DEF HandlerStep, ListZones, ListRecords, Plan, StartCall, Succeed, Answered, Refused,
        AnswerLost, NotExecuted, Throttled, Fault
  <2> QED BY <1>0, <2>1, <2>2, <2>3
<1>2. ASSUME NEW g \in Handlers, NEW changes \in Requests, Receive(g, changes) PROVE Posts
  BY <1>0, <1>2, SpendType, BudgetNames DEF Receive, Take, Active
<1>3. ASSUME Crash PROVE Posts
  BY <1>0, <1>3, SpendType, BudgetNames DEF Crash, Active
<1>4. ASSUME ConsoleAdd \/ ConsoleRemove PROVE Posts
  BY <1>0, <1>4, SpendType, BudgetNames DEF ConsoleAdd, ConsoleRemove, handlerVars, Active
<1>5. ASSUME UNCHANGED vars PROVE Posts
  BY <1>0, <1>5 DEF vars, handlerVars, Active
<1>6. Posts
  BY <1>1, <1>2, <1>3, <1>4, <1>5 DEF Next, Environment
<1>7. Sound'
  BY MoveSound, NextMoves
<1>8. TypeOK' <=> (/\ Sound
                  /\ req \in [Handlers -> Requests \cup {None}]
                  /\ spent \in [Budgets -> Nat]
                  /\ \A h \in Handlers : Active(h) => req[h] \in Requests)'
  BY TypeIsSound, PTL
<1> QED
  BY <1>6, <1>7, <1>8
-----------------------------------------------------------------------------
(* What a step is to one handler, whoever takes it.                          *)

Rests(h) ==
  /\ pc'[h] = pc[h] /\ req'[h] = req[h] /\ unread'[h] = unread[h]
  /\ snap'[h] = snap[h] /\ todo'[h] = todo[h] /\ job'[h] = job[h]

Begins(h) ==
  /\ ~Active(h)
  /\ pc'[h] \in {"zones", "ok"}
  /\ snap'[h] = snap[h] /\ todo'[h] = todo[h]
  /\ UNCHANGED <<live, nextId>>

Quits(h) == pc'[h] \in {"idle", "ok", "failed"} /\ snap'[h] = {} /\ todo'[h] = {}

\* It rests, perhaps with another attempt at its call to come; begins; ends; or
\* goes on in one of five ways.
LEMMA HandlerMoves ==
  ASSUME Sound, Move, NEW h \in Handlers
  PROVE  \/ Rests(h) \/ Begins(h) \/ Quits(h)
         \/ ListZones(h) \/ ListRecords(h) \/ Plan(h) \/ StartCall(h) \/ Answered(h)
<1> USE DEF Sound
<1>1. ASSUME NEW g \in Handlers, HandlerStep(g), g # h PROVE Rests(h)
  BY <1>1
  DEF Rests, HandlerStep, ListZones, ListRecords, Plan, StartCall, Succeed, Answered, Refused,
      AnswerLost, NotExecuted, Throttled, Done, Again, End
<1>2. ASSUME HandlerStep(h)
      PROVE  \/ Rests(h) \/ Quits(h)
             \/ ListZones(h) \/ ListRecords(h) \/ Plan(h) \/ StartCall(h) \/ Answered(h)
  <2>1. ASSUME Again(h) PROVE Rests(h)
    BY <2>1 DEF Again, Rests
  <2>2. ASSUME NEW result \in {"ok", "failed"}, End(h, result) PROVE Quits(h)
    BY <2>2 DEF End, Quits
  <2> QED
    BY <1>2, <2>1, <2>2 DEF HandlerStep, Succeed, Refused, AnswerLost, NotExecuted, Throttled
<1>3. ASSUME NEW g \in Handlers, NEW changes \in Change, Take(g, changes)
      PROVE  Rests(h) \/ Begins(h)
  BY <1>3 DEF Take, Rests, Begins
<1>4. ASSUME Crash PROVE Quits(h)
  BY <1>4 DEF Crash, Quits, Active, PcValues
<1>5. ASSUME ConsoleAdd \/ ConsoleRemove \/ UNCHANGED <<live, nextId, handlerVars>>
      PROVE  Rests(h)
  BY <1>5 DEF ConsoleAdd, ConsoleRemove, handlerVars, Rests
<1> QED
  BY <1>1, <1>2, <1>3, <1>4, <1>5 DEF Move

\* The account changes by an accepted call of a handler or by a console user,
LEMMA MovesAccount ==
  ASSUME SInv, Move
  PROVE  \/ UNCHANGED <<live, nextId>>
         \/ \E h \in Handlers :
              /\ pc[h] = "call" /\ job[h] \in Job /\ IsPlanned(h, job[h])
              /\ Deletes(h) \/ \E r \in Record : Adds(h, r)
              /\ HandlerStep(h)
         \/ ConsoleAdd \/ ConsoleRemove
<1>1. ASSUME NEW h \in Handlers, Answered(h) \/ AnswerLost(h)
      PROVE  /\ pc[h] = "call" /\ job[h] \in Job /\ IsPlanned(h, job[h])
             /\ Deletes(h) \/ \E r \in Record : Adds(h, r)
  BY <1>1, ServeMeans DEF Answered, AnswerLost
<1>2. ASSUME NEW h \in Handlers, HandlerStep(h), ~Answered(h), ~AnswerLost(h)
      PROVE  UNCHANGED <<live, nextId>>
  BY <1>2 DEF HandlerStep, ListZones, ListRecords, Plan, StartCall, Succeed, Refused,
              NotExecuted, Throttled
<1>3. ASSUME NEW h \in Handlers, NEW changes, Take(h, changes)
      PROVE  UNCHANGED <<live, nextId>>
  BY <1>3 DEF Take
<1>4. ASSUME Crash PROVE UNCHANGED <<live, nextId>>
  BY <1>4 DEF Crash
<1> QED
  BY <1>1, <1>2, <1>3, <1>4 DEF Move

\* whose history notes it.
LEMMA AccountMoves ==
  ASSUME SInv, [Next]_vars
  PROVE  \/ UNCHANGED <<live, nextId>>
         \/ \E h \in Handlers :
              /\ pc[h] = "call" /\ job[h] \in Job /\ IsPlanned(h, job[h])
              /\ Deletes(h) \/ \E r \in Record : Adds(h, r)
              /\ HandlerStep(h) /\ Recorded(h)
         \/ ConsoleAdd /\ Recorded("others")
         \/ ConsoleRemove /\ Recorded("others")
<1>1. ASSUME NEW h \in Handlers, Answered(h) \/ AnswerLost(h)
      PROVE  /\ pc[h] = "call" /\ job[h] \in Job /\ IsPlanned(h, job[h])
             /\ Deletes(h) \/ \E r \in Record : Adds(h, r)
  BY <1>1, ServeMeans DEF Answered, AnswerLost
<1>2. ASSUME NEW h \in Handlers, HandlerStep(h), ~Answered(h), ~AnswerLost(h)
      PROVE  UNCHANGED <<live, nextId>>
  BY <1>2 DEF HandlerStep, ListZones, ListRecords, Plan, StartCall, Succeed, Refused,
              NotExecuted, Throttled
<1>3. ASSUME NEW h \in Handlers, NEW changes \in Requests, Receive(h, changes)
      PROVE  UNCHANGED <<live, nextId>>
  BY <1>3 DEF Receive, Take
<1>4. ASSUME Crash \/ UNCHANGED vars PROVE UNCHANGED <<live, nextId>>
  BY <1>4 DEF Crash, vars
<1> QED
  BY <1>1, <1>2, <1>3, <1>4 DEF Next, Environment

\* A record that is new has an id not given out before.
LEMMA NewIds ==
  ASSUME SInv, Move
  PROVE  /\ nextId \in Nat /\ nextId' \in Nat /\ nextId <= nextId'
         /\ \A r \in live' : r \in live \/ r.id = nextId
<1>1. nextId \in Nat /\ ConsoleRecords \subseteq Record
  BY RecordsAssumption DEF SInv, Sound
<1>2. ASSUME NEW r \in Record, live' = live \cup {[r EXCEPT !.id = nextId]}
      PROVE  \A s \in live' : s \in live \/ s.id = nextId
  BY <1>1, <1>2, EntryOfNew
<1> QED
  BY <1>1, <1>2, MovesAccount DEF Deletes, Adds, ConsoleAdd, ConsoleRemove

\* What a listing adds to a snapshot is there, as it is listed.
LEMMA ListRecordsAdds ==
  ASSUME Sound, NEW h \in Handlers, ListRecords(h)
  PROVE  /\ snap[h] \subseteq snap'[h]
         /\ \A s \in snap'[h] : s \in snap[h] \/ \E r \in live : s = Listed(r)
         /\ pc[h] = "records" /\ pc' = pc /\ req' = req /\ todo' = todo /\ job' = job
         /\ UNCHANGED <<live, nextId, spent>>
  BY DEF ListRecords, Sound

\* Every step keeps the invariant.
LEMMA MoveSInv == SInv /\ Move => SInv'
<1> SUFFICES ASSUME SInv, Move, NEW h \in Handlers
             PROVE  /\ \A s \in snap'[h] : Listed(s) = s /\ s.id < nextId'
                    /\ \A j \in todo'[h] : IsPlanned(h, j)'
  BY MoveSound DEF SInv, SnapshotsListed, CallsPlanned
<1>0. /\ Sound
      /\ \A s \in snap[h] : Listed(s) = s /\ s.id < nextId /\ s.id \in Nat
      /\ \A j \in todo[h] : IsPlanned(h, j)
      /\ nextId \in Nat /\ nextId' \in Nat /\ nextId <= nextId'
      /\ ~Active(h) => snap[h] = {} /\ todo[h] = {}
      /\ \A r \in live : r \in Record /\ r.id < nextId
  BY NewIds DEF SInv, Sound, SnapshotsListed, CallsPlanned, Record
\* Most steps add nothing to the snapshot, plan no calls, and keep the request.
<1>a. ASSUME snap'[h] = snap[h], todo'[h] \subseteq todo[h], req'[h] = req[h]
      PROVE  /\ \A s \in snap'[h] : Listed(s) = s /\ s.id < nextId'
             /\ \A j \in todo'[h] : IsPlanned(h, j)'
  BY <1>0, <1>a DEF IsPlanned
<1>1. CASE Rests(h)
  BY <1>1, <1>a DEF Rests
<1>2. CASE Begins(h) \/ Quits(h)
  BY <1>0, <1>2 DEF Begins, Quits
<1>3. CASE ListZones(h) \/ StartCall(h)
  BY <1>3, <1>a DEF ListZones, StartCall
<1>4. CASE ListRecords(h)
  <2>1. \A s \in snap'[h] : Listed(s) = s /\ s.id < nextId'
    BY <1>0, <1>4, ListRecordsAdds, ListedProperties
  <2>2. \A j \in todo'[h] : IsPlanned(h, j)'
    BY <1>0, <1>4, ListRecordsAdds DEF IsPlanned
  <2> QED BY <2>1, <2>2
<1>5. CASE Plan(h)
  <2>1. snap' = snap /\ req' = req
    BY <1>5 DEF Plan
  <2>2. \A j \in todo'[h] : IsPlanned(h, j)
    BY <1>5, PlanType
  <2> QED BY <1>0, <2>1, <2>2 DEF IsPlanned
<1>6. CASE Answered(h)
  BY <1>0, <1>6, <1>a DEF Answered, Done, Sound
<1> QED
  BY <1>0, <1>1, <1>2, <1>3, <1>4, <1>5, <1>6, HandlerMoves

\* The account, the handlers and their calls keep their shape: ids stay unique and
\* are never given twice, no record is there twice, locals live only in a handler
\* at work (privatedns.go:123).
THEOREM TypeCorrect == Spec => []TypeOK
<1>1. Init => TypeOK /\ SInv
  BY InitSInv, TypeIsSound DEF Init, SInv, Active
<1>2. TypeOK /\ SInv /\ [Next]_vars => TypeOK' /\ SInv'
  BY NextTypeOK, MoveSInv, NextMoves
<1> QED BY <1>1, <1>2, PTL DEF Spec
-----------------------------------------------------------------------------
(* What a handler removes.  DeletesOnlyPlanned speaks of the record as it    *)
(* stands when it is removed, the code of ids it read earlier.  An id in a   *)
(* snapshot was given out before, so no later record has it, and nobody      *)
(* edits a record in place.                                                  *)

\* A listed record that is still there is as it was listed.
SnapshotsMatch ==
  \A h \in Handlers : \A s \in snap[h], r \in live : r.id = s.id => Listed(r) = s

MInv == SInv /\ SnapshotsMatch

\* At first no record is listed.
LEMMA InitMInv == Init => MInv
  BY InitSInv DEF Init, MInv, SnapshotsMatch

\* A listing shows what is there, and what it showed before is not replaced.
LEMMA MoveMInv == MInv /\ Move => MInv'
<1> SUFFICES ASSUME MInv, Move, NEW h \in Handlers
             PROVE  \A s \in snap'[h], r \in live' : r.id = s.id => Listed(r) = s
  BY MoveSInv DEF MInv, SnapshotsMatch
<1>0. /\ Sound /\ nextId \in Nat
      /\ \A s \in snap[h] : s.id < nextId /\ s.id \in Nat
      /\ \A s \in snap[h], r \in live : r.id = s.id => Listed(r) = s
      /\ \A r \in live' : r \in live \/ r.id = nextId
      /\ ~Active(h) => snap[h] = {}
      /\ \A r \in live : r \in Record
      /\ \A r, s \in live : r.id = s.id => r = s
  BY NewIds DEF MInv, SInv, Sound, SnapshotsListed, SnapshotsMatch, Record
<1>a. ASSUME NEW s \in snap[h], NEW r \in live', r.id = s.id PROVE Listed(r) = s
  BY <1>0, <1>a
<1>1. CASE Rests(h)
  BY <1>1, <1>a DEF Rests
<1>2. CASE Begins(h) \/ Quits(h)
  BY <1>0, <1>2 DEF Begins, Quits
<1>3. CASE ListZones(h) \/ StartCall(h) \/ Plan(h) \/ Answered(h)
  BY <1>3, <1>a DEF ListZones, StartCall, Plan, Answered, Done
<1>4. CASE ListRecords(h)
  <2> SUFFICES ASSUME NEW s \in snap'[h], NEW r \in live, r.id = s.id PROVE Listed(r) = s
    BY <1>0, <1>4, ListRecordsAdds
  <2>1. CASE s \in snap[h]
    BY <1>0, <2>1
  <2>2. ASSUME NEW t \in live, s = Listed(t) PROVE Listed(r) = s
    BY <1>0, <2>2, ListedProperties
  <2> QED BY <1>0, <1>4, <2>1, <2>2, ListRecordsAdds
<1> QED
  BY <1>0, <1>1, <1>2, <1>3, <1>4, HandlerMoves

\* The records an accepted delete takes away are ones the changes ask to remove,
\* of the zone the call is for.
LEMMA DeleteIsAsked ==
  ASSUME MInv, NEW h \in Handlers, pc[h] = "call", job[h] \in todo[h],
         job[h].op = "delete", NEW r \in Held(job[h].recs)
  PROVE  AskedToRemove(req[h], Entry(r))
<1>1. IsPlanned(h, job[h])
  BY DEF MInv, SInv, CallsPlanned
<1>2. PICK s \in job[h].recs : s.id = r.id
  BY DEF Held
<1>3. s \in snap[h] /\ AskedToRemove(req[h], Entry(s))
  BY <1>1 DEF IsPlanned
<1>4. r \in live /\ Listed(r) = s
  BY <1>2, <1>3 DEF Held, MInv, SnapshotsMatch
<1>5. r \in Record
  BY <1>4 DEF MInv, SInv, Sound
<1> QED BY <1>3, <1>4, <1>5, ListedProperties

\* A call is one of the handler's calls while it is made.
LEMMA CallIsTodo ==
  ASSUME SInv, NEW h \in Handlers, pc[h] = "call"
  PROVE  job[h] \in todo[h] /\ Active(h) /\ req[h] \in Change
  BY DEF SInv, Sound, Active

\* Of all steps but those of console users, only the execution of a delete call
\* removes anything.
LEMMA MoveRemovesOnlyAsked ==
  ASSUME MInv, Move, ~ConsoleRemove, NEW r \in live \ live'
  PROVE  \E h \in Handlers : pc[h] = "call" /\ AskedToRemove(req[h], Entry(r))
<1>1. ASSUME NEW h \in Handlers, pc[h] = "call", Deletes(h)
      PROVE  AskedToRemove(req[h], Entry(r))
  <2>1. r \in Held(job[h].recs) /\ job[h].op = "delete"
    BY <1>1 DEF Deletes
  <2> QED BY <1>1, <2>1, CallIsTodo, DeleteIsAsked DEF MInv
<1> QED
  BY <1>1, MovesAccount DEF MInv, Adds, ConsoleAdd

LEMMA StepRemovesOnlyPlanned ==
  ASSUME TypeOK, MInv, [Next]_vars, spent'["console"] = spent["console"], NEW r \in live \ live'
  PROVE  \E h \in Handlers : pc[h] = "call" /\ AskedToRemove(req[h], Entry(r))
<1>1. ~ConsoleRemove
  <2>1. spent \in [Budgets -> Nat] /\ spent["console"] \in Nat
    BY DEF TypeOK, Budgets
  <2>2. ConsoleRemove => spent'["console"] = spent["console"] + 1
    BY <2>1, SpendType, BudgetNames DEF ConsoleRemove
  <2> QED BY <2>1, <2>2
<1> QED
  BY <1>1, NextMoves, MoveRemovesOnlyAsked

\* Batch deletes for all accounts, requests and interleavings: a handler takes out
\* nothing but records its changes ask to remove, as they stand at that moment,
\* though it deletes by ids it read before its first call and others are at work
\* in between (privatedns.go:189).
THEOREM RemovesOnlyPlanned == Spec => DeletesOnlyPlanned
<1>1. TypeOK /\ MInv /\ [Next]_vars =>
        [spent'["console"] = spent["console"] =>
           \A r \in live \ live' :
             \E h \in Handlers : pc[h] = "call" /\ AskedToRemove(req[h], Entry(r))]_vars
  BY StepRemovesOnlyPlanned
<1>2. Init => TypeOK /\ MInv
  BY InitMInv, TypeIsSound DEF Init, MInv, SInv, Active
<1>3. TypeOK /\ MInv /\ [Next]_vars => TypeOK' /\ MInv'
  BY NextTypeOK, MoveMInv, NextMoves DEF MInv
<1> QED BY <1>1, <1>2, <1>3, PTL DEF Spec, DeletesOnlyPlanned
-----------------------------------------------------------------------------
(* Old before new.                                                           *)

\* What is asked to be removed is gone or has a delete call to come,
CoveredAt(h) ==
  pc[h] \in {"apply", "call"} =>
    \A s \in snap[h] : AskedToRemove(req[h], Entry(s)) =>
      \/ \E j \in todo[h] : j.op = "delete" /\ s \in j.recs
      \/ \A r \in live : r.id # s.id

\* no delete call is to come once a create is being made, and no call for a base
\* record once one of another kind is.
FirstAt(h) ==
  pc[h] = "call" =>
    /\ job[h].op = "create" => \A j \in todo[h] : j.op # "delete"
    /\ job[h].op # "base" => \A j \in todo[h] : j.op # "base"

OInv == TypeOK /\ MInv /\ \A h \in Handlers : CoveredAt(h) /\ FirstAt(h)

\* At first no call is to come.
LEMMA InitOInv == Init => OInv
  BY InitMInv, TypeIsSound DEF Init, MInv, SInv, Active, OInv, CoveredAt, FirstAt

\* The next call is of the first kind there is.
LEMMA ReadyInOrder ==
  ASSUME NEW h \in Handlers, NEW j \in Ready(h)
  PROVE  /\ j \in todo[h]
         /\ j.op = "create" => \A i \in todo[h] : i.op # "delete"
         /\ j.op # "base" => \A i \in todo[h] : i.op # "base"
  BY DEF Ready

\* Every step keeps records listed for removal gone, or their deletes to come.
LEMMA NextOInv == OInv /\ [Next]_vars => OInv'
<1> SUFFICES ASSUME OInv, [Next]_vars, NEW h \in Handlers
             PROVE  CoveredAt(h)' /\ FirstAt(h)'
  BY NextTypeOK, MoveMInv, NextMoves DEF OInv, MInv
<1>0. /\ CoveredAt(h) /\ FirstAt(h) /\ MInv /\ SInv /\ TypeOK
      /\ \A s \in snap[h] : (\A r \in live : r.id # s.id) => \A r \in live' : r.id # s.id
  <2>1. \A s \in snap[h] : s.id < nextId /\ s.id \in Nat
    BY DEF OInv, MInv, SInv, TypeOK, SnapshotsListed, Record
  <2> QED BY <2>1, NewIds, NextMoves DEF OInv, MInv, SInv
\* A handler that is not at its calls has nothing to keep.
<1>a. ASSUME pc'[h] \notin {"apply", "call"} PROVE CoveredAt(h)' /\ FirstAt(h)'
  BY <1>a DEF CoveredAt, FirstAt
<1>1. CASE Rests(h)
  BY <1>0, <1>1 DEF Rests, CoveredAt, FirstAt
<1>2. CASE Begins(h) \/ Quits(h)
  BY <1>2, <1>a DEF Begins, Quits
<1>3. CASE ListZones(h) \/ ListRecords(h)
  BY <1>0, <1>3, <1>a DEF ListZones, ListRecords, TypeOK
<1>4. CASE Plan(h)
  <2>1. req[h] \in Requests /\ snap[h] \in SUBSET Record /\ \A s \in snap[h] : Listed(s) = s
    BY <1>0, <1>4 DEF Plan, SInv, TypeOK, Active, SnapshotsListed
  <2>2. ASSUME NEW s \in snap[h], AskedToRemove(req[h], Entry(s))
        PROVE  \E j \in DeletesIn(req[h], snap[h]) : j.op = "delete" /\ s \in j.recs
    BY <2>1, <2>2, AskedAreDeleted, RequestsType
  <2>3. /\ pc'[h] = "apply" /\ req'[h] = req[h] /\ snap'[h] = snap[h]
        /\ DeletesIn(req[h], snap[h]) \subseteq todo'[h]
    BY <1>0, <1>4 DEF Plan, TypeOK
  <2> QED BY <2>2, <2>3 DEF CoveredAt, FirstAt
<1>5. CASE StartCall(h)
  <2>1. /\ job'[h] \in Ready(h) /\ UNCHANGED <<live, req, snap, todo>>
        /\ pc[h] = "apply" /\ pc'[h] = "call"
    BY <1>0, <1>5 DEF StartCall, TypeOK
  <2> QED BY <1>0, <2>1, ReadyInOrder DEF CoveredAt, FirstAt
<1>6. CASE Answered(h)
  <2>1. /\ pc[h] = "call" /\ pc'[h] = "apply" /\ todo'[h] = todo[h] \ {job[h]}
        /\ req'[h] = req[h] /\ snap'[h] = snap[h] /\ Serve(h)
    BY <1>0, <1>6 DEF Answered, Done, TypeOK
  <2>2. ASSUME NEW s \in job[h].recs, job[h].op = "delete" PROVE \A r \in live' : r.id # s.id
    BY <1>0, <2>1, <2>2, ServeMeans DEF Deletes, Adds, Held
  <2> QED BY <1>0, <2>1, <2>2 DEF CoveredAt, FirstAt
<1> QED
  BY <1>0, <1>1, <1>2, <1>3, <1>4, <1>5, <1>6, HandlerMoves, NextMoves, TypeIsSound

\* No record but a base record is created while one the handler listed for removal
\* is still in the account: ApplyChanges deletes in every zone before its first
\* create in any, and leaves at the first call that fails (privatedns.go:189).
THEOREM OldBeforeNew == Spec => []OldGoneBeforeNew
<1>1. OInv => OldGoneBeforeNew
  BY DEF OInv, CoveredAt, FirstAt, OldGoneBeforeNew
<1> QED BY <1>1, InitOInv, NextOInv, PTL DEF Spec
-----------------------------------------------------------------------------
(* What the history says: whatever happens to the account while a handler is *)
(* at work was asked of it, or is noted as done by others.                   *)

\* The history of a handler at work grows.
LEMMA HistoryGrows ==
  ASSUME SInv, [Next]_vars, NEW h \in Handlers, Active(h), Active(h)'
  PROVE  base'[h] = base[h] /\ foreign[h] \subseteq foreign'[h]
<1>1. ASSUME NEW by, Recorded(by) PROVE base'[h] = base[h] /\ foreign[h] \subseteq foreign'[h]
  BY <1>1 DEF Recorded
<1> QED BY <1>1 DEF Next, vars

\* It notes what others change.
LEMMA OthersNoted ==
  ASSUME NEW h \in Handlers, Active(h)', NEW by, by # h, Recorded(by),
         NEW r \in (live \ live') \cup (live' \ live)
  PROVE  Slot(Entry(r)) \in foreign'[h]
<1>1. Slot(Entry(r)) \in Slots((live \ live') \cup (live' \ live))
  BY DEF Slots
<1>2. foreign'[h] = foreign[h] \cup Slots((live \ live') \cup (live' \ live))
  BY DEF Recorded
<1> QED BY <1>1, <1>2

\* A record that is gone was asked for or noted,
LEMMA RemovedIsExplained ==
  ASSUME MInv, [Next]_vars, NEW h \in Handlers, Active(h)', NEW r \in live \ live'
  PROVE  AskedToRemove(req[h], Entry(r)) \/ Slot(Entry(r)) \in foreign'[h]
<1>1. ASSUME NEW g \in Handlers, pc[g] = "call", Deletes(g), Recorded(g)
      PROVE  AskedToRemove(req[h], Entry(r)) \/ Slot(Entry(r)) \in foreign'[h]
  <2>1. CASE g = h
    <3>1. r \in Held(job[h].recs) /\ job[h].op = "delete"
      BY <1>1, <2>1 DEF Deletes
    <3> QED BY <1>1, <2>1, <3>1, CallIsTodo, DeleteIsAsked DEF MInv
  <2>2. CASE g # h
    BY <1>1, <2>2, OthersNoted
  <2> QED BY <2>1, <2>2
<1>2. ASSUME Recorded("others") PROVE Slot(Entry(r)) \in foreign'[h]
  BY <1>2, OthersNoted, HandlersAssumption
<1> QED
  BY <1>1, <1>2, AccountMoves DEF MInv, Adds

\* and so was one that is new, unless it is a base record.
LEMMA AddedIsExplained ==
  ASSUME MInv, [Next]_vars, NEW h \in Handlers, Active(h)', NEW r \in live' \ live
  PROVE  \/ Entry(r) \in Bases \cup Additions(req[h])
         \/ Slot(Entry(r)) \in foreign'[h]
<1>1. ASSUME NEW g \in Handlers, job[g] \in Job, IsPlanned(g, job[g]),
             NEW s \in Record, Adds(g, s), Recorded(g)
      PROVE  \/ Entry(r) \in Bases \cup Additions(req[h])
             \/ Slot(Entry(r)) \in foreign'[h]
  <2>1. CASE g = h
    <3>1. r = [s EXCEPT !.id = nextId] /\ nextId \in Nat
      BY <1>1 DEF Adds, MInv, SInv, Sound
    <3>2. Entry(r) = Entry(s)
      BY <3>1, EntryOfNew
    <3>3. CASE job[h].op = "base"
      <4>1. s = BaseRecord(job[h].zone) /\ job[h].zone \in ZoneFilter
        BY <1>1, <2>1, <3>3 DEF Adds, IsPlanned, Job
      <4> QED BY <3>2, <4>1, BaseRecordType
    <3>4. CASE job[h].op = "create"
      BY <1>1, <2>1, <3>2, <3>4 DEF Adds, IsPlanned
    <3> QED BY <1>1, <2>1, <3>3, <3>4 DEF Adds
  <2>2. CASE g # h
    BY <1>1, <2>2, OthersNoted
  <2> QED BY <2>1, <2>2
<1>2. ASSUME Recorded("others") PROVE Slot(Entry(r)) \in foreign'[h]
  BY <1>2, OthersNoted, HandlersAssumption
<1> QED
  BY <1>1, <1>2, AccountMoves DEF MInv, Deletes
-----------------------------------------------------------------------------
(* The base records.                                                         *)

\* A base record shares its name and type, and nobody may ask to remove it.
LEMMA BaseIsNotAsked ==
  ASSUME NEW r \in Record, r.zone \in ZoneFilter, IsBase(r), NEW changes \in Requests
  PROVE  /\ Slot(Entry(r)) = Slot(Entry(BaseRecord(r.zone)))
         /\ ~AskedToRemove(changes, Entry(r))
<1> DEFINE b == BaseRecord(r.zone)
<1>1. r.sub = b.sub /\ r.type = b.type /\ r.value = b.value /\ r.zone = b.zone
  BY DEF IsBase, BaseRecord
<1>2. Listed(r).value = Listed(b).value
  <2>1. r.value.text = BaseText
    BY DEF IsBase
  <2>2. BaseText \notin Heritage
    BY ValuesAssumption
  <2> QED BY <1>1, <2>1, <2>2 DEF Listed
<1> HIDE DEF b
<1>3. /\ Entry(r).zone = Entry(b).zone /\ Entry(r).name = Entry(b).name
      /\ Entry(r).type = Entry(b).type /\ Entry(r).value = Entry(b).value
  BY <1>1, <1>2 DEF Entry
<1>4. ~AskedToRemove(changes, Entry(b))
  BY BasesAssumption DEF b
<1> QED
  BY <1>3, <1>4 DEF AskedToRemove, Slot, b

BaseThere(z) == \E r \in live : r.zone = z /\ IsBase(r)

\* Only a console user takes a base record away.
LEMMA BaseStays ==
  ASSUME TypeOK, MInv, [Next]_vars, NEW h \in Handlers, Active(h), Active(h)', NEW z \in ZoneFilter,
         BaseThere(z) \/ BaseDisturbed(h, z)
  PROVE  (BaseThere(z) \/ BaseDisturbed(h, z))'
<1>1. CASE BaseDisturbed(h, z)
  BY <1>1, HistoryGrows DEF BaseDisturbed, MInv
<1>2. CASE BaseThere(z)
  <2>1. PICK r \in live : r.zone = z /\ IsBase(r)
    BY <1>2 DEF BaseThere
  <2>2. CASE r \in live'
    BY <2>1, <2>2 DEF BaseThere
  <2>3. CASE r \notin live'
    <3>1. r \in Record /\ req[h] \in Requests
      BY DEF TypeOK, MInv, SInv
    <3>2. /\ Slot(Entry(r)) = Slot(Entry(BaseRecord(z)))
          /\ ~AskedToRemove(req[h], Entry(r))
      BY <2>1, <3>1, BaseIsNotAsked
    <3>3. Slot(Entry(r)) \in foreign'[h]
      BY <2>3, <3>2, RemovedIsExplained
    <3> QED BY <3>2, <3>3 DEF BaseDisturbed
  <2> QED BY <2>2, <2>3
<1> QED BY <1>1, <1>2

\* A zone whose base record was listed, or for which no base record is to be made
\* any more, has one, unless others have been at it.
BaseSafe(h) ==
  Active(h) =>
    \A z \in ZoneFilter :
      \/ \E s \in snap[h] : s.zone = z /\ IsBase(s)
      \/ pc[h] \in {"apply", "call"} /\ ~\E j \in todo[h] : j.op = "base" /\ j.zone = z
      => BaseThere(z) \/ BaseDisturbed(h, z)

BInv == OInv /\ \A h \in Handlers : BaseSafe(h)

\* At first no handler is at work.
LEMMA InitBInv == Init => BInv
  BY InitOInv DEF Init, BInv, BaseSafe, Active

\* Every step keeps the base records.
LEMMA NextBInv == BInv /\ [Next]_vars => BInv'
<1> SUFFICES ASSUME BInv, [Next]_vars, NEW h \in Handlers, Active(h)', NEW z \in ZoneFilter,
                    \/ \E s \in snap'[h] : s.zone = z /\ IsBase(s)
                    \/ /\ pc'[h] \in {"apply", "call"}
                       /\ ~\E j \in todo'[h] : j.op = "base" /\ j.zone = z
             PROVE  (BaseThere(z) \/ BaseDisturbed(h, z))'
  BY NextOInv DEF BInv, BaseSafe
<1>0. MInv /\ SInv /\ TypeOK /\ BaseSafe(h)
  BY DEF BInv, OInv, MInv, SInv
\* It is enough that it held before.
<1>a. ASSUME Active(h), \/ \E s \in snap[h] : s.zone = z /\ IsBase(s)
                        \/ /\ pc[h] \in {"apply", "call"}
                           /\ ~\E j \in todo[h] : j.op = "base" /\ j.zone = z
      PROVE  (BaseThere(z) \/ BaseDisturbed(h, z))'
  BY <1>0, <1>a, BaseStays DEF BaseSafe
<1>1. CASE Rests(h)
  BY <1>1, <1>a DEF Rests, Active
<1>2. CASE Begins(h) \/ Quits(h)
  BY <1>0, <1>2 DEF Begins, Quits, TypeOK, Active
<1>3. CASE ListZones(h) \/ StartCall(h)
  BY <1>0, <1>3, <1>a DEF ListZones, StartCall, TypeOK, Active
<1>4. CASE ListRecords(h)
  <2>1. pc[h] = "records" /\ pc'[h] = "records" /\ UNCHANGED live
    BY <1>0, <1>4, ListRecordsAdds, TypeIsSound
  <2>2. PICK s \in snap'[h] : s.zone = z /\ IsBase(s)
    BY <2>1
  <2>3. CASE s \in snap[h]
    BY <2>1, <2>2, <2>3, <1>a DEF Active
  <2>4. CASE s \notin snap[h]
    <3>1. PICK r \in live : s = Listed(r)
      BY <1>0, <1>4, <2>4, ListRecordsAdds, TypeIsSound
    <3>2. r \in Record
      BY <1>0 DEF TypeOK
    <3>3. r.zone = z /\ IsBase(r)
      BY <2>2, <3>1, <3>2, ListedProperties, ListedBase
    <3> QED BY <2>1, <3>3 DEF BaseThere
  <2> QED BY <2>3, <2>4
<1>5. CASE Plan(h)
  <2>1. pc[h] = "records" /\ snap'[h] = snap[h] /\ BasesFor(snap[h]) \subseteq todo'[h]
    BY <1>0, <1>5 DEF Plan, TypeOK
  <2>2. \E s \in snap[h] : s.zone = z /\ IsBase(s)
    <3>1. SUFFICES ASSUME ~\E s \in snap[h] : s.zone = z /\ IsBase(s),
                          ~\E j \in todo'[h] : j.op = "base" /\ j.zone = z
                   PROVE  FALSE
      BY <2>1
    <3>2. Call("base", z, 0, 0, {BaseRecord(z)}, {}) \in BasesFor(snap[h])
      BY <3>1 DEF BasesFor
    <3> QED BY <2>1, <3>1, <3>2 DEF Call
  <2> QED BY <2>1, <2>2, <1>a DEF Active
<1>6. CASE Answered(h)
  <2>1. /\ pc[h] = "call" /\ todo'[h] = todo[h] \ {job[h]} /\ snap'[h] = snap[h]
        /\ pc'[h] = "apply" /\ Serve(h)
    BY <1>0, <1>6 DEF Answered, Done, TypeOK
  <2>2. CASE job[h].op = "base" /\ job[h].zone = z
    <3>1. IsPlanned(h, job[h]) /\ \E r \in Record : Adds(h, r)
      BY <1>0, <2>1, <2>2, ServeMeans DEF Deletes
    <3>2. Adds(h, BaseRecord(z))
      BY <2>2, <3>1 DEF Adds, IsPlanned
    <3>3. nextId \in Nat
      BY <1>0 DEF TypeOK
    <3> DEFINE b == BaseRecord(z)
    <3>4. [b EXCEPT !.id = nextId].zone = z /\ IsBase([b EXCEPT !.id = nextId])
      BY <3>3, BaseRecordType, EntryOfNew
    <3>5. [b EXCEPT !.id = nextId] \in live'
      BY <3>2 DEF Adds
    <3> QED BY <3>4, <3>5 DEF BaseThere
  <2>3. CASE ~(job[h].op = "base" /\ job[h].zone = z)
    BY <2>1, <2>3, <1>a DEF Active
  <2> QED BY <2>2, <2>3
<1> QED
  BY <1>0, <1>1, <1>2, <1>3, <1>4, <1>5, <1>6, HandlerMoves, NextMoves, TypeIsSound

\* A delete call leaves the base record, if nobody else took it away.
LEMMA BaseIsLeft == BInv => NeverLast
<1>1. ASSUME BInv, NEW h \in Handlers, pc[h] = "call", job[h].op = "delete"
      PROVE  Remaining(job[h]) # {} \/ BaseDisturbed(h, job[h].zone)
  <2>0. MInv /\ SInv
    BY <1>1 DEF BInv, OInv, MInv
  <2>1. job[h] \in todo[h] /\ Active(h) /\ req[h] \in Requests /\ job[h].zone \in ZoneFilter
    BY <1>1, <2>0, CallIsTodo DEF BInv, OInv, TypeOK, Job
  <2>2. ~\E j \in todo[h] : j.op = "base"
    BY <1>1 DEF BInv, OInv, FirstAt
  <2>3. BaseThere(job[h].zone) \/ BaseDisturbed(h, job[h].zone)
    BY <1>1, <2>1, <2>2 DEF BInv, BaseSafe
  <2>4. ASSUME NEW r \in live, r.zone = job[h].zone, IsBase(r) PROVE r \in Remaining(job[h])
    <3>1. r \in Record
      BY <2>0 DEF SInv, Sound
    <3>2. ~AskedToRemove(req[h], Entry(r))
      BY <2>1, <2>4, <3>1, BaseIsNotAsked
    <3>3. r \notin Held(job[h].recs)
      BY <1>1, <2>0, <2>1, <3>2, DeleteIsAsked
    <3> QED BY <2>4, <3>3 DEF Remaining
  <2> QED BY <2>3, <2>4 DEF BaseThere
<1> QED BY <1>1 DEF NeverLast

\* "A Zone has at least one record. The last rule cannot be deleted."
\* (privatedns.go:176.)  No delete call empties its zone, however many handlers and
\* console users are at work, unless one of these took the base record away.
THEOREM ZonesStayFilled == Spec => []NeverLast
  BY BaseIsLeft, InitBInv, NextBInv, PTL DEF Spec
-----------------------------------------------------------------------------
(* The rest of the account.                                                  *)

NInv == TypeOK /\ MInv /\ NothingElseChanges

\* At first no handler is at work.
LEMMA InitNInv == Init => NInv
  BY InitMInv, InitSInv, TypeIsSound DEF Init, SInv, MInv, NInv, NothingElseChanges, Active

\* Every step leaves alone what it must.
LEMMA NextNInv == NInv /\ [Next]_vars => NInv'
<1> SUFFICES ASSUME NInv, [Next]_vars, NEW h \in Handlers, Active(h)'
             PROVE  (/\ Undisturbed(h, Kept(req[h], Contents(base[h])))
                          \subseteq Undisturbed(h, Contents(live))
                     /\ Undisturbed(h, Contents(live))
                          \subseteq Contents(base[h]) \cup Bases \cup Additions(req[h]))'
  BY MoveMInv, NextMoves, NextTypeOK DEF NInv, MInv, NothingElseChanges
<1>0. MInv /\ SInv /\ TypeOK
  BY DEF NInv, MInv, SInv
\* A handler that begins remembers the account as it is.
<1>1. CASE ~Active(h)
  <2>1. UNCHANGED live
    BY <1>0, <1>1, HandlerMoves, NextMoves, TypeIsSound
    DEF Rests, Begins, Quits, ListZones, ListRecords, Plan, StartCall, Answered, Active
  <2>2. base'[h] = live'
    BY <1>1, <2>1 DEF Next, Recorded, vars, handlerVars, Active
  <2> QED BY <2>2 DEF Undisturbed, Kept
\* One at work has changed what it was asked to, and others what is noted.
<1>2. CASE Active(h)
  <2>1. base'[h] = base[h] /\ foreign[h] \subseteq foreign'[h]
    BY <1>0, <1>2, HistoryGrows
  <2>2. req'[h] = req[h]
    BY <1>0, <1>2, HandlerMoves, NextMoves, TypeIsSound
    DEF Rests, Begins, Quits, ListZones, ListRecords, Plan, StartCall, Answered, Done, Active
  <2>3. ASSUME NEW e, e \in Kept(req[h], Contents(base[h])), Slot(e) \notin foreign'[h]
        PROVE  e \in Contents(live')
    <3>1. e \in Contents(live)
      BY <1>2, <2>1, <2>3 DEF NInv, NothingElseChanges, Undisturbed
    <3>2. PICK r \in live : e = Entry(r)
      BY <3>1 DEF Contents
    <3>3. r \in live'
      BY <1>0, <2>3, <3>2, RemovedIsExplained DEF Kept
    <3> QED BY <3>2, <3>3 DEF Contents
  <2>4. ASSUME NEW e, e \in Contents(live'), Slot(e) \notin foreign'[h]
        PROVE  e \in Contents(base[h]) \cup Bases \cup Additions(req[h])
    <3>1. PICK r \in live' : e = Entry(r)
      BY <2>4 DEF Contents
    <3>2. CASE r \in live
      <4>1. e \in Contents(live)
        BY <3>1, <3>2 DEF Contents
      <4> QED BY <1>2, <2>1, <2>4, <4>1 DEF NInv, NothingElseChanges, Undisturbed
    <3>3. CASE r \notin live
      BY <1>0, <2>4, <3>1, <3>3, AddedIsExplained
    <3> QED BY <3>2, <3>3
  <2> QED BY <2>1, <2>2, <2>3, <2>4 DEF Undisturbed
<1> QED BY <1>1, <1>2

\* At every moment of a handler, and so wherever it fails or the webhook dies,
\* nothing it was not asked to remove is missing, and nothing is there that it was
\* not asked to add but base records and what others made (privatedns.go:167).
THEOREM RestIsLeftAlone == Spec => []NothingElseChanges
<1>1. NInv => NothingElseChanges
  BY DEF NInv
<1> QED BY <1>1, InitNInv, NextNInv, PTL DEF Spec
-----------------------------------------------------------------------------
(* What a handler does for the outcome it promises.  Everything it has to do *)
(* is done, or has its call to come, or is others' doing.                    *)

AtCalls(h) == pc[h] \in {"apply", "call"}

\* Is a handler past its base records and its deletes?
Adding(h) == AtCalls(h) /\ \A j \in todo[h] : j.op = "create"

\* An entry in a slot that only h has been at.
Free(h, e) == Slot(e) \notin foreign[h]

\* What h has created: its creates are no more to come, or their answers are lost.
Made(h) == {Entry(r) : r \in UNION {j.recs : j \in CreatesIn(req[h]) \ todo[h]}}
Came(h, e) == e \in Made(h) \/ (hit[h] /\ e \in Additions(req[h]))

BaseEntry(z) == Entry(BaseRecord(z))
HasBase(S, z) == \E s \in S : s.zone = z /\ IsBase(s)
BaseToCome(h, z) == \E j \in todo[h] : j.op = "base" /\ j.zone = z

AccountCanonical == \A r \in live : Canonical(r)

\* The calls to come are those planned, and the creates are the last of them.
CallsAt(h) ==
  AtCalls(h) =>
    /\ todo[h] \subseteq BasesFor(snap[h]) \cup DeletesIn(req[h], snap[h]) \cup CreatesIn(req[h])
    /\ ~Adding(h) => CreatesIn(req[h]) \subseteq todo[h]

\* What is there was there before, or has been added: base records first, the
\* rest at last.
SourceAt(h) ==
  Active(h) => \A r \in live : Free(h, Entry(r)) =>
    \/ Entry(r) \in Contents(base[h])
    \/ AtCalls(h) /\ Entry(r) \in Bases
    \/ Adding(h) /\ Came(h, Entry(r))

\* What is to be removed is in the snapshot, when its zone is listed.
FoundAt(h) ==
  pc[h] = "records" \/ AtCalls(h) =>
    \A r \in live : Free(h, Entry(r)) /\ AskedToRemove(req[h], Entry(r)) =>
      \/ pc[h] = "records" /\ r.zone \in unread[h]
      \/ \E s \in snap[h] : s.id = r.id
      \/ Adding(h) /\ Came(h, Entry(r))

\* A zone has its base record, if no call is to come that makes one: the one it
\* had, or a new one.
BasedAt(h) ==
  Active(h) => \A z \in ZoneFilter :
    HasBase(snap[h], z) \/ (AtCalls(h) /\ ~BaseToCome(h, z)) =>
      \/ ~Free(h, BaseEntry(z))
      \/ BaseEntry(z) \in Contents(live)
      \/ \E e \in Contents(base[h]) : Key(e) = Key(BaseEntry(z))

\* What has been created is there.
AddedAt(h) == Adding(h) => \A e \in Made(h) : Free(h, e) => e \in Contents(live)

EditInv ==
  /\ AccountCanonical
  /\ \A h \in Handlers : CallsAt(h) /\ SourceAt(h) /\ FoundAt(h) /\ BasedAt(h) /\ AddedAt(h)

\* A zone for which a base record is to be made has none.
BarredAt(h) ==
  \A z \in ZoneFilter :
    \/ pc[h] = "records" /\ z \notin unread[h] /\ ~HasBase(snap[h], z)
    \/ AtCalls(h) /\ BaseToCome(h, z)
    => hit[h] \/ BaseDisturbed(h, z) \/ ~BaseThere(z)

\* A listed record to be removed is there until its delete is made.
GoneAt(h) ==
  Active(h) => \A s \in snap[h] : AskedToRemove(req[h], Entry(s)) =>
    \/ hit[h] \/ ~Free(h, Entry(s))
    \/ \E r \in live : r.id = s.id
    \/ AtCalls(h) /\ \A j \in todo[h] : j.op = "delete" => s \notin j.recs

CauseInv == \A h \in Handlers : BarredAt(h) /\ GoneAt(h)
-----------------------------------------------------------------------------
(* Keys of entries, and what the create calls are for.                       *)

\* Keys are equal part by part, and an entry's slot is part of its key.
LEMMA KeyParts ==
  ASSUME NEW e, NEW f
  PROVE  /\ Key(e) = Key(f) <=>
              e.zone = f.zone /\ e.name = f.name /\ e.type = f.type /\ e.value = f.value
         /\ Key(e) = Key(f) => Slot(e) = Slot(f)
  BY DEF Key, Slot

\* To ask for the removal of an entry is to ask for its key.
LEMMA AskedByKey ==
  ASSUME NEW e, NEW f, Key(e) = Key(f), NEW changes
  PROVE  AskedToRemove(changes, e) <=> AskedToRemove(changes, f)
  BY KeyParts DEF AskedToRemove

\* What an entry shows of its record.
LEMMA EntryParts ==
  ASSUME NEW r
  PROVE  /\ Entry(r).zone = r.zone /\ Entry(r).name = DnsDomain(r.sub, Zones[r.zone])
         /\ Entry(r).type = r.type /\ Entry(r).value = Listed(r).value
  BY DEF Entry

\* The value of a record as PrivateDNS holds it can be told from what is listed.
LEMMA ListedValue ==
  ASSUME NEW r \in Record, NEW s \in Record, Canonical(r), Canonical(s), r.type = s.type,
         Listed(r).value = Listed(s).value
  PROVE  r.value = s.value
<1> DEFINE Quoted(t) == t.type = "TXT" /\ t.value.text \in Heritage
<1>1. /\ r.value \in Value /\ s.value \in Value
      /\ \A v, w \in Value : v = w <=> v.text = w.text /\ v.quoted = w.quoted
  BY DEF Record, Value
<1>2. ASSUME NEW t \in Record, Canonical(t)
      PROVE  /\ Listed(t).value.text = t.value.text
             /\ Quoted(t) => Listed(t).value.quoted = TRUE /\ t.value.quoted = FALSE
             /\ ~Quoted(t) => Listed(t).value = t.value
  <2>1. CASE Quoted(t)
    <3>1. Listed(t).value = [text |-> t.value.text, quoted |-> TRUE]
      BY <2>1 DEF Listed, Record
    <3>2. t.value.quoted = FALSE
      <4>1. t.value.quoted \in BOOLEAN
        BY DEF Record, Value
      <4> QED BY <1>2, <2>1, <4>1 DEF Canonical
    <3> QED BY <2>1, <3>1, <3>2
  <2>2. CASE ~Quoted(t)
    BY <2>2 DEF Listed
  <2> QED BY <2>1, <2>2
<1>3. /\ Listed(r).value.text = r.value.text /\ Listed(s).value.text = s.value.text
  BY <1>2
<1>6. r.value.text = s.value.text
  BY <1>3
<1>4. CASE Quoted(r)
  <2>1. Quoted(s)
    BY <1>4, <1>6
  <2>2. r.value.quoted = FALSE /\ s.value.quoted = FALSE
    BY <1>2, <1>4, <2>1
  <2> QED BY <1>1, <1>6, <2>2
<1>5. CASE ~Quoted(r)
  <2>1. ~Quoted(s)
    BY <1>5, <1>6
  <2> QED BY <1>2, <1>5, <2>1
<1> QED BY <1>4, <1>5

\* Records that PrivateDNS takes for the same have one key.
LEMMA SameIsKey ==
  ASSUME NEW r \in Record, NEW s \in Record, SameRecord(r, s)
  PROVE  Key(Entry(r)) = Key(Entry(s))
<1>1. r.zone = s.zone /\ r.sub = s.sub /\ r.type = s.type /\ r.value = s.value
  BY DEF SameRecord
<1>2. Listed(r).value = Listed(s).value
  BY <1>1 DEF Listed, Record
<1>3. /\ Entry(r).zone = Entry(s).zone /\ Entry(r).name = Entry(s).name
      /\ Entry(r).type = Entry(s).type /\ Entry(r).value = Entry(s).value
  BY <1>1, <1>2 DEF Entry
<1> QED BY <1>3 DEF Key

\* The other way round needs the records to be held without quotes.
LEMMA KeyIsSame ==
  ASSUME NEW r \in Record, NEW s \in Record, Canonical(r), Canonical(s),
         Key(Entry(r)) = Key(Entry(s))
  PROVE  SameRecord(r, s)
<1>0. /\ Entry(r).zone = Entry(s).zone /\ Entry(r).name = Entry(s).name
      /\ Entry(r).type = Entry(s).type /\ Entry(r).value = Entry(s).value
  BY DEF Key
<1>1. /\ r.zone = s.zone /\ r.type = s.type /\ Listed(r).value = Listed(s).value
      /\ DnsDomain(r.sub, Zones[r.zone]) = DnsDomain(s.sub, Zones[s.zone])
  BY <1>0 DEF Entry
<1>2. /\ r.sub \in Name /\ s.sub \in Name /\ Zones[r.zone] \in Name
  BY ZonesAssumption DEF Record
<1>3. r.sub = s.sub
  BY <1>1, <1>2, SubDomainOfJoin
<1>4. r.value = s.value
  BY <1>1, ListedValue
<1> QED BY <1>1, <1>3, <1>4 DEF SameRecord

\* What a create call asks PrivateDNS for is a record as PrivateDNS holds it, with
\* the name and type of its endpoint.
LEMMA NewRecordIs ==
  ASSUME NEW ep \in Endpoint, NEW z \in FindZone(Managed, ep.name), NEW k \in DOMAIN ep.targets
  PROVE  /\ Canonical(NewRecord(ep, z, k))
         /\ NewRecord(ep, z, k) \in Record
         /\ Entry(NewRecord(ep, z, k)).zone = z
         /\ Entry(NewRecord(ep, z, k)).name = ep.name
         /\ Entry(NewRecord(ep, z, k)).type = ep.type
         /\ NewRecord(ep, z, k).value = Stripped(ep.type, ep.targets[k])
<1>1. IsEndpoint(ep) /\ z \in ZoneFilter /\ Covers(Zones[z], ep.name) /\ Zones[z] \in Name
  BY EndpointType, ZoneFound
<1>2. ep.targets[k] \in Value
  BY <1>1, LenProperties, ElementOfSeq DEF IsEndpoint
<1> DEFINE r == NewRecord(ep, z, k)
<1>3. /\ r.zone = z /\ r.sub = SubDomain(Zones[z], ep.name) /\ r.type = ep.type
      /\ r.value = Stripped(ep.type, ep.targets[k])
  BY DEF NewRecord
<1>4. ep.type = "TXT" /\ Stripped(ep.type, ep.targets[k]).text \in Heritage
        => ~Stripped(ep.type, ep.targets[k]).quoted
  BY <1>2 DEF Stripped, Value
<1>5. r \in Record
  BY <1>1, NewRecordType
<1> HIDE DEF r
<1>6. Canonical(r)
  BY <1>3, <1>4 DEF Canonical
<1>7. DnsDomain(r.sub, Zones[r.zone]) = ep.name
  BY <1>1, <1>3, SubDomainJoins DEF IsEndpoint
<1>8. Entry(r).zone = z /\ Entry(r).name = ep.name /\ Entry(r).type = ep.type
  BY <1>3, <1>7, EntryParts
<1> QED BY <1>3, <1>5, <1>6, <1>8 DEF r

\* A create call is for one target of one endpoint, in the zone of its name.
LEMMA CreateIs ==
  ASSUME NEW changes \in Requests, NEW j \in CreatesIn(changes)
  PROVE  \E i \in DOMAIN Creations(changes) : LET ep == Creations(changes)[i] IN
           /\ ep \in Endpoint /\ ep \in ToAdd(changes)
           /\ \E z \in FindZone(Managed, ep.name), k \in DOMAIN ep.targets :
                j = Call("create", z, i, k, {NewRecord(ep, z, k)}, {})
<1> DEFINE eps == Creations(changes)
<1>1. PICK i \in DOMAIN eps : \E z \in FindZone(Managed, eps[i].name) :
        \E k \in DOMAIN eps[i].targets : j = Call("create", z, i, k, {NewRecord(eps[i], z, k)}, {})
  BY DEF CreatesIn
<1>2. eps[i] \in Endpoint /\ eps[i] \in ToAdd(changes)
  BY RequestProperties, RequestsType
<1> QED BY <1>1, <1>2

\* Its record is one the changes ask to add, as PrivateDNS holds it.
LEMMA CreateRecord ==
  ASSUME NEW changes \in Requests, NEW j \in CreatesIn(changes)
  PROVE  /\ j.op = "create"
         /\ \E r \in Record : j.recs = {r} /\ Canonical(r) /\ Entry(r) \in Additions(changes)
<1>1. PICK i \in DOMAIN Creations(changes) : LET ep == Creations(changes)[i] IN
        /\ ep \in Endpoint /\ ep \in ToAdd(changes)
        /\ \E z \in FindZone(Managed, ep.name), k \in DOMAIN ep.targets :
             j = Call("create", z, i, k, {NewRecord(ep, z, k)}, {})
  BY CreateIs
<1> DEFINE ep == Creations(changes)[i]
<1>2. PICK z \in FindZone(Managed, ep.name), k \in DOMAIN ep.targets :
        j = Call("create", z, i, k, {NewRecord(ep, z, k)}, {})
  BY <1>1
<1>3. j.op = "create" /\ j.recs = {NewRecord(ep, z, k)}
  BY <1>2 DEF Call
<1>4. NewRecord(ep, z, k) \in Record /\ Canonical(NewRecord(ep, z, k))
  BY <1>1, NewRecordIs
<1>5. Entry(NewRecord(ep, z, k)) \in Additions(changes)
  BY <1>1 DEF Additions
<1> QED BY <1>3, <1>4, <1>5

\* Every record to be added has its create call.
LEMMA AdditionsAreCreated ==
  ASSUME NEW changes \in Requests, NEW a \in Additions(changes)
  PROVE  \E j \in CreatesIn(changes) : \E r \in j.recs : Entry(r) = a
<1> DEFINE eps == Creations(changes)
<1>1. PICK ep \in ToAdd(changes) : \E k \in DOMAIN ep.targets, z \in FindZone(Managed, ep.name) :
        a = Entry(NewRecord(ep, z, k))
  BY DEF Additions
<1>2. PICK k \in DOMAIN ep.targets, z \in FindZone(Managed, ep.name) : a = Entry(NewRecord(ep, z, k))
  BY <1>1
<1>3. \E i \in DOMAIN eps : eps[i] = ep
  BY RequestProperties, RequestsType
<1>4. PICK i \in DOMAIN eps : eps[i] = ep
  BY <1>3
<1> DEFINE Of(n, y) == {Call("create", y, n, l, {NewRecord(eps[n], y, l)}, {})
                          : l \in DOMAIN eps[n].targets}
<1>5. Call("create", z, i, k, {NewRecord(ep, z, k)}, {}) \in CreatesIn(changes)
  <2>1. Call("create", z, i, k, {NewRecord(ep, z, k)}, {}) \in Of(i, z)
    BY <1>4
  <2>2. Of(i, z) \in {Of(i, y) : y \in FindZone(Managed, eps[i].name)}
    BY <1>4
  <2> HIDE DEF Of
  <2> DEFINE In(n) == UNION {Of(n, y) : y \in FindZone(Managed, eps[n].name)}
             call == Call("create", z, i, k, {NewRecord(ep, z, k)}, {})
  <2>3. call \in In(i)
    BY <2>1, <2>2
  <2>4. CreatesIn(changes) = UNION {In(n) : n \in DOMAIN eps}
    BY DEF CreatesIn, Of
  <2>5. i \in DOMAIN eps
    BY <1>4
  <2> HIDE DEF In, call, eps
  <2>6. call \in CreatesIn(changes)
    BY <2>3, <2>4, <2>5
  <2> QED BY <2>6 DEF call
<1>6. Call("create", z, i, k, {NewRecord(ep, z, k)}, {}).recs = {NewRecord(ep, z, k)}
  BY DEF Call
<1> QED BY <1>2, <1>5, <1>6

\* It has the name and type of an endpoint to be added.
LEMMA AdditionSlot ==
  ASSUME NEW changes \in Requests, NEW a \in Additions(changes)
  PROVE  \E ep \in ToAdd(changes) : <<ep.name, ep.type>> = Slot(a)
<1>1. PICK ep \in ToAdd(changes) : \E k \in DOMAIN ep.targets, z \in FindZone(Managed, ep.name) :
        a = Entry(NewRecord(ep, z, k))
  BY DEF Additions
<1>2. PICK k \in DOMAIN ep.targets, z \in FindZone(Managed, ep.name) : a = Entry(NewRecord(ep, z, k))
  BY <1>1
<1>3. ep \in Endpoint
  BY RequestProperties, RequestsType
<1>4. a.name = ep.name /\ a.type = ep.type
  BY <1>2, <1>3, NewRecordIs
<1> QED BY <1>4 DEF Slot

\* Two create calls for one record are two that the changes ask for.
LEMMA TwoCreates ==
  ASSUME NEW changes \in Requests,
         NEW i \in CreatesIn(changes), NEW j \in CreatesIn(changes), i # j,
         NEW r \in i.recs, NEW s \in j.recs, Key(Entry(r)) = Key(Entry(s))
  PROVE  AddedTwice(changes)
<1> DEFINE eps == Creations(changes)
<1>1. PICK m \in DOMAIN eps : LET ep == eps[m] IN
        /\ ep \in Endpoint /\ ep \in ToAdd(changes)
        /\ \E z \in FindZone(Managed, ep.name), k \in DOMAIN ep.targets :
             i = Call("create", z, m, k, {NewRecord(ep, z, k)}, {})
  BY CreateIs
<1>2. PICK n \in DOMAIN eps : LET ep == eps[n] IN
        /\ ep \in Endpoint /\ ep \in ToAdd(changes)
        /\ \E z \in FindZone(Managed, ep.name), k \in DOMAIN ep.targets :
             j = Call("create", z, n, k, {NewRecord(ep, z, k)}, {})
  BY CreateIs
<1>3. PICK y \in FindZone(Managed, eps[m].name), k \in DOMAIN eps[m].targets :
        i = Call("create", y, m, k, {NewRecord(eps[m], y, k)}, {})
  BY <1>1
<1>4. PICK z \in FindZone(Managed, eps[n].name), l \in DOMAIN eps[n].targets :
        j = Call("create", z, n, l, {NewRecord(eps[n], z, l)}, {})
  BY <1>2
<1>5. r = NewRecord(eps[m], y, k) /\ s = NewRecord(eps[n], z, l)
  BY <1>3, <1>4 DEF Call
<1>6. /\ r \in Record /\ Canonical(r) /\ Entry(r).zone = y /\ Entry(r).name = eps[m].name
      /\ Entry(r).type = eps[m].type /\ r.value = Stripped(eps[m].type, eps[m].targets[k])
  BY <1>1, <1>5, NewRecordIs
<1>7. /\ s \in Record /\ Canonical(s) /\ Entry(s).zone = z /\ Entry(s).name = eps[n].name
      /\ Entry(s).type = eps[n].type /\ s.value = Stripped(eps[n].type, eps[n].targets[l])
  BY <1>2, <1>5, NewRecordIs
<1>8. y = z /\ eps[m].name = eps[n].name /\ eps[m].type = eps[n].type
  BY <1>6, <1>7, KeyParts
<1>9. r.value = s.value
  BY <1>6, <1>7, KeyIsSame DEF SameRecord
<1>10. <<m, k>> # <<n, l>>
  BY <1>3, <1>4, <1>8
<1> QED BY <1>6, <1>7, <1>8, <1>9, <1>10 DEF AddedTwice
-----------------------------------------------------------------------------
(* What a step is to a handler at work, with what the history notes of it.   *)

HitType == hit \in [Handlers -> BOOLEAN]

Alone(h) == base'[h] = base[h] /\ foreign'[h] = foreign[h]

\* The handler stays where it is, at most with its next attempt to come, and what
\* happens to the account is noted as others' doing.
Waits(h) ==
  /\ pc'[h] = pc[h] /\ req'[h] = req[h] /\ unread'[h] = unread[h]
  /\ snap'[h] = snap[h] /\ todo'[h] = todo[h] /\ job'[h] = job[h]
  /\ base'[h] = base[h] /\ foreign[h] \subseteq foreign'[h] /\ (hit[h] => hit'[h])
  /\ \A r \in (live \ live') \cup (live' \ live) : Slot(Entry(r)) \in foreign'[h]

\* It takes up a request, and remembers the account as it is.
Opens(h) ==
  /\ pc'[h] = "zones" /\ req'[h] \in Requests /\ snap'[h] = {} /\ todo'[h] = {}
  /\ live' = live /\ base'[h] = live

\* Its call is executed, and done with, or its answer lost.
Works(h) ==
  /\ pc[h] = "call" /\ Alone(h)
  /\ req'[h] = req[h] /\ unread'[h] = unread[h] /\ snap'[h] = snap[h]
  /\ \/ pc'[h] = "apply" /\ todo'[h] = todo[h] \ {job[h]} /\ hit'[h] = hit[h]
     \/ pc'[h] = "call" /\ todo'[h] = todo[h] /\ hit'[h] = TRUE
  /\ Deletes(h) \/ \E r \in Record : Adds(h, r)

\* It reads, plans or chooses.
Reads(h) ==
  /\ live' = live /\ req'[h] = req[h] /\ hit'[h] = hit[h] /\ Alone(h)
  /\ ListZones(h) \/ ListRecords(h) \/ Plan(h) \/ StartCall(h)

\* That is all a step may be to a handler that is at work after it.
LEMMA WorkMoves ==
  ASSUME SInv, HitType, [Next]_vars, NEW h \in Handlers, Active(h)'
  PROVE  /\ ~Active(h) => Opens(h)
         /\ Active(h) => Waits(h) \/ Reads(h) \/ Works(h)
<1>0. /\ pc \in [Handlers -> PcValues] /\ req \in [Handlers -> Change \cup {None}]
      /\ unread \in [Handlers -> SUBSET ZoneFilter] /\ snap \in [Handlers -> SUBSET Record]
      /\ todo \in [Handlers -> SUBSET Job] /\ job \in [Handlers -> Job \cup {None}]
      /\ ~Active(h) => snap[h] = {} /\ todo[h] = {}
  BY DEF SInv, Sound
<1>a. ASSUME NEW by, Recorded(by)
      PROVE  /\ base'[h] = IF Active(h) THEN base[h] ELSE live
             /\ by = h => foreign'[h] = foreign[h]
             /\ by # h => foreign'[h] = foreign[h] \cup Slots((live \ live') \cup (live' \ live))
  BY <1>a DEF Recorded
\* Others at work: it stays as it is.
<1>b. ASSUME NEW by, by # h, Recorded(by), Active(h),
             /\ pc'[h] = pc[h] /\ req'[h] = req[h] /\ unread'[h] = unread[h] /\ hit'[h] = hit[h]
             /\ snap'[h] = snap[h] /\ todo'[h] = todo[h] /\ job'[h] = job[h]
      PROVE  Waits(h)
  BY <1>a, <1>b DEF Waits, Slots
<1>1. ASSUME NEW g \in Handlers, g # h, HandlerStep(g), Recorded(g)
      PROVE  Active(h) /\ Waits(h)
  <2>1. /\ pc'[h] = pc[h] /\ req'[h] = req[h] /\ unread'[h] = unread[h]
        /\ snap'[h] = snap[h] /\ todo'[h] = todo[h] /\ job'[h] = job[h]
    <3>1. CASE ListZones(g) \/ ListRecords(g) \/ Plan(g) \/ StartCall(g)
      BY <1>0, <1>1, <3>1 DEF ListZones, ListRecords, Plan, StartCall
    <3>2. CASE Again(g) \/ Done(g) \/ \E result \in {"ok", "failed"} : End(g, result)
      BY <1>0, <1>1, <3>2 DEF Again, Done, End
    <3> QED
      BY <1>1, <3>1, <3>2
      DEF HandlerStep, Succeed, Answered, Refused, AnswerLost, NotExecuted, Throttled
  <2>2. hit'[h] = hit[h]
    <3>1. CASE AnswerLost(g)
      BY <1>1, <3>1 DEF AnswerLost, Fault, HitType
    <3>2. CASE NotExecuted(g)
      BY <1>1, <3>2 DEF NotExecuted, Fault, HitType
    <3>3. CASE Throttled(g)
      BY <1>1, <3>3 DEF Throttled, Fault, HitType
    <3>4. CASE ListZones(g) \/ ListRecords(g) \/ Plan(g) \/ StartCall(g) \/ Succeed(g)
      BY <3>4 DEF ListZones, ListRecords, Plan, StartCall, Succeed
    <3>5. CASE Answered(g) \/ Refused(g)
      BY <3>5 DEF Answered, Refused
    <3> QED BY <1>1, <3>1, <3>2, <3>3, <3>4, <3>5 DEF HandlerStep
  <2>3. Active(h)
    BY <2>1 DEF Active
  <2> QED BY <1>1, <1>b, <2>1, <2>2, <2>3
<1>2. ASSUME HandlerStep(h), Recorded(h)
      PROVE  Active(h) /\ (Waits(h) \/ Reads(h) \/ Works(h))
  <2>1. Active(h)
    BY <1>2
    DEF HandlerStep, ListZones, ListRecords, Plan, StartCall, Succeed, Answered, Refused,
        AnswerLost, NotExecuted, Throttled, Calling, Active
  <2>2. Alone(h)
    BY <1>2, <1>a, <2>1 DEF Alone
  <2>3. ASSUME NEW result \in {"ok", "failed"}, End(h, result) PROVE FALSE
    BY <1>0, <2>3 DEF End, Active
  <2>4. CASE ListZones(h) \/ ListRecords(h) \/ Plan(h) \/ StartCall(h)
    BY <1>0, <2>1, <2>2, <2>4 DEF Reads, ListZones, ListRecords, Plan, StartCall
  <2>5. ASSUME Again(h), live' = live, hit[h] => hit'[h] PROVE Waits(h)
    BY <2>2, <2>5 DEF Again, Alone, Waits
  <2>6. CASE Answered(h)
    BY <1>0, <2>1, <2>2, <2>6, ServeMeans DEF Answered, Done, Works
  <2>7. CASE Refused(h)
    BY <2>1, <2>3, <2>5, <2>7 DEF Refused
  <2>8. CASE AnswerLost(h)
    <3>1. Again(h) /\ hit'[h] = TRUE /\ pc[h] = "call" /\ Serve(h)
      BY <1>0, <2>3, <2>8 DEF AnswerLost, Fault, HitType
    <3> QED BY <2>1, <2>2, <3>1, ServeMeans DEF Again, Works
  <2>9. CASE NotExecuted(h) \/ Throttled(h)
    <3>1. Again(h) /\ live' = live /\ (hit[h] => hit'[h])
      BY <1>0, <2>3, <2>9 DEF NotExecuted, Throttled, Fault, HitType
    <3> QED BY <2>1, <2>5, <3>1
  <2>10. CASE Succeed(h)
    BY <2>3, <2>10 DEF Succeed
  <2> QED BY <1>2, <2>4, <2>6, <2>7, <2>8, <2>9, <2>10 DEF HandlerStep
<1>3. ASSUME NEW g \in Handlers, NEW changes \in Requests, Receive(g, changes), Recorded("others")
      PROVE  (~Active(h) => Opens(h)) /\ (Active(h) => Waits(h))
  <2>1. CASE g = h
    <3>1. /\ ~Active(h) /\ live' = live /\ req'[h] = changes /\ snap'[h] = {} /\ todo'[h] = {}
          /\ pc'[h] \in {"zones", "ok"}
      BY <1>0, <1>3, <2>1 DEF Receive, Take
    <3>2. pc'[h] = "zones"
      BY <3>1 DEF Active
    <3> QED BY <1>3, <1>a, <3>1, <3>2 DEF Opens
  <2>2. CASE g # h
    <3>1. /\ pc'[h] = pc[h] /\ req'[h] = req[h] /\ unread'[h] = unread[h] /\ hit'[h] = hit[h]
          /\ snap'[h] = snap[h] /\ todo'[h] = todo[h] /\ job'[h] = job[h]
      BY <1>0, <1>3, <2>2 DEF Receive, Take, HitType
    <3>2. Active(h)
      BY <3>1 DEF Active
    <3> QED BY <1>3, <1>b, <3>1, <3>2, HandlersAssumption
  <2> QED BY <2>1, <2>2
<1>4. ASSUME Crash PROVE FALSE
  BY <1>4 DEF Crash, Active
<1>5. ASSUME ConsoleAdd \/ ConsoleRemove, Recorded("others") PROVE Active(h) /\ Waits(h)
  <2>1. /\ pc'[h] = pc[h] /\ req'[h] = req[h] /\ unread'[h] = unread[h] /\ hit'[h] = hit[h]
        /\ snap'[h] = snap[h] /\ todo'[h] = todo[h] /\ job'[h] = job[h]
    BY <1>5 DEF ConsoleAdd, ConsoleRemove, handlerVars
  <2>2. Active(h)
    BY <2>1 DEF Active
  <2> QED BY <1>5, <1>b, <2>1, <2>2, HandlersAssumption
<1>6. CASE UNCHANGED vars
  BY <1>6 DEF vars, handlerVars, Waits, Active
<1> QED
  BY <1>1, <1>2, <1>3, <1>4, <1>5, <1>6 DEF Next, Environment
-----------------------------------------------------------------------------
(* The invariant is inductive.                                               *)

EditState == BInv /\ NInv /\ HitType /\ EditInv

\* What the earlier parts of the invariant say of a handler.
LEMMA Known ==
  ASSUME EditState, NEW h \in Handlers
  PROVE  /\ OInv /\ MInv /\ SInv /\ TypeOK /\ AccountCanonical
         /\ CallsAt(h) /\ SourceAt(h) /\ FoundAt(h) /\ BasedAt(h) /\ AddedAt(h)
         /\ Active(h) => req[h] \in Requests
         /\ \A r \in live : r \in Record
         /\ \A s \in snap[h] : s \in Record
         /\ \A j \in todo[h] : j \in Job /\ IsPlanned(h, j)
  BY DEF EditState, BInv, OInv, NInv, MInv, SInv, TypeOK, EditInv, CallsPlanned

\* The mark of a fault is a truth value,
LEMMA NextHit == HitType /\ [Next]_vars => HitType'
<1> SUFFICES ASSUME HitType, [Next]_vars PROVE HitType'
  OBVIOUS
<1> USE DEF HitType
<1>1. ASSUME NEW h \in Handlers, HandlerStep(h) PROVE HitType'
  <2>1. CASE AnswerLost(h)
    BY <2>1 DEF AnswerLost, Fault
  <2>2. CASE NotExecuted(h)
    BY <2>2 DEF NotExecuted, Fault, LastAttempt
  <2>3. CASE Throttled(h)
    BY <2>3 DEF Throttled, Fault
  <2>4. CASE ListZones(h) \/ ListRecords(h) \/ Plan(h) \/ StartCall(h) \/ Succeed(h)
    BY <2>4 DEF ListZones, ListRecords, Plan, StartCall, Succeed
  <2>5. CASE Answered(h) \/ Refused(h)
    BY <2>5 DEF Answered, Refused
  <2> QED BY <1>1, <2>1, <2>2, <2>3, <2>4, <2>5 DEF HandlerStep
<1>2. ASSUME NEW h \in Handlers, NEW changes \in Requests, Receive(h, changes) PROVE HitType'
  BY <1>2 DEF Receive, Take
<1>3. CASE Crash
  BY <1>3 DEF Crash, Active
<1>4. CASE ConsoleAdd \/ ConsoleRemove \/ UNCHANGED vars
  BY <1>4 DEF ConsoleAdd, ConsoleRemove, vars
<1> QED BY <1>1, <1>2, <1>3, <1>4 DEF Next, Environment

\* What the account gains is held without quotes.
LEMMA NextCanonical ==
  ASSUME EditState, [Next]_vars
  PROVE  AccountCanonical'
<1>1. AccountCanonical /\ SInv /\ nextId \in Nat
  BY DEF EditState, EditInv, BInv, OInv, MInv, SInv, TypeOK
<1>2. ASSUME NEW r \in Record, Canonical(r), live' = live \cup {[r EXCEPT !.id = nextId]}
      PROVE  AccountCanonical'
  <2>1. Canonical([r EXCEPT !.id = nextId])
    BY <1>2 DEF Canonical, Record
  <2> QED BY <1>1, <1>2, <2>1 DEF AccountCanonical
<1>3. ASSUME NEW h \in Handlers, pc[h] = "call", job[h] \in Job, IsPlanned(h, job[h]),
             NEW r \in Record, Adds(h, r)
      PROVE  Canonical(r)
  <2>1. CASE job[h].op = "base"
    <3>1. r = BaseRecord(job[h].zone)
      BY <1>3, <2>1 DEF IsPlanned, Adds
    <3> QED BY <3>1, ValuesAssumption DEF BaseRecord, Canonical
  <2>2. CASE job[h].op = "create"
    <3>1. job[h] \in todo[h] /\ req[h] \in Requests /\ AtCalls(h) /\ CallsAt(h)
          /\ \A j \in todo[h] : j \in Job
      BY <1>1, <1>3, Known, CallIsTodo DEF AtCalls
    <3>2. req[h] \in Requests /\ snap[h] \in SUBSET Record /\ \A s \in snap[h] : Listed(s) = s
      BY <1>1, <3>1 DEF SInv, Sound, SnapshotsListed
    <3>3. job[h] \in CreatesIn(req[h])
      BY <2>2, <3>1, <3>2, BasesType, DeletesType, RequestsType DEF CallsAt
    <3> QED BY <1>3, <3>1, <3>3, CreateRecord DEF Adds
  <2> QED BY <1>3, <2>1, <2>2 DEF Adds
<1>4. ASSUME ConsoleAdd PROVE AccountCanonical'
  <2>1. PICK r \in ConsoleRecords : live' = live \cup {[r EXCEPT !.id = nextId]}
    BY <1>4 DEF ConsoleAdd
  <2> QED BY <1>2, <2>1, CanonicalAssumption, RecordsAssumption
<1>5. ASSUME live' \subseteq live PROVE AccountCanonical'
  BY <1>1, <1>5 DEF AccountCanonical
<1> QED
  BY <1>1, <1>2, <1>3, <1>4, <1>5, AccountMoves DEF Deletes, Adds, ConsoleRemove

\* Two records of the account do not look the same.
LEMMA EntriesDiffer ==
  ASSUME TypeOK, AccountCanonical, NEW r \in live, NEW s \in live,
         Key(Entry(r)) = Key(Entry(s))
  PROVE  r = s
  BY KeyIsSame DEF TypeOK, AccountCanonical

\* The kind of a call to come tells where it was planned, and where the handler is.
LEMMA KindOfCall ==
  ASSUME EditState, NEW h \in Handlers, AtCalls(h), NEW j \in todo[h]
  PROVE  /\ j.op = "base" => j \in BasesFor(snap[h])
         /\ j.op = "delete" => j \in DeletesIn(req[h], snap[h])
         /\ j.op = "create" => j \in CreatesIn(req[h])
         /\ j.op \in {"base", "delete", "create"}
<1>1. req[h] \in Requests /\ snap[h] \in SUBSET Record /\ \A s \in snap[h] : Listed(s) = s
  BY Known DEF AtCalls, Active, SInv, TypeOK, SnapshotsListed
<1>2. j \in BasesFor(snap[h]) \/ j \in DeletesIn(req[h], snap[h]) \/ j \in CreatesIn(req[h])
  BY Known DEF CallsAt
<1>3. /\ j \in BasesFor(snap[h]) => j.op = "base"
      /\ j \in DeletesIn(req[h], snap[h]) => j.op = "delete"
      /\ j \in CreatesIn(req[h]) => j.op = "create"
  BY <1>1, BasesType, DeletesType, RequestsType, CreateRecord
<1> QED BY <1>2, <1>3

\* Of each kind but creates there is one call for a zone.
LEMMA OneForZone ==
  ASSUME EditState, NEW h \in Handlers, AtCalls(h), NEW i \in todo[h], NEW j \in todo[h],
         i.op = j.op, i.zone = j.zone, i.op # "create"
  PROVE  i = j
<1>1. ASSUME NEW k \in BasesFor(snap[h])
      PROVE  k = Call("base", k.zone, 0, 0, {BaseRecord(k.zone)}, {})
  BY <1>1 DEF BasesFor, Call
<1>2. ASSUME NEW k \in DeletesIn(req[h], snap[h])
      PROVE  k = Call("delete", k.zone, 0, 0, DoomedIn(k.zone, req[h], snap[h]),
                      DoomedTwiceIn(k.zone, req[h], snap[h]))
  BY <1>2 DEF DeletesIn, Call
<1>3. CASE i.op = "base"
  BY <1>1, <1>3, KindOfCall
<1>4. CASE i.op = "delete"
  BY <1>2, <1>4, KindOfCall
<1> QED BY <1>3, <1>4, KindOfCall

\* Creates are made when nothing else is to come, and the rest before.
LEMMA Phases ==
  ASSUME EditState, NEW h \in Handlers, pc[h] = "call"
  PROVE  /\ job[h] \in todo[h] /\ AtCalls(h) /\ Active(h) /\ req[h] \in Requests
         /\ job[h].op = "create" => Adding(h)
         /\ job[h].op # "create" => ~Adding(h)
         /\ job[h].op # "base" => \A j \in todo[h] : j.op # "base"
<1>1. job[h] \in todo[h] /\ AtCalls(h) /\ Active(h) /\ req[h] \in Requests
  BY Known, CallIsTodo DEF AtCalls
<1>2. FirstAt(h)
  BY DEF EditState, BInv, OInv
<1>3. \A j \in todo[h] : j.op \in {"base", "delete", "create"}
  BY <1>1, KindOfCall
<1> QED BY <1>1, <1>2, <1>3 DEF FirstAt, Adding

\* What has come from a handler stays so while it goes on.
LEMMA CameStays ==
  ASSUME NEW h, req'[h] = req[h], todo'[h] \subseteq todo[h], hit[h] => hit'[h]
  PROVE  /\ Made(h) \subseteq Made(h)'
         /\ \A e : Came(h, e) => Came(h, e)'
  BY DEF Made, Came

\* A call that is executed deletes, or adds a base record, before the creates; or
\* adds what it creates.
LEMMA WorksAt ==
  ASSUME EditState, NEW h \in Handlers, Works(h)
  PROVE  /\ pc[h] = "call" /\ Active(h) /\ Active(h)' /\ AtCalls(h) /\ AtCalls(h)'
         /\ req'[h] = req[h] /\ req[h] \in Requests /\ snap'[h] = snap[h] /\ Alone(h)
         /\ todo'[h] \subseteq todo[h] /\ (hit[h] => hit'[h]) /\ (Adding(h) => Adding(h)')
         /\ (todo'[h] = todo[h] \ {job[h]} /\ job[h] \in todo[h]) \/ (todo'[h] = todo[h] /\ hit'[h])
         /\ \/ ~Adding(h) /\ job[h].op = "delete" /\ Deletes(h)
            \/ /\ ~Adding(h) /\ job[h].op = "base" /\ job[h].zone \in ZoneFilter
               /\ Adds(h, BaseRecord(job[h].zone))
            \/ /\ Adding(h) /\ job[h].op = "create" /\ job[h] \in CreatesIn(req[h])
               /\ \E r \in Record : Adds(h, r) /\ Entry(r) \in Additions(req[h])
<1>1. /\ pc[h] = "call" /\ pc'[h] \in {"apply", "call"} /\ Alone(h)
      /\ req'[h] = req[h] /\ snap'[h] = snap[h] /\ todo'[h] \subseteq todo[h]
      /\ hit[h] => hit'[h]
      /\ todo'[h] = todo[h] \ {job[h]} \/ (todo'[h] = todo[h] /\ hit'[h])
      /\ Deletes(h) \/ \E r \in Record : Adds(h, r)
  BY DEF Works
<1>2. /\ Active(h) /\ Active(h)' /\ AtCalls(h) /\ AtCalls(h)' /\ job[h] \in todo[h]
      /\ req[h] \in Requests /\ (Adding(h) => Adding(h)')
      /\ job[h].op = "create" => Adding(h)
      /\ job[h].op # "create" => ~Adding(h)
  BY <1>1, Phases DEF Active, AtCalls, Adding
<1>3. job[h] \in Job /\ IsPlanned(h, job[h])
  BY <1>2, Known
<1>4. CASE Deletes(h)
  BY <1>1, <1>2, <1>4 DEF Deletes
<1>5. ASSUME NEW r \in Record, Adds(h, r), job[h].op = "base"
      PROVE  job[h].zone \in ZoneFilter /\ Adds(h, BaseRecord(job[h].zone))
  <2>1. r = BaseRecord(job[h].zone) /\ job[h].zone \in ZoneFilter
    BY <1>3, <1>5 DEF Adds, IsPlanned, Job
  <2> QED BY <1>5, <2>1
<1>6. ASSUME NEW r \in Record, Adds(h, r), job[h].op = "create"
      PROVE  Entry(r) \in Additions(req[h]) /\ job[h] \in CreatesIn(req[h])
  <2>1. job[h] \in CreatesIn(req[h])
    BY <1>2, <1>6, KindOfCall
  <2> QED BY <1>3, <1>6, <2>1 DEF Adds, IsPlanned
<1>7. ASSUME NEW r \in Record, Adds(h, r) PROVE job[h].op \in {"base", "create"}
  BY <1>7 DEF Adds
<1> QED
  BY <1>1, <1>2, <1>4, <1>5, <1>6, <1>7

\* The steps that touch neither the account nor the history.
LEMMA ReadsAt ==
  ASSUME EditState, NEW h \in Handlers, Reads(h)
  PROVE  /\ live' = live /\ req'[h] = req[h] /\ hit'[h] = hit[h] /\ Alone(h)
         /\ Active(h) /\ Active(h)' /\ req[h] \in Requests
         /\ \/ /\ ListZones(h) /\ pc[h] = "zones" /\ pc'[h] = "records"
               /\ unread'[h] = ZoneFilter /\ snap'[h] = snap[h] /\ todo'[h] = todo[h]
            \/ /\ ListRecords(h) /\ pc[h] = "records" /\ pc'[h] = "records" /\ todo'[h] = todo[h]
               /\ \E z \in unread[h] :
                    /\ unread'[h] = unread[h] \ {z}
                    /\ snap'[h] = snap[h] \cup {Listed(r) : r \in {r \in live : r.zone = z}}
            \/ /\ Plan(h) /\ pc[h] = "records" /\ pc'[h] = "apply" /\ unread[h] = {}
               /\ snap'[h] = snap[h]
               /\ todo'[h] = BasesFor(snap[h]) \cup DeletesIn(req[h], snap[h]) \cup CreatesIn(req[h])
            \/ /\ StartCall(h) /\ pc[h] = "apply" /\ pc'[h] = "call"
               /\ snap'[h] = snap[h] /\ todo'[h] = todo[h]
<1>1. /\ pc \in [Handlers -> PcValues] /\ unread \in [Handlers -> SUBSET ZoneFilter]
      /\ todo \in [Handlers -> SUBSET Job] /\ snap \in [Handlers -> SUBSET Record]
      /\ Active(h) => req[h] \in Requests
  BY Known DEF TypeOK
<1>2. live' = live /\ req'[h] = req[h] /\ hit'[h] = hit[h] /\ Alone(h)
  BY DEF Reads
<1>3. CASE ListZones(h)
  BY <1>1, <1>2, <1>3 DEF ListZones, Active
<1>4. CASE ListRecords(h)
  BY <1>1, <1>2, <1>4 DEF ListRecords, Active
<1>5. CASE Plan(h)
  BY <1>1, <1>2, <1>5 DEF Plan, Active
<1>6. CASE StartCall(h)
  BY <1>1, <1>2, <1>6 DEF StartCall, Active
<1> QED BY <1>3, <1>4, <1>5, <1>6 DEF Reads

\* All a step may be to a handler at work after it.
LEMMA Moves ==
  ASSUME EditState, [Next]_vars, NEW h \in Handlers, Active(h)'
  PROVE  \/ ~Active(h) /\ Opens(h)
         \/ Active(h) /\ (Waits(h) \/ Reads(h) \/ Works(h))
  BY WorkMoves, Known DEF EditState

\* One that waits stays at its place in the work.
LEMMA WaitsAt ==
  ASSUME NEW h, Waits(h)
  PROVE  /\ Active(h)' <=> Active(h)
         /\ AtCalls(h)' <=> AtCalls(h)
         /\ Adding(h)' <=> Adding(h)
         /\ \A e : Free(h, e)' => Free(h, e)
         /\ \A r : Free(h, Entry(r))' => (r \in live' <=> r \in live)
         /\ \A e : Came(h, e) => Came(h, e)'
  BY CameStays DEF Waits, Active, AtCalls, Adding, Free

\* The calls to come are those planned, creates last.
LEMMA NextCalls ==
  ASSUME EditState, [Next]_vars, NEW h \in Handlers
  PROVE  CallsAt(h)'
<1> SUFFICES ASSUME AtCalls(h)' PROVE CallsAt(h)'
  BY DEF CallsAt
<1>0. CallsAt(h) /\ Active(h)'
  BY Known DEF AtCalls, Active
<1>1. CASE Opens(h)
  BY <1>1 DEF Opens, AtCalls
<1>2. CASE Waits(h)
  BY <1>0, <1>2, WaitsAt DEF Waits, CallsAt
<1>3. CASE Reads(h)
  BY <1>0, <1>3, ReadsAt DEF AtCalls, Adding, CallsAt
<1>4. CASE Works(h)
  <2>1. /\ AtCalls(h) /\ req'[h] = req[h] /\ snap'[h] = snap[h] /\ todo'[h] \subseteq todo[h]
        /\ req[h] \in Requests /\ (Adding(h) => Adding(h)')
        /\ todo'[h] = todo[h] \ {job[h]} \/ todo'[h] = todo[h]
        /\ ~Adding(h) => job[h].op # "create"
    BY <1>4, WorksAt
  <2>2. ASSUME ~Adding(h)' PROVE CreatesIn(req[h]) \subseteq todo'[h]
    <3>1. CreatesIn(req[h]) \subseteq todo[h] /\ job[h].op # "create"
      BY <1>0, <2>1, <2>2 DEF CallsAt
    <3>2. \A j \in CreatesIn(req[h]) : j.op = "create"
      BY <2>1, CreateRecord
    <3> QED BY <2>1, <3>1, <3>2
  <2> QED BY <1>0, <2>1, <2>2 DEF CallsAt
<1> QED BY <1>0, <1>1, <1>2, <1>3, <1>4, Moves

\* A record that is new to the account is the one the call adds.
LEMMA AddsOne ==
  ASSUME SInv, NEW h \in Handlers, NEW s \in Record, Adds(h, s), NEW r \in live', r \notin live
  PROVE  r = [s EXCEPT !.id = nextId] /\ Entry(r) = Entry(s) /\ r.zone = s.zone
<1>1. r = [s EXCEPT !.id = nextId] /\ nextId \in Nat
  BY DEF Adds, SInv, Sound
<1> QED BY <1>1, EntryOfNew

\* A base record is not asked to be removed, whichever zone.
LEMMA BaseNotAsked ==
  ASSUME NEW changes \in Requests, NEW z \in ZoneFilter
  PROVE  ~AskedToRemove(changes, BaseEntry(z)) /\ BaseEntry(z) \in Bases
  BY BasesAssumption, BaseRecordType DEF BaseEntry

\* It is a base record, or from then on one that has come from the handler.
LEMMA NewComes ==
  ASSUME EditState, NEW h \in Handlers, Works(h), NEW r \in live', r \notin live
  PROVE  \/ /\ ~Adding(h) /\ job[h].op = "base" /\ job[h].zone \in ZoneFilter
            /\ Entry(r) = BaseEntry(job[h].zone)
         \/ Adding(h) /\ Adding(h)' /\ job[h].op = "create" /\ Came(h, Entry(r))'
<1>0. SInv
  BY Known
<1>1. CASE ~Adding(h)
  <2>1. job[h].op = "base" /\ job[h].zone \in ZoneFilter /\ Adds(h, BaseRecord(job[h].zone))
    BY <1>1, WorksAt DEF Deletes
  <2> QED BY <1>0, <1>1, <2>1, AddsOne, BaseRecordType DEF BaseEntry
<1>2. CASE Adding(h)
  <2>1. /\ job[h] \in CreatesIn(req[h]) /\ job[h].op = "create"
        /\ \E s \in Record : Adds(h, s) /\ Entry(s) \in Additions(req[h])
        /\ Adding(h)' /\ req'[h] = req[h]
    BY <1>2, WorksAt
  <2>2. PICK s \in Record : Adds(h, s) /\ Entry(s) \in Additions(req[h])
    BY <2>1
  <2>3. Entry(r) = Entry(s) /\ s \in job[h].recs
    BY <1>0, <2>2, AddsOne DEF Adds
  <2>4. CASE hit'[h]
    BY <2>1, <2>2, <2>3, <2>4, <1>2 DEF Came
  <2>5. CASE todo'[h] = todo[h] \ {job[h]}
    <3>1. job[h] \in CreatesIn(req'[h]) \ todo'[h]
      BY <2>1, <2>5
    <3>2. Entry(s) \in Made(h)'
      BY <2>3, <3>1 DEF Made
    <3> QED BY <1>2, <2>1, <2>3, <3>2 DEF Came
  <2> QED BY <2>4, <2>5, WorksAt
<1> QED BY <1>1, <1>2

\* What is there has a source.
LEMMA NextSource ==
  ASSUME EditState, [Next]_vars, NEW h \in Handlers
  PROVE  SourceAt(h)'
<1> SUFFICES ASSUME Active(h)', NEW r \in live', Free(h, Entry(r))'
             PROVE  (\/ Entry(r) \in Contents(base[h])
                     \/ AtCalls(h) /\ Entry(r) \in Bases
                     \/ Adding(h) /\ Came(h, Entry(r)))'
  BY DEF SourceAt
<1>0. SourceAt(h) /\ SInv
  BY Known
<1>1. CASE Opens(h)
  BY <1>1 DEF Opens, Contents
<1>2. CASE Active(h) /\ Waits(h)
  <2>1. r \in live /\ Free(h, Entry(r))
    BY <1>2, WaitsAt
  <2>2. base'[h] = base[h]
    BY <1>2 DEF Waits
  <2> QED BY <1>0, <1>2, <2>1, <2>2, WaitsAt DEF SourceAt
<1>3. CASE Reads(h)
  <2>1. /\ r \in live /\ base'[h] = base[h] /\ Free(h, Entry(r)) /\ Active(h)
        /\ AtCalls(h) => AtCalls(h)'
        /\ Adding(h) => Adding(h)' /\ Made(h)' = Made(h) /\ hit'[h] = hit[h]
        /\ req'[h] = req[h]
    BY <1>3, ReadsAt DEF Alone, Free, AtCalls, Adding, Made
  <2> QED BY <1>0, <2>1 DEF SourceAt, Came
<1>4. CASE Works(h)
  <2>1. /\ Active(h) /\ AtCalls(h)' /\ req'[h] = req[h] /\ base'[h] = base[h]
        /\ Free(h, Entry(r)) /\ (Adding(h) => Adding(h)')
        /\ \A e : Came(h, e) => Came(h, e)'
    BY <1>4, WorksAt, CameStays DEF Alone, Free
  <2>2. CASE r \in live
    BY <1>0, <2>1, <2>2 DEF SourceAt
  <2>3. CASE r \notin live
    BY <1>4, <2>1, <2>3, NewComes, BaseRecordType DEF BaseEntry
  <2> QED BY <2>2, <2>3
<1> QED BY <1>1, <1>2, <1>3, <1>4, Moves

\* What is to be removed is found.
LEMMA NextFound ==
  ASSUME EditState, [Next]_vars, NEW h \in Handlers
  PROVE  FoundAt(h)'
<1> SUFFICES ASSUME pc'[h] = "records" \/ AtCalls(h)', NEW r \in live',
                    Free(h, Entry(r))', AskedToRemove(req'[h], Entry(r))
             PROVE  (\/ pc[h] = "records" /\ r.zone \in unread[h]
                     \/ \E s \in snap[h] : s.id = r.id
                     \/ Adding(h) /\ Came(h, Entry(r)))'
  BY DEF FoundAt
<1>0. FoundAt(h) /\ SInv /\ TypeOK /\ Active(h)'
  BY Known DEF AtCalls, Active
<1>1. CASE Opens(h)
  BY <1>1 DEF Opens, AtCalls
<1>2. CASE Waits(h)
  <2>1. r \in live /\ Free(h, Entry(r))
    BY <1>2, WaitsAt
  <2>2. pc'[h] = pc[h] /\ req'[h] = req[h] /\ unread'[h] = unread[h] /\ snap'[h] = snap[h]
    BY <1>2 DEF Waits
  <2> QED BY <1>0, <1>2, <2>1, <2>2, WaitsAt DEF FoundAt
<1>3. CASE Reads(h)
  <2>1. r \in live /\ Free(h, Entry(r)) /\ AskedToRemove(req[h], Entry(r)) /\ r \in Record
    BY <1>0, <1>3, ReadsAt DEF Alone, Free, TypeOK
  <2>2. CASE ListZones(h)
    <3>1. PICK ep \in ToRemove(req[h]) : Entry(r).zone \in FindZone(Managed, ep.name)
      BY <2>1 DEF AskedToRemove
    <3>2. r.zone \in ZoneFilter
      BY <3>1, ZoneFound, EntryParts
    <3>3. pc'[h] = "records" /\ unread'[h] = ZoneFilter
      BY <1>0, <2>2 DEF ListZones, TypeOK
    <3> QED BY <3>2, <3>3
  <2>3. CASE ListRecords(h)
    <3>1. pc[h] = "records" /\ pc'[h] = "records"
      BY <1>0, <2>3 DEF ListRecords
    <3>2. PICK z \in unread[h] :
            /\ unread'[h] = unread[h] \ {z}
            /\ snap'[h] = snap[h] \cup {Listed(t) : t \in {t \in live : t.zone = z}}
      BY <1>0, <2>3 DEF ListRecords, TypeOK
    <3>3. r.zone \in unread[h] \/ \E s \in snap[h] : s.id = r.id
      BY <1>0, <2>1, <3>1 DEF FoundAt, Adding, AtCalls
    <3>4. CASE r.zone = z
      <4>1. Listed(r) \in snap'[h] /\ Listed(r).id = r.id
        BY <2>1, <3>2, <3>4, ListedProperties
      <4> QED BY <4>1
    <3> QED BY <3>1, <3>2, <3>3, <3>4
  <2>4. CASE Plan(h) \/ StartCall(h)
    <3>1. /\ pc[h] = "records" \/ AtCalls(h)
          /\ pc[h] = "records" => unread[h] = {}
          /\ snap'[h] = snap[h] /\ (Adding(h) => Adding(h)' /\ Came(h, Entry(r))' = Came(h, Entry(r)))
      BY <1>0, <1>3, <2>4, ReadsAt DEF Plan, StartCall, AtCalls, Adding, Came, Made
    <3>2. CASE pc[h] = "records"
      BY <1>0, <2>1, <2>4, <3>1, <3>2 DEF FoundAt, Adding, AtCalls, Plan, StartCall
    <3>3. CASE AtCalls(h) /\ pc[h] # "records"
      BY <1>0, <2>1, <3>1, <3>3 DEF FoundAt
    <3> QED BY <3>1, <3>2, <3>3
  <2> QED BY <1>3, <2>2, <2>3, <2>4 DEF Reads
<1>4. CASE Works(h)
  <2>1. /\ AtCalls(h) /\ pc[h] = "call" /\ req'[h] = req[h] /\ req[h] \in Requests
        /\ snap'[h] = snap[h] /\ Free(h, Entry(r)) /\ (Adding(h) => Adding(h)')
        /\ \A e : Came(h, e) => Came(h, e)'
    BY <1>4, WorksAt, CameStays DEF Alone, Free
  <2>2. CASE r \in live
    BY <1>0, <2>1, <2>2 DEF FoundAt
  <2>3. CASE r \notin live
    BY <1>4, <2>1, <2>3, NewComes, BaseNotAsked
  <2> QED BY <2>2, <2>3
<1> QED BY <1>0, <1>1, <1>2, <1>3, <1>4, Moves

\* A base record is one by zone and key, and only others take it away.
LEMMA BaseKey ==
  ASSUME NEW r \in Record, r.zone \in ZoneFilter, IsBase(r)
  PROVE  Key(Entry(r)) = Key(BaseEntry(r.zone))
<1>1. SameRecord(r, BaseRecord(r.zone))
  BY DEF SameRecord, IsBase, BaseRecord
<1> QED BY <1>1, SameIsKey, BaseRecordType DEF BaseEntry

\* The entry of a base record stays while a handler works.
LEMMA BaseEntryStays ==
  ASSUME EditState, [Next]_vars, NEW h \in Handlers, Active(h), Active(h)', NEW z \in ZoneFilter,
         BaseEntry(z) \in Contents(live)
  PROVE  ~Free(h, BaseEntry(z))' \/ BaseEntry(z) \in Contents(live')
<1>1. PICK r \in live : BaseEntry(z) = Entry(r)
  BY DEF Contents
<1>2. CASE r \in live'
  BY <1>1, <1>2 DEF Contents
<1>3. CASE r \notin live'
  BY <1>1, <1>3, Known, BaseNotAsked, RemovedIsExplained DEF Free
<1> QED BY <1>2, <1>3

\* A zone without call for a base record has one.
LEMMA NextBased ==
  ASSUME EditState, [Next]_vars, NEW h \in Handlers
  PROVE  BasedAt(h)'
<1> SUFFICES ASSUME Active(h)', NEW z \in ZoneFilter,
                    (HasBase(snap[h], z) \/ (AtCalls(h) /\ ~BaseToCome(h, z)))'
             PROVE  (\/ ~Free(h, BaseEntry(z))
                     \/ BaseEntry(z) \in Contents(live)
                     \/ \E e \in Contents(base[h]) : Key(e) = Key(BaseEntry(z)))'
  BY DEF BasedAt
<1>0. BasedAt(h) /\ SInv /\ TypeOK
  BY Known
\* It is enough that it held before.
<1>a. ASSUME Active(h), HasBase(snap[h], z) \/ (AtCalls(h) /\ ~BaseToCome(h, z)),
             base'[h] = base[h], foreign[h] \subseteq foreign'[h]
      PROVE  (\/ ~Free(h, BaseEntry(z))
              \/ BaseEntry(z) \in Contents(live)
              \/ \E e \in Contents(base[h]) : Key(e) = Key(BaseEntry(z)))'
  <2>1. CASE ~Free(h, BaseEntry(z))
    BY <1>a, <2>1 DEF Free
  <2>2. CASE BaseEntry(z) \in Contents(live)
    BY <1>a, <2>2, BaseEntryStays
  <2>3. CASE \E e \in Contents(base[h]) : Key(e) = Key(BaseEntry(z))
    BY <1>a, <2>3
  <2> QED BY <1>0, <1>a, <2>1, <2>2, <2>3 DEF BasedAt
<1>1. CASE Opens(h)
  BY <1>1 DEF Opens, HasBase, AtCalls
<1>2. CASE Active(h) /\ Waits(h)
  BY <1>2, <1>a, WaitsAt DEF Waits, HasBase, BaseToCome
<1>3. CASE Reads(h)
  <2>1. /\ Active(h) /\ base'[h] = base[h] /\ foreign[h] \subseteq foreign'[h]
        /\ live' = live /\ (Free(h, BaseEntry(z))' <=> Free(h, BaseEntry(z)))
    BY <1>3, ReadsAt DEF Alone, Free
  <2>2. CASE ListZones(h) \/ StartCall(h)
    <3>1. /\ snap'[h] = snap[h] /\ todo'[h] = todo[h]
          /\ AtCalls(h)' => AtCalls(h)
      BY <1>0, <2>2 DEF ListZones, StartCall, AtCalls, TypeOK
    <3> QED BY <1>a, <2>1, <3>1 DEF HasBase, BaseToCome
  <2>3. CASE ListRecords(h)
    <3>1. pc[h] = "records" /\ pc'[h] = "records"
      BY <1>0, <2>3 DEF ListRecords
    <3>2. PICK s \in snap'[h] : s.zone = z /\ IsBase(s)
      BY <3>1 DEF HasBase, AtCalls
    <3>3. CASE s \in snap[h]
      BY <1>a, <2>1, <3>2, <3>3 DEF HasBase
    <3>4. CASE s \notin snap[h]
      <4>1. PICK r \in live : s = Listed(r)
        BY <1>0, <2>3, <3>4, ListRecordsAdds, TypeIsSound
      <4>2. r \in Record /\ r.zone = z /\ IsBase(r)
        BY <3>2, <4>1, Known, ListedProperties, ListedBase
      <4>3. Key(Entry(r)) = Key(BaseEntry(z))
        BY <4>2, BaseKey
      <4>4. CASE Free(h, Entry(r))
        <5>1. Entry(r) \in Contents(base[h])
          BY <2>1, <3>1, <4>4, Known DEF SourceAt, AtCalls, Adding
        <5> QED BY <2>1, <4>3, <5>1
      <4>5. CASE ~Free(h, Entry(r))
        BY <2>1, <4>3, <4>5, KeyParts DEF Free
      <4> QED BY <4>4, <4>5
    <3> QED BY <3>3, <3>4
  <2>4. CASE Plan(h)
    <3>1. snap'[h] = snap[h] /\ BasesFor(snap[h]) \subseteq todo'[h]
      BY <1>0, <2>4 DEF Plan, TypeOK
    <3>2. HasBase(snap[h], z)
      <4>1. SUFFICES ASSUME ~HasBase(snap[h], z), ~BaseToCome(h, z)' PROVE FALSE
        BY <3>1 DEF HasBase
      <4>2. Call("base", z, 0, 0, {BaseRecord(z)}, {}) \in BasesFor(snap[h])
        BY <4>1 DEF BasesFor, HasBase
      <4> QED BY <3>1, <4>1, <4>2 DEF Call, BaseToCome
    <3> QED BY <1>a, <2>1, <3>2
  <2> QED BY <1>3, <2>2, <2>3, <2>4 DEF Reads
<1>4. CASE Works(h)
  <2>1. /\ Active(h) /\ AtCalls(h) /\ base'[h] = base[h] /\ foreign[h] \subseteq foreign'[h]
        /\ snap'[h] = snap[h]
        /\ todo'[h] = todo[h] \ {job[h]} \/ todo'[h] = todo[h]
    BY <1>4, WorksAt DEF Alone
  <2>2. CASE HasBase(snap[h], z) \/ ~BaseToCome(h, z)
    BY <1>a, <2>1, <2>2
  <2>3. CASE ~HasBase(snap[h], z) /\ BaseToCome(h, z)
    <3>1. job[h].op = "base" /\ job[h].zone = z
      BY <2>1, <2>3 DEF BaseToCome, HasBase
    <3>2. Adds(h, BaseRecord(z)) /\ nextId \in Nat
      BY <1>0, <1>4, <3>1, WorksAt DEF TypeOK
    <3> DEFINE new == [BaseRecord(z) EXCEPT !.id = nextId]
    <3>3. new \in live' /\ Entry(new) = BaseEntry(z)
      BY <3>2, BaseRecordType, EntryOfNew DEF Adds, BaseEntry
    <3> HIDE DEF new
    <3> QED BY <3>3 DEF Contents
  <2> QED BY <2>2, <2>3
<1> QED BY <1>1, <1>2, <1>3, <1>4, Moves

\* What has been created is there.
LEMMA NextAdded ==
  ASSUME EditState, [Next]_vars, NEW h \in Handlers
  PROVE  AddedAt(h)'
<1> SUFFICES ASSUME Adding(h)', NEW e, e \in Made(h)', Free(h, e)'
             PROVE  e \in Contents(live')
  BY DEF AddedAt
<1>0. AddedAt(h) /\ CallsAt(h) /\ SInv /\ TypeOK /\ Active(h)' /\ req[h] \in Requests \cup {None}
  BY Known DEF Adding, AtCalls, Active, TypeOK
<1>1. CASE Opens(h)
  BY <1>1 DEF Opens, Adding, AtCalls
<1>2. CASE Active(h) /\ Waits(h)
  <2>1. Adding(h) /\ Free(h, e) /\ req'[h] = req[h] /\ todo'[h] = todo[h]
    BY <1>2, WaitsAt DEF Waits
  <2>2. e \in Contents(live)
    BY <1>0, <2>1 DEF AddedAt, Made
  <2>3. PICK r \in live : e = Entry(r)
    BY <2>2 DEF Contents
  <2>4. r \in live'
    BY <1>2, <2>3, WaitsAt
  <2> QED BY <2>3, <2>4 DEF Contents
<1>3. CASE Reads(h)
  <2>1. live' = live /\ Free(h, e) /\ req'[h] = req[h] /\ AtCalls(h)'
    BY <1>3, ReadsAt DEF Alone, Free, Adding
  <2>2. CASE todo'[h] = todo[h] /\ AtCalls(h)
    BY <1>0, <2>1, <2>2 DEF AddedAt, Made, Adding
  <2>3. CASE CreatesIn(req[h]) \subseteq todo'[h]
    <3>1. CreatesIn(req'[h]) \ todo'[h] = {}
      BY <2>1, <2>3
    <3>2. Made(h)' = {}
      BY <3>1 DEF Made
    <3> QED BY <3>2
  <2> QED BY <1>3, <2>1, <2>2, <2>3, ReadsAt DEF AtCalls
<1>4. CASE Works(h)
  <2>1. /\ AtCalls(h) /\ Free(h, e) /\ req'[h] = req[h] /\ req[h] \in Requests
        /\ todo'[h] = todo[h] \ {job[h]} \/ todo'[h] = todo[h]
    BY <1>4, WorksAt DEF Alone, Free
  <2>2. CASE ~Adding(h)
    <3>1. CreatesIn(req[h]) \subseteq todo[h] /\ job[h].op # "create"
      BY <1>0, <1>4, <2>1, <2>2, WorksAt DEF CallsAt
    <3>2. CreatesIn(req'[h]) \ todo'[h] = {}
      BY <2>1, <3>1, CreateRecord
    <3>3. Made(h)' = {}
      BY <3>2 DEF Made
    <3> QED BY <3>3
  <2>3. CASE Adding(h)
    <3>1. PICK s \in Record : Adds(h, s)
      BY <1>4, <2>3, WorksAt
    <3>2. live \subseteq live' /\ nextId \in Nat
      BY <1>0, <3>1 DEF Adds, TypeOK
    <3>3. CASE e \in Made(h)
      BY <1>0, <2>1, <2>3, <3>2, <3>3 DEF AddedAt, Contents
    <3>4. CASE e \notin Made(h)
      <4>1. PICK j \in CreatesIn(req[h]) \ todo'[h] : \E r \in j.recs : e = Entry(r)
        BY <2>1 DEF Made
      <4>2. j = job[h]
        BY <2>1, <3>4, <4>1 DEF Made
      <4>3. e = Entry(s)
        BY <3>1, <4>1, <4>2 DEF Adds
      <4> DEFINE new == [s EXCEPT !.id = nextId]
      <4>4. new \in live' /\ Entry(new) = e
        BY <3>1, <3>2, <4>3, EntryOfNew DEF Adds
      <4> HIDE DEF new
      <4> QED BY <4>4 DEF Contents
    <3> QED BY <3>3, <3>4
  <2> QED BY <2>2, <2>3
<1> QED BY <1>0, <1>1, <1>2, <1>3, <1>4, Moves

\* At first no handler is at work,
LEMMA InitEditState == Init => EditState
<1> SUFFICES ASSUME Init PROVE HitType /\ EditInv
  BY InitBInv, InitNInv DEF EditState
<1>1. HitType
  BY DEF Init, HitType
<1>2. AccountCanonical
  BY CanonicalAssumption DEF Init, AccountCanonical
<1>3. ASSUME NEW h \in Handlers PROVE ~Active(h) /\ ~AtCalls(h) /\ ~Adding(h) /\ pc[h] = "idle"
  BY DEF Init, Active, AtCalls, Adding
<1> QED
  BY <1>1, <1>2, <1>3 DEF EditInv, CallsAt, SourceAt, FoundAt, BasedAt, AddedAt

\* and every step keeps what the outcome depends on.
LEMMA NextEditState == EditState /\ [Next]_vars => EditState'
<1> SUFFICES ASSUME EditState, [Next]_vars PROVE EditState'
  OBVIOUS
<1>1. BInv' /\ NInv' /\ HitType'
  BY NextBInv, NextNInv, NextHit DEF EditState
<1>2. EditInv'
  BY NextCanonical, NextCalls, NextSource, NextFound, NextBased, NextAdded DEF EditInv
<1> QED BY <1>1, <1>2 DEF EditState
-----------------------------------------------------------------------------
(* A handler that answers 204.                                               *)

\* It has made all its calls, and the account is as the last of them left it.
LEMMA AllCallsMade ==
  ASSUME TypeOK, [Next]_vars, NEW h \in Handlers, Active(h), pc'[h] = "ok"
  PROVE  pc[h] = "apply" /\ todo[h] = {} /\ live' = live
<1>1. pc \in [Handlers -> PcValues] /\ pc[h] # "ok"
  BY DEF TypeOK, Active
<1>2. ASSUME NEW g \in Handlers, HandlerStep(g), ~Succeed(h) PROVE pc'[h] # "ok"
  <2>1. CASE ListZones(g) \/ ListRecords(g) \/ Plan(g) \/ StartCall(g)
    BY <1>1, <2>1 DEF ListZones, ListRecords, Plan, StartCall
  <2>2. CASE Again(g) \/ Done(g) \/ End(g, "failed")
    BY <1>1, <2>2 DEF Again, Done, End
  <2>3. CASE Succeed(g)
    BY <1>1, <1>2, <2>3 DEF Succeed, End
  <2> QED
    BY <1>2, <2>1, <2>2, <2>3 DEF HandlerStep, Answered, Refused, AnswerLost, NotExecuted, Throttled
<1>3. ASSUME NEW g \in Handlers, NEW changes \in Requests, Receive(g, changes) PROVE pc'[h] # "ok"
  BY <1>1, <1>3 DEF Receive, Take
<1>4. ASSUME Crash PROVE pc'[h] # "ok"
  BY <1>1, <1>4 DEF Crash, Active
<1>5. ASSUME ConsoleAdd \/ ConsoleRemove \/ UNCHANGED vars PROVE pc'[h] # "ok"
  BY <1>1, <1>5 DEF ConsoleAdd, ConsoleRemove, vars, handlerVars
<1>6. Succeed(h)
  BY <1>2, <1>3, <1>4, <1>5 DEF Next, Environment
<1> QED BY <1>6 DEF Succeed

\* The records to be added are what its creates are for, and the other way round.
LEMMA MadeIsAdditions ==
  ASSUME NEW h \in Handlers, req[h] \in Requests
  PROVE  /\ Made(h) \subseteq Additions(req[h])
         /\ todo[h] = {} => Made(h) = Additions(req[h])
<1>1. ASSUME NEW j \in CreatesIn(req[h]), NEW r \in j.recs PROVE Entry(r) \in Additions(req[h])
  BY <1>1, CreateRecord
<1>2. Made(h) \subseteq Additions(req[h])
  BY <1>1 DEF Made
<1>3. ASSUME todo[h] = {}, NEW a \in Additions(req[h]) PROVE a \in Made(h)
  BY <1>3, AdditionsAreCreated DEF Made
<1> QED BY <1>2, <1>3

\* What is to be removed is gone when creates are made, but for what has come since.
LEMMA NoneLeft ==
  ASSUME EditState, NEW h \in Handlers, Adding(h), NEW r \in live,
         Free(h, Entry(r)), AskedToRemove(req[h], Entry(r))
  PROVE  Came(h, Entry(r))
<1>1. pc[h] # "records" /\ AtCalls(h)
  BY DEF Adding, AtCalls
<1>2. SUFFICES ASSUME NEW s \in snap[h], s.id = r.id PROVE FALSE
  BY <1>1, Known DEF FoundAt
<1>3. Listed(r) = s /\ r \in Record
  BY <1>2, Known DEF MInv, SnapshotsMatch
<1>4. AskedToRemove(req[h], Entry(s))
  BY <1>3, ListedProperties
<1>5. \A j \in todo[h] : j.op # "delete"
  BY DEF Adding
<1>6. CoveredAt(h)
  BY Known DEF OInv
<1> QED BY <1>1, <1>2, <1>4, <1>5, <1>6 DEF CoveredAt, AtCalls

\* The account then is what the changes lead to, in every slot left to the handler.
LEMMA OutcomeReached ==
  ASSUME EditState, NEW h \in Handlers, pc[h] = "apply", todo[h] = {}
  PROVE  Undisturbed(h, Contents(live)) = Undisturbed(h, Outcome(req[h], Contents(base[h])))
<1> DEFINE S     == Contents(base[h])
           based == S \cup {b \in Bases : \A e \in S : Key(e) # Key(b)}
           kept  == Kept(req[h], based)
<1>0. /\ Active(h) /\ AtCalls(h) /\ Adding(h) /\ req[h] \in Requests
      /\ TypeOK /\ AccountCanonical
  BY Known DEF Active, AtCalls, Adding
<1>1. Made(h) = Additions(req[h])
  BY <1>0, MadeIsAdditions
<1>2. Outcome(req[h], S) = kept \cup {a \in Additions(req[h]) : \A e \in kept : Key(e) # Key(a)}
  BY DEF Outcome
<1>3. ASSUME NEW e \in S, ~AskedToRemove(req[h], e), Free(h, e)
      PROVE  e \in Contents(live) /\ e \in kept
  <2>1. Undisturbed(h, Kept(req[h], S)) \subseteq Undisturbed(h, Contents(live))
    BY <1>0 DEF EditState, NInv, NothingElseChanges
  <2> QED BY <1>3, <2>1 DEF Undisturbed, Kept, Free
<1>4. ASSUME NEW e \in Bases, \A f \in S : Key(f) # Key(e), Free(h, e)
      PROVE  e \in Contents(live) /\ e \in kept
  <2>1. PICK z \in ZoneFilter : e = BaseEntry(z)
    BY <1>4 DEF Bases, BaseEntry
  <2>2. ~BaseToCome(h, z) /\ BasedAt(h)
    BY Known DEF BaseToCome
  <2>3. e \in Contents(live)
    BY <1>0, <1>4, <2>1, <2>2 DEF BasedAt
  <2>4. ~AskedToRemove(req[h], e)
    BY <1>0, <2>1, BaseNotAsked
  <2> QED BY <1>4, <2>3, <2>4 DEF Kept
<1>5. ASSUME NEW e \in kept, Free(h, e) PROVE e \in Contents(live)
  BY <1>3, <1>4, <1>5 DEF Kept
<1>6. ASSUME NEW e \in Contents(live), NEW f \in Contents(live), Key(e) = Key(f) PROVE e = f
  BY <1>0, <1>6, EntriesDiffer DEF Contents
<1>7. ASSUME NEW e \in Outcome(req[h], S), Free(h, e) PROVE e \in Contents(live)
  <2>1. CASE e \in kept
    BY <1>5, <1>7, <2>1
  <2>2. CASE e \in Additions(req[h])
    BY <1>0, <1>1, <1>7, <2>2, Known DEF AddedAt
  <2> QED BY <1>2, <1>7, <2>1, <2>2
<1>8. ASSUME NEW e \in Additions(req[h]), e \in Contents(live), Free(h, e)
      PROVE  e \in Outcome(req[h], S)
  <2>1. CASE \A f \in kept : Key(f) # Key(e)
    BY <1>2, <2>1
  <2>2. ASSUME NEW f \in kept, Key(f) = Key(e) PROVE e \in kept
    <3>1. Free(h, f)
      BY <1>8, <2>2, KeyParts DEF Free
    <3> QED BY <1>5, <1>6, <1>8, <2>2, <3>1
  <2> QED BY <1>2, <2>1, <2>2
<1>9. ASSUME NEW e \in Contents(live), Free(h, e) PROVE e \in Outcome(req[h], S)
  <2>1. PICK r \in live : e = Entry(r)
    BY <1>9 DEF Contents
  <2>2. CASE Came(h, e)
    BY <1>1, <1>8, <1>9, <2>2 DEF Came
  <2>3. CASE e \in S
    BY <1>0, <1>2, <1>3, <1>9, <2>1, <2>2, <2>3, NoneLeft
  <2>4. CASE e \in Bases
    <3>1. PICK z \in ZoneFilter : e = BaseEntry(z)
      BY <2>4 DEF Bases, BaseEntry
    <3>2. CASE \A f \in S : Key(f) # Key(e)
      BY <1>2, <1>4, <1>9, <2>4, <3>2
    <3>3. ASSUME NEW f \in S, Key(f) = Key(e) PROVE e \in kept
      <4>1. ~AskedToRemove(req[h], f) /\ Free(h, f)
        BY <1>0, <1>9, <3>1, <3>3, BaseNotAsked, AskedByKey, KeyParts DEF Free
      <4> QED BY <1>3, <1>6, <1>9, <3>3, <4>1
    <3> QED BY <1>2, <3>2, <3>3
  <2>5. e \in S \/ e \in Bases \/ Came(h, e)
    BY <1>0, <1>9, <2>1, Known DEF SourceAt
  <2> QED BY <2>2, <2>3, <2>4, <2>5
<1>10. \A e : Free(h, e) => (e \in Contents(live) <=> e \in Outcome(req[h], S))
  BY <1>7, <1>9
<1> HIDE DEF based, kept
<1> QED BY <1>10 DEF Undisturbed, Free

\* What a 204 is worth, for every account, request and interleaving: all the
\* changes asked for are made, every zone has its base record, and nothing else is
\* changed, but in the slots others have been at meanwhile (privatedns.go:167).
THEOREM AnswerIsOutcome == Spec => SuccessIsOutcome
<1>1. ASSUME EditState, [Next]_vars, NEW h \in Handlers, Active(h), pc'[h] = "ok"
      PROVE  Undisturbed(h, Contents(live'))
               = Undisturbed(h, Outcome(req[h], Contents(base[h])))
  <2>1. pc[h] = "apply" /\ todo[h] = {} /\ live' = live
    BY <1>1, Known, AllCallsMade
  <2> QED BY <1>1, <2>1, OutcomeReached
<1>2. EditState /\ [Next]_vars =>
        [\A h \in Handlers : Active(h) /\ pc'[h] = "ok" =>
           Undisturbed(h, Contents(live'))
             = Undisturbed(h, Outcome(req[h], Contents(base[h])))]_vars
  BY <1>1
<1> QED BY <1>2, InitEditState, NextEditState, PTL DEF Spec, SuccessIsOutcome
-----------------------------------------------------------------------------
(* A handler that fails.                                                     *)

\* A zone a base record is to be made for goes on without one, but for others.
LEMMA NextBarred ==
  ASSUME EditState, CauseInv, [Next]_vars, NEW h \in Handlers
  PROVE  BarredAt(h)'
<1> SUFFICES ASSUME NEW z \in ZoneFilter,
                    (\/ pc[h] = "records" /\ z \notin unread[h] /\ ~HasBase(snap[h], z)
                     \/ AtCalls(h) /\ BaseToCome(h, z))',
                    ~hit'[h]
             PROVE  (BaseDisturbed(h, z) \/ ~BaseThere(z))'
  BY DEF BarredAt
<1>0. BarredAt(h) /\ SInv /\ TypeOK /\ Active(h)'
  BY Known DEF CauseInv, AtCalls, Active
\* It is enough that it held before, and that no base record is new to the zone.
<1>a. ASSUME \/ pc[h] = "records" /\ z \notin unread[h] /\ ~HasBase(snap[h], z)
             \/ AtCalls(h) /\ BaseToCome(h, z),
             ~hit[h], foreign[h] \subseteq foreign'[h],
             \A r \in live' : r.zone = z /\ IsBase(r) => r \in live \/ BaseDisturbed(h, z)'
      PROVE  (BaseDisturbed(h, z) \/ ~BaseThere(z))'
  BY <1>0, <1>a DEF BarredAt, BaseDisturbed, BaseThere
<1>1. CASE Opens(h)
  BY <1>1 DEF Opens, AtCalls
<1>2. CASE Active(h) /\ Waits(h)
  <2>1. ASSUME NEW r \in live', r.zone = z, IsBase(r), r \notin live PROVE BaseDisturbed(h, z)'
    <3>1. r \in Record /\ req[h] \in Requests
      BY <1>0, <1>2, NextTypeOK, Known DEF TypeOK
    <3>2. Slot(Entry(r)) = Slot(Entry(BaseRecord(z)))
      BY <2>1, <3>1, BaseIsNotAsked
    <3> QED BY <1>2, <2>1, <3>2 DEF Waits, BaseDisturbed
  <2> QED BY <1>2, <1>a, <2>1 DEF Waits, AtCalls, BaseToCome, HasBase
<1>3. CASE Reads(h)
  <2>1. /\ live' = live /\ hit'[h] = hit[h] /\ foreign'[h] = foreign[h] /\ Active(h)
        /\ req[h] \in Requests
    BY <1>3, ReadsAt DEF Alone
  <2>2. CASE ListZones(h)
    BY <1>3, <2>2, <1>0 DEF ListZones, AtCalls, TypeOK
  <2>3. CASE ListRecords(h)
    <3>1. pc[h] = "records" /\ pc'[h] = "records"
      BY <1>0, <2>3 DEF ListRecords
    <3>2. PICK y \in unread[h] :
            /\ unread'[h] = unread[h] \ {y}
            /\ snap'[h] = snap[h] \cup {Listed(r) : r \in {r \in live : r.zone = y}}
      BY <1>0, <2>3 DEF ListRecords, TypeOK
    <3>3. z \notin unread'[h] /\ ~HasBase(snap'[h], z)
      BY <3>1 DEF AtCalls
    <3>4. CASE y = z
      <4>1. ASSUME NEW r \in live, r.zone = z, IsBase(r) PROVE FALSE
        <5>1. Listed(r) \in snap'[h] /\ Listed(r).zone = z /\ IsBase(Listed(r))
          BY <3>2, <3>4, <4>1, Known, ListedProperties, ListedBase
        <5> QED BY <3>3, <5>1 DEF HasBase
      <4> QED BY <2>1, <4>1 DEF BaseThere
    <3>5. CASE y # z
      BY <1>a, <2>1, <3>1, <3>2, <3>3, <3>5 DEF HasBase
    <3> QED BY <3>4, <3>5
  <2>4. CASE Plan(h)
    <3>1. /\ pc[h] = "records" /\ unread[h] = {} /\ pc'[h] = "apply"
          /\ todo'[h] = BasesFor(snap[h]) \cup DeletesIn(req[h], snap[h]) \cup CreatesIn(req[h])
      BY <1>0, <2>4 DEF Plan, TypeOK
    <3>2. PICK j \in todo'[h] : j.op = "base" /\ j.zone = z
      BY <3>1 DEF BaseToCome
    <3>3. snap[h] \in SUBSET Record /\ \A s \in snap[h] : Listed(s) = s
      BY <1>0 DEF SInv, TypeOK, SnapshotsListed
    <3>4. j \in BasesFor(snap[h])
      BY <2>1, <3>1, <3>2, <3>3, DeletesType, CreatesType, Known, RequestsType DEF Active
    <3>5. ~HasBase(snap[h], z)
      BY <3>2, <3>4, BasesType DEF HasBase
    <3> QED BY <1>a, <2>1, <3>1, <3>5
  <2>5. CASE StartCall(h)
    <3>1. pc[h] = "apply" /\ pc'[h] = "call" /\ todo'[h] = todo[h]
      BY <1>0, <2>5 DEF StartCall, TypeOK
    <3> QED BY <1>a, <2>1, <3>1 DEF AtCalls, BaseToCome
  <2> QED BY <1>3, <2>2, <2>3, <2>4, <2>5 DEF Reads
<1>4. CASE Works(h)
  <2>1. /\ AtCalls(h) /\ AtCalls(h)' /\ pc[h] = "call" /\ foreign'[h] = foreign[h]
        /\ todo'[h] = todo[h] \ {job[h]} /\ job[h] \in todo[h] /\ ~hit[h]
    BY <1>4, WorksAt DEF Alone
  <2>2. PICK j \in todo'[h] : j.op = "base" /\ j.zone = z
    BY <2>1 DEF BaseToCome, AtCalls
  <2>3. BaseToCome(h, z) /\ j \in todo[h] /\ j # job[h]
    BY <2>1, <2>2 DEF BaseToCome
  <2>4. job[h].op = "base"
    BY <2>1, <2>2, <2>3, Phases
  <2>5. job[h].zone # z
    BY <2>1, <2>2, <2>3, <2>4, OneForZone
  <2>6. job[h].zone \in ZoneFilter /\ Adds(h, BaseRecord(job[h].zone))
    BY <1>4, <2>4, WorksAt
  <2>7. ASSUME NEW r \in live', r \notin live PROVE r.zone # z
    BY <1>0, <2>5, <2>6, <2>7, AddsOne, BaseRecordType
  <2> QED BY <1>a, <2>1, <2>3, <2>7
<1> QED BY <1>0, <1>1, <1>2, <1>3, <1>4, Moves

\* A listed record to be removed stays until its delete is made, but for others.
LEMMA NextGone ==
  ASSUME EditState, CauseInv, [Next]_vars, NEW h \in Handlers
  PROVE  GoneAt(h)'
<1> SUFFICES ASSUME Active(h)', NEW s \in snap'[h], AskedToRemove(req'[h], Entry(s)),
                    ~hit'[h], Free(h, Entry(s))'
             PROVE  (\/ \E r \in live : r.id = s.id
                     \/ AtCalls(h) /\ \A j \in todo[h] : j.op = "delete" => s \notin j.recs)'
  BY DEF GoneAt
<1>0. GoneAt(h) /\ SInv /\ MInv /\ TypeOK
  BY Known DEF CauseInv
<1>1. CASE Opens(h)
  BY <1>1 DEF Opens
<1>2. CASE Active(h) /\ Waits(h)
  <2>1. /\ s \in snap[h] /\ Free(h, Entry(s)) /\ ~hit[h] /\ AskedToRemove(req[h], Entry(s))
        /\ todo'[h] = todo[h] /\ (AtCalls(h) => AtCalls(h)')
    BY <1>2, WaitsAt DEF Waits
  <2>2. ASSUME NEW r \in live, r.id = s.id PROVE r \in live'
    <3>1. Entry(r) = Entry(s)
      BY <1>0, <2>1, <2>2, Known, ListedProperties DEF MInv, SnapshotsMatch
    <3> QED BY <1>2, <3>1, WaitsAt
  <2> QED BY <1>0, <1>2, <2>1, <2>2 DEF GoneAt
<1>3. CASE Reads(h)
  <2>1. /\ live' = live /\ hit'[h] = hit[h] /\ Active(h) /\ req'[h] = req[h]
        /\ Free(h, Entry(s))
    BY <1>3, ReadsAt DEF Alone, Free
  <2>2. CASE s \in snap[h]
    <3>1. CASE \E r \in live : r.id = s.id
      BY <2>1, <3>1
    <3>2. CASE AtCalls(h) /\ \A j \in todo[h] : j.op = "delete" => s \notin j.recs
      <4>1. todo'[h] = todo[h] /\ AtCalls(h)'
        BY <1>3, <3>2, ReadsAt DEF AtCalls
      <4> QED BY <3>2, <4>1
    <3> QED BY <1>0, <2>1, <2>2, <3>1, <3>2 DEF GoneAt
  <2>3. CASE s \notin snap[h]
    <3>1. ListRecords(h)
      BY <1>3, <2>3, ReadsAt
    <3>2. PICK r \in live : s = Listed(r)
      BY <1>0, <2>3, <3>1, ListRecordsAdds, TypeIsSound
    <3>3. s.id = r.id
      BY <3>2, Known, ListedProperties
    <3> QED BY <2>1, <3>3
  <2> QED BY <2>2, <2>3
<1>4. CASE Works(h)
  <2>1. /\ Active(h) /\ AtCalls(h) /\ AtCalls(h)' /\ s \in snap[h] /\ Free(h, Entry(s)) /\ ~hit[h]
        /\ AskedToRemove(req[h], Entry(s))
        /\ todo'[h] = todo[h] \ {job[h]} /\ job[h] \in todo[h]
    BY <1>4, WorksAt DEF Alone, Free
  <2>2. CASE \A j \in todo[h] : j.op = "delete" => s \notin j.recs
    BY <2>1, <2>2
  <2>3. ASSUME NEW r \in live, r.id = s.id, r \notin live'
        PROVE  \A j \in todo'[h] : j.op = "delete" => s \notin j.recs
    <3>1. job[h].op = "delete" /\ r \in Held(job[h].recs)
      BY <1>4, <2>3, WorksAt DEF Deletes, Adds
    <3>2. PICK t \in job[h].recs : t.id = r.id
      BY <3>1 DEF Held
    <3>3. t \in snap[h] /\ t.zone = job[h].zone
      BY <2>1, <3>1, <3>2, Known DEF IsPlanned
    <3>4. t = s
      BY <1>0, <2>1, <2>3, <3>2, <3>3 DEF MInv, SnapshotsMatch
    <3>5. ASSUME NEW j \in todo'[h], j.op = "delete", s \in j.recs PROVE FALSE
      <4>1. j \in todo[h] /\ j # job[h]
        BY <2>1
      <4>2. s.zone = j.zone
        BY <3>5, <4>1, Known DEF IsPlanned
      <4> QED BY <2>1, <3>1, <3>3, <3>4, <3>5, <4>1, <4>2, OneForZone
    <3> QED BY <3>5
  <2> QED BY <1>0, <2>1, <2>2, <2>3 DEF GoneAt
<1> QED BY <1>1, <1>2, <1>3, <1>4, Moves

CauseState == EditState /\ CauseInv

\* At first no handler is at work.
LEMMA InitCauseState == Init => CauseState
<1> SUFFICES ASSUME Init PROVE CauseInv
  BY InitEditState DEF CauseState
<1>1. ASSUME NEW h \in Handlers PROVE ~Active(h) /\ ~AtCalls(h) /\ pc[h] = "idle"
  BY DEF Init, Active, AtCalls
<1> QED BY <1>1 DEF CauseInv, BarredAt, GoneAt

\* Every step keeps a handler's calls acceptable, but for a cause.
LEMMA NextCauseState == CauseState /\ [Next]_vars => CauseState'
  BY NextEditState, NextBarred, NextGone DEF CauseState, CauseInv

\* A handler fails of a fault, or of a refusal.
LEMMA WhyFailed ==
  ASSUME EditState, [Next]_vars, NEW h \in Handlers, Active(h), pc'[h] = "failed"
  PROVE  hit'[h] \/ (pc[h] = "call" /\ MayRefuse(job[h]) /\ hit'[h] = hit[h])
<1>1. pc \in [Handlers -> PcValues] /\ pc[h] # "failed" /\ hit \in [Handlers -> BOOLEAN]
  BY Known DEF TypeOK, Active, EditState, HitType
<1>2. ASSUME NEW g \in Handlers, HandlerStep(g), g # h PROVE pc'[h] # "failed"
  <2>1. CASE ListZones(g) \/ ListRecords(g) \/ Plan(g) \/ StartCall(g)
    BY <1>1, <1>2, <2>1 DEF ListZones, ListRecords, Plan, StartCall
  <2>2. CASE Again(g) \/ Done(g) \/ \E result \in {"ok", "failed"} : End(g, result)
    BY <1>1, <1>2, <2>2 DEF Again, Done, End
  <2> QED
    BY <1>2, <2>1, <2>2
    DEF HandlerStep, Succeed, Answered, Refused, AnswerLost, NotExecuted, Throttled
<1>3. ASSUME HandlerStep(h)
      PROVE  hit'[h] \/ (pc[h] = "call" /\ MayRefuse(job[h]) /\ hit'[h] = hit[h])
  <2>1. ~(ListZones(h) \/ ListRecords(h) \/ Plan(h) \/ StartCall(h))
    BY <1>1 DEF ListZones, ListRecords, Plan, StartCall
  <2>2. ~Again(h) /\ ~Done(h) /\ ~End(h, "ok")
    BY <1>1 DEF Again, Done, End
  <2>3. ~Succeed(h) /\ ~Answered(h)
    BY <2>2 DEF Succeed, Answered
  <2>4. CASE Refused(h)
    BY <2>4 DEF Refused
  <2>5. CASE AnswerLost(h)
    BY <1>1, <2>5 DEF AnswerLost, Fault
  <2>6. CASE NotExecuted(h)
    BY <1>1, <2>2, <2>6 DEF NotExecuted, Fault
  <2>7. CASE Throttled(h)
    BY <1>1, <2>7 DEF Throttled, Fault
  <2> QED BY <1>3, <2>1, <2>3, <2>4, <2>5, <2>6, <2>7 DEF HandlerStep
<1>4. ASSUME NEW g \in Handlers, NEW changes \in Requests, Receive(g, changes)
      PROVE  pc'[h] # "failed"
  BY <1>1, <1>4 DEF Receive, Take
<1>5. ASSUME Crash PROVE hit'[h]
  BY <1>1, <1>5 DEF Crash
<1>6. ASSUME ConsoleAdd \/ ConsoleRemove \/ UNCHANGED vars PROVE pc'[h] # "failed"
  BY <1>1, <1>6 DEF ConsoleAdd, ConsoleRemove, vars, handlerVars
<1> QED BY <1>2, <1>3, <1>4, <1>5, <1>6 DEF Next, Environment

\* The causes, but for the faults.
Cause(h) ==
  \/ \E ep \in ToRemove(req[h]) \cup ToAdd(req[h]) : <<ep.name, ep.type>> \in foreign[h]
  \/ \E z \in ZoneFilter : BaseDisturbed(h, z)
  \/ \E a \in Additions(req[h]) : \E e \in Kept(req[h], Contents(base[h])) \cup Bases :
       Key(a) = Key(e)
  \/ AddedTwice(req[h]) \/ RemovedTwice(req[h])

\* A base record is refused because there is one,
LEMMA BaseRefused ==
  ASSUME CauseState, NEW h \in Handlers, pc[h] = "call", job[h].op = "base", MayRefuse(job[h])
  PROVE  hit[h] \/ Cause(h)
<1>1. EditState /\ BarredAt(h)
  BY DEF CauseState, CauseInv
<1>2. job[h] \in todo[h] /\ AtCalls(h) /\ job[h] \in Job /\ IsPlanned(h, job[h])
  BY <1>1, Phases, Known
<1> DEFINE z == job[h].zone
<1>3. z \in ZoneFilter /\ job[h].recs = {BaseRecord(z)}
  BY <1>2 DEF Job, IsPlanned
<1>4. PICK r \in live : SameRecord(r, BaseRecord(z))
  BY <1>3 DEF MayRefuse, MayAccept
<1>5. BaseThere(z)
  BY <1>4 DEF BaseThere, SameRecord, BaseRecord, IsBase
<1>6. BaseToCome(h, z)
  BY <1>2 DEF BaseToCome
<1> QED BY <1>1, <1>2, <1>3, <1>5, <1>6 DEF BarredAt, Cause

\* a delete because a record to be deleted is gone or named twice, or none would be
\* left,
LEMMA DeleteRefused ==
  ASSUME CauseState, NEW h \in Handlers, pc[h] = "call", job[h].op = "delete", MayRefuse(job[h])
  PROVE  hit[h] \/ Cause(h)
<1>1. EditState /\ GoneAt(h) /\ NeverLast
  BY BaseIsLeft DEF CauseState, CauseInv, EditState
<1>2. job[h] \in todo[h] /\ AtCalls(h) /\ Active(h) /\ job[h] \in Job /\ IsPlanned(h, job[h])
  BY <1>1, Phases, Known
<1>3. CASE Remaining(job[h]) = {}
  BY <1>1, <1>2, <1>3 DEF NeverLast, Job, Cause
<1>4. ASSUME NEW s \in job[h].recs, \A r \in live : r.id # s.id PROVE hit[h] \/ Cause(h)
  <2>1. s \in snap[h] /\ AskedToRemove(req[h], Entry(s))
    BY <1>2, <1>4 DEF IsPlanned
  <2>2. hit[h] \/ ~Free(h, Entry(s))
    BY <1>1, <1>2, <1>4, <2>1 DEF GoneAt
  <2>3. PICK ep \in ToRemove(req[h]) : Entry(s).name = ep.name /\ Entry(s).type = ep.type
    BY <2>1 DEF AskedToRemove
  <2> QED BY <2>2, <2>3 DEF Free, Slot, Cause
<1>5. CASE job[h].twice # {}
  BY <1>2, <1>5 DEF IsPlanned, Cause
<1> QED BY <1>3, <1>4, <1>5 DEF MayRefuse, MayAccept

\* and a create because the record is there: it was before, or the handler itself
\* has made it.
LEMMA CreateRefused ==
  ASSUME CauseState, NEW h \in Handlers, pc[h] = "call", job[h].op = "create", MayRefuse(job[h])
  PROVE  hit[h] \/ Cause(h)
<1>1. EditState /\ TypeOK /\ SourceAt(h)
  BY Known DEF CauseState
<1>2. /\ job[h] \in todo[h] /\ AtCalls(h) /\ Active(h) /\ Adding(h) /\ req[h] \in Requests
      /\ job[h] \in CreatesIn(req[h])
  BY <1>1, Phases, KindOfCall
<1>3. PICK s \in Record : job[h].recs = {s} /\ Entry(s) \in Additions(req[h])
  BY <1>2, CreateRecord
<1>4. PICK r \in live : SameRecord(r, s)
  BY <1>3 DEF MayRefuse, MayAccept
<1>5. Key(Entry(s)) = Key(Entry(r)) /\ Slot(Entry(s)) = Slot(Entry(r))
  BY <1>1, <1>4, SameIsKey, KeyParts DEF TypeOK
<1>6. CASE ~Free(h, Entry(r))
  <2>1. PICK ep \in ToAdd(req[h]) : <<ep.name, ep.type>> = Slot(Entry(s))
    BY <1>2, <1>3, AdditionSlot
  <2> QED BY <1>5, <1>6, <2>1 DEF Free, Cause
<1>7. CASE Came(h, Entry(r))
  <2>1. ASSUME Entry(r) \in Made(h) PROVE AddedTwice(req[h])
    <3>1. PICK j \in CreatesIn(req[h]) \ todo[h] : \E t \in j.recs : Entry(r) = Entry(t)
      BY <2>1 DEF Made
    <3>2. j # job[h]
      BY <1>2, <3>1
    <3> QED BY <1>2, <1>3, <1>5, <3>1, <3>2, TwoCreates
  <2> QED BY <1>7, <2>1 DEF Came, Cause
<1>8. CASE Entry(r) \in Bases
  BY <1>3, <1>5, <1>8 DEF Cause
<1>9. CASE Entry(r) \in Contents(base[h]) /\ Free(h, Entry(r))
  <2>1. CASE AskedToRemove(req[h], Entry(r))
    BY <1>1, <1>2, <1>7, <1>9, <2>1, NoneLeft
  <2>2. CASE ~AskedToRemove(req[h], Entry(r))
    <3>1. Entry(r) \in Kept(req[h], Contents(base[h]))
      BY <1>9, <2>2 DEF Kept
    <3> QED BY <1>3, <1>5, <3>1 DEF Cause
  <2> QED BY <2>1, <2>2
<1> QED BY <1>1, <1>2, <1>6, <1>7, <1>8, <1>9 DEF SourceAt

\* Changes fail only for a cause, for every account, request and interleaving: a
\* fault that the retry cannot make good, others at work on a name and type of the
\* changes or on a base record, a delete that names an id twice since the changes do
\* (privatedns.go:205), or a create that PrivateDNS must refuse.  So with the base
\* records made first (privatedns.go:176) no delete is refused for emptying a zone,
\* nor for a record the handler has deleted itself.
THEOREM PrivateFailureHasCause == Spec => FailsOnlyForACause
<1>1. ASSUME CauseState, [Next]_vars, NEW h \in Handlers, Active(h), pc'[h] = "failed"
      PROVE  hit'[h] \/ Cause(h)
  <2>1. CASE hit'[h]
    BY <2>1
  <2>2. CASE pc[h] = "call" /\ MayRefuse(job[h]) /\ hit'[h] = hit[h]
    <3>1. job[h].op \in {"base", "delete", "create"}
      BY <1>1, <2>2, Phases, KindOfCall DEF CauseState
    <3> QED BY <1>1, <2>2, <3>1, BaseRefused, DeleteRefused, CreateRefused
  <2> QED BY <1>1, <2>1, <2>2, WhyFailed DEF CauseState
<1>2. CauseState /\ [Next]_vars =>
        [\A h \in Handlers : Active(h) /\ pc'[h] = "failed" =>
           \/ hit'[h]
           \/ \E ep \in ToRemove(req[h]) \cup ToAdd(req[h]) : <<ep.name, ep.type>> \in foreign[h]
           \/ \E z \in ZoneFilter : BaseDisturbed(h, z)
           \/ \E a \in Additions(req[h]) : \E e \in Kept(req[h], Contents(base[h])) \cup Bases :
                Key(a) = Key(e)
           \/ AddedTwice(req[h]) \/ RemovedTwice(req[h])]_vars
  BY <1>1 DEF Cause
<1> QED BY <1>2, InitCauseState, NextCauseState, PTL DEF Spec, FailsOnlyForACause
-----------------------------------------------------------------------------
(* What GET /records answers.                                                *)

\* Records as they are in an account, or in a listing of it.
IsAccount(S) ==
  /\ IsFiniteSet(S) /\ S \subseteq Record
  /\ \A r, s \in S : r.id = s.id => r = s
  /\ \A r \in S : r.weight \subseteq DOMAIN FormatInt

\* The listings of all zones, and those of its records that are in one endpoint.
ListedOf(S) == {Listed(r) : r \in {r \in S : r.zone \in ZoneFilter}}
GroupOf(S, r) == {s \in ListedOf(S) : Group(s) = Group(r)}

LEMMA RecordsAre ==
  ASSUME NEW S, NEW order
  PROVE  Records(S, order) = {EndpointOf(GroupOf(S, r), order) : r \in ListedOf(S)}
  BY DEF Records, ListedOf, GroupOf

\* The listings are records again, one for each of the account's.
LEMMA ListingOf ==
  ASSUME NEW S, IsAccount(S)
  PROVE  /\ IsAccount(ListedOf(S))
         /\ \A s \in ListedOf(S) :
              /\ s.zone \in ZoneFilter /\ Zones[s.zone] \in Name
              /\ Listed(s) = s
              /\ \E r \in S : s = Listed(r) /\ Entry(s) = Entry(r)
<1> DEFINE T == {r \in S : r.zone \in ZoneFilter}
           list == [r \in Record |-> Listed(r)]
<1>1. IsFiniteSet(T) /\ T \subseteq Record
  BY FS_Subset DEF IsAccount
<1>2. IsFiniteSet({list[r] : r \in T})
  BY <1>1, FiniteImage
<1>3. {list[r] : r \in T} = ListedOf(S)
  BY <1>1 DEF ListedOf
<1>4. ASSUME NEW s \in ListedOf(S)
      PROVE  \E r \in T : s = Listed(r) /\ s \in Record /\ s.id = r.id /\ s.zone = r.zone
                          /\ s.weight = r.weight /\ Entry(s) = Entry(r)
                          /\ Listed(s) = s
  <2>1. PICK r \in T : s = Listed(r)
    BY DEF ListedOf
  <2>2. s.weight = r.weight
    BY <1>1, <2>1 DEF Listed, Record
  <2> QED BY <1>1, <2>1, <2>2, ListedProperties
<1>5. \A r, s \in ListedOf(S) : r.id = s.id => r = s
  BY <1>4 DEF IsAccount
<1> QED
  BY <1>2, <1>3, <1>4, <1>5, ZonesAssumption DEF IsAccount

\* Before(order) as a relation: the order in which the records of an endpoint are
\* looked at is one, whatever the order of the zones.
LEMMA GroupInOrder ==
  ASSUME NEW G, IsAccount(G), \A r \in G : r.zone \in ZoneFilter, NEW order \in Orders
  PROVE  \E s \in [1..Cardinality(G) -> G] :
           \A i, j \in DOMAIN s : i < j =>
             \/ order[s[i].zone] < order[s[j].zone]
             \/ s[i].zone = s[j].zone /\ s[i].id < s[j].id
<1> DEFINE R == {p \in G \X G : \/ order[p[1].zone] < order[p[2].zone]
                                \/ p[1].zone = p[2].zone /\ p[1].id < p[2].id}
<1>1. order \in [ZoneFilter -> 1..Cardinality(ZoneFilter)] /\ IsInjective(order)
  BY DEF Orders
<1>2. \A y \in ZoneFilter : order[y] \in Int
  BY <1>1
<1>3. \A y, z \in ZoneFilter : order[y] = order[z] => y = z
  BY <1>1 DEF IsInjective
<1>4. \A r \in G : r.id \in Nat /\ r.zone \in ZoneFilter /\ order[r.zone] \in Int
  BY <1>2 DEF IsAccount, Record
<1>5. \A r, s \in G : <<r, s>> \in R <=> \/ order[r.zone] < order[s.zone]
                                         \/ r.zone = s.zone /\ r.id < s.id
  OBVIOUS
<1> HIDE DEF R
<1>6. ASSUME NEW x \in G PROVE <<x, x>> \notin R
  BY <1>4, <1>5
<1>7. ASSUME NEW x \in G, NEW y \in G, NEW z \in G, <<x, y>> \in R, <<y, z>> \in R
      PROVE  <<x, z>> \in R
  BY <1>4, <1>5, <1>7
<1>8. ASSUME NEW x \in G, NEW y \in G PROVE x = y \/ <<x, y>> \in R \/ <<y, x>> \in R
  <2>1. CASE x.zone = y.zone
    BY <1>4, <1>5, <2>1 DEF IsAccount
  <2>2. CASE x.zone # y.zone
    BY <1>3, <1>4, <1>5, <2>2
  <2> QED BY <2>1, <2>2
<1>9. InOrder(R, G)
  BY <1>6, <1>7, <1>8 DEF InOrder
<1>10. PICK s \in [1..Cardinality(G) -> G] : \A i, j \in DOMAIN s : i < j => <<s[i], s[j]>> \in R
  BY <1>9, SetInOrder DEF IsAccount
<1> QED BY <1>5, <1>10

\* Endpoints of private zones have no set identifier.
NoSet == ""

LEMMA NoSetType == NoSet \in STRING
  BY Zenon, ValuesAssumption DEF NoSet

\* The endpoint of a group, by the list of its records.
LEMMA EndpointIs ==
  ASSUME NEW G, NEW order
  PROVE  LET t == CHOOSE s \in [1..Cardinality(G) -> G] : \A i, j \in DOMAIN s : i < j =>
                    \/ order[s[i].zone] < order[s[j].zone]
                    \/ s[i].zone = s[j].zone /\ s[i].id < s[j].id
         IN  EndpointOf(G, order) =
               [name |-> DnsDomain(t[1].sub, Zones[t[1].zone]), type |-> t[1].type,
                targets |-> [i \in DOMAIN t |-> t[i].value],
                setId |-> NoSet, props |-> PropertiesOf(t[1])]
  BY Zenon DEF EndpointOf, NoSet

\* An endpoint of the answer: all records of one type and name, each once, and the
\* first of them.
LEMMA EndpointFound ==
  ASSUME NEW S, IsAccount(S), NEW order \in Orders, NEW c \in Records(S, order)
  PROVE  \E first \in ListedOf(S) : \E s \in Seq(ListedOf(S)) :
           /\ Elements(s) = GroupOf(S, first) /\ IsInjective(s)
           /\ s # <<>> /\ first = s[1]
           /\ c = EndpointOf(GroupOf(S, first), order)
           /\ c = [name |-> DnsDomain(first.sub, Zones[first.zone]), type |-> first.type,
                   targets |-> [i \in DOMAIN s |-> s[i].value],
                   setId |-> NoSet, props |-> PropertiesOf(first)]
<1>1. PICK r \in ListedOf(S) : c = EndpointOf(GroupOf(S, r), order)
  BY RecordsAre
<1> DEFINE G == GroupOf(S, r)
           n == Cardinality(G)
           Rank(s) == \A i, j \in DOMAIN s : i < j =>
                        \/ order[s[i].zone] < order[s[j].zone]
                        \/ s[i].zone = s[j].zone /\ s[i].id < s[j].id
           t == CHOOSE s \in [1..n -> G] : Rank(s)
<1>2. IsAccount(G) /\ r \in G /\ G \subseteq ListedOf(S) /\ \A s \in G : s.zone \in ZoneFilter
  <2>1. G \subseteq ListedOf(S) /\ r \in G
    BY DEF GroupOf
  <2>2. IsFiniteSet(G)
    BY <2>1, ListingOf, FS_Subset DEF IsAccount
  <2> QED BY <2>1, <2>2, ListingOf DEF IsAccount
<1>3. t \in [1..n -> G] /\ Rank(t)
  <2>1. \E s \in [1..n -> G] : Rank(s)
    BY <1>2, GroupInOrder
  <2> QED BY <2>1
<1>4. n \in Nat /\ n # 0
  BY <1>2, FS_CardinalityType, FS_EmptySet DEF IsAccount
<1>5. c = [name |-> DnsDomain(t[1].sub, Zones[t[1].zone]), type |-> t[1].type,
           targets |-> [i \in DOMAIN t |-> t[i].value],
           setId |-> NoSet, props |-> PropertiesOf(t[1])]
  BY <1>1, EndpointIs
<1> HIDE DEF t
<1>6. ASSUME NEW i \in 1..n, NEW j \in 1..n, t[i] = t[j] PROVE i = j
  <2>1. t[i] \in G /\ order[t[i].zone] \in Int /\ t[i].id \in Nat
    <3>1. t[i] \in G
      BY <1>3
    <3>2. order \in [ZoneFilter -> 1..Cardinality(ZoneFilter)]
      BY DEF Orders
    <3> QED BY <1>2, <3>1, <3>2 DEF IsAccount, Record
  <2>2. DOMAIN t = 1..n
    BY <1>3
  <2>3. ~(i < j) /\ ~(j < i)
    BY <1>3, <1>6, <2>1, <2>2
  <2> QED BY <1>4, <2>3
<1>7. IsInjective(t)
  BY <1>3, <1>6 DEF IsInjective
<1>8. t \in Seq(G) /\ Elements(t) = G
  BY <1>2, <1>3, <1>7, NoneRepeated DEF IsAccount
<1>9. t[1] \in G /\ t # <<>>
  BY <1>3, <1>4
<1>10. Group(t[1]) = Group(r) /\ t[1] \in ListedOf(S)
  BY <1>9 DEF GroupOf
<1>11. GroupOf(S, t[1]) = G
  BY <1>10 DEF GroupOf
<1>12. t \in Seq(ListedOf(S))
  BY <1>2, <1>8, SeqDef
<1> QED BY <1>1, <1>5, <1>7, <1>8, <1>9, <1>10, <1>11, <1>12


\* The properties read from a record are properties of an endpoint.
LEMMA PropertiesType ==
  ASSUME NEW r \in Record, r.weight \subseteq DOMAIN FormatInt
  PROVE  /\ PropertiesOf(r) \in [DOMAIN PropertiesOf(r) -> STRING]
         /\ DOMAIN PropertiesOf(r) \subseteq {"weight"}
<1> DEFINE given == {p \in {"weight"} : r.weight # {}}
           text == FormatInt[CHOOSE n \in r.weight : TRUE]
<1>1. given # {} => text \in STRING
  BY FormatAssumption
<1>2. PropertiesOf(r) = [p \in given |-> text]
  BY DEF PropertiesOf
<1> HIDE DEF text
<1>3. given \subseteq {"weight"}
  OBVIOUS
<1> HIDE DEF given
<1> QED BY <1>1, <1>2, <1>3

\* The answer is a finite set of endpoints as they may be posted.
LEMMA AnswerType ==
  ASSUME NEW S, IsAccount(S), NEW order \in Orders
  PROVE  /\ IsFiniteSet(Records(S, order))
         /\ \A c \in Records(S, order) : IsEndpoint(c)
<1>1. IsFiniteSet(Records(S, order))
  <2> DEFINE answer == [r \in ListedOf(S) |-> EndpointOf(GroupOf(S, r), order)]
  <2>0. IsFiniteSet(ListedOf(S))
    BY ListingOf DEF IsAccount
  <2>1. IsFiniteSet({answer[r] : r \in ListedOf(S)})
    <3> HIDE DEF answer
    <3> QED BY <2>0, FiniteImage
  <2>2. {answer[r] : r \in ListedOf(S)} = {EndpointOf(GroupOf(S, r), order) : r \in ListedOf(S)}
    OBVIOUS
  <2> QED BY <2>1, <2>2, RecordsAre
<1>2. ASSUME NEW c \in Records(S, order) PROVE IsEndpoint(c)
  <2>1. PICK first \in ListedOf(S) : \E s \in Seq(ListedOf(S)) :
           /\ s # <<>> /\ first = s[1]
           /\ c = [name |-> DnsDomain(first.sub, Zones[first.zone]), type |-> first.type,
                   targets |-> [i \in DOMAIN s |-> s[i].value],
                   setId |-> NoSet, props |-> PropertiesOf(first)]
    BY <1>2, EndpointFound
  <2>2. PICK s \in Seq(ListedOf(S)) :
           c = [name |-> DnsDomain(first.sub, Zones[first.zone]), type |-> first.type,
                targets |-> [i \in DOMAIN s |-> s[i].value],
                setId |-> NoSet, props |-> PropertiesOf(first)]
    BY <2>1
  <2>3. first \in Record /\ first.weight \subseteq DOMAIN FormatInt /\ ListedOf(S) \subseteq Record
        /\ Zones[first.zone] \in Name
    BY ListingOf DEF IsAccount
  <2>4. DnsDomain(first.sub, Zones[first.zone]) \in Name
    BY <2>3 DEF DnsDomain, Name, Record
  <2>5. [i \in DOMAIN s |-> s[i].value] \in Seq(Value)
    <3>1. DOMAIN s = 1..Len(s) /\ Len(s) \in Nat /\ \A i \in DOMAIN s : s[i] \in ListedOf(S)
      BY LenProperties, ElementOfSeq
    <3>2. \A i \in 1..Len(s) : s[i].value \in Value
      BY <2>3, <3>1 DEF Record
    <3> QED BY <3>1, <3>2, SeqDef
  <2>6. /\ PropertiesOf(first) \in [DOMAIN PropertiesOf(first) -> STRING]
        /\ DOMAIN PropertiesOf(first) \in SUBSET {"weight", "remark"}
    BY <2>3, PropertiesType
  <2> QED BY <2>2, <2>3, <2>4, <2>5, <2>6, NoSetType DEF IsEndpoint, Record
<1> QED BY <1>1, <1>2

\* What can be told from an endpoint of the answer of the record it starts with.
LEMMA FirstOf ==
  ASSUME NEW S, IsAccount(S), NEW order \in Orders, NEW c \in Records(S, order)
  PROVE  \E first \in ListedOf(S) :
           /\ c = EndpointOf(GroupOf(S, first), order)
           /\ c.name = Entry(first).name /\ c.type = Entry(first).type
           /\ c.targets[1] = Entry(first).value
           /\ Group(first) = <<c.type, c.name>>
<1>1. PICK first \in ListedOf(S) : \E s \in Seq(ListedOf(S)) :
         /\ s # <<>> /\ first = s[1]
         /\ c = EndpointOf(GroupOf(S, first), order)
         /\ c = [name |-> DnsDomain(first.sub, Zones[first.zone]), type |-> first.type,
                 targets |-> [i \in DOMAIN s |-> s[i].value],
                 setId |-> NoSet, props |-> PropertiesOf(first)]
  BY EndpointFound
<1>2. PICK s \in Seq(ListedOf(S)) :
         /\ s # <<>> /\ first = s[1]
         /\ c = [name |-> DnsDomain(first.sub, Zones[first.zone]), type |-> first.type,
                 targets |-> [i \in DOMAIN s |-> s[i].value],
                 setId |-> NoSet, props |-> PropertiesOf(first)]
  BY <1>1
<1>3. Listed(first) = first
  BY ListingOf
<1>4. 1 \in DOMAIN s
  BY <1>2, LenProperties, EmptySeq
<1>5. c.targets[1] = Entry(first).value
  BY <1>2, <1>3, <1>4 DEF Entry
<1>6. c.name = Entry(first).name /\ c.type = Entry(first).type
  BY <1>2 DEF Entry
<1>7. Group(first) = <<c.type, c.name>>
  BY <1>2 DEF Group
<1> QED BY <1>1, <1>5, <1>6, <1>7

\* No two endpoints of an answer are the same to ExternalDNS.
LEMMA AnswerUnique ==
  ASSUME NEW S, IsAccount(S), NEW order \in Orders,
         NEW c \in Records(S, order), NEW d \in Records(S, order),
         c.name = d.name, c.type = d.type
  PROVE  c = d
<1>1. PICK r \in ListedOf(S) : c = EndpointOf(GroupOf(S, r), order) /\ Group(r) = <<c.type, c.name>>
  BY FirstOf
<1>2. PICK s \in ListedOf(S) : d = EndpointOf(GroupOf(S, s), order) /\ Group(s) = <<d.type, d.name>>
  BY FirstOf
<1>3. Group(r) = Group(s)
  BY <1>1, <1>2
<1> QED BY <1>1, <1>2, <1>3 DEF GroupOf

\* The place of an endpoint's mark.
MarkPlace(ep) == MarkName(ep.name, ep.type)

\* One that ExternalDNS takes for its own has its mark in its place.
LEMMA OwnedIsMarked ==
  ASSUME NEW S, IsAccount(S), NEW order \in Orders,
         NEW c \in Records(S, order), Owned(c, Records(S, order))
  PROVE  MarkPlace(c) \in Marked(S)
<1>1. PICK m \in Records(S, order) : /\ IsMark(m) /\ m.name = MarkPlace(c)
                                     /\ m.targets[1].text = OurMark
  BY DEF Owned, MarkPlace
<1>2. PICK s \in ListedOf(S) : /\ m.name = Entry(s).name /\ m.type = Entry(s).type
                               /\ m.targets[1] = Entry(s).value
  BY FirstOf
<1>3. Entry(s) \in Contents(S)
  BY ListingOf DEF Contents
<1>4. IsOurs(Entry(s))
  BY <1>1, <1>2 DEF IsOurs, IsMark
<1> QED BY <1>1, <1>2, <1>3, <1>4 DEF Marks, Marked
-----------------------------------------------------------------------------
(* What ExternalDNS posts.                                                   *)

\* The name of a mark is a name.
LEMMA MarkNameType ==
  ASSUME NEW name \in Name, NEW type \in STRING
  PROVE  MarkName(name, type) \in Name
BY PrefixType DEF MarkName

\* The mark of an endpoint is an endpoint.
LEMMA MarkIsEndpoint ==
  ASSUME NEW ep, IsEndpoint(ep)
  PROVE  /\ IsEndpoint(MarkFor(ep)) /\ MarkFor(ep).type = "TXT"
         /\ DOMAIN MarkFor(ep).targets = {1}
         /\ MarkFor(ep).targets[1] = [text |-> OurMark, quoted |-> TRUE]
<1> DEFINE v == [text |-> OurMark, quoted |-> TRUE]
<1>1. v \in Value
  BY MarkAssumption DEF Value
<1>2. <<v>> \in Seq(Value) /\ DOMAIN <<v>> = {1} /\ <<v>>[1] = v
  BY <1>1
<1> HIDE DEF v
<1>3. /\ MarkFor(ep).type = "TXT" /\ MarkFor(ep).targets = <<v>>
      /\ MarkFor(ep).setId = ep.setId /\ MarkFor(ep).props = ep.props
      /\ MarkFor(ep) \in [name : Name, type : STRING, targets : Seq(Value), setId : STRING,
                          props : {ep.props}]
  <2>1. ep \in [name : Name, type : STRING, targets : Seq(Value), setId : STRING,
                props : {ep.props}]
    BY DEF IsEndpoint
  <2> DEFINE n == MarkName(ep.name, ep.type)
  <2>2. n \in Name
    BY <2>1, MarkNameType
  <2> HIDE DEF n
  <2>3. MarkFor(ep) = [name |-> n, type |-> "TXT", targets |-> <<v>>, setId |-> ep.setId,
                       props |-> ep.props]
    <3> DEFINE typed == [ep EXCEPT !.name = n, !.type = "TXT"]
    <3>1. [ep EXCEPT !.name = n] = [name |-> n, type |-> ep.type, targets |-> ep.targets,
                                    setId |-> ep.setId, props |-> ep.props]
      BY <2>1
    <3>2. typed = [name |-> n, type |-> "TXT", targets |-> ep.targets,
                   setId |-> ep.setId, props |-> ep.props]
      <4> DEFINE named == [ep EXCEPT !.name = n]
      <4>1. typed = [named EXCEPT !.type = "TXT"]
        OBVIOUS
      <4>2. named = [name |-> n, type |-> ep.type, targets |-> ep.targets,
                     setId |-> ep.setId, props |-> ep.props]
        BY <3>1
      <4> HIDE DEF named
      <4> QED BY <4>1, <4>2
    <3> HIDE DEF typed
    <3>3. MarkFor(ep) = [typed EXCEPT !.targets = <<v>>]
      BY DEF MarkFor, v, typed, n
    <3> QED BY <3>2, <3>3
  <2>4. "TXT" \in STRING
    BY Zenon, ValuesAssumption
  <2> QED BY <1>2, <2>1, <2>2, <2>3, <2>4
<1>4. IsEndpoint(MarkFor(ep))
  BY <1>3 DEF IsEndpoint
<1> QED BY <1>2, <1>3, <1>4 DEF v

\* A list of endpoints with their marks.
LEMMA WithMarksAre ==
  ASSUME NEW eps, IsFiniteSet(eps), \A ep \in eps : IsEndpoint(ep)
  PROVE  /\ WithMarks(eps) \in Seq(Endpoint)
         /\ Endpoints(WithMarks(eps)) = eps \cup {MarkFor(ep) : ep \in eps}
<1> DEFINE mark == [ep \in eps |-> MarkFor(ep)]
           marks == {MarkFor(ep) : ep \in eps}
<1>1. marks = {mark[ep] : ep \in eps}
  OBVIOUS
<1>2. IsFiniteSet(marks)
  <2> HIDE DEF mark
  <2> QED BY <1>1, FiniteImage
<1>3. eps \subseteq Endpoint /\ marks \subseteq Endpoint
  BY EndpointType, MarkIsEndpoint
<1> HIDE DEF marks
<1>4. /\ SetToSeq(eps) \in Seq(eps) /\ Elements(SetToSeq(eps)) = eps
      /\ SetToSeq(marks) \in Seq(marks) /\ Elements(SetToSeq(marks)) = marks
  BY <1>2, ListOfSet
<1>5. SetToSeq(eps) \in Seq(Endpoint) /\ SetToSeq(marks) \in Seq(Endpoint)
  BY <1>3, <1>4, SeqDef
<1>6. WithMarks(eps) = SetToSeq(eps) \o SetToSeq(marks)
  BY DEF WithMarks, marks
<1>7. /\ WithMarks(eps) \in Seq(Endpoint)
      /\ Elements(WithMarks(eps)) = eps \cup marks
  BY <1>4, <1>5, <1>6, ElementsOfConcat
<1> QED BY <1>7 DEF Elements, Endpoints, marks

\* The difference is a request, which removes what ExternalDNS owns and adds what is
\* wanted, each with its mark.
LEMMA DifferenceType ==
  ASSUME NEW current, IsFiniteSet(current), \A c \in current : IsEndpoint(c),
         NEW wanted, IsFiniteSet(wanted), \A d \in wanted : IsEndpoint(d)
  PROVE  /\ Difference(current, wanted) \in Change
         /\ \A ep \in ToRemove(Difference(current, wanted)) :
              \E c \in current : /\ ~IsMark(c) /\ Owned(c, current)
                                 /\ ep = c \/ ep = MarkFor(c)
         /\ \A ep \in ToAdd(Difference(current, wanted)) :
              \E d \in wanted : ep = d \/ ep = MarkFor(d)
<1> DEFINE plain == {c \in current : ~IsMark(c)}
           owned == {c \in plain : Owned(c, current)}
           new == {d \in wanted : \A c \in plain : ~Same(c, d)}
           before == {c \in owned : \E d \in wanted : Same(c, d) /\ Differs(c, d)}
           after == {d \in wanted : \E c \in owned : Same(c, d) /\ Differs(c, d)}
           gone == {c \in owned : \A d \in wanted : ~Same(c, d)}
<1>1. Difference(current, wanted) = [create |-> WithMarks(new), updateOld |-> WithMarks(before),
                                     updateNew |-> WithMarks(after), delete |-> WithMarks(gone)]
  BY DEF Difference
<1>2. /\ IsFiniteSet(new) /\ IsFiniteSet(before) /\ IsFiniteSet(after) /\ IsFiniteSet(gone)
      /\ \A ep \in new \cup before \cup after \cup gone : IsEndpoint(ep)
  <2>1. new \subseteq wanted /\ after \subseteq wanted /\ before \subseteq current /\ gone \subseteq current
    OBVIOUS
  <2> HIDE DEF new, before, after, gone
  <2> QED BY <2>1, FS_Subset
<1>3. /\ \A c \in before \cup gone : c \in current /\ ~IsMark(c) /\ Owned(c, current)
      /\ new \cup after \subseteq wanted
  OBVIOUS
<1> HIDE DEF new, before, after, gone
<1>4. /\ \A eps \in {new, before, after, gone} : WithMarks(eps) \in Seq(Endpoint)
      /\ \A eps \in {new, before, after, gone} :
           Endpoints(WithMarks(eps)) = eps \cup {MarkFor(ep) : ep \in eps}
  BY <1>2, WithMarksAre
<1>5. Difference(current, wanted) \in Change
  BY <1>1, <1>4 DEF Change
<1>6. ToRemove(Difference(current, wanted)) =
        Endpoints(WithMarks(gone)) \cup Endpoints(WithMarks(before))
  BY <1>1 DEF ToRemove
<1>7. ToAdd(Difference(current, wanted)) =
        Endpoints(WithMarks(new)) \cup Endpoints(WithMarks(after))
  BY <1>1 DEF ToAdd
<1> QED BY <1>3, <1>4, <1>5, <1>6, <1>7
-----------------------------------------------------------------------------
(* The invariant of the loop.                                                *)

\* What ExternalDNS may ask to remove: nothing but marks of its own, or what has its
\* mark in its place, or had it.
Ours(ep) == ep.type = "TXT" /\ \A k \in DOMAIN ep.targets : ep.targets[k].text = OurMark
Charged(ep) == Ours(ep) \/ MarkPlace(ep) \in claimed

\* And what to add: no TXT record, which might be a mark, elsewhere.
Claimed(ep) == ep.type = "TXT" => ep.name \in claimed

\* Records can be listed.
AccountInv ==
  /\ IsFiniteSet(live)
  /\ \A r \in live : r.weight \subseteq DOMAIN FormatInt

\* What has been read is fit to be posted, and what in it looks like ExternalDNS's
\* own is so.
SeenInv ==
  /\ IsFiniteSet(seen)
  /\ \A c \in seen : IsEndpoint(c) /\ (Owned(c, seen) => MarkPlace(c) \in claimed)
  /\ \A c, d \in seen : Same(c, d) => c = d

\* All marks are in places that are claimed, and handlers are asked for nothing else.
ClaimInv ==
  /\ Marked(live) \subseteq claimed
  /\ Claims(wish) \subseteq claimed
  /\ \A h \in Handlers : Active(h) =>
       /\ \A ep \in ToRemove(req[h]) : Charged(ep)
       /\ \A ep \in ToAdd(req[h]) : Claimed(ep)

LoopInv ==
  /\ wish \in Wishes
  /\ loop \in {"idle", "seen", "waiting"}
  /\ serving \in Handlers
  /\ loop # "seen" => seen = {}
  /\ spent \in [Budgets -> Nat]

SyncInv == MInv /\ AccountInv /\ SeenInv /\ ClaimInv /\ LoopInv

\* The marked names are those of the records with the mark.
LEMMA MarkedAre ==
  ASSUME NEW S
  PROVE  \A p : p \in Marked(S) <=> \E r \in S : IsOurs(Entry(r)) /\ p = Entry(r).name
  BY DEF Marked, Marks, Contents

\* What is added bears a name and type that are asked for, and can be listed.
LEMMA AdditionsAre ==
  ASSUME NEW changes \in Change, NEW e \in Additions(changes)
  PROVE  /\ e.weight \subseteq DOMAIN FormatInt
         /\ \E ep \in ToAdd(changes) : e.name = ep.name /\ e.type = ep.type
<1>1. PICK ep \in ToAdd(changes) : \E k \in DOMAIN ep.targets, z \in FindZone(Managed, ep.name) :
        e = Entry(NewRecord(ep, z, k))
  BY DEF Additions
<1>2. PICK k \in DOMAIN ep.targets, z \in FindZone(Managed, ep.name) :
        e = Entry(NewRecord(ep, z, k))
  BY <1>1
<1> DEFINE new == NewRecord(ep, z, k)
<1>3. ep \in Endpoint /\ IsEndpoint(ep)
  BY RequestProperties, EndpointType
<1>4. new.zone = z /\ new.sub = SubDomain(Zones[z], ep.name) /\ new.type = ep.type
  BY DEF NewRecord
<1>5. new.weight \subseteq DOMAIN FormatInt
  BY FormatAssumption DEF NewRecord
<1> HIDE DEF new
<1>6. /\ e.name = DnsDomain(SubDomain(Zones[z], ep.name), Zones[z]) /\ e.type = ep.type
      /\ e.weight = new.weight
  BY <1>2, <1>4 DEF Entry, new
<1>7. e.name = ep.name
  BY <1>3, <1>6, ZoneFound, SubDomainJoins DEF IsEndpoint
<1> QED BY <1>3, <1>5, <1>6, <1>7

\* A base record is nobody's mark.
LEMMA BasesAre ==
  ASSUME NEW z \in ZoneFilter
  PROVE  /\ BaseRecord(z) \in Record
         /\ BaseRecord(z).weight \subseteq DOMAIN FormatInt
         /\ ~IsOurs(Entry(BaseRecord(z)))
<1> DEFINE b == BaseRecord(z)
<1>1. b \in Record
  BY BaseRecordType
<1>2. b.type = "TXT" /\ b.value = [text |-> BaseText, quoted |-> FALSE] /\ b.weight = {}
  BY Zenon DEF BaseRecord
<1> HIDE DEF b
<1>3. BaseText \notin Heritage
  BY Zenon, ValuesAssumption
<1>4. Listed(b) = b
  BY <1>2, <1>3 DEF Listed
<1>5. Entry(b).value.text = BaseText
  BY <1>2, <1>4 DEF Entry
<1>6. BaseText # OurMark
  BY <1>3, MarkAssumption
<1> QED BY <1>1, <1>2, <1>5, <1>6 DEF IsOurs, b

\* An accepted call or a console user adds, if anything, one record whose kind is
\* known; and the account stays finite.
LEMMA AccountGrows ==
  ASSUME SyncInv, Move, NEW r \in live' \ live
  PROVE  /\ r.weight \subseteq DOMAIN FormatInt
         /\ IsOurs(Entry(r)) => \/ Entry(r).name \in claimed
                              \/ ConsoleAdd
<1>0. /\ MInv /\ SInv /\ nextId \in Nat
      /\ \A h \in Handlers : pc[h] = "call" => Active(h) /\ req[h] \in Change
  BY CallIsTodo DEF SyncInv, MInv, SInv, Sound
<1>1. ASSUME NEW h \in Handlers, pc[h] = "call", job[h] \in Job, IsPlanned(h, job[h]),
             NEW s \in Record, Adds(h, s), r = [s EXCEPT !.id = nextId]
      PROVE  s.weight \subseteq DOMAIN FormatInt /\ (IsOurs(Entry(s)) => Entry(s).name \in claimed)
  <2>1. CASE job[h].op = "base"
    <3>1. s = BaseRecord(job[h].zone) /\ job[h].zone \in ZoneFilter
      BY <1>1, <2>1 DEF IsPlanned, Adds, Job
    <3> QED BY <3>1, BasesAre
  <2>2. CASE job[h].op # "base"
    <3>1. Entry(s) \in Additions(req[h])
      BY <1>1, <2>2 DEF IsPlanned, Adds
    <3>2. Entry(s).weight = s.weight
      BY DEF Entry
    <3> QED BY <1>0, <1>1, <3>1, <3>2, AdditionsAre DEF SyncInv, ClaimInv, Claimed, IsOurs
  <2> QED BY <2>1, <2>2
<1>2. ASSUME NEW s \in Record, r = [s EXCEPT !.id = nextId]
      PROVE  Entry(r) = Entry(s) /\ r.weight = s.weight
  BY <1>0, <1>2, EntryOfNew DEF Record
<1>3. CASE ConsoleAdd
  <2>1. PICK s \in ConsoleRecords : r = [s EXCEPT !.id = nextId]
    BY <1>3 DEF ConsoleAdd
  <2>2. s \in Record /\ s.weight \subseteq DOMAIN FormatInt
    BY RecordsAssumption, FormatAssumption
  <2> QED BY <1>2, <1>3, <2>1, <2>2
<1>4. ASSUME NEW h \in Handlers, pc[h] = "call", job[h] \in Job, IsPlanned(h, job[h]),
             NEW s \in Record, Adds(h, s)
      PROVE  r.weight \subseteq DOMAIN FormatInt /\ (IsOurs(Entry(r)) => Entry(r).name \in claimed)
  <2>1. r = [s EXCEPT !.id = nextId]
    BY <1>4 DEF Adds
  <2> QED BY <1>1, <1>2, <1>4, <2>1
<1> QED
  BY <1>0, <1>3, <1>4, MovesAccount DEF Deletes, ConsoleRemove

LEMMA AccountFinite ==
  ASSUME SInv, Move, IsFiniteSet(live)
  PROVE  IsFiniteSet(live')
<1>1. ASSUME live' \subseteq live PROVE IsFiniteSet(live')
  BY <1>1, FS_Subset
<1>2. ASSUME NEW r, live' = live \cup {r} PROVE IsFiniteSet(live')
  BY <1>2, FS_AddElement
<1> QED BY <1>1, <1>2, MovesAccount DEF Deletes, Adds, ConsoleAdd, ConsoleRemove

\* So the account stays one that can be listed, with its marks in claimed places.
LEMMA NextAccountInv ==
  ASSUME SyncInv, Move, claimed \subseteq claimed',
         ConsoleAdd => Marked(live' \ live) \subseteq claimed'
  PROVE  AccountInv' /\ Marked(live') \subseteq claimed'
<1>1. IsFiniteSet(live')
  BY AccountFinite DEF SyncInv, MInv, AccountInv
<1>2. AccountInv'
  BY <1>1, AccountGrows DEF SyncInv, AccountInv
<1>3. ASSUME NEW p \in Marked(live') PROVE p \in claimed'
  <2>1. PICK r \in live' : IsOurs(Entry(r)) /\ p = Entry(r).name
    BY MarkedAre
  <2>2. CASE r \in live
    BY <2>1, <2>2, MarkedAre DEF SyncInv, ClaimInv
  <2>3. CASE r \notin live
    <3>1. p \in Marked(live' \ live)
      BY <2>1, <2>3, MarkedAre
    <3> QED BY <2>1, <2>3, <3>1, AccountGrows
  <2> QED BY <2>2, <2>3
<1> QED BY <1>2, <1>3

\* The first state is such a state.
LEMMA InitSyncInv == SyncInit => SyncInv
<1> SUFFICES ASSUME SyncInit PROVE SyncInv
  OBVIOUS
<1>0. Init /\ live \in InitialLive /\ \A h \in Handlers : ~Active(h)
  BY DEF SyncInit, Init, Active
<1>1. MInv
  BY <1>0, InitMInv
<1>2. AccountInv
  BY <1>0, RecordsAssumption, FormatAssumption DEF AccountInv
<1>3. SeenInv
  BY FS_EmptySet DEF SeenInv, SyncInit
<1>4. ClaimInv
  BY <1>0 DEF ClaimInv, SyncInit
<1>5. LoopInv
  BY <1>0 DEF LoopInv, SyncInit, Init
<1> QED BY <1>1, <1>2, <1>3, <1>4, <1>5 DEF SyncInv

\* What GET /records answers.
LEMMA ObserveSyncInv ==
  ASSUME SyncInv, Observe
  PROVE  Move /\ AccountInv' /\ SeenInv' /\ ClaimInv' /\ LoopInv'
<1>1. PICK order \in Orders : seen' = Records(live, order)
  BY DEF Observe
<1>2. IsAccount(live)
  BY DEF SyncInv, MInv, SInv, Sound, AccountInv, IsAccount
<1>3. /\ UNCHANGED <<live, nextId, handlerVars, pc, req, spent, wish, serving, claimed>>
      /\ loop' = "seen"
  BY DEF Observe, vars, handlerVars
<1>4. IsFiniteSet(seen') /\ \A c \in seen' : IsEndpoint(c)
  BY <1>1, <1>2, AnswerType
<1>5. \A c \in seen' : Owned(c, seen') => MarkPlace(c) \in claimed
  BY <1>1, <1>2, OwnedIsMarked DEF SyncInv, ClaimInv
<1>6. \A c, d \in seen' : Same(c, d) => c = d
  BY <1>1, <1>2, AnswerUnique DEF Same
<1>7. SeenInv'
  BY <1>3, <1>4, <1>5, <1>6 DEF SeenInv
<1>8. AccountInv'
  BY <1>3 DEF SyncInv, AccountInv
<1>9. ClaimInv'
  BY <1>3 DEF SyncInv, ClaimInv, Charged, Claimed, Active
<1>10. LoopInv'
  BY <1>3 DEF SyncInv, LoopInv
<1> QED BY <1>3, <1>7, <1>8, <1>9, <1>10 DEF Move

\* What is posted.
LEMMA PostSyncInv ==
  ASSUME SyncInv, Post
  PROVE  Move /\ AccountInv' /\ SeenInv' /\ ClaimInv' /\ LoopInv'
<1> DEFINE changes == Difference(seen, wish)
<1>1. PICK h \in Handlers : Take(h, changes) /\ serving' = h
  BY DEF Post, NextHandler
<1>2. UNCHANGED <<spent, wish, claimed>> /\ loop' = "waiting" /\ seen' = {}
  BY DEF Post
<1>3. IsFiniteSet(wish) /\ \A d \in wish : IsEndpoint(d)
  BY WishesAssumption DEF SyncInv, LoopInv
<1>4. IsFiniteSet(seen) /\ \A c \in seen : IsEndpoint(c) /\ (Owned(c, seen) => MarkPlace(c) \in claimed)
  BY DEF SyncInv, SeenInv
<1>5. changes \in Change
  BY <1>3, <1>4, DifferenceType
<1>6. \A ep \in ToRemove(changes) : Charged(ep)
  <2>1. ASSUME NEW ep \in ToRemove(changes) PROVE Charged(ep)
    <3>1. PICK c \in seen : Owned(c, seen) /\ (ep = c \/ ep = MarkFor(c))
      BY <1>3, <1>4, DifferenceType
    <3>2. Ours(MarkFor(c))
      BY <1>4, MarkIsEndpoint DEF Ours
    <3> QED BY <1>4, <3>1, <3>2 DEF Charged
  <2> QED BY <2>1
<1>7. \A ep \in ToAdd(changes) : Claimed(ep)
  <2>1. ASSUME NEW ep \in ToAdd(changes), ep.type = "TXT" PROVE ep.name \in claimed
    <3>1. PICK d \in wish : ep = d \/ ep = MarkFor(d)
      BY <1>3, <1>4, DifferenceType
    <3>2. ep \in {MarkFor(c) : c \in wish} \cup {c \in wish : c.type = "TXT"}
      BY <2>1, <3>1
    <3>3. ep.name \in Claims(wish)
      BY <3>2 DEF Claims
    <3> QED BY <3>3 DEF SyncInv, ClaimInv
  <2> QED BY <2>1 DEF Claimed
<1> HIDE DEF changes
<1>8. Move
  BY <1>1, <1>5 DEF Move
<1>9. /\ UNCHANGED live /\ req' = [req EXCEPT ![h] = changes]
      /\ req \in [Handlers -> Change \cup {None}]
      /\ \A g \in Handlers \ {h} : pc'[g] = pc[g]
  BY <1>1 DEF Take, SyncInv, MInv, SInv, Sound
<1>10. AccountInv'
  BY <1>9 DEF SyncInv, AccountInv
<1>11. SeenInv'
  BY <1>2, FS_EmptySet DEF SeenInv
<1>12. ASSUME NEW g \in Handlers, Active(g)'
       PROVE  /\ \A ep \in ToRemove(req'[g]) : Charged(ep)
              /\ \A ep \in ToAdd(req'[g]) : Claimed(ep)
  <2>1. CASE g = h
    BY <1>6, <1>7, <1>9, <2>1
  <2>2. CASE g # h
    BY <1>9, <1>12, <2>2 DEF SyncInv, ClaimInv, Active
  <2> QED BY <2>1, <2>2
<1>13. ClaimInv'
  BY <1>2, <1>9, <1>12 DEF SyncInv, ClaimInv, Charged, Claimed
<1>14. LoopInv'
  BY <1>1, <1>2 DEF SyncInv, LoopInv
<1> QED BY <1>8, <1>10, <1>11, <1>13, <1>14

\* No other step brings a handler a request, and budgets stay numbers.
LEMMA RequestsStay ==
  ASSUME Sound, spent \in [Budgets -> Nat],
         (\E h \in Handlers : HandlerStep(h)) \/ Crash \/ ConsoleAdd \/ ConsoleRemove
  PROVE  /\ Move
         /\ UNCHANGED req
         /\ \A g \in Handlers : Active(g)' => Active(g)
         /\ spent' \in [Budgets -> Nat]
         /\ ConsoleRemove => spent'["console"] # spent["console"]
<1>0. pc \in [Handlers -> PcValues] /\ \A what \in Budgets : spent[what] \in Nat
  BY DEF Sound
<1>1. Move
  BY DEF Move
<1>2. UNCHANGED req
  BY DEF HandlerStep, ListZones, ListRecords, Plan, StartCall, Succeed, Answered, Refused,
         AnswerLost, NotExecuted, Throttled, Again, Done, End,
         Crash, ConsoleAdd, ConsoleRemove, handlerVars
<1>3. ASSUME NEW h \in Handlers, HandlerStep(h) PROVE \A g \in Handlers : Active(g)' => Active(g)
  BY <1>0, <1>3
  DEF HandlerStep, ListZones, ListRecords, Plan, StartCall, Succeed, Answered, Refused,
      AnswerLost, NotExecuted, Throttled, Calling, Again, Done, End, Active
<1>4. ASSUME Crash \/ ConsoleAdd \/ ConsoleRemove
      PROVE  \A g \in Handlers : Active(g)' => Active(g)
  BY <1>0, <1>4 DEF Crash, ConsoleAdd, ConsoleRemove, handlerVars, Active
<1>5. spent' \in [Budgets -> Nat]
  BY SpendType, BudgetNames
  DEF HandlerStep, ListZones, ListRecords, Plan, StartCall, Succeed, Answered, Refused,
      AnswerLost, NotExecuted, Throttled, Fault, Crash, ConsoleAdd, ConsoleRemove
<1>6. ConsoleRemove => spent'["console"] # spent["console"]
  BY <1>0, BudgetNames DEF ConsoleRemove, Spend
<1> QED BY <1>1, <1>2, <1>3, <1>4, <1>5, <1>6

\* What the step of a handler does, and what others do.
LEMMA WorkSyncInv ==
  ASSUME SyncInv, (\E h \in Handlers : Work(h)) \/ Others
  PROVE  Move /\ AccountInv' /\ SeenInv' /\ ClaimInv' /\ LoopInv'
<1>0. /\ SInv /\ Sound /\ spent \in [Budgets -> Nat]
      /\ (\E h \in Handlers : HandlerStep(h)) \/ Crash \/ ConsoleAdd \/ ConsoleRemove
      /\ UNCHANGED <<wish, seen, loop, serving>> /\ claimed \subseteq claimed'
      /\ UNCHANGED claimed \/ claimed' = claimed \cup Marked(live' \ live)
  BY DEF SyncInv, MInv, SInv, LoopInv, Work, Others, syncVars
<1>1. /\ Move /\ UNCHANGED req /\ spent' \in [Budgets -> Nat]
      /\ \A g \in Handlers : Active(g)' => Active(g)
  BY <1>0, RequestsStay
<1>2. ConsoleAdd => Marked(live' \ live) \subseteq claimed'
  <2>1. CASE Others
    BY <2>1 DEF Others
  <2>2. ASSUME NEW h \in Handlers, HandlerStep(h), ConsoleAdd PROVE FALSE
    <3>1. UNCHANGED spent \/ \E final \in BOOLEAN : Fault(h, final)
      BY <2>2
      DEF HandlerStep, ListZones, ListRecords, Plan, StartCall, Succeed, Answered, Refused,
          AnswerLost, NotExecuted, Throttled, LastAttempt
    <3>2. spent["console"] \in Nat /\ spent["faults"] \in Nat
      BY <1>0, BudgetNames
    <3> QED BY <1>0, <2>2, <3>1, <3>2, BudgetNames DEF ConsoleAdd, Fault, Spend
  <2> QED BY <2>1, <2>2 DEF Work
<1>3. AccountInv' /\ Marked(live') \subseteq claimed'
  BY <1>0, <1>1, <1>2, NextAccountInv
<1>4. ClaimInv'
  <2>1. Marked(live)' \subseteq claimed'
    BY <1>3
  <2>2. Claims(wish)' \subseteq claimed'
    BY <1>0 DEF SyncInv, ClaimInv
  <2>3. \A g \in Handlers : Active(g)' =>
          /\ \A ep \in ToRemove(req'[g]) : Charged(ep)'
          /\ \A ep \in ToAdd(req'[g]) : Claimed(ep)'
    BY <1>0, <1>1 DEF SyncInv, ClaimInv, Charged, Claimed
  <2> QED BY <2>1, <2>2, <2>3 DEF ClaimInv
<1>5. SeenInv' /\ LoopInv'
  BY <1>0, <1>1 DEF SyncInv, SeenInv, LoopInv
<1> QED BY <1>1, <1>3, <1>4, <1>5

\* Steps of ExternalDNS alone, and a change of mind, which claims what it wants.
LEMMA IdleSyncInv ==
  ASSUME SyncInv, Rest \/ Hear \/ GiveUp \/ Wish \/ UNCHANGED allVars
  PROVE  Move /\ AccountInv' /\ SeenInv' /\ ClaimInv' /\ LoopInv'
<1>1. /\ UNCHANGED vars
      /\ wish' \in Wishes /\ loop' \in {"idle", "seen", "waiting"} /\ UNCHANGED serving
      /\ seen' \in {seen, {}} /\ (loop' # "seen" => seen' = {})
      /\ UNCHANGED <<wish, claimed>> \/ claimed' = claimed \cup Claims(wish')
  BY DEF Rest, Hear, GiveUp, Wish, allVars, syncVars, SyncInv, LoopInv
<1>2. UNCHANGED <<live, nextId, handlerVars, pc, req, spent>> /\ claimed \subseteq claimed'
  BY <1>1 DEF vars, handlerVars
<1>3. AccountInv' /\ Move
  BY <1>2 DEF SyncInv, AccountInv, Move
<1>4. SeenInv'
  <2>1. CASE seen' = {}
    BY <2>1, FS_EmptySet DEF SeenInv
  <2>2. CASE seen' = seen
    BY <1>2, <2>2 DEF SyncInv, SeenInv
  <2> QED BY <1>1, <2>1, <2>2
<1>5. ClaimInv'
  <2>1. Claims(wish)' \subseteq claimed'
    BY <1>1 DEF SyncInv, ClaimInv
  <2>2. Marked(live)' \subseteq claimed'
    BY <1>2 DEF SyncInv, ClaimInv
  <2>3. \A g \in Handlers : Active(g)' =>
          /\ \A ep \in ToRemove(req'[g]) : Charged(ep)'
          /\ \A ep \in ToAdd(req'[g]) : Claimed(ep)'
    BY <1>2 DEF SyncInv, ClaimInv, Charged, Claimed, Active
  <2> QED BY <2>1, <2>2, <2>3 DEF ClaimInv
<1>6. LoopInv'
  BY <1>1, <1>2 DEF SyncInv, LoopInv
<1> QED BY <1>3, <1>4, <1>5, <1>6

\* Every step of the loop is one of the account and the handlers, and keeps the
\* invariant.
LEMMA NextSyncInv == SyncInv /\ [SyncNext]_allVars => Move /\ SyncInv'
<1> SUFFICES ASSUME SyncInv, [SyncNext]_allVars PROVE Move /\ SyncInv'
  OBVIOUS
<1>1. Move /\ AccountInv' /\ SeenInv' /\ ClaimInv' /\ LoopInv'
  BY ObserveSyncInv, PostSyncInv, WorkSyncInv, IdleSyncInv DEF SyncNext, Controller
<1> QED BY <1>1, MoveMInv DEF SyncInv

\* ExternalDNS holds an answer only while it compares, and one in which no endpoint
\* hides another of its name, type and set identifier: though endpoints of private
\* zones have no set identifier, and base records lie among their records.
THEOREM SyncTypeCorrect == SyncSpec => []SyncTypeOK
<1>1. SyncInv => SyncTypeOK
  BY DEF SyncInv, SeenInv, LoopInv, SyncTypeOK
<1> QED BY InitSyncInv, NextSyncInv, <1>1, PTL DEF SyncSpec

\* Whoever of the loop removes a record removes it where ExternalDNS is in charge.
LEMMA LoopRemovesOwn ==
  ASSUME SyncInv, [SyncNext]_allVars, spent'["console"] = spent["console"],
         NEW r \in live \ live'
  PROVE  InCharge(Entry(r))
<1>1. ~ConsoleRemove
  BY BudgetNames DEF SyncInv, LoopInv, ConsoleRemove, Spend
<1>2. PICK h \in Handlers : pc[h] = "call" /\ AskedToRemove(req[h], Entry(r))
  BY <1>1, NextSyncInv, MoveRemovesOnlyAsked DEF SyncInv
<1>3. PICK ep \in ToRemove(req[h]) : /\ Entry(r).name = ep.name /\ Entry(r).type = ep.type
                                     /\ \E k \in DOMAIN ep.targets : Entry(r).value = ep.targets[k]
  BY <1>2 DEF AskedToRemove
<1>4. Charged(ep)
  BY <1>2 DEF SyncInv, ClaimInv, Active
<1> QED BY <1>3, <1>4 DEF Charged, Ours, MarkPlace, IsOurs, InCharge

\* What others hold is never touched, for all accounts, wishes, zones and numbers of
\* handlers: a request that is worked on late, after its client gave up, after a crash
\* and beside its successors, removes nothing but marks of this ExternalDNS, and what
\* has, had or was wished to have such a mark in its place.
THEOREM OthersAreUntouched == SyncSpec => OthersUntouched
<1>1. SyncInv /\ [SyncNext]_allVars =>
        [spent'["console"] = spent["console"] =>
           \A r \in live \ live' : InCharge(Entry(r))]_allVars
  BY LoopRemovesOwn
<1> QED BY InitSyncInv, NextSyncInv, <1>1, PTL DEF SyncSpec, OthersUntouched
=============================================================================
