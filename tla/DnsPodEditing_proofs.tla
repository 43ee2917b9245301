------------------------ MODULE DnsPodEditing_proofs ------------------------
(***************************************************************************)
(* Every handler of ApplyChanges on public zones implements Editing: for   *)
(* any zones, account and requests as DnsPodEditing assumes them, and any  *)
(* number of handlers, faults, crashes and console users.                  *)
(***************************************************************************)
EXTENDS DnsPodEditing, DnsPodApply_proofs

-----------------------------------------------------------------------------
(* Records and entries.                                                      *)

\* Keys are equal part by part, and an entry's slot is part of its key.
LEMMA KeyParts ==
  ASSUME NEW e, NEW f
  PROVE  /\ Key(e) = Key(f) <=>
              /\ e.zone = f.zone /\ e.name = f.name /\ e.type = f.type
              /\ e.value = f.value /\ e.line = f.line
         /\ Key(e) = Key(f) => Slot(e) = Slot(f)
  BY DEF Key, Slot

\* Of records as DNSPod holds them, those with one key are the same record.
LEMMA KeyIsRecord ==
  ASSUME NEW r \in Record, NEW s \in Record, Canonical(r), Canonical(s)
  PROVE  Key(Entry(r)) = Key(Entry(s)) <=> SameRecord(r, s)
<1>1. /\ Entry(r).zone = r.zone /\ Entry(r).name = DnsDomain(r.sub, Zones[r.zone])
      /\ Entry(r).type = r.type /\ Entry(r).value = Listed(r).value /\ Entry(r).line = r.line
      /\ Entry(s).zone = s.zone /\ Entry(s).name = DnsDomain(s.sub, Zones[s.zone])
      /\ Entry(s).type = s.type /\ Entry(s).value = Listed(s).value /\ Entry(s).line = s.line
  BY DEF Entry, LineOf, Canonical
<1>2. /\ r.sub \in Name /\ s.sub \in Name /\ Zones[r.zone] \in Name /\ Zones[s.zone] \in Name
  BY ZonesAssumption DEF Record
<1>3. ASSUME r.zone = s.zone
      PROVE  DnsDomain(r.sub, Zones[r.zone]) = DnsDomain(s.sub, Zones[s.zone]) <=> r.sub = s.sub
  BY <1>2, <1>3, SubDomainOfJoin
<1>4. ASSUME r.type = s.type
      PROVE  Listed(r).value = Listed(s).value <=> r.value = s.value
  <2> DEFINE IsMark(t) == t.type = "TXT" /\ t.value.text \in Heritage
  <2>1. ASSUME NEW t \in Record, Canonical(t)
        PROVE  /\ t.value \in Value /\ Listed(t).value \in Value
               /\ Listed(t).value.text = t.value.text
               /\ IsMark(t) => Listed(t).value.quoted = TRUE /\ t.value.quoted = FALSE
               /\ ~IsMark(t) => Listed(t).value = t.value
    <3>1. t.value \in Value
      BY DEF Record
    <3>2. CASE IsMark(t)
      <4>1. Listed(t).value = [text |-> t.value.text, quoted |-> TRUE]
        BY <3>2 DEF Listed, Record
      <4>2. Listed(t).value \in Value
        BY <3>1, <4>1 DEF Value
      <4>3. t.value.quoted = FALSE
        <5>1. t.value.quoted \in BOOLEAN
          BY <3>1 DEF Value
        <5> QED BY <2>1, <3>2, <5>1 DEF Canonical
      <4> QED BY <3>1, <3>2, <4>1, <4>2, <4>3
    <3>3. CASE ~IsMark(t)
      <4>1. Listed(t).value = t.value
        BY <3>3 DEF Listed
      <4> QED BY <3>1, <3>3, <4>1
    <3> QED BY <3>2, <3>3
  <2>2. ASSUME NEW v \in Value, NEW w \in Value
        PROVE  v = w <=> v.text = w.text /\ v.quoted = w.quoted
    BY DEF Value
  <2>3. /\ r.value \in Value /\ s.value \in Value
        /\ Listed(r).value \in Value /\ Listed(s).value \in Value
        /\ Listed(r).value.text = r.value.text /\ Listed(s).value.text = s.value.text
    BY <2>1
  <2>4. CASE r.value.text # s.value.text
    BY <2>3, <2>4
  <2>5. CASE r.value.text = s.value.text /\ IsMark(r)
    <3>1. IsMark(s)
      BY <1>4, <2>5
    <3>2. /\ Listed(r).value.quoted = TRUE /\ r.value.quoted = FALSE
          /\ Listed(s).value.quoted = TRUE /\ s.value.quoted = FALSE
      BY <2>1, <2>5, <3>1
    <3>3. Listed(r).value = Listed(s).value
      BY <2>2, <2>3, <2>5, <3>2
    <3>4. r.value = s.value
      BY <2>2, <2>3, <2>5, <3>2
    <3> QED BY <3>3, <3>4
  <2>6. CASE r.value.text = s.value.text /\ ~IsMark(r)
    <3>1. ~IsMark(s)
      BY <1>4, <2>6
    <3>2. Listed(r).value = r.value /\ Listed(s).value = s.value
      BY <2>1, <2>6, <3>1
    <3> QED BY <3>2
  <2> QED BY <2>4, <2>5, <2>6
<1> QED
  BY <1>1, <1>3, <1>4, KeyParts DEF SameRecord

\* A record is the same to everyone whatever id it is given.
LEMMA EntryOfNew ==
  ASSUME NEW r \in Record, NEW n \in Nat
  PROVE  /\ [r EXCEPT !.id = n] \in Record
         /\ [r EXCEPT !.id = n].id = n
         /\ Entry([r EXCEPT !.id = n]) = Entry(r)
         /\ Canonical([r EXCEPT !.id = n]) <=> Canonical(r)
         /\ \A s : SameRecord(s, [r EXCEPT !.id = n]) <=> SameRecord(s, r)
  BY DEF Record, Entry, Listed, LineOf, SameRecord, Canonical

\* What a create call asks DNSPod for is a record as DNSPod holds it.
LEMMA NewRecordCanonical ==
  ASSUME NEW changes \in Requests, NEW ep \in ToAdd(changes), ep \in Endpoint,
         NEW z \in DomainFilter, NEW k \in DOMAIN ep.targets
  PROVE  Canonical(NewRecord(ep, z, k))
<1>1. IsEndpoint(ep)
  BY EndpointType
<1>2. ep.targets[k] \in Value
  BY <1>1, LenProperties, ElementOfSeq DEF IsEndpoint
<1>3. ep.type = "TXT" /\ Stripped(ep.type, ep.targets[k]).text \in Heritage
        => ~Stripped(ep.type, ep.targets[k]).quoted
  BY <1>2 DEF Stripped, Value
<1>4. HasProp(ep, "record-line-id") => Line[ep.props["record-line-id"]] # ""
  BY <1>1, LinesAssumption DEF IsEndpoint, HasProp
<1>5. EndpointLine(ep) # ""
  BY LinesAssumption
<1> QED
  BY <1>3, <1>4, <1>5 DEF NewRecord, CreatedLine, Canonical

\* Every create call is for a record the changes ask to add,
LEMMA CreatesAreAsked ==
  ASSUME NEW changes \in Requests, NEW j \in CreatesIn(changes)
  PROVE  Canonical(j.rec) /\ Entry(j.rec) \in Additions(changes)
<1> DEFINE eps == Creations(changes)
<1>1. PICK i \in DOMAIN eps : \E z \in FindZone(Managed, eps[i].name) :
        \E k \in DOMAIN eps[i].targets : j = Call("create", i, k, NewRecord(eps[i], z, k))
  BY DEF CreatesIn
<1>2. PICK z \in FindZone(Managed, eps[i].name) :
        \E k \in DOMAIN eps[i].targets : j = Call("create", i, k, NewRecord(eps[i], z, k))
  BY <1>1
<1>3. PICK k \in DOMAIN eps[i].targets : j = Call("create", i, k, NewRecord(eps[i], z, k))
  BY <1>2
<1>4. eps[i] \in Endpoint /\ eps[i] \in ToAdd(changes) /\ z \in DomainFilter
  BY RequestProperties, RequestsType, ZoneFound
<1>5. j.rec = NewRecord(eps[i], z, k)
  BY <1>3 DEF Call
<1>6. Canonical(NewRecord(eps[i], z, k))
  BY <1>4, NewRecordCanonical
<1>7. Entry(NewRecord(eps[i], z, k)) \in Additions(changes)
  BY <1>4 DEF Additions
<1> QED BY <1>5, <1>6, <1>7

\* and every record they ask to add has one.
LEMMA AdditionsAreCreated ==
  ASSUME NEW changes \in Requests, NEW a \in Additions(changes)
  PROVE  \E j \in CreatesIn(changes) : j.op = "create" /\ Entry(j.rec) = a
<1> DEFINE eps == Creations(changes)
<1>1. PICK ep \in ToAdd(changes) : \E k \in DOMAIN ep.targets, z \in FindZone(Managed, ep.name) :
        a = Entry(NewRecord(ep, z, k))
  BY DEF Additions
<1>2. PICK k \in DOMAIN ep.targets, z \in FindZone(Managed, ep.name) : a = Entry(NewRecord(ep, z, k))
  BY <1>1
<1>3. \E i \in DOMAIN eps : eps[i] = ep
  BY RequestProperties, RequestsType
<1>4. PICK i \in DOMAIN eps : eps[i] = ep
  BY <1>3
<1>5. Call("create", i, k, NewRecord(ep, z, k)) \in CreatesIn(changes)
  BY <1>4 DEF CreatesIn
<1>6. /\ Call("create", i, k, NewRecord(ep, z, k)).op = "create"
      /\ Call("create", i, k, NewRecord(ep, z, k)).rec = NewRecord(ep, z, k)
  BY DEF Call
<1> QED BY <1>2, <1>5, <1>6
-----------------------------------------------------------------------------
(* The inductive invariant.  The abstract specification knows nothing of     *)
(* snapshots and calls: what ties the account to it is that everything a     *)
(* handler has to do is done, or has its call to come, or is others' doing.  *)

\* Is a handler past its removals?
Adding(h) == pc[h] \in {"apply", "call"} /\ \A j \in todo[h] : j.op # "delete"

\* An entry in a slot that only h has been at.
Free(h, e) == Slot(e) \notin foreign[h]

\* No handler at work, no history.
QuietAt(h) == ~Active(h) => base[h] = {} /\ foreign[h] = {}

\* The account holds nothing twice, and nothing looks the same from outside.
AccountCanonical ==
  /\ \A r \in live : Canonical(r)
  /\ \A r, s \in live : SameRecord(r, s) => r = s

\* A create call is for a record the changes ask to add.
CreatesAt(h) ==
  \A j \in todo[h] : j.op = "create" =>
    Canonical(j.rec) /\ Entry(j.rec) \in Additions(req[h])

\* Until h creates, its snapshot has all of the account that others left alone, of
\* the domains read.
ListedAt(h) ==
  pc[h] \in {"records", "apply", "call"} /\ ~Adding(h) =>
    \A r \in live :
      /\ r.zone \in DomainFilter
      /\ pc[h] = "records" => r.zone \notin unread[h]
      /\ ~IsSpecial(r)
      /\ Free(h, Entry(r))
      => Listed(r) \in snap[h]

\* What is to be kept is there;
KeptAt(h) ==
  Active(h) => \A e \in Kept(req[h], Contents(base[h])) : Free(h, e) => e \in Contents(live)

\* what is there was there before, or has been added, after the removals;
FoundAt(h) ==
  Active(h) => \A e \in Contents(live) : Free(h, e) =>
    \/ e \in Contents(base[h]) /\ ~(Adding(h) /\ AskedToRemove(req[h], e))
    \/ Adding(h) /\ e \in Additions(req[h])

\* what is to be added has a create call to come, or is there under its key.
AddedAt(h) ==
  pc[h] \in {"apply", "call"} => \A a \in Additions(req[h]) :
    \/ \E j \in todo[h] : j.op = "create" /\ Entry(j.rec) = a
    \/ Adding(h) /\ (Free(h, a) => \E e \in Contents(live) : Key(e) = Key(a))

EditInv ==
  /\ AccountCanonical
  /\ \A h \in Handlers :
       QuietAt(h) /\ CreatesAt(h) /\ ListedAt(h) /\ KeptAt(h) /\ FoundAt(h) /\ AddedAt(h)

-----------------------------------------------------------------------------
(* What a step does to the account.                                          *)

Takes(r) == r \in live /\ live' = live \ {r}

Gains(r) ==
  /\ r \in Record /\ Canonical(r) /\ r \notin live /\ \A s \in live : ~SameRecord(s, r)
  /\ live' = live \cup {r}

\* An entry is one of the account when a record of it looks so.
LEMMA InContents ==
  ASSUME NEW S, NEW e
  PROVE  e \in Contents(S) <=> \E r \in S : e = Entry(r)
  BY DEF Contents

\* Two records of the account do not look the same.
LEMMA EntriesDiffer ==
  ASSUME TypeOK, AccountCanonical, NEW r \in live, NEW s \in live,
         Key(Entry(r)) = Key(Entry(s))
  PROVE  r = s
<1>1. r \in Record /\ s \in Record /\ Canonical(r) /\ Canonical(s)
  BY DEF TypeOK, AccountCanonical
<1> QED
  BY <1>1, KeyIsRecord DEF AccountCanonical

\* Taking a record out takes its entry out,
LEMMA TakesContent ==
  ASSUME TypeOK, AccountCanonical, NEW r, Takes(r)
  PROVE  /\ Entry(r) \in Contents(live)
         /\ Contents(live') = Contents(live) \ {Entry(r)}
         /\ Slots((live \ live') \cup (live' \ live)) = {Slot(Entry(r))}
<1>1. r \in live /\ live' = live \ {r}
  BY DEF Takes
<1>2. ASSUME NEW s \in live, Entry(s) = Entry(r) PROVE s = r
  BY <1>1, <1>2, EntriesDiffer
<1>3. ASSUME NEW e PROVE e \in Contents(live') <=> e \in Contents(live) /\ e # Entry(r)
  BY <1>1, <1>2, InContents
<1>4. (live \ live') \cup (live' \ live) = {r}
  BY <1>1
<1> QED
  BY <1>1, <1>3, <1>4, InContents DEF Slots

\* and adding one adds its entry, under a key that was free.
LEMMA GainsContent ==
  ASSUME TypeOK, AccountCanonical, NEW r, Gains(r)
  PROVE  /\ \A e \in Contents(live) : Key(e) # Key(Entry(r))
         /\ Entry(r) \notin Contents(live)
         /\ Contents(live') = Contents(live) \cup {Entry(r)}
         /\ Slots((live \ live') \cup (live' \ live)) = {Slot(Entry(r))}
<1>1. r \in Record /\ Canonical(r) /\ r \notin live /\ live' = live \cup {r}
  BY DEF Gains
<1>2. ASSUME NEW s \in live PROVE Key(Entry(s)) # Key(Entry(r))
  <2>1. s \in Record /\ Canonical(s) /\ ~SameRecord(s, r)
    BY DEF TypeOK, AccountCanonical, Gains
  <2> QED BY <1>1, <2>1, KeyIsRecord
<1>3. \A e \in Contents(live) : Key(e) # Key(Entry(r))
  BY <1>2, InContents
<1>4. ASSUME NEW e PROVE e \in Contents(live') <=> e \in Contents(live) \/ e = Entry(r)
  BY <1>1, InContents
<1>5. (live \ live') \cup (live' \ live) = {r}
  BY <1>1
<1> QED
  BY <1>3, <1>4, <1>5 DEF Slots

\* Either leaves an account in which nothing looks the same.
LEMMA AccountStays ==
  ASSUME AccountCanonical, live' = live \/ \E r : Takes(r) \/ Gains(r)
  PROVE  AccountCanonical'
<1>1. CASE live' = live
  BY <1>1 DEF AccountCanonical
<1>2. ASSUME NEW r, Takes(r) PROVE AccountCanonical'
  BY <1>2 DEF Takes, AccountCanonical
<1>3. ASSUME NEW r, Gains(r) PROVE AccountCanonical'
  <2>1. \A s \in live : ~SameRecord(s, r) /\ ~SameRecord(r, s)
    BY <1>3 DEF Gains, SameRecord
  <2> QED BY <1>3, <2>1 DEF Gains, AccountCanonical
<1> QED BY <1>1, <1>2, <1>3

\* The invariant, as long as no user has edited a record in place.
EditState == OInv /\ SnapshotsMatch /\ EditInv

\* A call that removes, a call that adds.
Removes(h, r) ==
  /\ job[h].op = "delete" /\ r.id = job[h].rec.id
  /\ Takes(r) /\ AskedToRemove(req[h], Entry(r))

Puts(h, r) ==
  /\ job[h].op = "create" /\ Entry(r) = Entry(job[h].rec)
  /\ Gains(r) /\ Entry(r) \in Additions(req[h])

\* A call is one of the handler's calls while it is made.
LEMMA CallIsTodo ==
  ASSUME EditState, NEW h \in Handlers, pc[h] = "call"
  PROVE  /\ job[h] \in todo[h] /\ job[h] \in Job /\ Active(h) /\ req[h] \in Requests
         /\ job[h].op = "delete" \/ job[h].op = "create"
<1>1. job[h] \in todo[h] /\ job[h] \in Job /\ Active(h) /\ req[h] \in Requests
  BY DEF EditState, OInv, SInv, TypeOK, Active
<1> QED
  BY <1>1 DEF Job

\* An accepted call does one or the other.
LEMMA ServeMeans ==
  ASSUME EditState, NEW h \in Handlers, pc[h] = "call", Serve(h)
  PROVE  \E r : Removes(h, r) \/ Puts(h, r)
<1> DEFINE j == job[h]
<1>0. TypeOK /\ SInv
  BY DEF EditState, OInv, SInv
<1>1. CASE j.op = "delete"
  <2>1. PICK r \in live : r.id = j.rec.id
    BY <1>1 DEF Serve, Accepted
  <2>2. live' = {s \in live : s.id # j.rec.id}
    BY <1>1 DEF Serve, Execute
  <2>3. \A s \in live : s.id = r.id => s = r
    BY <1>0, <2>1 DEF TypeOK
  <2>4. Takes(r)
    BY <2>1, <2>2, <2>3 DEF Takes
  <2>5. j.rec \in snap[h] /\ AskedToRemove(req[h], Entry(j.rec))
    BY <1>0, <1>1, CallIsTodo DEF SInv, DeletesAsked
  <2>6. Listed(r) = j.rec
    BY <2>1, <2>5 DEF EditState, SnapshotsMatch
  <2>7. r \in Record
    BY <1>0, <2>1 DEF TypeOK
  <2>8. Removes(h, r)
    BY <1>1, <2>1, <2>4, <2>5, <2>6, <2>7, ListedProperties DEF Removes
  <2> QED BY <2>8
<1>2. CASE j.op = "create"
  <2> DEFINE r == [j.rec EXCEPT !.id = nextId]
  <2>1. j.rec \in Record /\ nextId \in Nat
    BY <1>0, CallIsTodo DEF TypeOK, Job
  <2>2. Canonical(j.rec) /\ Entry(j.rec) \in Additions(req[h])
    BY <1>2, CallIsTodo DEF EditState, EditInv, CreatesAt
  <2>3. /\ r \in Record /\ r.id = nextId /\ Entry(r) = Entry(j.rec) /\ Canonical(r)
        /\ \A s : SameRecord(s, r) <=> SameRecord(s, j.rec)
    BY <2>1, <2>2, EntryOfNew
  <2>4. \A s \in live : ~SameRecord(s, j.rec)
    BY <1>2 DEF Serve, Accepted
  <2>5. live' = live \cup {r}
    BY <1>2 DEF Serve, Execute
  <2>6. \A s \in live : s.id < nextId /\ s.id \in Nat
    BY <1>0 DEF TypeOK, Record
  <2> HIDE DEF r
  <2>7. r \notin live
    BY <2>1, <2>3, <2>6
  <2>8. Gains(r)
    BY <2>3, <2>4, <2>5, <2>7 DEF Gains
  <2>9. Puts(h, r)
    BY <1>2, <2>2, <2>3, <2>8 DEF Puts
  <2> QED BY <2>9
<1> QED BY <1>1, <1>2, CallIsTodo

\* No step but an edit in place does more to the account than take one record out
\* or add one.
LEMMA AccountMoves ==
  ASSUME EditState, [Next]_vars, ~ConsoleEdit
  PROVE  live' = live \/ \E r : Takes(r) \/ Gains(r)
<1>0. TypeOK
  BY DEF EditState, OInv, SInv
<1>1. ASSUME NEW h \in Handlers, Answered(h) \/ AnswerLost(h)
      PROVE  \E r : Takes(r) \/ Gains(r)
  <2>1. pc[h] = "call" /\ Serve(h)
    BY <1>1 DEF Answered, AnswerLost
  <2> QED BY <2>1, ServeMeans DEF Removes, Puts
<1>2. ASSUME ConsoleAdd PROVE \E r : Takes(r) \/ Gains(r)
  <2>1. PICK t \in ConsoleRecords : /\ \A s \in live : ~SameRecord(t, s)
                                    /\ ConsoleStep({[t EXCEPT !.id = nextId]}, {})
    BY <1>2 DEF ConsoleAdd
  <2> DEFINE r == [t EXCEPT !.id = nextId]
  <2>2. t \in Record /\ Canonical(t) /\ nextId \in Nat
    BY <1>0, RecordsAssumption, CanonicalAssumption DEF TypeOK
  <2>3. /\ r \in Record /\ r.id = nextId /\ Canonical(r)
        /\ \A s : SameRecord(s, r) <=> SameRecord(s, t)
    BY <2>2, EntryOfNew
  <2>4. live' = live \cup {r}
    BY <2>1 DEF ConsoleStep
  <2>5. \A s \in live : s.id < nextId /\ s.id \in Nat
    BY <1>0 DEF TypeOK, Record
  <2>6. \A s \in live : ~SameRecord(s, t)
    BY <2>1 DEF SameRecord
  <2> HIDE DEF r
  <2>7. r \notin live
    BY <2>2, <2>3, <2>5
  <2>8. Gains(r)
    BY <2>3, <2>4, <2>6, <2>7 DEF Gains
  <2> QED BY <2>8
<1>3. ASSUME ConsoleRemove PROVE \E r : Takes(r) \/ Gains(r)
  BY <1>3 DEF ConsoleRemove, ConsoleStep, Takes
<1> QED
  BY <1>1, <1>2, <1>3
  DEF Next, Step, HandlerStep, Environment, ListDomains, ListRecords, Plan, StartCall,
      Succeed, Refused, NotExecuted, Throttled, Receive, Take, Crash, vars
-----------------------------------------------------------------------------
(* What a step does to a handler.                                            *)

\* Where it is, but for the attempt of its call.
Stays(h) ==
  /\ pc'[h] = pc[h] /\ req'[h] = req[h] /\ snap'[h] = snap[h] /\ todo'[h] = todo[h]
  /\ pc[h] = "records" => unread'[h] = unread[h]

\* Others have changed nothing.
Alone(h) == base'[h] = base[h] /\ foreign'[h] = foreign[h]

Rests(h) == Stays(h) /\ live' = live /\ Alone(h)

\* Others have changed a record.
Watches(h) ==
  /\ Stays(h) /\ base'[h] = base[h]
  /\ \E r : /\ Takes(r) \/ Gains(r)
            /\ foreign'[h] = IF Active(h) THEN foreign[h] \cup {Slot(Entry(r))} ELSE {}

Begins(h) ==
  /\ ~Active(h) /\ pc'[h] = "domains" /\ req'[h] \in Requests /\ todo'[h] = {}
  /\ live' = live /\ base'[h] = live /\ foreign'[h] = {}

\* No changes are done at once.
Skims(h) ==
  /\ ~Active(h) /\ pc'[h] = "ok" /\ todo'[h] = {} /\ live' = live /\ Alone(h)
  /\ req'[h] \in Requests /\ ToRemove(req'[h]) \cup ToAdd(req'[h]) = {}

Ended(h, result) ==
  /\ Active(h) /\ pc'[h] = result /\ todo'[h] = {} /\ base'[h] = {} /\ foreign'[h] = {}

Succeeds(h) == pc[h] = "apply" /\ todo[h] = {} /\ live' = live /\ Ended(h, "ok")

\* Fails, and the call it was making may be executed.
Fails(h) ==
  /\ Ended(h, "failed")
  /\ live' = live \/ (pc[h] = "call" /\ Serve(h))

\* The answer is lost.
Repeats(h) == pc[h] = "call" /\ Serve(h) /\ Stays(h) /\ Alone(h)

\* The call is done, or was in vain, as what it creates is there.
Finishes(h) ==
  /\ pc[h] = "call" /\ Done(h) /\ Alone(h)
  /\ Serve(h) \/ (live' = live /\ job[h].op = "create" /\ ~Accepted(job[h]))

\* What the history says after a step of h, or of others.
LEMMA History ==
  ASSUME NEW by, Recorded(by), NEW h \in Handlers
  PROVE  /\ ~Active(h)' => base'[h] = {} /\ foreign'[h] = {}
         /\ Active(h)' => base'[h] = (IF Active(h) THEN base[h] ELSE live)
         /\ Active(h)' /\ h = by => foreign'[h] = foreign[h]
         /\ Active(h)' /\ h # by =>
              foreign'[h] = foreign[h] \cup Slots((live \ live') \cup (live' \ live))
  BY DEF Recorded

\* A handler that stays where it is rests or watches.
LEMMA OthersStep ==
  ASSUME EditState, [Next]_vars, ~ConsoleEdit, NEW h \in Handlers, Stays(h),
         NEW by, by # h, Recorded(by)
  PROVE  Rests(h) \/ Watches(h)
<1>0. TypeOK /\ AccountCanonical /\ QuietAt(h)
  BY DEF EditState, OInv, SInv, EditInv
<1>1. Active(h)' <=> Active(h)
  BY DEF Stays, Active
<1>2. base'[h] = base[h]
  BY <1>0, <1>1, History DEF QuietAt
<1>3. foreign'[h] = IF Active(h) THEN foreign[h] \cup Slots((live \ live') \cup (live' \ live))
                    ELSE {}
  BY <1>1, History
<1>4. CASE live' = live
  <2>1. Slots((live \ live') \cup (live' \ live)) = {}
    BY <1>4 DEF Slots
  <2>2. foreign'[h] = foreign[h]
    BY <1>0, <1>3, <2>1 DEF QuietAt
  <2> QED BY <1>2, <1>4, <2>2 DEF Rests, Alone
<1>5. ASSUME NEW r, Takes(r) \/ Gains(r) PROVE Watches(h)
  <2>1. Slots((live \ live') \cup (live' \ live)) = {Slot(Entry(r))}
    BY <1>0, <1>5, TakesContent, GainsContent
  <2> QED BY <1>2, <1>3, <1>5, <2>1 DEF Watches
<1> QED BY <1>4, <1>5, AccountMoves

\* The steps of the handler itself.
LEMMA OwnStep ==
  ASSUME EditState, NEW h \in Handlers, HandlerStep(h), Recorded(h)
  PROVE  \/ (ListDomains(h) \/ ListRecords(h) \/ Plan(h) \/ StartCall(h)) /\ Alone(h)
         \/ Rests(h) \/ Succeeds(h) \/ Fails(h) \/ Repeats(h) \/ Finishes(h)
<1>0. /\ TypeOK
      /\ pc \in [Handlers -> PcValues] /\ req \in [Handlers -> Requests \cup {None}]
      /\ unread \in [Handlers -> SUBSET DomainFilter] /\ snap \in [Handlers -> SUBSET Record]
      /\ todo \in [Handlers -> SUBSET Job]
  BY DEF EditState, OInv, SInv, TypeOK
<1>a. ASSUME Active(h), Active(h)' PROVE Alone(h)
  BY <1>a, History DEF Alone
<1>b. ASSUME Active(h), NEW result \in {"ok", "failed"}, End(h, result) PROVE Ended(h, result)
  <2>1. pc'[h] = result /\ todo'[h] = {}
    BY <1>0, <1>b DEF End
  <2>2. ~Active(h)'
    BY <2>1 DEF Active
  <2> QED BY <1>b, <2>1, <2>2, History DEF Ended
<1>c. ASSUME Active(h), Again(h) PROVE Stays(h) /\ Alone(h)
  BY <1>c, <1>a DEF Again, Stays, Active
<1>d. ASSUME pc[h] = "call", Done(h) PROVE Alone(h)
  BY <1>0, <1>d, <1>a DEF Done, Active
<1>e. pc[h] = "call" \/ Calling(h) => Active(h)
  BY DEF Calling, Active
<1>f. ASSUME Active(h), End(h, "failed") PROVE Ended(h, "failed")
  BY <1>b, <1>f
<1>1. CASE ListDomains(h) \/ ListRecords(h) \/ Plan(h) \/ StartCall(h)
  <2>1. Active(h) /\ Active(h)'
    BY <1>0, <1>1 DEF ListDomains, ListRecords, Plan, StartCall, Active
  <2> QED BY <1>1, <2>1, <1>a
<1>2. CASE Succeed(h)
  BY <1>2, <1>b DEF Succeed, Succeeds, Active
<1>3. CASE Answered(h)
  BY <1>3, <1>d DEF Answered, Finishes
<1>4. CASE Refused(h)
  <2>1. /\ pc[h] = "call" /\ live' = live /\ ~Accepted(job[h])
        /\ Again(h) \/ End(h, "failed") \/ (job[h].op = "create" /\ Done(h))
    BY <1>4 DEF Refused
  <2> QED BY <2>1, <1>c, <1>d, <1>e, <1>f DEF Rests, Finishes, Fails
<1>5. CASE AnswerLost(h)
  <2>1. pc[h] = "call" /\ Serve(h) /\ (Again(h) \/ End(h, "failed"))
    BY <1>5 DEF AnswerLost
  <2> QED BY <2>1, <1>c, <1>e, <1>f DEF Repeats, Fails
<1>6. CASE NotExecuted(h) \/ Throttled(h)
  <2>1. Calling(h) /\ live' = live /\ (Again(h) \/ End(h, "failed"))
    BY <1>6 DEF NotExecuted, Throttled
  <2> QED BY <2>1, <1>c, <1>e, <1>f DEF Rests, Fails
<1> QED
  BY <1>1, <1>2, <1>3, <1>4, <1>5, <1>6 DEF HandlerStep

\* No changes are no endpoints.
LEMMA NoChanges ==
  ASSUME NEW changes \in Requests, ~HasChanges(changes)
  PROVE  ToRemove(changes) \cup ToAdd(changes) = {}
<1>1. /\ changes.create \in Seq(Endpoint) /\ changes.updateOld \in Seq(Endpoint)
      /\ changes.updateNew \in Seq(Endpoint) /\ changes.delete \in Seq(Endpoint)
  BY RequestsType DEF Change
<1> DEFINE a == changes.create \o changes.updateOld
           b == a \o changes.updateNew
           c == b \o changes.delete
<1>2. c = <<>>
  BY DEF HasChanges
<1>3. /\ a \in Seq(Endpoint)
      /\ Elements(a) = Elements(changes.create) \cup Elements(changes.updateOld)
  BY <1>1, ElementsOfConcat
<1> HIDE DEF a
<1>4. b \in Seq(Endpoint) /\ Elements(b) = Elements(a) \cup Elements(changes.updateNew)
  BY <1>1, <1>3, ElementsOfConcat
<1> HIDE DEF b
<1>5. c \in Seq(Endpoint) /\ Elements(c) = Elements(b) \cup Elements(changes.delete)
  BY <1>1, <1>4, ElementsOfConcat
<1> HIDE DEF c
<1>6. Elements(c) = {}
  BY <1>2 DEF Elements
<1>7. \A seq : Endpoints(seq) = Elements(seq)
  BY DEF Endpoints, Elements
<1>8. /\ Endpoints(changes.create) = {} /\ Endpoints(changes.updateOld) = {}
      /\ Endpoints(changes.updateNew) = {} /\ Endpoints(changes.delete) = {}
  BY <1>3, <1>4, <1>5, <1>6, <1>7
<1> QED
  BY <1>8 DEF ToRemove, ToAdd

\* All a step may do to a handler.
LEMMA HandlerMoves ==
  ASSUME EditState, [Next]_vars, ~ConsoleEdit, NEW h \in Handlers
  PROVE  \/ Rests(h) \/ Watches(h) \/ Begins(h) \/ Skims(h)
         \/ (ListDomains(h) \/ ListRecords(h) \/ Plan(h) \/ StartCall(h)) /\ Alone(h)
         \/ Succeeds(h) \/ Fails(h) \/ Repeats(h) \/ Finishes(h)
<1>0. /\ TypeOK /\ QuietAt(h)
      /\ pc \in [Handlers -> PcValues] /\ req \in [Handlers -> Requests \cup {None}]
      /\ unread \in [Handlers -> SUBSET DomainFilter] /\ snap \in [Handlers -> SUBSET Record]
      /\ todo \in [Handlers -> SUBSET Job]
      /\ ~Active(h) => snap[h] = {} /\ todo[h] = {}
  BY DEF EditState, OInv, SInv, TypeOK, EditInv
<1>1. ASSUME NEW g \in Handlers, HandlerStep(g), Recorded(g), g # h
      PROVE  Rests(h) \/ Watches(h)
  <2>1. Stays(h)
    BY <1>0, <1>1
    DEF HandlerStep, ListDomains, ListRecords, Plan, StartCall, Succeed, Answered, Refused,
        AnswerLost, NotExecuted, Throttled, Again, Done, End, Stays
  <2> QED BY <1>1, <2>1, OthersStep
<1>2. ASSUME Stays(h), Recorded("others") PROVE Rests(h) \/ Watches(h)
  BY <1>2, OthersStep, HandlersAssumption
<1>3. ASSUME NEW g \in Handlers, NEW changes \in Requests, Receive(g, changes),
             Recorded("others")
      PROVE  Rests(h) \/ Watches(h) \/ Begins(h) \/ Skims(h)
  <2>1. CASE g # h
    BY <1>0, <1>2, <1>3, <2>1 DEF Receive, Take, Stays
  <2>2. CASE g = h
    <3>1. /\ ~Active(h) /\ live' = live /\ todo'[h] = {} /\ req'[h] = changes
          /\ pc'[h] = IF HasChanges(changes) THEN "domains" ELSE "ok"
      BY <1>0, <1>3, <2>2 DEF Receive, Take
    <3>2. Slots((live \ live') \cup (live' \ live)) = {}
      BY <3>1 DEF Slots
    <3>3. "others" # h
      BY HandlersAssumption
    <3>4. CASE HasChanges(changes)
      <4>1. Active(h)' /\ pc'[h] = "domains"
        BY <3>1, <3>4 DEF Active
      <4>2. base'[h] = live /\ foreign'[h] = {}
        BY <1>0, <1>3, <3>1, <3>2, <3>3, <4>1, History DEF QuietAt
      <4> QED BY <3>1, <4>1, <4>2 DEF Begins
    <3>5. CASE ~HasChanges(changes)
      <4>1. ~Active(h)' /\ pc'[h] = "ok"
        BY <3>1, <3>5 DEF Active
      <4>2. Alone(h)
        BY <1>0, <1>3, <3>1, <4>1, History DEF QuietAt, Alone
      <4> QED BY <3>1, <3>5, <4>1, <4>2, NoChanges DEF Skims
    <3> QED BY <3>4, <3>5
  <2> QED BY <2>1, <2>2
<1>4. ASSUME Crash, Recorded("others") PROVE Rests(h) \/ Watches(h) \/ Fails(h)
  <2>1. CASE Active(h)
    <3>1. pc'[h] = "failed" /\ todo'[h] = {} /\ live' = live
      BY <1>4, <2>1 DEF Crash
    <3>2. ~Active(h)'
      BY <3>1 DEF Active
    <3>3. base'[h] = {} /\ foreign'[h] = {}
      BY <1>4, <3>2, History
    <3> QED BY <2>1, <3>1, <3>3 DEF Fails, Ended
  <2>2. CASE ~Active(h)
    BY <1>0, <1>2, <1>4, <2>2 DEF Crash, Stays, Active
  <2> QED BY <2>1, <2>2
<1>5. ASSUME ConsoleAdd \/ ConsoleRemove, Recorded("others") PROVE Rests(h) \/ Watches(h)
  BY <1>2, <1>5 DEF ConsoleAdd, ConsoleRemove, ConsoleStep, handlerVars, Stays
<1>6. CASE UNCHANGED vars
  BY <1>6 DEF vars, handlerVars, Rests, Stays, Alone
<1>7. ASSUME HandlerStep(h), Recorded(h)
      PROVE  \/ (ListDomains(h) \/ ListRecords(h) \/ Plan(h) \/ StartCall(h)) /\ Alone(h)
             \/ Rests(h) \/ Succeeds(h) \/ Fails(h) \/ Repeats(h) \/ Finishes(h)
  BY <1>7, OwnStep
<1> QED
  BY <1>1, <1>3, <1>4, <1>5, <1>6, <1>7 DEF Next, Step, Environment
-----------------------------------------------------------------------------
(* The invariant is inductive, until someone edits in place.                 *)

\* Deletes are made while there are any, creates only then.
LEMMA Phases ==
  ASSUME EditState, NEW h \in Handlers, pc[h] = "call"
  PROVE  /\ job[h].op = "delete" => ~Adding(h)
         /\ job[h].op = "create" => Adding(h)
  BY CallIsTodo DEF EditState, OInv, DeletesFirst, Adding

\* A handler that stays where it is stays in its half of the work.
LEMMA StaysPhase ==
  ASSUME NEW h, Stays(h)
  PROVE  (Active(h)' <=> Active(h)) /\ (Adding(h)' <=> Adding(h))
  BY DEF Stays, Active, Adding

\* What a call does, whether its answer arrives or not.
LEMMA WorkMoves ==
  ASSUME EditState, NEW h \in Handlers, Repeats(h) \/ Finishes(h)
  PROVE  /\ pc[h] = "call" /\ Active(h) /\ Active(h)' /\ pc'[h] \in {"apply", "call"}
         /\ req'[h] = req[h] /\ snap'[h] = snap[h] /\ Alone(h)
         /\ todo'[h] = todo[h] \/ (pc'[h] = "apply" /\ todo'[h] = todo[h] \ {job[h]})
         /\ \/ job[h].op = "delete" /\ ~Adding(h) /\ \E r : Removes(h, r)
            \/ job[h].op = "create" /\ Adding(h) /\ Adding(h)' /\ \E r : Puts(h, r)
            \/ /\ job[h].op = "create" /\ Adding(h) /\ Adding(h)'
               /\ live' = live /\ ~Accepted(job[h])
<1>1. /\ pc \in [Handlers -> PcValues] /\ todo \in [Handlers -> SUBSET Job]
      /\ pc[h] = "call" /\ Active(h) /\ Alone(h)
  BY DEF EditState, OInv, SInv, TypeOK, Repeats, Finishes, Active
<1>2. /\ pc'[h] \in {"apply", "call"} /\ req'[h] = req[h] /\ snap'[h] = snap[h]
      /\ todo'[h] = todo[h] \/ (pc'[h] = "apply" /\ todo'[h] = todo[h] \ {job[h]})
  <2>1. CASE Repeats(h)
    BY <1>1, <2>1 DEF Repeats, Stays
  <2>2. CASE Finishes(h)
    BY <1>1, <2>2 DEF Finishes, Done
  <2> QED BY <2>1, <2>2
<1>3. Active(h)'
  BY <1>2 DEF Active
<1>4. Adding(h) => Adding(h)'
  BY <1>2 DEF Adding
<1>5. CASE Serve(h)
  <2>1. PICK r : Removes(h, r) \/ Puts(h, r)
    BY <1>1, <1>5, ServeMeans
  <2>2. CASE Removes(h, r)
    BY <1>1, <1>2, <1>3, <2>2, Phases DEF Removes
  <2>3. CASE Puts(h, r)
    BY <1>1, <1>2, <1>3, <1>4, <2>3, Phases DEF Puts
  <2> QED BY <2>1, <2>2, <2>3
<1>6. CASE live' = live /\ job[h].op = "create" /\ ~Accepted(job[h])
  BY <1>1, <1>2, <1>3, <1>4, <1>6, Phases
<1> QED
  BY <1>5, <1>6 DEF Repeats, Finishes

\* The steps that neither touch the account nor are done with a call.
LEMMA ReadMoves ==
  ASSUME EditState, NEW h \in Handlers,
         ListDomains(h) \/ ListRecords(h) \/ Plan(h) \/ StartCall(h)
  PROVE  /\ Active(h) /\ Active(h)' /\ live' = live /\ req'[h] = req[h] /\ req[h] \in Requests
         /\ ListDomains(h) => pc'[h] = "records" /\ unread'[h] = DomainFilter
         /\ Plan(h) => pc[h] = "records" /\ pc'[h] = "apply" /\ unread[h] = {}
                       /\ snap'[h] = snap[h]
                       /\ todo'[h] = DeletesIn(req[h], snap[h]) \cup CreatesIn(req[h])
         /\ ListDomains(h) \/ ListRecords(h) =>
              pc[h] \in {"domains", "records"} /\ pc'[h] = "records" /\ todo'[h] = todo[h]
         /\ StartCall(h) =>
              /\ pc[h] = "apply" /\ pc'[h] = "call"
              /\ snap'[h] = snap[h] /\ todo'[h] = todo[h]
<1>1. /\ pc \in [Handlers -> PcValues] /\ unread \in [Handlers -> SUBSET DomainFilter]
      /\ todo \in [Handlers -> SUBSET Job] /\ snap \in [Handlers -> SUBSET Record]
      /\ Active(h) => req[h] \in Requests
  BY DEF EditState, OInv, SInv, TypeOK
<1> QED
  BY <1>1 DEF ListDomains, ListRecords, Plan, StartCall, Active

\* A handler's history ends with it.
LEMMA NextQuiet ==
  ASSUME EditState, [Next]_vars, ~ConsoleEdit, NEW h \in Handlers
  PROVE  QuietAt(h)'
<1>0. QuietAt(h)
  BY DEF EditState, EditInv
<1>1. CASE Rests(h) \/ Watches(h)
  BY <1>0, <1>1, StaysPhase DEF Rests, Watches, Alone, QuietAt
<1>2. CASE Begins(h)
  BY <1>2 DEF Begins, QuietAt, Active
<1>3. CASE Skims(h)
  BY <1>0, <1>3 DEF Skims, Alone, QuietAt
<1>4. CASE ListDomains(h) \/ ListRecords(h) \/ Plan(h) \/ StartCall(h)
  BY <1>4, ReadMoves DEF QuietAt
<1>5. CASE Succeeds(h) \/ Fails(h)
  BY <1>5 DEF Succeeds, Fails, Ended, QuietAt
<1>6. CASE Repeats(h) \/ Finishes(h)
  BY <1>6, WorkMoves DEF QuietAt
<1> QED
  BY <1>1, <1>2, <1>3, <1>4, <1>5, <1>6, HandlerMoves

\* Create calls are planned as the changes ask.
LEMMA NextCreates ==
  ASSUME EditState, [Next]_vars, ~ConsoleEdit, NEW h \in Handlers
  PROVE  CreatesAt(h)'
<1>0. CreatesAt(h)
  BY DEF EditState, EditInv
<1>a. ASSUME todo'[h] \subseteq todo[h], req'[h] = req[h] PROVE CreatesAt(h)'
  BY <1>0, <1>a DEF CreatesAt
<1>b. ASSUME todo'[h] = {} PROVE CreatesAt(h)'
  BY <1>b DEF CreatesAt
<1>1. CASE Rests(h) \/ Watches(h)
  BY <1>1, <1>a DEF Rests, Watches, Stays
<1>2. CASE Begins(h) \/ Skims(h) \/ Succeeds(h) \/ Fails(h)
  BY <1>2, <1>b DEF Begins, Skims, Succeeds, Fails, Ended
<1>3. CASE ListDomains(h) \/ ListRecords(h) \/ StartCall(h)
  BY <1>3, <1>a, ReadMoves
<1>4. CASE Plan(h)
  <2>1. /\ todo'[h] = DeletesIn(req[h], snap[h]) \cup CreatesIn(req[h])
        /\ req'[h] = req[h] /\ req[h] \in Requests /\ snap[h] \in SUBSET Record
    BY <1>4, ReadMoves DEF EditState, OInv, SInv, TypeOK
  <2>2. \A j \in DeletesIn(req[h], snap[h]) : j.op # "create"
    BY <2>1, DeletesType, RequestsType
  <2>3. \A j \in CreatesIn(req[h]) : Canonical(j.rec) /\ Entry(j.rec) \in Additions(req[h])
    BY <2>1, CreatesAreAsked
  <2> QED BY <2>1, <2>2, <2>3 DEF CreatesAt
<1>5. CASE Repeats(h) \/ Finishes(h)
  <2>1. todo'[h] \subseteq todo[h] /\ req'[h] = req[h]
    BY <1>5, WorkMoves
  <2> QED BY <2>1, <1>a
<1> QED
  BY <1>1, <1>2, <1>3, <1>4, <1>5, HandlerMoves

\* What others did in a slot is noted, so that a slot free now was free before.
LEMMA FreeBefore ==
  ASSUME NEW h \in Handlers, Watches(h), Active(h), NEW e, Free(h, e)'
  PROVE  /\ Free(h, e)
         /\ \E r : (Takes(r) \/ Gains(r)) /\ Slot(e) # Slot(Entry(r))
  BY DEF Watches, Free

\* The snapshot stays complete until the handler creates.
LEMMA NextListed ==
  ASSUME EditState, [Next]_vars, ~ConsoleEdit, NEW h \in Handlers
  PROVE  ListedAt(h)'
<1>0. ListedAt(h) /\ TypeOK
  BY DEF EditState, EditInv, OInv, SInv
\* It is enough that nothing is added but in slots of others.
<1>a. ASSUME pc[h] \in {"records", "apply", "call"}, ~Adding(h),
             pc'[h] = "records" => pc[h] = "records" /\ unread'[h] = unread[h],
             pc[h] = "records" /\ pc'[h] # "records" => unread[h] = {},
             snap'[h] = snap[h],
             \A r \in live' : Free(h, Entry(r))' => r \in live /\ Free(h, Entry(r))
      PROVE  ListedAt(h)'
  BY <1>0, <1>a DEF ListedAt
<1>b. ASSUME pc'[h] \notin {"records", "apply", "call"} \/ Adding(h)' PROVE ListedAt(h)'
  BY <1>b DEF ListedAt
<1>1. CASE Rests(h)
  <2>1. Stays(h) /\ \A r \in live' : Free(h, Entry(r))' => r \in live /\ Free(h, Entry(r))
    BY <1>1 DEF Rests, Alone, Free
  <2> QED BY <2>1, <1>a, <1>b, StaysPhase DEF Stays
<1>2. CASE Watches(h)
  <2>1. CASE ~Active(h)
    BY <1>2, <2>1, <1>b DEF Watches, Stays, Active
  <2>2. CASE Active(h)
    <3>1. ASSUME NEW r \in live', Free(h, Entry(r))' PROVE r \in live /\ Free(h, Entry(r))
      <4>1. /\ Free(h, Entry(r))
            /\ \E s : (Takes(s) \/ Gains(s)) /\ Slot(Entry(r)) # Slot(Entry(s))
        BY <1>2, <2>2, <3>1, FreeBefore
      <4> QED BY <4>1 DEF Takes, Gains
    <3>2. Stays(h)
      BY <1>2 DEF Watches
    <3> QED BY <3>1, <3>2, <1>a, <1>b, StaysPhase DEF Stays
  <2> QED BY <2>1, <2>2
<1>3. CASE Begins(h) \/ Skims(h) \/ Succeeds(h) \/ Fails(h)
  BY <1>3, <1>b DEF Begins, Skims, Succeeds, Fails, Ended
<1>4. CASE ListDomains(h)
  BY <1>4, ReadMoves DEF ListedAt
<1>5. ASSUME ListRecords(h), Alone(h) PROVE ListedAt(h)'
  <2>1. PICK z \in unread[h] :
          /\ unread'[h] = unread[h] \ {z}
          /\ snap'[h] = snap[h] \cup {Listed(r) : r \in {r \in live : r.zone = z /\ ~IsSpecial(r)}}
    BY <1>0, <1>5 DEF ListRecords, TypeOK
  <2>2. pc[h] = "records" /\ pc'[h] = "records" /\ live' = live /\ ~Adding(h)
    BY <1>5, ReadMoves DEF Adding, ListRecords
  <2> QED BY <1>0, <1>5, <2>1, <2>2 DEF ListedAt, Free, Alone
<1>6. ASSUME Plan(h) \/ StartCall(h), Alone(h) PROVE ListedAt(h)'
  <2>1. \A r \in live' : Free(h, Entry(r))' => r \in live /\ Free(h, Entry(r))
    BY <1>6, ReadMoves DEF Free, Alone
  <2>2. Plan(h) => ~Adding(h)
    BY ReadMoves DEF Adding
  <2>3. StartCall(h) => (Adding(h)' <=> Adding(h))
    BY ReadMoves DEF Adding
  <2> QED BY <1>6, <2>1, <2>2, <2>3, <1>a, <1>b, ReadMoves
<1>7. CASE Repeats(h) \/ Finishes(h)
  <2>1. CASE Adding(h)'
    BY <2>1, <1>b
  <2>2. CASE ~Adding(h)'
    <3>1. PICK r : Removes(h, r)
      BY <1>7, <2>2, WorkMoves
    <3>2. \A s \in live' : Free(h, Entry(s))' => s \in live /\ Free(h, Entry(s))
      BY <1>7, <3>1, WorkMoves DEF Removes, Takes, Free, Alone
    <3>3. ~Adding(h)
      BY <1>7, <3>1, WorkMoves DEF Removes
    <3> QED BY <1>7, <3>2, <3>3, <1>a, WorkMoves
  <2> QED BY <2>1, <2>2
<1> QED
  BY <1>1, <1>2, <1>3, <1>4, <1>5, <1>6, <1>7, HandlerMoves

\* What the user sees of a record taken out or added.
LEMMA ContentMoves ==
  ASSUME EditState, NEW r, Takes(r) \/ Gains(r)
  PROVE  \/ Contents(live') = Contents(live) \ {Entry(r)}
         \/ Contents(live') = Contents(live) \cup {Entry(r)}
  BY TakesContent, GainsContent DEF EditState, OInv, SInv, EditInv

\* Of a call.
LEMMA CallContent ==
  ASSUME EditState, NEW h \in Handlers, NEW r
  PROVE  /\ Removes(h, r) => /\ Entry(r) \in Contents(live)
                             /\ Contents(live') = Contents(live) \ {Entry(r)}
                             /\ AskedToRemove(req[h], Entry(r))
         /\ Puts(h, r) => /\ \A e \in Contents(live) : Key(e) # Key(Entry(r))
                          /\ Contents(live') = Contents(live) \cup {Entry(r)}
                          /\ Entry(r) \in Additions(req[h])
                          /\ Entry(r) = Entry(job[h].rec)
  BY TakesContent, GainsContent DEF EditState, OInv, SInv, EditInv, Removes, Puts

\* What is to be kept is kept.
LEMMA NextKept ==
  ASSUME EditState, [Next]_vars, ~ConsoleEdit, NEW h \in Handlers
  PROVE  KeptAt(h)'
<1>0. KeptAt(h)
  BY DEF EditState, EditInv
<1>a. ASSUME ~Active(h)' PROVE KeptAt(h)'
  BY <1>a DEF KeptAt
\* It is enough that no entry goes but one asked to, or in slots of others.
<1>b. ASSUME Active(h), base'[h] = base[h], req'[h] = req[h],
             \A e \in Contents(live) : Free(h, e)' /\ ~AskedToRemove(req[h], e)
                                         => e \in Contents(live'),
             \A e : Free(h, e)' => Free(h, e)
      PROVE  KeptAt(h)'
  BY <1>0, <1>b DEF KeptAt, Kept
<1>1. CASE Rests(h)
  <2>1. CASE Active(h)
    BY <1>1, <2>1, <1>b DEF Rests, Stays, Alone, Free
  <2> QED BY <1>1, <2>1, <1>a, StaysPhase DEF Rests
<1>2. CASE Watches(h)
  <2>1. CASE ~Active(h)
    BY <1>2, <2>1, <1>a, StaysPhase DEF Watches
  <2>2. CASE Active(h)
    <3>1. ASSUME NEW e \in Contents(live), Free(h, e)' PROVE e \in Contents(live')
      <4>1. PICK r : (Takes(r) \/ Gains(r)) /\ Slot(e) # Slot(Entry(r))
        BY <1>2, <2>2, <3>1, FreeBefore
      <4>2. e # Entry(r)
        BY <4>1
      <4> QED BY <3>1, <4>1, <4>2, ContentMoves
    <3>2. \A e : Free(h, e)' => Free(h, e)
      BY <1>2, <2>2, FreeBefore
    <3>3. base'[h] = base[h] /\ req'[h] = req[h]
      BY <1>2 DEF Watches, Stays
    <3> QED BY <2>2, <3>1, <3>2, <3>3, <1>b
  <2> QED BY <2>1, <2>2
<1>3. CASE Begins(h)
  BY <1>3 DEF Begins, KeptAt, Kept
<1>4. CASE Skims(h) \/ Succeeds(h) \/ Fails(h)
  BY <1>4, <1>a DEF Skims, Succeeds, Fails, Ended, Active
<1>5. ASSUME ListDomains(h) \/ ListRecords(h) \/ Plan(h) \/ StartCall(h), Alone(h)
      PROVE  KeptAt(h)'
  <2>1. /\ Active(h) /\ req'[h] = req[h] /\ base'[h] = base[h] /\ live' = live
        /\ \A e : Free(h, e)' => Free(h, e)
    BY <1>5, ReadMoves DEF Alone, Free
  <2> QED BY <2>1, <1>b
<1>6. CASE Repeats(h) \/ Finishes(h)
  <2>1. /\ Active(h) /\ req'[h] = req[h] /\ base'[h] = base[h]
        /\ \A e : Free(h, e)' => Free(h, e)
    BY <1>6, WorkMoves DEF Alone, Free
  <2>2. live' = live \/ \E r : Removes(h, r) \/ Puts(h, r)
    BY <1>6, WorkMoves
  <2>3. ASSUME NEW e \in Contents(live), ~AskedToRemove(req[h], e)
        PROVE  e \in Contents(live')
    <3>1. CASE live' = live
      BY <3>1
    <3>2. ASSUME NEW r, Removes(h, r) \/ Puts(h, r) PROVE e \in Contents(live')
      BY <2>3, <3>2, CallContent
    <3> QED BY <2>2, <3>1, <3>2
  <2> QED BY <2>1, <2>3, <1>b
<1> QED
  BY <1>1, <1>2, <1>3, <1>4, <1>5, <1>6, HandlerMoves

\* An entry the changes ask to remove is of a zone the provider manages, and no NS
\* record of its apex.
LEMMA AskedIsListed ==
  ASSUME NEW r \in Record, NEW changes, AskedToRemove(changes, Entry(r))
  PROVE  r.zone \in DomainFilter /\ ~IsSpecial(r)
<1>1. PICK ep \in ToRemove(changes) :
        /\ Entry(r).zone \in FindZone(Managed, ep.name)
        /\ ~(Entry(r).type = "NS" /\ Entry(r).name = Zones[Entry(r).zone])
  BY DEF AskedToRemove
<1>2. /\ Entry(r).zone = r.zone /\ Entry(r).type = r.type
      /\ Entry(r).name = DnsDomain(r.sub, Zones[r.zone])
  BY DEF Entry
<1>3. r.zone \in DomainFilter /\ Zones[r.zone] \in Name
  BY <1>1, <1>2, ZoneFound
<1>4. r.sub = <<>> => DnsDomain(r.sub, Zones[r.zone]) = Zones[r.zone]
  BY <1>3 DEF DnsDomain, Name
<1> QED BY <1>1, <1>2, <1>3, <1>4 DEF IsSpecial

\* When the removals are over, nothing that was to be removed, and that others left
\* alone, is left.
LEMMA NoneLeft ==
  ASSUME EditState, [Next]_vars, NEW h \in Handlers,
         (Plan(h) /\ Alone(h)) \/ Finishes(h), ~Adding(h), Adding(h)',
         NEW e \in Contents(live'), Free(h, e)'
  PROVE  ~AskedToRemove(req[h], e)
<1>0. TypeOK /\ ListedAt(h) /\ OInv'
  BY NextOInv DEF EditState, EditInv, OInv, SInv
<1>1. /\ pc[h] \in {"records", "apply", "call"} /\ pc'[h] \in {"apply", "call"}
      /\ req'[h] = req[h] /\ snap'[h] = snap[h] /\ Alone(h)
      /\ pc[h] = "records" => unread[h] = {}
      /\ live' \subseteq live
  <2>1. CASE Plan(h) /\ Alone(h)
    BY <2>1, ReadMoves
  <2>2. CASE Finishes(h)
    <3>1. PICK r : Removes(h, r)
      BY <2>2, WorkMoves
    <3> QED BY <2>2, <3>1, WorkMoves DEF Removes, Takes
  <2> QED BY <2>1, <2>2
<1>2. PICK r \in live' : e = Entry(r)
  BY InContents
<1>3. r \in live /\ r \in Record /\ Free(h, Entry(r))
  BY <1>0, <1>1, <1>2 DEF TypeOK, Free, Alone
<1> SUFFICES ASSUME AskedToRemove(req[h], Entry(r)) PROVE FALSE
  BY <1>2
<1>4. Listed(r) \in snap[h]
  BY <1>0, <1>1, <1>3, AskedIsListed DEF ListedAt
<1>5. Entry(Listed(r)) = Entry(r) /\ Listed(r).id = r.id
  BY <1>3, ListedProperties
<1>6. \/ \E j \in todo'[h] : j.op = "delete" /\ j.rec = Listed(r)
      \/ \A s \in live' : s.id # Listed(r).id
  BY <1>0, <1>1, <1>4, <1>5 DEF OInv, RemovalsCovered
<1> QED
  BY <1>2, <1>5, <1>6 DEF Adding

\* What is there is explained.
LEMMA NextFound ==
  ASSUME EditState, [Next]_vars, ~ConsoleEdit, NEW h \in Handlers
  PROVE  FoundAt(h)'
<1>0. FoundAt(h)
  BY DEF EditState, EditInv
<1>a. ASSUME ~Active(h)' PROVE FoundAt(h)'
  BY <1>a DEF FoundAt
\* It is enough that nothing is added but what the changes ask for.
<1>b. ASSUME Active(h), base'[h] = base[h], req'[h] = req[h],
             Adding(h) => Adding(h)',
             \A e \in Contents(live') : Free(h, e)' =>
               \/ e \in Contents(live) /\ Free(h, e)
               \/ Adding(h)' /\ e \in Additions(req[h]),
             ~Adding(h) /\ Adding(h)' =>
               \A e \in Contents(live') : Free(h, e)' => ~AskedToRemove(req[h], e)
      PROVE  FoundAt(h)'
  <2> SUFFICES ASSUME NEW e \in Contents(live'), Free(h, e)',
                      ~(Adding(h)' /\ e \in Additions(req[h]))
               PROVE  e \in Contents(base[h]) /\ ~(Adding(h)' /\ AskedToRemove(req[h], e))
    BY <1>b DEF FoundAt
  <2>1. e \in Contents(live) /\ Free(h, e)
    BY <1>b
  <2>2. \/ e \in Contents(base[h]) /\ ~(Adding(h) /\ AskedToRemove(req[h], e))
        \/ Adding(h) /\ e \in Additions(req[h])
    BY <1>0, <1>b, <2>1 DEF FoundAt
  <2> QED BY <1>b, <2>2
<1>1. CASE Rests(h)
  <2>1. CASE Active(h)
    BY <1>1, <2>1, <1>b, StaysPhase DEF Rests, Stays, Alone, Free
  <2> QED BY <1>1, <2>1, <1>a, StaysPhase DEF Rests
<1>2. CASE Watches(h)
  <2>1. CASE ~Active(h)
    BY <1>2, <2>1, <1>a, StaysPhase DEF Watches
  <2>2. CASE Active(h)
    <3>1. ASSUME NEW e \in Contents(live'), Free(h, e)'
          PROVE  e \in Contents(live) /\ Free(h, e)
      <4>1. PICK r : (Takes(r) \/ Gains(r)) /\ Slot(e) # Slot(Entry(r))
        BY <1>2, <2>2, <3>1, FreeBefore
      <4>2. e # Entry(r)
        BY <4>1
      <4>3. Free(h, e)
        BY <1>2, <2>2, <3>1, FreeBefore
      <4> QED BY <3>1, <4>1, <4>2, <4>3, ContentMoves
    <3>2. base'[h] = base[h] /\ req'[h] = req[h] /\ (Adding(h)' <=> Adding(h))
      BY <1>2, StaysPhase DEF Watches, Stays
    <3> QED BY <2>2, <3>1, <3>2, <1>b
  <2> QED BY <2>1, <2>2
<1>3. CASE Begins(h)
  <2>1. ~Adding(h)' /\ base'[h] = live'
    BY <1>3 DEF Begins, Adding
  <2> QED BY <2>1 DEF FoundAt
<1>4. CASE Skims(h) \/ Succeeds(h) \/ Fails(h)
  BY <1>4, <1>a DEF Skims, Succeeds, Fails, Ended, Active
<1>5. ASSUME ListDomains(h) \/ ListRecords(h) \/ Plan(h) \/ StartCall(h), Alone(h)
      PROVE  FoundAt(h)'
  <2>1. /\ Active(h) /\ req'[h] = req[h] /\ base'[h] = base[h] /\ live' = live
        /\ \A e : Free(h, e)' => Free(h, e)
    BY <1>5, ReadMoves DEF Alone, Free
  <2>2. Adding(h) => Adding(h)'
    BY <1>5, ReadMoves DEF Adding
  <2>3. ASSUME ~Adding(h), Adding(h)' PROVE Plan(h)
    BY <1>5, <2>3, ReadMoves DEF Adding
  <2>4. ~Adding(h) /\ Adding(h)' =>
          \A e \in Contents(live') : Free(h, e)' => ~AskedToRemove(req[h], e)
    BY <1>5, <2>3, NoneLeft
  <2> QED BY <2>1, <2>2, <2>4, <1>b
<1>6. CASE Repeats(h) \/ Finishes(h)
  <2>1. /\ Active(h) /\ req'[h] = req[h] /\ base'[h] = base[h]
        /\ \A e : Free(h, e)' => Free(h, e)
        /\ Adding(h) => Adding(h)'
    BY <1>6, WorkMoves DEF Alone, Free, Adding
  <2>2. ASSUME NEW e \in Contents(live') PROVE e \in Contents(live) \/ (Adding(h)' /\ e \in Additions(req[h]))
    <3>1. CASE live' = live
      BY <2>2, <3>1
    <3>2. ASSUME NEW r, Removes(h, r) PROVE e \in Contents(live)
      BY <2>2, <3>2, CallContent
    <3>3. ASSUME NEW r, Puts(h, r), Adding(h)'
          PROVE  e \in Contents(live) \/ (Adding(h)' /\ e \in Additions(req[h]))
      BY <2>2, <3>3, CallContent
    <3> QED BY <1>6, <3>1, <3>2, <3>3, WorkMoves
  <2>3. ASSUME ~Adding(h), Adding(h)' PROVE Finishes(h)
    BY <1>6, <2>3, StaysPhase DEF Repeats
  <2>4. ~Adding(h) /\ Adding(h)' =>
          \A e \in Contents(live') : Free(h, e)' => ~AskedToRemove(req[h], e)
    BY <2>3, NoneLeft
  <2> QED BY <2>1, <2>2, <2>4, <1>b
<1> QED
  BY <1>1, <1>2, <1>3, <1>4, <1>5, <1>6, HandlerMoves

\* Neither a create nor one in vain takes anything out, and either leaves the key of
\* its record taken.
LEMMA CreateTakesKey ==
  ASSUME EditState, NEW h \in Handlers, Repeats(h) \/ Finishes(h), Adding(h)
  PROVE  /\ Contents(live) \subseteq Contents(live')
         /\ \E e \in Contents(live') : Key(e) = Key(Entry(job[h].rec))
<1>0. TypeOK /\ pc[h] = "call"
  BY WorkMoves DEF EditState, OInv, SInv
<1>1. ASSUME NEW r, Puts(h, r)
      PROVE  /\ Contents(live) \subseteq Contents(live')
             /\ \E e \in Contents(live') : Key(e) = Key(Entry(job[h].rec))
  BY <1>1, CallContent
<1>2. ASSUME live' = live, job[h].op = "create", ~Accepted(job[h])
      PROVE  \E e \in Contents(live') : Key(e) = Key(Entry(job[h].rec))
  <2>1. PICK s \in live : SameRecord(s, job[h].rec)
    BY <1>2 DEF Accepted
  <2>2. s \in Record /\ Canonical(s)
    BY <1>0 DEF TypeOK, EditState, EditInv, AccountCanonical
  <2>3. job[h].rec \in Record /\ Canonical(job[h].rec)
    BY <1>0, <1>2, CallIsTodo DEF EditState, EditInv, CreatesAt, Job
  <2>4. Key(Entry(s)) = Key(Entry(job[h].rec))
    BY <2>1, <2>2, <2>3, KeyIsRecord
  <2> QED BY <1>2, <2>4, InContents
<1> QED BY <1>1, <1>2, WorkMoves

\* A record to be added whose create call is done is there, if others let it.
LEMMA NextAdded ==
  ASSUME EditState, [Next]_vars, ~ConsoleEdit, NEW h \in Handlers
  PROVE  AddedAt(h)'
<1>0. AddedAt(h) /\ TypeOK
  BY DEF EditState, EditInv, OInv, SInv
<1>a. ASSUME pc'[h] \notin {"apply", "call"} PROVE AddedAt(h)'
  BY <1>a DEF AddedAt
\* It is enough that calls to come stay so, and what is there stays there.
<1>b. ASSUME pc[h] \in {"apply", "call"}, req'[h] = req[h], todo'[h] = todo[h],
             Adding(h) => Adding(h)',
             \A e \in Contents(live) : Adding(h) /\ Free(h, e)' => e \in Contents(live'),
             \A e : Free(h, e)' => Free(h, e)
      PROVE  AddedAt(h)'
  <2> SUFFICES ASSUME NEW a \in Additions(req[h]),
                      ~\E j \in todo[h] : j.op = "create" /\ Entry(j.rec) = a
               PROVE  Adding(h)' /\ (Free(h, a)' => \E e \in Contents(live') : Key(e) = Key(a))
    BY <1>b DEF AddedAt
  <2>1. Adding(h) /\ (Free(h, a) => \E e \in Contents(live) : Key(e) = Key(a))
    BY <1>0, <1>b DEF AddedAt
  <2>2. ASSUME Free(h, a)' PROVE \E e \in Contents(live') : Key(e) = Key(a)
    <3>1. PICK e \in Contents(live) : Key(e) = Key(a)
      BY <1>b, <2>1, <2>2
    <3>2. Slot(e) = Slot(a)
      BY <3>1, KeyParts
    <3>3. Free(h, e)'
      BY <2>2, <3>2 DEF Free
    <3> QED BY <1>b, <2>1, <3>1, <3>3
  <2> QED BY <1>b, <2>1, <2>2
<1>1. CASE Rests(h)
  <2>1. CASE pc[h] \in {"apply", "call"}
    BY <1>1, <2>1, <1>b, StaysPhase DEF Rests, Stays, Alone, Free
  <2> QED BY <1>1, <2>1, <1>a DEF Rests, Stays
<1>2. CASE Watches(h)
  <2>1. CASE pc[h] \notin {"apply", "call"}
    BY <1>2, <2>1, <1>a DEF Watches, Stays
  <2>2. CASE pc[h] \in {"apply", "call"}
    <3>0. Active(h)
      BY <2>2 DEF Active
    <3>1. ASSUME NEW e \in Contents(live), Free(h, e)' PROVE e \in Contents(live')
      <4>1. PICK r : (Takes(r) \/ Gains(r)) /\ Slot(e) # Slot(Entry(r))
        BY <1>2, <3>0, <3>1, FreeBefore
      <4>2. e # Entry(r)
        BY <4>1
      <4> QED BY <3>1, <4>1, <4>2, ContentMoves
    <3>2. \A e : Free(h, e)' => Free(h, e)
      BY <1>2, <3>0, FreeBefore
    <3>3. req'[h] = req[h] /\ todo'[h] = todo[h] /\ (Adding(h)' <=> Adding(h))
      BY <1>2, StaysPhase DEF Watches, Stays
    <3> QED BY <2>2, <3>1, <3>2, <3>3, <1>b
  <2> QED BY <2>1, <2>2
<1>3. CASE Begins(h) \/ Skims(h) \/ Succeeds(h) \/ Fails(h)
  BY <1>3, <1>a DEF Begins, Skims, Succeeds, Fails, Ended
<1>4. CASE ListDomains(h) \/ ListRecords(h)
  BY <1>4, <1>a, ReadMoves
<1>5. CASE Plan(h)
  <2>1. /\ req'[h] = req[h] /\ req[h] \in Requests
        /\ CreatesIn(req[h]) \subseteq todo'[h]
    BY <1>5, ReadMoves
  <2>2. ASSUME NEW a \in Additions(req[h])
        PROVE  \E j \in todo'[h] : j.op = "create" /\ Entry(j.rec) = a
    BY <2>1, AdditionsAreCreated
  <2> QED BY <2>1, <2>2 DEF AddedAt
<1>6. ASSUME StartCall(h), Alone(h) PROVE AddedAt(h)'
  <2>1. /\ pc[h] = "apply" /\ pc'[h] = "call" /\ req'[h] = req[h] /\ todo'[h] = todo[h]
        /\ live' = live /\ \A e : Free(h, e)' => Free(h, e)
    BY <1>6, ReadMoves DEF Alone, Free
  <2>2. Adding(h) => Adding(h)'
    BY <2>1 DEF Adding
  <2> QED BY <2>1, <2>2, <1>b
<1>7. CASE Repeats(h) \/ Finishes(h)
  <2>1. /\ pc[h] = "call" /\ req'[h] = req[h]
        /\ todo'[h] = todo[h] \/ todo'[h] = todo[h] \ {job[h]}
        /\ \A e : Free(h, e)' => Free(h, e)
        /\ Adding(h) => Adding(h)'
    BY <1>7, WorkMoves DEF Alone, Free, Adding
  <2>2. Adding(h) =>
          /\ Contents(live) \subseteq Contents(live')
          /\ \E e \in Contents(live') : Key(e) = Key(Entry(job[h].rec))
    BY <1>7, CreateTakesKey
  <2>3. CASE ~Adding(h)
    <3>1. \A a \in Additions(req[h]) : \E j \in todo[h] : j.op = "create" /\ Entry(j.rec) = a
      BY <1>0, <2>1, <2>3 DEF AddedAt
    <3>2. job[h].op = "delete"
      BY <1>7, <2>3, WorkMoves
    <3>3. \A j \in todo[h] : j.op = "create" => j \in todo'[h]
      BY <2>1, <3>2
    <3>4. \A a \in Additions(req[h]) : \E j \in todo'[h] : j.op = "create" /\ Entry(j.rec) = a
      BY <3>1, <3>3
    <3> QED BY <2>1, <3>4 DEF AddedAt
  <2>4. CASE Adding(h)
    <3> SUFFICES ASSUME NEW a \in Additions(req[h]),
                        ~\E j \in todo'[h] : j.op = "create" /\ Entry(j.rec) = a,
                        Free(h, a)'
                 PROVE  \E e \in Contents(live') : Key(e) = Key(a)
      BY <2>1, <2>4 DEF AddedAt
    <3>1. CASE Entry(job[h].rec) = a
      BY <2>2, <2>4, <3>1
    <3>2. CASE Entry(job[h].rec) # a
      <4>1. ~\E j \in todo[h] : j.op = "create" /\ Entry(j.rec) = a
        BY <2>1, <3>2
      <4>2. \E e \in Contents(live) : Key(e) = Key(a)
        BY <1>0, <2>1, <4>1 DEF AddedAt
      <4> QED BY <2>2, <2>4, <4>2
    <3> QED BY <3>1, <3>2
  <2> QED BY <2>3, <2>4
<1> QED
  BY <1>1, <1>2, <1>3, <1>4, <1>5, <1>6, <1>7, HandlerMoves

\* The invariant of the theorem.
EInv == OInv /\ (spent["edits"] = 0 => SnapshotsMatch /\ EditInv)

\* At first no handler is at work.
LEMMA InitEInv == Init => EInv
<1> SUFFICES ASSUME Init PROVE EInv
  OBVIOUS
<1>1. AccountCanonical
  BY CanonicalAssumption, HeldOnceAssumption DEF Init, AccountCanonical
<1>2. ASSUME NEW h \in Handlers
      PROVE  /\ QuietAt(h) /\ CreatesAt(h) /\ ListedAt(h)
             /\ KeptAt(h) /\ FoundAt(h) /\ AddedAt(h)
  BY DEF Init, QuietAt, CreatesAt, ListedAt, KeptAt, FoundAt, AddedAt, Active
<1> QED
  BY <1>1, <1>2, InitOInv DEF EInv, EditInv, Init, SnapshotsMatch

\* Every step keeps it.
LEMMA NextEInv == EInv /\ [Next]_vars => EInv'
<1> SUFFICES ASSUME EInv, [Next]_vars, spent'["edits"] = 0
             PROVE  (SnapshotsMatch /\ EditInv)'
  BY NextOInv DEF EInv
<1>1. spent["edits"] = 0 /\ ~ConsoleEdit
  BY EditsAreCounted DEF EInv, OInv
<1>2. EditState /\ SInv /\ SnapshotsMatch
  BY <1>1 DEF EInv, EditState, OInv
<1>3. SnapshotsMatch'
  BY <1>1, <1>2, MoveSnapshotsMatch, NextMoves
<1>4. AccountCanonical'
  BY <1>1, <1>2, AccountMoves, AccountStays DEF EditState, EditInv
<1>5. ASSUME NEW h \in Handlers
      PROVE  (/\ QuietAt(h) /\ CreatesAt(h) /\ ListedAt(h)
              /\ KeptAt(h) /\ FoundAt(h) /\ AddedAt(h))'
  BY <1>1, <1>2, NextQuiet, NextCreates, NextListed, NextKept, NextFound, NextAdded
<1> QED
  BY <1>3, <1>4, <1>5 DEF EditInv
-----------------------------------------------------------------------------
(* The refinement.  The words of ZoneEdit mean the same in both modules.     *)

\* What is asked to be removed,
LEMMA SameRemovals ==
  ASSUME NEW h, NEW changes
  PROVE  /\ \A e : Edit(h)!AskedToRemove(changes, e) <=> AskedToRemove(changes, e)
         /\ Edit(h)!ToRemove(changes) = ToRemove(changes)
         /\ Edit(h)!ToAdd(changes) = ToAdd(changes)
  BY DEF Edit!AskedToRemove, AskedToRemove, Edit!ToRemove, ToRemove, Edit!ToAdd, ToAdd,
         Edit!Endpoints, Endpoints, Edit!EndpointLine, EndpointLine, Edit!HasProp, HasProp,
         Edit!FindZone, FindZone, Edit!Managed, Managed, Edit!Covers, Covers

\* and to be added,
LEMMA SameAdditions ==
  ASSUME NEW h, NEW changes
  PROVE  Edit(h)!Additions(changes) = Additions(changes)
  BY DEF Edit!Additions, Additions, Edit!ToAdd, ToAdd, Edit!Endpoints, Endpoints,
         Edit!FindZone, FindZone, Edit!Managed, Managed, Edit!Covers, Covers,
         Edit!NewRecord, NewRecord, Edit!SubDomain, SubDomain, Edit!Stripped, Stripped,
         Edit!HasProp, HasProp, Edit!EndpointLine, EndpointLine, Edit!CreatedLine, CreatedLine,
         Edit!Entry, Entry,
         Edit!Listed, Listed, Edit!DnsDomain, DnsDomain, Edit!LineOf, LineOf

\* how entries are called,
LEMMA SameNames ==
  ASSUME NEW h, NEW e
  PROVE  Edit(h)!Key(e) = Key(e) /\ Edit(h)!Slot(e) = Slot(e)
  BY DEF Edit!Key, Key, Edit!Slot, Slot

\* and what changes lead to.
LEMMA SameOutcome ==
  ASSUME NEW h, NEW changes, NEW S
  PROVE  Edit(h)!Outcome(changes, S) = Outcome(changes, S)
<1>1. Edit(h)!Kept(changes, S) = Kept(changes, S)
  BY SameRemovals DEF Edit!Kept, Kept
<1> QED
  BY <1>1, SameAdditions, SameNames DEF Edit!Outcome, Outcome
-----------------------------------------------------------------------------
(* The steps of Editing, in the words of DnsPodApply.                        *)

\* What h works on, as its poster sees it.
Request(h) == IF Active(h) THEN req[h] ELSE None

\* Nothing a poster could see.
LEMMA IsNothing ==
  ASSUME NEW h, live' = live, Poster(h)' = Poster(h), Request(h)' = Request(h), Alone(h)
  PROVE  UNCHANGED Edit(h)!vars
  BY DEF Edit!vars, Request, Alone

\* Others change the content.
LEMMA IsMeddle ==
  ASSUME NEW h, Poster(h)' = Poster(h), Request(h)' = Request(h), base'[h] = base[h],
         foreign'[h] = IF Poster(h) \in {"removing", "adding"}
                       THEN foreign[h] \cup {Slot(e) : e \in (Contents(live) \ Contents(live'))
                                                         \cup (Contents(live') \ Contents(live))}
                       ELSE {}
  PROVE  Edit(h)!Next
<1>1. ASSUME NEW S PROVE {Edit(h)!Slot(e) : e \in S} = {Slot(e) : e \in S}
  BY SameNames
<1> QED
  BY <1>1 DEF Edit!Next, Edit!Meddle, Edit!Busy, Edit!Changing, Request

\* A request comes in.
LEMMA IsBegin ==
  ASSUME NEW h, Poster(h) \notin {"removing", "adding"}, Poster(h)' = "removing",
         Request(h)' \in Requests, base'[h] = live, live' = live, foreign'[h] = foreign[h]
  PROVE  Edit(h)!Next
  BY DEF Edit!Next, Edit!Begin, Edit!Busy, Request

\* No changes come in.
LEMMA IsBeginNothing ==
  ASSUME NEW h, Poster(h) \notin {"removing", "adding"}, Poster(h)' = "ok",
         \E changes \in Requests : ToRemove(changes) \cup ToAdd(changes) = {},
         live' = live, Request(h)' = Request(h), Alone(h)
  PROVE  Edit(h)!Next
<1>1. \E changes \in Requests : Edit(h)!ToRemove(changes) \cup Edit(h)!ToAdd(changes) = {}
  BY SameRemovals
<1> QED
  BY <1>1 DEF Edit!Next, Edit!BeginNothing, Edit!Busy, Request, Alone

\* A removal, or the turn to the additions.
LEMMA IsRemoval ==
  ASSUME NEW h, Poster(h) = "removing", Request(h)' = Request(h), Alone(h),
         \/ Poster(h)' = "removing"
         \/ /\ Poster(h)' = "adding"
            /\ \A e \in Contents(live') : Free(h, e) => ~AskedToRemove(Request(h), e),
         \/ live' = live
         \/ \E e \in Contents(live) : /\ AskedToRemove(Request(h), e)
                                      /\ Contents(live') = Contents(live) \ {e}
  PROVE  Edit(h)!Next
<1>1. Edit(h)!GoOn
  BY SameRemovals, SameNames DEF Edit!GoOn, Edit!Untouched, Free, Request, Alone
<1>2. CASE live' = live
  BY <1>1, <1>2 DEF Edit!Next, Edit!Turn
<1>3. CASE live' # live
  <2>1. Edit(h)!TakeOut
    BY <1>3, SameRemovals DEF Edit!TakeOut, Request
  <2> QED BY <1>1, <2>1 DEF Edit!Next, Edit!Remove
<1> QED BY <1>2, <1>3

\* An addition.
LEMMA IsAddition ==
  ASSUME NEW h, Poster(h) = "adding", Poster(h)' = "adding", Request(h)' = Request(h), Alone(h),
         NEW a \in Additions(Request(h)), \A e \in Contents(live) : Key(e) # Key(a),
         Contents(live') = Contents(live) \cup {a}
  PROVE  Edit(h)!Next
<1>1. Edit(h)!PutIn
  BY SameAdditions, SameNames DEF Edit!PutIn, Request
<1> QED
  BY <1>1 DEF Edit!Next, Edit!Add, Request, Alone

\* The end, with every slot others left alone as the changes lead to,
LEMMA IsSuccess ==
  ASSUME NEW h, Poster(h) = "adding", Poster(h)' = "ok", Request(h)' = None, live' = live,
         base'[h] = {}, foreign'[h] = {},
         \A e : Free(h, e) => (e \in Contents(live) <=>
                                 e \in Outcome(Request(h), Contents(base[h])))
  PROVE  Edit(h)!Next
<1>1. Edit(h)!Untouched(Contents(live)) =
        Edit(h)!Untouched(Edit(h)!Outcome(Request(h), Contents(base[h])))
  BY SameOutcome, SameNames DEF Edit!Untouched, Free
<1>2. Contents(base[h])' = {}
  BY DEF Contents
<1>3. Edit(h)!Succeed
  BY <1>1, <1>2 DEF Edit!Succeed, Edit!End, Request
<1> QED
  BY <1>3 DEF Edit!Next

\* and the end with an error, perhaps with the last call executed.
LEMMA IsFailure ==
  ASSUME NEW h, Poster(h) \in {"removing", "adding"}, Poster(h)' = "failed",
         Request(h)' = None, base'[h] = {}, foreign'[h] = {},
         \/ live' = live
         \/ /\ Poster(h) = "removing"
            /\ \E e \in Contents(live) : /\ AskedToRemove(Request(h), e)
                                         /\ Contents(live') = Contents(live) \ {e}
         \/ /\ Poster(h) = "adding"
            /\ \E a \in Additions(Request(h)) : /\ \A e \in Contents(live) : Key(e) # Key(a)
                                                /\ Contents(live') = Contents(live) \cup {a}
  PROVE  Edit(h)!Next
<1>1. Contents(base[h])' = {}
  BY DEF Contents
<1>2. Edit(h)!End("failed")
  BY <1>1 DEF Edit!End, Request
<1>3. \/ Contents(live)' = Contents(live)
      \/ Poster(h) = "removing" /\ Edit(h)!TakeOut
      \/ Poster(h) = "adding" /\ Edit(h)!PutIn
  BY SameRemovals, SameAdditions, SameNames DEF Edit!TakeOut, Edit!PutIn, Request
<1> QED
  BY <1>2, <1>3 DEF Edit!Next, Edit!Fail, Edit!Busy
-----------------------------------------------------------------------------
(* Every step of a handler is one of Editing.                                *)

\* What a handler's poster sees, in terms of Adding.
Phase(h) == IF ~Active(h) THEN pc[h] ELSE IF Adding(h) THEN "adding" ELSE "removing"

\* A call is a delete or a create.
LEMMA PosterIs == TypeOK => \A h \in Handlers : Poster(h) = Phase(h)
<1> SUFFICES ASSUME TypeOK, NEW h \in Handlers PROVE Poster(h) = Phase(h)
  OBVIOUS
<1>1. \A j \in todo[h] : j.op = "create" <=> j.op # "delete"
  BY DEF TypeOK, Job
<1> QED
  BY <1>1 DEF Poster, Phase, Adding

\* The same after a step.
LEMMA NextPosterIs == TypeOK' => \A h \in Handlers : Poster(h)' = Phase(h)'
<1> SUFFICES ASSUME TypeOK', NEW h \in Handlers PROVE Poster(h)' = Phase(h)'
  OBVIOUS
<1>1. \A j \in todo'[h] : j.op = "create" <=> j.op # "delete"
  BY DEF TypeOK, Job
<1> QED
  BY <1>1 DEF Poster, Phase, Adding

\* A handler not at work is no poster at work, and the other way round.
LEMMA Busy ==
  ASSUME TypeOK, NEW h \in Handlers
  PROVE  /\ Poster(h) \in {"removing", "adding"} <=> Active(h)
         /\ Active(h) => Request(h) = req[h]
<1>1. pc[h] \in PcValues
  BY DEF TypeOK
<1>2. ~Active(h) => pc[h] \in {"idle", "ok", "failed"}
  BY <1>1 DEF Active, PcValues
<1> QED
  BY <1>2, PosterIs DEF Phase, Request

\* When every call is made, every slot that others left alone is as the changes
\* lead to.
LEMMA AtTheEnd ==
  ASSUME EditState, NEW h \in Handlers, pc[h] = "apply", todo[h] = {}, NEW e, Free(h, e)
  PROVE  e \in Contents(live) <=> e \in Outcome(req[h], Contents(base[h]))
<1> DEFINE kept == Kept(req[h], Contents(base[h]))
<1>0. /\ Adding(h) /\ Active(h) /\ req[h] \in Requests
      /\ AccountCanonical /\ TypeOK /\ KeptAt(h) /\ FoundAt(h) /\ AddedAt(h)
  BY DEF Adding, Active, EditState, EditInv, OInv, SInv, TypeOK
<1>1. \A f \in kept : Free(h, f) => f \in Contents(live)
  BY <1>0 DEF KeptAt
<1>2. \A f \in Contents(live) : Free(h, f) => f \in kept \/ f \in Additions(req[h])
  BY <1>0 DEF FoundAt, Kept
<1>3. ASSUME e \in Additions(req[h]) PROVE \E f \in Contents(live) : Key(f) = Key(e)
  BY <1>0, <1>3 DEF AddedAt
<1>4. ASSUME NEW f, Key(f) = Key(e) PROVE Free(h, f)
  BY <1>4, KeyParts DEF Free
<1>5. ASSUME NEW f \in Contents(live), e \in Contents(live), Key(f) = Key(e) PROVE f = e
  <2>1. PICK r, s \in live : f = Entry(r) /\ e = Entry(s)
    BY <1>5, InContents
  <2> QED BY <1>0, <1>5, <2>1, EntriesDiffer
<1>6. e \in Outcome(req[h], Contents(base[h])) <=>
        e \in kept \/ (e \in Additions(req[h]) /\ \A f \in kept : Key(f) # Key(e))
  BY DEF Outcome
<1> HIDE DEF kept
<1>7. ASSUME e \in Contents(live) PROVE e \in Outcome(req[h], Contents(base[h]))
  BY <1>1, <1>2, <1>4, <1>5, <1>6, <1>7
<1>8. ASSUME e \in Outcome(req[h], Contents(base[h])) PROVE e \in Contents(live)
  <2>1. CASE e \in kept
    BY <1>1, <2>1
  <2>2. CASE e \in Additions(req[h]) /\ \A f \in kept : Key(f) # Key(e)
    <3>1. PICK f \in Contents(live) : Key(f) = Key(e)
      BY <1>3, <2>2
    <3>2. f \in Additions(req[h])
      BY <1>2, <1>4, <2>2, <3>1
    <3>3. f = e
      BY <1>0, <2>2, <3>1, <3>2, AskedOnceAssumption
    <3> QED BY <3>1, <3>3
  <2> QED BY <1>6, <1>8, <2>1, <2>2
<1> QED BY <1>7, <1>8

\* A step that is not an edit in place is nothing to a handler's poster, or one of
\* its steps, or others'.
LEMMA StepImplements ==
  ASSUME EditState, [Next]_vars, ~ConsoleEdit, NEW h \in Handlers
  PROVE  UNCHANGED Edit(h)!vars \/ Edit(h)!Next
<1>0. /\ TypeOK /\ TypeOK' /\ QuietAt(h) /\ AccountCanonical
      /\ Poster(h) = Phase(h) /\ Poster(h)' = Phase(h)'
  BY NextOInv, PosterIs, NextPosterIs DEF EditState, EditInv, OInv, SInv
<1>b. /\ Poster(h) \in {"removing", "adding"} <=> Active(h)
      /\ Active(h) => Request(h) = req[h]
  BY <1>0, Busy
<1>c. ASSUME Stays(h) PROVE Poster(h)' = Poster(h) /\ Request(h)' = Request(h)
  <2>1. pc'[h] = pc[h] /\ req'[h] = req[h]
    BY <1>c DEF Stays
  <2> QED BY <1>0, <1>c, <2>1, StaysPhase DEF Phase, Request
<1>d. ASSUME Ended(h, "ok") \/ Ended(h, "failed")
      PROVE  /\ Active(h) /\ Poster(h)' = pc'[h] /\ Request(h)' = None
             /\ base'[h] = {} /\ foreign'[h] = {}
  <2>1. ~Active(h)'
    BY <1>d DEF Ended, Active
  <2> QED BY <1>0, <1>d, <2>1 DEF Ended, Phase, Request
<1>1. CASE Rests(h)
  BY <1>1, <1>c, IsNothing DEF Rests
<1>2. CASE Watches(h)
  <2>1. PICK r : /\ Takes(r) \/ Gains(r)
                 /\ foreign'[h] = IF Active(h) THEN foreign[h] \cup {Slot(Entry(r))} ELSE {}
    BY <1>2 DEF Watches
  <2> DEFINE changed == (Contents(live) \ Contents(live')) \cup (Contents(live') \ Contents(live))
  <2>2. changed = {Entry(r)}
    <3>1. CASE Takes(r)
      BY <1>0, <3>1, TakesContent
    <3>2. CASE Gains(r)
      BY <1>0, <3>2, GainsContent
    <3> QED BY <2>1, <3>1, <3>2
  <2>3. {Slot(e) : e \in changed} = {Slot(Entry(r))}
    BY <2>2
  <2>4. foreign'[h] = IF Poster(h) \in {"removing", "adding"}
                      THEN foreign[h] \cup {Slot(e) : e \in changed} ELSE {}
    BY <1>b, <2>1, <2>3
  <2>5. Stays(h) /\ base'[h] = base[h]
    BY <1>2 DEF Watches
  <2> QED BY <1>c, <2>4, <2>5, IsMeddle
<1>3. CASE Begins(h)
  <2>1. Active(h)' /\ ~Adding(h)'
    BY <1>3 DEF Begins, Active, Adding
  <2>2. Poster(h)' = "removing" /\ Request(h)' = req'[h]
    BY <1>0, <2>1 DEF Phase, Request
  <2> QED BY <1>0, <1>3, <1>b, <2>2, IsBegin DEF Begins, QuietAt
<1>4. CASE Skims(h)
  <2>1. ~Active(h) /\ ~Active(h)'
    BY <1>4 DEF Skims, Active
  <2>2. Poster(h)' = "ok" /\ Request(h)' = Request(h)
    BY <1>0, <1>4, <2>1 DEF Skims, Phase, Request
  <2> QED BY <1>4, <1>b, <2>1, <2>2, IsBeginNothing DEF Skims
<1>5. CASE (ListDomains(h) \/ ListRecords(h) \/ StartCall(h)) /\ Alone(h)
  <2>1. /\ Active(h) /\ Active(h)' /\ live' = live /\ req'[h] = req[h]
        /\ Adding(h)' <=> Adding(h)
    BY <1>5, ReadMoves DEF Adding
  <2>2. Poster(h)' = Poster(h) /\ Request(h)' = Request(h)
    BY <1>0, <2>1 DEF Phase, Request
  <2> QED BY <1>5, <2>1, <2>2, IsNothing
<1>6. CASE Plan(h) /\ Alone(h)
  <2>1. Active(h) /\ Active(h)' /\ live' = live /\ req'[h] = req[h] /\ ~Adding(h)
    BY <1>6, ReadMoves DEF Adding
  <2>2. /\ Poster(h) = "removing" /\ Request(h)' = Request(h) /\ Request(h) = req[h]
        /\ Poster(h)' = (IF Adding(h)' THEN "adding" ELSE "removing")
    BY <1>0, <1>b, <2>1 DEF Phase, Request
  <2>3. ASSUME Adding(h)', NEW e \in Contents(live'), Free(h, e)
        PROVE  ~AskedToRemove(Request(h), e)
    <3>1. Free(h, e)'
      BY <1>6, <2>3 DEF Free, Alone
    <3> QED BY <1>6, <2>1, <2>2, <2>3, <3>1, NoneLeft
  <2> QED BY <1>6, <2>1, <2>2, <2>3, IsRemoval
<1>7. CASE Repeats(h) \/ Finishes(h)
  <2>1. Active(h) /\ Active(h)' /\ req'[h] = req[h] /\ Alone(h)
    BY <1>7, WorkMoves
  <2>2. /\ Request(h)' = Request(h) /\ Request(h) = req[h]
        /\ Poster(h) = (IF Adding(h) THEN "adding" ELSE "removing")
        /\ Poster(h)' = (IF Adding(h)' THEN "adding" ELSE "removing")
    BY <1>0, <1>b, <2>1 DEF Phase, Request
  <2>3. ASSUME ~Adding(h), NEW r, Removes(h, r) PROVE Edit(h)!Next
    <3>1. ASSUME Adding(h)', NEW e \in Contents(live'), Free(h, e)
          PROVE  ~AskedToRemove(Request(h), e)
      <4>1. Free(h, e)'
        BY <2>1, <3>1 DEF Free, Alone
      <4>2. Finishes(h)
        BY <1>7, <2>3, <3>1, StaysPhase DEF Repeats
      <4> QED BY <2>2, <2>3, <3>1, <4>1, <4>2, NoneLeft
    <3>2. /\ Entry(r) \in Contents(live) /\ AskedToRemove(Request(h), Entry(r))
          /\ Contents(live') = Contents(live) \ {Entry(r)}
      BY <2>2, <2>3, CallContent
    <3> QED BY <2>1, <2>2, <2>3, <3>1, <3>2, IsRemoval
  <2>4. ASSUME Adding(h), Adding(h)', NEW r, Puts(h, r) PROVE Edit(h)!Next
    <3>1. /\ Entry(r) \in Additions(Request(h))
          /\ \A e \in Contents(live) : Key(e) # Key(Entry(r))
          /\ Contents(live') = Contents(live) \cup {Entry(r)}
      BY <2>2, <2>4, CallContent
    <3> QED BY <2>1, <2>2, <2>4, <3>1, IsAddition
  <2>5. ASSUME Adding(h), Adding(h)', live' = live PROVE UNCHANGED Edit(h)!vars
    BY <2>1, <2>2, <2>5, IsNothing
  <2> QED BY <1>7, <2>3, <2>4, <2>5, WorkMoves
<1>8. CASE Succeeds(h)
  <2>1. pc[h] = "apply" /\ todo[h] = {} /\ live' = live /\ pc'[h] = "ok" /\ Adding(h)
    BY <1>8 DEF Succeeds, Ended, Adding
  <2>2. /\ Active(h) /\ Poster(h)' = "ok" /\ Request(h)' = None
        /\ base'[h] = {} /\ foreign'[h] = {}
    BY <1>8, <1>d, <2>1 DEF Succeeds
  <2>3. Poster(h) = "adding" /\ Request(h) = req[h]
    BY <1>0, <1>b, <2>1, <2>2 DEF Phase
  <2>4. \A e : Free(h, e) => (e \in Contents(live) <=>
                                e \in Outcome(Request(h), Contents(base[h])))
    BY <2>1, <2>3, AtTheEnd
  <2> QED BY <2>1, <2>2, <2>3, <2>4, IsSuccess
<1>9. CASE Fails(h)
  <2>1. /\ Active(h) /\ Poster(h)' = "failed" /\ Request(h)' = None
        /\ base'[h] = {} /\ foreign'[h] = {}
    BY <1>9, <1>d DEF Fails, Ended
  <2>2. /\ Poster(h) = (IF Adding(h) THEN "adding" ELSE "removing")
        /\ Poster(h) \in {"removing", "adding"} /\ Request(h) = req[h]
    BY <1>0, <1>b, <2>1 DEF Phase
  <2>3. CASE live' = live
    BY <2>1, <2>2, <2>3, IsFailure
  <2>4. CASE pc[h] = "call" /\ Serve(h)
    <3>1. PICK r : Removes(h, r) \/ Puts(h, r)
      BY <2>4, ServeMeans
    <3>2. CASE Removes(h, r)
      <4>1. /\ Poster(h) = "removing"
            /\ Entry(r) \in Contents(live) /\ AskedToRemove(Request(h), Entry(r))
            /\ Contents(live') = Contents(live) \ {Entry(r)}
        BY <2>2, <2>4, <3>2, CallContent, Phases DEF Removes
      <4> QED BY <2>1, <2>2, <4>1, IsFailure
    <3>3. CASE Puts(h, r)
      <4>1. /\ Poster(h) = "adding"
            /\ Entry(r) \in Additions(Request(h))
            /\ \A e \in Contents(live) : Key(e) # Key(Entry(r))
            /\ Contents(live') = Contents(live) \cup {Entry(r)}
        BY <2>2, <2>4, <3>3, CallContent, Phases DEF Puts
      <4> QED BY <2>1, <2>2, <4>1, IsFailure
    <3> QED BY <3>1, <3>2, <3>3
  <2> QED BY <1>9, <2>3, <2>4 DEF Fails
<1> QED
  BY <1>1, <1>2, <1>3, <1>4, <1>5, <1>6, <1>7, <1>8, <1>9, HandlerMoves

\* At first every poster is idle.
LEMMA InitImplements == Init => \A h \in Handlers : Edit(h)!Init
<1> SUFFICES ASSUME Init, NEW h \in Handlers PROVE Edit(h)!Init
  OBVIOUS
<1>1. pc[h] = "idle" /\ base[h] = {} /\ foreign[h] = {}
  BY DEF Init
<1>2. ~Active(h)
  BY <1>1 DEF Active
<1>3. Poster(h) = "idle" /\ Request(h) = None /\ Contents(base[h]) = {}
  BY <1>1, <1>2 DEF Poster, Request, Contents
<1> QED
  BY <1>1, <1>3 DEF Edit!Init, Request

\* Every handler, for every value of the constants, implements Editing, until
\* someone moves a record in place: whatever the others do, it edits the content
\* entry by entry, only as its changes ask, every removal before the first
\* addition, and it answers 204 only when every slot that others left alone is as
\* its changes lead to.
THEOREM HandlersEdit == Spec => EveryHandlerEdits
<1>1. Init => EInv /\ \A h \in Handlers : Edit(h)!Init
  BY InitEInv, InitImplements
<1>2. EInv /\ [Next]_vars => EInv'
  BY NextEInv
<1>3. EInv /\ [Next]_vars =>
        [spent'["edits"] = 0 =>
           \A h \in Handlers : UNCHANGED Edit(h)!vars \/ Edit(h)!Next]_vars
  <2> SUFFICES ASSUME EInv, [Next]_vars, spent'["edits"] = 0, NEW h \in Handlers
               PROVE  UNCHANGED Edit(h)!vars \/ Edit(h)!Next
    OBVIOUS
  <2>1. spent["edits"] = 0 /\ ~ConsoleEdit
    BY EditsAreCounted DEF EInv, OInv
  <2>2. EditState
    BY <2>1 DEF EInv, EditState
  <2> QED BY <2>1, <2>2, StepImplements
<1> QED
  BY <1>1, <1>2, <1>3, PTL DEF Spec, EveryHandlerEdits
-----------------------------------------------------------------------------
(* Posting again.  Several handlers serve the same changes.  What the        *)
(* account is kept from is two things: a record that is to go and that a     *)
(* handler on its way to "ok" does not know of, and a record that is to be   *)
(* there and that nobody will create, as long as none of them fails.         *)

\* To be removed, and not to be put back.
Stale(c, e) == AskedToRemove(c, e) /\ e \notin Additions(c)

\* A handler serves a request once it has left "idle",
Served(h) == pc[h] # "idle" => req[h] \in Requests

\* and a handler that has none has not been counted.
Asked == {h \in Handlers : req[h] # None}
Counted == IsFiniteSet(Asked) /\ Cardinality(Asked) <= spent["requests"]

NoneFailed == \A h \in Handlers : pc[h] # "failed"

\* Nothing is lost that was to be kept, nothing there that was not there or asked for.
Within(c, S) == Kept(c, S) \subseteq Contents(live) /\ Contents(live) \subseteq S \cup Additions(c)

\* A handler has seen what is to be removed, of the domains it has read, but for the
\* entries X that somebody adds: what else is there now was there when it read.
SeenAt(c, h, X) ==
  pc[h] \in {"records", "apply", "call"} =>
    \A r \in live :
      /\ AskedToRemove(c, Entry(r)) /\ Entry(r) \notin X
      /\ pc[h] = "records" => r.zone \notin unread[h]
      => Listed(r) \in snap[h]

\* When one handler is done, nothing that is to go is there.
GoneAt(c, h) == pc[h] = "ok" => \A e \in Contents(live) : ~Stale(c, e)

\* What is to be there is there, or some handler has its create call to come: the one
\* that takes it out, if not another.  Or no handler has got that far.
Claimed(c, a) ==
  \/ \E e \in Contents(live) : Key(e) = Key(a)
  \/ \E h \in Handlers : /\ pc[h] \in {"apply", "call"}
                         /\ \E j \in todo[h] : j.op = "create" /\ Entry(j.rec) = a
  \/ \A h \in Handlers : pc[h] \notin {"apply", "call", "ok"}

RepostInv ==
  /\ Counted /\ \A h \in Handlers : Served(h)
  /\ \A c \in Requests : OnlyPosted(c) => \A S \in InitialLive :
      /\ Within(c, Contents(S))
      /\ \A h \in Handlers : SeenAt(c, h, Additions(c)) /\ GoneAt(c, h)
      /\ NoneFailed => \A a \in Additions(c) : Claimed(c, a)

\* No request is the mark of a handler that has none.
LEMMA NoneIsNoRequest == None \notin Requests
<1>1. ASSUME None \in Requests PROVE FALSE
  <2>1. None \in Change
    BY <1>1, RequestsType
  <2>2. DOMAIN None = {"op"}
    BY DEF None
  <2>3. DOMAIN None = {"create", "updateOld", "updateNew", "delete"}
    BY <2>1 DEF Change
  <2> QED BY <2>2, <2>3
<1> QED BY <1>1

\* A step after which there has been no trouble is none, and counts a request only
\* when one comes in.
LEMMA NoTrouble ==
  ASSUME TypeOK, [Next]_vars, Trouble' = 0
  PROVE  /\ Trouble = 0 /\ spent'["edits"] = 0
         /\ ~Crash /\ ~ConsoleAdd /\ ~ConsoleRemove /\ ~ConsoleEdit
         /\ \A h \in Handlers : ~AnswerLost(h) /\ ~NotExecuted(h) /\ ~Throttled(h)
         /\ \/ req' = req /\ spent' = spent
            \/ \E g \in Handlers, changes \in Requests : Receive(g, changes)
<1>1. /\ spent["faults"] \in Nat /\ spent["console"] \in Nat /\ spent["edits"] \in Nat
      /\ spent["crashes"] \in Nat
      /\ spent \in [Budgets -> Nat]
  BY BudgetNames DEF TypeOK
<1>2. spent' \in [Budgets -> Nat]
  BY NextTypeOK DEF TypeOK
<1>3. /\ spent'["faults"] \in Nat /\ spent'["console"] \in Nat /\ spent'["edits"] \in Nat
      /\ spent'["crashes"] \in Nat
  BY <1>2, BudgetNames
<1>4. /\ spent'["faults"] = 0 /\ spent'["console"] = 0 /\ spent'["edits"] = 0
      /\ spent'["crashes"] = 0
  <2>1. spent'["faults"] + spent'["console"] + spent'["edits"] + spent'["crashes"] = 0
    BY DEF Trouble
  <2>2. ASSUME NEW k \in Nat, NEW l \in Nat, NEW m \in Nat, NEW n \in Nat, k + l + m + n = 0
        PROVE  k = 0 /\ l = 0 /\ m = 0 /\ n = 0
    BY <2>2
  <2> QED BY <1>3, <2>1, <2>2
<1>5. ASSUME NEW what \in {"faults", "console", "edits", "crashes"}, NEW max, Spend(what, max)
      PROVE  FALSE
  <2>1. spent'[what] = spent[what] + 1
    BY <1>1, <1>5, BudgetNames DEF Spend
  <2> QED BY <1>1, <1>4, <1>5, <2>1
<1>6. ~Crash /\ ~ConsoleAdd /\ ~ConsoleRemove /\ ~ConsoleEdit
  BY <1>5 DEF Crash, ConsoleAdd, ConsoleRemove, ConsoleEdit
<1>7. \A h \in Handlers : ~AnswerLost(h) /\ ~NotExecuted(h) /\ ~Throttled(h)
  BY <1>5 DEF AnswerLost, NotExecuted, Throttled, Fault
<1>8. ASSUME NEW h \in Handlers, HandlerStep(h) PROVE req' = req /\ spent' = spent
  BY <1>7, <1>8
  DEF HandlerStep, ListDomains, ListRecords, Plan, StartCall, Succeed, Answered, Refused,
      Again, Done, End
<1>9. \/ req' = req /\ spent' = spent
      \/ \E g \in Handlers, changes \in Requests : Receive(g, changes)
  BY <1>6, <1>8 DEF Next, Step, Environment, vars, handlerVars
<1>10. Trouble = 0
  <2>1. CASE spent' = spent
    BY <1>4, <2>1 DEF Trouble
  <2>2. ASSUME NEW g \in Handlers, NEW changes \in Requests, Receive(g, changes)
        PROVE  Trouble = 0
    <3>1. spent' = [spent EXCEPT !["requests"] = @ + 1]
      BY <2>2 DEF Receive, Spend
    <3>2. \A what \in {"faults", "console", "edits", "crashes"} : spent'[what] = spent[what]
      BY <1>1, <3>1 DEF Budgets
    <3> QED BY <1>4, <3>2 DEF Trouble
  <2> QED BY <1>9, <2>1, <2>2
<1> QED BY <1>4, <1>6, <1>7, <1>9, <1>10

\* A request comes to a handler that is not at work; nothing else sets one to work.
LEMMA ReceiveOnly ==
  ASSUME TypeOK, [Next]_vars
  PROVE  /\ spent'["requests"] \in Nat
         /\ \/ /\ req' = req /\ spent'["requests"] = spent["requests"]
               /\ \A h \in Handlers : pc[h] \in {"idle", "ok", "failed"} => pc'[h] = pc[h]
            \/ \E g \in Handlers, changes \in Requests :
                 /\ Receive(g, changes) /\ ~Active(g)
                 /\ req' = [req EXCEPT ![g] = changes]
                 /\ spent'["requests"] = spent["requests"] + 1
                 /\ \A h \in Handlers : h # g => pc'[h] = pc[h]
<1>0. /\ spent \in [Budgets -> Nat] /\ "requests" \in Budgets /\ spent' \in [Budgets -> Nat]
      /\ pc \in [Handlers -> PcValues]
  BY BudgetNames, NextTypeOK DEF TypeOK
<1> DEFINE Quiet == /\ req' = req /\ spent'["requests"] = spent["requests"]
                    /\ \A h \in Handlers : pc[h] \in {"idle", "ok", "failed"} => pc'[h] = pc[h]
<1>1. ASSUME NEW what \in Budgets \ {"requests"}, NEW max, Spend(what, max)
      PROVE  spent'["requests"] = spent["requests"]
  BY <1>0, <1>1 DEF Spend
<1>2. ASSUME NEW h \in Handlers, NEW final, Fault(h, final)
      PROVE  spent'["requests"] = spent["requests"]
  BY <1>1, <1>2, BudgetNames DEF Fault
<1>3. ASSUME NEW g \in Handlers, HandlerStep(g) PROVE Quiet
  <2>1. CASE ListDomains(g) \/ ListRecords(g) \/ Plan(g) \/ StartCall(g) \/ Succeed(g)
    BY <1>0, <2>1 DEF ListDomains, ListRecords, Plan, StartCall, Succeed, End
  <2>2. CASE Answered(g) \/ Refused(g)
    BY <1>0, <2>2 DEF Answered, Refused, Again, Done, End
  <2>3. CASE AnswerLost(g) \/ NotExecuted(g) \/ Throttled(g)
    <3>1. spent'["requests"] = spent["requests"]
      BY <1>2, <2>3 DEF AnswerLost, NotExecuted, Throttled
    <3>2. pc[g] \notin {"idle", "ok", "failed"}
      BY <2>3 DEF AnswerLost, NotExecuted, Throttled, Calling
    <3> QED BY <1>0, <2>3, <3>1, <3>2 DEF AnswerLost, NotExecuted, Throttled, Again, End
  <2> QED BY <1>3, <2>1, <2>2, <2>3 DEF HandlerStep
<1>4. ASSUME Crash PROVE Quiet
  <2>1. spent'["requests"] = spent["requests"]
    BY <1>1, <1>4, BudgetNames DEF Crash
  <2> QED BY <1>4, <2>1 DEF Crash, Active
<1>5. ASSUME ConsoleAdd \/ ConsoleRemove \/ ConsoleEdit PROVE Quiet
  <2>1. spent'["requests"] = spent["requests"]
    BY <1>1, <1>5, BudgetNames DEF ConsoleAdd, ConsoleRemove, ConsoleEdit
  <2> QED BY <1>5, <2>1 DEF ConsoleAdd, ConsoleRemove, ConsoleEdit, ConsoleStep, handlerVars
<1>6. ASSUME UNCHANGED vars PROVE Quiet
  BY <1>6 DEF vars, handlerVars
<1>7. ASSUME NEW g \in Handlers, NEW changes \in Requests, Receive(g, changes)
      PROVE  /\ ~Active(g) /\ req' = [req EXCEPT ![g] = changes]
             /\ spent'["requests"] = spent["requests"] + 1
             /\ \A h \in Handlers : h # g => pc'[h] = pc[h]
  BY <1>0, <1>7 DEF Receive, Take, Spend
<1> HIDE DEF Quiet
<1>8. Quiet \/ \E g \in Handlers, changes \in Requests : Receive(g, changes)
  BY <1>3, <1>4, <1>5, <1>6 DEF Next, Step, Environment
<1> QED BY <1>0, <1>7, <1>8 DEF Quiet

\* Handlers that have served are counted.
LEMMA NextCounted ==
  ASSUME TypeOK, [Next]_vars, Counted, \A h \in Handlers : Served(h)
  PROVE  Counted' /\ \A h \in Handlers : Served(h)'
<1>0. /\ req \in [Handlers -> Requests \cup {None}] /\ spent["requests"] \in Nat
      /\ Counted
  BY BudgetNames DEF TypeOK
<1>1. CASE /\ req' = req /\ spent'["requests"] = spent["requests"]
           /\ \A h \in Handlers : pc[h] \in {"idle", "ok", "failed"} => pc'[h] = pc[h]
  BY <1>0, <1>1 DEF Counted, Asked, Served
<1>2. ASSUME NEW g \in Handlers, NEW changes \in Requests,
             req' = [req EXCEPT ![g] = changes],
             spent'["requests"] = spent["requests"] + 1,
             \A h \in Handlers : h # g => pc'[h] = pc[h]
      PROVE  Counted' /\ \A h \in Handlers : Served(h)'
  <2>1. Asked' = Asked \cup {g}
    BY <1>0, <1>2, NoneIsNoRequest DEF Asked
  <2>2. /\ IsFiniteSet(Asked) /\ Cardinality(Asked) \in Nat
        /\ Cardinality(Asked) <= spent["requests"]
    BY <1>0, FS_CardinalityType DEF Counted
  <2>3. /\ IsFiniteSet(Asked \cup {g})
        /\ Cardinality(Asked \cup {g}) \in {Cardinality(Asked), Cardinality(Asked) + 1}
    BY <2>2, FS_AddElement
  <2>4. Counted'
    BY <1>0, <1>2, <2>1, <2>2, <2>3 DEF Counted
  <2>5. ASSUME NEW h \in Handlers PROVE Served(h)'
    BY <1>0, <1>2 DEF Served
  <2> QED BY <2>4, <2>5
<1> QED BY <1>1, <1>2, ReceiveOnly

\* Changes that are alone after a step were alone before, and who is done with them is
\* not asked again.
LEMMA PostedBefore ==
  ASSUME TypeOK, [Next]_vars, Counted, \A h \in Handlers : Served(h),
         NEW c \in Requests, OnlyPosted(c)'
  PROVE  /\ OnlyPosted(c) /\ spent["requests"] <= spent'["requests"]
         /\ \A h \in Handlers : pc[h] \in {"ok", "failed"} => pc'[h] = pc[h]
<1>0. /\ req \in [Handlers -> Requests \cup {None}] /\ spent["requests"] \in Nat
      /\ c # None /\ Trouble = 0 /\ Trouble' = 0
      /\ pc \in [Handlers -> PcValues]
  BY NoneIsNoRequest, NoTrouble, BudgetNames DEF TypeOK, OnlyPosted
<1>a. /\ \A h \in Handlers : req'[h] \in {c, None}
      /\ spent'["requests"] = Cardinality({h \in Handlers : req'[h] = c})
  BY DEF OnlyPosted
<1> DEFINE Goal == /\ OnlyPosted(c) /\ spent["requests"] <= spent'["requests"]
                   /\ \A h \in Handlers : pc[h] \in {"ok", "failed"} => pc'[h] = pc[h]
<1>1. ASSUME req' = req, spent'["requests"] = spent["requests"],
             \A h \in Handlers : pc[h] \in {"idle", "ok", "failed"} => pc'[h] = pc[h]
      PROVE  Goal
  BY <1>0, <1>1, <1>a DEF OnlyPosted
<1>2. ASSUME NEW g \in Handlers, NEW changes \in Requests, Receive(g, changes),
             req' = [req EXCEPT ![g] = changes],
             spent'["requests"] = spent["requests"] + 1,
             \A h \in Handlers : h # g => pc'[h] = pc[h]
      PROVE  Goal
  <2> DEFINE Had == {h \in Handlers : req[h] = c}
             Has == {h \in Handlers : req'[h] = c}
  <2>1. changes = c /\ req'[g] = c
    BY <1>0, <1>2, <1>a, NoneIsNoRequest
  <2>2. /\ IsFiniteSet(Asked) /\ Cardinality(Asked) \in Nat
        /\ Cardinality(Asked) <= spent["requests"]
    BY FS_CardinalityType DEF Counted
  <2>3. g \notin Asked
    <3>1. ASSUME g \in Asked PROVE FALSE
      <4>1. Has \subseteq Asked
        BY <1>0, <1>2, <3>1, NoneIsNoRequest DEF Asked
      <4>2. Cardinality(Has) \in Nat /\ Cardinality(Has) <= Cardinality(Asked)
        BY <2>2, <4>1, FS_Subset, FS_CardinalityType
      <4> QED BY <1>0, <1>2, <1>a, <2>2, <4>2
    <3> QED BY <3>1
  <2>4. req[g] = None
    BY <2>3 DEF Asked
  <2>5. Has = Had \cup {g} /\ g \notin Had
    BY <1>0, <1>2, <2>1, <2>4
  <2>6. Had \subseteq Asked
    BY <1>0 DEF Asked
  <2>7. IsFiniteSet(Had) /\ Cardinality(Had) \in Nat
    BY <2>2, <2>6, FS_Subset, FS_CardinalityType
  <2>8. Cardinality(Has) = Cardinality(Had) + 1
    BY <2>5, <2>7, FS_AddElement
  <2>9. spent["requests"] = Cardinality(Had)
    BY <1>0, <1>2, <1>a, <2>7, <2>8
  <2>10. ASSUME NEW h \in Handlers
         PROVE  req[h] \in {c, None} /\ (pc[h] \in {"ok", "failed"} => pc'[h] = pc[h])
    <3>1. pc[g] = "idle"
      BY <1>0, <2>4, NoneIsNoRequest DEF Served
    <3> QED BY <1>0, <1>2, <1>a, <2>4, <3>1
  <2> QED BY <1>0, <1>2, <2>9, <2>10 DEF OnlyPosted
<1> HIDE DEF Goal
<1>3. Goal
  BY <1>1, <1>2, ReceiveOnly
<1> QED BY <1>3 DEF Goal

\* Without trouble, a handler fails only at a delete that is refused.
LEMMA FailsAtDelete ==
  ASSUME TypeOK, [Next]_vars, Trouble' = 0, NEW h \in Handlers, Active(h), pc'[h] = "failed"
  PROVE  pc[h] = "call" /\ job[h].op = "delete" /\ ~Accepted(job[h]) /\ live' = live
<1>0. pc \in [Handlers -> PcValues] /\ pc[h] # "failed"
  BY DEF TypeOK, Active
<1>1. /\ ~Crash /\ ~ConsoleAdd /\ ~ConsoleRemove /\ ~ConsoleEdit
      /\ \A g \in Handlers : ~AnswerLost(g) /\ ~NotExecuted(g) /\ ~Throttled(g)
  BY NoTrouble
<1>2. ASSUME NEW g \in Handlers, HandlerStep(g) PROVE g = h /\ Refused(h)
  BY <1>0, <1>1, <1>2
  DEF HandlerStep, ListDomains, ListRecords, Plan, StartCall, Succeed, Answered, Refused,
      Again, Done, End
<1>3. ASSUME NEW g \in Handlers, NEW changes \in Requests, Receive(g, changes) PROVE FALSE
  BY <1>0, <1>3 DEF Receive, Take
<1>4. ~UNCHANGED vars
  BY <1>0 DEF vars, handlerVars
<1>5. Refused(h)
  BY <1>1, <1>2, <1>3, <1>4 DEF Next, Step, Environment
<1>6. ~Again(h) /\ ~Done(h)
  BY <1>0 DEF Again, Done, Active
<1> QED BY <1>5, <1>6 DEF Refused

\* What such a step does: at most one call is executed.
LEMMA RepostMoves ==
  ASSUME EInv, RepostInv, [Next]_vars, NEW c \in Requests, OnlyPosted(c)'
  PROVE  /\ OnlyPosted(c) /\ EditState /\ ~ConsoleEdit
         /\ \A h \in Handlers : /\ pc[h] # "idle" => req[h] = c
                                /\ pc'[h] # "idle" => req'[h] = c
                                /\ pc[h] \in {"ok", "failed"} => pc'[h] = pc[h]
         /\ \/ live' = live
            \/ \E g \in Handlers : Finishes(g) /\ \E r : Removes(g, r) \/ Puts(g, r)
<1>0. TypeOK /\ Counted /\ \A h \in Handlers : Served(h)
  BY DEF EInv, OInv, SInv, RepostInv
<1>1. /\ OnlyPosted(c) /\ \A h \in Handlers : Served(h)'
      /\ \A h \in Handlers : pc[h] \in {"ok", "failed"} => pc'[h] = pc[h]
  BY <1>0, PostedBefore, NextCounted
<1>2. Trouble' = 0
  BY DEF OnlyPosted
<1>3. ~ConsoleEdit /\ ~ConsoleAdd /\ ~ConsoleRemove /\ spent["edits"] = 0
  BY <1>0, <1>2, NoTrouble, EditsAreCounted DEF EInv, OInv
<1>4. EditState
  BY <1>3 DEF EInv, EditState
<1>5. \A h \in Handlers : /\ pc[h] # "idle" => req[h] = c
                          /\ pc'[h] # "idle" => req'[h] = c
                          /\ Fails(h) => live' = live
  BY <1>0, <1>1, <1>2, NoneIsNoRequest, FailsAtDelete DEF OnlyPosted, Served, Fails, Ended
<1>6. ASSUME NEW g \in Handlers, HandlerStep(g), Recorded(g)
      PROVE  live' = live \/ Finishes(g)
  <2>1. live' = live \/ Answered(g)
    BY <1>0, <1>2, <1>6, NoTrouble
    DEF HandlerStep, ListDomains, ListRecords, Plan, StartCall, Succeed, Refused
  <2>2. ASSUME Answered(g) PROVE Finishes(g)
    <3>1. pc[g] = "call" /\ Done(g) /\ Serve(g)
      BY <2>2 DEF Answered
    <3>2. Active(g) /\ Active(g)'
      BY <1>0, <3>1 DEF Done, Active, TypeOK
    <3> QED BY <1>6, <3>1, <3>2, History DEF Finishes, Alone
  <2> QED BY <2>1, <2>2
<1>7. live' = live \/ \E g \in Handlers : Finishes(g)
  BY <1>3, <1>6 DEF Next, Step, Environment, Receive, Take, Crash, vars
<1>8. ASSUME NEW g \in Handlers, Finishes(g)
      PROVE  live' = live \/ \E r : Removes(g, r) \/ Puts(g, r)
  BY <1>4, <1>8, WorkMoves
<1> QED
  BY <1>1, <1>3, <1>4, <1>5, <1>7, <1>8

\* The account gains only what is asked for, loses only what is to be removed.
LEMMA NextWithin ==
  ASSUME EInv, RepostInv, [Next]_vars, NEW c \in Requests, OnlyPosted(c)', NEW S, Within(c, S)
  PROVE  /\ Within(c, S)'
         /\ \A r \in live' : r \in live \/ Entry(r) \in Additions(c)
<1>1. CASE live' = live
  BY <1>1 DEF Within
<1>2. ASSUME NEW g \in Handlers, NEW r, Finishes(g), Removes(g, r) \/ Puts(g, r)
      PROVE  /\ Within(c, S)'
             /\ \A s \in live' : s \in live \/ Entry(s) \in Additions(c)
  <2>1. EditState /\ req[g] = c
    BY <1>2, RepostMoves DEF Finishes
  <2>2. CASE Removes(g, r)
    <3>1. /\ Contents(live') = Contents(live) \ {Entry(r)} /\ AskedToRemove(c, Entry(r))
          /\ live' \subseteq live
      BY <2>1, <2>2, CallContent DEF Removes, Takes
    <3> QED BY <3>1 DEF Within, Kept
  <2>3. CASE Puts(g, r)
    <3>1. /\ Contents(live') = Contents(live) \cup {Entry(r)} /\ Entry(r) \in Additions(c)
          /\ live' = live \cup {r}
      BY <2>1, <2>3, CallContent DEF Puts, Gains
    <3> QED BY <3>1 DEF Within, Kept
  <2> QED BY <1>2, <2>2, <2>3
<1> QED BY <1>1, <1>2, RepostMoves

\* What a handler has seen stays all there is.
LEMMA NextSeen ==
  ASSUME EInv, RepostInv, [Next]_vars, NEW c \in Requests, OnlyPosted(c)', NEW h \in Handlers,
         NEW X, SeenAt(c, h, X), \A r \in live' : r \in live \/ Entry(r) \in X
  PROVE  SeenAt(c, h, X)'
<1>0. EditState /\ ~ConsoleEdit /\ TypeOK /\ live' \subseteq Record
  <2>1. TypeOK' /\ TypeOK
    BY NextTypeOK DEF EInv, OInv, SInv
  <2> QED BY <2>1, RepostMoves DEF TypeOK
<1>a. ASSUME pc'[h] \notin {"records", "apply", "call"} PROVE SeenAt(c, h, X)'
  BY <1>a DEF SeenAt
<1> DEFINE Due(e) == AskedToRemove(c, e) /\ e \notin X
<1>b. \A r \in live' : Due(Entry(r)) => r \in live
  OBVIOUS
<1>c. ASSUME pc[h] \in {"records", "apply", "call"},
             pc'[h] = "records" => pc[h] = "records" /\ unread'[h] = unread[h],
             pc[h] = "records" /\ pc'[h] # "records" => unread[h] = {},
             snap'[h] = snap[h]
      PROVE  SeenAt(c, h, X)'
  BY <1>b, <1>c DEF SeenAt
<1>1. CASE Rests(h) \/ Watches(h)
  BY <1>1, <1>a, <1>c DEF Rests, Watches, Stays
<1>2. CASE Begins(h) \/ Skims(h) \/ Succeeds(h) \/ Fails(h)
  BY <1>2, <1>a DEF Begins, Skims, Succeeds, Fails, Ended
<1>3. CASE ListDomains(h)
  <2>1. \A r \in live' : Due(Entry(r)) => r.zone \in DomainFilter
    BY <1>0, AskedIsListed
  <2> QED BY <1>0, <1>3, <2>1, ReadMoves DEF SeenAt
<1>4. CASE ListRecords(h)
  <2>1. PICK z \in unread[h] :
          /\ unread'[h] = unread[h] \ {z}
          /\ snap'[h] = snap[h] \cup {Listed(r) : r \in {r \in live : r.zone = z /\ ~IsSpecial(r)}}
    BY <1>0, <1>4 DEF ListRecords, TypeOK
  <2>2. pc[h] = "records" /\ pc'[h] = "records" /\ live' = live
    BY <1>4 DEF ListRecords
  <2>3. \A r \in live : Due(Entry(r)) => ~IsSpecial(r)
    BY <1>0, AskedIsListed DEF TypeOK
  <2> QED BY <2>1, <2>2, <2>3 DEF SeenAt
<1>5. CASE Plan(h) \/ StartCall(h)
  BY <1>0, <1>5, <1>c, ReadMoves
<1>6. CASE Repeats(h) \/ Finishes(h)
  BY <1>0, <1>6, <1>c, WorkMoves
<1> QED
  BY <1>0, <1>1, <1>2, <1>3, <1>4, <1>5, <1>6, HandlerMoves

\* A handler that is done has removed what was to go.
LEMMA NextGone ==
  ASSUME EInv, RepostInv, [Next]_vars, NEW c \in Requests, OnlyPosted(c)', NEW h \in Handlers,
         SeenAt(c, h, Additions(c)), GoneAt(c, h),
         \A r \in live' : r \in live \/ Entry(r) \in Additions(c)
  PROVE  GoneAt(c, h)'
<1>0. EditState /\ ~ConsoleEdit /\ TypeOK /\ RemovalsCovered
  BY RepostMoves DEF EditState, OInv, SInv
<1>a. ASSUME pc'[h] # "ok" PROVE GoneAt(c, h)'
  BY <1>a DEF GoneAt
<1>b. \A e \in Contents(live') : Stale(c, e) => e \in Contents(live)
  BY InContents DEF Stale
<1>1. CASE Rests(h) \/ Watches(h)
  BY <1>1, <1>b DEF Rests, Watches, Stays, GoneAt
<1>2. CASE Begins(h)
  BY <1>2, <1>a DEF Begins
<1>3. CASE Skims(h)
  <2>1. req'[h] = c /\ ToRemove(c) = {}
    BY <1>3, RepostMoves DEF Skims
  <2> QED BY <2>1 DEF GoneAt, Stale, AskedToRemove
<1>4. CASE ListDomains(h) \/ ListRecords(h) \/ Plan(h) \/ StartCall(h)
  BY <1>0, <1>4, <1>a, ReadMoves
<1>5. CASE Succeeds(h)
  <2>1. pc[h] = "apply" /\ todo[h] = {} /\ live' = live /\ req[h] = c
    BY <1>5, RepostMoves DEF Succeeds
  <2> SUFFICES ASSUME NEW r \in live, Stale(c, Entry(r)) PROVE FALSE
    BY <2>1, InContents DEF GoneAt
  <2>2. Listed(r) \in snap[h]
    BY <2>1 DEF SeenAt, Stale
  <2>3. Entry(Listed(r)) = Entry(r) /\ Listed(r).id = r.id
    BY <1>0, ListedProperties DEF TypeOK
  <2>4. \A s \in live : s.id # Listed(r).id
    BY <1>0, <2>1, <2>2, <2>3 DEF RemovalsCovered, Stale
  <2> QED BY <2>3, <2>4
<1>6. CASE Repeats(h) \/ Finishes(h)
  BY <1>0, <1>6, <1>a, WorkMoves
<1>7. CASE Fails(h)
  BY <1>7, <1>a DEF Fails, Ended
<1> QED
  BY <1>0, <1>1, <1>2, <1>3, <1>4, <1>5, <1>6, <1>7, HandlerMoves

\* What is to be there stays claimed.
LEMMA NextClaimed ==
  ASSUME EInv, RepostInv, [Next]_vars, NEW c \in Requests, OnlyPosted(c)',
         NoneFailed', NEW a \in Additions(c), Claimed(c, a)
  PROVE  Claimed(c, a)'
<1>0. EditState /\ ~ConsoleEdit /\ TypeOK /\ \A h \in Handlers : ~Fails(h)
  BY RepostMoves DEF EditState, OInv, SInv, NoneFailed, Fails, Ended
<1> DEFINE ToCome(h) == /\ pc[h] \in {"apply", "call"}
                        /\ \E j \in todo[h] : j.op = "create" /\ Entry(j.rec) = a
           There == \E e \in Contents(live) : Key(e) = Key(a)
<1>a. There' \/ (\E h \in Handlers : ToCome(h)') => Claimed(c, a)'
  BY DEF Claimed
<1>1. CASE There
  <2>1. CASE live' = live
    BY <1>1, <1>a, <2>1
  <2>2. ASSUME NEW g \in Handlers, NEW r, Finishes(g), Puts(g, r)
        PROVE  Claimed(c, a)'
    <3>1. Contents(live') = Contents(live) \cup {Entry(r)}
      BY <1>0, <2>2, CallContent
    <3> QED BY <1>1, <1>a, <3>1
  <2>3. ASSUME NEW g \in Handlers, NEW r, Finishes(g), Removes(g, r)
        PROVE  Claimed(c, a)'
    <3>1. /\ pc[g] = "call" /\ pc'[g] \in {"apply", "call"} /\ req[g] = c
          /\ todo'[g] = todo[g] \/ todo'[g] = todo[g] \ {job[g]}
          /\ job[g].op = "delete" /\ ~Adding(g) /\ AddedAt(g)
      BY <1>0, <2>3, WorkMoves, RepostMoves, Phases DEF EditState, EditInv, Removes
    <3>2. \E j \in todo[g] : j.op = "create" /\ Entry(j.rec) = a
      BY <3>1 DEF AddedAt
    <3>3. \A j \in todo[g] : j.op = "create" => j \in todo'[g]
      BY <3>1
    <3>4. ToCome(g)'
      BY <3>1, <3>2, <3>3
    <3> QED BY <1>a, <3>4
  <2> QED BY <2>1, <2>2, <2>3, RepostMoves
<1>2. ASSUME NEW h \in Handlers, ToCome(h) PROVE Claimed(c, a)'
  <2>1. CASE Rests(h) \/ Watches(h)
    BY <1>2, <1>a, <2>1 DEF Rests, Watches, Stays
  <2>2. CASE Begins(h) \/ Skims(h) \/ Succeeds(h)
    BY <1>2, <2>2 DEF Begins, Skims, Succeeds, Active
  <2>3. CASE ListDomains(h) \/ ListRecords(h) \/ Plan(h) \/ StartCall(h)
    BY <1>0, <1>2, <1>a, <2>3, ReadMoves
  <2>4. CASE Repeats(h) \/ Finishes(h)
    <3>1. PICK j \in todo[h] : j.op = "create" /\ Entry(j.rec) = a
      BY <1>2
    <3>2. /\ pc'[h] \in {"apply", "call"}
          /\ todo'[h] = todo[h] \/ todo'[h] = todo[h] \ {job[h]}
      BY <1>0, <2>4, WorkMoves
    <3>3. CASE j # job[h]
      BY <1>a, <3>1, <3>2, <3>3
    <3>4. CASE j = job[h]
      <4>1. Adding(h)
        BY <1>0, <2>4, <3>1, <3>4, WorkMoves, Phases
      <4> QED BY <1>0, <1>a, <2>4, <3>1, <3>4, <4>1, CreateTakesKey
    <3> QED BY <3>3, <3>4
  <2> QED BY <1>0, <2>1, <2>2, <2>3, <2>4, HandlerMoves
<1>3. ASSUME \A h \in Handlers : pc[h] \notin {"apply", "call", "ok"},
             NEW h \in Handlers, pc'[h] \in {"apply", "call", "ok"}
      PROVE  Claimed(c, a)'
  <2>1. pc[h] \notin {"apply", "call", "ok"}
    BY <1>3
  <2>2. CASE Rests(h) \/ Watches(h) \/ Begins(h) \/ Succeeds(h)
    BY <1>3, <2>1, <2>2 DEF Rests, Watches, Stays, Begins, Succeeds
  <2>3. CASE Skims(h)
    <3>1. req'[h] = c /\ ToAdd(c) = {}
      BY <2>3, RepostMoves DEF Skims
    <3> QED BY <3>1 DEF Additions
  <2>4. CASE ListDomains(h) \/ ListRecords(h) \/ StartCall(h)
    BY <1>0, <1>3, <2>1, <2>4, ReadMoves
  <2>5. CASE Plan(h)
    <3>1. pc'[h] = "apply" /\ CreatesIn(c) \subseteq todo'[h]
      BY <1>0, <2>5, ReadMoves, RepostMoves
    <3>2. ToCome(h)'
      BY <3>1, AdditionsAreCreated
    <3> QED BY <1>a, <3>2
  <2>6. CASE Repeats(h) \/ Finishes(h)
    BY <1>0, <2>1, <2>6, WorkMoves
  <2> QED BY <1>0, <2>2, <2>3, <2>4, <2>5, <2>6, HandlerMoves
<1>4. ASSUME \A h \in Handlers : pc'[h] \notin {"apply", "call", "ok"} PROVE Claimed(c, a)'
  BY <1>4 DEF Claimed
<1> QED
  BY <1>1, <1>2, <1>3, <1>4 DEF Claimed

\* At first nobody has been asked.
LEMMA InitRepostInv ==
  ASSUME NEW S0, InitialLive = {S0}
  PROVE  Init => RepostInv
<1> SUFFICES ASSUME Init PROVE RepostInv
  OBVIOUS
<1>1. /\ live = S0 /\ \A h \in Handlers : pc[h] = "idle" /\ req[h] = None
      /\ spent["requests"] = 0
  BY BudgetNames DEF Init
<1>2. Asked = {}
  BY <1>1 DEF Asked
<1>3. Counted
  BY <1>1, <1>2, FS_EmptySet DEF Counted
<1>4. ASSUME NEW c \in Requests, NEW S \in InitialLive PROVE Within(c, Contents(S))
  BY <1>1 DEF Within, Kept
<1>5. ASSUME NEW c \in Requests, NEW h \in Handlers
      PROVE  SeenAt(c, h, Additions(c)) /\ GoneAt(c, h)
  BY <1>1 DEF SeenAt, GoneAt
<1>6. ASSUME NEW c \in Requests, NEW a \in Additions(c) PROVE Claimed(c, a)
  BY <1>1 DEF Claimed
<1> QED
  BY <1>1, <1>3, <1>4, <1>5, <1>6 DEF RepostInv, Served

\* Every step keeps it.
LEMMA NextRepostInv == EInv /\ RepostInv /\ [Next]_vars => RepostInv'
<1> SUFFICES ASSUME EInv, RepostInv, [Next]_vars PROVE RepostInv'
  OBVIOUS
<1>1. Counted' /\ \A h \in Handlers : Served(h)'
  BY NextCounted DEF EInv, OInv, SInv, RepostInv
<1>2. ASSUME NEW c \in Requests, OnlyPosted(c)', NEW S \in InitialLive
      PROVE  (/\ Within(c, Contents(S))
              /\ \A h \in Handlers : SeenAt(c, h, Additions(c)) /\ GoneAt(c, h)
              /\ NoneFailed => \A a \in Additions(c) : Claimed(c, a))'
  <2>1. OnlyPosted(c)
    BY <1>2, RepostMoves
  <2>2. /\ Within(c, Contents(S))
        /\ \A h \in Handlers : SeenAt(c, h, Additions(c)) /\ GoneAt(c, h)
        /\ NoneFailed => \A a \in Additions(c) : Claimed(c, a)
    BY <2>1 DEF RepostInv
  <2>3. /\ Within(c, Contents(S))'
        /\ \A r \in live' : r \in live \/ Entry(r) \in Additions(c)
    BY <1>2, <2>2, NextWithin
  <2>4. ASSUME NEW h \in Handlers PROVE SeenAt(c, h, Additions(c))' /\ GoneAt(c, h)'
    <3>1. SeenAt(c, h, Additions(c))'
      BY <1>2, <2>2, <2>3, NextSeen
    <3> QED BY <1>2, <2>2, <2>3, <3>1, NextGone
  <2>5. ASSUME NoneFailed', NEW a \in Additions(c) PROVE Claimed(c, a)'
    <3>1. NoneFailed
      BY <1>2, <2>5, RepostMoves DEF NoneFailed
    <3> QED BY <1>2, <2>2, <2>5, <3>1, NextClaimed
  <2> QED BY <2>3, <2>4, <2>5
<1> QED BY <1>1, <1>2 DEF RepostInv

\* The account is what the changes lead to when it holds nothing but what was kept or
\* asked for, nothing that is to go, and all that is asked for.
LEMMA OutcomeIsReached ==
  ASSUME EInv, Trouble = 0, NEW c \in Requests, NEW S, Within(c, S),
         \A e \in Contents(live) : ~Stale(c, e),
         \A a \in Additions(c) : \E e \in Contents(live) : Key(e) = Key(a)
  PROVE  Contents(live) = Outcome(c, S)
<1>0. TypeOK /\ AccountCanonical
  <2>1. spent["edits"] = 0
    <3>1. /\ spent["faults"] \in Nat /\ spent["console"] \in Nat /\ spent["edits"] \in Nat
          /\ spent["crashes"] \in Nat
      BY BudgetNames DEF EInv, OInv, SInv, TypeOK
    <3>2. ASSUME NEW k \in Nat, NEW l \in Nat, NEW m \in Nat, NEW n \in Nat, k + l + m + n = 0
          PROVE  m = 0
      BY <3>2
    <3> QED BY <3>1, <3>2 DEF Trouble
  <2> QED BY <2>1 DEF EInv, EditInv, OInv, SInv
<1> DEFINE kept == Kept(c, S)
<1>2. \A e \in kept : e \in Contents(live)
  BY DEF Within
<1>3. \A e \in Contents(live) : e \in kept \/ e \in Additions(c)
  BY DEF Within, Stale, Kept
<1>5. ASSUME NEW e \in Contents(live), NEW f \in Contents(live), Key(f) = Key(e) PROVE f = e
  <2>1. PICK r, s \in live : f = Entry(r) /\ e = Entry(s)
    BY <1>5, InContents
  <2> QED BY <1>0, <1>5, <2>1, EntriesDiffer
<1>6. Outcome(c, S) = kept \cup {a \in Additions(c) : \A e \in kept : Key(e) # Key(a)}
  BY DEF Outcome
<1> HIDE DEF kept
<1>7. ASSUME NEW e \in Contents(live) PROVE e \in Outcome(c, S)
  BY <1>2, <1>3, <1>5, <1>6
<1>8. ASSUME NEW e \in Outcome(c, S) PROVE e \in Contents(live)
  <2>1. CASE e \in kept
    BY <1>2, <2>1
  <2>2. CASE e \in Additions(c) /\ \A f \in kept : Key(f) # Key(e)
    <3>1. PICK f \in Contents(live) : Key(f) = Key(e)
      BY <2>2
    <3>2. f \in Additions(c)
      BY <1>3, <2>2, <3>1
    <3>3. f = e
      BY <2>2, <3>1, <3>2, AskedOnceAssumption
    <3> QED BY <3>1, <3>3
  <2> QED BY <1>6, <1>8, <2>1, <2>2
<1> QED BY <1>7, <1>8

\* All say they are done.
LEMMA RepostOutcome ==
  ASSUME EInv, RepostInv, NEW c \in Requests, NEW S \in InitialLive,
         OnlyPosted(c), \A h \in Handlers : pc[h] \in {"idle", "ok"},
         NEW g \in Handlers, pc[g] = "ok"
  PROVE  Contents(live) = Outcome(c, Contents(S))
<1>1. /\ Trouble = 0 /\ NoneFailed /\ Within(c, Contents(S)) /\ GoneAt(c, g)
      /\ \A a \in Additions(c) : Claimed(c, a)
  BY DEF RepostInv, OnlyPosted, NoneFailed
<1>2. \A a \in Additions(c) : \E e \in Contents(live) : Key(e) = Key(a)
  BY <1>1 DEF Claimed
<1> QED BY <1>1, <1>2, OutcomeIsReached DEF GoneAt

\* However many handlers serve the same changes at once, in whatever order their
\* listings, deletes and creates meet: when nobody else has been at the account and
\* all that were asked say they are done, the account is what the changes lead to.
\* (The property compares with the account at first, so there is to be one.)
THEOREM RepostsConverge ==
  ASSUME NEW S0, InitialLive = {S0}
  PROVE  Spec => []RepostConverges
<1>1. Init => EInv /\ RepostInv
  BY InitEInv, InitRepostInv
<1>2. EInv /\ RepostInv /\ [Next]_vars => EInv' /\ RepostInv'
  BY NextEInv, NextRepostInv
<1>3. EInv /\ RepostInv => RepostConverges
  BY RepostOutcome DEF RepostConverges
<1> QED
  BY <1>1, <1>2, <1>3, PTL DEF Spec
-----------------------------------------------------------------------------
(* Posting twice, in one zone.  Now one of the two may fail: its delete is   *)
(* refused when the other has taken the record.  So what the other creates   *)
(* must be safe from it.  When a handler is the first to be through with its *)
(* removals, nothing of what is to be removed is left, and so what the other *)
(* one has listed is all gone: it takes nothing any more, and fails.  Or it  *)
(* lists only later: then all it has listed is there for it to take, and it  *)
(* does not fail.                                                            *)

\* Is h through with its removals?
Late(h) == Adding(h) \/ pc[h] = "ok"

\* What is asked for is there, or has its create call to come from h.
Bound(c, h) ==
  \A a \in Additions(c) :
    \/ \E e \in Contents(live) : Key(e) = Key(a)
    \/ /\ pc[h] \in {"apply", "call"}
       /\ \E j \in todo[h] : j.op = "create" /\ Entry(j.rec) = a

\* What h has listed for removal is there, unless it has removed it itself;
Finds(c, h) ==
  \A s \in snap[h] : AskedToRemove(c, Entry(s)) =>
    \/ \E r \in live : r.id = s.id
    \/ pc[h] \in {"apply", "call"} /\ \A j \in todo[h] : j.op = "delete" => j.rec # s

\* or none of it is.
Misses(c, h) ==
  \A s \in snap[h] : AskedToRemove(c, Entry(s)) => \A r \in live : r.id # s.id

\* When g is through with its removals, so is h, or it will not fail, or it takes
\* nothing of what g creates.
Paired(c, g, h) ==
  \/ Late(h)
  \/ pc[h] # "failed" /\ Finds(c, h)
  \/ Misses(c, h) /\ Bound(c, g)

Twice(c) ==
  OnlyPosted(c) /\ spent["requests"] <= 2 /\ InOneZone(c) /\ ~RemovedTwice(c)

TwiceInv ==
  \A c \in Requests : Twice(c) =>
    /\ (\A g \in Handlers : ~Late(g)) => \A h \in Handlers : SeenAt(c, h, {})
    /\ \A g, h \in Handlers : g # h /\ Late(g) => Paired(c, g, h)

\* All that the steps below keep.
PostInv == EInv /\ RepostInv /\ CauseInv

\* No third handler has been asked.
LEMMA AtMostTwo ==
  ASSUME TypeOK, Counted, NEW c \in Requests, Twice(c), NEW g \in Handlers, NEW h \in Handlers,
         g # h, req[g] = c, req[h] = c, NEW k \in Handlers, k \notin {g, h}
  PROVE  req[k] # c
<1> SUFFICES ASSUME req[k] = c PROVE FALSE
  OBVIOUS
<1> DEFINE Had == {x \in Handlers : req[x] = c}
<1>1. IsFiniteSet(Had)
  <2>1. Had \subseteq Asked
    BY NoneIsNoRequest DEF Asked
  <2> QED BY <2>1, FS_Subset DEF Counted
<1>2. ASSUME NEW S, NEW x, IsFiniteSet(S), x \notin S
      PROVE  IsFiniteSet(S \cup {x}) /\ Cardinality(S \cup {x}) = Cardinality(S) + 1
  BY <1>2, FS_AddElement
<1>3. IsFiniteSet({g}) /\ Cardinality({g}) = 1
  BY FS_Singleton
<1>4. IsFiniteSet({g} \cup {h}) /\ Cardinality({g} \cup {h}) = 2
  <2>1. h \notin {g}
    OBVIOUS
  <2>2. Cardinality({g} \cup {h}) = Cardinality({g}) + 1
    BY <1>2, <1>3, <2>1
  <2> QED BY <1>2, <1>3, <2>1, <2>2
<1>5. IsFiniteSet(({g} \cup {h}) \cup {k}) /\ Cardinality(({g} \cup {h}) \cup {k}) = 3
  <2>1. k \notin {g} \cup {h}
    OBVIOUS
  <2>2. Cardinality(({g} \cup {h}) \cup {k}) = Cardinality({g} \cup {h}) + 1
    BY <1>2, <1>4, <2>1
  <2> QED BY <1>2, <1>4, <2>1, <2>2
<1>6. ({g} \cup {h}) \cup {k} \subseteq Had
  OBVIOUS
<1>7. Cardinality(({g} \cup {h}) \cup {k}) <= Cardinality(Had)
  BY <1>1, <1>6, FS_Subset
<1>8. Cardinality(Had) = spent["requests"] /\ spent["requests"] <= 2
  BY DEF Twice, OnlyPosted
<1>9. Cardinality(Had) \in Nat
  BY <1>1, FS_CardinalityType
<1> QED BY <1>5, <1>7, <1>8, <1>9

\* Who is through with its removals stays so, and does not fail.
LEMMA LateStays ==
  ASSUME EInv, RepostInv, [Next]_vars, NEW c \in Requests, OnlyPosted(c)',
         NEW h \in Handlers, Late(h)
  PROVE  Late(h)'
<1>0. /\ EditState /\ ~ConsoleEdit /\ TypeOK
      /\ pc[h] \in {"ok", "failed"} => pc'[h] = pc[h]
  BY RepostMoves DEF EditState, OInv, SInv
<1>1. CASE Rests(h) \/ Watches(h) \/ Repeats(h)
  <2>1. Stays(h)
    BY <1>1 DEF Rests, Watches, Repeats
  <2> QED BY <2>1, StaysPhase DEF Late, Stays
<1>2. CASE Begins(h) \/ Skims(h)
  <2>1. pc[h] = "ok"
    BY <1>2 DEF Begins, Skims, Late, Adding, Active
  <2> QED BY <1>0, <2>1 DEF Late
<1>3. CASE ListDomains(h) \/ ListRecords(h) \/ Plan(h) \/ StartCall(h)
  BY <1>0, <1>3, ReadMoves DEF Late, Adding
<1>4. CASE Succeeds(h)
  BY <1>4 DEF Succeeds, Ended, Late
<1>5. CASE Fails(h)
  <2>1. Trouble' = 0 /\ Active(h) /\ pc'[h] = "failed"
    BY <1>5 DEF OnlyPosted, Fails, Ended
  <2>2. pc[h] = "call" /\ job[h].op = "delete"
    BY <1>0, <2>1, FailsAtDelete
  <2> QED BY <1>0, <2>2, Phases DEF Late
<1>6. CASE Finishes(h)
  BY <1>0, <1>6, WorkMoves DEF Late, Adding
<1> QED
  BY <1>0, <1>1, <1>2, <1>3, <1>4, <1>5, <1>6, HandlerMoves

\* One of the two changes the account, or nobody does.
LEMMA TwiceMoves ==
  ASSUME EInv, RepostInv, [Next]_vars, NEW c \in Requests, Twice(c)',
         NEW g \in Handlers, NEW h \in Handlers, g # h, pc[g] # "idle", pc[h] # "idle"
  PROVE  /\ \A k \in Handlers \ {g, h} : pc[k] = "idle"
         /\ \/ live' = live
            \/ \E k \in {g, h} : Finishes(k) /\ \E r : Removes(k, r) \/ Puts(k, r)
<1>1. OnlyPosted(c)'
  BY DEF Twice
<1>2. TypeOK /\ Counted /\ \A k \in Handlers : Served(k)
  BY DEF EInv, OInv, SInv, RepostInv
<1>3. /\ OnlyPosted(c) /\ spent["requests"] <= spent'["requests"]
      /\ spent["requests"] \in Nat /\ spent'["requests"] \in Nat
  BY <1>1, <1>2, PostedBefore, ReceiveOnly, BudgetNames DEF TypeOK
<1>4. Twice(c)
  BY <1>3 DEF Twice
<1>5. \A k \in Handlers : pc[k] # "idle" => req[k] = c
  BY <1>1, RepostMoves
<1>6. \A k \in Handlers \ {g, h} : pc[k] = "idle"
  BY <1>2, <1>4, <1>5, AtMostTwo
<1>7. \/ live' = live
      \/ \E k \in Handlers : Finishes(k) /\ \E r : Removes(k, r) \/ Puts(k, r)
  BY <1>1, RepostMoves
<1>8. \A k \in Handlers : Finishes(k) => pc[k] = "call"
  BY DEF Finishes
<1> QED BY <1>6, <1>7, <1>8

\* A step keeps the changes posted twice, in one zone, by the two that serve them.
LEMMA TwiceBefore ==
  ASSUME PostInv, [Next]_vars, NEW c \in Requests, Twice(c)'
  PROVE  /\ Twice(c) /\ OnlyPosted(c)' /\ EInv /\ RepostInv /\ CauseInv /\ EditState
         /\ ~ConsoleEdit /\ TypeOK /\ SInv /\ TypeOK' /\ CauseInv' /\ OInv' /\ SnapshotsMatch'
         /\ \A h \in Handlers : /\ pc[h] # "idle" => req[h] = c
                                /\ pc'[h] # "idle" => req'[h] = c
                                /\ pc[h] \in {"ok", "failed"} => pc'[h] = pc[h]
<1>0. EInv /\ RepostInv /\ CauseInv /\ OnlyPosted(c)'
  BY DEF PostInv, Twice
<1>1. /\ TypeOK /\ SInv /\ Counted /\ (\A h \in Handlers : Served(h)) /\ Trouble' = 0
  BY <1>0 DEF EInv, OInv, SInv, RepostInv, OnlyPosted
<1>2. /\ OnlyPosted(c) /\ spent["requests"] <= spent'["requests"]
      /\ spent["requests"] \in Nat /\ spent'["requests"] \in Nat
  BY <1>0, <1>1, PostedBefore, ReceiveOnly, BudgetNames DEF TypeOK
<1>3. Twice(c)
  BY <1>2 DEF Twice
<1>4. EInv' /\ CauseInv' /\ spent'["edits"] = 0
  BY <1>0, <1>1, NextEInv, NextCauseInv, NoTrouble
<1>5. OInv' /\ SnapshotsMatch' /\ TypeOK'
  BY <1>4 DEF EInv, OInv
<1> QED BY <1>0, <1>1, <1>3, <1>4, <1>5, RepostMoves

\* A handler that has not been asked before has listed nothing after.
LEMMA IdleIsPaired ==
  ASSUME PostInv, [Next]_vars, NEW c \in Requests, Twice(c)',
         NEW g \in Handlers, NEW h \in Handlers, pc[h] = "idle"
  PROVE  Paired(c, g, h)'
<1>0. /\ CauseInv' /\ TypeOK' /\ EditState /\ ~ConsoleEdit
  BY TwiceBefore
<1>1. pc'[h] \in {"idle", "domains", "ok"}
  <2>1. CASE Rests(h) \/ Watches(h)
    BY <2>1 DEF Rests, Watches, Stays
  <2>2. CASE Begins(h) \/ Skims(h)
    BY <2>2 DEF Begins, Skims
  <2>3. CASE ListDomains(h) \/ ListRecords(h) \/ Plan(h) \/ StartCall(h)
    BY <2>3 DEF ListDomains, ListRecords, Plan, StartCall
  <2>4. CASE Succeeds(h) \/ Fails(h) \/ Repeats(h) \/ Finishes(h)
    BY <2>4 DEF Succeeds, Fails, Ended, Active, Repeats, Finishes
  <2> QED BY <1>0, <2>1, <2>2, <2>3, <2>4, HandlerMoves
<1>2. CASE pc'[h] = "ok"
  BY <1>2 DEF Paired, Late
<1>3. CASE pc'[h] \in {"idle", "domains"}
  <2>1. snap'[h] = {}
    BY <1>0, <1>3 DEF TypeOK, CauseInv, OnceAt, Active
  <2> QED BY <1>3, <2>1 DEF Paired, Finds
<1> QED BY <1>1, <1>2, <1>3

\* Once g is through with its removals, only the other takes anything.
LEMMA OnlyOtherTakes ==
  ASSUME PostInv, [Next]_vars, NEW c \in Requests, Twice(c)',
         NEW g \in Handlers, NEW h \in Handlers, g # h, Late(g), pc[h] # "idle"
  PROVE  \/ live \subseteq live' /\ Contents(live) \subseteq Contents(live')
         \/ Finishes(h) /\ \E r : Removes(h, r)
<1>0. EInv /\ RepostInv /\ EditState
  BY TwiceBefore
<1>1. pc[g] # "idle"
  BY DEF Late, Adding
<1>2. \/ live' = live
      \/ \E k \in {g, h} : Finishes(k) /\ \E r : Removes(k, r) \/ Puts(k, r)
  BY <1>0, <1>1, TwiceMoves
<1>3. CASE live' = live
  BY <1>3
<1>4. ASSUME NEW k \in {g, h}, Finishes(k), NEW r, Puts(k, r)
      PROVE  live \subseteq live' /\ Contents(live) \subseteq Contents(live')
  BY <1>0, <1>4, CallContent DEF Puts, Gains
<1>5. ASSUME Finishes(g), NEW r, Removes(g, r) PROVE FALSE
  <2>1. pc[g] = "call" /\ job[g].op = "delete"
    BY <1>5 DEF Finishes, Removes
  <2> QED BY <1>0, <2>1, Phases DEF Late
<1> QED BY <1>2, <1>3, <1>4, <1>5

\* A listed record whose delete call has been made has no other.
LEMMA DeletedOnce ==
  ASSUME CauseInv, NEW h \in Handlers, ~RemovedTwice(req[h]), pc[h] = "call",
         job[h].op = "delete", NEW s \in snap[h], s.id = job[h].rec.id,
         NEW j \in todo[h] \ {job[h]}, j.op = "delete"
  PROVE  j.rec # s
<1>1. job[h] \in todo[h] /\ DifferAt(h)
  BY DEF CauseInv, TypeOK, Active
<1> QED BY <1>1 DEF DifferAt

\* Who finds all it has listed goes on doing so, and does not fail.
LEMMA FindsStays ==
  ASSUME PostInv, [Next]_vars, NEW c \in Requests, Twice(c)',
         NEW g \in Handlers, NEW h \in Handlers, g # h, Late(g), pc[h] # "idle",
         pc[h] # "failed", Finds(c, h)
  PROVE  Late(h)' \/ (pc'[h] # "failed" /\ Finds(c, h)')
<1>0. /\ Twice(c) /\ EditState /\ CauseInv /\ TypeOK /\ SInv /\ ~ConsoleEdit /\ Trouble' = 0
      /\ req[h] = c /\ ~RemovedTwice(c)
      /\ pc[h] \in {"ok", "failed"} => pc'[h] = pc[h]
      /\ pc \in [Handlers -> PcValues] /\ snap \in [Handlers -> SUBSET Record]
  BY TwiceBefore DEF Twice, OnlyPosted, TypeOK
<1> DEFINE Here(s) == \E r \in live : r.id = s.id
           Passed(s) == pc[h] \in {"apply", "call"} /\ \A j \in todo[h] : j.op = "delete" => j.rec # s
           Held == \A s \in snap[h] : AskedToRemove(c, Entry(s)) => Here(s) \/ Passed(s)
<1>a. Held
  BY DEF Finds
<1>1. CASE Finishes(h) /\ \E r : Removes(h, r)
  <2>1. PICK r : Removes(h, r)
    BY <1>1
  <2>2. /\ pc[h] = "call" /\ pc'[h] = "apply" /\ snap'[h] = snap[h]
        /\ todo'[h] = todo[h] \ {job[h]}
    BY <1>0, <1>1 DEF Finishes, Done, TypeOK
  <2>3. job[h].op = "delete" /\ r.id = job[h].rec.id /\ live' = live \ {r}
    BY <2>1 DEF Removes, Takes
  <2>4. ASSUME NEW s \in snap[h], AskedToRemove(c, Entry(s)) PROVE Here(s)' \/ Passed(s)'
    <3>1. CASE Passed(s)
      BY <2>2, <3>1
    <3>2. CASE Here(s) /\ s.id # job[h].rec.id
      BY <2>3, <3>2
    <3>3. CASE s.id = job[h].rec.id
      BY <1>0, <2>2, <2>3, <3>3, DeletedOnce
    <3> QED BY <1>a, <2>4, <3>1, <3>2, <3>3
  <2>5. Finds(c, h)'
    BY <2>2, <2>4 DEF Finds
  <2> QED BY <2>2, <2>5
<1>2. ASSUME live \subseteq live' PROVE Late(h)' \/ (pc'[h] # "failed" /\ Finds(c, h)')
  <2>a. ASSUME snap'[h] = snap[h], todo'[h] \subseteq todo[h], pc'[h] # "failed",
               pc[h] \in {"apply", "call"} => pc'[h] \in {"apply", "call"}
        PROVE  pc'[h] # "failed" /\ Finds(c, h)'
    <3>1. \A s : Here(s) => Here(s)'
      BY <1>2
    <3>2. \A s : Passed(s) => Passed(s)'
      BY <2>a
    <3> QED BY <1>a, <2>a, <3>1, <3>2 DEF Finds
  <2>1. CASE Rests(h) \/ Watches(h) \/ Repeats(h)
    BY <2>1, <2>a DEF Rests, Watches, Repeats, Stays
  <2>2. CASE Begins(h)
    BY <1>0, <2>2 DEF Begins, Active, PcValues
  <2>3. CASE Skims(h) \/ Succeeds(h)
    BY <2>3 DEF Skims, Succeeds, Ended, Late
  <2>4. CASE Fails(h)
    <3>1. Active(h) /\ pc'[h] = "failed"
      BY <2>4 DEF Fails, Ended
    <3>2. pc[h] = "call" /\ job[h].op = "delete" /\ ~Accepted(job[h])
      BY <1>0, <3>1, FailsAtDelete
    <3>3. job[h] \in todo[h]
      BY <1>0, <3>2, CallIsTodo
    <3>4. job[h].rec \in snap[h] /\ AskedToRemove(c, Entry(job[h].rec))
      BY <1>0, <3>2, <3>3 DEF SInv, DeletesAsked
    <3>5. ~Here(job[h].rec) /\ ~Passed(job[h].rec)
      BY <3>2, <3>3 DEF Accepted
    <3> QED BY <1>a, <3>4, <3>5
  <2>5. CASE ListDomains(h) \/ Plan(h) \/ StartCall(h)
    <3>1. pc'[h] # "failed" /\ snap'[h] = snap[h]
      BY <1>0, <2>5 DEF ListDomains, Plan, StartCall
    <3>2. CASE pc[h] \notin {"apply", "call"}
      BY <1>2, <1>a, <3>1, <3>2 DEF Finds
    <3>3. CASE pc[h] \in {"apply", "call"}
      BY <1>0, <2>5, <2>a, <3>1, <3>3, ReadMoves
    <3> QED BY <3>2, <3>3
  <2>6. CASE ListRecords(h)
    <3>1. pc[h] = "records" /\ pc'[h] = "records" /\ live' = live
      BY <2>6 DEF ListRecords
    <3>2. ASSUME NEW s \in snap'[h], AskedToRemove(c, Entry(s)) PROVE Here(s)'
      <4>1. CASE s \in snap[h]
        BY <1>a, <3>1, <3>2, <4>1
      <4>2. ASSUME NEW r \in live, s = Listed(r) PROVE Here(s)'
        BY <1>0, <3>1, <4>2, ListedProperties DEF TypeOK
      <4> QED BY <1>0, <2>6, <4>1, <4>2, ListRecordsAdds DEF SInv
    <3> QED BY <3>1, <3>2 DEF Finds
  <2>7. CASE Finishes(h)
    <3>1. /\ snap'[h] = snap[h] /\ todo'[h] \subseteq todo[h] /\ pc'[h] \in {"apply", "call"}
      BY <1>0, <2>7, WorkMoves
    <3> QED BY <2>a, <3>1
  <2> QED BY <1>0, <2>1, <2>2, <2>3, <2>4, <2>5, <2>6, <2>7, HandlerMoves
<1> QED BY <1>1, <1>2, OnlyOtherTakes

\* What g has to create stays there or to come.
LEMMA BoundStays ==
  ASSUME PostInv, [Next]_vars, NEW c \in Requests, Twice(c)',
         NEW g \in Handlers, Late(g), Bound(c, g), Contents(live) \subseteq Contents(live')
  PROVE  Bound(c, g)'
<1>0. EInv /\ RepostInv /\ OnlyPosted(c)' /\ EditState /\ ~ConsoleEdit
  BY TwiceBefore
<1> SUFFICES ASSUME NEW a \in Additions(c), ~\E e \in Contents(live') : Key(e) = Key(a)
             PROVE  /\ pc'[g] \in {"apply", "call"}
                    /\ \E j \in todo'[g] : j.op = "create" /\ Entry(j.rec) = a
  BY DEF Bound
<1>1. PICK j \in todo[g] : /\ pc[g] \in {"apply", "call"}
                           /\ j.op = "create" /\ Entry(j.rec) = a
  BY DEF Bound
<1>2. Active(g) /\ Adding(g)
  BY <1>1 DEF Active, Late
<1>3. CASE Rests(g) \/ Watches(g) \/ Repeats(g)
  BY <1>1, <1>3 DEF Rests, Watches, Repeats, Stays
<1>4. CASE Begins(g) \/ Skims(g) \/ Succeeds(g)
  BY <1>1, <1>2, <1>4 DEF Begins, Skims, Succeeds
<1>5. CASE Fails(g)
  <2>1. pc'[g] = "failed"
    BY <1>5 DEF Fails, Ended
  <2>2. Late(g)'
    BY <1>0, LateStays
  <2> QED BY <2>1, <2>2 DEF Late, Adding
<1>6. CASE ListDomains(g) \/ ListRecords(g) \/ Plan(g) \/ StartCall(g)
  BY <1>0, <1>1, <1>6, ReadMoves
<1>7. CASE Finishes(g)
  <2>1. /\ pc'[g] \in {"apply", "call"}
        /\ todo'[g] = todo[g] \/ todo'[g] = todo[g] \ {job[g]}
    BY <1>0, <1>7, WorkMoves
  <2>2. j # job[g]
    BY <1>0, <1>1, <1>2, <1>7, CreateTakesKey
  <2> QED BY <1>1, <2>1, <2>2
<1> QED
  BY <1>0, <1>3, <1>4, <1>5, <1>6, <1>7, HandlerMoves

\* All that is asked to be removed is of one zone.
LEMMA AskedInOneZone ==
  ASSUME NEW c \in Requests, InOneZone(c)
  PROVE  \E z \in DomainFilter : \A s : AskedToRemove(c, Entry(s)) => s.zone = z
<1>1. PICK z \in DomainFilter : \A ep \in ToRemove(c) \cup ToAdd(c) :
        FindZone(Managed, ep.name) \subseteq {z}
  BY DEF InOneZone
<1>2. ASSUME NEW s, AskedToRemove(c, Entry(s)) PROVE s.zone = z
  <2>1. PICK ep \in ToRemove(c) : Entry(s).zone \in FindZone(Managed, ep.name)
    BY <1>2 DEF AskedToRemove
  <2>2. Entry(s).zone = s.zone
    BY DEF Entry
  <2> QED BY <1>1, <2>1, <2>2
<1> QED BY <1>2

\* Who misses all it has listed takes nothing any more, or has yet to list it.
LEMMA MissesStays ==
  ASSUME PostInv, [Next]_vars, NEW c \in Requests, Twice(c)',
         NEW g \in Handlers, NEW h \in Handlers, g # h, Late(g), pc[h] # "idle",
         Misses(c, h), Bound(c, g)
  PROVE  Paired(c, g, h)'
<1>0. /\ Twice(c) /\ EditState /\ CauseInv /\ TypeOK /\ SInv /\ req[h] = c /\ InOneZone(c)
      /\ snap \in [Handlers -> SUBSET Record] /\ live \subseteq Record
  BY TwiceBefore DEF Twice, TypeOK
<1>1. ~(Finishes(h) /\ \E r : Removes(h, r))
  <2> SUFFICES ASSUME Finishes(h), NEW r, Removes(h, r) PROVE FALSE
    OBVIOUS
  <2>1. pc[h] = "call" /\ job[h].op = "delete" /\ r.id = job[h].rec.id /\ r \in live
    BY DEF Finishes, Removes, Takes
  <2>2. job[h] \in todo[h]
    BY <1>0, <2>1, CallIsTodo
  <2>3. job[h].rec \in snap[h] /\ AskedToRemove(c, Entry(job[h].rec))
    BY <1>0, <2>1, <2>2 DEF SInv, DeletesAsked
  <2> QED BY <2>1, <2>3 DEF Misses
<1>2. Contents(live) \subseteq Contents(live')
  BY <1>1, OnlyOtherTakes
<1>3. Bound(c, g)'
  BY <1>2, BoundStays
<1>4. CASE snap'[h] \subseteq snap[h]
  <2>1. ASSUME NEW s \in snap'[h], AskedToRemove(c, Entry(s)) PROVE \A r \in live' : r.id # s.id
    <3>1. s \in snap[h] /\ \A r \in live : r.id # s.id
      BY <1>4, <2>1 DEF Misses
    <3> QED BY <1>0, <3>1, IdsStayGone
  <2> QED BY <1>3, <2>1 DEF Paired, Misses
<1>5. CASE ListRecords(h)
  <2>1. PICK z \in unread[h] :
          snap'[h] = snap[h] \cup {Listed(r) : r \in {r \in live : r.zone = z /\ ~IsSpecial(r)}}
    BY <1>0, <1>5 DEF ListRecords
  <2>2. pc[h] = "records" /\ pc'[h] = "records" /\ live' = live
    BY <1>0, <1>5 DEF ListRecords, TypeOK
  <2>3. \A s \in snap[h] : s.zone # z
    BY <1>0, <2>2 DEF CauseInv, OnceAt
  <2>4. \A s \in snap'[h] : s \in snap[h] \/ (s.zone = z /\ \E r \in live' : r.id = s.id)
    <3>1. ASSUME NEW r \in live, r.zone = z
          PROVE  Listed(r).zone = z /\ r \in live' /\ r.id = Listed(r).id
      BY <1>0, <2>2, <3>1, ListedProperties
    <3> QED BY <2>1, <3>1
  <2>5. PICK z0 \in DomainFilter : \A s : AskedToRemove(c, Entry(s)) => s.zone = z0
    BY <1>0, AskedInOneZone
  <2>6. CASE \E s \in snap[h] : AskedToRemove(c, Entry(s))
    <3>1. z # z0
      BY <2>3, <2>5, <2>6
    <3>2. Misses(c, h)'
      BY <2>2, <2>4, <2>5, <3>1 DEF Misses
    <3> QED BY <1>3, <3>2 DEF Paired
  <2>7. CASE ~\E s \in snap[h] : AskedToRemove(c, Entry(s))
    <3>1. Finds(c, h)'
      BY <2>4, <2>7 DEF Finds
    <3> QED BY <2>2, <3>1 DEF Paired
  <2> QED BY <2>6, <2>7
<1>6. snap'[h] \subseteq snap[h] \/ ListRecords(h)
  BY <1>0, CauseMoves
  DEF Unmoved, Opened, Emptied, ListDomains, Plan, Started, Struck, Retried
<1> QED BY <1>4, <1>5, <1>6

\* The first that is through with its removals leaves nothing of what is to be removed,
\* and has all its creates to come.
LEMMA GetsLate ==
  ASSUME PostInv, TwiceInv, [Next]_vars, NEW c \in Requests, Twice(c)',
         NEW g \in Handlers, NEW h \in Handlers, g # h, ~Late(g), Late(g)'
  PROVE  Paired(c, g, h)'
<1>0. /\ Twice(c) /\ OnlyPosted(c)' /\ EInv /\ RepostInv /\ EditState /\ ~ConsoleEdit
      /\ TypeOK /\ OInv' /\ SnapshotsMatch'
      /\ (pc[g] # "idle" => req[g] = c) /\ (pc'[g] # "idle" => req'[g] = c)
  BY TwiceBefore
<1>1. CASE Skims(g)
  <2>1. ToRemove(c) = {} /\ ToAdd(c) = {}
    BY <1>0, <1>1 DEF Skims
  <2> QED BY <2>1 DEF Paired, Misses, Bound, AskedToRemove, Additions
<1>2. CASE pc[h] = "idle"
  BY <1>2, IdleIsPaired
<1>3. CASE Late(h)
  BY <1>0, <1>3, LateStays DEF Paired
<1>4. ASSUME Plan(g) \/ Finishes(g), pc[h] # "idle", ~Late(h)
      PROVE  Paired(c, g, h)'
  <2>1. /\ pc[g] \in {"records", "apply", "call"} /\ pc'[g] \in {"apply", "call"}
        /\ req[g] = c /\ req'[g] = c /\ snap'[g] = snap[g] /\ live' \subseteq live
        /\ pc[g] = "records" => unread[g] = {}
        /\ \A a \in Additions(c) : \E j \in todo'[g] : j.op = "create" /\ Entry(j.rec) = a
    <3>1. CASE Plan(g)
      <4>1. /\ pc[g] = "records" /\ pc'[g] = "apply" /\ unread[g] = {} /\ live' = live
            /\ snap'[g] = snap[g] /\ CreatesIn(req[g]) \subseteq todo'[g]
        BY <1>0, <3>1, ReadMoves
      <4> QED BY <1>0, <4>1, AdditionsAreCreated
    <3>2. CASE Finishes(g)
      <4>1. /\ pc[g] = "call" /\ pc'[g] \in {"apply", "call"} /\ snap'[g] = snap[g]
            /\ todo'[g] = todo[g] \/ todo'[g] = todo[g] \ {job[g]}
            /\ job[g].op = "delete" /\ ~Adding(g) /\ \E r : Removes(g, r)
        BY <1>0, <3>2, WorkMoves DEF Late
      <4>2. live' \subseteq live
        BY <4>1 DEF Removes, Takes
      <4>3. \A a \in Additions(c) : \E j \in todo[g] : j.op = "create" /\ Entry(j.rec) = a
        BY <1>0, <4>1 DEF EditState, EditInv, AddedAt
      <4>4. \A j \in todo[g] : j.op = "create" => j \in todo'[g]
        BY <4>1
      <4> QED BY <1>0, <4>1, <4>2, <4>3, <4>4
    <3> QED BY <1>4, <3>1, <3>2
  <2>2. Bound(c, g)'
    BY <2>1 DEF Bound
  <2>3. \A k \in Handlers : ~Late(k)
    <3>1. \A k \in Handlers \ {g, h} : pc[k] = "idle"
      BY <1>0, <1>4, <2>1, TwiceMoves
    <3> QED BY <1>4, <3>1 DEF Late, Adding
  <2>4. SeenAt(c, g, {})
    BY <1>0, <2>3 DEF TwiceInv
  <2>5. ASSUME NEW s \in snap'[h], AskedToRemove(c, Entry(s)), NEW r \in live', r.id = s.id
        PROVE  FALSE
    <3>1. r \in live /\ r \in Record /\ Listed(r) = s
      BY <1>0, <2>1, <2>5 DEF SnapshotsMatch, TypeOK
    <3>2. Entry(r) = Entry(s)
      BY <3>1, ListedProperties
    <3>3. s \in snap'[g]
      BY <2>1, <2>4, <2>5, <3>1, <3>2 DEF SeenAt
    <3>4. \/ \E j \in todo'[g] : j.op = "delete" /\ j.rec = s
          \/ \A q \in live' : q.id # s.id
      BY <1>0, <2>1, <2>5, <3>3 DEF OInv, RemovalsCovered
    <3> QED BY <2>1, <2>5, <3>4 DEF Late, Adding
  <2>6. Misses(c, h)'
    BY <2>5 DEF Misses
  <2> QED BY <2>2, <2>6 DEF Paired
<1>5. CASE Rests(g) \/ Watches(g) \/ Repeats(g)
  <2>1. Stays(g)
    BY <1>5 DEF Rests, Watches, Repeats
  <2> QED BY <2>1, StaysPhase DEF Late, Stays
<1>6. CASE Begins(g) \/ Fails(g)
  BY <1>6 DEF Begins, Fails, Ended, Late, Adding
<1>7. CASE ListDomains(g) \/ ListRecords(g) \/ StartCall(g)
  BY <1>0, <1>7, ReadMoves DEF Late, Adding
<1>8. CASE Succeeds(g)
  BY <1>8 DEF Succeeds, Late, Adding
<1> QED
  BY <1>0, <1>1, <1>2, <1>3, <1>4, <1>5, <1>6, <1>7, <1>8, HandlerMoves

\* Until then nobody creates, and what is there has been seen.
LEMMA NextSeenAll ==
  ASSUME PostInv, TwiceInv, [Next]_vars, NEW c \in Requests, Twice(c)',
         \A g \in Handlers : ~Late(g)', NEW h \in Handlers
  PROVE  SeenAt(c, h, {})'
<1>0. Twice(c) /\ OnlyPosted(c)' /\ EInv /\ RepostInv /\ EditState
  BY TwiceBefore
<1>1. \A g \in Handlers : ~Late(g)
  BY <1>0, LateStays
<1>2. SeenAt(c, h, {})
  BY <1>0, <1>1 DEF TwiceInv
<1>3. live' \subseteq live
  <2>1. ASSUME NEW g \in Handlers, Finishes(g), NEW r, Puts(g, r) PROVE FALSE
    BY <1>0, <1>1, <2>1, WorkMoves DEF Puts, Late
  <2>2. ASSUME NEW g \in Handlers, NEW r, Removes(g, r) PROVE live' \subseteq live
    BY <2>2 DEF Removes, Takes
  <2> QED BY <1>0, <2>1, <2>2, RepostMoves
<1> QED BY <1>0, <1>2, <1>3, NextSeen

\* Every step keeps it.
LEMMA NextTwiceInv == PostInv /\ TwiceInv /\ [Next]_vars => TwiceInv'
<1> SUFFICES ASSUME PostInv, TwiceInv, [Next]_vars, NEW c \in Requests, Twice(c)'
             PROVE  /\ (\A g \in Handlers : ~Late(g)') => \A h \in Handlers : SeenAt(c, h, {})'
                    /\ \A g, h \in Handlers : g # h /\ Late(g)' => Paired(c, g, h)'
  BY DEF TwiceInv
<1>0. Twice(c) /\ OnlyPosted(c)' /\ EInv /\ RepostInv
  BY TwiceBefore
<1>1. ASSUME NEW g \in Handlers, NEW h \in Handlers, g # h, Late(g)' PROVE Paired(c, g, h)'
  <2>1. CASE ~Late(g)
    BY <1>1, <2>1, GetsLate
  <2>2. CASE pc[h] = "idle"
    BY <2>2, IdleIsPaired
  <2>3. CASE Late(g) /\ pc[h] # "idle"
    <3>1. Paired(c, g, h)
      BY <1>0, <1>1, <2>3 DEF TwiceInv
    <3>2. CASE Late(h)
      BY <1>0, <3>2, LateStays DEF Paired
    <3>3. CASE pc[h] # "failed" /\ Finds(c, h)
      BY <1>1, <2>3, <3>3, FindsStays DEF Paired
    <3>4. CASE Misses(c, h) /\ Bound(c, g)
      BY <1>1, <2>3, <3>4, MissesStays
    <3> QED BY <3>1, <3>2, <3>3, <3>4 DEF Paired
  <2> QED BY <2>1, <2>2, <2>3
<1> QED BY <1>1, NextSeenAll

\* One says it is done, and it is.
LEMMA OneDoneOutcome ==
  ASSUME PostInv, TwiceInv, NEW c \in Requests, NEW S \in InitialLive,
         Twice(c), \A h \in Handlers : ~Active(h), NEW g \in Handlers, pc[g] = "ok"
  PROVE  Contents(live) = Outcome(c, Contents(S))
<1>0. EInv /\ RepostInv /\ OnlyPosted(c) /\ Trouble = 0
  BY DEF PostInv, Twice, OnlyPosted
<1>1. CASE \A h \in Handlers : pc[h] \in {"idle", "ok"}
  BY <1>0, <1>1, RepostOutcome
<1>2. ASSUME NEW h \in Handlers, pc[h] \notin {"idle", "ok"}
      PROVE  Contents(live) = Outcome(c, Contents(S))
  <2>1. pc[h] = "failed"
    BY <1>0, <1>2 DEF EInv, OInv, SInv, TypeOK, PcValues, Active
  <2>2. Paired(c, g, h)
    BY <2>1 DEF TwiceInv, Late
  <2>3. Bound(c, g)
    BY <2>1, <2>2 DEF Paired, Late, Adding
  <2>4. \A a \in Additions(c) : \E e \in Contents(live) : Key(e) = Key(a)
    BY <2>3 DEF Bound
  <2>5. Within(c, Contents(S)) /\ GoneAt(c, g)
    BY <1>0 DEF RepostInv
  <2> QED BY <1>0, <2>4, <2>5, OutcomeIsReached DEF GoneAt
<1> QED BY <1>1, <1>2

\* Changes in one zone, posted twice at once: when nobody else has been at the account
\* and one of the two handlers says it is done, the account is what the changes lead to,
\* even if the other has failed over what the first has taken.
THEOREM OneDoneIsEnough ==
  ASSUME NEW S0, InitialLive = {S0}
  PROVE  Spec => []OneDoneSuffices
<1>1. Init => PostInv /\ TwiceInv
  <2>1. Init => PostInv
    BY InitEInv, InitRepostInv, InitCauseInv DEF PostInv
  <2>2. Init => TwiceInv
    BY DEF Init, TwiceInv, Late, Adding, SeenAt
  <2> QED BY <2>1, <2>2
<1>2. PostInv /\ TwiceInv /\ [Next]_vars => PostInv' /\ TwiceInv'
  <2>1. PostInv /\ [Next]_vars => PostInv'
    BY NextEInv, NextRepostInv, NextCauseInv DEF PostInv
  <2> QED BY <2>1, NextTwiceInv
<1>3. PostInv /\ TwiceInv => OneDoneSuffices
  BY OneDoneOutcome DEF OneDoneSuffices, Twice
<1> QED
  BY <1>1, <1>2, <1>3, PTL DEF Spec
=============================================================================
