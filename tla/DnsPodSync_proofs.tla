-------------------------- MODULE DnsPodSync_proofs --------------------------
(***************************************************************************)
(* Proofs about the closed loop on public zones, for any zones, account,   *)
(* wishes and number of handlers, faults, crashes, console users and       *)
(* clients that give up: what GET /records answers, and what the loop, in  *)
(* whatever order its requests are worked on, may remove.                  *)
(***************************************************************************)
EXTENDS DnsPodSync, DnsPodApply_proofs

(* What GET /records answers.                                                *)

\* Records as they are in an account, or in a listing of it.
IsAccount(S) ==
  /\ IsFiniteSet(S) /\ S \subseteq Record
  /\ \A r, s \in S : r.id = s.id => r = s
  /\ \A r \in S : r.weight \in DOMAIN FormatUint

\* The listings of all zones, and those of its records that are in one endpoint.
ListedOf(S) == {Listed(r) : r \in {r \in S : r.zone \in DomainFilter /\ ~IsSpecial(r)}}
GroupOf(S, r) == {s \in ListedOf(S) : Group(s) = Group(r)}

LEMMA RecordsAre ==
  ASSUME NEW S, NEW order
  PROVE  Records(S, order) = {EndpointOf(GroupOf(S, r), order) : r \in ListedOf(S)}
  BY DEF Records, ListedOf, GroupOf

\* The listings are records again, one for each of the account's.
LEMMA ListingOf ==
  ASSUME NEW S, IsAccount(S)
  PROVE  /\ IsAccount(ListedOf(S))
         /\ \A s \in ListedOf(S) :
              /\ s.zone \in DomainFilter /\ Zones[s.zone] \in Name
              /\ Listed(s) = s /\ ~IsSpecial(s)
              /\ \E r \in S : s = Listed(r) /\ Entry(s) = Entry(r)
<1> DEFINE T == {r \in S : r.zone \in DomainFilter /\ ~IsSpecial(r)}
           list == [r \in Record |-> Listed(r)]
<1>1. IsFiniteSet(T) /\ T \subseteq Record
  BY FS_Subset DEF IsAccount
<1>2. IsFiniteSet({list[r] : r \in T})
  BY <1>1, FiniteImage
<1>3. {list[r] : r \in T} = ListedOf(S)
  BY <1>1 DEF ListedOf
<1>4. ASSUME NEW s \in ListedOf(S)
      PROVE  \E r \in T : s = Listed(r) /\ s \in Record /\ s.id = r.id /\ s.zone = r.zone
                          /\ s.weight = r.weight /\ Entry(s) = Entry(r)
                          /\ Listed(s) = s /\ ~IsSpecial(s)
  <2>1. PICK r \in T : s = Listed(r)
    BY DEF ListedOf
  <2>2. s.weight = r.weight
    BY <1>1, <2>1 DEF Listed, Record
  <2> QED BY <1>1, <2>1, <2>2, ListedProperties
<1>5. \A r, s \in ListedOf(S) : r.id = s.id => r = s
  BY <1>4 DEF IsAccount
<1> QED
  BY <1>2, <1>3, <1>4, <1>5, ZonesAssumption DEF IsAccount

\* Before(order) as a relation: the order in which the records of an endpoint are
\* looked at is one, whatever the order of the zones.
LEMMA GroupInOrder ==
  ASSUME NEW G, IsAccount(G), \A r \in G : r.zone \in DomainFilter, NEW order \in Orders
  PROVE  \E s \in [1..Cardinality(G) -> G] :
           \A i, j \in DOMAIN s : i < j =>
             \/ order[s[i].zone] < order[s[j].zone]
             \/ s[i].zone = s[j].zone /\ s[i].id < s[j].id
<1> DEFINE R == {p \in G \X G : \/ order[p[1].zone] < order[p[2].zone]
                                \/ p[1].zone = p[2].zone /\ p[1].id < p[2].id}
<1>1. order \in [DomainFilter -> 1..Cardinality(DomainFilter)] /\ IsInjective(order)
  BY DEF Orders
<1>2. \A y \in DomainFilter : order[y] \in Int
  BY <1>1
<1>3. \A y, z \in DomainFilter : order[y] = order[z] => y = z
  BY <1>1 DEF IsInjective
<1>4. \A r \in G : r.id \in Nat /\ r.zone \in DomainFilter /\ order[r.zone] \in Int
  BY <1>2 DEF IsAccount, Record
<1>5. \A r, s \in G : <<r, s>> \in R <=> \/ order[r.zone] < order[s.zone]
                                         \/ r.zone = s.zone /\ r.id < s.id
  OBVIOUS
<1> HIDE DEF R
<1>6. ASSUME NEW x \in G PROVE <<x, x>> \notin R
  BY <1>4, <1>5
<1>7. ASSUME NEW x \in G, NEW y \in G, NEW z \in G, <<x, y>> \in R, <<y, z>> \in R
      PROVE  <<x, z>> \in R
  BY <1>4, <1>5, <1>7
<1>8. ASSUME NEW x \in G, NEW y \in G PROVE x = y \/ <<x, y>> \in R \/ <<y, x>> \in R
  <2>1. CASE x.zone = y.zone
    BY <1>4, <1>5, <2>1 DEF IsAccount
  <2>2. CASE x.zone # y.zone
    BY <1>3, <1>4, <1>5, <2>2
  <2> QED BY <2>1, <2>2
<1>9. InOrder(R, G)
  BY <1>6, <1>7, <1>8 DEF InOrder
<1>10. PICK s \in [1..Cardinality(G) -> G] : \A i, j \in DOMAIN s : i < j => <<s[i], s[j]>> \in R
  BY <1>9, SetInOrder DEF IsAccount
<1> QED BY <1>5, <1>10

\* An endpoint of the answer: all records of one type, name and line, each once, and
\* the first of them.
LEMMA EndpointFound ==
  ASSUME NEW S, IsAccount(S), NEW order \in Orders, NEW c \in Records(S, order)
  PROVE  \E first \in ListedOf(S) : \E s \in Seq(ListedOf(S)) :
           /\ Elements(s) = GroupOf(S, first) /\ IsInjective(s)
           /\ s # <<>> /\ first = s[1]
           /\ c = EndpointOf(GroupOf(S, first), order)
           /\ c = [name |-> DnsDomain(first.sub, Zones[first.zone]), type |-> first.type,
                   targets |-> [i \in DOMAIN s |-> s[i].value],
                   setId |-> first.line, props |-> PropertiesOf(first)]
<1>1. PICK r \in ListedOf(S) : c = EndpointOf(GroupOf(S, r), order)
  BY RecordsAre
<1> DEFINE G == GroupOf(S, r)
           n == Cardinality(G)
           Rank(s) == \A i, j \in DOMAIN s : i < j =>
                        \/ order[s[i].zone] < order[s[j].zone]
                        \/ s[i].zone = s[j].zone /\ s[i].id < s[j].id
           t == CHOOSE s \in [1..n -> G] : Rank(s)
<1>2. IsAccount(G) /\ r \in G /\ G \subseteq ListedOf(S) /\ \A s \in G : s.zone \in DomainFilter
  <2>1. G \subseteq ListedOf(S) /\ r \in G
    BY DEF GroupOf
  <2>2. IsFiniteSet(G)
    BY <2>1, ListingOf, FS_Subset DEF IsAccount
  <2> QED BY <2>1, <2>2, ListingOf DEF IsAccount
<1>3. t \in [1..n -> G] /\ Rank(t)
  <2>1. \E s \in [1..n -> G] : Rank(s)
    BY <1>2, GroupInOrder
  <2> QED BY <2>1
<1>4. n \in Nat /\ n # 0
  BY <1>2, FS_CardinalityType, FS_EmptySet DEF IsAccount
<1>5. c = [name |-> DnsDomain(t[1].sub, Zones[t[1].zone]), type |-> t[1].type,
           targets |-> [i \in DOMAIN t |-> t[i].value],
           setId |-> t[1].line, props |-> PropertiesOf(t[1])]
  BY <1>1 DEF EndpointOf
<1> HIDE DEF t
<1>6. ASSUME NEW i \in 1..n, NEW j \in 1..n, t[i] = t[j] PROVE i = j
  <2>1. t[i] \in G /\ order[t[i].zone] \in Int /\ t[i].id \in Nat
    <3>1. t[i] \in G
      BY <1>3
    <3>2. order \in [DomainFilter -> 1..Cardinality(DomainFilter)]
      BY DEF Orders
    <3> QED BY <1>2, <3>1, <3>2 DEF IsAccount, Record
  <2>2. DOMAIN t = 1..n
    BY <1>3
  <2>3. ~(i < j) /\ ~(j < i)
    BY <1>3, <1>6, <2>1, <2>2
  <2> QED BY <1>4, <2>3
<1>7. IsInjective(t)
  BY <1>3, <1>6 DEF IsInjective
<1>8. t \in Seq(G) /\ Elements(t) = G
  BY <1>2, <1>3, <1>7, NoneRepeated DEF IsAccount
<1>9. t[1] \in G /\ t # <<>>
  BY <1>3, <1>4
<1>10. Group(t[1]) = Group(r) /\ t[1] \in ListedOf(S)
  BY <1>9 DEF GroupOf
<1>11. GroupOf(S, t[1]) = G
  BY <1>10 DEF GroupOf
<1>12. t \in Seq(ListedOf(S))
  BY <1>2, <1>8, SeqDef
<1> QED BY <1>1, <1>5, <1>7, <1>8, <1>9, <1>10, <1>11, <1>12

\* Does a record say its line, and its status?
HasLine(r) == r.line # ""
HasStatus(r) == r.status # ""

LEMMA LineIs ==
  ASSUME NEW r
  PROVE  LineOf(r) = IF HasLine(r) THEN r.line ELSE DefaultLine
  BY DEF LineOf, HasLine

\* The properties read from a record are properties of an endpoint, and name its line.
LEMMA PropertiesType ==
  ASSUME NEW r \in Record, r.weight \in DOMAIN FormatUint
  PROVE  /\ PropertiesOf(r) \in [DOMAIN PropertiesOf(r) -> STRING]
         /\ DOMAIN PropertiesOf(r) \subseteq {"record-line", "weight", "status"}
         /\ "record-line" \in DOMAIN PropertiesOf(r) <=> HasLine(r)
         /\ "weight" \in DOMAIN PropertiesOf(r) <=> r.weight > 0
         /\ "status" \in DOMAIN PropertiesOf(r) <=> HasStatus(r)
         /\ HasLine(r) => PropertiesOf(r)["record-line"] = r.line
         /\ r.weight > 0 => PropertiesOf(r)["weight"] = FormatUint[r.weight]
         /\ HasStatus(r) => PropertiesOf(r)["status"] = r.status
<1>1. r.line \in STRING /\ r.status \in STRING /\ FormatUint[r.weight] \in STRING
  BY FormatAssumption DEF Record
<1> DEFINE given == {p \in {"record-line", "weight", "status"} :
                       \/ p = "record-line" /\ r.line # ""
                       \/ p = "weight" /\ r.weight > 0
                       \/ p = "status" /\ r.status # ""}
           ps == [p \in given |-> CASE p = "record-line" -> r.line
                                    [] p = "weight" -> FormatUint[r.weight]
                                    [] p = "status" -> r.status]
<1>2. PropertiesOf(r) = ps
  BY DEF PropertiesOf
<1>3. \A p \in given : ps[p] \in STRING
  BY <1>1
<1>4. ps \in [given -> STRING] /\ DOMAIN ps = given
  BY <1>3
<1>5. /\ r.line # "" => ps["record-line"] = r.line
      /\ r.weight > 0 => ps["weight"] = FormatUint[r.weight]
      /\ r.status # "" => ps["status"] = r.status
  OBVIOUS
<1>6. HasLine(r) <=> r.line # ""
  BY DEF HasLine
<1>7. HasStatus(r) <=> r.status # ""
  BY DEF HasStatus
<1>8. /\ DOMAIN ps \subseteq {"record-line", "weight", "status"}
      /\ "record-line" \in DOMAIN ps <=> HasLine(r)
      /\ "weight" \in DOMAIN ps <=> r.weight > 0
      /\ "status" \in DOMAIN ps <=> HasStatus(r)
  BY <1>4, <1>6, <1>7
<1> QED BY <1>2, <1>4, <1>5, <1>6, <1>7, <1>8

\* The answer is a finite set of endpoints as they may be posted.
LEMMA AnswerType ==
  ASSUME NEW S, IsAccount(S), NEW order \in Orders
  PROVE  /\ IsFiniteSet(Records(S, order))
         /\ \A c \in Records(S, order) : IsEndpoint(c)
<1>1. IsFiniteSet(Records(S, order))
  <2> DEFINE answer == [r \in ListedOf(S) |-> EndpointOf(GroupOf(S, r), order)]
  <2>0. IsFiniteSet(ListedOf(S))
    BY ListingOf DEF IsAccount
  <2>1. IsFiniteSet({answer[r] : r \in ListedOf(S)})
    <3> HIDE DEF answer
    <3> QED BY <2>0, FiniteImage
  <2>2. {answer[r] : r \in ListedOf(S)} = {EndpointOf(GroupOf(S, r), order) : r \in ListedOf(S)}
    OBVIOUS
  <2> QED BY <2>1, <2>2, RecordsAre
<1>2. ASSUME NEW c \in Records(S, order) PROVE IsEndpoint(c)
  <2>1. PICK first \in ListedOf(S) : \E s \in Seq(ListedOf(S)) :
           /\ s # <<>> /\ first = s[1]
           /\ c = [name |-> DnsDomain(first.sub, Zones[first.zone]), type |-> first.type,
                   targets |-> [i \in DOMAIN s |-> s[i].value],
                   setId |-> first.line, props |-> PropertiesOf(first)]
    BY <1>2, EndpointFound
  <2>2. PICK s \in Seq(ListedOf(S)) :
           c = [name |-> DnsDomain(first.sub, Zones[first.zone]), type |-> first.type,
                targets |-> [i \in DOMAIN s |-> s[i].value],
                setId |-> first.line, props |-> PropertiesOf(first)]
    BY <2>1
  <2>3. first \in Record /\ first.weight \in DOMAIN FormatUint /\ ListedOf(S) \subseteq Record
        /\ Zones[first.zone] \in Name
    BY ListingOf DEF IsAccount
  <2>4. DnsDomain(first.sub, Zones[first.zone]) \in Name
    BY <2>3 DEF DnsDomain, Name, Record
  <2>5. [i \in DOMAIN s |-> s[i].value] \in Seq(Value)
    <3>1. DOMAIN s = 1..Len(s) /\ Len(s) \in Nat /\ \A i \in DOMAIN s : s[i] \in ListedOf(S)
      BY LenProperties, ElementOfSeq
    <3>2. \A i \in 1..Len(s) : s[i].value \in Value
      BY <2>3, <3>1 DEF Record
    <3> QED BY <3>1, <3>2, SeqDef
  <2>6. /\ PropertiesOf(first) \in [DOMAIN PropertiesOf(first) -> STRING]
        /\ DOMAIN PropertiesOf(first) \in SUBSET Property
        /\ "record-line-id" \notin DOMAIN PropertiesOf(first)
    BY <2>3, PropertiesType DEF Property
  <2> QED BY <2>2, <2>3, <2>4, <2>5, <2>6 DEF IsEndpoint, Record
<1> QED BY <1>1, <1>2

\* What can be told from an endpoint of the answer of the record it starts with.
LEMMA FirstOf ==
  ASSUME NEW S, IsAccount(S), NEW order \in Orders, NEW c \in Records(S, order)
  PROVE  \E first \in ListedOf(S) :
           /\ c = EndpointOf(GroupOf(S, first), order)
           /\ c.name = Entry(first).name /\ c.type = Entry(first).type
           /\ c.setId = first.line /\ EndpointLine(c) = Entry(first).line
           /\ c.targets[1] = Entry(first).value
           /\ Group(first) = <<c.type, c.name, LineOf(first)>>
<1>1. PICK first \in ListedOf(S) : \E s \in Seq(ListedOf(S)) :
         /\ s # <<>> /\ first = s[1]
         /\ c = EndpointOf(GroupOf(S, first), order)
         /\ c = [name |-> DnsDomain(first.sub, Zones[first.zone]), type |-> first.type,
                 targets |-> [i \in DOMAIN s |-> s[i].value],
                 setId |-> first.line, props |-> PropertiesOf(first)]
  BY EndpointFound
<1>2. PICK s \in Seq(ListedOf(S)) :
         /\ s # <<>> /\ first = s[1]
         /\ c = [name |-> DnsDomain(first.sub, Zones[first.zone]), type |-> first.type,
                 targets |-> [i \in DOMAIN s |-> s[i].value],
                 setId |-> first.line, props |-> PropertiesOf(first)]
  BY <1>1
<1>3. first \in Record /\ first.weight \in DOMAIN FormatUint /\ Listed(first) = first
  BY ListingOf DEF IsAccount
<1>4. 1 \in DOMAIN s
  BY <1>2, LenProperties, EmptySeq
<1>5. c.targets[1] = Entry(first).value
  BY <1>2, <1>3, <1>4 DEF Entry
<1>6. EndpointLine(c) = LineOf(first)
  BY <1>2, <1>3, PropertiesType, LineIs DEF EndpointLine, HasProp
<1>7. c.name = Entry(first).name /\ c.type = Entry(first).type /\ LineOf(first) = Entry(first).line
      /\ c.setId = first.line
  BY <1>2 DEF Entry
<1>8. Group(first) = <<c.type, c.name, LineOf(first)>>
  BY <1>2 DEF Group
<1> QED BY <1>1, <1>5, <1>6, <1>7, <1>8

\* No two endpoints of an answer are the same to ExternalDNS.
LEMMA AnswerUnique ==
  ASSUME NEW S, IsAccount(S), NEW order \in Orders,
         NEW c \in Records(S, order), NEW d \in Records(S, order), Same(c, d)
  PROVE  c = d
<1>1. PICK r \in ListedOf(S) : /\ c = EndpointOf(GroupOf(S, r), order) /\ c.setId = r.line
                               /\ Group(r) = <<c.type, c.name, LineOf(r)>>
  BY FirstOf
<1>2. PICK s \in ListedOf(S) : /\ d = EndpointOf(GroupOf(S, s), order) /\ d.setId = s.line
                               /\ Group(s) = <<d.type, d.name, LineOf(s)>>
  BY FirstOf
<1>3. Group(r) = Group(s)
  BY <1>1, <1>2 DEF Same, LineOf
<1> QED BY <1>1, <1>2, <1>3 DEF GroupOf

\* The place of an endpoint's mark.
MarkPlace(ep) == <<MarkName(ep.name, ep.type), EndpointLine(ep)>>

\* One that ExternalDNS takes for its own has its mark in its place.
LEMMA OwnedIsMarked ==
  ASSUME NEW S, IsAccount(S), NEW order \in Orders,
         NEW c \in Records(S, order), Owned(c, Records(S, order))
  PROVE  MarkPlace(c) \in Marked(S)
<1>1. PICK m \in Records(S, order) : /\ IsMark(m) /\ m.name = MarkName(c.name, c.type)
                                     /\ m.setId = c.setId /\ m.targets[1].text = OurMark
  BY DEF Owned
<1>2. PICK r \in ListedOf(S) : c.setId = r.line /\ EndpointLine(c) = Entry(r).line
  BY FirstOf
<1>3. PICK s \in ListedOf(S) : /\ m.name = Entry(s).name /\ m.type = Entry(s).type
                               /\ m.setId = s.line /\ m.targets[1] = Entry(s).value
  BY FirstOf
<1>4. Entry(r).line = Entry(s).line
  BY <1>1, <1>2, <1>3 DEF Entry, LineOf
<1>5. Entry(s) \in Contents(S)
  BY ListingOf DEF Contents
<1>6. IsOurs(Entry(s))
  BY <1>1, <1>3 DEF IsOurs, IsMark
<1>7. Entry(s) \in Marks(S)
  BY <1>5, <1>6 DEF Marks
<1> QED BY <1>1, <1>2, <1>3, <1>4, <1>7 DEF Marked, MarkPlace
-----------------------------------------------------------------------------
(* What ExternalDNS posts.                                                   *)

\* The name of a mark is a name.
LEMMA MarkNameType ==
  ASSUME NEW name \in Name, NEW type \in STRING
  PROVE  MarkName(name, type) \in Name
BY PrefixType DEF MarkName

\* The mark of an endpoint is an endpoint, of the same line.
LEMMA MarkIsEndpoint ==
  ASSUME NEW ep, IsEndpoint(ep)
  PROVE  /\ IsEndpoint(MarkFor(ep)) /\ MarkFor(ep).type = "TXT"
         /\ EndpointLine(MarkFor(ep)) = EndpointLine(ep)
         /\ CreatedLine(MarkFor(ep)) = CreatedLine(ep)
         /\ DOMAIN MarkFor(ep).targets = {1}
         /\ MarkFor(ep).targets[1] = [text |-> OurMark, quoted |-> TRUE]
<1> DEFINE v == [text |-> OurMark, quoted |-> TRUE]
<1>1. v \in Value
  BY MarkAssumption DEF Value
<1>2. <<v>> \in Seq(Value) /\ DOMAIN <<v>> = {1} /\ <<v>>[1] = v
  BY <1>1
<1> HIDE DEF v
<1>3. /\ MarkFor(ep).type = "TXT" /\ MarkFor(ep).targets = <<v>>
      /\ MarkFor(ep).setId = ep.setId /\ MarkFor(ep).props = ep.props
      /\ MarkFor(ep) \in [name : Name, type : STRING, targets : Seq(Value), setId : STRING,
                          props : {ep.props}]
  <2>1. ep \in [name : Name, type : STRING, targets : Seq(Value), setId : STRING,
                props : {ep.props}]
    BY DEF IsEndpoint
  <2> DEFINE n == MarkName(ep.name, ep.type)
  <2>2. n \in Name
    BY <2>1, MarkNameType
  <2> HIDE DEF n
  <2>3. MarkFor(ep) = [name |-> n, type |-> "TXT", targets |-> <<v>>, setId |-> ep.setId,
                       props |-> ep.props]
    <3> DEFINE typed == [ep EXCEPT !.name = n, !.type = "TXT"]
    <3>1. [ep EXCEPT !.name = n] = [name |-> n, type |-> ep.type, targets |-> ep.targets,
                                    setId |-> ep.setId, props |-> ep.props]
      BY <2>1
    <3>2. typed = [name |-> n, type |-> "TXT", targets |-> ep.targets,
                   setId |-> ep.setId, props |-> ep.props]
      <4> DEFINE named == [ep EXCEPT !.name = n]
      <4>1. typed = [named EXCEPT !.type = "TXT"]
        OBVIOUS
      <4>2. named = [name |-> n, type |-> ep.type, targets |-> ep.targets,
                     setId |-> ep.setId, props |-> ep.props]
        BY <3>1
      <4> HIDE DEF named
      <4> QED BY <4>1, <4>2
    <3> HIDE DEF typed
    <3>3. MarkFor(ep) = [typed EXCEPT !.targets = <<v>>]
      BY DEF MarkFor, v, typed, n
    <3> QED BY <3>2, <3>3
  <2> QED BY <1>2, <2>1, <2>2, <2>3, MarkAssumption
<1>4. IsEndpoint(MarkFor(ep))
  BY <1>3 DEF IsEndpoint
<1>5. /\ EndpointLine(MarkFor(ep)) = EndpointLine(ep)
      /\ CreatedLine(MarkFor(ep)) = CreatedLine(ep)
  BY <1>3 DEF EndpointLine, CreatedLine, HasProp
<1> QED BY <1>2, <1>3, <1>4, <1>5 DEF v

\* A list of endpoints with their marks.
LEMMA WithMarksAre ==
  ASSUME NEW eps, IsFiniteSet(eps), \A ep \in eps : IsEndpoint(ep)
  PROVE  /\ WithMarks(eps) \in Seq(Endpoint)
         /\ Endpoints(WithMarks(eps)) = eps \cup {MarkFor(ep) : ep \in eps}
<1> DEFINE mark == [ep \in eps |-> MarkFor(ep)]
           marks == {MarkFor(ep) : ep \in eps}
<1>1. marks = {mark[ep] : ep \in eps}
  OBVIOUS
<1>2. IsFiniteSet(marks)
  <2> HIDE DEF mark
  <2> QED BY <1>1, FiniteImage
<1>3. eps \subseteq Endpoint /\ marks \subseteq Endpoint
  BY EndpointType, MarkIsEndpoint
<1> HIDE DEF marks
<1>4. /\ SetToSeq(eps) \in Seq(eps) /\ Elements(SetToSeq(eps)) = eps
      /\ SetToSeq(marks) \in Seq(marks) /\ Elements(SetToSeq(marks)) = marks
  BY <1>2, ListOfSet
<1>5. SetToSeq(eps) \in Seq(Endpoint) /\ SetToSeq(marks) \in Seq(Endpoint)
  BY <1>3, <1>4, SeqDef
<1>6. WithMarks(eps) = SetToSeq(eps) \o SetToSeq(marks)
  BY DEF WithMarks, marks
<1>7. /\ WithMarks(eps) \in Seq(Endpoint)
      /\ Elements(WithMarks(eps)) = eps \cup marks
  BY <1>4, <1>5, <1>6, ElementsOfConcat
<1> QED BY <1>7 DEF Elements, Endpoints, marks

\* The difference is a request, which removes what ExternalDNS owns and adds what is
\* wanted, each with its mark.
LEMMA DifferenceType ==
  ASSUME NEW current, IsFiniteSet(current), \A c \in current : IsEndpoint(c),
         NEW wanted, IsFiniteSet(wanted), \A d \in wanted : IsEndpoint(d)
  PROVE  /\ Difference(current, wanted) \in Change
         /\ \A ep \in ToRemove(Difference(current, wanted)) :
              \E c \in current : /\ ~IsMark(c) /\ Owned(c, current)
                                 /\ ep = c \/ ep = MarkFor(c)
         /\ \A ep \in ToAdd(Difference(current, wanted)) :
              \E d \in wanted : ep = d \/ ep = MarkFor(d)
<1> DEFINE plain == {c \in current : ~IsMark(c)}
           owned == {c \in plain : Owned(c, current)}
           new == {d \in wanted : \A c \in plain : ~Same(c, d)}
           before == {c \in owned : \E d \in wanted : Same(c, d) /\ Differs(c, d)}
           after == {d \in wanted : \E c \in owned : Same(c, d) /\ Differs(c, d)}
           gone == {c \in owned : \A d \in wanted : ~Same(c, d)}
<1>1. Difference(current, wanted) = [create |-> WithMarks(new), updateOld |-> WithMarks(before),
                                     updateNew |-> WithMarks(after), delete |-> WithMarks(gone)]
  BY DEF Difference
<1>2. /\ IsFiniteSet(new) /\ IsFiniteSet(before) /\ IsFiniteSet(after) /\ IsFiniteSet(gone)
      /\ \A ep \in new \cup before \cup after \cup gone : IsEndpoint(ep)
  <2>1. new \subseteq wanted /\ after \subseteq wanted /\ before \subseteq current /\ gone \subseteq current
    OBVIOUS
  <2> HIDE DEF new, before, after, gone
  <2> QED BY <2>1, FS_Subset
<1>3. /\ \A c \in before \cup gone : c \in current /\ ~IsMark(c) /\ Owned(c, current)
      /\ new \cup after \subseteq wanted
  OBVIOUS
<1> HIDE DEF new, before, after, gone
<1>4. /\ \A eps \in {new, before, after, gone} : WithMarks(eps) \in Seq(Endpoint)
      /\ \A eps \in {new, before, after, gone} :
           Endpoints(WithMarks(eps)) = eps \cup {MarkFor(ep) : ep \in eps}
  BY <1>2, WithMarksAre
<1>5. Difference(current, wanted) \in Change
  BY <1>1, <1>4 DEF Change
<1>6. ToRemove(Difference(current, wanted)) =
        Endpoints(WithMarks(gone)) \cup Endpoints(WithMarks(before))
  BY <1>1 DEF ToRemove
<1>7. ToAdd(Difference(current, wanted)) =
        Endpoints(WithMarks(new)) \cup Endpoints(WithMarks(after))
  BY <1>1 DEF ToAdd
<1> QED BY <1>3, <1>4, <1>5, <1>6, <1>7
-----------------------------------------------------------------------------
(* The invariant of the loop.                                                *)

\* A name and a line: where the records of an endpoint come to lie, and where a
\* record lies.
Claim(ep) == <<ep.name, LineOf([line |-> CreatedLine(ep)])>>
Spot(r) == <<Entry(r).name, Entry(r).line>>

\* What ExternalDNS may ask to remove: nothing but marks of its own, or what lies
\* where such a mark lies, or lay.
Ours(ep) == ep.type = "TXT" /\ \A k \in DOMAIN ep.targets : ep.targets[k].text = OurMark
Charged(ep) == Ours(ep) \/ MarkPlace(ep) \in claimed

\* And what to add: no TXT record, which might be a mark, elsewhere.
Claimed(ep) == ep.type = "TXT" => Claim(ep) \in claimed

\* Records can be listed, and those to be created as well.
AccountInv ==
  /\ IsFiniteSet(live)
  /\ \A r \in live : r.weight \in DOMAIN FormatUint
  /\ \A h \in Handlers : \A j \in todo[h] : j.op = "create" => j.rec.weight \in DOMAIN FormatUint

\* What has been read is fit to be posted, and what in it looks like ExternalDNS's
\* own is so.
SeenInv ==
  /\ IsFiniteSet(seen)
  /\ \A c \in seen : IsEndpoint(c) /\ (Owned(c, seen) => MarkPlace(c) \in claimed)
  /\ \A c, d \in seen : Same(c, d) => c = d

\* All marks are in places that are claimed, nothing else is asked for, and no TXT
\* record is going to be created elsewhere.
ClaimInv ==
  /\ Marked(live) \subseteq claimed
  /\ Claims(Wanted) \subseteq claimed
  /\ \A h \in Handlers : Active(h) =>
       /\ \A ep \in ToRemove(req[h]) : Charged(ep)
       /\ \A ep \in ToAdd(req[h]) : Claimed(ep)
  /\ \A h \in Handlers : \A j \in todo[h] :
       j.op = "create" /\ j.rec.type = "TXT" => Spot(j.rec) \in claimed

LoopInv ==
  /\ wish \in Wishes
  /\ loop \in {"idle", "seen", "waiting"}
  /\ serving \in Handlers
  /\ loop # "seen" => seen = {}
  /\ spent \in [Budgets -> Nat]

SyncInv == SInv /\ SnapshotsMatch /\ AccountInv /\ SeenInv /\ ClaimInv /\ LoopInv

\* What is wanted is a finite set of endpoints.
LEMMA AdjustType ==
  ASSUME NEW ep, IsEndpoint(ep)
  PROVE  IsEndpoint(Adjust(ep))
<1> DEFINE default == [p \in {"record-line", "status"} |->
                         IF p = "status" THEN "ENABLE" ELSE DefaultLine]
           props == Defaulted(ep.props, default)
           set == IF ep.setId = "" THEN props["record-line"] ELSE ep.setId
<1>1. PICK P \in SUBSET Property : ep.props \in [P -> STRING]
  BY DEF IsEndpoint
<1>2. default \in [{"record-line", "status"} -> STRING]
  BY ValuesAssumption
<1> HIDE DEF default
<1>3. /\ props \in [P \cup {"record-line", "status"} -> STRING]
      /\ \A p \in P : props[p] = ep.props[p]
  BY <1>1, <1>2 DEF Defaulted
<1> HIDE DEF props
<1>4. /\ ep \in [name : Name, type : STRING, targets : Seq(Value), setId : STRING, props : {ep.props}]
      /\ "record-line-id" \in DOMAIN ep.props => ep.props["record-line-id"] \in DOMAIN Line
  BY DEF IsEndpoint
<1>5. set \in STRING
  BY <1>3, <1>4
<1> HIDE DEF set
<1>6. Adjust(ep) = [ep EXCEPT !.props = props, !.setId = set]
  BY DEF Adjust, default, props, set
<1>7. Adjust(ep) = [name |-> ep.name, type |-> ep.type, targets |-> ep.targets,
                    setId |-> set, props |-> props]
  BY <1>4, <1>6
<1>8. P \cup {"record-line", "status"} \in SUBSET Property
  BY DEF Property
<1>9. "record-line-id" \in DOMAIN props => props["record-line-id"] \in DOMAIN Line
  BY <1>1, <1>3, <1>4
<1>10. Adjust(ep).props = props
  BY <1>7
<1>11. Adjust(ep) \in [name : Name, type : STRING, targets : Seq(Value), setId : STRING,
                       props : {props}]
  BY <1>4, <1>5, <1>7
<1>12. \E Q \in SUBSET Property : Adjust(ep).props \in [Q -> STRING]
  BY <1>3, <1>8, <1>10
<1> QED BY <1>9, <1>10, <1>11, <1>12 DEF IsEndpoint

LEMMA WantedType ==
  ASSUME wish \in Wishes
  PROVE  IsFiniteSet(Wanted) /\ \A d \in Wanted : IsEndpoint(d)
<1> DEFINE adjusted == [ep \in wish |-> Adjust(ep)]
<1>1. IsFiniteSet(wish) /\ \A ep \in wish : IsEndpoint(ep)
  BY WishesAssumption
<1>2. IsFiniteSet({adjusted[ep] : ep \in wish})
  <2> HIDE DEF adjusted
  <2> QED BY <1>1, FiniteImage
<1>3. Wanted = {adjusted[ep] : ep \in wish}
  BY DEF Wanted
<1> QED BY <1>1, <1>2, <1>3, AdjustType DEF Wanted

\* The line of an entry is that of its record, whatever else differs.
LEMMA LineSame ==
  ASSUME NEW r, NEW s, r.line = s.line
  PROVE  LineOf(r) = LineOf(s)
  BY DEF LineOf

\* What a create call makes lies where its endpoint asks for it, and can be listed.
LEMMA CreatesAre ==
  ASSUME NEW changes \in Change, NEW j \in CreatesIn(changes)
  PROVE  /\ j.rec.weight \in DOMAIN FormatUint
         /\ \E ep \in ToAdd(changes) : Spot(j.rec) = Claim(ep) /\ j.rec.type = ep.type
<1> DEFINE eps == Creations(changes)
<1>1. PICK i \in DOMAIN eps : \E z \in FindZone(Managed, eps[i].name) :
        \E k \in DOMAIN eps[i].targets : j = Call("create", i, k, NewRecord(eps[i], z, k))
  BY DEF CreatesIn
<1>2. PICK z \in FindZone(Managed, eps[i].name) :
        \E k \in DOMAIN eps[i].targets : j = Call("create", i, k, NewRecord(eps[i], z, k))
  BY <1>1
<1>3. PICK k \in DOMAIN eps[i].targets : j = Call("create", i, k, NewRecord(eps[i], z, k))
  BY <1>2
<1>4. eps[i] \in Endpoint /\ eps[i] \in ToAdd(changes) /\ IsEndpoint(eps[i])
  BY RequestProperties, EndpointType
<1> DEFINE ep == eps[i]
           new == NewRecord(ep, z, k)
<1>5. j.rec = new
  BY <1>3 DEF Call
<1> HIDE DEF eps
<1>6. new.weight \in DOMAIN FormatUint
  BY FormatAssumption DEF NewRecord
<1>7. /\ new.zone = z /\ new.sub = SubDomain(Zones[z], ep.name)
      /\ new.line = CreatedLine(ep) /\ new.type = ep.type
  BY DEF NewRecord
<1> HIDE DEF new
<1>8. Entry(new).name = DnsDomain(SubDomain(Zones[z], ep.name), Zones[z])
      /\ Entry(new).line = LineOf(new)
  BY <1>7 DEF Entry
<1>9. Entry(new).name = ep.name
  <2>1. Zones[z] \in Name /\ ep.name \in Name /\ Covers(Zones[z], ep.name)
    BY <1>4, ZoneFound DEF IsEndpoint
  <2> QED BY <1>8, <2>1, SubDomainJoins
<1>10. LineOf(new) = LineOf([line |-> CreatedLine(ep)])
  BY <1>7, LineSame
<1> QED BY <1>4, <1>5, <1>6, <1>7, <1>8, <1>9, <1>10 DEF Spot, Claim

\* The marked places are the spots of the records with the mark.
LEMMA MarkedAre ==
  ASSUME NEW S
  PROVE  \A p : p \in Marked(S) <=> \E r \in S : IsOurs(Entry(r)) /\ p = Spot(r)
  BY DEF Marked, Marks, Contents, Spot

\* An entry does not tell the id of its record.
LEMMA EntryWithoutId ==
  ASSUME NEW r \in Record, NEW n \in Nat
  PROVE  /\ [r EXCEPT !.id = n] \in Record
         /\ [r EXCEPT !.id = n].weight = r.weight
         /\ Entry([r EXCEPT !.id = n]) = Entry(r)
  BY DEF Record, Entry, Listed, LineOf

\* What the step of a handler may do to the account, to requests and to calls.
LEMMA WorkEffects ==
  ASSUME Sound, spent \in [Budgets -> Nat], NEW h \in Handlers, HandlerStep(h)
  PROVE  /\ \A r \in live' \ live : \E j \in todo[h] :
              j.op = "create" /\ r = [j.rec EXCEPT !.id = nextId]
         /\ IsFiniteSet(live) => IsFiniteSet(live')
         /\ UNCHANGED req
         /\ \A g \in Handlers : Active(g)' => Active(g)
         /\ \A g \in Handlers : \A j \in todo'[g] : j.op = "create" =>
              j \in todo[g] \/ (Active(g) /\ j \in CreatesIn(req[g]))
         /\ spent' \in [Budgets -> Nat]
<1>0. /\ pc \in [Handlers -> PcValues] /\ todo \in [Handlers -> SUBSET Job]
      /\ snap \in [Handlers -> SUBSET Record]
      /\ \A g \in Handlers : /\ Active(g) => req[g] \in Change
                             /\ pc[g] = "call" => job[g] \in todo[g]
  BY DEF Sound
<1>1. ASSUME pc[h] = "call", Execute(job[h])
      PROVE  /\ \A r \in live' \ live : \E j \in todo[h] :
                   j.op = "create" /\ r = [j.rec EXCEPT !.id = nextId]
             /\ IsFiniteSet(live) => IsFiniteSet(live')
  <2>1. job[h] \in todo[h] /\ job[h] \in Job
    BY <1>0, <1>1
  <2>2. CASE job[h].op = "delete"
    <3>1. live' \subseteq live
      BY <1>1, <2>2 DEF Execute
    <3> QED BY <3>1, FS_Subset
  <2>3. CASE job[h].op # "delete"
    <3>1. live' = live \cup {[job[h].rec EXCEPT !.id = nextId]} /\ job[h].op = "create"
      BY <1>1, <2>1, <2>3 DEF Execute, Job
    <3> QED BY <2>1, <3>1, FS_AddElement
  <2> QED BY <2>2, <2>3
<1>2. /\ \A r \in live' \ live : \E j \in todo[h] :
           j.op = "create" /\ r = [j.rec EXCEPT !.id = nextId]
      /\ IsFiniteSet(live) => IsFiniteSet(live')
  BY <1>1
  DEF HandlerStep, ListDomains, ListRecords, Plan, StartCall, Succeed, Answered, Refused,
      AnswerLost, NotExecuted, Throttled, Serve
<1>3. UNCHANGED req
  BY DEF HandlerStep, ListDomains, ListRecords, Plan, StartCall, Succeed, Answered, Refused,
         AnswerLost, NotExecuted, Throttled, Again, Done, End
<1>4. \A g \in Handlers : Active(g)' => Active(g)
  BY <1>0
  DEF HandlerStep, ListDomains, ListRecords, Plan, StartCall, Succeed, Answered, Refused,
      AnswerLost, NotExecuted, Throttled, Calling, Again, Done, End, Active
<1>5. spent' \in [Budgets -> Nat]
  BY SpendType, BudgetNames
  DEF HandlerStep, ListDomains, ListRecords, Plan, StartCall, Succeed, Answered, Refused,
      AnswerLost, NotExecuted, Throttled, Fault
<1>6. ASSUME ~Plan(h) PROVE \A g \in Handlers : todo'[g] \subseteq todo[g]
  BY <1>0, <1>6
  DEF HandlerStep, ListDomains, ListRecords, StartCall, Succeed, Answered, Refused,
      AnswerLost, NotExecuted, Throttled, Again, Done, End
<1>7. ASSUME Plan(h)
      PROVE  \A g \in Handlers : \A j \in todo'[g] : j.op = "create" =>
               j \in todo[g] \/ (Active(g) /\ j \in CreatesIn(req[g]))
  <2>1. Active(h) /\ req[h] \in Change
    BY <1>0, <1>7 DEF Plan, Active
  <2>2. \A j \in DeletesIn(req[h], snap[h]) : j.op = "delete"
    BY <1>0, <2>1, DeletesType
  <2> QED BY <1>0, <1>7, <2>1, <2>2 DEF Plan
<1> QED BY <1>2, <1>3, <1>4, <1>5, <1>6, <1>7

\* And what others may do.
LEMMA OthersEffects ==
  ASSUME Sound, spent \in [Budgets -> Nat], Crash \/ ConsoleAdd \/ ConsoleRemove
  PROVE  /\ \A r \in live' \ live : \E s \in ConsoleRecords : r = [s EXCEPT !.id = nextId]
         /\ IsFiniteSet(live) => IsFiniteSet(live')
         /\ UNCHANGED req
         /\ \A g \in Handlers : Active(g)' => Active(g)
         /\ \A g \in Handlers : todo'[g] \subseteq todo[g]
         /\ spent' \in [Budgets -> Nat]
         /\ ConsoleRemove => spent'["console"] # spent["console"]
         /\ ~ConsoleEdit
<1>0. /\ pc \in [Handlers -> PcValues] /\ todo \in [Handlers -> SUBSET Job]
      /\ \A what \in Budgets : spent[what] \in Nat
  BY DEF Sound
<1>1. ASSUME Crash PROVE UNCHANGED <<live, req>> /\ \A g \in Handlers : todo'[g] = {}
  BY <1>1 DEF Crash
<1>2. ASSUME ConsoleAdd
      PROVE  /\ UNCHANGED handlerVars
             /\ \E s \in ConsoleRecords : live' = live \cup {[s EXCEPT !.id = nextId]}
  BY <1>2 DEF ConsoleAdd, ConsoleStep
<1>3. ASSUME ConsoleRemove PROVE UNCHANGED handlerVars /\ live' \subseteq live
  BY <1>3 DEF ConsoleRemove, ConsoleStep
<1>4. /\ \A r \in live' \ live : \E s \in ConsoleRecords : r = [s EXCEPT !.id = nextId]
      /\ IsFiniteSet(live) => IsFiniteSet(live')
  BY <1>1, <1>2, <1>3, FS_AddElement, FS_Subset
<1>5. /\ UNCHANGED req
      /\ \A g \in Handlers : todo'[g] \subseteq todo[g]
  BY <1>1, <1>2, <1>3 DEF handlerVars
<1>6. \A g \in Handlers : Active(g)' => Active(g)
  <2>1. CASE Crash
    BY <1>0, <2>1 DEF Crash, Active
  <2>2. CASE ~Crash
    BY <1>2, <1>3, <2>2 DEF handlerVars, Active
  <2> QED BY <2>1, <2>2
<1>7. spent' \in [Budgets -> Nat]
  BY SpendType, BudgetNames DEF Crash, ConsoleAdd, ConsoleRemove
<1>8. ConsoleRemove => spent'["console"] # spent["console"]
  BY <1>0, BudgetNames DEF ConsoleRemove, Spend
<1>9. ASSUME NEW what \in Budgets \ {"edits"}, NEW max, Spend(what, max), ConsoleEdit
      PROVE  FALSE
  BY <1>0, <1>9, BudgetNames DEF ConsoleEdit, Spend
<1>10. ~ConsoleEdit
  BY <1>9, BudgetNames DEF Crash, ConsoleAdd, ConsoleRemove
<1> QED BY <1>4, <1>5, <1>6, <1>7, <1>8, <1>10

\* The first state is such a state.
LEMMA InitSyncInv == SyncInit => SyncInv
<1> SUFFICES ASSUME SyncInit PROVE SyncInv
  OBVIOUS
<1>0. Init /\ live \in InitialLive /\ \A h \in Handlers : snap[h] = {} /\ todo[h] = {} /\ ~Active(h)
  BY DEF SyncInit, Init, Active
<1>1. SInv /\ SnapshotsMatch
  BY <1>0, InitOInv DEF OInv, SnapshotsMatch
<1>2. AccountInv
  BY <1>0, RecordsAssumption, FormatAssumption DEF AccountInv
<1>3. SeenInv
  BY FS_EmptySet DEF SeenInv, SyncInit
<1>4. ClaimInv
  BY <1>0 DEF ClaimInv, SyncInit
<1>5. LoopInv
  BY <1>0 DEF LoopInv, SyncInit, Init
<1> QED BY <1>1, <1>2, <1>3, <1>4, <1>5 DEF SyncInv

\* The account can be listed at any time.
LEMMA LiveIsAccount ==
  ASSUME SInv, AccountInv
  PROVE  IsAccount(live)
  BY DEF SInv, Sound, AccountInv, IsAccount

\* A new record has the entry and the weight of what it is made from.
LEMMA NewRecordsAre ==
  ASSUME SInv, NEW r, NEW s \in Record, r = [s EXCEPT !.id = nextId]
  PROVE  r.weight = s.weight /\ Entry(r) = Entry(s) /\ Spot(r) = Spot(s)
<1>1. nextId \in Nat
  BY DEF SInv, Sound
<1> QED BY <1>1, EntryWithoutId DEF Spot

\* What GET /records answers.
LEMMA ObserveSyncInv ==
  ASSUME SyncInv, Observe
  PROVE  AccountInv' /\ SeenInv' /\ ClaimInv' /\ LoopInv'
<1>1. PICK order \in Orders : seen' = Records(live, order)
  BY DEF Observe
<1>2. IsAccount(live)
  BY LiveIsAccount DEF SyncInv
<1>3. UNCHANGED <<live, nextId, pc, req, todo, spent, wish, serving, claimed>> /\ loop' = "seen"
  BY DEF Observe, vars, handlerVars
<1>4. IsFiniteSet(seen') /\ \A c \in seen' : IsEndpoint(c)
  BY <1>1, <1>2, AnswerType
<1>5. \A c \in seen' : Owned(c, seen') => MarkPlace(c) \in claimed
  BY <1>1, <1>2, OwnedIsMarked DEF SyncInv, ClaimInv
<1>6. \A c, d \in seen' : Same(c, d) => c = d
  BY <1>1, <1>2, AnswerUnique
<1>7. SeenInv'
  BY <1>3, <1>4, <1>5, <1>6 DEF SeenInv
<1>8. AccountInv'
  BY <1>3 DEF SyncInv, AccountInv
<1>9. ClaimInv'
  BY <1>3 DEF SyncInv, ClaimInv, Charged, Claimed, Active, Wanted
<1>10. LoopInv'
  BY <1>3 DEF SyncInv, LoopInv
<1> QED BY <1>7, <1>8, <1>9, <1>10

\* What is posted.
LEMMA PostSyncInv ==
  ASSUME SyncInv, Post
  PROVE  /\ Move
         /\ AccountInv' /\ SeenInv' /\ ClaimInv' /\ LoopInv'
<1> DEFINE changes == Difference(seen, Wanted)
<1>1. PICK h \in Handlers : Take(h, changes) /\ serving' = h
  BY DEF Post, NextHandler
<1>2. UNCHANGED <<spent, wish, claimed>> /\ loop' = "waiting" /\ seen' = {}
  BY DEF Post
<1>3. IsFiniteSet(Wanted) /\ \A d \in Wanted : IsEndpoint(d)
  BY WantedType DEF SyncInv, LoopInv
<1>4. IsFiniteSet(seen) /\ \A c \in seen : IsEndpoint(c) /\ (Owned(c, seen) => MarkPlace(c) \in claimed)
  BY DEF SyncInv, SeenInv
<1>5. changes \in Change
  BY <1>3, <1>4, DifferenceType
<1>6. \A ep \in ToRemove(changes) : Charged(ep)
  <2>1. ASSUME NEW ep \in ToRemove(changes) PROVE Charged(ep)
    <3>1. PICK c \in seen : Owned(c, seen) /\ (ep = c \/ ep = MarkFor(c))
      BY <1>3, <1>4, DifferenceType
    <3>2. Ours(MarkFor(c))
      BY <1>4, MarkIsEndpoint DEF Ours
    <3> QED BY <1>4, <3>1, <3>2 DEF Charged
  <2> QED BY <2>1
<1>7. \A ep \in ToAdd(changes) : Claimed(ep)
  <2>1. ASSUME NEW ep \in ToAdd(changes), ep.type = "TXT" PROVE Claim(ep) \in claimed
    <3>1. PICK d \in Wanted : ep = d \/ ep = MarkFor(d)
      BY <1>3, <1>4, DifferenceType
    <3>2. ep \in {MarkFor(c) : c \in Wanted} \cup {c \in Wanted : c.type = "TXT"}
      BY <2>1, <3>1
    <3>3. Claim(ep) \in Claims(Wanted)
      BY <3>2 DEF Claims, Claim
    <3> QED BY <3>3 DEF SyncInv, ClaimInv
  <2> QED BY <2>1 DEF Claimed
<1> HIDE DEF changes
<1>8. Move
  BY <1>1, <1>5 DEF Move
<1>9. UNCHANGED <<live, todo>> /\ req' = [req EXCEPT ![h] = changes]
      /\ pc' \in [Handlers -> PcValues] /\ req \in [Handlers -> Change \cup {None}]
      /\ \A g \in Handlers \ {h} : pc'[g] = pc[g]
  BY <1>1 DEF Take, SyncInv, SInv, Sound, PcValues
<1>10. AccountInv'
  BY <1>9 DEF SyncInv, AccountInv
<1>11. SeenInv'
  BY <1>2, FS_EmptySet DEF SeenInv
<1>12. ASSUME NEW g \in Handlers, Active(g)'
       PROVE  /\ \A ep \in ToRemove(req'[g]) : Charged(ep)
              /\ \A ep \in ToAdd(req'[g]) : Claimed(ep)
  <2>1. CASE g = h
    BY <1>6, <1>7, <1>9, <2>1
  <2>2. CASE g # h
    BY <1>9, <1>12, <2>2 DEF SyncInv, ClaimInv, Active
  <2> QED BY <2>1, <2>2
<1>13. ClaimInv'
  BY <1>2, <1>9, <1>12 DEF SyncInv, ClaimInv, Charged, Claimed, Wanted
<1>14. LoopInv'
  BY <1>1, <1>2 DEF SyncInv, LoopInv
<1> QED BY <1>8, <1>10, <1>11, <1>13, <1>14

\* What the step of a handler does.
LEMMA WorkSyncInv ==
  ASSUME SyncInv, NEW h \in Handlers, Work(h)
  PROVE  AccountInv' /\ SeenInv' /\ ClaimInv' /\ LoopInv'
<1>0. /\ SInv /\ Sound /\ spent \in [Budgets -> Nat] /\ HandlerStep(h)
      /\ UNCHANGED <<wish, seen, loop, serving, claimed>>
  BY DEF SyncInv, SInv, LoopInv, Work, syncVars
<1>1. /\ \A r \in live' \ live : \E j \in todo[h] :
           j.op = "create" /\ r = [j.rec EXCEPT !.id = nextId]
      /\ IsFiniteSet(live')
      /\ UNCHANGED req
      /\ \A g \in Handlers : Active(g)' => Active(g)
      /\ \A g \in Handlers : \A j \in todo'[g] : j.op = "create" =>
           j \in todo[g] \/ (Active(g) /\ j \in CreatesIn(req[g]))
      /\ spent' \in [Budgets -> Nat]
  BY <1>0, WorkEffects DEF SyncInv, AccountInv
<1>2. ASSUME NEW g \in Handlers, NEW j \in todo'[g], j.op = "create"
      PROVE  /\ j.rec.weight \in DOMAIN FormatUint
             /\ j.rec.type = "TXT" => Spot(j.rec) \in claimed
  <2>1. CASE j \in todo[g]
    BY <1>2, <2>1 DEF SyncInv, AccountInv, ClaimInv
  <2>2. CASE Active(g) /\ j \in CreatesIn(req[g])
    <3>1. req[g] \in Change
      BY <1>0, <2>2 DEF Sound
    <3> QED BY <2>2, <3>1, CreatesAre DEF SyncInv, ClaimInv, Claimed
  <2> QED BY <1>1, <1>2, <2>1, <2>2
<1>3. ASSUME NEW r \in live' \ live
      PROVE  r.weight \in DOMAIN FormatUint /\ (IsOurs(Entry(r)) => Spot(r) \in claimed)
  <2>1. PICK j \in todo[h] : j.op = "create" /\ r = [j.rec EXCEPT !.id = nextId]
    BY <1>1
  <2>2. j.rec \in Record
    BY <1>0 DEF Sound, Job
  <2>3. /\ j.rec.weight \in DOMAIN FormatUint
        /\ j.rec.type = "TXT" => Spot(j.rec) \in claimed
    BY <2>1 DEF SyncInv, AccountInv, ClaimInv
  <2>4. Entry(j.rec).type = j.rec.type
    BY DEF Entry
  <2> QED BY <1>0, <2>1, <2>2, <2>3, <2>4, NewRecordsAre DEF IsOurs
<1>4. AccountInv'
  BY <1>1, <1>2, <1>3 DEF SyncInv, AccountInv
<1>5. Marked(live') \subseteq claimed
  <2>1. ASSUME NEW p \in Marked(live') PROVE p \in claimed
    <3>1. PICK r \in live' : IsOurs(Entry(r)) /\ p = Spot(r)
      BY MarkedAre
    <3>2. CASE r \in live
      BY <3>1, <3>2, MarkedAre DEF SyncInv, ClaimInv
    <3> QED BY <1>3, <3>1, <3>2
  <2> QED BY <2>1
<1>6. ClaimInv'
  <2>1. Marked(live)' \subseteq claimed'
    BY <1>0, <1>5
  <2>2. Claims(Wanted)' \subseteq claimed'
    BY <1>0 DEF SyncInv, ClaimInv, Wanted
  <2>3. \A g \in Handlers : Active(g)' =>
          /\ \A ep \in ToRemove(req'[g]) : Charged(ep)'
          /\ \A ep \in ToAdd(req'[g]) : Claimed(ep)'
    BY <1>0, <1>1 DEF SyncInv, ClaimInv, Charged, Claimed
  <2>4. \A g \in Handlers : \A j \in todo'[g] :
          j.op = "create" /\ j.rec.type = "TXT" => Spot(j.rec) \in claimed'
    BY <1>0, <1>2
  <2> QED BY <2>1, <2>2, <2>3, <2>4 DEF ClaimInv
<1>7. SeenInv' /\ LoopInv'
  BY <1>0, <1>1 DEF SyncInv, SeenInv, LoopInv
<1> QED BY <1>4, <1>6, <1>7

\* What others do.
LEMMA OthersSyncInv ==
  ASSUME SyncInv, Others
  PROVE  AccountInv' /\ SeenInv' /\ ClaimInv' /\ LoopInv'
<1>0. /\ SInv /\ Sound /\ spent \in [Budgets -> Nat] /\ (Crash \/ ConsoleAdd \/ ConsoleRemove)
      /\ UNCHANGED <<wish, seen, loop, serving>> /\ claimed' = claimed \cup Marked(live' \ live)
  BY DEF SyncInv, SInv, LoopInv, Others
<1>1. /\ \A r \in live' \ live : \E s \in ConsoleRecords : r = [s EXCEPT !.id = nextId]
      /\ IsFiniteSet(live')
      /\ UNCHANGED req
      /\ \A g \in Handlers : Active(g)' => Active(g)
      /\ \A g \in Handlers : todo'[g] \subseteq todo[g]
      /\ spent' \in [Budgets -> Nat]
  BY <1>0, OthersEffects DEF SyncInv, AccountInv
<1>2. ASSUME NEW r \in live' \ live PROVE r.weight \in DOMAIN FormatUint
  <2>1. PICK s \in ConsoleRecords : r = [s EXCEPT !.id = nextId]
    BY <1>1
  <2>2. s \in Record /\ s.weight \in DOMAIN FormatUint
    BY RecordsAssumption, FormatAssumption
  <2> QED BY <1>0, <2>1, <2>2, NewRecordsAre
<1>3. AccountInv'
  BY <1>1, <1>2 DEF SyncInv, AccountInv
<1>4. Marked(live') \subseteq claimed'
  <2>1. ASSUME NEW p \in Marked(live') PROVE p \in claimed'
    <3>1. PICK r \in live' : IsOurs(Entry(r)) /\ p = Spot(r)
      BY MarkedAre
    <3>2. CASE r \in live
      BY <1>0, <3>1, <3>2, MarkedAre DEF SyncInv, ClaimInv
    <3>3. CASE r \notin live
      <4>1. p \in Marked(live' \ live)
        BY <3>1, <3>3, MarkedAre
      <4> QED BY <1>0, <4>1
    <3> QED BY <3>2, <3>3
  <2> QED BY <2>1
<1>5. ClaimInv'
  <2>1. Claims(Wanted)' \subseteq claimed'
    BY <1>0 DEF SyncInv, ClaimInv, Wanted
  <2>2. \A g \in Handlers : Active(g)' =>
          /\ \A ep \in ToRemove(req'[g]) : Charged(ep)'
          /\ \A ep \in ToAdd(req'[g]) : Claimed(ep)'
    BY <1>0, <1>1 DEF SyncInv, ClaimInv, Charged, Claimed
  <2>3. \A g \in Handlers : \A j \in todo'[g] :
          j.op = "create" /\ j.rec.type = "TXT" => Spot(j.rec) \in claimed'
    BY <1>0, <1>1 DEF SyncInv, ClaimInv
  <2> QED BY <1>4, <2>1, <2>2, <2>3 DEF ClaimInv
<1>6. SeenInv' /\ LoopInv'
  BY <1>0, <1>1 DEF SyncInv, SeenInv, LoopInv
<1> QED BY <1>3, <1>5, <1>6

\* Steps of ExternalDNS alone, and a change of mind, which claims what it wants.
LEMMA IdleSyncInv ==
  ASSUME SyncInv, Rest \/ Hear \/ GiveUp \/ Wish \/ UNCHANGED allVars
  PROVE  /\ UNCHANGED vars
         /\ AccountInv' /\ SeenInv' /\ ClaimInv' /\ LoopInv'
<1>1. /\ UNCHANGED vars
      /\ wish' \in Wishes /\ loop' \in {"idle", "seen", "waiting"} /\ UNCHANGED serving
      /\ seen' \in {seen, {}} /\ (loop' # "seen" => seen' = {})
      /\ UNCHANGED <<wish, claimed>> \/ claimed' = claimed \cup Claims(Wanted')
  BY DEF Rest, Hear, GiveUp, Wish, allVars, syncVars, SyncInv, LoopInv
<1>2. UNCHANGED <<live, pc, req, todo, spent>>
  BY <1>1 DEF vars, handlerVars
<1>3. AccountInv'
  BY <1>2 DEF SyncInv, AccountInv
<1>4. SeenInv'
  <2>1. claimed \subseteq claimed'
    BY <1>1
  <2>2. CASE seen' = {}
    BY <2>2, FS_EmptySet DEF SeenInv
  <2>3. CASE seen' = seen
    BY <2>1, <2>3 DEF SyncInv, SeenInv
  <2> QED BY <1>1, <2>2, <2>3
<1>5. ClaimInv'
  <2>1. claimed \subseteq claimed'
    BY <1>1
  <2>2. Claims(Wanted)' \subseteq claimed'
    BY <1>1 DEF SyncInv, ClaimInv, Wanted
  <2>3. Marked(live)' \subseteq claimed'
    BY <1>2, <2>1 DEF SyncInv, ClaimInv
  <2>4. \A g \in Handlers : Active(g)' =>
          /\ \A ep \in ToRemove(req'[g]) : Charged(ep)'
          /\ \A ep \in ToAdd(req'[g]) : Claimed(ep)'
    BY <1>2, <2>1 DEF SyncInv, ClaimInv, Charged, Claimed, Active
  <2>5. \A g \in Handlers : \A j \in todo'[g] :
          j.op = "create" /\ j.rec.type = "TXT" => Spot(j.rec) \in claimed'
    BY <1>2, <2>1 DEF SyncInv, ClaimInv
  <2> QED BY <2>2, <2>3, <2>4, <2>5 DEF ClaimInv
<1>6. LoopInv'
  BY <1>1, <1>2 DEF SyncInv, LoopInv
<1> QED BY <1>1, <1>3, <1>4, <1>5, <1>6

\* To the account and the handlers every step of the loop is a step of theirs, and
\* none edits a record in place.
LEMMA SyncMoves == SyncInv /\ [SyncNext]_allVars => Move /\ ~ConsoleEdit
<1> SUFFICES ASSUME SyncInv, [SyncNext]_allVars PROVE Move /\ ~ConsoleEdit
  OBVIOUS
<1>0. Sound /\ spent \in [Budgets -> Nat] /\ spent["edits"] \in Nat
  BY BudgetNames DEF SyncInv, SInv, LoopInv
<1>1. ASSUME UNCHANGED spent PROVE ~ConsoleEdit
  BY <1>0, <1>1, BudgetNames DEF ConsoleEdit, Spend
<1>2. CASE Rest \/ Hear \/ GiveUp \/ Wish \/ Observe \/ UNCHANGED allVars
  <2>1. UNCHANGED vars
    BY <1>2 DEF Rest, Hear, GiveUp, Wish, Observe, allVars
  <2> QED BY <1>1, <2>1 DEF vars, Move
<1>3. CASE Post
  BY <1>1, <1>3, PostSyncInv DEF Post
<1>4. ASSUME NEW h \in Handlers, Work(h) PROVE Move /\ ~ConsoleEdit
  <2>1. HandlerStep(h)
    BY <1>4 DEF Work
  <2>2. CASE UNCHANGED spent
    BY <1>1, <2>1, <2>2 DEF Move
  <2>3. CASE \E final \in BOOLEAN : Fault(h, final)
    BY <1>0, <2>1, <2>3, BudgetNames DEF Move, Fault, ConsoleEdit, Spend
  <2>4. UNCHANGED spent \/ \E final \in BOOLEAN : Fault(h, final)
    BY <2>1
    DEF HandlerStep, ListDomains, ListRecords, Plan, StartCall, Succeed, Answered, Refused,
        AnswerLost, NotExecuted, Throttled, LastAttempt
  <2> QED BY <2>2, <2>3, <2>4
<1>5. CASE Others
  BY <1>0, <1>5, OthersEffects DEF Others, Move
<1> QED BY <1>2, <1>3, <1>4, <1>5 DEF SyncNext, Controller

\* Every step keeps the invariant.
LEMMA NextSyncInv == SyncInv /\ [SyncNext]_allVars => SyncInv'
<1> SUFFICES ASSUME SyncInv, [SyncNext]_allVars PROVE SyncInv'
  OBVIOUS
<1>1. SInv' /\ SnapshotsMatch'
  BY SyncMoves, MoveSInv, MoveSnapshotsMatch DEF SyncInv
<1>2. AccountInv' /\ SeenInv' /\ ClaimInv' /\ LoopInv'
  BY ObserveSyncInv, PostSyncInv, WorkSyncInv, OthersSyncInv, IdleSyncInv DEF SyncNext, Controller
<1> QED BY <1>1, <1>2 DEF SyncInv

\* ExternalDNS is where it can be, and holds an answer only while it compares: one in
\* which no endpoint hides another under the name, type and set identifier that
\* ExternalDNS keeps them by, whatever the account, the visiting order of the zones
\* and the handlers still at work.
THEOREM SyncTypeCorrect == SyncSpec => []SyncTypeOK
<1>1. SyncInv => SyncTypeOK
  BY DEF SyncInv, SeenInv, LoopInv, SyncTypeOK
<1> QED BY InitSyncInv, NextSyncInv, <1>1, PTL DEF SyncSpec

\* Whoever of the loop removes a record removes it where ExternalDNS is in charge.
LEMMA LoopRemovesOwn ==
  ASSUME SyncInv, [SyncNext]_allVars, spent'["console"] = spent["console"],
         NEW r \in live \ live'
  PROVE  InCharge(Entry(r))
<1>1. ~ConsoleRemove
  BY BudgetNames DEF SyncInv, LoopInv, ConsoleRemove, Spend
<1>2. PICK h \in Handlers : pc[h] = "call" /\ AskedToRemove(req[h], Entry(r))
  BY <1>1, SyncMoves, MoveRemovesOnlyAsked DEF SyncInv
<1>3. PICK ep \in ToRemove(req[h]) :
         /\ Entry(r).name = ep.name /\ Entry(r).type = ep.type
         /\ Entry(r).line = EndpointLine(ep)
         /\ \E k \in DOMAIN ep.targets : Entry(r).value = ep.targets[k]
  BY <1>2 DEF AskedToRemove
<1>4. Charged(ep)
  BY <1>2 DEF SyncInv, ClaimInv, Active
<1> QED BY <1>3, <1>4 DEF Charged, Ours, MarkPlace, IsOurs, InCharge

\* What others hold is never touched, for all accounts, wishes, zones and numbers of
\* handlers: a request that is worked on late, after its client gave up, after a
\* crash of the webhook and beside its successors, removes nothing but marks of this
\* ExternalDNS, and what lies on a name and line where its mark lay or was wished for.
THEOREM OthersAreUntouched == SyncSpec => OthersUntouched
<1>1. SyncInv /\ [SyncNext]_allVars =>
        [spent'["console"] = spent["console"] =>
           \A r \in live \ live' : InCharge(Entry(r))]_allVars
  BY LoopRemovesOwn
<1> QED BY InitSyncInv, NextSyncInv, <1>1, PTL DEF SyncSpec, OthersUntouched
=============================================================================
