----------------------------- MODULE PrivateEdit -----------------------------
(***************************************************************************)
(* The data of the PrivateDNS half of the provider, the pure parts of its  *)
(* code, and what its ApplyChanges promises.                               *)
(*                                                                         *)
(* A record of PrivateDNS is                                               *)
(*   [id, zone, sub, type, value, weight, remark]                          *)
(* with weight the set of its weight, empty where the code has nil; it has *)
(* no line and no status.  Values and endpoints are those of DnsPodData:   *)
(*   [text, quoted] and [name, type, targets, setId, props].               *)
(* TTL and MX are copied the way weight is; they are left out.             *)
(***************************************************************************)
EXTENDS DnsNames

CONSTANTS
  Zones,          \* zone id -> domain: the private zones of the VPC
  ZoneFilter,     \* the ids that --zone-id-filter and --domain-filter let through
  Heritage,       \* the texts that start with heritage=, TXT ownership marks
  BaseText,       \* tencent_provider_record
  ParseInt        \* property string -> number, on the strings that parse

Value == [text : STRING, quoted : BOOLEAN]
Record == [id : Nat, zone : DOMAIN Zones, sub : Name, type : STRING, value : Value,
           weight : SUBSET Nat, remark : STRING]

IsEndpoint(ep) ==
  /\ ep \in [name : Name, type : STRING, targets : Seq(Value), setId : STRING, props : {ep.props}]
  /\ \E P \in SUBSET {"weight", "remark"} : ep.props \in [P -> STRING]

ASSUME ZonesAssumption ==
  /\ ZoneFilter \subseteq DOMAIN Zones
  /\ \A z \in DOMAIN Zones : Zones[z] \in Name
  /\ \A y, z \in DOMAIN Zones : Zones[y] = Zones[z] => y = z
ASSUME ValuesAssumption ==
  /\ BaseText \in STRING \ Heritage
  /\ {"TXT", ""} \subseteq STRING    \* true, but not known to the provers
  /\ \A s \in DOMAIN ParseInt : ParseInt[s] \in Nat

Managed == [z \in ZoneFilter |-> Zones[z]]
-----------------------------------------------------------------------------
\* recordForPrivateZone: ownership marks are listed in quotes,
Listed(r) ==
  IF r.type = "TXT" /\ r.value.text \in Heritage
  THEN [r EXCEPT !.value = [text |-> r.value.text, quoted |-> TRUE]]
  ELSE r

\* createPrivateZoneRecords: and lose the quotes on their way back.
Stripped(type, target) ==
  IF type = "TXT" /\ target.quoted /\ target.text \in Heritage
  THEN [text |-> target.text, quoted |-> FALSE]
  ELSE target

\* The record that keeps a zone from being empty.
BaseRecord(z) ==
  [id |-> 0, zone |-> z, sub |-> <<>>, type |-> "TXT",
   value |-> [text |-> BaseText, quoted |-> FALSE], weight |-> {}, remark |-> ""]

\* Mutant: any TXT record of the apex will do.
IsBaseByName(r) == r.sub = <<>> /\ r.type = "TXT"

\* containsBaseRecord.
IsBase(r) == r.sub = <<>> /\ r.type = "TXT" /\ r.value = [text |-> BaseText, quoted |-> FALSE]

\* Mutant: names are not compared.
MatchesAnyName(ep, r) ==
  /\ r.type = ep.type
  /\ \E k \in DOMAIN ep.targets : r.value = ep.targets[k]

\* Mutant: targets are not compared.
MatchesAnyTarget(ep, r) ==
  /\ r.sub = SubDomain(Zones[r.zone], ep.name)
  /\ r.type = ep.type

\* Does endpoint ep name record r, a listed record of the zone of its name?
Matches(ep, r) ==
  /\ r.sub = SubDomain(Zones[r.zone], ep.name)
  /\ r.type = ep.type
  /\ \E k \in DOMAIN ep.targets : r.value = ep.targets[k]

\* createPrivateZoneRecord: the record for target k of ep.  PrivateDNS gives the id.
NewRecord(ep, z, k) ==
  [id     |-> 0,
   zone   |-> z,
   sub    |-> SubDomain(Zones[z], ep.name),
   type   |-> ep.type,
   value  |-> Stripped(ep.type, ep.targets[k]),
   weight |-> IF "weight" \in DOMAIN ep.props /\ ep.props["weight"] \in DOMAIN ParseInt
              THEN {ParseInt[ep.props["weight"]]} ELSE {},
   remark |-> IF "remark" \in DOMAIN ep.props THEN ep.props["remark"] ELSE ""]

\* What PrivateDNS refuses to hold twice.
SameRecord(r, s) ==
  r.zone = s.zone /\ r.sub = s.sub /\ r.type = s.type /\ r.value = s.value
-----------------------------------------------------------------------------
\* A record as a user of the webhook sees it.
Entry(r) ==
  [zone |-> r.zone, name |-> DnsDomain(r.sub, Zones[r.zone]), type |-> r.type,
   value |-> Listed(r).value, weight |-> r.weight, remark |-> r.remark]
Key(e) == <<e.zone, e.name, e.type, e.value>>
Slot(e) == <<e.name, e.type>>

Endpoints(seq) == {seq[i] : i \in DOMAIN seq}
ToRemove(changes) == Endpoints(changes.delete) \cup Endpoints(changes.updateOld)
ToAdd(changes) == Endpoints(changes.create) \cup Endpoints(changes.updateNew)

\* The entries of the names, types and targets asked for, in the zone of the name.
AskedToRemove(changes, e) ==
  \E ep \in ToRemove(changes) :
    /\ e.name = ep.name /\ e.type = ep.type
    /\ \E k \in DOMAIN ep.targets : e.value = ep.targets[k]
    /\ e.zone \in FindZone(Managed, ep.name)

Additions(changes) ==
  UNION {{Entry(NewRecord(ep, z, k)) : k \in DOMAIN ep.targets, z \in FindZone(Managed, ep.name)}
           : ep \in ToAdd(changes)}

Kept(changes, S) == {e \in S : ~AskedToRemove(changes, e)}

\* Every managed zone has its base record; for the rest, what is asked for.
Bases == {Entry(BaseRecord(z)) : z \in ZoneFilter}

\* The content that changes, applied to content S, lead to.
Outcome(changes, S) ==
  LET based == S \cup {b \in Bases : \A e \in S : Key(e) # Key(b)}
      kept  == Kept(changes, based)
  IN  kept \cup {a \in Additions(changes) : \A e \in kept : Key(e) # Key(a)}
=============================================================================
