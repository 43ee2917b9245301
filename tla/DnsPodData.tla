----------------------------- MODULE DnsPodData -----------------------------
(***************************************************************************)
(* The data the DNSPod half of the provider works on, and the pure parts   *)
(* of its code: which record an endpoint stands for, which records it      *)
(* dooms, how ownership TXT values are quoted.                             *)
(*                                                                         *)
(* A record of DNSPod is                                                   *)
(*   [id, zone, sub, type, value, line, weight, status]                    *)
(* a target or value is [text, quoted], where quoted tells whether the     *)
(* string stands between double quotes, and an endpoint of ExternalDNS is  *)
(*   [name, type, targets, setId, props]                                   *)
(* with targets a sequence of values and props a function on the names of  *)
(* the provider-specific properties it carries.  TTL and MX are copied the *)
(* way weight is, the remark the way status is; they are left out.         *)
(***************************************************************************)
EXTENDS DnsNames

CONSTANTS
  Zones,          \* domain id -> domain name, the account's domain list
  DomainFilter,   \* the ids --domain-filter lets through
  DefaultLine,    \* the line named in the code by its Chinese word for "default"
  Line,           \* line id -> line: how DNSPod reads RecordLineId
  Heritage,       \* the texts that start with heritage=, TXT ownership marks
  ParseUint       \* property string -> number, on the strings that parse

Value == [text : STRING, quoted : BOOLEAN]
Record == [id : Nat, zone : DOMAIN Zones, sub : Name, type : STRING, value : Value,
           line : STRING, weight : Nat, status : STRING]

Property == {"record-line", "record-line-id", "weight", "status"}
IsEndpoint(ep) ==
  /\ ep \in [name : Name, type : STRING, targets : Seq(Value), setId : STRING, props : {ep.props}]
  /\ \E P \in SUBSET Property : ep.props \in [P -> STRING]
  /\ "record-line-id" \in DOMAIN ep.props => ep.props["record-line-id"] \in DOMAIN Line

ASSUME ZonesAssumption ==
  /\ DomainFilter \subseteq DOMAIN Zones
  /\ \A z \in DOMAIN Zones : Zones[z] \in Name
  /\ \A y, z \in DOMAIN Zones : Zones[y] = Zones[z] => y = z
ASSUME ValuesAssumption ==
  /\ DefaultLine \in STRING
  /\ "ENABLE" \in STRING    \* true, but not known to the provers
  /\ \A id \in DOMAIN Line : Line[id] \in STRING
  /\ \A s \in DOMAIN ParseUint : ParseUint[s] \in Nat

\* The zones the provider sees, as the map FindZone runs on.
Managed == [z \in DomainFilter |-> Zones[z]]

HasProp(ep, p) == p \in DOMAIN ep.props

\* A map of properties, completed.
Defaulted(props, defaults) ==
  [p \in DOMAIN props \cup DOMAIN defaults |->
     IF p \in DOMAIN props THEN props[p] ELSE defaults[p]]

\* Mutant: the status is not defaulted.
AdjustLineOnly(ep) ==
  LET props == Defaulted(ep.props, [p \in {"record-line"} |-> DefaultLine])
  IN  [ep EXCEPT !.props = props,
                 !.setId = IF ep.setId = "" THEN props["record-line"] ELSE @]

\* What AdjustEndpoints does to an endpoint of a public zone.  The line id is
\* not defaulted and does not change the default of the line.
Adjust(ep) ==
  LET default == [p \in {"record-line", "status"} |->
                    IF p = "status" THEN "ENABLE" ELSE DefaultLine]
      props == Defaulted(ep.props, default)
  IN  [ep EXCEPT !.props = props,
                 !.setId = IF ep.setId = "" THEN props["record-line"] ELSE @]

\* recordsForDNS: a TXT value that starts with heritage= is listed in quotes,
\* as ExternalDNS writes its targets.
Listed(r) ==
  IF r.type = "TXT" /\ r.value.text \in Heritage
  THEN [r EXCEPT !.value = [text |-> r.value.text, quoted |-> TRUE]]
  ELSE r

\* createRecord: and loses them again on its way into DNSPod.
Stripped(type, target) ==
  IF type = "TXT" /\ target.quoted /\ target.text \in Heritage
  THEN [text |-> target.text, quoted |-> FALSE]
  ELSE target

\* getDomainRecordList leaves the NS records of the apex out.
IsSpecial(r) == r.sub = <<>> /\ r.type = "NS"

\* The line an endpoint names, on delete and as RecordLine on create.
EndpointLine(ep) ==
  IF HasProp(ep, "record-line") THEN ep.props["record-line"] ELSE DefaultLine

\* The line of a listed record.
LineOf(r) == IF r.line = "" THEN DefaultLine ELSE r.line

\* Mutant: the line is not compared.
MatchesAnyLine(ep, r) ==
  {k \in DOMAIN ep.targets :
     /\ r.sub = SubDomain(Zones[r.zone], ep.name)
     /\ r.type = ep.type
     /\ r.value = ep.targets[k]}

\* Mutant: records are looked for on the default line only.
MatchesDefaultLine(ep, r) ==
  {k \in DOMAIN ep.targets :
     /\ r.sub = SubDomain(Zones[r.zone], ep.name)
     /\ r.type = ep.type
     /\ LineOf(r) = DefaultLine
     /\ r.value = ep.targets[k]}

\* The positions of the targets of endpoint ep that match r, a listed record of
\* the zone FindZone returns for ep: the code appends the record's id once for
\* each of them.
Matches(ep, r) ==
  {k \in DOMAIN ep.targets :
     /\ r.sub = SubDomain(Zones[r.zone], ep.name)
     /\ r.type = ep.type
     /\ LineOf(r) = EndpointLine(ep)
     /\ r.value = ep.targets[k]}

\* The line DNSPod puts a record created for ep on: it prefers RecordLineId, when
\* the request has one, to RecordLine.
CreatedLine(ep) ==
  IF HasProp(ep, "record-line-id") THEN Line[ep.props["record-line-id"]] ELSE EndpointLine(ep)

\* The record DNSPod stores for the CreateRecord request of target k of ep.
\* DNSPod takes 0 for no weight, and gives the record its id, which is 0 until then.
NewRecord(ep, z, k) ==
  [id     |-> 0,
   zone   |-> z,
   sub    |-> SubDomain(Zones[z], ep.name),
   type   |-> ep.type,
   value  |-> Stripped(ep.type, ep.targets[k]),
   line   |-> CreatedLine(ep),
   weight |-> IF HasProp(ep, "weight") /\ ep.props["weight"] \in DOMAIN ParseUint
              THEN ParseUint[ep.props["weight"]] ELSE 0,
   status |-> IF HasProp(ep, "status") THEN ep.props["status"] ELSE "ENABLE"]

\* What DNSPod refuses to hold twice, with the error DomainRecordExist.
SameRecord(r, s) ==
  /\ r.zone = s.zone /\ r.sub = s.sub /\ r.type = s.type
  /\ r.value = s.value /\ r.line = s.line
=============================================================================
