------------------------------ MODULE ZoneEdit ------------------------------
(***************************************************************************)
(* What ApplyChanges promises, on the level of an ExternalDNS user: a set  *)
(* of changes turns the content of the managed zones into another content. *)
(* Written without the loops, the sub domains, the record ids and the      *)
(* quoting of the code; DnsPodApply is checked against it.                 *)
(*                                                                         *)
(* An entry is a record seen from outside:                                 *)
(*   [zone, name, type, value, line, weight, status]                       *)
(* with its full name, and its ownership mark in quotes.                   *)
(***************************************************************************)
EXTENDS DnsPodData

\* An entry as a user of the webhook sees record r.
Entry(r) ==
  LET shown == Listed(r) IN
  [zone |-> r.zone, name |-> DnsDomain(r.sub, Zones[r.zone]), type |-> r.type,
   value |-> shown.value, line |-> LineOf(r), weight |-> r.weight,
   status |-> r.status]

Endpoints(seq) == {seq[i] : i \in DOMAIN seq}
ToRemove(changes) == Endpoints(changes.delete) \cup Endpoints(changes.updateOld)
ToAdd(changes) == Endpoints(changes.create) \cup Endpoints(changes.updateNew)

\* docs/reference/annotations.md: only records that match both the hostname and
\* the line are deleted; of them, those of the type and targets asked for, in
\* the zone the name belongs to, and never the NS records of an apex.
AskedToRemove(changes, e) ==
  \E ep \in ToRemove(changes) :
    /\ e.name = ep.name
    /\ e.type = ep.type
    /\ e.line = EndpointLine(ep)
    /\ \E k \in DOMAIN ep.targets : e.value = ep.targets[k]
    /\ e.zone \in FindZone(Managed, ep.name)
    /\ ~(e.type = "NS" /\ e.name = Zones[e.zone])

\* The entries asked for.  A name no managed zone covers is asked for in vain.
Additions(changes) ==
  UNION {{Entry(NewRecord(ep, z, k)) : k \in DOMAIN ep.targets, z \in FindZone(Managed, ep.name)}
           : ep \in ToAdd(changes)}

Key(e) == <<e.zone, e.name, e.type, e.value, e.line>>

Kept(changes, S) == {e \in S : ~AskedToRemove(changes, e)}

\* The content that changes, applied to content S, lead to.
Outcome(changes, S) ==
  LET kept == Kept(changes, S)
  IN  kept \cup {a \in Additions(changes) : \A e \in kept : Key(e) # Key(a)}

\* ExternalDNS calls an entry by its name and type.
Slot(e) == <<e.name, e.type>>
=============================================================================
