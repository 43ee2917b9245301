----------------------------- MODULE ZoneFinder -----------------------------
(***************************************************************************)
(* The loop of ZoneIDName.FindZone.  Go visits the entries of a map in an  *)
(* order that changes from one run to the next, and ApplyChanges calls     *)
(* FindZone once for each endpoint: a delete and a create of one name must *)
(* nevertheless agree on the zone.                                         *)
(***************************************************************************)
EXTENDS DnsNames, FiniteSets

CONSTANTS
  Labels,     \* what stands between two dots of a name
  ZoneMaps,   \* the maps from zone id to zone name the loop may run on
  Hosts,      \* the host names it may be asked for
  NoZone      \* the empty suitableZoneID

\* DNSPod holds a domain name once in an account, so names are distinct.
Distinct(m) == \A y, z \in DOMAIN m : m[y] = m[z] => y = z

ASSUME ZoneMapsAssumption ==
  \A m \in ZoneMaps :
    /\ NoZone \notin DOMAIN m
    /\ Distinct(m)
    /\ \A z \in DOMAIN m : m[z] \in Seq(Labels)
ASSUME HostsAssumption == Hosts \subseteq Seq(Labels)

VARIABLES
  zones,      \* the receiver, ZoneIDName
  host,       \* the argument
  unvisited,  \* the keys the range loop has still to visit
  suitable    \* suitableZoneID (suitableZoneName is zones[suitable])

vars == <<zones, host, unvisited, suitable>>

Init ==
  /\ zones \in ZoneMaps
  /\ host \in Hosts
  /\ unvisited = DOMAIN zones
  /\ suitable = NoZone

\* Mutant: the last match wins.
BetterWhenLater(z) == TRUE

\* suitableZoneName == "" || len(zoneName) > len(suitableZoneName)
Better(z) ==
  \/ suitable = NoZone
  \/ Len(zones[z]) > Len(zones[suitable])

\* Mutant: a key may come again.
VisitAgain(z) ==
  /\ z \in unvisited
  /\ suitable' = IF Covers(zones[z], host) /\ Better(z) THEN z ELSE suitable
  /\ UNCHANGED <<zones, host, unvisited>>

\* One turn of the loop, on any key not visited yet.
Visit(z) ==
  /\ z \in unvisited
  /\ unvisited' = unvisited \ {z}
  /\ suitable' = IF Covers(zones[z], host) /\ Better(z) THEN z ELSE suitable
  /\ UNCHANGED <<zones, host>>

Next == \E z \in unvisited : Visit(z)

Spec == Init /\ [][Next]_vars
-----------------------------------------------------------------------------
TypeOK ==
  /\ zones \in ZoneMaps
  /\ host \in Hosts
  /\ unvisited \subseteq DOMAIN zones
  /\ suitable \in {NoZone} \cup (DOMAIN zones \ unvisited)

\* The value returned is the one the abstract FindZone allows, and the only
\* one: whatever the order of the map, two calls on one host agree, so a record
\* is deleted from and created in the same zone.
ReturnsTheMostSpecific ==
  unvisited = {} =>
    FindZone(zones, host) = IF suitable = NoZone THEN {} ELSE {suitable}
=============================================================================
