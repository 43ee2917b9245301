------------------------------ MODULE DnsNames ------------------------------
(***************************************************************************)
(* DNS names and the choice of the zone a host name belongs to.            *)
(*                                                                         *)
(* A name is the sequence of its labels, the most specific first, and a    *)
(* label the sequence of its parts, which hyphens join: www.example.com is *)
(* <<<<"www">>, <<"example">>, <<"com">>>>, and a-www one label of two.    *)
(* Names do not tell capitals from small letters.  The code compares       *)
(* strings with HasSuffix(host, "." + zone); on whole labels that is       *)
(* exactly the suffix relation on these sequences, and of two suffixes of  *)
(* one host the longer string is the one with more labels.                 *)
(***************************************************************************)
EXTENDS Naturals, Sequences

Label == Seq(STRING)
Name == Seq(Label)

\* hostname == zoneName || strings.HasSuffix(hostname, "." + zoneName)
Covers(zone, host) ==
  /\ Len(zone) <= Len(host)
  /\ zone = SubSeq(host, Len(host) - Len(zone) + 1, Len(host))

\* What FindZone promises, whatever the order of its loop over the map: the ids
\* of the most specific zones that cover the host.  zones maps an id to a name.
\* Empty when no zone covers it (the code's "" id); never two ids when the
\* names are distinct, which ZoneFinder_proofs proves.
FindZone(zones, host) ==
  {z \in DOMAIN zones :
     /\ Covers(zones[z], host)
     /\ \A y \in DOMAIN zones :
          Covers(zones[y], host) => Len(zones[y]) <= Len(zones[z])}

\* getSubDomain: the labels in front of the zone.  <<>> is the code's "@".
SubDomain(zone, host) == SubSeq(host, 1, Len(host) - Len(zone))

\* getDnsDomain, its inverse.
DnsDomain(sub, zone) == sub \o zone
=============================================================================
