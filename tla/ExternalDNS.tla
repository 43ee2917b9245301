---------------------------- MODULE ExternalDNS ----------------------------
(***************************************************************************)
(* The other side of the webhook: how ExternalDNS, with its TXT registry,  *)
(* compares the endpoints it reads with those it wants.  It is not part of *)
(* the repository and is modelled as the code counts on it.                *)
(*                                                                         *)
(* An endpoint is [name, type, targets, setId, props] as in DnsPodData.    *)
(***************************************************************************)
EXTENDS SequencesExt, Naturals, FiniteSets

CONSTANTS
  Heritage,      \* the texts that start with heritage=, TXT ownership marks
  OurMark        \* the one of this ExternalDNS

\* Equal as bags: ExternalDNS sorts both lists.
SameTargets(s, t) ==
  \A v \in Range(s) \cup Range(t) :
    Cardinality({i \in DOMAIN s : s[i] = v}) = Cardinality({i \in DOMAIN t : t[i] = v})

\* The registry reads ownership from the first target of a TXT endpoint only.
IsMark(ep) == ep.type = "TXT" /\ ep.targets[1].text \in Heritage

\* The name of the mark of an endpoint: its type goes in front of the first label, so
\* that of an A record www is a-www (pkg/provider/dnspod_test.go:246; the version
\* go.mod pins).  That of an apex is none of the zone's names.
MarkName(name, type) == [name EXCEPT ![1] = <<type>> \o @]

\* The TXT record that goes with an endpoint.
MarkFor(ep) ==
  [ep EXCEPT !.name = MarkName(ep.name, ep.type), !.type = "TXT",
             !.targets = <<[text |-> OurMark, quoted |-> TRUE]>>]

Owned(ep, current) ==
  \E m \in current :
    /\ IsMark(m) /\ m.name = MarkName(ep.name, ep.type) /\ m.setId = ep.setId
    /\ m.targets[1].text = OurMark

Same(c, d) == c.name = d.name /\ c.type = d.type /\ c.setId = d.setId
Differs(c, d) == ~SameTargets(c.targets, d.targets) \/ c.props # d.props

WithMarks(eps) == SetToSeq(eps) \o SetToSeq({MarkFor(ep) : ep \in eps})

\* The changes that take what there is to what is wanted: what is not owned is
\* neither updated nor deleted.
Difference(current, wanted) ==
  LET plain == {c \in current : ~IsMark(c)}
      owned == {c \in plain : Owned(c, current)}
  IN  [create    |-> WithMarks({d \in wanted : \A c \in plain : ~Same(c, d)}),
       updateOld |-> WithMarks({c \in owned : \E d \in wanted : Same(c, d) /\ Differs(c, d)}),
       updateNew |-> WithMarks({d \in wanted : \E c \in owned : Same(c, d) /\ Differs(c, d)}),
       delete    |-> WithMarks({c \in owned : \A d \in wanted : ~Same(c, d)})]
=============================================================================
