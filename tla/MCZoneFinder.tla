---------------------------- MODULE MCZoneFinder ----------------------------
(* Every map of three ids to distinct names over two labels, up to two        *)
(* labels long, and every host of up to three labels.                         *)
EXTENDS ZoneFinder

MCLabels == {"a", "b"}
NamesUpTo(k) == UNION {[1..n -> MCLabels] : n \in 1..k}
MCZoneMaps == {m \in [1..3 -> NamesUpTo(2)] : Distinct(m)}
MCHosts == NamesUpTo(3)
=============================================================================
