--------------------------- MODULE MCDnsPodApply ---------------------------
(***************************************************************************)
(* A parent zone and a zone nested in it, a name of each, two lines, A     *)
(* records with their TXT ownership marks.                                 *)
(***************************************************************************)
EXTENDS DnsPodEditing, TLC

\* A name, from labels without hyphens.
Host(words) == [i \in DOMAIN words |-> <<words[i]>>]

MCZones == [parent |-> Host(<<"com">>), nested |-> Host(<<"sub", "com">>)]
BothZones == {"parent", "nested"}
NestedOnly == {"nested"}
MCLine == [ten |-> "telecom"]
MCHeritage == {"mark"}
MCParseUint == ("5" :> 5 @@ "0" :> 0)

Www == Host(<<"www", "sub", "com">>)      \* belongs to the nested zone
Api == Host(<<"api", "com">>)             \* belongs to the parent zone
Apex == Host(<<"com">>)
Elsewhere == Host(<<"www", "org">>)       \* belongs to no zone

Plain(t) == [text |-> t, quoted |-> FALSE]
Quoted(t) == [text |-> t, quoted |-> TRUE]

\* Endpoints as ExternalDNS posts them, after AdjustEndpoints.
On(line) == [x \in {"record-line", "status"} |-> IF x = "status" THEN "ENABLE" ELSE line]
A(name, line, targets) ==
  [name |-> name, type |-> "A", targets |-> targets, setId |-> line, props |-> On(line)]
Marked(label, type) == <<type>> \o label
Mark(ep) ==
  [A([ep.name EXCEPT ![1] = Marked(@, ep.type)], EndpointLine(ep), <<Quoted("mark")>>)
     EXCEPT !.type = "TXT"]
Weighing(ep, w) == [ep EXCEPT !.props = @ @@ ("weight" :> w)]
\* An endpoint that reached the webhook without AdjustEndpoints.
Bare(ep) == [ep EXCEPT !.props = <<>>, !.setId = ""]

Changes(c, old, new, d) == [create |-> c, updateOld |-> old, updateNew |-> new, delete |-> d]

One == Plain("1.1.1.1")
Two == Plain("2.2.2.2")

\* ExternalDNS puts the mark behind the record it owns.
Owned(ep) == <<ep, Mark(ep)>>

Birth == Changes(Owned(A(Www, "default", <<One>>)), <<>>, <<>>, <<>>)
Move  == Changes(<<>>, Owned(A(Www, "default", <<One>>)), Owned(A(Www, "default", <<Two>>)), <<>>)
Death == Changes(<<>>, <<>>, <<>>, Owned(A(Www, "default", <<One>>)))
\* A second target and a weight: what stays of the old goes and comes back.
Regrow == Changes(<<>>, Owned(A(Www, "default", <<One>>)),
                  <<Weighing(A(Www, "default", <<One, Two>>), "5"),
                    Mark(A(Www, "default", <<One, Two>>))>>, <<>>)
\* Both zones in one request, a name of no zone, the line taken from its id.
Both  == Changes(<<A(Api, "telecom", <<One>>), A(Elsewhere, "default", <<One>>),
                   [A(Www, "default", <<Two>>) EXCEPT !.props = @ @@ ("record-line-id" :> "ten")]>>,
                 <<>>, <<>>, <<Bare(A(Www, "default", <<One>>)), A(Api, "default", <<Two>>)>>)
\* The NS records of the apex are asked for, with an ordinary delete beside them.
Apexes == Changes(<<>>, <<>>, <<>>,
                  <<[A(Apex, "default", <<Plain("ns")>>) EXCEPT !.type = "NS"],
                    A(Api, "default", <<Two>>)>>)
\* One record asked for by two endpoints that differ in their set identifier.
Twice == Changes(<<>>, <<>>, <<>>,
                 <<A(Api, "default", <<Two>>),
                   [A(Api, "default", <<Two>>) EXCEPT !.setId = "second"]>>)
Nothing == Changes(<<>>, <<>>, <<>>, <<>>)

Rec(id, zone, sub, type, value, line) ==
  [id |-> id, zone |-> zone, sub |-> Host(sub), type |-> type, value |-> value,
   line |-> line, weight |-> 0, status |-> "ENABLE"]

\* The account before: the zones' own NS, a record made by hand on the other
\* line of www, one of the same full name in the parent zone, and api.
Others == {Rec(1, "parent", <<>>, "NS", Plain("ns"), "default"),
           Rec(2, "nested", <<"www">>, "A", One, "telecom"),
           Rec(3, "parent", <<"www", "sub">>, "A", One, "default"),
           Rec(4, "parent", <<"api">>, "A", Two, "default")}
WwwRecord == Rec(5, "nested", <<"www">>, "A", One, "default")
WwwOwned == {WwwRecord, [WwwRecord EXCEPT !.id = 6, !.sub = [@ EXCEPT ![1] = Marked(@, "A")],
                                          !.type = "TXT", !.value = Plain("mark")]}

Fresh == {Others}
Standing == {Others \cup WwwOwned}
FreshOrStanding == Fresh \cup Standing


AllRequests == {Birth, Move, Death, Regrow, Both, Apexes, Twice, Nothing}
RacingRequests == {Move, Death, Birth, Regrow}

MCConsoleRecords == {Rec(0, "nested", <<"www">>, "A", Two, "default")}
NoRecords == {}
HandlerSymmetry == Permutations(Handlers)
=============================================================================
