---------------------------- MODULE MCDnsPodSync ----------------------------
(***************************************************************************)
(* A parent zone and a zone nested in it; a name of each; wishes with and  *)
(* without a line, a weight, a status and a second target.                 *)
(***************************************************************************)
EXTENDS DnsPodSync

\* A name, from labels without hyphens.
Host(words) == [i \in DOMAIN words |-> <<words[i]>>]

MCZones == [parent |-> Host(<<"com">>), nested |-> Host(<<"sub", "com">>)]
BothZones == {"parent", "nested"}
MCLine == [ten |-> "telecom"]
MCHeritage == {"mark"}
MCParseUint == ("5" :> 5 @@ "0" :> 0)
MCFormatUint == (0 :> "0" @@ 5 :> "5")

Www == Host(<<"www", "sub", "com">>)
Api == Host(<<"api", "com">>)
Db == Host(<<"db", "com">>)
Top == Host(<<"com">>)              \* the apex of the outer zone: its mark has no zone

Plain(t) == [text |-> t, quoted |-> FALSE]
One == Plain("1.1.1.1")
Two == Plain("2.2.2.2")

\* Endpoints as a source of ExternalDNS makes them.
Wished(name, targets, props) ==
  [name |-> name, type |-> "A", targets |-> targets, setId |-> "", props |-> props]
On(line) == "record-line" :> line

WwwOne == Wished(Www, <<One>>, <<>>)
WwwTwo == Wished(Www, <<Two>>, "status" :> "DISABLE")
ApiBoth == Wished(Api, <<One, Two>>, On("telecom") @@ "weight" :> "5")
ApiOne == Wished(Api, <<One>>, On("telecom"))
TopOne == Wished(Top, <<One>>, <<>>)
DbWeightless == Wished(Db, <<One>>, "weight" :> "0")
ApiLineId == Wished(Api, <<One>>, "record-line-id" :> "ten")

AllWishes == {{}, {WwwOne}, {WwwTwo, ApiBoth}, {ApiOne, TopOne}}
SomeWishes == {{WwwOne}, {WwwTwo}}
RestlessWishes == {{WwwOne, DbWeightless, ApiLineId}}


Rec(id, zone, sub, type, value, line) ==
  [id |-> id, zone |-> zone, sub |-> Host(sub), type |-> type, value |-> value,
   line |-> line, weight |-> 0, status |-> "ENABLE"]
\* The mark of record r.
MarkOf(r, id) ==
  [r EXCEPT !.id = id, !.sub = MarkName(@, r.type), !.type = "TXT", !.value = Plain(OurMark)]

\* The zones' own NS, and a record made by hand on another line of each name.
ByHand == {Rec(1, "parent", <<>>, "NS", Plain("ns"), "default"),
           Rec(2, "nested", <<"www">>, "A", One, "telecom"),
           Rec(3, "parent", <<"api">>, "A", Two, "default")}
Started == {ByHand}
\* www in place with its mark, and a record of its full name in the parent zone.
WwwRecord == Rec(1, "nested", <<"www">>, "A", One, "default")
Shadowed == {{WwwRecord, MarkOf(WwwRecord, 2),
              Rec(3, "parent", <<"www", "sub">>, "A", Two, "default")}}

NoRequests == {}
\* A second target for www, and one that api may wish for with a weight.
ManualRecords == {Rec(0, "nested", <<"www">>, "A", Two, "default"),
                  Rec(0, "parent", <<"api">>, "A", Two, "telecom")}
NoRecords == {}
=============================================================================
