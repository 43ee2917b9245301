---------------------------- MODULE MCPrivateSync ----------------------------
(***************************************************************************)
(* A parent zone and a zone nested in it, names of each and both apexes;   *)
(* wishes with a weight and with a second target.                          *)
(***************************************************************************)
EXTENDS PrivateSync, TLC

\* A name, from labels without hyphens.
Host(words) == [i \in DOMAIN words |-> <<words[i]>>]

MCZones == [parent |-> Host(<<"com">>), nested |-> Host(<<"sub", "com">>)]
BothZones == {"parent", "nested"}
MCHeritage == {"mark"}
MCParseInt == ("5" :> 5 @@ "0" :> 0)
MCFormatInt == (0 :> "0" @@ 5 :> "5")

Www == Host(<<"www", "sub", "com">>)
Db == Host(<<"db", "sub", "com">>)
Api == Host(<<"api", "com">>)
Apex == Host(<<"sub", "com">>)      \* its mark, a-sub.com, belongs to the outer zone
Top == Host(<<"com">>)              \* its mark, a-com, belongs to none

Plain(t) == [text |-> t, quoted |-> FALSE]
One == Plain("1.1.1.1")
Two == Plain("2.2.2.2")

Wished(name, targets, props) ==
  [name |-> name, type |-> "A", targets |-> targets, setId |-> "", props |-> props]

WwwOne == Wished(Www, <<One>>, <<>>)
WwwTwo == Wished(Www, <<Two>>, "weight" :> "0")
ApiBoth == Wished(Api, <<One, Two>>, "weight" :> "5")
DbOne == Wished(Db, <<One>>, <<>>)
ApexOne == Wished(Apex, <<One>>, <<>>)
TopOne == Wished(Top, <<One>>, <<>>)
TopTwo == Wished(Top, <<Two>>, <<>>)
\* A TXT record beside the base record.
ApexNote == [Wished(Apex, <<Plain("note")>>, <<>>) EXCEPT !.type = "TXT"]
ApiRemark == Wished(Api, <<One>>, "remark" :> "db")

AllWishes == {{WwwOne}, {WwwOne, DbOne}, {WwwTwo, ApiBoth, TopTwo}, {ApexOne, TopOne}}
HastyWishes == {{WwwOne}, {WwwOne, DbOne}}
RestlessWishes == {{ApiRemark, ApexNote}}

Rec(id, zone, sub, type, value) ==
  [id |-> id, zone |-> zone, sub |-> Host(sub), type |-> type, value |-> value,
   weight |-> {}, remark |-> ""]

\* Records made by hand, one in each zone.
ByHand == {Rec(1, "parent", <<"mail">>, "A", Two),
           Rec(2, "nested", <<"mail">>, "A", One)}
Started == {ByHand}

\* Bound: a client that gives up does so before the user changes their mind, over
\* small wishes, and nothing else goes wrong.
Hasty ==
  changed'["giveups"] > 0 =>
    /\ wish' \in HastyWishes /\ Trouble' = 0
    /\ changed["giveups"] = 0 => changed["wishes"] = 0

NoRequests == {}
\* A second target for www.
ManualRecords == {Rec(0, "nested", <<"www">>, "A", Two)}
NoRecords == {}
=============================================================================
