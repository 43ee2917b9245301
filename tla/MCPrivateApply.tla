--------------------------- MODULE MCPrivateApply ---------------------------
(***************************************************************************)
(* Two private zones, one nested in the other, an A record with its mark.  *)
(***************************************************************************)
EXTENDS PrivateApply, TLC

\* A name, from labels without hyphens.
Host(words) == [i \in DOMAIN words |-> <<words[i]>>]

MCZones == [parent |-> Host(<<"com">>), nested |-> Host(<<"sub", "com">>)]
BothZones == {"parent", "nested"}
NestedOnly == {"nested"}
MCHeritage == {"mark"}
MCParseInt == ("5" :> 5)

Www == Host(<<"www", "sub", "com">>)      \* belongs to the nested zone
Api == Host(<<"api", "com">>)             \* belongs to the parent zone
Apex == Host(<<"sub", "com">>)
Elsewhere == Host(<<"www", "org">>)       \* belongs to no zone

Plain(t) == [text |-> t, quoted |-> FALSE]
Quoted(t) == [text |-> t, quoted |-> TRUE]
One == Plain("1.1.1.1")
Two == Plain("2.2.2.2")

A(name, targets) == 
  [name |-> name, type |-> "A", targets |-> targets, setId |-> "", props |-> <<>>]
Text(name, t) == [A(name, <<t>>) EXCEPT !.type = "TXT"]
Weighing(ep) == [ep EXCEPT !.props = "weight" :> "5" @@ "remark" :> "db"]
Marked(label, type) == <<type>> \o label
Mark(ep) == Text([ep.name EXCEPT ![1] = Marked(@, ep.type)], Quoted("mark"))
Owned(ep) == <<ep, Mark(ep)>>

Changes(c, old, new, d) == [create |-> c, updateOld |-> old, updateNew |-> new, delete |-> d]

Birth == Changes(Owned(A(Www, <<One>>)), <<>>, <<>>, <<>>)
Move  == Changes(<<>>, Owned(A(Www, <<One>>)), Owned(A(Www, <<Two>>)), <<>>)
\* With the mark of www gone, its zone would be empty but for the base record.
Death == Changes(<<>>, <<>>, <<>>, Owned(A(Www, <<One>>)))
\* Both zones in one request, a weight, and a name of no zone.
Both  == Changes(<<A(Elsewhere, <<One>>)>>,
                 Owned(A(Www, <<One>>)), <<Weighing(A(Www, <<One, Two>>)), Mark(A(Www, <<One, Two>>))>>,
                 <<A(Api, <<Two>>)>>)
\* A name that is the zone itself, with a TXT record: their marks lie in the parent zone.
ApexDeath == Changes(<<>>, <<>>, <<>>,
                     Owned(A(Apex, <<One>>)) \o Owned(Text(Apex, Plain("note"))))
\* The record is there, made by hand.
Clash == Changes(<<A(Api, <<Two>>)>>, <<>>, <<>>, <<>>)
\* One record asked for by two endpoints that differ in their set identifier.
AgainAs(ep) == [ep EXCEPT !.setId = "second"]
Twice == Changes(<<A(Www, <<Two>>), AgainAs(A(Www, <<Two>>))>>, <<>>, <<>>, <<>>)
\* One record to be removed by two such, and one to be added behind it.
Doubled == Changes(<<>>, <<A(Www, <<One>>)>>, <<A(Www, <<Two>>)>>, <<AgainAs(A(Www, <<One>>))>>)
\* The base record itself is asked for.
Base == Changes(<<Text(Apex, Plain("tencent_provider_record"))>>, <<>>, <<>>, <<>>)
Nothing == Changes(<<>>, <<>>, <<>>, <<>>)

Rec(id, zone, sub, type, value) ==
  [id |-> id, zone |-> zone, sub |-> Host(sub), type |-> type, value |-> value,
   weight |-> {}, remark |-> ""]
\* The mark of record r.
MarkOf(r, id) ==
  [r EXCEPT !.id = id, !.sub = [@ EXCEPT ![1] = Marked(@, r.type)], !.type = "TXT",
            !.value = Plain("mark")]

\* A record of the full name of www in the parent zone, one of the parent's own,
\* and what ExternalDNS made of www: the nested zone has no base record.
WwwRecord == Rec(3, "nested", <<"www">>, "A", One)
Standing == {Rec(1, "parent", <<"www", "sub">>, "A", One),
             Rec(2, "parent", <<"api">>, "A", Two),
             WwwRecord, MarkOf(WwwRecord, 4)}
\* The nested zone has its base record.
Based == Standing \cup {Rec(5, "nested", <<>>, "TXT", Plain("tencent_provider_record"))}
\* The nested zone has another TXT record where the base record would be.
ApexOwned == {r \in Standing : r.zone = "parent"} \cup
             {Rec(3, "nested", <<>>, "A", One), Rec(4, "nested", <<>>, "TXT", Plain("note")),
              MarkOf(Rec(0, "parent", <<"sub">>, "A", One), 5),
              MarkOf(Rec(0, "parent", <<"sub">>, "TXT", One), 6)}
\* A zone still empty.
Fresh == {r \in Standing : r.zone = "parent"}

AnyStart == {Fresh, Standing, Based, ApexOwned}
StandingOrBased == {Standing, Based}
AllRequests == {Birth, Move, Death, Both, ApexDeath, Clash, Twice, Doubled, Base, Nothing}
RacingRequests == {Move, Death, Doubled}

NoRecords == {}
Note == {Rec(0, "nested", <<>>, "TXT", Plain("note"))}
HandlerSymmetry == Permutations(Handlers)
=============================================================================
