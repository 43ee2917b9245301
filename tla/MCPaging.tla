------------------------------ MODULE MCPaging ------------------------------
(* Up to five items in pages of at most two.                                 *)
EXTENDS Paging

AllKinds == {"domains", "records", "zones", "zoneRecords"}
MCPlaces == 0..6
MCUnwanted == [k \in AllKinds |-> IF k = "zoneRecords" THEN {} ELSE {3}]
SomeStarts == {{}, {2}, {1, 3, 5}, {0, 2, 3, 4, 6}}
=============================================================================
