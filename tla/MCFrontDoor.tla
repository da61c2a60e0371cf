------------------------------ MODULE MCFrontDoor ------------------------------
(* An instance of FrontDoor: hosts that are listed, under a listed one, a   *)
(* parent or a neighbour of one, a group's name, in other spellings, and a  *)
(* few header lists with what the handler treats specially.                 *)
EXTENDS FrontDoor

CONSTANTS a1, a2, a3, junk, v1, v2

MCLowered == [l \in {"ASSETS1"} |-> "assets1"]

MCFiles == << <<junk, a2, a1, a2>>, <<a1>> >>

MCHosts ==
  {Com("assets1"), Com("d2"), Com("xvcf1"), Cn("assets2"), Com("dlassets"),
   Cn("dlassets2"),
   <<"ASSETS1", "xboxlive", "com", "">>,
   <<"dl">> \o Com("dlassets"),
   Com("assets1") \o <<"net">>,
   <<"xboxlive", "com">>,
   Com("other"),
   <<"xbox-assets">>,
   <<"">>}

MCRequestHeaders ==
  {<< >>,
   <<<<"host", v1>>, <<"content-length", v1>>, <<"range", v1>>>>,
   <<<<"connection", {"x-test", "x-real-ip"}>>, <<"x-test", v1>>, <<"x-real-ip", v2>>>>,
   <<<<"transfer-encoding", v1>>, <<"te", v1>>, <<"x-forwarded-for", v2>>>>,
   <<<<"x-test", v1>>, <<"x-test", v2>>>>}

MCResponseHeaders ==
  {<<<<"content-length", v1>>, <<"x-test", v1>>, <<"x-test", v2>>>>,
   <<<<"connection", {"x-test"}>>, <<"x-test", v1>>, <<"transfer-encoding", v1>>>>}
=============================================================================
