---------------------------- MODULE MCRequestPath ----------------------------
(***************************************************************************)
(* A small instance of RequestPath: one request over every way of up to    *)
(* two proxies, and another of the same client or a different one over a   *)
(* few; and both for everything there is to ask for, with no id, with one  *)
(* of the client's own, with an unreadable one, and with the first that is *)
(* made here.                                                              *)
(***************************************************************************)
EXTENDS RequestPath

CONSTANTS r1, r2

Health(clients, ways) == [client : clients, way : ways, kind : {"health"}, id : {NoId}]

Asking ==
  [client : {"c1"}, way : {<<"xff">>}, kind : {"page", "unmatched"},
   id : {NoId, <<"given">>, OpaqueId, <<"uuid", 0>>}]

FewWays == {<<>>, <<"xff">>, <<"forwarded", "forwarded line">>}

OneAndOther ==
  [r \in Requests |-> Asking \cup IF r = r1 THEN Health({"c1"}, SeqOf(Customs, 2))
                                  ELSE Health({"c1", "c2"}, FewWays)]

ProxyAddresses == <<"p1", "p2">>
=============================================================================
