---------------------------- MODULE MCDhcpServer ----------------------------
(***************************************************************************)
(* Two small instances of DhcpServer.                                      *)
(*   Roomy: two clients without a reservation and five open addresses, the *)
(*     smallest pool for which NeverExhausted is not vacuous.              *)
(*   Tight: fewer open addresses than the clients can pin, a router apart  *)
(*     from the server, and the reservations a careless file may hold: one *)
(*     client twice, the server's own address, a mac spelt in capitals, an *)
(*     entry without an address.                                           *)
(***************************************************************************)
EXTENDS DhcpServer

CONSTANTS m1, m2, s1, s2, capitals

RoomyReservations == << >>

TightReservations == <<[mac |-> s1, ip |-> 2], [mac |-> s2, ip |-> 7],
                       [mac |-> s1, ip |-> 3], [mac |-> capitals, ip |-> 4],
                       [mac |-> m1, ip |-> NoIp]>>

=============================================================================
