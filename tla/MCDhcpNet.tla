------------------------------ MODULE MCDhcpNet ------------------------------
(***************************************************************************)
(* Two clients and the smallest pool that cannot be exhausted, five open   *)
(* addresses; the router is the server.                                    *)
(***************************************************************************)
EXTENDS DhcpNet

CONSTANTS m1, m2

NoReservations == << >>

=============================================================================
