---------------------------- MODULE MCCnfControl ----------------------------
(***************************************************************************)
(* The two CNFs of cnf_registry.yaml, two hosts and the registry's         *)
(* threshold of two leases.                                                *)
(***************************************************************************)
EXTENDS CnfControl

CONSTANTS arp_proxy, dhcp_server

Both == <<arp_proxy, dhcp_server>>

=============================================================================
