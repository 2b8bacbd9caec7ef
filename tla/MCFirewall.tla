----------------------------- MODULE MCFirewall -----------------------------
(***************************************************************************)
(* One host behind LAN_PORT, two behind LAN_PORT2 (one of them without a   *)
(* route), and rules in the order of d2_firewall.yaml.                     *)
(* query and answer are UDP from and to port 68, as a program other than a *)
(* DHCP client may use it: an answer is a plain flow if it is short.       *)
(* The hashes have three positions each: some flows collide in one filter, *)
(* some in the other, and a few in both, each with a different flow.       *)
(***************************************************************************)
EXTENDS Firewall, TLC

CONSTANTS lan, remote, unrouted, query, answer

OppositePorts == (query :> answer) @@ (answer :> query)

Number == [f \in Flow |->
             (CASE f.src = lan -> 0 [] f.src = remote -> 1 [] f.src = unrouted -> 2)
               + 3 * (CASE f.dst = lan -> 0 [] f.dst = remote -> 1
                        [] f.dst = unrouted -> 2)
               + 9 * (IF f.transport = query THEN 0 ELSE 1)]

HashOne == [f \in Flow |-> Number[f] % 3]
HashTwo == [f \in Flow |-> (Number[f] \div 3) % 3]

Lpm(table, covers, length, port) ==
    [table |-> table, covers |-> covers, length |-> length, port |-> port]

d2_firewall ==
    <<Lpm("ipv4Lpm", {lan}, 32, 1),
      Lpm("ipv4Lpm", {remote}, 32, 2),
      [table |-> "internalMacLookup", port |-> 1],
      [table |-> "internalMacLookup", port |-> 2],
      Lpm("arpRoute", {lan}, 24, 1),
      Lpm("arpRoute", {remote, unrouted}, 24, 2),
      Lpm("dhcpRoute", {remote, unrouted}, 24, 2)>>

=============================================================================
