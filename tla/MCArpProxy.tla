----------------------------- MODULE MCArpProxy -----------------------------
(***************************************************************************)
(* Two REST threads; updates of both fields, of one, to an interface that  *)
(* does not exist, and with malformed entries.                             *)
(***************************************************************************)
EXTENDS ArpProxy

CONSTANTS w1, w2, ip1, ip2, mac1, mac2, eth0, eth1, gone

OneMac == [ip \in Ip |-> IF ip = ip1 THEN mac1 ELSE NoMac]
OtherMac == [ip \in Ip |-> IF ip = ip1 THEN mac2 ELSE NoMac]

SomeBodies == {[interface |-> eth0, table |-> OneMac],
               [interface |-> eth1, table |-> OtherMac],
               [interface |-> gone],
               [table |-> OtherMac],
               [interface |-> eth1, table |-> Malformed]}

=============================================================================
