------------------------------ MODULE Firewall ------------------------------
(***************************************************************************)
(* The stateful firewall of switch d2, p4/d2_fwd_firewall.p4, and the      *)
(* installation of its rules by controller/plugins/firewall_app.py.        *)
(*                                                                         *)
(* The pipeline handles one packet at a time.  The two Bloom filters are   *)
(* its only memory: a flow from LAN_PORT sets a bit in each, and a packet  *)
(* from any other port is let in if the bits of the opposite flow are set. *)
(* The plugin installs the rules one by one while packets already arrive,  *)
(* and gives up at the first error.                                        *)
(*                                                                         *)
(* Headers are cut down to what the control reads.  The TTL, the rewritten *)
(* MAC addresses and the checksum are left out.                            *)
(***************************************************************************)
EXTENDS Naturals, Sequences, FiniteSets, FiniteSetsExt

CONSTANTS
    LAN_PORT, LAN_PORT2, ARP_PROXY_PORT, DHCP_PORT,
    Dropped,         \* no port
    Address,         \* IPv4 addresses
    Transport,       \* the transport ports of a packet, with its protocol
    Opposite,        \* the same with source and destination exchanged
    ToDhcp,          \* those of UDP to port 67 or 68
    Bit,             \* positions of a Bloom filter
    crc16, crc32,    \* flow -> position: the two hashes
    table_entries,   \* of d2_firewall.yaml, in order
    MaxPackets       \* bound: packets counted

Port == {LAN_PORT, LAN_PORT2, ARP_PROXY_PORT, DHCP_PORT}

Flow == [src : Address, dst : Address, transport : Transport]

\* A frame: ARP with the address it is for, TCP or UDP, long if a BOOTP header's
\* worth of bytes follows, and anything else.
Packet == [kind : {"arp"}, port : Port, to : Address]
            \cup [kind : {"transport"}, port : Port, flow : Flow, long : BOOLEAN]
            \cup [kind : {"other"}, port : Port]

LpmTables == {"ipv4Lpm", "arpRoute", "dhcpRoute"}

\* A rule of an lpm table covers the addresses of its prefix; one of
\* internalMacLookup has a port for its key.
Rule == [table : LpmTables, covers : SUBSET Address, length : Nat, port : Port]
          \cup [table : {"internalMacLookup"}, port : Port]

ASSUME PortsAssumption ==
    /\ Cardinality(Port) = 4
    /\ Dropped \notin Port

ASSUME HashAssumption ==
    /\ crc16 \in [Flow -> Bit] /\ crc32 \in [Flow -> Bit]
    /\ Opposite \in [Transport -> Transport]
    /\ \A t \in Transport : Opposite[Opposite[t]] = t
    /\ ToDhcp \subseteq Transport

\* No two rules have the same key; the switch would refuse the second.
ASSUME RulesAssumption ==
    /\ table_entries \in Seq(Rule)
    /\ \A i, j \in DOMAIN table_entries :
         LET r == table_entries[i]  s == table_entries[j]
         IN  /\ r.table = s.table /\ r.table \in LpmTables
             /\ r.length = s.length /\ r.covers \cap s.covers # {}
             => i = j

VARIABLES
    bloomFilter1,    \* the positions that are set
    bloomFilter2,
    counters,        \* forwardedCounter and droppedCounter
    installed,       \* how many rules are installed
    startup,         \* of the plugin: "installing", "done" or "failed"
    opened,          \* the flows recorded so far
    early,           \* a packet came before the rules were complete
    tally            \* how many packets of a flow left, how many packets did not

vars == <<bloomFilter1, bloomFilter2, counters, installed, startup, opened,
          early, tally>>

Init ==
    /\ bloomFilter1 = {} /\ bloomFilter2 = {}
    /\ counters = [forwarded |-> 0, dropped |-> 0]
    /\ installed = 0
    /\ startup = "installing"
    /\ opened = {}
    /\ early = FALSE
    /\ tally = [left |-> 0, lost |-> 0]

-----------------------------------------------------------------------------
(* The tables *)

Rules == {table_entries[i] : i \in 1 .. installed}

\* The rules of an lpm table that cover an address, the longest prefix of them.
Hits(table, address) ==
    LET covering == {r \in Rules : r.table = table /\ address \in r.covers}
    IN  {r \in covering : \A s \in covering : s.length <= r.length}

\* forward_to_port or forward of the rule that is hit, else the default, drop.
EgressPort(table, address) ==
    IF Hits(table, address) = {} THEN Dropped
    ELSE (CHOOSE r \in Hits(table, address) : TRUE).port

internalMacHit(port) == \E r \in Rules : r.table = "internalMacLookup" /\ r.port = port

-----------------------------------------------------------------------------
(* MyParser *)

\* The port alone says so.  If the packet is too short the parser stops, and
\* there is no DHCP header.
IsDhcp(p) == p.kind = "transport" /\ p.flow.transport \in ToDhcp /\ p.long

IsFlow(p) == p.kind = "transport" /\ ~ IsDhcp(p)

-----------------------------------------------------------------------------
(* MyIngress *)

Reply(flow) == [src |-> flow.dst, dst |-> flow.src,
                transport |-> Opposite[flow.transport]]

\* An ARP frame: requests go to the proxy, the proxy's replies to their LAN.
ArpPort(p) ==
    CASE p.port \in {LAN_PORT, LAN_PORT2} -> ARP_PROXY_PORT
      [] p.port = ARP_PROXY_PORT          -> EgressPort("arpRoute", p.to)
      [] OTHER                            -> Dropped

DhcpPort(p) ==
    CASE p.port = LAN_PORT2 -> DHCP_PORT
      [] p.port = DHCP_PORT -> EgressPort("dhcpRoute", p.flow.dst)
      [] OTHER              -> Dropped

Routed(p) == EgressPort("ipv4Lpm", p.flow.dst) # Dropped

\* An outbound packet that is routed is recorded, whatever becomes of it.
Records(p) == IsFlow(p) /\ p.port = LAN_PORT /\ Routed(p)

\* Faulty variant: an inbound packet is looked up by its own flow.
Admitted_OwnFlow(p) ==
    \/ p.port = LAN_PORT
    \/ crc16[p.flow] \in bloomFilter1 /\ crc32[p.flow] \in bloomFilter2

\* Faulty variant: one of the filters is enough.
Admitted_Either(p) ==
    \/ p.port = LAN_PORT
    \/ \/ crc16[Reply(p.flow)] \in bloomFilter1
       \/ crc32[Reply(p.flow)] \in bloomFilter2

Admitted(p) ==
    \/ p.port = LAN_PORT
    \/ /\ crc16[Reply(p.flow)] \in bloomFilter1
       /\ crc32[Reply(p.flow)] \in bloomFilter2

\* do_forward: internalMacLookup is applied and the packet is counted.
DoForward(p) == IsFlow(p) /\ Routed(p) /\ Admitted(p)

\* The port a packet leaves by.
Out(p) ==
    CASE p.kind = "arp"   -> ArpPort(p)
      [] p.kind = "other" -> Dropped
      [] IsDhcp(p)        -> DhcpPort(p)
      [] IsFlow(p)        ->
           LET port == EgressPort("ipv4Lpm", p.flow.dst)
           IN  IF DoForward(p) /\ internalMacHit(port) THEN port ELSE Dropped

Increment(b) == IF b THEN 1 ELSE 0

\* Faulty variant: a packet is counted when it is admitted, routed or not.
Counted_Admitted(p) ==
    [forwarded |-> counters.forwarded
                     + Increment(IsFlow(p) /\ Admitted(p)),
     dropped   |-> counters.dropped + Increment(Out(p) = Dropped)]

\* drop counts every packet it drops; one that misses internalMacLookup is
\* dropped and counted as forwarded all the same.
Counted(p) ==
    [forwarded |-> counters.forwarded + Increment(DoForward(p)),
     dropped   |-> counters.dropped + Increment(Out(p) = Dropped)]

Recorded(p) == IF Records(p) THEN {p.flow} ELSE {}

Receive(p) ==
    /\ tally.left + tally.lost < MaxPackets
    /\ bloomFilter1' = bloomFilter1 \cup {crc16[f] : f \in Recorded(p)}
    /\ bloomFilter2' = bloomFilter2 \cup {crc32[f] : f \in Recorded(p)}
    /\ opened' = opened \cup Recorded(p)
    /\ counters' = Counted(p)
    /\ tally' = [left |-> tally.left + Increment(IsFlow(p) /\ Out(p) # Dropped),
                 lost |-> tally.lost + Increment(Out(p) = Dropped)]
    /\ early' = (early \/ installed < Len(table_entries))
    /\ UNCHANGED <<installed, startup>>

-----------------------------------------------------------------------------
(* startup() of firewall_app *)

\* Faulty variant: one rule too many.
InstallRule_OffByOne ==
    /\ startup = "installing"
    /\ installed <= Len(table_entries)
    /\ installed' = installed + 1
    /\ UNCHANGED <<bloomFilter1, bloomFilter2, counters, startup, opened,
                   early, tally>>

InstallRule ==
    /\ startup = "installing"
    /\ installed < Len(table_entries)
    /\ installed' = installed + 1
    /\ UNCHANGED <<bloomFilter1, bloomFilter2, counters, startup, opened,
                   early, tally>>

\* An error ends the installation for good; what is installed stays.
InstallFails ==
    /\ startup = "installing"
    /\ installed < Len(table_entries)
    /\ startup' = "failed"
    /\ UNCHANGED <<bloomFilter1, bloomFilter2, counters, installed, opened,
                   early, tally>>

\* All rules are in; the counters are polled from now on.
Started ==
    /\ startup = "installing"
    /\ installed = Len(table_entries)
    /\ startup' = "done"
    /\ UNCHANGED <<bloomFilter1, bloomFilter2, counters, installed, opened,
                   early, tally>>

Next ==
    \/ \E p \in Packet : Receive(p)
    \/ InstallRule
    \/ InstallFails
    \/ Started

Spec == Init /\ [][Next]_vars

-----------------------------------------------------------------------------
(* Properties *)

\* The types of the filters, the counters and the plugin's progress.
TypeOK ==
    /\ bloomFilter1 \subseteq Bit /\ bloomFilter2 \subseteq Bit
    /\ counters \in [forwarded : Nat, dropped : Nat]
    /\ installed \in 0 .. Len(table_entries)
    /\ startup \in {"installing", "done", "failed"}
    /\ opened \subseteq Flow
    /\ early \in BOOLEAN
    /\ tally \in [left : Nat, lost : Nat]

\* d2_fwd_firewall.p4:240: a reply to a flow that was recorded is let in from
\* whatever port it comes, as soon as the rules for it are there: the filters
\* have no false negative, although the flow is looked up from its other end.
\* A long reply to UDP port 67 or 68 is excepted: the parser takes it for DHCP
\* (:87-104), and the filters are not asked; from LAN_PORT2 it goes to the DHCP
\* server, not to its host, and from most ports it is dropped (:217-223).
RepliesAdmitted ==
    \A f \in opened, port \in Port \ {LAN_PORT}, long \in BOOLEAN :
        LET reply  == [kind |-> "transport", port |-> port, flow |-> Reply(f),
                       long |-> long]
            egress == EgressPort("ipv4Lpm", f.src)
        IN  /\ ~ (Opposite[f.transport] \in ToDhcp /\ long)
            /\ Routed(reply) /\ internalMacHit(egress)
            => Out(reply) = egress

\* d2_fwd_firewall.p4:240, "only allow responses to LAN-initiated flows": what
\* is let in from another port answers a recorded flow, up to a collision in
\* both of the filters, however few of the rules are installed.  What the parser
\* takes for DHCP passes the firewall by.
OnlySolicited ==
    \A p \in Packet :
        IsFlow(p) /\ p.port # LAN_PORT /\ Out(p) # Dropped =>
            \E f, g \in opened : /\ crc16[f] = crc16[Reply(p.flow)]
                                 /\ crc32[g] = crc32[Reply(p.flow)]

\* Every port the router forwards to has its internalMacLookup rule.
MacRulesComplete ==
    \A i \in DOMAIN table_entries :
        table_entries[i].table = "ipv4Lpm" =>
            \E j \in DOMAIN table_entries :
                /\ table_entries[j].table = "internalMacLookup"
                /\ table_entries[j].port = table_entries[i].port

\* firewall_app.py:9-11: the counters the plugin reports say how many packets
\* of a flow left the switch and how many packets were dropped.  While the rules
\* are being installed, a packet may count as both, but only one that was
\* dropped, and none that left is missing; the count of those forwarded is exact
\* if no packet came before the last rule.
CountersTruthful ==
    /\ counters.dropped = tally.lost
    /\ counters.forwarded \in tally.left .. tally.left + tally.lost
    /\ MacRulesComplete /\ ~ early => counters.forwarded = tally.left

\* What makes the above inductive: the filters hold the recorded flows.
FiltersMatch ==
    /\ bloomFilter1 = {crc16[f] : f \in opened}
    /\ bloomFilter2 = {crc32[f] : f \in opened}

=============================================================================
