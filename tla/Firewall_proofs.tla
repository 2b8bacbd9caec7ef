-------------------------- MODULE Firewall_proofs --------------------------
(***************************************************************************)
(* Proofs about Firewall: what the two Bloom filters guarantee, for all    *)
(* hashes, all rules and all packets.                                      *)
(***************************************************************************)
EXTENDS Firewall, SequenceTheorems, TLAPS

\* The opposite of the opposite of a flow is the flow.
LEMMA ReplyReply ==
    ASSUME NEW f \in Flow
    PROVE  Reply(f) \in Flow /\ Reply(Reply(f)) = f
<1>1. Opposite[f.transport] \in Transport
  BY HashAssumption DEF Flow
<1>2. Opposite[Opposite[f.transport]] = f.transport
  BY HashAssumption DEF Flow
<1>3. f = [src |-> f.src, dst |-> f.dst, transport |-> f.transport]
  BY DEF Flow
<1> QED
  BY <1>1, <1>2, <1>3 DEF Flow, Reply

\* What a packet records is a flow.
LEMMA RecordedIsFlow ==
    ASSUME NEW p \in Packet
    PROVE  Recorded(p) \subseteq Flow
BY DEF Recorded, Records, IsFlow, Packet

\* The invariant behind both directions of the firewall.
FInv == TypeOK /\ FiltersMatch

LEMMA InitFInv == Init => FInv
<1> SUFFICES ASSUME Init
             PROVE  FInv
  OBVIOUS
<1>1. Len(table_entries) \in Nat
  BY RulesAssumption
<1>2. (bloomFilter1 = {}) /\ (bloomFilter2 = {}) /\ (opened = {})
  BY DEF Init
<1>3. counters \in [forwarded : Nat, dropped : Nat]
  BY DEF Init
<1>4. tally \in [left : Nat, lost : Nat]
  BY DEF Init
<1>5. installed \in 0 .. Len(table_entries)
  BY <1>1 DEF Init
<1>6. startup \in {"installing", "done", "failed"} /\ early \in BOOLEAN
  BY DEF Init
<1>7. TypeOK
  BY <1>2, <1>3, <1>4, <1>5, <1>6 DEF TypeOK
<1>8. FiltersMatch
  BY <1>2 DEF FiltersMatch
<1> QED
  BY <1>7, <1>8 DEF FInv

LEMMA NextFInv == FInv /\ [Next]_vars => FInv'
<1> SUFFICES ASSUME FInv, [Next]_vars
             PROVE  FInv'
  OBVIOUS
<1> USE DEF FInv
<1>len. Len(table_entries) \in Nat
  BY RulesAssumption
<1>1. ASSUME NEW p \in Packet, Receive(p)
      PROVE  FInv'
  <2>1. Recorded(p) \subseteq Flow
    BY RecordedIsFlow
  <2>2. Counted(p) \in [forwarded : Nat, dropped : Nat]
    BY DEF Counted, Increment, TypeOK
  <2>3. tally' \in [left : Nat, lost : Nat]
    BY <1>1 DEF Receive, Increment, TypeOK
  <2>4. TypeOK'
    <3>1. (bloomFilter1' \subseteq Bit) /\ (bloomFilter2' \subseteq Bit)
      BY <1>1, <2>1, HashAssumption DEF Receive, TypeOK
    <3>2. opened' \subseteq Flow
      BY <1>1, <2>1 DEF Receive, TypeOK
    <3>3. early' \in BOOLEAN
      BY <1>1 DEF Receive
    <3> QED
      BY <1>1, <2>2, <2>3, <3>1, <3>2, <3>3 DEF Receive, TypeOK
  <2>5. FiltersMatch'
    BY <1>1 DEF Receive, FiltersMatch
  <2> QED
    BY <2>4, <2>5
<1>2. CASE InstallRule
  BY <1>2, <1>len DEF InstallRule, TypeOK, FiltersMatch
<1>3. CASE InstallFails
  BY <1>3 DEF InstallFails, TypeOK, FiltersMatch
<1>4. CASE Started
  BY <1>4 DEF Started, TypeOK, FiltersMatch
<1>5. CASE UNCHANGED vars
  BY <1>5 DEF vars, TypeOK, FiltersMatch
<1> QED
  BY <1>1, <1>2, <1>3, <1>4, <1>5 DEF Next

LEMMA Filters == Spec => []FInv
BY InitFInv, NextFInv, PTL DEF Spec

\* The types of the filters, the counters and the plugin's progress.
THEOREM FirewallTypes == Spec => []TypeOK
BY Filters, PTL DEF FInv

\* d2_fwd_firewall.p4:240: the firewall has no false negative, whatever the
\* hashes and the rules: a reply to a recorded flow is let in, unless the parser
\* takes it for DHCP.
THEOREM NoFalseNegative == Spec => []RepliesAdmitted
<1>1. FInv => RepliesAdmitted
  <2> SUFFICES ASSUME FInv, NEW f \in opened, NEW port \in Port \ {LAN_PORT},
                      NEW long \in BOOLEAN,
                      ~ (Opposite[f.transport] \in ToDhcp /\ long)
               PROVE  LET reply  == [kind |-> "transport", port |-> port,
                                     flow |-> Reply(f), long |-> long]
                          egress == EgressPort("ipv4Lpm", f.src)
                      IN  Routed(reply) /\ internalMacHit(egress)
                            => Out(reply) = egress
    BY DEF RepliesAdmitted
  <2> DEFINE reply == [kind |-> "transport", port |-> port, flow |-> Reply(f),
                       long |-> long]
  <2>1. f \in Flow
    BY DEF FInv, TypeOK
  <2>2. Reply(reply.flow) = f
    BY <2>1, ReplyReply
  <2>3. Admitted(reply)
    BY <2>2 DEF Admitted, FInv, FiltersMatch
  <2>4. reply.kind = "transport" /\ reply.flow.dst = f.src
    BY DEF Reply
  <2>5. IsFlow(reply) /\ ~ IsDhcp(reply)
    BY <2>4 DEF IsFlow, IsDhcp, Reply
  <2> QED
    BY <2>3, <2>4, <2>5 DEF Out, DoForward
<1> QED
  BY <1>1, Filters, PTL

\* d2_fwd_firewall.p4:240, "only allow responses to LAN-initiated flows": what
\* is let in collides with recorded flows in both filters, even while the rules
\* are being installed or after the installation has failed.
THEOREM Solicited == Spec => []OnlySolicited
<1>1. FInv => OnlySolicited
  <2> SUFFICES ASSUME FInv, NEW p \in Packet, IsFlow(p), p.port # LAN_PORT,
                      Out(p) # Dropped
               PROVE  \E f, g \in opened : /\ crc16[f] = crc16[Reply(p.flow)]
                                           /\ crc32[g] = crc32[Reply(p.flow)]
    BY DEF OnlySolicited
  <2>1. p.kind = "transport" /\ ~ IsDhcp(p)
    BY DEF IsFlow
  <2>2. DoForward(p)
    BY <2>1 DEF Out
  <2>3. /\ crc16[Reply(p.flow)] \in bloomFilter1
        /\ crc32[Reply(p.flow)] \in bloomFilter2
    BY <2>2 DEF DoForward, Admitted
  <2> QED
    BY <2>3 DEF FInv, FiltersMatch
<1> QED
  BY <1>1, Filters, PTL

-----------------------------------------------------------------------------
(* The counters *)

\* With all rules in place, a routed packet has its internalMacLookup rule.
LEMMA RoutedHasMac ==
    ASSUME MacRulesComplete, installed = Len(table_entries),
           NEW a \in Address, EgressPort("ipv4Lpm", a) # Dropped
    PROVE  /\ internalMacHit(EgressPort("ipv4Lpm", a))
           /\ EgressPort("ipv4Lpm", a) \in Port
<1> DEFINE hits == Hits("ipv4Lpm", a)
           r == CHOOSE x \in hits : TRUE
<1>1. Rules = {table_entries[i] : i \in DOMAIN table_entries}
  BY RulesAssumption DEF Rules
<1>2. hits # {} /\ EgressPort("ipv4Lpm", a) = r.port
  BY DEF EgressPort
<1>3. r \in hits
  BY <1>2
<1>4. r \in Rules /\ r.table = "ipv4Lpm"
  BY <1>3 DEF Hits
<1>5. PICK i \in DOMAIN table_entries : r = table_entries[i]
  BY <1>1, <1>4
<1>6. PICK j \in DOMAIN table_entries :
        /\ table_entries[j].table = "internalMacLookup"
        /\ table_entries[j].port = r.port
  BY <1>4, <1>5 DEF MacRulesComplete
<1>7. r \in Rule
  <2>1. table_entries \in Seq(Rule)
    BY RulesAssumption
  <2>2. DOMAIN table_entries = 1 .. Len(table_entries)
    BY <2>1
  <2>3. i \in 1 .. Len(table_entries)
    BY <1>5, <2>2
  <2>4. table_entries[i] \in Rule
    BY <2>1, <2>3, ElementOfSeq
  <2> QED
    BY <1>5, <2>4
<1>8. r.port \in Port
  BY <1>7 DEF Rule
<1> QED
  BY <1>1, <1>2, <1>6, <1>8 DEF internalMacHit

CInv == FInv /\ CountersTruthful

LEMMA ReceiveCounts ==
    ASSUME CInv, NEW p \in Packet, Receive(p)
    PROVE  CountersTruthful'
<1>1. /\ counters \in [forwarded : Nat, dropped : Nat]
      /\ tally \in [left : Nat, lost : Nat]
      /\ installed \in 0 .. Len(table_entries) /\ Len(table_entries) \in Nat
  BY RulesAssumption DEF CInv, FInv, TypeOK
<1>2. IsFlow(p) => p.kind = "transport" /\ ~ IsDhcp(p)
  BY DEF IsFlow
\* A packet of a flow that leaves the switch was sent on.
<1>3. IsFlow(p) /\ Out(p) # Dropped => DoForward(p)
  BY <1>2 DEF Out
<1>4. DoForward(p) => IsFlow(p)
  BY DEF DoForward
\* And with all the rules one that was sent on leaves.
<1>5. ASSUME MacRulesComplete, ~ early', DoForward(p)
      PROVE  Out(p) # Dropped
  <2>1. installed = Len(table_entries)
    <3>1. ~ (installed < Len(table_entries))
      BY <1>5 DEF Receive
    <3> QED
      BY <1>1, <3>1
  <2>2. p.flow.dst \in Address /\ Routed(p)
    <3>1. p.kind = "transport" /\ Routed(p)
      BY <1>2, <1>4, <1>5 DEF DoForward
    <3>2. p.flow \in Flow
      BY <3>1 DEF Packet
    <3> QED
      BY <3>1, <3>2 DEF Flow
  <2>3. /\ internalMacHit(EgressPort("ipv4Lpm", p.flow.dst))
        /\ EgressPort("ipv4Lpm", p.flow.dst) # Dropped
    BY <1>5, <2>1, <2>2, RoutedHasMac DEF Routed
  <2> QED
    BY <1>2, <1>4, <1>5, <2>3 DEF Out
<1>6. /\ counters'.forwarded = counters.forwarded + Increment(DoForward(p))
      /\ counters'.dropped = counters.dropped + Increment(Out(p) = Dropped)
      /\ tally'.left = tally.left + Increment(IsFlow(p) /\ Out(p) # Dropped)
      /\ tally'.lost = tally.lost + Increment(Out(p) = Dropped)
  BY DEF Receive, Counted
<1>7. /\ counters.dropped = tally.lost
      /\ counters.forwarded \in tally.left .. tally.left + tally.lost
      /\ MacRulesComplete /\ ~ early => counters.forwarded = tally.left
  BY DEF CInv, CountersTruthful
<1>8. counters'.forwarded \in tally'.left .. tally'.left + tally'.lost
  BY <1>1, <1>3, <1>4, <1>6, <1>7 DEF Increment
<1>9. MacRulesComplete /\ ~ early' => counters'.forwarded = tally'.left
  <2> SUFFICES ASSUME MacRulesComplete, ~ early' PROVE counters'.forwarded = tally'.left
    OBVIOUS
  <2>1. ~ early
    BY DEF Receive
  <2>2. DoForward(p) <=> (IsFlow(p) /\ Out(p) # Dropped)
    BY <1>3, <1>4, <1>5
  <2> QED
    BY <1>6, <1>7, <2>1, <2>2 DEF Increment
<1> QED
  BY <1>6, <1>7, <1>8, <1>9 DEF CountersTruthful, MacRulesComplete

LEMMA NextCInv == CInv /\ [Next]_vars => CInv'
<1> SUFFICES ASSUME CInv, [Next]_vars
             PROVE  CountersTruthful'
  BY NextFInv DEF CInv
<1>1. ASSUME NEW p \in Packet, Receive(p)
      PROVE  CountersTruthful'
  BY <1>1, ReceiveCounts
<1>2. CASE UNCHANGED <<counters, tally, early>>
  BY <1>2 DEF CInv, CountersTruthful, MacRulesComplete
<1>3. CASE InstallRule \/ InstallFails \/ Started \/ UNCHANGED vars
  BY <1>2, <1>3 DEF InstallRule, InstallFails, Started, vars
<1> QED
  BY <1>1, <1>3 DEF Next

\* firewall_app.py:9-11: no packet that left is missing from the counters, and
\* none is counted twice but one that was dropped; once every port the router
\* forwards to has its MAC rule, and if no packet came before, they are exact.
THEOREM Truthful == Spec => []CountersTruthful
<1>1. Init => CInv
  BY InitFInv DEF CInv, Init, CountersTruthful
<1> QED
  BY <1>1, NextCInv, PTL DEF Spec, CInv

=============================================================================
