---------------------------- MODULE SelfLearning ----------------------------
(***************************************************************************)
(* The plugin self_learning and the L2 switches it programs:               *)
(* controller/plugins/self_learning.py and p4/l2switch.p4.                 *)
(*                                                                         *)
(* A frame whose source misses sMacLookup is cloned to the controller.     *)
(* The clone travels on the switch's stream until the switch's read thread *)
(* makes a packet_in event of it; the plugin's thread takes its events in  *)
(* order (that much EventBus promises) and installs two rules per MAC,     *)
(* one gRPC write each.  Frames keep arriving between the two writes.      *)
(*                                                                         *)
(* A switch may lose rules behind the plugin's back.  Whoever notices      *)
(* publishes state_reset or entry_removed some time later; the repository  *)
(* holds the two handlers but no publisher, which is external here.  It    *)
(* publishes from a thread of its own: nothing orders a notice and a clone *)
(* that was on its way before the loss.                                    *)
(***************************************************************************)
EXTENDS Naturals, Sequences, FiniteSets

CONSTANTS
    Device,          \* the L2 switches, L2_DEVICES
    Host,            \* the source MACs
    Port,            \* switch ports
    NoPort,          \* "no rule"
    PortOf,          \* device -> host -> the port its frames enter by at first
    TableSize,       \* entries a table holds (512 in l2switch.p4)
    MaxInbox,        \* bound: a switch's clones in flight and events waiting
    MaxFaults,       \* bound: writes that fail for no reason in the tables
    MaxLosses,       \* bound: rules lost behind the plugin's back
    LossKinds,       \* the losses considered
    MaxMoves         \* bound: hosts that are plugged in elsewhere

ASSUME ParametersAssumption ==
    /\ PortOf \in [Device -> [Host -> Port]]
    /\ NoPort \notin Port
    /\ TableSize \in Nat /\ MaxInbox \in Nat /\ MaxFaults \in Nat
    /\ MaxLosses \in Nat /\ MaxMoves \in Nat
    /\ LossKinds \subseteq {"wipe", "sMac", "dMac"}

VARIABLES
    cloning,         \* the devices on which startup() got to the clone session
    sMac,            \* device -> the sources that hit sMacLookup
    dMac,            \* device -> host -> port of its dMacLookup rule, or NoPort
    learned,         \* _learned
    clones,          \* device -> the clones on its stream, in order
    inbox,           \* the plugin's events, in order: _event_queue, its queue
    handler,         \* the on_packet_in call between its writes, or Idle
    announced,       \* the mac_learned event the last step emitted, or Idle
    unnoticed,       \* losses nobody has published yet
    faults,          \* writes that have failed so far
    losses,          \* losses so far
    port,            \* device -> host -> the port its frames enter by
    moves,           \* how often one has changed
    moved,           \* history: where a host has moved
    halved           \* history: where the forwarding rule has been lost alone,
                     \* or its write has failed, since it was last written

vars == <<cloning, sMac, dMac, learned, clones, inbox, handler, announced,
          unnoticed, faults, losses, port, moves, moved, halved>>

hosts == <<port, moves, moved>>
tables == <<sMac, dMac>>

Idle == [stage |-> "idle"]

PacketIn(d, m, p) == [type |-> "packet_in", dev |-> d, mac |-> m, port |-> p]
StateReset(d) == [type |-> "state_reset", dev |-> d]
EntryRemoved(d, m) == [type |-> "entry_removed", dev |-> d, mac |-> m]

PacketIns == [type : {"packet_in"}, dev : Device, mac : Host, port : Port]
Notices == {StateReset(d) : d \in Device}
             \cup {EntryRemoved(d, m) : d \in Device, m \in Host}
Events == PacketIns \cup Notices

\* startup() sets each device up in turn and gives one up at its first RPC
\* error: a device without the clone session never reports a frame.
Init ==
    /\ cloning \in SUBSET Device
    /\ sMac = [d \in Device |-> {}]
    /\ dMac = [d \in Device |-> [m \in Host |-> NoPort]]
    /\ learned = [d \in Device |-> {}]
    /\ clones = [d \in Device |-> << >>]
    /\ inbox = << >>
    /\ handler = Idle
    /\ announced = Idle
    /\ unnoticed = {}
    /\ faults = 0
    /\ losses = 0
    /\ port = PortOf
    /\ moves = 0
    /\ moved = {} /\ halved = {}

-----------------------------------------------------------------------------
(* The switch *)

\* A frame from m misses sMacLookup and its clone leaves for the controller.
\* A hit, or a clone dropped by the switch, changes nothing.
Frame(d, m) ==
    /\ d \in cloning
    /\ m \notin sMac[d]
    /\ Len(clones[d]) + Len(inbox) < MaxInbox
    /\ clones' = [clones EXCEPT ![d] = Append(@, PacketIn(d, m, port[d][m]))]
    /\ announced' = Idle
    /\ UNCHANGED <<cloning, hosts, halved, tables, learned, inbox, handler,
                   unnoticed, faults, losses>>

\* dMacLookup: the ports a frame to m leaves by.
EgressPorts(d, m) ==
    IF dMac[d][m] # NoPort THEN {dMac[d][m]} ELSE Port

DMacHosts(d) == {m \in Host : dMac[d][m] # NoPort}

Lose(kind, d, m) ==
    /\ losses < MaxLosses
    /\ kind \in LossKinds
    /\ losses' = losses + 1
    /\ \/ /\ kind = "wipe"
          /\ sMac' = [sMac EXCEPT ![d] = {}]
          /\ dMac' = [dMac EXCEPT ![d] = [h \in Host |-> NoPort]]
          /\ unnoticed' = unnoticed \cup {StateReset(d)}
          /\ UNCHANGED halved
       \/ /\ kind = "sMac"
          /\ m \in sMac[d]
          /\ sMac' = [sMac EXCEPT ![d] = @ \ {m}]
          /\ unnoticed' = unnoticed \cup {EntryRemoved(d, m)}
          /\ UNCHANGED <<dMac, halved>>
       \/ /\ kind = "dMac"
          /\ dMac[d][m] # NoPort
          /\ dMac' = [dMac EXCEPT ![d][m] = NoPort]
          /\ halved' = halved \cup {<<d, m>>}
          /\ unnoticed' = unnoticed \cup {EntryRemoved(d, m)}
          /\ UNCHANGED sMac
    /\ announced' = Idle
    /\ UNCHANGED <<cloning, hosts, learned, clones, inbox, handler, faults>>

\* Nothing tells the switch or the plugin, and clones on their way keep the port
\* they were sent with.
Move(d, m, p) ==
    /\ moves < MaxMoves
    /\ port[d][m] # p
    /\ moves' = moves + 1
    /\ port' = [port EXCEPT ![d][m] = p]
    /\ moved' = moved \cup {<<d, m>>}
    /\ announced' = Idle
    /\ UNCHANGED <<cloning, halved, tables, learned, clones, inbox, handler,
                   unnoticed, faults, losses>>

Notice(n) ==
    /\ n \in unnoticed
    /\ unnoticed' = unnoticed \ {n}
    /\ inbox' = Append(inbox, n)
    /\ announced' = Idle
    /\ UNCHANGED <<cloning, hosts, halved, tables, learned, clones, handler,
                   faults, losses>>

-----------------------------------------------------------------------------
(* The read thread of a switch *)

\* _read_loop, and the dispatcher with the plugin's filter: the next clone on
\* the stream becomes the plugin's last event.
Deliver(d) ==
    /\ clones[d] # << >>
    /\ clones' = [clones EXCEPT ![d] = Tail(@)]
    /\ inbox' = Append(inbox, Head(clones[d]))
    /\ announced' = Idle
    /\ UNCHANGED <<cloning, hosts, halved, tables, learned, handler, unnoticed,
                   faults, losses>>

-----------------------------------------------------------------------------
(* The plugin's thread *)

Next_event(type) ==
    /\ handler = Idle
    /\ inbox # << >>
    /\ Head(inbox).type = type
    /\ inbox' = Tail(inbox)

\* Faulty variant: the rules are installed for every packet_in.
on_packet_in_Unguarded ==
    /\ Next_event("packet_in")
    /\ LET e == Head(inbox)
       IN  /\ announced' = [stage |-> "emit", dev |-> e.dev, mac |-> e.mac]
           /\ handler' = [stage |-> "sMac", dev |-> e.dev, mac |-> e.mac,
                          port |-> e.port]
    /\ UNCHANGED <<cloning, hosts, halved, tables, learned, clones, unnoticed,
                   faults, losses>>

\* mac_learned is emitted for every packet_in; the rules are installed if the
\* MAC is not in _learned.
on_packet_in ==
    /\ Next_event("packet_in")
    /\ LET e == Head(inbox)
       IN  /\ announced' = [stage |-> "emit", dev |-> e.dev, mac |-> e.mac]
           /\ handler' = IF e.mac \in learned[e.dev] THEN Idle
                         ELSE [stage |-> "sMac", dev |-> e.dev, mac |-> e.mac,
                               port |-> e.port]
    /\ UNCHANGED <<cloning, hosts, halved, tables, learned, clones, unnoticed,
                   faults, losses>>

Remember == learned' = [learned EXCEPT ![handler.dev] = @ \cup {handler.mac}]

\* Faulty variant: the MAC is remembered after the first of the two writes.
sMacInstalled_Remembers ==
    /\ handler.stage = "sMac"
    /\ handler.mac \notin sMac[handler.dev]
    /\ Cardinality(sMac[handler.dev]) < TableSize
    /\ sMac' = [sMac EXCEPT ![handler.dev] = @ \cup {handler.mac}]
    /\ Remember
    /\ handler' = [handler EXCEPT !.stage = "dMac"]
    /\ announced' = Idle
    /\ UNCHANGED <<cloning, hosts, halved, dMac, clones, inbox, unnoticed,
                   faults, losses>>

\* The sMacLookup write succeeds.
sMacInstalled ==
    /\ handler.stage = "sMac"
    /\ handler.mac \notin sMac[handler.dev]
    /\ Cardinality(sMac[handler.dev]) < TableSize
    /\ sMac' = [sMac EXCEPT ![handler.dev] = @ \cup {handler.mac}]
    /\ handler' = [handler EXCEPT !.stage = "dMac"]
    /\ announced' = Idle
    /\ UNCHANGED <<cloning, hosts, halved, dMac, learned, clones, inbox,
                   unnoticed, faults, losses>>

\* Faulty variant: the forwarding rule is installed on every device.
dMacInstalled_Everywhere ==
    /\ handler.stage = "dMac"
    /\ dMac[handler.dev][handler.mac] = NoPort
    /\ Cardinality(DMacHosts(handler.dev)) < TableSize
    /\ dMac' = [d \in Device |->
                  [dMac[d] EXCEPT ![handler.mac] = handler.port]]
    /\ halved' = halved \ {<<handler.dev, handler.mac>>}
    /\ Remember
    /\ handler' = Idle
    /\ announced' = Idle
    /\ UNCHANGED <<cloning, hosts, sMac, clones, inbox, unnoticed, faults, losses>>

\* The dMacLookup write succeeds, and only then is the MAC remembered.
dMacInstalled ==
    /\ handler.stage = "dMac"
    /\ dMac[handler.dev][handler.mac] = NoPort
    /\ Cardinality(DMacHosts(handler.dev)) < TableSize
    /\ dMac' = [dMac EXCEPT ![handler.dev][handler.mac] = handler.port]
    /\ halved' = halved \ {<<handler.dev, handler.mac>>}
    /\ Remember
    /\ handler' = Idle
    /\ announced' = Idle
    /\ UNCHANGED <<cloning, hosts, sMac, clones, inbox, unnoticed, faults, losses>>

\* Either write meets a rule with its key: the MAC is remembered, whichever of
\* the two writes it was.
AlreadyExists ==
    /\ \/ handler.stage = "sMac" /\ handler.mac \in sMac[handler.dev]
       \/ handler.stage = "dMac" /\ dMac[handler.dev][handler.mac] # NoPort
    /\ Remember
    /\ handler' = Idle
    /\ announced' = Idle
    /\ UNCHANGED <<cloning, hosts, halved, tables, clones, inbox, unnoticed,
                   faults, losses>>

TableFull ==
    \/ /\ handler.stage = "sMac"
       /\ handler.mac \notin sMac[handler.dev]
       /\ Cardinality(sMac[handler.dev]) >= TableSize
    \/ /\ handler.stage = "dMac"
       /\ dMac[handler.dev][handler.mac] = NoPort
       /\ Cardinality(DMacHosts(handler.dev)) >= TableSize

\* Any other error of either write is logged; what the first one installed
\* stays.
InstallFails ==
    /\ handler # Idle
    /\ \/ TableFull /\ UNCHANGED faults
       \/ faults < MaxFaults /\ faults' = faults + 1
    /\ halved' = IF handler.stage = "dMac"
                 THEN halved \cup {<<handler.dev, handler.mac>>} ELSE halved
    /\ handler' = Idle
    /\ announced' = Idle
    /\ UNCHANGED <<cloning, hosts, tables, learned, clones, inbox, unnoticed, losses>>

\* Faulty variant: the device's own entry is dropped from _learned.
on_state_reset_Drops ==
    /\ Next_event("state_reset")
    /\ learned' = [d \in DOMAIN learned \ {Head(inbox).dev} |-> learned[d]]
    /\ announced' = Idle
    /\ UNCHANGED <<cloning, hosts, halved, tables, clones, handler, unnoticed,
                   faults, losses>>

\* Faulty variant: a wipe is not taken notice of.
on_state_reset_Ignored ==
    /\ Next_event("state_reset")
    /\ announced' = Idle
    /\ UNCHANGED <<cloning, hosts, halved, tables, learned, clones, handler,
                   unnoticed, faults, losses>>

on_state_reset ==
    /\ Next_event("state_reset")
    /\ learned' = [learned EXCEPT ![Head(inbox).dev] = {}]
    /\ announced' = Idle
    /\ UNCHANGED <<cloning, hosts, halved, tables, clones, handler, unnoticed,
                   faults, losses>>

on_entry_removed ==
    /\ Next_event("entry_removed")
    /\ learned' = [learned EXCEPT ![Head(inbox).dev] = @ \ {Head(inbox).mac}]
    /\ announced' = Idle
    /\ UNCHANGED <<cloning, hosts, halved, tables, clones, handler, unnoticed,
                   faults, losses>>

PluginStep ==
    \/ on_packet_in \/ on_state_reset \/ on_entry_removed
    \/ sMacInstalled \/ dMacInstalled \/ AlreadyExists \/ InstallFails

-----------------------------------------------------------------------------

Next ==
    \/ \E d \in Device, m \in Host : Frame(d, m)
    \/ \E kind \in LossKinds, d \in Device, m \in Host : Lose(kind, d, m)
    \/ \E d \in Device, m \in Host, p \in Port : Move(d, m, p)
    \/ \E n \in Notices : Notice(n)
    \/ \E d \in Device : Deliver(d)
    \/ PluginStep

Spec == Init /\ [][Next]_vars

\* The plugin's thread and the read threads run, losses are noticed, and every
\* host keeps sending: strongly fair, because other hosts' frames may take the
\* room in the inbox.
FairSpec ==
    /\ Spec
    /\ WF_vars(PluginStep)
    /\ \A d \in Device : WF_vars(Deliver(d))
    /\ \A n \in Notices : WF_vars(Notice(n))
    /\ \A d \in Device, m \in Host : SF_vars(Frame(d, m))

-----------------------------------------------------------------------------
(* Properties *)

\* The types of the tables, the plugin's memory and its events.
TypeOK ==
    /\ cloning \subseteq Device
    /\ sMac \in [Device -> SUBSET Host]
    /\ dMac \in [Device -> [Host -> Port \cup {NoPort}]]
    /\ learned \in [Device -> SUBSET Host]
    /\ clones \in [Device -> Seq(PacketIns)]
    /\ inbox \in Seq(Events)
    /\ handler \in [stage : {"sMac", "dMac"}, dev : Device, mac : Host, port : Port]
                     \cup {Idle}
    /\ unnoticed \subseteq Notices
    /\ port \in [Device -> [Host -> Port]]
    /\ moved \subseteq Device \X Host /\ halved \subseteq Device \X Host
    /\ faults \in 0 .. MaxFaults /\ losses \in 0 .. MaxLosses
    /\ moves \in 0 .. MaxMoves

\* News that device d has lost the rules of m is on its way to the plugin.
NewsPending(d, m) ==
    \E n \in {StateReset(d), EntryRemoved(d, m)} :
        n \in unnoticed \/ \E i \in DOMAIN inbox : inbox[i] = n

\* self_learning.py:149-193: _learned does not get ahead of the switch,
\* wherever in the two writes a loss falls and however late its news and the
\* clones come.  The plugin stops installing rules for a MAC only while the
\* switch has both of them, or news of their loss is still to come, or the
\* forwarding rule was lost alone or failed to be written, which
\* ALREADY_EXISTS on the other rule hides from the plugin.
LearnedIsInstalled ==
    \A d \in Device : \A m \in learned[d] :
        \/ m \in sMac[d] /\ (dMac[d][m] # NoPort \/ <<d, m>> \in halved)
        \/ NewsPending(d, m)

\* self_learning.py:160-168: a rule sends a host's frames only where that host
\* is, on every device and however its clones queued up and its rules were lost,
\* unless it has moved.
ForwardsToHost ==
    \A d \in Device, m \in Host :
        <<d, m>> \notin moved => dMac[d][m] \in {NoPort, port[d][m]}

\* self_learning.py:149-150: however many clones of a MAC are queued before
\* its rule takes effect, the plugin never inserts a rule twice.
NoDuplicateInsert ==
    /\ handler.stage = "sMac" => handler.mac \notin sMac[handler.dev]
    /\ handler.stage = "dMac" => dMac[handler.dev][handler.mac] = NoPort

\* The switch knows the source and does not forward to where it is: frames of
\* m are not cloned any more, so the plugin never hears of it again.
Silenced(d, m) == m \in sMac[d] /\ dMac[d][m] # port[d][m]

\* self_learning.py:122-123: frames to a host that keeps sending are in the
\* end sent to it alone, although rules and whole tables are lost meanwhile.
\* The plugin does not recover from three things only, a forwarding rule that is
\* lost alone, one whose write fails and a host that moves, and from them only
\* while the host's sMacLookup rule is there.
EventuallyUnicast ==
    \A d \in Device, m \in Host :
        \/ <>[](d \in cloning => EgressPorts(d, m) = {port[d][m]})
        \/ <>[](<<d, m>> \in moved \cup halved /\ Silenced(d, m))

-----------------------------------------------------------------------------
(* What the comments say, and the code does not *)

\* self_learning.py:171-172, "Rule already on the switch ... re-cache it": a
\* MAC that is remembered has its forwarding rule.
LearnedForwards ==
    \A d \in Device : \A m \in learned[d] : dMac[d][m] # NoPort

=============================================================================
