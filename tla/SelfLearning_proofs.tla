------------------------- MODULE SelfLearning_proofs -------------------------
(***************************************************************************)
(* Proofs about SelfLearning: for any switches, hosts, table sizes, faults *)
(* and losses, a rule never sends frames where their host never was, and   *)
(* what the plugin remembers it knows a reason for.                        *)
(***************************************************************************)
EXTENDS SelfLearning, FiniteSetTheorems, SequenceTheorems, TLAPS

\* A record of where a frame came in tells where its host is.
Truthful(r) == <<r.dev, r.mac>> \notin moved => r.port = port[r.dev][r.mac]

\* ForwardsToHost becomes inductive with what the rules are made from: the
\* clones in flight, the events that wait, and the call that is between its
\* writes.
ClonesTruthful ==
    \A d \in Device : \A i \in DOMAIN clones[d] : Truthful(clones[d][i])

InboxTruthful ==
    \A i \in DOMAIN inbox : inbox[i].type = "packet_in" => Truthful(inbox[i])

HandlerTruthful == handler # Idle => Truthful(handler)

LInv ==
    TypeOK /\ ClonesTruthful /\ InboxTruthful /\ HandlerTruthful /\ ForwardsToHost

-----------------------------------------------------------------------------

\* An item at the end of a queue, and the rest of it, keep their types.
LEMMA AppendItem ==
    ASSUME NEW S, NEW q \in Seq(S), NEW e \in S
    PROVE  /\ Append(q, e) \in Seq(S)
           /\ \A i \in DOMAIN Append(q, e) :
                Append(q, e)[i] = e \/ (i \in DOMAIN q /\ Append(q, e)[i] = q[i])
OBVIOUS

LEMMA TakeItem ==
    ASSUME NEW S, NEW q \in Seq(S), q # << >>
    PROVE  /\ Head(q) \in S
           /\ 1 \in DOMAIN q /\ Head(q) = q[1]
           /\ Tail(q) \in Seq(S)
           /\ \A i \in DOMAIN Tail(q) : i + 1 \in DOMAIN q /\ Tail(q)[i] = q[i + 1]
OBVIOUS

LEMMA InitLInv == Init => LInv
<1> SUFFICES ASSUME Init PROVE LInv
  OBVIOUS
<1>1. TypeOK
  BY ParametersAssumption, EmptySeq DEF Init, TypeOK
<1> QED
  BY <1>1 DEF Init, LInv, ClonesTruthful, InboxTruthful, HandlerTruthful,
             ForwardsToHost

\* The frames of a host come in where it is.
LEMMA FrameInv ==
    ASSUME LInv, NEW d \in Device, NEW m \in Host, Frame(d, m)
    PROVE  LInv'
<1> DEFINE e == PacketIn(d, m, port[d][m])
<1>1. e \in PacketIns
  BY DEF LInv, TypeOK, PacketIn, PacketIns
<1>2. /\ clones \in [Device -> Seq(PacketIns)]
      /\ clones' = [clones EXCEPT ![d] = Append(clones[d], e)]
  BY DEF Frame, LInv, TypeOK
<1>3. UNCHANGED <<cloning, hosts, halved, tables, learned, inbox, handler,
                  unnoticed, faults, losses>>
  BY DEF Frame
<1>4. Truthful(e)
  BY DEF Truthful, PacketIn
<1> HIDE DEF e
<1>5. clones[d] \in Seq(PacketIns) /\ Append(clones[d], e) \in Seq(PacketIns)
  BY <1>1, <1>2, AppendItem
<1>6. TypeOK'
  BY <1>2, <1>3, <1>5 DEF LInv, TypeOK, hosts, tables
<1>7. ClonesTruthful'
  <2> SUFFICES ASSUME NEW c \in Device, NEW i \in DOMAIN clones'[c]
               PROVE  Truthful(clones[c][i])'
    BY DEF ClonesTruthful
  <2>1. Truthful(clones'[c][i])
    <3>1. CASE c = d
      <4>1. clones'[c] = Append(clones[d], e)
        BY <1>2, <3>1
      <4>2. clones'[c][i] = e \/ (i \in DOMAIN clones[d] /\ clones'[c][i] = clones[d][i])
        BY <1>1, <1>5, <4>1, AppendItem
      <4> QED
        BY <1>4, <4>2 DEF LInv, ClonesTruthful
    <3>2. CASE c # d
      BY <1>2, <3>2 DEF LInv, ClonesTruthful
    <3> QED
      BY <3>1, <3>2
  <2> QED
    BY <1>3, <2>1 DEF Truthful, hosts
<1> QED
  BY <1>3, <1>6, <1>7
  DEF LInv, InboxTruthful, HandlerTruthful, ForwardsToHost, Truthful, hosts, tables

\* The read thread hands clones on as they are.
LEMMA DeliverInv ==
    ASSUME LInv, NEW d \in Device, Deliver(d)
    PROVE  LInv'
<1> DEFINE e == Head(clones[d])
<1>1. /\ clones \in [Device -> Seq(PacketIns)] /\ clones[d] \in Seq(PacketIns)
      /\ clones[d] # << >> /\ clones' = [clones EXCEPT ![d] = Tail(clones[d])]
      /\ inbox \in Seq(Events) /\ inbox' = Append(inbox, e)
  BY DEF Deliver, LInv, TypeOK
<1>2. UNCHANGED <<cloning, hosts, halved, tables, learned, handler, unnoticed,
                  faults, losses>>
  BY DEF Deliver
<1>3. /\ e \in PacketIns /\ 1 \in DOMAIN clones[d] /\ e = clones[d][1]
      /\ Tail(clones[d]) \in Seq(PacketIns)
      /\ \A i \in DOMAIN Tail(clones[d]) :
           i + 1 \in DOMAIN clones[d] /\ Tail(clones[d])[i] = clones[d][i + 1]
  BY <1>1, TakeItem
<1>4. e \in Events /\ Truthful(e)
  BY <1>3 DEF Events, LInv, ClonesTruthful
<1> HIDE DEF e
<1>5. inbox' \in Seq(Events)
  BY <1>1, <1>4, AppendItem
<1>6. TypeOK'
  BY <1>1, <1>2, <1>3, <1>5 DEF LInv, TypeOK, hosts, tables
<1>7. ClonesTruthful'
  <2> SUFFICES ASSUME NEW c \in Device, NEW i \in DOMAIN clones'[c]
               PROVE  Truthful(clones[c][i])'
    BY DEF ClonesTruthful
  <2>1. Truthful(clones'[c][i])
    <3>1. CASE c = d
      <4>1. clones'[c] = Tail(clones[d])
        BY <1>1, <3>1
      <4> QED
        BY <1>3, <4>1 DEF LInv, ClonesTruthful
    <3>2. CASE c # d
      BY <1>1, <3>2 DEF LInv, ClonesTruthful
    <3> QED
      BY <3>1, <3>2
  <2> QED
    BY <1>2, <2>1 DEF Truthful, hosts
<1>8. InboxTruthful'
  <2> SUFFICES ASSUME NEW i \in DOMAIN inbox', inbox'[i].type = "packet_in"
               PROVE  Truthful(inbox[i])'
    BY DEF InboxTruthful
  <2>1. inbox'[i] = e \/ (i \in DOMAIN inbox /\ inbox'[i] = inbox[i])
    BY <1>1, <1>4, AppendItem
  <2>2. Truthful(inbox'[i])
    BY <1>4, <2>1 DEF LInv, InboxTruthful
  <2> QED
    BY <1>2, <2>2 DEF Truthful, hosts
<1> QED
  BY <1>2, <1>6, <1>7, <1>8
  DEF LInv, HandlerTruthful, ForwardsToHost, Truthful, hosts, tables

\* Losses only take rules away; those of a forwarding rule alone are
\* remembered.
LEMMA LoseInv ==
    ASSUME LInv, NEW kind \in LossKinds, NEW d \in Device, NEW m \in Host,
           Lose(kind, d, m)
    PROVE  LInv'
<1>1. UNCHANGED <<cloning, hosts, learned, clones, inbox, handler, faults>>
  BY DEF Lose
<1>2. StateReset(d) \in Notices /\ EntryRemoved(d, m) \in Notices
  BY DEF Notices
<1>3. /\ sMac' \in [Device -> SUBSET Host]
      /\ dMac' \in [Device -> [Host -> Port \cup {NoPort}]]
      /\ unnoticed' \subseteq Notices /\ halved' \subseteq Device \X Host
      /\ \A c \in Device, h \in Host : dMac'[c][h] \in {NoPort, dMac[c][h]}
  <2>1. /\ sMac \in [Device -> SUBSET Host]
        /\ dMac \in [Device -> [Host -> Port \cup {NoPort}]]
        /\ unnoticed \subseteq Notices /\ halved \subseteq Device \X Host
    BY DEF LInv, TypeOK
  <2>2. CASE kind = "wipe"
    <3>1. /\ sMac' = [sMac EXCEPT ![d] = {}]
          /\ dMac' = [dMac EXCEPT ![d] = [h \in Host |-> NoPort]]
          /\ unnoticed' = unnoticed \cup {StateReset(d)} /\ halved' = halved
      BY <2>2 DEF Lose
    <3>2. [h \in Host |-> NoPort] \in [Host -> Port \cup {NoPort}]
      OBVIOUS
    <3>3. \A c \in Device, h \in Host : dMac'[c][h] \in {NoPort, dMac[c][h]}
      BY <2>1, <3>1
    <3>4. dMac' \in [Device -> [Host -> Port \cup {NoPort}]]
      BY <2>1, <3>1, <3>2
    <3> QED
      BY <1>2, <2>1, <3>1, <3>3, <3>4
  <2>3. CASE kind = "sMac"
    BY <1>2, <2>1, <2>3 DEF Lose
  <2>4. CASE kind = "dMac"
    <3>1. /\ dMac' = [dMac EXCEPT ![d][m] = NoPort] /\ UNCHANGED sMac
          /\ halved' = halved \cup {<<d, m>>}
          /\ unnoticed' = unnoticed \cup {EntryRemoved(d, m)}
      BY <2>4 DEF Lose
    <3> QED
      BY <1>2, <2>1, <3>1
  <2> QED
    BY <2>2, <2>3, <2>4 DEF Lose
<1>4. losses' \in 0 .. MaxLosses
  BY ParametersAssumption DEF Lose, LInv, TypeOK
<1> QED
  BY <1>1, <1>3, <1>4
  DEF LInv, TypeOK, ClonesTruthful, InboxTruthful, HandlerTruthful, ForwardsToHost,
      Truthful, hosts

LEMMA MoveInv ==
    ASSUME LInv, NEW d \in Device, NEW m \in Host, NEW p \in Port, Move(d, m, p)
    PROVE  LInv'
<1>1. UNCHANGED <<cloning, halved, tables, learned, clones, inbox, handler,
                  unnoticed, faults, losses>>
  BY DEF Move
<1>2. /\ port' \in [Device -> [Host -> Port]]
      /\ moved' \subseteq Device \X Host /\ moved \subseteq moved'
      /\ moves' \in 0 .. MaxMoves
  BY ParametersAssumption DEF Move, LInv, TypeOK
<1>3. \A c \in Device, h \in Host :
        <<c, h>> \notin moved' => port'[c][h] = port[c][h]
  BY DEF Move, LInv, TypeOK
<1>4. TypeOK'
  BY <1>1, <1>2 DEF LInv, TypeOK, tables
<1>5. InboxTruthful'
  <2> SUFFICES ASSUME NEW i \in DOMAIN inbox, inbox[i].type = "packet_in"
               PROVE  Truthful(inbox[i])'
    BY <1>1 DEF InboxTruthful
  <2>1. inbox[i] \in Events
    BY DEF LInv, TypeOK
  <2>2. inbox[i] \in PacketIns
    BY <2>1 DEF Events, Notices, StateReset, EntryRemoved
  <2>3. Truthful(inbox[i])
    BY DEF LInv, InboxTruthful
  <2> QED
    BY <1>1, <1>2, <1>3, <2>2, <2>3 DEF Truthful, PacketIns
<1>6. ClonesTruthful'
  <2> SUFFICES ASSUME NEW c \in Device, NEW i \in DOMAIN clones[c]
               PROVE  Truthful(clones[c][i])'
    BY <1>1 DEF ClonesTruthful
  <2>1. clones[c][i] \in PacketIns
    BY DEF LInv, TypeOK
  <2>2. Truthful(clones[c][i])
    BY DEF LInv, ClonesTruthful
  <2> QED
    BY <1>1, <1>2, <1>3, <2>1, <2>2 DEF Truthful, PacketIns
<1>7. HandlerTruthful'
  BY <1>1, <1>2, <1>3 DEF LInv, TypeOK, HandlerTruthful, Truthful
<1> QED
  BY <1>1, <1>2, <1>3, <1>4, <1>5, <1>6, <1>7 DEF LInv, ForwardsToHost, tables

LEMMA NoticeInv ==
    ASSUME LInv, NEW n \in Notices, Notice(n)
    PROVE  LInv'
<1>1. n \in Events /\ n.type # "packet_in"
  BY DEF Events, Notices, StateReset, EntryRemoved
<1>2. inbox \in Seq(Events) /\ inbox' = Append(inbox, n)
  BY DEF Notice, LInv, TypeOK
<1>3. /\ UNCHANGED <<cloning, hosts, halved, tables, learned, clones, handler,
                     faults, losses>>
      /\ unnoticed' \subseteq unnoticed
  BY DEF Notice
<1>4. TypeOK'
  BY <1>1, <1>2, <1>3, AppendItem DEF LInv, TypeOK, hosts, tables
<1>5. InboxTruthful'
  BY <1>1, <1>2, <1>3, AppendItem DEF LInv, InboxTruthful, Truthful, hosts
<1> QED
  BY <1>3, <1>4, <1>5
  DEF LInv, ClonesTruthful, HandlerTruthful, ForwardsToHost, Truthful, hosts, tables

-----------------------------------------------------------------------------

\* What every handler leaves of the inbox.
LEMMA TakenInv ==
    ASSUME LInv, inbox # << >>, inbox' = Tail(inbox), UNCHANGED hosts
    PROVE  inbox' \in Seq(Events) /\ InboxTruthful'
<1>1. inbox \in Seq(Events)
  BY DEF LInv, TypeOK
<1> QED
  BY <1>1, TakeItem DEF LInv, InboxTruthful, Truthful, hosts

LEMMA EventInv ==
    ASSUME LInv, on_packet_in \/ on_state_reset \/ on_entry_removed
    PROVE  LInv'
<1>1. /\ handler = Idle /\ inbox # << >> /\ inbox' = Tail(inbox)
      /\ UNCHANGED <<cloning, hosts, halved, tables, clones, unnoticed, faults, losses>>
  BY DEF on_packet_in, on_state_reset, on_entry_removed, Next_event
<1>2. inbox' \in Seq(Events) /\ InboxTruthful'
  BY <1>1, TakenInv
<1>3. Head(inbox) \in Events /\ 1 \in DOMAIN inbox /\ Head(inbox) = inbox[1]
  BY <1>1, TakeItem DEF LInv, TypeOK
<1>4. CASE on_packet_in
  <2>1. Head(inbox) \in PacketIns
    BY <1>3, <1>4 DEF on_packet_in, Next_event, Events, Notices, StateReset,
                      EntryRemoved
  <2>2. Truthful(Head(inbox))
    BY <1>3, <2>1 DEF LInv, InboxTruthful, PacketIns
  <2>3. handler' \in {Idle, [stage |-> "sMac", dev |-> Head(inbox).dev,
                             mac |-> Head(inbox).mac, port |-> Head(inbox).port]}
    BY <1>4 DEF on_packet_in
  <2>4. HandlerTruthful'
    BY <1>1, <2>2, <2>3 DEF HandlerTruthful, Truthful, hosts
  <2>5. handler' \in [stage : {"sMac", "dMac"}, dev : Device, mac : Host, port : Port]
                       \cup {Idle}
    BY <2>1, <2>3 DEF PacketIns
  <2>6. UNCHANGED learned
    BY <1>4 DEF on_packet_in
  <2> QED
    BY <1>1, <1>2, <2>4, <2>5, <2>6
    DEF LInv, TypeOK, ClonesTruthful, Truthful, ForwardsToHost, hosts, tables
<1>5. CASE on_state_reset \/ on_entry_removed
  <2>1. learned' \in [Device -> SUBSET Host]
    <3>1. learned \in [Device -> SUBSET Host]
      BY DEF LInv, TypeOK
    <3>2. CASE on_state_reset
      BY <3>1, <3>2 DEF on_state_reset
    <3>3. CASE on_entry_removed
      BY <3>1, <3>3 DEF on_entry_removed
    <3> QED
      BY <1>5, <3>2, <3>3
  <2>2. UNCHANGED handler
    BY <1>5 DEF on_state_reset, on_entry_removed
  <2> QED
    BY <1>1, <1>2, <2>1, <2>2
    DEF LInv, TypeOK, ClonesTruthful, HandlerTruthful, Truthful, ForwardsToHost,
        hosts, tables
<1> QED
  BY <1>4, <1>5

LEMMA WriteInv ==
    ASSUME LInv, sMacInstalled \/ dMacInstalled \/ AlreadyExists \/ InstallFails
    PROVE  LInv'
<1>1. /\ handler # Idle
      /\ UNCHANGED <<cloning, hosts, clones, inbox, unnoticed, losses>>
  BY DEF sMacInstalled, dMacInstalled, AlreadyExists, InstallFails, Idle
<1>2. handler \in [stage : {"sMac", "dMac"}, dev : Device, mac : Host, port : Port]
  BY <1>1 DEF LInv, TypeOK
<1>3. InboxTruthful' /\ ClonesTruthful'
  BY <1>1 DEF LInv, ClonesTruthful, InboxTruthful, Truthful, hosts
<1>4. CASE sMacInstalled
  <2>1. handler' = [handler EXCEPT !.stage = "dMac"]
    BY <1>4 DEF sMacInstalled
  <2>2. HandlerTruthful'
    BY <1>1, <1>2, <2>1 DEF LInv, HandlerTruthful, Truthful, hosts
  <2> QED
    BY <1>1, <1>2, <1>3, <1>4, <2>1, <2>2
    DEF sMacInstalled, LInv, TypeOK, ForwardsToHost, hosts
<1>5. CASE dMacInstalled
  <2>1. ForwardsToHost'
    BY <1>1, <1>2, <1>5
    DEF dMacInstalled, LInv, TypeOK, HandlerTruthful, Truthful, ForwardsToHost,
        hosts
  <2> QED
    BY <1>1, <1>2, <1>3, <1>5, <2>1
    DEF dMacInstalled, Remember, LInv, TypeOK, HandlerTruthful, hosts
<1>6. CASE AlreadyExists
  BY <1>1, <1>2, <1>3, <1>6
  DEF AlreadyExists, Remember, LInv, TypeOK, HandlerTruthful, ForwardsToHost,
      hosts, tables
<1>7. CASE InstallFails
  <2>1. faults' \in 0 .. MaxFaults
    BY <1>7, ParametersAssumption DEF InstallFails, LInv, TypeOK
  <2>2. halved' \subseteq Device \X Host
    BY <1>2, <1>7 DEF InstallFails, LInv, TypeOK
  <2> QED
    BY <1>1, <1>3, <1>7, <2>1, <2>2
    DEF InstallFails, LInv, TypeOK, HandlerTruthful, ForwardsToHost, hosts, tables
<1> QED
  BY <1>4, <1>5, <1>6, <1>7

LEMMA NextLInv == LInv /\ [Next]_vars => LInv'
<1>1. LInv /\ UNCHANGED vars => LInv'
  BY DEF vars, hosts, tables, LInv, TypeOK, ClonesTruthful, InboxTruthful,
         HandlerTruthful, ForwardsToHost, Truthful
<1> QED
  BY <1>1, FrameInv, LoseInv, MoveInv, NoticeInv, DeliverInv, EventInv, WriteInv
  DEF Next, PluginStep

LEMMA SpecLInv == Spec => []LInv
BY InitLInv, NextLInv, PTL DEF Spec

\* self_learning.py and l2switch.p4: the tables, _learned and the events keep
\* their types.
THEOREM LearningTypes == Spec => []TypeOK
<1>1. LInv => TypeOK
  BY DEF LInv
<1> QED
  BY <1>1, SpecLInv, PTL

\* self_learning.py:160-168: for any number of switches and hosts, however late
\* the clones come and whatever is lost or fails, a forwarding rule points to
\* where its host is, unless that host has moved.
THEOREM RulesPointHome == Spec => []ForwardsToHost
<1>1. LInv => ForwardsToHost
  BY DEF LInv
<1> QED
  BY <1>1, SpecLInv, PTL

-----------------------------------------------------------------------------
(* LearnedIsInstalled, whatever is lost, fails or comes late *)

News(d, m) == {StateReset(d), EntryRemoved(d, m)}

Writing(d, m) ==
    handler.stage = "dMac" /\ handler.dev = d /\ handler.mac = m

\* A source that is known without a forwarding rule has one being written, or
\* one that was lost alone or failed: the only state in which ALREADY_EXISTS on
\* the first write is remembered with nothing to forward.
HalvedOrWriting ==
    \A d \in Device, m \in Host :
        m \in sMac[d] /\ dMac[d][m] = NoPort => Writing(d, m) \/ <<d, m>> \in halved

\* No news is taken between the two writes.
WritesBeforeNews ==
    \A d \in Device, m \in Host :
        Writing(d, m) => m \in sMac[d] \/ NewsPending(d, m)

Remembered == HalvedOrWriting /\ WritesBeforeNews /\ LearnedIsInstalled

\* Which news is about which host.
LEMMA NewsAbout ==
    ASSUME NEW d \in Device, NEW m \in Host
    PROVE  /\ \A n \in News(d, m) : n \in Notices /\ n.type # "packet_in"
           /\ \A c \in Device : StateReset(c) \in News(d, m) <=> c = d
           /\ \A c \in Device, h \in Host :
                EntryRemoved(c, h) \in News(d, m) <=> c = d /\ h = m
<1>1. \A c \in Device : StateReset(c) = StateReset(d) => c = d
  BY DEF StateReset
<1>2. \A c \in Device, h \in Host :
        EntryRemoved(c, h) = EntryRemoved(d, m) => c = d /\ h = m
  BY DEF EntryRemoved
<1>3. \A c, e \in Device, h \in Host : StateReset(c) # EntryRemoved(e, h)
  BY DEF StateReset, EntryRemoved
<1>4. \A n \in News(d, m) : n \in Notices /\ n.type # "packet_in"
  BY DEF News, Notices, StateReset, EntryRemoved
<1> QED
  BY <1>1, <1>2, <1>3, <1>4 DEF News

\* Positions in a queue that grows, and in one whose head is taken.
LEMMA AppendIndex ==
    ASSUME NEW S, NEW q \in Seq(S), NEW e \in S
    PROVE  LET r == Append(q, e)
           IN  /\ \A i \in DOMAIN q : i \in DOMAIN r /\ r[i] = q[i]
               /\ Len(q) + 1 \in DOMAIN r /\ r[Len(q) + 1] = e
OBVIOUS

LEMMA TailIndex ==
    ASSUME NEW S, NEW q \in Seq(S), q # << >>
    PROVE  /\ \A i \in DOMAIN Tail(q) :
                i \in Nat /\ i + 1 \in DOMAIN q /\ Tail(q)[i] = q[i + 1]
           /\ \A i \in DOMAIN q : i \in Nat /\
                (i = 1 \/ (i - 1 \in DOMAIN Tail(q) /\ Tail(q)[i - 1] = q[i]))
OBVIOUS

\* News is not lost by being added to, or by being published.
LEMMA NewsKept ==
    ASSUME unnoticed \subseteq unnoticed', UNCHANGED inbox,
           NEW d \in Device, NEW m \in Host, NewsPending(d, m)
    PROVE  NewsPending(d, m)'
BY DEF NewsPending

LEMMA NewsQueued ==
    ASSUME TypeOK, NEW e \in Events, inbox' = Append(inbox, e),
           unnoticed \subseteq unnoticed' \cup {e},
           NEW d \in Device, NEW m \in Host, NewsPending(d, m)
    PROVE  NewsPending(d, m)'
<1>1. /\ \A i \in DOMAIN inbox : i \in DOMAIN inbox' /\ inbox'[i] = inbox[i]
      /\ Len(inbox) + 1 \in DOMAIN inbox' /\ inbox'[Len(inbox) + 1] = e
  BY AppendIndex DEF TypeOK
<1> QED
  BY <1>1 DEF NewsPending

\* Taking an event loses no news but itself.
LEMMA NewsLeft ==
    ASSUME TypeOK, inbox # << >>, inbox' = Tail(inbox), UNCHANGED unnoticed,
           NEW d \in Device, NEW m \in Host, NewsPending(d, m)
    PROVE  NewsPending(d, m)' \/ Head(inbox) \in News(d, m)
<1>1. \A i \in DOMAIN inbox : i \in Nat /\
        (i = 1 \/ (i - 1 \in DOMAIN inbox' /\ inbox'[i - 1] = inbox[i]))
  BY TailIndex DEF TypeOK
<1>2. Head(inbox) = inbox[1]
  BY TakeItem DEF TypeOK
<1> QED
  BY <1>1, <1>2 DEF NewsPending, News

\* Steps that leave the tables, the memory and the call in hand alone, and no
\* news behind.
LEMMA StillRemembered ==
    ASSUME TypeOK, Remembered, UNCHANGED <<tables, halved, learned, handler>>,
           \A d \in Device, m \in Host : NewsPending(d, m) => NewsPending(d, m)'
    PROVE  Remembered'
BY DEF TypeOK, Remembered, HalvedOrWriting, WritesBeforeNews, LearnedIsInstalled,
       Writing, tables

\* Whatever is lost is news.
LEMMA LoseRemembered ==
    ASSUME TypeOK, Remembered, NEW kind \in LossKinds, NEW c \in Device,
           NEW h \in Host, Lose(kind, c, h)
    PROVE  Remembered'
<1>1. /\ UNCHANGED <<learned, inbox, handler>> /\ unnoticed \subseteq unnoticed'
      /\ halved \subseteq halved'
  BY DEF Lose
<1>2. \A d \in Device, m \in Host : NewsPending(d, m) => NewsPending(d, m)'
  BY <1>1, NewsKept
\* What is still there was there before; what is not there any more is news.
<1>3. \A d \in Device, m \in Host :
        \/ /\ m \in sMac'[d] <=> m \in sMac[d]
           /\ dMac'[d][m] = dMac[d][m] \/ <<d, m>> \in halved'
        \/ m \notin sMac'[d] /\ \E n \in News(d, m) : n \in unnoticed'
  <2> SUFFICES ASSUME NEW d \in Device, NEW m \in Host
               PROVE  \/ /\ m \in sMac'[d] <=> m \in sMac[d]
                         /\ dMac'[d][m] = dMac[d][m] \/ <<d, m>> \in halved'
                      \/ m \notin sMac'[d] /\ \E n \in News(d, m) : n \in unnoticed'
    OBVIOUS
  <2>1. /\ sMac \in [Device -> SUBSET Host]
        /\ dMac \in [Device -> [Host -> Port \cup {NoPort}]]
    BY DEF TypeOK
  <2>2. CASE kind = "wipe"
    <3>1. /\ sMac' = [sMac EXCEPT ![c] = {}]
          /\ dMac' = [dMac EXCEPT ![c] = [x \in Host |-> NoPort]]
          /\ StateReset(c) \in unnoticed'
      BY <2>2 DEF Lose
    <3> QED
      BY <2>1, <3>1 DEF News
  <2>3. CASE kind = "sMac"
    <3>1. /\ sMac' = [sMac EXCEPT ![c] = @ \ {h}] /\ dMac' = dMac
          /\ EntryRemoved(c, h) \in unnoticed'
      BY <2>3 DEF Lose
    <3> QED
      BY <2>1, <3>1 DEF News
  <2>4. CASE kind = "dMac"
    <3>1. /\ dMac' = [dMac EXCEPT ![c][h] = NoPort] /\ sMac' = sMac
          /\ <<c, h>> \in halved'
      BY <2>4 DEF Lose
    <3> QED
      BY <2>1, <3>1
  <2> QED
    BY <2>2, <2>3, <2>4 DEF Lose
<1>4. \A d \in Device, m \in Host :
        (\E n \in News(d, m) : n \in unnoticed') => NewsPending(d, m)'
  BY DEF NewsPending, News
<1>5. HalvedOrWriting'
  BY <1>1, <1>3 DEF Remembered, HalvedOrWriting, Writing
<1>6. WritesBeforeNews'
  BY <1>1, <1>2, <1>3, <1>4 DEF Remembered, WritesBeforeNews, Writing
<1>7. LearnedIsInstalled'
  BY <1>1, <1>2, <1>3, <1>4 DEF Remembered, LearnedIsInstalled, TypeOK
<1> QED
  BY <1>5, <1>6, <1>7 DEF Remembered

LEMMA PacketRemembered == TypeOK /\ Remembered /\ on_packet_in => Remembered'
<1> SUFFICES ASSUME TypeOK, Remembered, on_packet_in PROVE Remembered'
  OBVIOUS
<1> DEFINE e == Head(inbox)
<1>1. /\ handler = Idle /\ inbox # << >> /\ inbox' = Tail(inbox)
      /\ e.type = "packet_in"
      /\ UNCHANGED <<tables, halved, learned, unnoticed>>
      /\ handler' \in {Idle, [stage |-> "sMac", dev |-> e.dev, mac |-> e.mac,
                              port |-> e.port]}
  BY DEF on_packet_in, Next_event
<1>2. \A d \in Device, m \in Host : NewsPending(d, m) => NewsPending(d, m)'
  BY <1>1, NewsLeft, NewsAbout
<1>3. \A d \in Device, m \in Host : ~ Writing(d, m) /\ ~ Writing(d, m)'
  BY <1>1 DEF Writing, Idle
<1> QED
  BY <1>1, <1>2, <1>3 DEF TypeOK, Remembered, HalvedOrWriting, WritesBeforeNews,
                          LearnedIsInstalled, tables

LEMMA NewsRemembered ==
    TypeOK /\ Remembered /\ (on_state_reset \/ on_entry_removed) => Remembered'
<1> SUFFICES ASSUME TypeOK, Remembered, on_state_reset \/ on_entry_removed
             PROVE  Remembered'
  OBVIOUS
<1> DEFINE e == Head(inbox)
<1>1. /\ handler = Idle /\ inbox # << >> /\ inbox' = Tail(inbox)
      /\ UNCHANGED <<tables, halved, unnoticed, handler>>
  BY DEF on_state_reset, on_entry_removed, Next_event
<1>2. HalvedOrWriting' /\ WritesBeforeNews'
  BY <1>1 DEF Remembered, HalvedOrWriting, WritesBeforeNews, Writing, Idle, tables
<1>3. e \in Events
  BY <1>1, TakeItem DEF TypeOK
<1>4. \A d \in Device, m \in Host :
        NewsPending(d, m) => NewsPending(d, m)' \/ e \in News(d, m)
  BY <1>1, NewsLeft
\* Whoever the news is about is not remembered any more.
<1>5. ASSUME NEW d \in Device, NEW m \in learned'[d]
      PROVE  m \in learned[d] /\ e \notin News(d, m)
  <2>1. learned \in [Device -> SUBSET Host]
    BY DEF TypeOK
  <2>2. CASE on_state_reset
    <3>1. e.type = "state_reset" /\ learned' = [learned EXCEPT ![e.dev] = {}]
      BY <2>2 DEF on_state_reset, Next_event
    <3>2. PICK c \in Device : e = StateReset(c)
      BY <1>3, <3>1 DEF Events, PacketIns, Notices, EntryRemoved
    <3>3. e.dev = c
      BY <3>2 DEF StateReset
    <3>4. m \in learned[d] /\ c # d /\ m \in Host
      BY <1>5, <2>1, <3>1, <3>3
    <3> QED
      BY <3>2, <3>4, NewsAbout
  <2>3. CASE on_entry_removed
    <3>1. /\ e.type = "entry_removed"
          /\ learned' = [learned EXCEPT ![e.dev] = @ \ {e.mac}]
      BY <2>3 DEF on_entry_removed, Next_event
    <3>2. PICK c \in Device, h \in Host : e = EntryRemoved(c, h)
      BY <1>3, <3>1 DEF Events, PacketIns, Notices, StateReset
    <3>3. e.dev = c /\ e.mac = h
      BY <3>2 DEF EntryRemoved
    <3>4. m \in learned[d] /\ ~ (c = d /\ h = m) /\ m \in Host
      BY <1>5, <2>1, <3>1, <3>3
    <3> QED
      BY <3>2, <3>4, NewsAbout
  <2> QED
    BY <2>2, <2>3
<1>6. LearnedIsInstalled'
  BY <1>1, <1>4, <1>5 DEF Remembered, LearnedIsInstalled, tables, TypeOK
<1> QED
  BY <1>2, <1>6 DEF Remembered

LEMMA WriteRemembered ==
    ASSUME TypeOK, Remembered,
           sMacInstalled \/ dMacInstalled \/ AlreadyExists \/ InstallFails
    PROVE  Remembered'
<1> DEFINE c == handler.dev
           h == handler.mac
<1>1. handler # Idle /\ UNCHANGED <<inbox, unnoticed>>
  BY DEF sMacInstalled, dMacInstalled, AlreadyExists, InstallFails, Idle
<1>2. handler \in [stage : {"sMac", "dMac"}, dev : Device, mac : Host, port : Port]
  BY <1>1 DEF TypeOK
<1>3. /\ sMac \in [Device -> SUBSET Host] /\ learned \in [Device -> SUBSET Host]
      /\ dMac \in [Device -> [Host -> Port \cup {NoPort}]]
  BY DEF TypeOK
<1>4. \A d \in Device, m \in Host : NewsPending(d, m) => NewsPending(d, m)'
  BY <1>1, NewsKept
<1>5. CASE sMacInstalled
  <2>1. /\ handler.stage = "sMac" /\ handler' = [handler EXCEPT !.stage = "dMac"]
        /\ sMac' = [sMac EXCEPT ![c] = @ \cup {h}]
        /\ UNCHANGED <<dMac, halved, learned>>
    BY <1>5 DEF sMacInstalled
  <2>2. \A d \in Device, m \in Host :
          (Writing(d, m)' <=> d = c /\ m = h) /\ ~ Writing(d, m)
    BY <1>2, <2>1 DEF Writing
  <2>3. /\ \A d \in Device : sMac[d] \subseteq sMac'[d]
        /\ \A d \in Device : \A m \in sMac'[d] : m \in sMac[d] \/ (d = c /\ m = h)
        /\ h \in sMac'[c]
    BY <1>2, <1>3, <2>1
  <2>4. HalvedOrWriting'
    BY <2>1, <2>2, <2>3 DEF Remembered, HalvedOrWriting
  <2>5. WritesBeforeNews'
    BY <2>2, <2>3 DEF WritesBeforeNews
  <2>6. LearnedIsInstalled'
    BY <1>3, <1>4, <2>1, <2>3 DEF Remembered, LearnedIsInstalled
  <2> QED
    BY <2>4, <2>5, <2>6 DEF Remembered
<1>6. CASE dMacInstalled
  <2>1. /\ handler.stage = "dMac" /\ handler' = Idle
        /\ dMac' = [dMac EXCEPT ![c][h] = handler.port]
        /\ halved' = halved \ {<<c, h>>}
        /\ learned' = [learned EXCEPT ![c] = @ \cup {h}]
        /\ UNCHANGED sMac
    BY <1>6 DEF dMacInstalled, Remember
  <2>2. \A d \in Device, m \in Host :
          ~ Writing(d, m)' /\ (Writing(d, m) <=> d = c /\ m = h)
    BY <2>1 DEF Writing, Idle
  <2>3. /\ \A d \in Device, m \in Host :
             \/ dMac'[d][m] = dMac[d][m] /\ (<<d, m>> \in halved => <<d, m>> \in halved')
             \/ d = c /\ m = h
        /\ dMac'[c][h] # NoPort
        /\ \A d \in Device : \A m \in learned'[d] :
             m \in learned[d] \/ (d = c /\ m = h)
    BY <1>2, <1>3, <2>1, ParametersAssumption
  <2>4. HalvedOrWriting'
    BY <2>1, <2>2, <2>3 DEF Remembered, HalvedOrWriting
  <2>5. WritesBeforeNews'
    BY <2>2 DEF WritesBeforeNews
  <2>6. LearnedIsInstalled'
    <3> SUFFICES ASSUME NEW d \in Device, NEW m \in learned'[d]
                 PROVE  \/ m \in sMac'[d] /\ (dMac'[d][m] # NoPort \/ <<d, m>> \in halved')
                        \/ NewsPending(d, m)'
      BY DEF LearnedIsInstalled
    <3>1. CASE d = c /\ m = h
      BY <1>2, <1>4, <2>1, <2>2, <2>3, <3>1 DEF Remembered, WritesBeforeNews
    <3>2. CASE ~ (d = c /\ m = h)
      <4>1. m \in learned[d] /\ m \in Host
        BY <1>3, <2>3, <3>2
      <4> QED
        BY <1>4, <2>1, <2>3, <3>2, <4>1 DEF Remembered, LearnedIsInstalled
    <3> QED
      BY <3>1, <3>2
  <2> QED
    BY <2>4, <2>5, <2>6 DEF Remembered
<1>7. CASE AlreadyExists
  <2>1. /\ handler' = Idle
        /\ learned' = [learned EXCEPT ![c] = @ \cup {h}]
        /\ UNCHANGED <<sMac, dMac, halved>>
        /\ \/ handler.stage = "sMac" /\ h \in sMac[c]
           \/ handler.stage = "dMac" /\ dMac[c][h] # NoPort
    BY <1>7 DEF AlreadyExists, Remember, tables
  <2>2. \A d \in Device, m \in Host :
          /\ ~ Writing(d, m)'
          /\ Writing(d, m) <=> handler.stage = "dMac" /\ d = c /\ m = h
    BY <2>1 DEF Writing, Idle
  <2>3. \A d \in Device : \A m \in learned'[d] :
          m \in learned[d] \/ (d = c /\ m = h)
    BY <1>2, <1>3, <2>1
  <2>4. HalvedOrWriting'
    BY <2>1, <2>2 DEF Remembered, HalvedOrWriting
  <2>5. WritesBeforeNews'
    BY <2>2 DEF WritesBeforeNews
  <2>6. (h \in sMac[c] /\ (dMac[c][h] # NoPort \/ <<c, h>> \in halved))
          \/ NewsPending(c, h)
    BY <1>2, <2>1, <2>2 DEF Remembered, HalvedOrWriting, WritesBeforeNews
  <2>7. LearnedIsInstalled'
    <3> SUFFICES ASSUME NEW d \in Device, NEW m \in learned'[d]
                 PROVE  \/ m \in sMac'[d] /\ (dMac'[d][m] # NoPort \/ <<d, m>> \in halved')
                        \/ NewsPending(d, m)'
      BY DEF LearnedIsInstalled
    <3>1. CASE d = c /\ m = h
      BY <1>2, <1>4, <2>1, <2>6, <3>1
    <3>2. CASE ~ (d = c /\ m = h)
      <4>1. m \in learned[d] /\ m \in Host
        BY <1>3, <2>3, <3>2
      <4> QED
        BY <1>4, <2>1, <4>1 DEF Remembered, LearnedIsInstalled
    <3> QED
      BY <3>1, <3>2
  <2> QED
    BY <2>4, <2>5, <2>7 DEF Remembered
<1>8. CASE InstallFails
  <2>1. /\ handler' = Idle /\ UNCHANGED <<sMac, dMac, learned>>
        /\ halved \subseteq halved'
        /\ handler.stage = "dMac" => <<c, h>> \in halved'
    BY <1>8 DEF InstallFails, tables
  <2>2. \A d \in Device, m \in Host :
          /\ ~ Writing(d, m)'
          /\ Writing(d, m) => handler.stage = "dMac" /\ d = c /\ m = h
    BY <2>1 DEF Writing, Idle
  <2>3. HalvedOrWriting'
    BY <2>1, <2>2 DEF Remembered, HalvedOrWriting
  <2>4. WritesBeforeNews'
    BY <2>2 DEF WritesBeforeNews
  <2>5. LearnedIsInstalled'
    BY <1>3, <1>4, <2>1 DEF Remembered, LearnedIsInstalled
  <2> QED
    BY <2>3, <2>4, <2>5 DEF Remembered
<1> QED
  BY <1>5, <1>6, <1>7, <1>8

LEMMA NextRemembered == TypeOK /\ Remembered /\ [Next]_vars => Remembered'
<1> SUFFICES ASSUME TypeOK, Remembered, [Next]_vars
             PROVE  Remembered'
  OBVIOUS
<1>1. ASSUME NEW d \in Device, NEW m \in Host, Frame(d, m)
      PROVE  Remembered'
  BY <1>1, NewsKept, StillRemembered DEF Frame
<1>2. ASSUME NEW d \in Device, NEW m \in Host, NEW p \in Port, Move(d, m, p)
      PROVE  Remembered'
  BY <1>2, NewsKept, StillRemembered DEF Move
<1>3. ASSUME NEW n \in Notices, Notice(n)
      PROVE  Remembered'
  BY <1>3, NewsQueued, StillRemembered DEF Notice, Events
<1>4. ASSUME NEW d \in Device, Deliver(d)
      PROVE  Remembered'
  <2>1. Head(clones[d]) \in Events
    BY <1>4, TakeItem DEF Deliver, TypeOK, Events
  <2> QED
    BY <1>4, <2>1, NewsQueued, StillRemembered DEF Deliver
<1>5. CASE UNCHANGED vars
  BY <1>5, NewsKept, StillRemembered DEF vars, tables
<1> QED
  BY <1>1, <1>2, <1>3, <1>4, <1>5, LoseRemembered, PacketRemembered,
     NewsRemembered, WriteRemembered
  DEF Next, PluginStep

\* self_learning.py:149-193: for any switches and hosts and tables of any size,
\* at any moment, however late clones and news come and whatever is lost or
\* fails: a MAC in _learned has both its rules, or news of a loss is still to
\* come, or its forwarding rule was lost alone or failed to be written.
THEOREM RememberedIsInstalled == Spec => []LearnedIsInstalled
<1>1. Init => Remembered
  BY DEF Init, Remembered, HalvedOrWriting, WritesBeforeNews, LearnedIsInstalled,
         Writing, Idle
<1>2. Remembered => LearnedIsInstalled
  BY DEF Remembered
<1> QED
  BY <1>1, <1>2, NextRemembered, LearningTypes, PTL DEF Spec

-----------------------------------------------------------------------------
(* NoDuplicateInsert, as long as nothing is lost and no write fails but for *)
(* want of room.                                                            *)

NothingFails == MaxFaults = 0 /\ MaxLosses = 0

\* What is remembered is what is installed, and the two tables fill in step.
InStep ==
    \A d \in Device :
        /\ learned[d] = DMacHosts(d)
        /\ sMac[d] = learned[d] \cup {m \in Host : Writing(d, m)}
        /\ IsFiniteSet(sMac[d]) /\ Cardinality(sMac[d]) <= TableSize

NoNews ==
    /\ unnoticed = {}
    /\ \A i \in DOMAIN inbox : inbox[i].type = "packet_in"

NotYetLearned == handler # Idle => handler.mac \notin learned[handler.dev]

Stepwise == InStep /\ NoNews /\ NotYetLearned

LEMMA InitStepwise == Init => Stepwise
<1> SUFFICES ASSUME Init PROVE Stepwise
  OBVIOUS
<1>1. \A d \in Device : DMacHosts(d) = {} /\ learned[d] = {} /\ sMac[d] = {}
  BY DEF Init, DMacHosts
<1>2. InStep
  BY <1>1, FS_EmptySet, ParametersAssumption
  DEF Init, InStep, Writing, Idle
<1> QED
  BY <1>2 DEF Init, Stepwise, NoNews, NotYetLearned

\* What is not in hand stays in step.
LEMMA TablesStepwise ==
    ASSUME Stepwise, UNCHANGED <<tables, learned, handler>>
    PROVE  InStep' /\ NotYetLearned'
BY DEF Stepwise, InStep, NotYetLearned, DMacHosts, Writing, tables

LEMMA PacketStepwise == TypeOK /\ Stepwise /\ on_packet_in => Stepwise'
<1> SUFFICES ASSUME TypeOK, Stepwise, on_packet_in PROVE Stepwise'
  OBVIOUS
<1> DEFINE e == Head(inbox)
<1>1. /\ handler = Idle /\ inbox # << >> /\ inbox' = Tail(inbox)
      /\ UNCHANGED <<tables, learned, unnoticed>>
      /\ handler' = IF e.mac \in learned[e.dev] THEN Idle
                    ELSE [stage |-> "sMac", dev |-> e.dev, mac |-> e.mac,
                          port |-> e.port]
  BY DEF on_packet_in, Next_event
<1>2. \A d \in Device, m \in Host :
        ~ Writing(d, m) /\ ~ Writing(d, m)'
  BY <1>1 DEF Writing, Idle
<1>3. InStep'
  BY <1>1, <1>2 DEF Stepwise, InStep, DMacHosts, tables
<1>4. NoNews'
  BY <1>1, TailIndex DEF Stepwise, NoNews, TypeOK
<1>5. NotYetLearned'
  BY <1>1 DEF NotYetLearned, Idle
<1> QED
  BY <1>3, <1>4, <1>5 DEF Stepwise

\* Neither write finds a rule of its key, and the second one finds room where
\* the first one has.
LEMMA WriteStepwise ==
    ASSUME NothingFails, TypeOK, Stepwise,
           sMacInstalled \/ dMacInstalled \/ AlreadyExists \/ InstallFails
    PROVE  Stepwise'
<1> DEFINE c == handler.dev
           h == handler.mac
<1>1. /\ handler # Idle
      /\ UNCHANGED <<inbox, unnoticed>>
  BY DEF sMacInstalled, dMacInstalled, AlreadyExists, InstallFails, Idle
<1>2. handler \in [stage : {"sMac", "dMac"}, dev : Device, mac : Host, port : Port]
  BY <1>1 DEF TypeOK
<1>3. /\ sMac \in [Device -> SUBSET Host] /\ learned \in [Device -> SUBSET Host]
      /\ dMac \in [Device -> [Host -> Port \cup {NoPort}]]
  BY DEF TypeOK
<1>4. h \notin learned[c] /\ learned[c] = DMacHosts(c)
  BY <1>1, <1>2 DEF Stepwise, NotYetLearned, InStep
<1>5. dMac[c][h] = NoPort
  BY <1>2, <1>4 DEF DMacHosts
<1>6. NoNews'
  BY <1>1 DEF Stepwise, NoNews
<1>7. CASE sMacInstalled
  <2>1. /\ handler.stage = "sMac" /\ handler' = [handler EXCEPT !.stage = "dMac"]
        /\ sMac' = [sMac EXCEPT ![c] = @ \cup {h}]
        /\ Cardinality(sMac[c]) < TableSize /\ h \notin sMac[c]
        /\ UNCHANGED <<dMac, learned>>
    BY <1>7 DEF sMacInstalled
  <2>2. /\ handler'.dev = c /\ handler'.mac = h /\ handler'.stage = "dMac"
        /\ \A d \in Device, m \in Host :
             /\ Writing(d, m)' <=> d = c /\ m = h
             /\ ~ Writing(d, m)
    BY <1>2, <2>1 DEF Writing
  <2>3. /\ IsFiniteSet(sMac[c] \cup {h})
        /\ Cardinality(sMac[c] \cup {h}) <= TableSize
    <3>1. IsFiniteSet(sMac[c])
      BY <1>2 DEF Stepwise, InStep
    <3>2. Cardinality(sMac[c] \cup {h}) = Cardinality(sMac[c]) + 1
      BY <2>1, <3>1, FS_AddElement
    <3> QED
      <4>1. IsFiniteSet(sMac[c] \cup {h})
        BY <3>1, FS_AddElement
      <4>2. Cardinality(sMac[c]) \in Nat /\ TableSize \in Nat
        BY <3>1, FS_CardinalityType, ParametersAssumption
      <4>3. Cardinality(sMac[c]) < TableSize
        BY <2>1
      <4> QED
        BY <3>2, <4>1, <4>2, <4>3
  <2>4. \A d \in Device : DMacHosts(d)' = DMacHosts(d)
    BY <2>1 DEF DMacHosts
  <2>5. InStep'
    <3> SUFFICES ASSUME NEW d \in Device
                 PROVE  /\ learned'[d] = DMacHosts(d)'
                        /\ sMac'[d] = learned'[d]
                                        \cup {m \in Host : Writing(d, m)'}
                        /\ IsFiniteSet(sMac'[d]) /\ Cardinality(sMac'[d]) <= TableSize
      BY DEF InStep
    <3>1. /\ learned[d] = DMacHosts(d) /\ sMac[d] = learned[d]
          /\ IsFiniteSet(sMac[d]) /\ Cardinality(sMac[d]) <= TableSize
      <4>1. {m \in Host : Writing(d, m)} = {}
        BY <2>2
      <4>2. /\ learned[d] = DMacHosts(d)
            /\ sMac[d] = learned[d] \cup {m \in Host : Writing(d, m)}
            /\ IsFiniteSet(sMac[d]) /\ Cardinality(sMac[d]) <= TableSize
        BY <1>2 DEF Stepwise, InStep
      <4> QED
        BY <4>1, <4>2
    <3>2. CASE d = c
      <4>1. {m \in Host : Writing(d, m)'} = {h}
        BY <1>2, <2>2, <3>2
      <4>2. sMac'[d] = sMac[d] \cup {h}
        BY <1>2, <1>3, <2>1, <3>2
      <4> QED
        BY <2>1, <2>3, <2>4, <3>1, <3>2, <4>1, <4>2
    <3>3. CASE d # c
      <4>1. {m \in Host : Writing(d, m)'} = {}
        BY <2>2, <3>3
      <4>2. sMac'[d] = sMac[d]
        BY <1>3, <2>1, <3>3
      <4> QED
        BY <2>1, <2>4, <3>1, <4>1, <4>2
    <3> QED
      BY <3>2, <3>3
  <2>6. NotYetLearned'
    BY <1>4, <2>1, <2>2 DEF NotYetLearned
  <2> QED
    BY <1>6, <2>5, <2>6 DEF Stepwise
<1>8. CASE dMacInstalled
  <2>1. /\ handler.stage = "dMac" /\ handler' = Idle
        /\ dMac' = [dMac EXCEPT ![c][h] = handler.port]
        /\ learned' = [learned EXCEPT ![c] = @ \cup {h}]
        /\ UNCHANGED sMac
    BY <1>8 DEF dMacInstalled, Remember
  <2>2. \A d \in Device, m \in Host :
          /\ ~ Writing(d, m)'
          /\ Writing(d, m) <=> d = c /\ m = h
    BY <2>1 DEF Writing, Idle
  <2>3. ASSUME NEW d \in Device
        PROVE  DMacHosts(d)' = DMacHosts(d) \cup (IF d = c THEN {h} ELSE {})
    BY <1>2, <1>3, <2>1, ParametersAssumption DEF DMacHosts
  <2>4. ASSUME NEW d \in Device
        PROVE  learned'[d] = learned[d] \cup (IF d = c THEN {h} ELSE {})
    BY <1>2, <1>3, <2>1
  <2>5. ASSUME NEW d \in Device
        PROVE  sMac[d] = learned'[d]
    <3>1. sMac[d] = learned[d] \cup {m \in Host : Writing(d, m)}
      BY DEF Stepwise, InStep
    <3>2. {m \in Host : Writing(d, m)} = IF d = c THEN {h} ELSE {}
      BY <1>2, <2>2
    <3> QED
      BY <2>4, <3>1, <3>2
  <2>6. InStep'
    <3> SUFFICES ASSUME NEW d \in Device
                 PROVE  /\ learned'[d] = DMacHosts(d)'
                        /\ sMac'[d] = learned'[d]
                                        \cup {m \in Host : Writing(d, m)'}
                        /\ IsFiniteSet(sMac'[d]) /\ Cardinality(sMac'[d]) <= TableSize
      BY DEF InStep
    <3>1. /\ learned[d] = DMacHosts(d)
          /\ IsFiniteSet(sMac[d]) /\ Cardinality(sMac[d]) <= TableSize
      BY DEF Stepwise, InStep
    <3>2. {m \in Host : Writing(d, m)'} = {}
      BY <2>2
    <3>3. learned'[d] = DMacHosts(d)'
      BY <2>3, <2>4, <3>1
    <3>4. sMac'[d] = sMac[d] /\ sMac[d] = learned'[d]
      BY <2>1, <2>5
    <3>5. sMac'[d] = learned'[d] \cup {m \in Host : Writing(d, m)'}
      BY <3>2, <3>4
    <3>6. IsFiniteSet(sMac'[d]) /\ Cardinality(sMac'[d]) <= TableSize
      BY <3>1, <3>4
    <3> QED
      BY <3>3, <3>5, <3>6
  <2> QED
    BY <1>6, <2>1, <2>6 DEF Stepwise, NotYetLearned
<1>9. CASE AlreadyExists
  <2>1. handler.stage = "sMac" /\ h \in sMac[c]
    BY <1>5, <1>9 DEF AlreadyExists
  <2>2. sMac[c] = learned[c]
    BY <1>2, <2>1 DEF Stepwise, InStep, Writing
  <2> QED
    BY <1>4, <2>1, <2>2
<1>10. CASE InstallFails
  <2>1. handler' = Idle /\ TableFull /\ UNCHANGED <<sMac, dMac, learned>>
    BY <1>10, ParametersAssumption DEF InstallFails, NothingFails, TypeOK, tables
  <2>2. handler.stage = "sMac"
    <3> SUFFICES ASSUME handler.stage = "dMac" PROVE FALSE
      BY <1>2
    <3>1. Cardinality(DMacHosts(c)) >= TableSize
      BY <2>1 DEF TableFull
    <3>2. sMac[c] = DMacHosts(c) \cup {h} /\ h \notin DMacHosts(c)
      <4>1. {m \in Host : Writing(c, m)} = {h}
        BY <1>2 DEF Writing
      <4> QED
        BY <1>2, <1>4, <4>1 DEF Stepwise, InStep
    <3>3. IsFiniteSet(sMac[c]) /\ Cardinality(sMac[c]) <= TableSize
      BY <1>2 DEF Stepwise, InStep
    <3>4. IsFiniteSet(DMacHosts(c)) /\ DMacHosts(c) = sMac[c] \ {h} /\ h \in sMac[c]
      BY <3>2, <3>3, FS_Subset
    <3>5. Cardinality(DMacHosts(c)) = Cardinality(sMac[c]) - 1
      BY <3>3, <3>4, FS_RemoveElement
    <3> QED
      BY <3>1, <3>3, <3>5, FS_CardinalityType, ParametersAssumption
  <2>3. \A d \in Device, m \in Host :
          ~ Writing(d, m) /\ ~ Writing(d, m)'
    BY <2>1, <2>2 DEF Writing, Idle
  <2>4. InStep'
    BY <2>1, <2>3 DEF Stepwise, InStep, DMacHosts
  <2> QED
    BY <1>6, <2>1, <2>4 DEF Stepwise, NotYetLearned
<1> QED
  BY <1>7, <1>8, <1>9, <1>10

LEMMA NextStepwise ==
    NothingFails => (TypeOK /\ Stepwise /\ [Next]_vars => Stepwise')
<1> SUFFICES ASSUME NothingFails, TypeOK, Stepwise, [Next]_vars
             PROVE  Stepwise'
  OBVIOUS
<1>1. ASSUME NEW d \in Device, NEW m \in Host, Frame(d, m)
      PROVE  Stepwise'
  BY <1>1, TablesStepwise DEF Frame, Stepwise, NoNews
<1>2. ASSUME NEW kind \in LossKinds, NEW d \in Device, NEW m \in Host,
             Lose(kind, d, m)
      PROVE  Stepwise'
  BY <1>2 DEF Lose, TypeOK, NothingFails
<1>3. ASSUME NEW n \in Notices, Notice(n)
      PROVE  Stepwise'
  BY <1>3 DEF Notice, Stepwise, NoNews
<1>4. ASSUME NEW d \in Device, NEW m \in Host, NEW p \in Port, Move(d, m, p)
      PROVE  Stepwise'
  BY <1>4, TablesStepwise DEF Move, Stepwise, NoNews
<1>5. ASSUME NEW d \in Device, Deliver(d)
      PROVE  Stepwise'
  <2>1. /\ UNCHANGED <<tables, learned, handler, unnoticed>>
        /\ inbox' = Append(inbox, Head(clones[d]))
    BY <1>5 DEF Deliver
  <2>2. Head(clones[d]) \in PacketIns
    BY <1>5, TakeItem DEF Deliver, TypeOK
  <2>3. NoNews'
    BY <2>1, <2>2, AppendItem DEF Stepwise, NoNews, PacketIns, Events, TypeOK
  <2> QED
    BY <2>1, <2>3, TablesStepwise DEF Stepwise
<1>6. CASE on_state_reset \/ on_entry_removed
  <2>1. inbox # << >> /\ Head(inbox).type # "packet_in"
    BY <1>6 DEF on_state_reset, on_entry_removed, Next_event
  <2>2. 1 \in DOMAIN inbox /\ Head(inbox) = inbox[1]
    BY <2>1, TakeItem DEF TypeOK
  <2> QED
    BY <2>1, <2>2 DEF Stepwise, NoNews
<1>7. CASE UNCHANGED vars
  BY <1>7, TablesStepwise DEF vars, tables, Stepwise, NoNews
<1> QED
  BY <1>1, <1>2, <1>3, <1>4, <1>5, <1>6, <1>7, PacketStepwise, WriteStepwise
  DEF Next, PluginStep

\* self_learning.py:149-168: for any number of switches and hosts and tables of
\* any size, however many clones of a MAC wait, no rule is inserted twice as
\* long as the switches lose none and writes fail for want of room only.
THEOREM NeverTwice == NothingFails => (Spec => []NoDuplicateInsert)
<1> SUFFICES ASSUME NothingFails
             PROVE  Spec => []NoDuplicateInsert
  OBVIOUS
<1>1. TypeOK /\ Stepwise => NoDuplicateInsert
  <2> SUFFICES ASSUME TypeOK, Stepwise, handler # Idle
               PROVE  NoDuplicateInsert
    BY DEF NoDuplicateInsert, Idle
  <2>1. handler.dev \in Device /\ handler.mac \in Host
    BY DEF TypeOK
  <2>2. /\ handler.mac \notin learned[handler.dev]
        /\ learned[handler.dev] = DMacHosts(handler.dev)
        /\ handler.stage = "sMac" => sMac[handler.dev] = learned[handler.dev]
    BY <2>1 DEF Stepwise, NotYetLearned, InStep, Writing
  <2> QED
    BY <2>1, <2>2 DEF NoDuplicateInsert, DMacHosts
<1>2. TypeOK /\ Stepwise /\ [Next]_vars => Stepwise'
  BY NextStepwise
<1> QED
  BY <1>1, <1>2, InitStepwise, LearningTypes, PTL DEF Spec

=============================================================================
