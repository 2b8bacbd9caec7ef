-------------------------- MODULE P4Session_proofs --------------------------
(***************************************************************************)
(* Proofs about P4Session: for any switches, entries and bounds, the       *)
(* controller's tables keep their types, no session that is listed stays   *)
(* open, no event is left out, and a switch is sent the numbers that were  *)
(* asked for.                                                              *)
(***************************************************************************)
EXTENDS P4Session, SequenceTheorems, WellFoundedInduction, TLAPS

\* Every switch has a queue, a stream and counts of its own.
Shapes ==
    /\ DOMAIN requests = Switch /\ DOMAIN responses = Switch
    /\ DOMAIN events = Switch
    /\ sent \in [Switch -> 0 .. MaxSent] /\ notices \in [Switch -> Nat]

Setup == {"arbitrate", "push", "install"}

\* The device that is being set up has a session: it is listed after its
\* constructor and registered after its arbitration.
CurrentOK ==
    /\ main \in {"opened", "listed"} \cup Setup =>
         /\ next \in 1 .. Len(Startup)
         /\ Current \in Switch /\ stream[Current] # "none"
    /\ main \in {"listed"} \cup Setup => Current \in connections
    /\ main \in {"push", "install"} => Current \in devices

\* Only the constructor that is running, or was interrupted, leaves a session
\* out of the list.
ListedOK ==
    \A d \in Switch : stream[d] # "none" /\ d \notin connections =>
        d = Current /\ main \in {"opened", "finally"} \cup Over

\* Nothing is asked of a switch without a session.
Unasked == \A d \in Switch : stream[d] = "none" => requests[d] = << >>

\* What is closed has been told so last, which is nothing before shutdown, and
\* ctrl.shutdown() does not return before all that is listed is closed.
ClosedOK ==
    /\ \A d \in Switch : stream[d] = "cancelled" =>
         /\ main \in {"finally"} \cup Over
         /\ requests[d] # << >> /\ Last(requests[d]) = Sentinel
    /\ main = "done" => \A d \in connections : stream[d] = "cancelled"

\* What shutdown() leaves in a queue of requests.
LEMMA AppendSentinel ==
    ASSUME NEW q \in Seq({Arbitration, Sentinel})
    PROVE  /\ Append(q, Sentinel) \in Seq({Arbitration, Sentinel})
           /\ Append(q, Sentinel) # << >>
           /\ Last(Append(q, Sentinel)) = Sentinel
<1>1. Len(Append(q, Sentinel)) = Len(q) + 1 /\ Len(q) \in Nat
  OBVIOUS
<1>2. Append(q, Sentinel)[Len(q) + 1] = Sentinel
  OBVIOUS
<1>3. Len(<< >>) = 0
  OBVIOUS
<1>4. Append(q, Sentinel) # << >>
  BY <1>1, <1>3
<1> QED
  BY <1>1, <1>2, <1>4 DEF Last

\* And of what connect puts into it.
LEMMA AppendArbitration ==
    ASSUME NEW q \in Seq({Arbitration, Sentinel})
    PROVE  Append(q, Arbitration) \in Seq({Arbitration, Sentinel})
OBVIOUS

PInv ==
    /\ TypeOK /\ connections \subseteq Switch /\ Shapes
    /\ CurrentOK /\ ListedOK /\ Unasked /\ ClosedOK

LEMMA InitPInv == Init => PInv
<1> SUFFICES ASSUME Init PROVE PInv
  OBVIOUS
<1> USE DEF Init
<1>1. Len(Startup) \in Nat
  BY StartupAssumption
<1>2. TypeOK
  BY <1>1, EmptySeq DEF TypeOK, Ended, Over
<1>3. Shapes
  BY BoundsAssumption DEF Shapes
<1> QED
  BY <1>2, <1>3 DEF PInv, CurrentOK, ListedOK, Unasked, ClosedOK, Setup

\* A message that arrives changes no session.
LEMMA SameSessions ==
    ASSUME PInv, UNCHANGED <<startupVars, requests, stream>>
    PROVE  CurrentOK' /\ ListedOK' /\ Unasked' /\ ClosedOK'
BY DEF PInv, CurrentOK, ListedOK, Unasked, ClosedOK, startupVars, Current

LEMMA SwitchInv ==
    ASSUME NEW d \in Switch, PInv, SwitchStep(d)
    PROVE  PInv'
<1> USE BoundsAssumption, StartupAssumption
    DEF PInv, TypeOK, Shapes, CurrentOK, ListedOK, Unasked, ClosedOK, Ended, Over,
        startupVars, Current, Setup
<1>0. main # "done"
  BY DEF SwitchStep
<1>1. CASE Answer(d)
  <2>1. requests'[d] \in Seq({Arbitration, Sentinel})
    BY <1>1 DEF Answer
  <2>2. responses'[d] \in Seq({Notice} \cup 1 .. MaxSent)
    BY <1>1 DEF Answer
  <2> QED
    BY <1>0, <1>1, <2>1, <2>2 DEF Answer
<1>2. CASE SendPacket(d)
  <2>1. sent[d] + 1 \in 1 .. MaxSent
    BY <1>2 DEF SendPacket
  <2>2. responses'[d] \in Seq({Notice} \cup 1 .. MaxSent)
    BY <1>2, <2>1 DEF SendPacket
  <2>3. /\ responses' = [responses EXCEPT ![d] = Append(@, sent[d] + 1)]
        /\ UNCHANGED <<startupVars, requests, stream, reading, events, notices>>
    BY <1>2 DEF SendPacket
  <2>4. \A c \in Switch : responses'[c] \in Seq({Notice} \cup 1 .. MaxSent)
    BY <2>2, <2>3
  <2>5. sent' \in [Switch -> 0 .. MaxSent]
    BY <1>2, <2>1 DEF SendPacket
  <2>6. TypeOK'
    BY <2>3, <2>4
  <2>7. CurrentOK' /\ ListedOK' /\ Unasked' /\ ClosedOK'
    BY <2>3, SameSessions
  <2>8. Shapes' /\ (connections \subseteq Switch)'
    BY <2>3, <2>5
  <2> HIDE DEF TypeOK, Shapes, CurrentOK, ListedOK, Unasked, ClosedOK
  <2> QED
    BY <2>6, <2>7, <2>8
<1>3. CASE SendNotice(d)
  <2>1. responses'[d] \in Seq({Notice} \cup 1 .. MaxSent)
    BY <1>3 DEF SendNotice
  <2>2. /\ responses' = [responses EXCEPT ![d] = Append(@, Notice)]
        /\ UNCHANGED <<startupVars, requests, stream, reading, events, sent>>
    BY <1>3 DEF SendNotice
  <2>3. \A c \in Switch : responses'[c] \in Seq({Notice} \cup 1 .. MaxSent)
    BY <2>1, <2>2
  <2>4. notices' \in [Switch -> Nat]
    <3>1. notices' = [notices EXCEPT ![d] = @ + 1] /\ notices \in [Switch -> Nat]
      BY <1>3 DEF SendNotice
    <3> HIDE DEF PInv
    <3> QED
      BY <3>1
  <2>5. TypeOK'
    BY <2>2, <2>3
  <2>6. CurrentOK' /\ ListedOK' /\ Unasked' /\ ClosedOK'
    BY <2>2, SameSessions
  <2>7. Shapes' /\ (connections \subseteq Switch)'
    BY <2>2, <2>4
  <2> HIDE DEF TypeOK, Shapes, CurrentOK, ListedOK, Unasked, ClosedOK
  <2> QED
    BY <2>5, <2>6, <2>7
<1>4. CASE End(d)
  <2>1. PICK how \in Ended, n \in 0 .. Len(responses[d]) :
          /\ stream' = [stream EXCEPT ![d] = how]
          /\ responses' = [responses EXCEPT ![d] = SubSeq(@, 1, n)]
    BY <1>4 DEF End
  <2>2. SubSeq(responses[d], 1, n) \in Seq({Notice} \cup 1 .. MaxSent)
    BY SubSeqProperties
  <2>3. UNCHANGED <<startupVars, requests, reading, events, sent, notices>>
    BY <1>4 DEF End
  <2>4. stream[d] \notin {"none", "cancelled"}
    BY <1>4 DEF End
  <2>5. TypeOK'
    BY <2>1, <2>2, <2>3, <2>4
  <2> QED
    BY <1>0, <2>1, <2>3, <2>4, <2>5
<1> QED
  BY <1>1, <1>2, <1>3, <1>4 DEF SwitchStep

\* The device whose turn is next.
LEMMA NextSwitch ==
    ASSUME next \in 0 .. Len(Startup), next < Len(Startup)
    PROVE  next + 1 \in 1 .. Len(Startup) /\ Startup[next + 1] \in Switch
<1>1. Startup \in Seq(Switch) /\ Len(Startup) \in Nat
  BY StartupAssumption
<1>2. next + 1 \in 1 .. Len(Startup)
  BY <1>1
<1> QED
  BY <1>1, <1>2, ElementOfSeq

LEMMA StepInv == PInv /\ Step => PInv'
<1> SUFFICES ASSUME PInv, Step PROVE PInv'
  OBVIOUS
<1> USE BoundsAssumption, StartupAssumption
    DEF PInv, TypeOK, Shapes, CurrentOK, ListedOK, Unasked, ClosedOK, Ended, Over,
        streamVars, Current, Setup
<1>1. CASE Open
  <2>1. next + 1 \in 1 .. Len(Startup) /\ Startup[next + 1] \in Switch
    BY <1>1, NextSwitch DEF Open
  <2> PICK d \in Switch : d = Startup[next + 1]
    BY <2>1
  <2>2. /\ main = "load" /\ next' = next + 1 /\ main' = "opened"
        /\ stream' = [stream EXCEPT ![d] = "open"]
        /\ UNCHANGED <<connections, requests, responses, devices, pipeline, reading,
                       events, sent, notices>>
    BY <1>1 DEF Open
  <2>3. d = Startup[next'] /\ next' \in 1 .. Len(Startup) /\ next' \in 0 .. Len(Startup)
    BY <2>1, <2>2
  <2>4. stream' \in [Switch -> {"none", "open", "answered", "cancelled"} \cup Ended]
    BY <2>2
  <2>5. TypeOK'
    BY <2>2, <2>3, <2>4
  <2>6. CurrentOK' /\ ClosedOK' /\ Unasked'
    BY <2>2, <2>3
  <2>7. ListedOK'
    BY <2>2, <2>3
  <2> QED
    BY <2>2, <2>5, <2>6, <2>7
<1>2. CASE Arbitrated
  <2>1. Current \in Switch
    BY <1>2 DEF Arbitrated
  <2> DEFINE All == {Notice} \cup 1 .. MaxSent
  <2>2. Tail(responses[Current]) \in Seq(All)
    <3>1. responses[Current] \in Seq(All) /\ responses[Current] # << >>
      BY <1>2, <2>1 DEF Arbitrated
    <3> HIDE DEF All
    <3> QED
      BY <3>1
  <2> QED
    BY <1>2, <2>1, <2>2 DEF Arbitrated
<1>3. CASE NotArbitrated
  BY <1>3 DEF NotArbitrated
<1>4. CASE ArbitrationFails
  BY <1>4 DEF ArbitrationFails
<1>5. CASE push_pipeline
  BY <1>5 DEF push_pipeline
<1>6. CASE CallFails
  BY <1>6 DEF CallFails
<1>7. ASSUME NEW e \in Entries, install_table_entry(e) PROVE PInv'
  BY <1>7 DEF install_table_entry
<1>8. ASSUME NEW e \in Entries, InstallRaises(e) PROVE PInv'
  BY <1>8 DEF InstallRaises
<1>9. CASE NothingToInstall
  BY <1>9 DEF NothingToInstall
<1>10. CASE Run
  BY <1>10 DEF Run
<1>11. ASSUME NEW d \in Switch, Close(d) PROVE PInv'
  <2>1. /\ Append(requests[d], Sentinel) \in Seq({Arbitration, Sentinel})
        /\ Append(requests[d], Sentinel) # << >>
        /\ Last(Append(requests[d], Sentinel)) = Sentinel
    BY AppendSentinel
  <2> QED
    BY <1>11, <2>1 DEF Close, ToClose, startupVars
<1>12. CASE Exit
  BY <1>12 DEF Exit, ToClose
<1>13. CASE Enlist
  BY <1>13 DEF Enlist
<1>14. CASE MasterArbitrationUpdate
  <2>1. Current \in Switch
    BY <1>14 DEF MasterArbitrationUpdate
  <2>2. Append(requests[Current], Arbitration) \in Seq({Arbitration, Sentinel})
    BY <2>1, AppendArbitration
  <2>3. stream[Current] # "cancelled"
    BY <1>14 DEF MasterArbitrationUpdate
  <2> QED
    BY <1>14, <2>1, <2>2, <2>3 DEF MasterArbitrationUpdate
<1>15. CASE Abort
  BY <1>15 DEF Abort
<1> QED
  BY <1>1, <1>2, <1>3, <1>4, <1>5, <1>6, <1>7, <1>8, <1>9, <1>10, <1>11,
     <1>12, <1>13, <1>14, <1>15 DEF Step, OwnStep, CallStep

LEMMA InterruptInv == PInv /\ Interrupt => PInv'
BY DEF Interrupt, PInv, TypeOK, Shapes, CurrentOK, ListedOK, Unasked, ClosedOK,
       Ended, Over, streamVars, Current, Setup

LEMMA ReadInv ==
    ASSUME NEW d \in Switch, PInv, Read(d) \/ ReadEnds(d)
    PROVE  PInv'
<1> USE BoundsAssumption
    DEF PInv, TypeOK, Shapes, CurrentOK, ListedOK, Unasked, ClosedOK, Ended, Over,
        startupVars, Current, Setup
<1>1. CASE Read(d)
  <2>1. Tail(responses[d]) \in Seq({Notice} \cup 1 .. MaxSent)
    BY <1>1 DEF Read
  <2>2. Head(responses[d]) \in {Notice} \cup 1 .. MaxSent
    BY <1>1 DEF Read
  <2>3. events'[d] \in Seq(1 .. MaxSent)
    <3>1. CASE Head(responses[d]) = Notice
      BY <1>1, <3>1 DEF Read
    <3>2. CASE Head(responses[d]) # Notice
      <4>1. Head(responses[d]) \in 1 .. MaxSent /\ events[d] \in Seq(1 .. MaxSent)
        BY <2>2, <3>2
      <4>2. events'[d] = Append(events[d], Head(responses[d]))
        BY <1>1, <3>2 DEF Read
      <4> QED
        BY <4>1, <4>2
    <3> QED
      BY <3>1, <3>2
  <2> QED
    BY <1>1, <2>1, <2>3 DEF Read
<1>2. CASE ReadEnds(d)
  BY <1>2 DEF ReadEnds, streamVars
<1> QED
  BY <1>1, <1>2

LEMMA StutterPInv == PInv /\ UNCHANGED vars => PInv'
<1> SUFFICES ASSUME PInv, UNCHANGED vars PROVE PInv'
  OBVIOUS
<1>1. CurrentOK' /\ ListedOK' /\ Unasked' /\ ClosedOK'
  BY SameSessions DEF vars, streamVars
<1>2. TypeOK' /\ Shapes' /\ (connections \subseteq Switch)'
  BY DEF vars, startupVars, streamVars, PInv, TypeOK, Shapes
<1> QED
  BY <1>1, <1>2 DEF PInv

LEMMA NextPInv == PInv /\ [Next]_vars => PInv'
BY SwitchInv, StepInv, InterruptInv, ReadInv, StutterPInv DEF Next

LEMMA SpecPInv == Spec => []PInv
BY InitPInv, NextPInv, PTL DEF Spec

\* switch.py and controller.py: the tables of the sessions keep their types,
\* and a device that is registered, has a pipeline or is read from is one that
\* is connected.
THEOREM SessionTypes == Spec => []TypeOK
<1>1. PInv => TypeOK
  BY DEF PInv
<1> QED
  BY <1>1, SpecPInv, PTL

\* controller.py:268-270: wherever the startup was interrupted, no session in
\* the list is open when ctrl.shutdown() has returned, and none is out of the
\* list but the one whose constructor was interrupted (switch.py:46-48).
THEOREM NoneLeftOpen == Spec => []AllClosed
<1>1. PInv => AllClosed
  BY DEF PInv, ListedOK, ClosedOK, AllClosed
<1> QED
  BY <1>1, SpecPInv, PTL

-----------------------------------------------------------------------------
(* What a session delivers *)

Message == {Notice} \cup 1 .. MaxSent

\* The numbers in q go up one by one from k + 1, notices of mastership aside.
Ascending(q, k) ==
    /\ \A i \in DOMAIN q : q[i] # Notice =>
         /\ q[i] > k
         /\ \A v \in k + 1 .. q[i] - 1 : \E j \in 1 .. i - 1 : q[j] = v
    /\ \A i, j \in DOMAIN q :
         i < j /\ q[i] # Notice /\ q[j] # Notice => q[i] < q[j]

\* And they end with n.
Reaches(q, k, n) == \A v \in k + 1 .. n : \E i \in DOMAIN q : q[i] = v

Below(q, n) == \A i \in DOMAIN q : q[i] <= n

LEMMA EmptyAscending ==
    ASSUME NEW k \in Nat
    PROVE  Ascending(<< >>, k) /\ Reaches(<< >>, k, k) /\ Below(<< >>, k)
<1>1. DOMAIN << >> = {}
  OBVIOUS
<1> QED
  BY <1>1 DEF Ascending, Reaches, Below

\* A notice changes nothing.
LEMMA AppendNotice ==
    ASSUME NEW q \in Seq(Message), NEW k \in Nat, NEW n \in Nat,
           Ascending(q, k), Below(q, n)
    PROVE  /\ Ascending(Append(q, Notice), k) /\ Below(Append(q, Notice), n)
           /\ Reaches(q, k, n) => Reaches(Append(q, Notice), k, n)
<1> DEFINE r == Append(q, Notice)
<1>1. /\ DOMAIN q = 1 .. Len(q) /\ Len(q) \in Nat
      /\ DOMAIN r = 1 .. Len(q) + 1 /\ r[Len(q) + 1] = Notice
      /\ \A i \in 1 .. Len(q) : r[i] = q[i]
  BY DEF Notice, Message
<1> HIDE DEF r
<1>2. Ascending(r, k)
  <2>1. ASSUME NEW i \in DOMAIN r, r[i] # Notice
        PROVE  /\ r[i] > k
               /\ \A v \in k + 1 .. r[i] - 1 : \E j \in 1 .. i - 1 : r[j] = v
    <3>1. i \in DOMAIN q /\ r[i] = q[i] /\ \A j \in 1 .. i - 1 : r[j] = q[j]
      BY <1>1, <2>1
    <3> QED
      BY <2>1, <3>1 DEF Ascending
  <2>2. ASSUME NEW i \in DOMAIN r, NEW j \in DOMAIN r,
               i < j, r[i] # Notice, r[j] # Notice
        PROVE  r[i] < r[j]
    BY <1>1, <2>2 DEF Ascending
  <2> QED
    BY <2>1, <2>2 DEF Ascending
<1>3. Below(r, n)
  BY <1>1 DEF Below, Notice
<1>4. Reaches(q, k, n) => Reaches(r, k, n)
  BY <1>1 DEF Reaches
<1> QED
  BY <1>2, <1>3, <1>4 DEF r

\* A packet or a digest is the next number.
LEMMA AppendNext ==
    ASSUME BoundsAssumption, NEW q \in Seq(Message), NEW k \in Nat,
           NEW n \in Nat, k <= n, n + 1 \in 1 .. MaxSent,
           Ascending(q, k), Reaches(q, k, n), Below(q, n)
    PROVE  /\ Ascending(Append(q, n + 1), k)
           /\ Reaches(Append(q, n + 1), k, n + 1)
           /\ Below(Append(q, n + 1), n + 1)
<1> DEFINE r == Append(q, n + 1)
<1>0. n + 1 \in Message
  BY DEF Message
<1>1. /\ DOMAIN q = 1 .. Len(q) /\ Len(q) \in Nat
      /\ DOMAIN r = 1 .. Len(q) + 1 /\ r[Len(q) + 1] = n + 1
      /\ \A i \in 1 .. Len(q) : r[i] = q[i]
  BY <1>0
<1>2. \A i \in 1 .. Len(q) : q[i] \in Nat
  BY BoundsAssumption DEF Message, Notice
<1> HIDE DEF r
<1>3. Ascending(r, k)
  <2>1. ASSUME NEW i \in DOMAIN r, r[i] # Notice
        PROVE  /\ r[i] > k
               /\ \A v \in k + 1 .. r[i] - 1 : \E j \in 1 .. i - 1 : r[j] = v
    <3>1. CASE i \in 1 .. Len(q)
      <4>1. /\ q[i] > k /\ r[i] = q[i]
            /\ \A v \in k + 1 .. q[i] - 1 : \E j \in 1 .. i - 1 : q[j] = v
        BY <1>1, <2>1, <3>1 DEF Ascending
      <4>2. \A j \in 1 .. i - 1 : r[j] = q[j]
        BY <1>1, <3>1
      <4> QED
        BY <4>1, <4>2
    <3>2. CASE i = Len(q) + 1
      <4>1. r[i] = n + 1
        BY <1>1, <3>2
      <4>2. ASSUME NEW v \in k + 1 .. n PROVE \E j \in 1 .. i - 1 : r[j] = v
        <5>1. PICK j \in 1 .. Len(q) : q[j] = v
          BY <1>1 DEF Reaches
        <5> QED
          BY <1>1, <3>2, <5>1
      <4> QED
        BY <4>1, <4>2
    <3> QED
      BY <1>1, <3>1, <3>2
  <2>2. ASSUME NEW i \in DOMAIN r, NEW j \in DOMAIN r,
               i < j, r[i] # Notice, r[j] # Notice
        PROVE  r[i] < r[j]
    <3>1. CASE j = Len(q) + 1
      <4>1. q[i] <= n
        BY <1>1, <2>2, <3>1 DEF Below
      <4> QED
        BY <1>1, <1>2, <2>2, <3>1, <4>1
    <3>2. CASE j \in 1 .. Len(q)
      BY <1>1, <2>2, <3>2 DEF Ascending
    <3> QED
      BY <1>1, <3>1, <3>2
  <2> QED
    BY <2>1, <2>2 DEF Ascending
<1>4. Reaches(r, k, n + 1)
  BY <1>1 DEF Reaches
<1>5. Below(r, n + 1)
  BY <1>1, <1>2 DEF Below
<1> QED
  BY <1>3, <1>4, <1>5 DEF r

\* What a stream loses when it ends is lost at its end.
LEMMA CutAscending ==
    ASSUME NEW q \in Seq(Message), NEW k \in Nat, NEW n \in Nat,
           NEW m \in 0 .. Len(q), Ascending(q, k), Below(q, n)
    PROVE  Ascending(SubSeq(q, 1, m), k) /\ Below(SubSeq(q, 1, m), n)
<1> DEFINE r == SubSeq(q, 1, m)
<1>1. /\ DOMAIN q = 1 .. Len(q) /\ Len(q) \in Nat /\ DOMAIN r = 1 .. m
      /\ \A i \in 1 .. m : r[i] = q[i]
  OBVIOUS
<1> HIDE DEF r
<1>2. Ascending(r, k)
  <2>1. \A i \in 1 .. m : i \in DOMAIN q /\ \A j \in 1 .. i - 1 : r[j] = q[j]
    BY <1>1
  <2>2. ASSUME NEW i \in 1 .. m, r[i] # Notice
        PROVE  /\ r[i] > k
               /\ \A v \in k + 1 .. r[i] - 1 : \E j \in 1 .. i - 1 : r[j] = v
    BY <1>1, <2>1, <2>2 DEF Ascending
  <2> QED
    BY <1>1, <2>1, <2>2 DEF Ascending
<1>3. Below(r, n)
  BY <1>1 DEF Below
<1> QED
  BY <1>2, <1>3 DEF r

\* Taking a notice, or the next number.
LEMMA TakeMessage ==
    ASSUME BoundsAssumption, NEW q \in Seq(Message), q # << >>,
           NEW k \in Nat, NEW n \in Nat, Ascending(q, k), Below(q, n)
    PROVE  /\ Below(Tail(q), n)
           /\ Head(q) = Notice => /\ Ascending(Tail(q), k)
                                  /\ Reaches(q, k, n) => Reaches(Tail(q), k, n)
           /\ Head(q) # Notice =>
                /\ Head(q) = k + 1 /\ k + 1 <= n
                /\ Ascending(Tail(q), k + 1)
                /\ Reaches(q, k, n) => Reaches(Tail(q), k + 1, n)
<1> DEFINE r == Tail(q)
<1>1. /\ DOMAIN q = 1 .. Len(q) /\ Len(q) \in Nat \ {0} /\ Head(q) = q[1]
      /\ DOMAIN r = 1 .. Len(q) - 1
      /\ \A i \in 1 .. Len(q) - 1 : r[i] = q[i + 1]
  BY EmptySeq, HeadTailProperties, LenProperties
<1>2. \A i \in 1 .. Len(q) : q[i] \in Nat
  BY BoundsAssumption DEF Message, Notice
<1> HIDE DEF r
<1>3. Below(r, n)
  BY <1>1 DEF Below
<1>4. \A i, j \in DOMAIN r :
        i < j /\ r[i] # Notice /\ r[j] # Notice => r[i] < r[j]
  <2>1. ASSUME NEW i \in DOMAIN r, NEW j \in DOMAIN r,
               i < j, r[i] # Notice, r[j] # Notice
        PROVE  r[i] < r[j]
    <3>1. /\ i + 1 \in DOMAIN q /\ j + 1 \in DOMAIN q /\ i + 1 < j + 1
          /\ r[i] = q[i + 1] /\ r[j] = q[j + 1]
      BY <1>1, <2>1
    <3> QED
      BY <2>1, <3>1 DEF Ascending
  <2> QED
    BY <2>1
\* The earlier places of r are those of q, but for the first.
<1>5. ASSUME NEW i \in DOMAIN r, NEW v, v # q[1],
             \E j \in 1 .. (i + 1) - 1 : q[j] = v
      PROVE  \E j \in 1 .. i - 1 : r[j] = v
  <2>1. PICK j \in 1 .. i : q[j] = v
    BY <1>1, <1>5
  <2>2. j - 1 \in 1 .. i - 1 /\ r[j - 1] = v
    BY <1>1, <1>5, <2>1
  <2> QED
    BY <2>2
<1>6. ASSUME q[1] = Notice PROVE Ascending(r, k)
  <2>1. ASSUME NEW i \in DOMAIN r, r[i] # Notice
        PROVE  /\ r[i] > k
               /\ \A v \in k + 1 .. r[i] - 1 : \E j \in 1 .. i - 1 : r[j] = v
    <3>1. i + 1 \in DOMAIN q /\ r[i] = q[i + 1] /\ q[i + 1] # Notice
      BY <1>1, <2>1
    <3>2. /\ r[i] > k
          /\ \A v \in k + 1 .. r[i] - 1 : \E j \in 1 .. (i + 1) - 1 : q[j] = v
      BY <3>1 DEF Ascending
    <3>3. \A v \in k + 1 .. r[i] - 1 : v # q[1]
      BY <1>6 DEF Notice
    <3> QED
      BY <1>5, <3>2, <3>3
  <2> QED
    BY <1>4, <2>1 DEF Ascending
<1>7. ASSUME q[1] # Notice
      PROVE  q[1] = k + 1 /\ k + 1 <= n /\ Ascending(r, k + 1)
  <2>1. q[1] = k + 1
    <3>1. 1 \in DOMAIN q
      BY <1>1
    <3>2. q[1] > k /\ \A v \in k + 1 .. q[1] - 1 : \E j \in 1 .. 1 - 1 : q[j] = v
      BY <1>7, <3>1 DEF Ascending
    <3>3. k + 1 \notin k + 1 .. q[1] - 1
      BY <3>2
    <3> QED
      BY <1>1, <1>2, <3>2, <3>3
  <2>2. k + 1 <= n
    BY <1>1, <2>1 DEF Below
  <2>3. ASSUME NEW i \in DOMAIN r, r[i] # Notice
        PROVE  /\ r[i] > k + 1
               /\ \A v \in k + 1 + 1 .. r[i] - 1 : \E j \in 1 .. i - 1 : r[j] = v
    <3>1. /\ i + 1 \in DOMAIN q /\ r[i] = q[i + 1] /\ q[i + 1] # Notice
          /\ 1 \in DOMAIN q /\ 1 < i + 1
      BY <1>1, <2>3
    <3>2. q[1] < q[i + 1]
      BY <1>7, <3>1 DEF Ascending
    <3>3. \A v \in k + 1 .. r[i] - 1 : \E j \in 1 .. (i + 1) - 1 : q[j] = v
      BY <3>1 DEF Ascending
    <3>4. ASSUME NEW v \in k + 1 + 1 .. r[i] - 1
          PROVE  \E j \in 1 .. i - 1 : r[j] = v
      <4>1. v \in k + 1 .. r[i] - 1 /\ v # q[1]
        BY <2>1
      <4> QED
        BY <1>5, <3>3, <4>1
    <3> QED
      BY <2>1, <3>1, <3>2, <3>4
  <2> QED
    BY <1>4, <2>1, <2>2, <2>3 DEF Ascending
<1>8. ASSUME NEW v, v # q[1], \E i \in DOMAIN q : q[i] = v
      PROVE  \E i \in DOMAIN r : r[i] = v
  <2>1. PICK i \in DOMAIN q : q[i] = v
    BY <1>8
  <2>2. i - 1 \in DOMAIN r /\ r[i - 1] = v
    BY <1>1, <1>8, <2>1
  <2> QED
    BY <2>2
<1>9. q[1] = Notice /\ Reaches(q, k, n) => Reaches(r, k, n)
  <2> SUFFICES ASSUME q[1] = Notice, Reaches(q, k, n), NEW v \in k + 1 .. n
               PROVE  \E i \in DOMAIN r : r[i] = v
    BY DEF Reaches
  <2>1. v # q[1]
    BY DEF Notice
  <2> QED
    BY <1>8, <2>1 DEF Reaches
<1>10. q[1] = k + 1 /\ Reaches(q, k, n) => Reaches(r, k + 1, n)
  <2> SUFFICES ASSUME q[1] = k + 1, Reaches(q, k, n), NEW v \in k + 1 + 1 .. n
               PROVE  \E i \in DOMAIN r : r[i] = v
    BY DEF Reaches
  <2>1. v \in k + 1 .. n /\ v # q[1]
    OBVIOUS
  <2> QED
    BY <1>8, <2>1 DEF Reaches
<1> QED
  BY <1>1, <1>3, <1>6, <1>7, <1>9, <1>10 DEF r

-----------------------------------------------------------------------------
(* EventsComplete *)

\* How far the read loop of d has come.
Told(d) == Len(events[d])

\* The events of d and what is on its way are what it has sent, up to the end
\* of its stream.
DeviceOK(d) ==
    /\ events[d] = [i \in 1 .. Told(d) |-> i]
    /\ Told(d) <= sent[d]
    /\ Ascending(responses[d], Told(d)) /\ Below(responses[d], sent[d])
    /\ stream[d] = "answered" => Reaches(responses[d], Told(d), sent[d])

\* A stream brings nothing before the answer to the arbitration.
Silent(d) ==
    stream[d] \in {"none", "open"} =>
        responses[d] = << >> /\ Told(d) = 0 /\ sent[d] = 0

\* What connect takes from the stream is a notice: the answer to the
\* arbitration, which nobody else takes and which does not come unasked.
FirstIsAnswer ==
    /\ main \in {"opened", "listed"} =>
         /\ responses[Current] = << >> /\ requests[Current] = << >>
         /\ stream[Current] # "answered"
    /\ main = "arbitrate" =>
         /\ stream[Current] = "answered" => responses[Current] # << >>
         /\ responses[Current] # << >> => Head(responses[Current]) = Notice

Begun == {"load", "opened", "listed"} \cup Setup

StartupOK ==
    /\ \A d \in Switch : stream[d] # "none" <=> \E i \in 1 .. next : d = Startup[i]
    /\ main \in Begun => reading = {}

EInv ==
    /\ \A d \in Switch : DeviceOK(d) /\ Silent(d)
    /\ FirstIsAnswer /\ StartupOK

LEMMA InitEInv == Init => EInv
<1> SUFFICES ASSUME Init PROVE EInv
  OBVIOUS
<1>1. \A d \in Switch : DeviceOK(d) /\ Silent(d)
  <2> SUFFICES ASSUME NEW d \in Switch PROVE DeviceOK(d) /\ Silent(d)
    OBVIOUS
  <2>1. /\ responses[d] = << >> /\ events[d] = << >> /\ sent[d] = 0
        /\ stream[d] = "none" /\ Told(d) = 0
    BY DEF Init, Told
  <2>2. << >> = [i \in 1 .. 0 |-> i]
    OBVIOUS
  <2> QED
    BY <2>1, <2>2, EmptyAscending DEF DeviceOK, Silent
<1>2. FirstIsAnswer /\ StartupOK
  BY DEF Init, FirstIsAnswer, StartupOK
<1> QED
  BY <1>1, <1>2 DEF EInv

\* The types the lemmas on messages ask for.
LEMMA DeviceTypes ==
    ASSUME PInv, NEW d \in Switch
    PROVE  /\ responses[d] \in Seq(Message) /\ Told(d) \in Nat
           /\ sent[d] \in 0 .. MaxSent /\ sent[d] \in Nat
           /\ events[d] \in Seq(1 .. MaxSent)
<1>1. responses[d] \in Seq(Message) /\ events[d] \in Seq(1 .. MaxSent)
  BY DEF PInv, TypeOK, Message
<1>2. sent[d] \in 0 .. MaxSent
  BY DEF PInv, Shapes
<1> QED
  BY <1>1, <1>2, BoundsAssumption DEF Told

\* A device that nothing happened to.
LEMMA SameDevice ==
    ASSUME NEW d \in Switch, DeviceOK(d), Silent(d),
           responses'[d] = responses[d], events'[d] = events[d],
           sent'[d] = sent[d],
           stream'[d] \in {"answered", "none", "open"} => stream'[d] = stream[d]
    PROVE  DeviceOK(d)' /\ Silent(d)'
BY DEF DeviceOK, Silent, Told

LEMMA SwitchDevice ==
    ASSUME PInv, EInv, NEW d \in Switch, SwitchStep(d)
    PROVE  DeviceOK(d)' /\ Silent(d)'
<1> DEFINE q == responses[d]
           k == Told(d)
           n == sent[d]
<1>1. q \in Seq(Message) /\ k \in Nat /\ n \in 0 .. MaxSent /\ n \in Nat
  BY DeviceTypes
<1>2. DeviceOK(d) /\ Silent(d)
  BY DEF EInv
<1>3. k <= n /\ Ascending(q, k) /\ Below(q, n)
  BY <1>2 DEF DeviceOK
<1>4. UNCHANGED events /\ k' = k
  BY DEF SwitchStep, Answer, SendPacket, SendNotice, End, Told
<1>5. DOMAIN responses = Switch /\ DOMAIN stream = Switch /\ DOMAIN sent = Switch
  BY DEF PInv, Shapes, TypeOK
<1>6. CASE Answer(d)
  <2>1. /\ stream[d] = "open" /\ stream'[d] = "answered" /\ n' = n
        /\ q' = Append(q, Notice)
    BY <1>5, <1>6 DEF Answer
  <2>2. q = << >> /\ k = 0 /\ n = 0
    BY <1>2, <2>1 DEF Silent
  <2>3. Reaches(q, k, n)
    BY <2>2, EmptyAscending
  <2> QED
    BY <1>1, <1>2, <1>3, <1>4, <2>1, <2>3, AppendNotice DEF DeviceOK, Silent
<1>7. CASE SendPacket(d)
  <2>1. /\ stream[d] = "answered" /\ UNCHANGED stream /\ n < MaxSent
        /\ n' = n + 1 /\ q' = Append(q, n + 1)
    BY <1>5, <1>7 DEF SendPacket
  <2>2. Reaches(q, k, n) /\ n + 1 \in 1 .. MaxSent /\ k <= n + 1
    BY <1>1, <1>2, <1>3, <2>1, BoundsAssumption DEF DeviceOK
  <2>3. /\ Ascending(q', k) /\ Reaches(q', k, n + 1) /\ Below(q', n + 1)
    BY <1>1, <1>3, <2>1, <2>2, AppendNext, BoundsAssumption
  <2> QED
    BY <1>2, <1>4, <2>1, <2>2, <2>3 DEF DeviceOK, Silent
<1>8. CASE SendNotice(d)
  <2>1. /\ stream[d] = "answered" /\ UNCHANGED stream /\ n' = n
        /\ q' = Append(q, Notice)
    BY <1>5, <1>8 DEF SendNotice
  <2>2. Reaches(q, k, n)
    BY <1>2, <2>1 DEF DeviceOK
  <2> QED
    BY <1>1, <1>2, <1>3, <1>4, <2>1, <2>2, AppendNotice DEF DeviceOK, Silent
<1>9. CASE End(d)
  <2>1. PICK how \in Ended, m \in 0 .. Len(q) :
          stream'[d] = how /\ q' = SubSeq(q, 1, m)
    BY <1>5, <1>9 DEF End
  <2>2. n' = n
    BY <1>9 DEF End
  <2>3. Ascending(q', k) /\ Below(q', n)
    BY <1>1, <1>3, <2>1, CutAscending
  <2> QED
    BY <1>2, <1>4, <2>1, <2>2, <2>3 DEF DeviceOK, Silent, Ended
<1> QED
  BY <1>6, <1>7, <1>8, <1>9 DEF SwitchStep

\* What a switch sends while its session is opened comes after its answer.
LEMMA SwitchFirst ==
    ASSUME PInv, EInv, NEW d \in Switch, SwitchStep(d)
    PROVE  FirstIsAnswer'
<1>0. UNCHANGED <<main, next>> /\ Current' = Current
  BY DEF SwitchStep, Answer, SendPacket, SendNotice, End, startupVars, Current
<1>dom. DOMAIN responses = Switch /\ DOMAIN stream = Switch /\ DOMAIN requests = Switch
  BY DEF PInv, Shapes, TypeOK
<1>before. ASSUME main \in {"opened", "listed"} PROVE FirstIsAnswer'
  <2>1. /\ responses[Current] = << >> /\ requests[Current] = << >>
        /\ stream[Current] # "answered" /\ Current \in Switch
    BY <1>before DEF EInv, FirstIsAnswer, PInv, CurrentOK
  <2>2. CASE Current # d
    <3>1. UNCHANGED <<responses[Current], stream[Current], requests[Current]>>
      BY <1>0, <1>dom, <2>1, <2>2 DEF SwitchStep, Answer, SendPacket, SendNotice, End
    <3> QED
      BY <1>0, <1>before, <2>1, <3>1 DEF FirstIsAnswer
  <2>3. CASE Current = d
    <3>1. End(d)
      BY <2>1, <2>3 DEF SwitchStep, Answer, SendPacket, SendNotice
    <3>2. PICK how \in Ended, n \in 0 .. Len(responses[d]) :
            /\ stream' = [stream EXCEPT ![d] = how]
            /\ responses' = [responses EXCEPT ![d] = SubSeq(@, 1, n)]
      BY <3>1 DEF End
    <3>3. responses[d] = << >> /\ n = 0
      BY <2>1, <2>3, <3>2
    <3>4. responses'[d] = << >> /\ stream'[d] # "answered"
      BY <1>dom, <3>2, <3>3 DEF Ended
    <3>5. UNCHANGED requests
      BY <3>1 DEF End
    <3> QED
      BY <1>0, <1>before, <2>1, <2>3, <3>4, <3>5 DEF FirstIsAnswer
  <2> QED
    BY <2>2, <2>3
<1> SUFFICES ASSUME main = "arbitrate", Current = d
             PROVE  FirstIsAnswer'
  <2>1. CASE main \notin {"opened", "listed", "arbitrate"}
    BY <1>0, <2>1 DEF FirstIsAnswer
  <2>2. CASE main = "arbitrate" /\ Current # d
    <3>1. UNCHANGED <<responses[Current], stream[Current]>>
      <4>1. Current \in Switch
        BY <2>2 DEF PInv, CurrentOK, Setup
      <4> QED
        BY <1>0, <1>dom, <2>2, <4>1 DEF SwitchStep, Answer, SendPacket, SendNotice, End
    <3> QED
      BY <1>0, <2>2, <3>1 DEF EInv, FirstIsAnswer
  <2> QED
    BY <1>before, <2>1, <2>2
<1> DEFINE q == responses[d]
<1>1. q \in Seq(Message) /\ sent[d] \in 0 .. MaxSent
  BY DeviceTypes
<1>2. /\ stream[d] = "answered" => q # << >>
      /\ q # << >> => Head(q) = Notice
  BY DEF EInv, FirstIsAnswer
<1>3. DOMAIN responses = Switch /\ DOMAIN stream = Switch
  BY DEF PInv, Shapes, TypeOK
\* A message that is appended is not the first one.
<1>4. ASSUME NEW m \in Message, q' = Append(q, m), q # << >> \/ m = Notice
      PROVE  q' # << >> /\ Head(q') = Notice
  <2> HIDE DEF q
  <2>1. /\ Len(q) \in Nat /\ Append(q, m) \in Seq(Message)
        /\ Len(Append(q, m)) = Len(q) + 1
        /\ Head(Append(q, m)) = Append(q, m)[1]
    BY <1>1
  <2>2. Append(q, m) # << >>
    BY <2>1
  <2>3. CASE q = << >>
    BY <1>4, <2>1, <2>2, <2>3
  <2>4. CASE q # << >>
    <3>1. Len(q) >= 1 /\ Head(q) = q[1]
      BY <1>1, <2>4
    <3>2. Append(q, m)[1] = q[1]
      BY <1>1, <3>1
    <3> QED
      BY <1>2, <1>4, <2>1, <2>2, <2>4, <3>1, <3>2
  <2> QED
    BY <2>3, <2>4
<1>5. CASE Answer(d) \/ SendNotice(d)
  <2>1. q' = Append(q, Notice) /\ Notice \in Message
    BY <1>3, <1>5 DEF Answer, SendNotice, Message
  <2> QED
    BY <1>0, <1>4, <2>1 DEF FirstIsAnswer
<1>6. CASE SendPacket(d)
  <2>1. /\ q' = Append(q, sent[d] + 1) /\ sent[d] + 1 \in Message
        /\ stream[d] = "answered"
    BY <1>1, <1>3, <1>6, BoundsAssumption DEF SendPacket, Message
  <2> QED
    BY <1>0, <1>2, <1>4, <2>1 DEF FirstIsAnswer
<1>7. CASE End(d)
  <2>1. PICK how \in Ended, m \in 0 .. Len(q) :
          stream'[d] = how /\ q' = SubSeq(q, 1, m)
    BY <1>3, <1>7 DEF End
  <2>2. stream'[d] # "answered"
    BY <2>1 DEF Ended
  <2>3. q' # << >> => Head(q') = Notice
    <3> SUFFICES ASSUME q' # << >> PROVE Head(q') = Notice
      OBVIOUS
    <3>1. Len(q') = m /\ \A i \in 1 .. m : q'[i] = q[i]
      BY <1>1, <2>1
    <3>2. m >= 1
      BY <1>1, <2>1, <3>1
    <3>3. q # << >> /\ Head(q) = q[1] /\ q'[1] = q[1]
      BY <1>1, <3>1, <3>2
    <3>4. Head(q') = q'[1]
      OBVIOUS
    <3> QED
      BY <1>2, <3>3, <3>4
  <2> QED
    BY <1>0, <2>2, <2>3 DEF FirstIsAnswer
<1> QED
  BY <1>5, <1>6, <1>7 DEF SwitchStep

LEMMA SwitchEInv ==
    ASSUME PInv, EInv, NEW d \in Switch, SwitchStep(d)
    PROVE  EInv'
<1>1. ASSUME NEW c \in Switch, c # d PROVE DeviceOK(c)' /\ Silent(c)'
  <2>1. /\ responses'[c] = responses[c] /\ events'[c] = events[c]
        /\ sent'[c] = sent[c] /\ stream'[c] = stream[c]
    BY <1>1 DEF SwitchStep, Answer, SendPacket, SendNotice, End, PInv, Shapes,
                TypeOK
  <2> QED
    BY <2>1, SameDevice DEF EInv
<1>2. StartupOK'
  <2>1. UNCHANGED <<main, next, reading>>
    BY DEF SwitchStep, Answer, SendPacket, SendNotice, End, startupVars
  <2>2. \A c \in Switch : stream'[c] = "none" <=> stream[c] = "none"
    BY DEF SwitchStep, Answer, SendPacket, SendNotice, End, PInv, TypeOK, Ended
  <2> QED
    BY <2>1, <2>2 DEF EInv, StartupOK
<1> QED
  BY <1>1, <1>2, SwitchDevice, SwitchFirst DEF EInv

\* connect takes one message: the answer, which is no event.
LEMMA ArbitratedEInv == PInv /\ EInv /\ Arbitrated => EInv'
<1> SUFFICES ASSUME PInv, EInv, Arbitrated PROVE EInv'
  OBVIOUS
<1>0. PICK c \in Switch : c = Current
  BY DEF Arbitrated, PInv, CurrentOK, Setup
<1> DEFINE q == responses[c]
<1>1. q # << >> /\ Head(q) = Notice
  BY <1>0 DEF Arbitrated, EInv, FirstIsAnswer
<1>2. /\ responses' = [responses EXCEPT ![c] = Tail(@)]
      /\ UNCHANGED <<next, connections, stream, reading, events, sent>>
      /\ main = "arbitrate" /\ main' = "push"
  BY <1>0 DEF Arbitrated
<1>3. responses'[c] = Tail(q)
  BY <1>1, <1>2 DEF PInv, Shapes
<1>4. DeviceOK(c) /\ Silent(c)
  BY <1>1 DEF EInv
<1>5. /\ Below(Tail(q), sent[c]) /\ Ascending(Tail(q), Told(c))
      /\ Reaches(q, Told(c), sent[c]) => Reaches(Tail(q), Told(c), sent[c])
  <2>1. /\ q \in Seq(Message) /\ Told(c) \in Nat /\ sent[c] \in Nat
        /\ Ascending(q, Told(c)) /\ Below(q, sent[c])
    BY <1>1, <1>4, DeviceTypes DEF DeviceOK
  <2> HIDE DEF q
  <2> QED
    BY <1>1, <2>1, TakeMessage, BoundsAssumption
<1>6. DeviceOK(c)' /\ Silent(c)'
  <2>1. Told(c)' = Told(c) /\ stream[c] \notin {"none", "open"}
    BY <1>1, <1>2, <1>4 DEF Told, Silent
  <2> QED
    BY <1>2, <1>3, <1>4, <1>5, <2>1 DEF DeviceOK, Silent
<1>7. ASSUME NEW d \in Switch, d # c PROVE DeviceOK(d)' /\ Silent(d)'
  <2>1. responses'[d] = responses[d]
    BY <1>2, <1>7
  <2> QED
    BY <1>2, <2>1, SameDevice DEF EInv
<1> QED
  BY <1>1, <1>2, <1>6, <1>7 DEF EInv, FirstIsAnswer, StartupOK, Begun, Setup

\* A session is opened once: nothing of an earlier one is there.
LEMMA OpenEInv == PInv /\ EInv /\ Open => EInv'
<1> SUFFICES ASSUME PInv, EInv, Open PROVE EInv'
  OBVIOUS
<1>0. next + 1 \in 1 .. Len(Startup) /\ Startup[next + 1] \in Switch
  BY NextSwitch DEF Open, PInv, TypeOK
<1> PICK d \in Switch : d = Startup[next + 1]
  BY <1>0
<1>1. next + 1 \in 1 .. Len(Startup) /\ next \in 0 .. Len(Startup)
  BY <1>0 DEF PInv, TypeOK
<1>2. /\ next' = next + 1 /\ main = "load" /\ main' = "opened"
      /\ stream' = [stream EXCEPT ![d] = "open"]
      /\ UNCHANGED <<requests, responses, reading, events, sent>>
  BY DEF Open
<1>3. Startup \in Seq(Switch) /\ DOMAIN Startup = 1 .. Len(Startup) /\ Len(Startup) \in Nat
  BY StartupAssumption
<1>4. \A i \in 1 .. next : d # Startup[i]
  <2> SUFFICES ASSUME NEW i \in 1 .. next PROVE Startup[i] # Startup[next + 1]
    OBVIOUS
  <2>1. i \in DOMAIN Startup /\ next + 1 \in DOMAIN Startup /\ i # next + 1
    BY <1>1, <1>3
  <2> QED
    BY <2>1, StartupAssumption
<1>5. stream[d] = "none" /\ DOMAIN stream = Switch
  BY <1>4 DEF EInv, StartupOK, PInv, TypeOK
<1>6. responses[d] = << >> /\ requests[d] = << >> /\ Silent(d)
  BY <1>5 DEF EInv, Silent, PInv, Unasked
<1>7. \A c \in Switch : stream'[c] # "none" <=> \E i \in 1 .. next' : c = Startup[i]
  <2>1. 1 .. next' = (1 .. next) \cup {next + 1}
    BY <1>1, <1>2
  <2> QED
    BY <1>2, <1>5, <2>1 DEF EInv, StartupOK
<1>8. Current' = d
  BY <1>2 DEF Current
<1>9. DeviceOK(d)' /\ Silent(d)'
  <2>1. UNCHANGED <<responses[d], events[d], sent[d], Told(d)>>
    BY <1>2 DEF Told
  <2>2. stream'[d] = "open" /\ DeviceOK(d)
    BY <1>2, <1>5 DEF EInv
  <2> QED
    BY <1>5, <1>6, <2>1, <2>2 DEF DeviceOK, Silent
<1>10. ASSUME NEW c \in Switch, c # d PROVE DeviceOK(c)' /\ Silent(c)'
  BY <1>2, <1>10, SameDevice DEF EInv
<1>11. FirstIsAnswer'
  BY <1>1, <1>2, <1>5, <1>6, <1>8 DEF FirstIsAnswer
<1> QED
  BY <1>2, <1>7, <1>9, <1>10, <1>11 DEF EInv, StartupOK, Begun

\* Now the switch may answer.
LEMMA AskEInv == PInv /\ EInv /\ MasterArbitrationUpdate => EInv'
<1> SUFFICES ASSUME PInv, EInv, MasterArbitrationUpdate PROVE EInv'
  OBVIOUS
<1>1. /\ main = "listed" /\ main' = "arbitrate"
      /\ UNCHANGED <<next, stream, responses, reading, events, sent>>
  BY DEF MasterArbitrationUpdate
<1>2. \A d \in Switch : DeviceOK(d)' /\ Silent(d)'
  BY <1>1, SameDevice DEF EInv
<1>3. FirstIsAnswer'
  BY <1>1 DEF EInv, FirstIsAnswer, Current
<1> QED
  BY <1>1, <1>2, <1>3 DEF EInv, StartupOK, Begun, Setup

LEMMA StepEInv == PInv /\ EInv /\ (Step \/ Interrupt) => EInv'
<1> SUFFICES ASSUME PInv, EInv, Step \/ Interrupt PROVE EInv'
  OBVIOUS
\* Most steps of the main thread leave the sessions alone.
<1>1. ASSUME UNCHANGED <<next, streamVars, events>>,
             main' \in {"opened", "listed", "arbitrate"} =>
               \/ main' = main
               \/ main = "opened" /\ main' = "listed",
             main' \in Begun => main \in Begun /\ UNCHANGED reading
      PROVE  EInv'
  <2>1. \A d \in Switch : DeviceOK(d)' /\ Silent(d)'
    BY <1>1, SameDevice DEF EInv, streamVars
  <2> QED
    BY <1>1, <2>1 DEF EInv, FirstIsAnswer, StartupOK, Current, streamVars
<1>2. CASE NotArbitrated \/ ArbitrationFails \/ push_pipeline \/ CallFails
  BY <1>1, <1>2 DEF NotArbitrated, ArbitrationFails, push_pipeline, CallFails,
                    Begun, Setup
<1>3. ASSUME NEW e \in Entries, install_table_entry(e) \/ InstallRaises(e)
      PROVE  EInv'
  BY <1>1, <1>3 DEF install_table_entry, InstallRaises, Begun, Setup
<1>4. CASE NothingToInstall \/ Run \/ Exit \/ Interrupt
  BY <1>1, <1>4 DEF NothingToInstall, Run, Exit, Interrupt, Begun, Setup
<1>5. ASSUME NEW d \in Switch, Close(d) PROVE EInv'
  <2>1. /\ main = "finally" /\ UNCHANGED <<startupVars, responses, reading, events, sent>>
        /\ stream' = [stream EXCEPT ![d] = "cancelled"] /\ DOMAIN stream = Switch
        /\ stream[d] # "none"
    BY <1>5 DEF Close, ToClose, PInv, TypeOK
  <2>2. ASSUME NEW c \in Switch PROVE DeviceOK(c)' /\ Silent(c)'
    <3>1. stream'[c] \in {"answered", "none", "open"} => stream'[c] = stream[c]
      BY <2>1
    <3> QED
      BY <2>1, <3>1, SameDevice DEF EInv
  <2> QED
    BY <2>1, <2>2 DEF EInv, FirstIsAnswer, StartupOK, startupVars
<1>6. CASE Enlist \/ Abort
  BY <1>1, <1>6 DEF Enlist, Abort, Begun, Setup
<1> QED
  BY <1>2, <1>3, <1>4, <1>5, <1>6, ArbitratedEInv, OpenEInv, AskEInv
     DEF Step, OwnStep, CallStep

\* A read loop goes on where it was.
LEMMA ReadEInv ==
    ASSUME PInv, EInv, NEW d \in Switch, Read(d) \/ ReadEnds(d)
    PROVE  EInv'
<1>1. CASE ReadEnds(d)
  <2>1. \A c \in Switch : DeviceOK(c)' /\ Silent(c)'
    BY <1>1, SameDevice DEF ReadEnds, EInv, streamVars
  <2> QED
    BY <1>1, <2>1 DEF ReadEnds, EInv, FirstIsAnswer, StartupOK, Current,
                      startupVars, streamVars
<1>2. CASE Read(d)
  <2> DEFINE q == responses[d]
             k == Told(d)
  <2>1. /\ d \in reading /\ q # << >>
        /\ responses' = [responses EXCEPT ![d] = Tail(@)]
        /\ UNCHANGED startupVars /\ UNCHANGED reading
        /\ stream' = stream /\ sent' = sent
        /\ events' = IF Head(q) = Notice THEN events
                     ELSE [events EXCEPT ![d] = Append(@, Head(q))]
    BY <1>2 DEF Read
  <2>2. main \notin Begun /\ FirstIsAnswer' /\ StartupOK'
    BY <2>1 DEF EInv, StartupOK, FirstIsAnswer, startupVars, Begun, Setup
  <2>3. /\ q \in Seq(Message) /\ k \in Nat /\ sent[d] \in Nat
        /\ events[d] \in Seq(1 .. MaxSent)
    BY DeviceTypes
  <2>4. DeviceOK(d) /\ Silent(d)
    BY DEF EInv
  <2>5. /\ Below(Tail(q), sent[d])
        /\ Head(q) = Notice =>
             /\ Ascending(Tail(q), k)
             /\ Reaches(q, k, sent[d]) => Reaches(Tail(q), k, sent[d])
        /\ Head(q) # Notice =>
             /\ Head(q) = k + 1 /\ k + 1 <= sent[d]
             /\ Ascending(Tail(q), k + 1)
             /\ Reaches(q, k, sent[d]) => Reaches(Tail(q), k + 1, sent[d])
    <3>1. Ascending(q, k) /\ Below(q, sent[d])
      BY <2>4 DEF DeviceOK
    <3> HIDE DEF q, k
    <3> QED
      BY <2>1, <2>3, <3>1, TakeMessage, BoundsAssumption
  <2>6. responses'[d] = Tail(q)
    BY <2>1 DEF PInv, Shapes
  <2>7. stream[d] \notin {"none", "open"}
    BY <2>1, <2>4 DEF Silent
  <2>8. ASSUME Head(q) = Notice PROVE DeviceOK(d)' /\ Silent(d)'
    <3>0. events' = events
      BY <2>1, <2>8
    <3>1. UNCHANGED <<events[d], sent[d], stream[d], Told(d)>>
      BY <2>1, <3>0 DEF Told
    <3> QED
      BY <2>4, <2>5, <2>6, <2>7, <2>8, <3>1 DEF DeviceOK, Silent
  <2>9. ASSUME Head(q) # Notice PROVE DeviceOK(d)' /\ Silent(d)'
    <3>1. events'[d] = Append(events[d], k + 1)
      BY <2>1, <2>5, <2>9 DEF PInv, Shapes
    <3>2. Len(events'[d]) = k + 1 /\ events'[d] = [i \in 1 .. k + 1 |-> i]
      <4>1. events[d] = [i \in 1 .. k |-> i] /\ Len(events[d]) = k
        BY <2>4 DEF DeviceOK, Told
      <4>2. k + 1 \in 1 .. MaxSent
        <5>1. k + 1 <= sent[d] /\ sent[d] \in 0 .. MaxSent
          BY <2>5, <2>9, DeviceTypes
        <5> QED
          BY <2>3, <5>1, BoundsAssumption
      <4>3. /\ Append(events[d], k + 1) \in Seq(1 .. MaxSent)
            /\ Len(Append(events[d], k + 1)) = k + 1
            /\ \A i \in 1 .. k : Append(events[d], k + 1)[i] = events[d][i]
            /\ Append(events[d], k + 1)[k + 1] = k + 1
        BY <2>3, <4>1, <4>2
      <4>4. \A i \in 1 .. k : events[d][i] = i
        BY <4>1
      <4>5. Append(events[d], k + 1) = [i \in 1 .. k + 1 |-> i]
        BY <2>3, <4>3, <4>4
      <4> QED
        BY <3>1, <4>3, <4>5
    <3>3. Told(d)' = k + 1
      BY <3>2 DEF Told
    <3> QED
      <4>1. UNCHANGED <<sent[d], stream[d]>>
        BY <2>1
      <4> QED
        BY <2>4, <2>5, <2>6, <2>7, <2>9, <3>2, <3>3, <4>1 DEF DeviceOK, Silent
  <2>10. ASSUME NEW c \in Switch, c # d PROVE DeviceOK(c)' /\ Silent(c)'
    <3>1. responses'[c] = responses[c] /\ events'[c] = events[c]
      BY <2>1, <2>10
    <3> QED
      BY <2>1, <3>1, SameDevice DEF EInv
  <2> QED
    BY <2>2, <2>8, <2>9, <2>10 DEF EInv
<1> QED
  BY <1>1, <1>2

LEMMA StutterEInv == EInv /\ UNCHANGED vars => EInv'
BY DEF vars, startupVars, streamVars, EInv, DeviceOK, Silent, FirstIsAnswer,
       StartupOK, Told, Current

LEMMA NextEInv == PInv /\ EInv /\ [Next]_vars => EInv'
BY SwitchEInv, StepEInv, ReadEInv, StutterEInv DEF Next

\* controller.py:198-214: the events of a device are the packets and digests it
\* has sent since its session began, in order and none left out, however many
\* other sessions are opened meanwhile.
THEOREM NothingLeftOut == Spec => []EventsComplete
<1>1. EInv => EventsComplete
  BY DEF EInv, DeviceOK, Told, EventsComplete
<1> QED
  BY <1>1, InitEInv, NextEInv, SpecPInv, PTL DEF Spec

-----------------------------------------------------------------------------
(* Numbers as bytes *)

\* The least-number principle, from the well-foundedness of < on Nat.
LEMMA Least ==
    ASSUME NEW T, T \subseteq Nat, T # {}
    PROVE  \E x \in T : \A y \in T : x <= y
<1>1. PICK x \in T : \A y \in T : <<y, x>> \notin OpToRel(<, Nat)
  BY NatLessThanWellFounded, WFMin
<1>2. \A y \in T : ~ (y < x)
  BY <1>1 DEF OpToRel
<1> QED
  BY <1>2

\* Induction over Nat, for a set: the library's theorem takes an operator.
LEMMA Induction ==
    ASSUME NEW T, 0 \in T, \A n \in Nat : n \in T => n + 1 \in T
    PROVE  Nat \subseteq T
<1> SUFFICES ASSUME Nat \ T # {} PROVE FALSE
  OBVIOUS
<1>1. PICK x \in Nat \ T : \A y \in Nat \ T : x <= y
  BY Least
<1>2. x # 0 /\ x - 1 \in Nat /\ x - 1 \in T
  BY <1>1
<1>3. x \in T
  BY <1>2
<1> QED
  BY <1>3

\* The beginnings of Pow2: they exist and agree, so that Pow2 is what its
\* recursion says.
Doubling(n) ==
    {p \in [0 .. n -> Nat] : p[0] = 1 /\ \A i \in 1 .. n : p[i] = 2 * p[i - 1]}

LEMMA DoublingExists == \A n \in Nat : Doubling(n) # {}
<1> DEFINE T == {n \in Nat : Doubling(n) # {}}
<1>1. 0 \in T
  <2>1. [i \in 0 .. 0 |-> 1] \in Doubling(0)
    BY DEF Doubling
  <2> QED
    BY <2>1
<1>2. ASSUME NEW n \in Nat, n \in T PROVE n + 1 \in T
  <2>1. PICK p : p \in Doubling(n)
    BY <1>2
  <2>2. PICK q : q = [i \in 0 .. n + 1 |-> IF i = n + 1 THEN 2 * p[n] ELSE p[i]]
    OBVIOUS
  <2>3. q \in [0 .. n + 1 -> Nat] /\ q[0] = 1
    BY <2>1, <2>2 DEF Doubling
  <2>4. ASSUME NEW i \in 1 .. n + 1 PROVE q[i] = 2 * q[i - 1]
    BY <2>1, <2>2 DEF Doubling
  <2>5. q \in Doubling(n + 1)
    BY <2>3, <2>4 DEF Doubling
  <2> QED
    BY <2>5
<1> HIDE DEF T
<1>3. Nat \subseteq T
  BY <1>1, <1>2, Induction
<1> QED
  BY <1>3 DEF T

LEMMA DoublingUnique ==
    ASSUME NEW m \in Nat, NEW n \in Nat, NEW p \in Doubling(m), NEW q \in Doubling(n)
    PROVE  \A i \in Nat : i <= m /\ i <= n => p[i] = q[i]
<1> DEFINE T == {i \in Nat : i <= m /\ i <= n => p[i] = q[i]}
<1>1. 0 \in T
  BY DEF Doubling
<1>2. ASSUME NEW i \in Nat, i \in T PROVE i + 1 \in T
  <2>1. SUFFICES ASSUME i + 1 <= m, i + 1 <= n PROVE p[i + 1] = q[i + 1]
    OBVIOUS
  <2>2. p[i] = q[i]
    BY <1>2, <2>1
  <2>3. i + 1 \in 1 .. m /\ i + 1 \in 1 .. n /\ (i + 1) - 1 = i
    BY <2>1
  <2>4. p[i + 1] = 2 * p[i] /\ q[i + 1] = 2 * q[i]
    BY <2>3 DEF Doubling
  <2> QED
    BY <2>2, <2>4
<1> HIDE DEF T
<1>3. Nat \subseteq T
  BY <1>1, <1>2, Induction
<1> QED
  BY <1>3 DEF T

LEMMA Pow2Defined ==
    Pow2 = [n \in Nat |-> IF n = 0 THEN 1 ELSE 2 * Pow2[n - 1]]
<1> DEFINE pick(n) == CHOOSE p : p \in Doubling(n)
           g == [n \in Nat |-> pick(n)[n]]
<1>1. \A n \in Nat : pick(n) \in Doubling(n)
  BY DoublingExists
<1>2. g[0] = 1
  BY <1>1 DEF Doubling
<1>3. ASSUME NEW n \in Nat, n # 0 PROVE g[n] = 2 * g[n - 1]
  <2>1. n - 1 \in Nat /\ n \in 1 .. n
    BY <1>3
  <2>2. pick(n) \in Doubling(n) /\ pick(n - 1) \in Doubling(n - 1)
    BY <1>1, <2>1
  <2>3. pick(n)[n] = 2 * pick(n)[n - 1]
    BY <2>1, <2>2 DEF Doubling
  <2> HIDE DEF pick
  <2>4. pick(n)[n - 1] = pick(n - 1)[n - 1]
    BY <2>1, <2>2, DoublingUnique
  <2> QED
    BY <2>1, <2>3, <2>4
<1> HIDE DEF pick
<1>4. g = [n \in Nat |-> IF n = 0 THEN 1 ELSE 2 * g[n - 1]]
  BY <1>2, <1>3
<1> HIDE DEF g
<1>5. \E h : h = [n \in Nat |-> IF n = 0 THEN 1 ELSE 2 * h[n - 1]]
  BY <1>4
<1> QED
  BY <1>5 DEF Pow2

LEMMA Pow2Step == Pow2[0] = 1 /\ \A n \in Nat : Pow2[n + 1] = 2 * Pow2[n]
<1>1. \A n \in Nat : Pow2[n] = IF n = 0 THEN 1 ELSE 2 * Pow2[n - 1]
  BY Pow2Defined, Zenon
<1>2. ASSUME NEW n \in Nat PROVE Pow2[n + 1] = 2 * Pow2[n]
  <2>1. n + 1 \in Nat /\ n + 1 # 0 /\ (n + 1) - 1 = n
    OBVIOUS
  <2> QED
    BY <1>1, <2>1
<1> QED
  BY <1>1, <1>2

LEMMA Pow2Positive == \A n \in Nat : Pow2[n] \in Nat \ {0}
<1> DEFINE T == {n \in Nat : Pow2[n] \in Nat \ {0}}
<1>1. 0 \in T
  BY Pow2Step
<1>2. \A n \in Nat : n \in T => n + 1 \in T
  BY Pow2Step
<1> HIDE DEF T
<1>3. Nat \subseteq T
  BY <1>1, <1>2, Induction
<1> QED
  BY <1>3 DEF T

LEMMA Pow2Grows ==
    ASSUME NEW m \in Nat, NEW n \in Nat, m <= n
    PROVE  Pow2[m] <= Pow2[n]
<1> DEFINE T == {i \in Nat : Pow2[m] <= Pow2[m + i]}
<1>1. 0 \in T
  BY Pow2Positive
<1>2. ASSUME NEW i \in Nat, i \in T PROVE i + 1 \in T
  <2>1. m + i \in Nat /\ m + (i + 1) = (m + i) + 1
    OBVIOUS
  <2>2. Pow2[m + (i + 1)] = 2 * Pow2[m + i]
    BY <2>1, Pow2Step
  <2>3. Pow2[m] \in Nat /\ Pow2[m + i] \in Nat
    BY <2>1, Pow2Positive
  <2> QED
    BY <1>2, <2>2, <2>3
<1> HIDE DEF T
<1>3. Nat \subseteq T
  BY <1>1, <1>2, Induction
<1>4. n - m \in T
  BY <1>3
<1>5. m + (n - m) = n
  OBVIOUS
<1> QED
  BY <1>4, <1>5 DEF T

\* A byte more is 256 times the range.
LEMMA Pow2Byte == \A n \in Nat : Pow2[n + 8] = 256 * Pow2[n]
<1> SUFFICES ASSUME NEW n \in Nat PROVE Pow2[n + 8] = 256 * Pow2[n]
  OBVIOUS
<1>1. /\ Pow2[n + 1] = 2 * Pow2[n] /\ Pow2[(n + 1) + 1] = 2 * Pow2[n + 1]
      /\ Pow2[(n + 2) + 1] = 2 * Pow2[n + 2] /\ Pow2[(n + 3) + 1] = 2 * Pow2[n + 3]
      /\ Pow2[(n + 4) + 1] = 2 * Pow2[n + 4] /\ Pow2[(n + 5) + 1] = 2 * Pow2[n + 5]
      /\ Pow2[(n + 6) + 1] = 2 * Pow2[n + 6] /\ Pow2[(n + 7) + 1] = 2 * Pow2[n + 7]
  BY Pow2Step
<1>2. /\ (n + 1) + 1 = n + 2 /\ (n + 2) + 1 = n + 3 /\ (n + 3) + 1 = n + 4
      /\ (n + 4) + 1 = n + 5 /\ (n + 5) + 1 = n + 6 /\ (n + 6) + 1 = n + 7
      /\ (n + 7) + 1 = n + 8
  OBVIOUS
<1>3. Pow2[n] \in Nat
  BY Pow2Positive
<1> QED
  BY <1>1, <1>2, <1>3

\* Decoding the first i bytes gives the number without its other bytes.
LEMMA DecodesBack ==
    ASSUME NEW len \in Nat, NEW x \in Nat, x < Pow2[8 * len]
    PROVE  decodeNum(bytesOf(x, len)) = x
<1> DEFINE bytes == bytesOf(x, len)
           top(i) == x \div Pow2[8 * (len - i)]
           value == CHOOSE v : v = [i \in 0 .. Len(bytes) |->
                       IF i = 0 THEN 0 ELSE 256 * v[i - 1] + bytes[i]]
<1>1. Len(bytes) = len /\ \A i \in 1 .. len : bytes[i] = top(i) % 256
  BY DEF bytesOf
<1>2. top(0) = 0 /\ top(len) = x
  <2>1. 8 * (len - 0) = 8 * len /\ 8 * (len - len) = 0 /\ 8 * len \in Nat
    OBVIOUS
  <2>2. Pow2[0] = 1 /\ Pow2[8 * len] \in Nat \ {0}
    BY <2>1, Pow2Step, Pow2Positive
  <2>3. \A b \in Nat \ {0} : x < b => x \div b = 0
    OBVIOUS
  <2>4. x \div 1 = x
    OBVIOUS
  <2> QED
    BY <2>1, <2>2, <2>3, <2>4
<1>3. ASSUME NEW i \in 1 .. len
      PROVE  top(i) = 256 * top(i - 1) + bytes[i]
  <2>1. 8 * (len - i) \in Nat /\ 8 * (len - (i - 1)) = 8 * (len - i) + 8
    OBVIOUS
  <2>2. PICK b \in Nat \ {0} :
          b = Pow2[8 * (len - i)] /\ Pow2[8 * (len - (i - 1))] = 256 * b
    BY <2>1, Pow2Positive, Pow2Byte
  <2> DEFINE y == x \div b
  <2>3. top(i) = y /\ top(i - 1) = x \div (256 * b)
    BY <2>2
  <2>4. bytes[i] = y % 256
    BY <1>1, <2>2
  <2>5. y \div 256 = x \div (256 * b)
    BY SMT
  <2>6. y = 256 * (y \div 256) + (y % 256)
    BY SMT
  <2> HIDE DEF top, bytes, y
  <2>7. top(i - 1) = y \div 256
    BY <2>3, <2>5, Zenon
  <2> QED
    BY <2>3, <2>4, <2>6, <2>7, SMT
<1> HIDE DEF bytes, top
<1>4. value = [i \in 0 .. len |-> IF i = 0 THEN 0 ELSE 256 * value[i - 1] + bytes[i]]
  <2> DEFINE v == [i \in 0 .. len |-> top(i)]
  <2>1. v = [i \in 0 .. len |-> IF i = 0 THEN 0 ELSE 256 * v[i - 1] + bytes[i]]
    <3>1. ASSUME NEW i \in 0 .. len
          PROVE  v[i] = IF i = 0 THEN 0 ELSE 256 * v[i - 1] + bytes[i]
      BY <1>2, <1>3
    <3> HIDE DEF v
    <3>2. v = [i \in 0 .. len |-> v[i]]
      BY DEF v
    <3> QED
      BY <3>1, <3>2
  <2> HIDE DEF v
  <2> DEFINE IsValue(f) ==
               f = [i \in 0 .. len |-> IF i = 0 THEN 0 ELSE 256 * f[i - 1] + bytes[i]]
  <2>2. IsValue(v)
    BY <2>1
  <2>3. value = CHOOSE f : IsValue(f)
    BY <1>1, Zenon
  <2>4. IsValue(value)
    <3> HIDE DEF value, IsValue
    <3> QED
      BY <2>2, <2>3
  <2> QED
    BY <2>4
<1> HIDE DEF value
<1> DEFINE T == {i \in Nat : i <= len => value[i] = top(i)}
<1>5. 0 \in T
  BY <1>2, <1>4
<1>6. ASSUME NEW i \in Nat, i \in T PROVE i + 1 \in T
  <2> SUFFICES ASSUME i + 1 <= len PROVE value[i + 1] = top(i + 1)
    OBVIOUS
  <2>1. i + 1 \in 1 .. len /\ i + 1 \in 0 .. len /\ (i + 1) - 1 = i /\ value[i] = top(i)
    BY <1>6
  <2>2. value[i + 1] = 256 * value[i] + bytes[i + 1]
    BY <1>4, <2>1
  <2> QED
    BY <1>3, <2>1, <2>2
<1> HIDE DEF T
<1>7. Nat \subseteq T
  BY <1>5, <1>6, Induction
<1>8. value[len] = x
  BY <1>2, <1>7 DEF T
<1> QED
  BY <1>1, <1>8 DEF decodeNum, value, bytes

\* convert.py:62-80: at every width, whole bytes or not, a number that passes
\* the two range checks is encoded in as many bytes as the width needs, and
\* comes back as itself, or as its two's complement when it is negative.
THEOREM NumberComesBack ==
    ASSUME NEW w \in Nat \ {0}, NEW n \in Int, Fits(n, w)
    PROVE  /\ encodeNum(n, w) \in Seq(Byte)
           /\ Len(encodeNum(n, w)) = bitwidthToBytes(w)
           /\ decodeNum(encodeNum(n, w)) = IF n < 0 THEN Pow2[w] + n ELSE n
           /\ decodeNum(encodeNum(n, w)) \in 0 .. Pow2[w] - 1
<1> DEFINE len == bitwidthToBytes(w)
           x == IF n < 0 THEN Pow2[w] + n ELSE n
<1>1. encodeNum(n, w) = bytesOf(x, len)
  BY DEF encodeNum
<1>2. len \in Nat /\ w <= 8 * len
  BY DEF bitwidthToBytes
<1>3. /\ Pow2[w] \in Nat \ {0} /\ Pow2[w - 1] \in Nat
      /\ Pow2[w] = 2 * Pow2[w - 1] /\ Pow2[w] <= Pow2[8 * len] /\ Pow2[8 * len] \in Nat
  <2>1. w - 1 \in Nat /\ (w - 1) + 1 = w /\ 8 * len \in Nat
    BY <1>2
  <2> HIDE DEF len
  <2> QED
    BY <1>2, <2>1, Pow2Step, Pow2Positive, Pow2Grows
<1> HIDE DEF len
<1>4. x \in 0 .. Pow2[w] - 1 /\ x < Pow2[8 * len]
  BY <1>3 DEF Fits
<1> HIDE DEF x
<1>5. decodeNum(bytesOf(x, len)) = x
  BY <1>2, <1>4, DecodesBack
<1>6. Len(bytesOf(x, len)) = len /\ bytesOf(x, len) \in Seq(Byte)
  <2>1. ASSUME NEW i \in 1 .. len PROVE (x \div Pow2[8 * (len - i)]) % 256 \in Byte
    <3>1. Pow2[8 * (len - i)] \in Nat \ {0}
      BY <1>2, Pow2Positive
    <3> QED
      BY <1>4, <3>1 DEF Byte
  <2> QED
    BY <1>2, <2>1 DEF bytesOf
<1> QED
  BY <1>1, <1>4, <1>5, <1>6 DEF len, x

-----------------------------------------------------------------------------
(* What is installed is what was asked for *)

LEMMA EncodesValue ==
    ASSUME NEW value, NEW w \in Nat \ {0}, encode(value, w) # Raises,
           value.kind = "number" => value.number \in Int
    PROVE  /\ Len(encode(value, w)) = bitwidthToBytes(w)
           /\ value.kind = "number" =>
                /\ decodeNum(encode(value, w)) \in 0 .. Pow2[w] - 1
                /\ (decodeNum(encode(value, w)) - value.number) % Pow2[w] = 0
<1>1. CASE value.kind = "number"
  <2> DEFINE n == value.number
             x == decodeNum(encodeNum(n, w))
  <2>1. encode(value, w) = encodeNum(n, w) /\ n \in Int
    BY <1>1 DEF encode
  <2>2. Fits(n, w)
    BY <2>1 DEF encodeNum
  <2>3. /\ Len(encodeNum(n, w)) = bitwidthToBytes(w)
        /\ x = (IF n < 0 THEN Pow2[w] + n ELSE n) /\ x \in 0 .. Pow2[w] - 1
    BY <2>1, <2>2, NumberComesBack
  <2> HIDE DEF n, x
  <2>4. Pow2[w] \in Nat \ {0} /\ (x - n = 0 \/ x - n = Pow2[w])
    BY <2>1, <2>3, Pow2Positive
  <2>5. \A b \in Nat \ {0} : 0 % b = 0 /\ b % b = 0
    OBVIOUS
  <2>6. (x - n) % Pow2[w] = 0
    BY <2>4, <2>5
  <2> QED
    BY <1>1, <2>1, <2>3, <2>6 DEF n, x
<1>2. CASE value.kind # "number"
  <2>1. /\ encode(value, w) = value.octets
        /\ Len(value.octets) = bitwidthToBytes(w)
    BY <1>2 DEF encode
  <2> QED
    BY <1>2, <2>1
<1> QED
  BY <1>1, <1>2

\* Nothing is sent but what the helper builds of an entry it can build.
Built ==
    entry = NoEntry \/ \E e \in Entries : CanBuild(e) /\ entry = buildTableEntry(e)

LEMMA BuiltAsAsked == Built => EntryAsAsked
<1> SUFFICES ASSUME Built, NEW field \in entry, NEW i \in DOMAIN field.asked.values
             PROVE  LET value == field.asked.values[i]
                        bytes == field.bytes[i]
                        w == field.asked.bitwidth
                    IN  /\ Len(bytes) = bitwidthToBytes(w)
                        /\ value.kind = "number" =>
                             /\ decodeNum(bytes) \in 0 .. Pow2[w] - 1
                             /\ (decodeNum(bytes) - value.number) % Pow2[w] = 0
  BY DEF EntryAsAsked
<1>1. PICK e \in Entries : CanBuild(e) /\ entry = buildTableEntry(e)
  BY DEF Built, NoEntry
<1>2. PICK f \in e : field = [asked |-> f, bytes |-> fieldBytes(f)]
  BY <1>1 DEF buildTableEntry
<1>3. /\ field.asked = f /\ i \in DOMAIN f.values
      /\ field.bytes[i] = encode(f.values[i], f.bitwidth)
  BY <1>2 DEF fieldBytes
<1>4. encode(f.values[i], f.bitwidth) # Raises
  BY <1>1, <1>3 DEF CanBuild, fieldBytes
<1>5. /\ f.bitwidth \in Nat \ {0}
      /\ f.values[i].kind = "number" => f.values[i].number \in Int
  BY <1>1, <1>3, EntriesAssumption
<1> QED
  BY <1>3, <1>4, <1>5, EncodesValue

LEMMA NextBuilt == Built /\ [Next]_vars => Built'
<1> SUFFICES ASSUME Built, [Next]_vars PROVE Built'
  OBVIOUS
<1> USE DEF Built
<1>1. ASSUME NEW e \in Entries, install_table_entry(e) PROVE Built'
  BY <1>1 DEF install_table_entry
<1>2. CASE Open \/ Run \/ Interrupt
  BY <1>2 DEF Open, Run, Interrupt
<1>3. CASE UNCHANGED entry
  BY <1>3
<1>4. ASSUME NEW d \in Switch, SwitchStep(d) \/ Read(d) \/ ReadEnds(d)
      PROVE  UNCHANGED entry
  BY <1>4 DEF SwitchStep, Answer, SendPacket, SendNotice, End, Read, ReadEnds, startupVars
<1>5. ASSUME NEW e \in Entries, InstallRaises(e) PROVE UNCHANGED entry
  BY <1>5 DEF InstallRaises
<1>6. ASSUME NEW d \in Switch, Close(d) PROVE UNCHANGED entry
  BY <1>6 DEF Close, startupVars
<1>7. ASSUME \/ Enlist \/ MasterArbitrationUpdate \/ Abort
             \/ Arbitrated \/ NotArbitrated \/ ArbitrationFails \/ push_pipeline
             \/ CallFails \/ NothingToInstall \/ Exit \/ UNCHANGED vars
      PROVE  UNCHANGED entry
  BY <1>7 DEF Enlist, MasterArbitrationUpdate, Arbitrated, NotArbitrated,
              ArbitrationFails, push_pipeline, CallFails, NothingToInstall, Exit,
              Abort, vars, startupVars
<1> QED
  BY <1>1, <1>2, <1>3, <1>4, <1>5, <1>6, <1>7 DEF Next, Step, OwnStep, CallStep

\* convert.py:62-79: whatever entries the plugins and the YAML files ask for, at
\* whatever widths, a switch is sent each number in two's complement of its
\* field's width; a number that does not fit is never sent as another.
THEOREM AsAsked == Spec => []EntryAsAsked
<1>1. Init => Built
  BY DEF Init, Built
<1> QED
  BY <1>1, NextBuilt, BuiltAsAsked, PTL DEF Spec

=============================================================================
