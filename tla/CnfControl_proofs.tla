-------------------------- MODULE CnfControl_proofs --------------------------
(***************************************************************************)
(* Proofs about CnfControl: for any registry, any configurations and any   *)
(* number of crashes, requests given up and events, the state of the CNFs  *)
(* and of the plugin keeps its types, and the news its polling thread      *)
(* publishes is consistent.                                                *)
(***************************************************************************)
EXTENDS CnfControl, TLAPS

LEMMA RequestAdded ==
    ASSUME NEW B, NEW r
    PROVE  DOMAIN (B (+) SetToBag({r})) = DOMAIN B \cup {r}
BY DEF (+), SetToBag

LEMMA RequestRemoved ==
    ASSUME NEW B, NEW C
    PROVE  DOMAIN (B (-) C) \subseteq DOMAIN B
BY DEF (-)

\* The registry is polled in turns, each of them one of its entries.
LEMMA Turns ==
    /\ DOMAIN Registry = 1 .. Len(Registry) /\ Len(Registry) \in Nat \ {0}
    /\ \A i \in DOMAIN Registry : Registry[i] \in Cnf
BY RegistryAssumption DEF Cnf, Range

-----------------------------------------------------------------------------
(* The inductive invariant *)

\* What the subscribers have been told is what _down records, and a CNF is
\* asked for telemetry only after it has been marked up.
DownIsNews ==
    /\ seen = Cnf \ down
    /\ poll.at \in {"telemetry", "push"} => Polled \notin down

PollOK ==
    /\ poll \in [at : {"waiting", "health", "telemetry", "push", "ended"},
                 turn : DOMAIN Registry]
    /\ down \subseteq Cnf /\ stop \in BOOLEAN

InboxOK ==
    /\ inbox \in Seq(Incoming)
    /\ handler \in {MacLearned(m) : m \in Mac} \cup {Nothing}

CnfsOK ==
    /\ up \subseteq Cnf /\ leases \subseteq Mac
    /\ config \in [Cnf -> Config]
    /\ DOMAIN requests \subseteq Requests

Inv == CnfsOK /\ PollOK /\ InboxOK /\ DownIsNews

LEMMA InitInv == Init => Inv
<1> SUFFICES ASSUME Init PROVE Inv
  OBVIOUS
<1>1. CnfsOK
  BY DEF Init, CnfsOK, Config, EmptyBag, SetToBag
<1>2. 1 \in DOMAIN Registry
  <2>1. DOMAIN Registry = 1 .. Len(Registry) /\ Len(Registry) \in Nat \ {0}
    BY Turns
  <2> QED
    BY <2>1
<1>4. PollOK /\ DownIsNews
  BY <1>2 DEF Init, PollOK, DownIsNews
<1>3. InboxOK
  BY DEF Init, InboxOK
<1> QED
  BY <1>1, <1>3, <1>4 DEF Inv

\* The turn after this one.
LEMMA NextTurnOK ==
    ASSUME PollOK, NextTurn
    PROVE  /\ poll' \in [at : {"waiting", "health", "telemetry", "push", "ended"},
                         turn : DOMAIN Registry]
           /\ poll'.at \in {"waiting", "health"}
BY Turns DEF PollOK, NextTurn

LEMMA PushOK ==
    ASSUME CnfsOK, NEW c \in Cnf, NEW cfg \in Config, Push(c, cfg)
    PROVE  DOMAIN requests' \subseteq Requests
<1>1. CASE c \in up
  <2> DEFINE r == [cnf |-> c, config |-> cfg]
  <2>1. r \in Requests
    BY DEF Requests
  <2>2. requests' = requests (+) SetToBag({r})
    BY <1>1 DEF Push
  <2>3. DOMAIN requests' = DOMAIN requests \cup {r}
    BY <2>2, RequestAdded
  <2> QED
    BY <2>1, <2>3 DEF CnfsOK
<1>2. CASE c \notin up
  BY <1>2 DEF CnfsOK, Push
<1> QED
  BY <1>1, <1>2

\* The steps of the CNFs and their requests.
LEMMA CnfInv ==
    ASSUME Inv,
           \/ \E c \in Cnf : Crash(c) \/ Restart(c)
           \/ \E m \in Mac : Lease(m)
           \/ \E r \in Requests : put_config(r)
    PROVE  Inv'
<1>1. UNCHANGED <<pollThread, inbox, handler, seen>>
  BY DEF Crash, Restart, Lease, put_config, eventThread
<1>2. PollOK' /\ InboxOK' /\ DownIsNews'
  BY <1>1 DEF Inv, PollOK, InboxOK, DownIsNews, Polled, pollThread
<1>3. CnfsOK'
  <2>1. ASSUME NEW c \in Cnf, Crash(c) PROVE CnfsOK'
    BY <2>1 DEF Crash, Inv, CnfsOK
  <2>2. ASSUME NEW c \in Cnf, Restart(c) PROVE CnfsOK'
    BY <2>2 DEF Restart, Inv, CnfsOK, Config
  <2>3. ASSUME NEW m \in Mac, Lease(m) PROVE CnfsOK'
    BY <2>3 DEF Lease, Inv, CnfsOK
  <2>4. ASSUME NEW r \in Requests, put_config(r) PROVE CnfsOK'
    <3>1. DOMAIN requests' \subseteq DOMAIN requests
      BY <2>4, RequestRemoved DEF put_config
    <3>2. config' \in [Cnf -> Config]
      BY <2>4 DEF put_config, Requests, Inv, CnfsOK
    <3> QED
      BY <2>4, <3>1, <3>2 DEF put_config, Inv, CnfsOK
  <2> QED
    BY <2>1, <2>2, <2>3, <2>4
<1> QED
  BY <1>2, <1>3 DEF Inv

LEMMA PollInv == Inv /\ PollStep => Inv'
<1> SUFFICES ASSUME Inv, PollStep PROVE Inv'
  OBVIOUS
<1>1. InboxOK' /\ UNCHANGED <<up, leases, config>>
  BY DEF Inv, InboxOK, PollStep, Wake, Leave, Unhealthy, Healthy,
         TelemetryMissing, TelemetryArrives, PushReduced, eventThread, cnfs
<1>2. Polled \in Cnf /\ Reduced \in Config
  BY Turns DEF Inv, PollOK, Polled, Config
<1>3. CnfsOK'
  <2>1. CASE PushReduced
    BY <1>1, <1>2, <2>1, PushOK DEF PushReduced, Inv, CnfsOK
  <2>2. CASE requests' = requests
    BY <1>1, <2>2 DEF Inv, CnfsOK
  <2> QED
    BY <2>1, <2>2 DEF PollStep, Wake, Leave, Unhealthy, Healthy,
                      TelemetryMissing, TelemetryArrives
<1>4. PollOK' /\ DownIsNews'
  <2> USE DEF Inv
  <2>1. CASE Wake \/ Leave
    BY <2>1 DEF Wake, Leave, PollOK, DownIsNews
  <2>2. CASE Unhealthy
    BY <1>2, <2>2, NextTurnOK DEF Unhealthy, PollOK, DownIsNews
  <2>3. CASE Healthy
    BY <1>2, <2>3 DEF Healthy, PollOK, DownIsNews, Polled
  <2>4. CASE TelemetryMissing \/ PushReduced
    BY <2>4, NextTurnOK DEF TelemetryMissing, PushReduced, PollOK, DownIsNews
  <2>5. CASE TelemetryArrives
    BY <2>5, NextTurnOK DEF TelemetryArrives, PollOK, DownIsNews, Polled
  <2> QED
    BY <2>1, <2>2, <2>3, <2>4, <2>5 DEF PollStep
<1> QED
  BY <1>1, <1>3, <1>4 DEF Inv

\* The steps of the event thread, and what it is given.
LEMMA EventInv ==
    ASSUME Inv,
           \/ \E e \in Incoming : Receive(e)
           \/ EventStep
    PROVE  Inv'
<1>1. UNCHANGED <<up, leases, config, pollThread, seen>>
  BY DEF Receive, EventStep, _on_mac_learned, Correlate, _on_cnf_config, cnfs
<1>2. PollOK' /\ DownIsNews'
  BY <1>1 DEF Inv, PollOK, DownIsNews, Polled, pollThread
<1>3. ASSUME inbox # << >>
      PROVE  Head(inbox) \in Incoming /\ Tail(inbox) \in Seq(Incoming)
  <2> DEFINE I == Incoming
  <2>1. inbox \in Seq(I)
    BY DEF Inv, InboxOK
  <2> HIDE DEF I
  <2>2. Head(inbox) \in I /\ Tail(inbox) \in Seq(I)
    BY <1>3, <2>1
  <2> QED
    BY <2>2 DEF I
<1>4. ASSUME NEW e \in Incoming, Receive(e) PROVE Inv'
  <2>1. inbox' \in Seq(Incoming)
    <3> DEFINE I == Incoming
    <3>1. inbox \in Seq(I) /\ e \in I /\ inbox' = Append(inbox, e)
      BY <1>4 DEF Receive, Inv, InboxOK
    <3> HIDE DEF I
    <3>2. inbox' \in Seq(I)
      BY <3>1
    <3> QED
      BY <3>2 DEF I
  <2> QED
    BY <1>1, <1>2, <1>4, <2>1 DEF Receive, Inv, InboxOK, CnfsOK
<1>5. CASE _on_mac_learned
  <2>1. Head(inbox).type = "mac_learned" => Head(inbox) \in {MacLearned(m) : m \in Mac}
    BY <1>3, <1>5 DEF _on_mac_learned, Incoming, CnfConfig
  <2> QED
    BY <1>1, <1>2, <1>3, <1>5, <2>1 DEF _on_mac_learned, Inv, InboxOK, CnfsOK
<1>6. CASE Correlate
  BY <1>1, <1>2, <1>6 DEF Correlate, Inv, InboxOK, CnfsOK
<1>7. CASE _on_cnf_config
  <2>1. Head(inbox).config \in Config
    BY <1>3, <1>7 DEF _on_cnf_config, Incoming, MacLearned, CnfConfig, Config
  <2>2. CnfsOK'
    <3>1. CASE Head(inbox).cnf \in Cnf
      BY <1>1, <1>7, <2>1, <3>1, PushOK DEF _on_cnf_config, Inv, CnfsOK
    <3>2. CASE Head(inbox).cnf \notin Cnf
      BY <1>1, <1>7, <3>2 DEF _on_cnf_config, Inv, CnfsOK
    <3> QED
      BY <3>1, <3>2
  <2> QED
    BY <1>2, <1>3, <1>7, <2>2 DEF _on_cnf_config, Inv, InboxOK
<1> QED
  BY <1>4, <1>5, <1>6, <1>7 DEF EventStep

LEMMA NextInv == Inv /\ [Next]_vars => Inv'
<1> SUFFICES ASSUME Inv, [Next]_vars PROVE Inv'
  OBVIOUS
<1>1. CASE shutdown
  BY <1>1 DEF shutdown, cnfs, eventThread, Inv, CnfsOK, PollOK, InboxOK,
              DownIsNews, Polled
<1>2. CASE UNCHANGED vars
  BY <1>2 DEF vars, Inv, CnfsOK, PollOK, InboxOK, DownIsNews, Polled
<1> QED
  BY <1>1, <1>2, CnfInv, PollInv, EventInv DEF Next

LEMMA Invariant == Spec => []Inv
BY InitInv, NextInv, PTL DEF Spec

\* cnf_control.py and cnf_api.py: whatever crashes, times out or is asked for,
\* the CNFs and both threads of the plugin keep the types of their state.
THEOREM TypeCorrect == Spec => []TypeOK
<1>1. Inv => TypeOK
  BY DEF Inv, CnfsOK, PollOK, InboxOK, DownIsNews, TypeOK
<1> QED
  BY <1>1, Invariant, PTL

\* plugin_base.py:89-92: whatever a CNF does between two requests, cnf_down and
\* cnf_up alternate, and no telemetry comes from a CNF that has been reported
\* down and not up again.
THEOREM ConsistentNews == Spec => NewsConsistent
<1> DEFINE News ==
      /\ published'.type \in {"cnf_down", "cnf_telemetry"} => published'.cnf \in seen
      /\ published'.type = "cnf_up" => published'.cnf \notin seen
<1>1. ASSUME Inv, Next PROVE News
  <2>1. Polled \in Cnf
    BY <1>1, Turns DEF Inv, PollOK, Polled
  <2>2. CASE Unhealthy \/ Healthy \/ TelemetryArrives
    BY <1>1, <2>1, <2>2 DEF Unhealthy, Healthy, TelemetryArrives, Nothing, Inv,
                            DownIsNews
  <2>3. CASE published' = Nothing
    BY <2>3 DEF Nothing
  <2> QED
    BY <1>1, <2>2, <2>3
    DEF Next, Crash, Restart, Lease, put_config, PollStep, Wake, Leave,
        TelemetryMissing, PushReduced, Receive, EventStep, _on_mac_learned,
        Correlate, _on_cnf_config, shutdown
<1>2. Inv /\ [Next]_vars => [News]_vars
  BY <1>1
<1> QED
  BY <1>2, Invariant, PTL DEF Spec, NewsConsistent

=============================================================================
