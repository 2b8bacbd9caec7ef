----------------------------- MODULE MCEventBus -----------------------------
(***************************************************************************)
(* Three plugins shaped like the repository's: a learner that hears        *)
(* packets and writes to devices, a control plugin with a polling thread   *)
(* that hears mac_learned, and a monitor that subscribes to everything,    *)
(* writes to devices too, and whose handlers and writes may never return;  *)
(* it hears packets twice, its filters of them refuse p2, and its filter   *)
(* of reports looks for a key that t1 does not have.                       *)
(*   p1, p2: packets;  l1: a mac_learned;  t1: a telemetry report.         *)
(***************************************************************************)
EXTENDS EventBus

CONSTANTS learner, control, monitor, p1, p2, l1, t1, stream

LoadOrder == <<learner, control, monitor>>

TypeOf == [e \in {p1, p2, l1, t1} |->
             CASE e \in {p1, p2} -> "packet_in"
               [] e = l1         -> "mac_learned"
               [] e = t1         -> "cnf_telemetry"]

OriginOf == [e \in {p1, p2, l1, t1} |->
               CASE e \in {p1, p2} -> stream
                 [] e = l1         -> learner
                 [] e = t1         -> control]

Types == {"packet_in", "mac_learned", "cnf_telemetry"}

\* The n-th subscription of plugin p to a type.
Subscribe(p, n, accepts, raises) ==
    [plugin |-> p, nth |-> n, accepts |-> accepts, raises |-> raises]

All == {p1, p2, l1, t1}

Subscribed ==
    [p \in {learner, control, monitor} |-> [t \in Types |->
        CASE p = learner /\ t = "packet_in" -> <<Subscribe(p, 1, {p1, p2}, {})>>
          [] p # learner /\ t = "mac_learned" -> <<Subscribe(p, 1, All, {})>>
          [] p = monitor /\ t = "cnf_telemetry" -> <<Subscribe(p, 1, {}, {t1})>>
          [] p = monitor /\ t = "packet_in" -> <<Subscribe(p, 1, {p1}, {}),
                                                Subscribe(p, 2, {p1}, {})>>
          [] OTHER -> << >>]]

=============================================================================
