----------------------------- MODULE CnfControl -----------------------------
(***************************************************************************)
(* The plugin cnf_control and the CNFs it manages:                         *)
(* controller/plugins/cnf_control.py over cNF/cnf_api.py.                  *)
(*                                                                         *)
(* Two threads of the plugin talk to the CNFs over HTTP with no common     *)
(* lock: its own polling thread (health, telemetry, a reduced lease time   *)
(* under pool pressure) and the event thread the controller gives it       *)
(* (mac_learned, cnf_config).  A request that is not answered in three     *)
(* seconds is given up; a PUT that was given up may still be applied.      *)
(*                                                                         *)
(* What it publishes reaches its subscribers in order (EventBus), so their *)
(* view of a CNF is the last cnf_down or cnf_up published.                 *)
(***************************************************************************)
EXTENDS Naturals, Sequences, FiniteSets, Functions, Bags

CONSTANTS
    Registry,        \* the names in cnf_registry.yaml, in order
    Dhcp,            \* "dhcp_server"
    Stranger,        \* names of payloads that are not registered
    Mac,             \* the hosts
    Threshold,       \* pool_warn_threshold
    Boot,            \* the configuration a CNF starts with
    Reduced,         \* lease_time_reduced
    Ordered,         \* the configurations other plugins ask for
    Rejected,        \* those of them set_config refuses
    MaxCrashes,      \* bound: crashes of a CNF
    MaxTimeouts,     \* bound: requests given up although the CNF is up
    MaxEvents,       \* bound: events for the plugin
    MaxRequests      \* bound: PUTs on their way

Cnf == Range(Registry)
Config == {Boot, Reduced} \cup Ordered

ASSUME RegistryAssumption ==
    /\ Registry \in Seq(Cnf) /\ Registry # << >>
    /\ Cnf \cap Stranger = {}
    /\ Rejected \subseteq Ordered
    /\ Threshold \in Nat /\ MaxRequests \in Nat \ {0}

VARIABLES
    up,              \* the CNFs that answer
    leases,          \* the hosts that hold a lease of the DHCP server
    config,          \* the configuration in force at each CNF
    requests,        \* the PUTs on their way to a CNF
    poll,            \* where the polling thread is: step, and whose turn it is
    down,            \* _down
    stop,            \* _stop
    inbox,           \* the plugin's events, in order
    handler,         \* what the event thread waits for
    correlated,      \* what _on_mac_learned last reported
    published,       \* the event the last step of the plugin published
    seen,            \* the CNFs up by what has been published
    crashes, timeouts, events

vars == <<up, leases, config, requests, poll, down, stop, inbox, handler,
          correlated, published, seen, crashes, timeouts, events>>

cnfs == <<up, leases, config, crashes>>
pollThread == <<poll, down, stop>>
eventThread == <<inbox, handler, correlated, events>>

Nothing == [type |-> "none"]
MacLearned(m) == [type |-> "mac_learned", mac |-> m]
CnfConfig(c, cfg) == [type |-> "cnf_config", cnf |-> c, config |-> cfg]

Init ==
    /\ up = Cnf
    /\ leases = {}
    /\ config = [c \in Cnf |-> Boot]
    /\ requests = EmptyBag
    /\ poll = [at |-> "waiting", turn |-> 1]
    /\ down = {}
    /\ stop = FALSE
    /\ inbox = << >>
    /\ handler = Nothing
    /\ correlated = Nothing
    /\ published = Nothing
    /\ seen = Cnf
    /\ crashes = 0 /\ timeouts = 0 /\ events = 0

-----------------------------------------------------------------------------
(* The CNFs *)

\* The requests on their way to a CNF are lost with it.
Crash(c) ==
    /\ c \in up
    /\ crashes < MaxCrashes
    /\ crashes' = crashes + 1
    /\ up' = up \ {c}
    /\ requests' = [r \in {r \in DOMAIN requests : r.cnf # c} |-> requests[r]]
    /\ published' = Nothing
    /\ UNCHANGED <<leases, config, pollThread, eventThread, seen, timeouts>>

\* A CNF keeps nothing across a restart.
Restart(c) ==
    /\ c \notin up
    /\ up' = up \cup {c}
    /\ config' = [config EXCEPT ![c] = Boot]
    /\ leases' = IF c = Dhcp THEN {} ELSE leases
    /\ published' = Nothing
    /\ UNCHANGED <<crashes, requests, pollThread, eventThread, seen, timeouts>>

\* The DHCP server acknowledges a request; its leases are never removed.
Lease(m) ==
    /\ Dhcp \in up
    /\ m \notin leases
    /\ leases' = leases \cup {m}
    /\ published' = Nothing
    /\ UNCHANGED <<up, config, crashes, requests, pollThread, eventThread,
                   seen, timeouts>>

\* put_config: one thread per request, in whatever order they run.
put_config(r) ==
    /\ BagIn(r, requests)
    /\ requests' = requests (-) SetToBag({r})
    /\ config' = IF r.config \in Rejected THEN config
                 ELSE [config EXCEPT ![r.cnf] = r.config]
    /\ published' = Nothing
    /\ UNCHANGED <<up, leases, crashes, pollThread, eventThread, seen, timeouts>>

\* The body of GET /telemetry at the DHCP server.
Telemetry == [leased_ips |-> Cardinality(leases), ips |-> leases]

-----------------------------------------------------------------------------
(* HTTP, as _get_json and _push_config use it *)

Answered(c) == c \in up /\ UNCHANGED timeouts

\* _get_json returns None.
Unanswered(c) ==
    \/ c \notin up /\ UNCHANGED timeouts
    \/ timeouts < MaxTimeouts /\ timeouts' = timeouts + 1

\* _push_config sends a PUT; whether it is answered, refused or given up, the
\* caller goes on.
Push(c, cfg) ==
    IF c \in up
    THEN /\ BagCardinality(requests) < MaxRequests
         /\ requests' = requests (+) SetToBag({[cnf |-> c, config |-> cfg]})
    ELSE UNCHANGED requests

-----------------------------------------------------------------------------
(* The polling thread: _poll_loop and _poll_cnf *)

Polled == Registry[poll.turn]

\* Faulty variant: one turn too many.
NextTurn_OffByOne ==
    poll' = IF poll.turn <= Len(Registry)
            THEN [at |-> "health", turn |-> poll.turn + 1]
            ELSE [at |-> "waiting", turn |-> 1]

NextTurn ==
    poll' = IF poll.turn < Len(Registry)
            THEN [at |-> "health", turn |-> poll.turn + 1]
            ELSE [at |-> "waiting", turn |-> 1]

\* Faulty variant: _stop is not looked at.
Wake_Regardless ==
    /\ poll.at = "waiting"
    /\ poll' = [poll EXCEPT !.at = "health"]
    /\ published' = Nothing
    /\ UNCHANGED <<cnfs, requests, down, stop, eventThread, seen, timeouts>>

\* _stop.wait times out; _stop is not looked at again before the whole
\* registry has been polled.
Wake ==
    /\ poll.at = "waiting"
    /\ ~ stop
    /\ poll' = [poll EXCEPT !.at = "health"]
    /\ published' = Nothing
    /\ UNCHANGED <<cnfs, requests, down, stop, eventThread, seen, timeouts>>

Leave ==
    /\ poll.at = "waiting"
    /\ stop
    /\ poll' = [poll EXCEPT !.at = "ended"]
    /\ published' = Nothing
    /\ UNCHANGED <<cnfs, requests, down, stop, eventThread, seen, timeouts>>

\* Faulty variant: cnf_down is published, but not remembered.
Unhealthy_Unmarked ==
    /\ poll.at = "health"
    /\ Unanswered(Polled)
    /\ UNCHANGED down
    /\ seen' = seen \ {Polled}
    /\ published' = IF Polled \in down THEN Nothing
                    ELSE [type |-> "cnf_down", cnf |-> Polled]
    /\ NextTurn
    /\ UNCHANGED <<cnfs, requests, stop, eventThread>>

\* GET /health is not answered: cnf_down once, and nothing more is asked.
Unhealthy ==
    /\ poll.at = "health"
    /\ Unanswered(Polled)
    /\ down' = down \cup {Polled}
    /\ seen' = IF Polled \in down THEN seen ELSE seen \ {Polled}
    /\ published' = IF Polled \in down THEN Nothing
                    ELSE [type |-> "cnf_down", cnf |-> Polled]
    /\ NextTurn
    /\ UNCHANGED <<cnfs, requests, stop, eventThread>>

\* Faulty variant: the recovery is published, but not remembered.
Healthy_Unmarked ==
    /\ poll.at = "health"
    /\ Answered(Polled)
    /\ UNCHANGED down
    /\ seen' = IF Polled \in down THEN seen \cup {Polled} ELSE seen
    /\ published' = IF Polled \in down
                    THEN [type |-> "cnf_up", cnf |-> Polled] ELSE Nothing
    /\ poll' = [poll EXCEPT !.at = "telemetry"]
    /\ UNCHANGED <<cnfs, requests, stop, eventThread>>

Healthy ==
    /\ poll.at = "health"
    /\ Answered(Polled)
    /\ down' = down \ {Polled}
    /\ seen' = IF Polled \in down THEN seen \cup {Polled} ELSE seen
    /\ published' = IF Polled \in down
                    THEN [type |-> "cnf_up", cnf |-> Polled] ELSE Nothing
    /\ poll' = [poll EXCEPT !.at = "telemetry"]
    /\ UNCHANGED <<cnfs, requests, stop, eventThread>>

TelemetryMissing ==
    /\ poll.at = "telemetry"
    /\ Unanswered(Polled)
    /\ published' = Nothing
    /\ NextTurn
    /\ UNCHANGED <<cnfs, requests, down, stop, eventThread, seen>>

\* Faulty variant: pressure only above the threshold.
Pressure_Above == Polled = Dhcp /\ Telemetry.leased_ips > Threshold

Pressure == Polled = Dhcp /\ Telemetry.leased_ips >= Threshold

TelemetryArrives ==
    /\ poll.at = "telemetry"
    /\ Answered(Polled)
    /\ published' = [type |-> "cnf_telemetry", cnf |-> Polled]
    /\ IF Pressure THEN poll' = [poll EXCEPT !.at = "push"] ELSE NextTurn
    /\ UNCHANGED <<cnfs, requests, down, stop, eventThread, seen>>

PushReduced ==
    /\ poll.at = "push"
    /\ Push(Polled, Reduced)
    /\ published' = Nothing
    /\ NextTurn
    /\ UNCHANGED <<cnfs, down, stop, eventThread, seen, timeouts>>

PollStep ==
    \/ Wake \/ Leave \/ Unhealthy \/ Healthy
    \/ TelemetryMissing \/ TelemetryArrives \/ PushReduced

-----------------------------------------------------------------------------
(* The event thread *)

\* Another plugin publishes an event cnf_control has subscribed to.
Receive(e) ==
    /\ events < MaxEvents
    /\ events' = events + 1
    /\ inbox' = Append(inbox, e)
    /\ published' = Nothing
    /\ UNCHANGED <<cnfs, requests, pollThread, handler, correlated, seen,
                   timeouts>>

Incoming == {MacLearned(m) : m \in Mac}
              \cup {CnfConfig(c, cfg) : c \in Cnf \cup Stranger, cfg \in Ordered}

\* The CNF is asked for its telemetry, if the registry has a DHCP server.
_on_mac_learned ==
    /\ handler = Nothing /\ inbox # << >>
    /\ Head(inbox).type = "mac_learned"
    /\ inbox' = Tail(inbox)
    /\ handler' = IF Dhcp \in Cnf THEN Head(inbox) ELSE Nothing
    /\ published' = Nothing
    /\ UNCHANGED <<cnfs, requests, pollThread, correlated, seen, timeouts,
                   events>>

\* The answer is searched under the key "leases".
Correlate ==
    /\ handler # Nothing
    /\ handler' = Nothing
    /\ \/ /\ Answered(Dhcp)
          /\ LET found == IF "leases" \in DOMAIN Telemetry
                          THEN Telemetry["leases"] ELSE {}
             IN  correlated' = [type |-> "correlated", mac |-> handler.mac,
                                known |-> handler.mac \in found]
       \/ Unanswered(Dhcp) /\ UNCHANGED correlated
    /\ published' = Nothing
    /\ UNCHANGED <<cnfs, requests, pollThread, inbox, seen, events>>

\* A payload for a CNF that is not registered is dropped.
_on_cnf_config ==
    /\ handler = Nothing /\ inbox # << >>
    /\ Head(inbox).type = "cnf_config"
    /\ inbox' = Tail(inbox)
    /\ IF Head(inbox).cnf \in Cnf
       THEN Push(Head(inbox).cnf, Head(inbox).config)
       ELSE UNCHANGED requests
    /\ published' = Nothing
    /\ UNCHANGED <<cnfs, pollThread, handler, correlated, seen, timeouts, events>>

EventStep == _on_mac_learned \/ Correlate \/ _on_cnf_config

shutdown ==
    /\ ~ stop
    /\ stop' = TRUE
    /\ published' = Nothing
    /\ UNCHANGED <<cnfs, requests, poll, down, eventThread, seen, timeouts>>

-----------------------------------------------------------------------------

Requests == [cnf : Cnf, config : Config]

Next ==
    \/ \E c \in Cnf : Crash(c) \/ Restart(c)
    \/ \E m \in Mac : Lease(m)
    \/ \E r \in Requests : put_config(r)
    \/ PollStep
    \/ \E e \in Incoming : Receive(e)
    \/ EventStep
    \/ shutdown

Spec == Init /\ [][Next]_vars

\* Both threads run, for every request of theirs is answered or times out, and
\* a CNF serves the requests that have reached it.  A CNF need not come back.
FairSpec ==
    /\ Spec
    /\ WF_vars(PollStep) /\ WF_vars(EventStep)
    /\ \A r \in Requests : WF_vars(put_config(r))

-----------------------------------------------------------------------------
(* Properties *)

\* The types of the CNFs' state and of the two threads'.
TypeOK ==
    /\ up \subseteq Cnf /\ leases \subseteq Mac
    /\ config \in [Cnf -> Config]
    /\ DOMAIN requests \subseteq Requests
    /\ poll.at \in {"waiting", "health", "telemetry", "push", "ended"}
    /\ poll.turn \in DOMAIN Registry
    /\ down \subseteq Cnf /\ seen \subseteq Cnf
    /\ stop \in BOOLEAN
    /\ \A i \in DOMAIN inbox : inbox[i] \in Incoming
    /\ handler \in {MacLearned(m) : m \in Mac} \cup {Nothing}

\* plugin_base.py:89-92: whatever a CNF does between two requests, cnf_down and
\* cnf_up alternate, and no telemetry comes from a CNF that has been reported
\* down and not up again.
NewsConsistent ==
    [][/\ published'.type \in {"cnf_down", "cnf_telemetry"} =>
            published'.cnf \in seen
       /\ published'.type = "cnf_up" => published'.cnf \notin seen]_vars

\* While the plugin is not stopped, the subscribers are in the end right about
\* a CNF that stays up, and about one that stays down.
HealthConverges ==
    \A c \in Cnf :
        /\ <>[](c \in up /\ ~ stop) => <>[](c \in seen)
        /\ <>[](c \notin up /\ ~ stop) => <>[](c \notin seen)

\* cnf_control.py:78-86: a DHCP server that stays up and under pressure ends up
\* with the reduced lease time, whatever PUTs of the event thread or PUTs that
\* were given up arrive in between.
PressureRelieved ==
    <>[](Dhcp \in up /\ Cardinality(leases) >= Threshold /\ ~ stop)
        => <>[](config[Dhcp] = Reduced)

\* shutdown() ends the polling thread, although CNFs do not answer.
PollingEnds == stop ~> poll.at = "ended"

-----------------------------------------------------------------------------
(* What a comment says, and the code does not *)

\* cnf_control.py:38, "correlate MAC -> IP when self_learning learns a new MAC":
\* the lease the DHCP server reports for the MAC is found.
MacCorrelated ==
    [][correlated' # correlated /\ correlated'.mac \in leases
         => correlated'.known]_vars

=============================================================================
