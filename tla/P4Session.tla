------------------------------ MODULE P4Session ------------------------------
(***************************************************************************)
(* The P4Runtime sessions of the controller: p4runtime_lib/switch.py as    *)
(* controller.py and the startup() of the plugins use it.                  *)
(*                                                                         *)
(* The main thread opens a session with one switch after another: it       *)
(* constructs the connection, asks for mastership and waits, without a     *)
(* deadline, for one message of the stream; then it pushes the pipeline    *)
(* and installs an entry.  run() starts a thread per device that reads the *)
(* rest of the stream.  In the end every connection is closed, unless the  *)
(* process does not get that far.                                          *)
(*                                                                         *)
(* The switches and gRPC are external: a switch answers, sends packets and *)
(* digests as soon as it has answered, notices of mastership in between,   *)
(* and may end a stream at any time.  Each switch has one session.         *)
(***************************************************************************)
EXTENDS Helper, FiniteSets, SequencesExt

CONSTANTS
    Switch,
    Startup,      \* the order in which the plugins connect to them
    Entries,      \* entries to install: each a set of fields
    MaxSent,      \* packets and digests a switch sends
    MaxNotices,   \* notices of mastership it sends besides
    MaxEnds       \* streams that end

ASSUME StartupAssumption ==
    /\ Startup \in Seq(Switch)
    /\ \A i, j \in DOMAIN Startup : i # j => Startup[i] # Startup[j]

\* The widths are those of P4Info.
ASSUME EntriesAssumption ==
    \A e \in Entries : \A f \in e :
        /\ f.bitwidth \in Nat \ {0}
        /\ \A i \in DOMAIN f.values :
             f.values[i].kind = "number" => f.values[i].number \in Int

ASSUME BoundsAssumption == MaxSent \in Nat /\ MaxNotices \in Nat /\ MaxEnds \in Nat

VARIABLES
    main,          \* where the main thread stands
    next,          \* how many of Startup it has begun with
    connections,   \* switch.py's list of that name
    requests,      \* requests_stream of each connection
    stream,        \* state of its StreamChannel call
    responses,     \* what has arrived on it and has not been taken
    devices,       \* Controller.devices
    pipeline,      \* devices the pipeline has been pushed to
    entry,         \* the Write the main thread's last step has sent, if any
    reading,       \* devices whose read loop runs
    events,        \* what each read loop has put into the event queue
    sent,          \* how many packets and digests a switch has sent
    notices        \* and how many notices of mastership

startupVars == <<main, next, connections, devices, pipeline, entry>>
streamVars == <<requests, stream, responses, sent, notices>>
vars == <<startupVars, streamVars, reading, events>>

Arbitration == "arbitration"
Sentinel == "sentinel"
Notice == 0
Over == {"done", "aborted"}
NoEntry == {}

Init ==
    /\ main = "load"
    /\ next = 0
    /\ connections = {}
    /\ requests = [d \in Switch |-> << >>]
    /\ stream = [d \in Switch |-> "none"]
    /\ responses = [d \in Switch |-> << >>]
    /\ devices = {}
    /\ pipeline = {}
    /\ entry = NoEntry
    /\ reading = {}
    /\ events = [d \in Switch |-> << >>]
    /\ sent = [d \in Switch |-> 0]
    /\ notices = [d \in Switch |-> 0]

-----------------------------------------------------------------------------
(* A switch *)

Answer(d) ==
    /\ stream[d] = "open"
    /\ requests[d] # << >> /\ Head(requests[d]) = Arbitration
    /\ requests' = [requests EXCEPT ![d] = Tail(@)]
    /\ stream' = [stream EXCEPT ![d] = "answered"]
    /\ responses' = [responses EXCEPT ![d] = Append(@, Notice)]
    /\ UNCHANGED <<startupVars, reading, events, sent, notices>>

\* Packets and digests are numbered, so that each is told from the others.
SendPacket(d) ==
    /\ stream[d] = "answered"
    /\ sent[d] < MaxSent
    /\ sent' = [sent EXCEPT ![d] = @ + 1]
    /\ responses' = [responses EXCEPT ![d] = Append(@, sent[d] + 1)]
    /\ UNCHANGED <<startupVars, requests, stream, reading, events, notices>>

SendNotice(d) ==
    /\ stream[d] = "answered"
    /\ notices[d] < MaxNotices
    /\ notices' = [notices EXCEPT ![d] = @ + 1]
    /\ responses' = [responses EXCEPT ![d] = Append(@, Notice)]
    /\ UNCHANGED <<startupVars, requests, stream, reading, events, sent>>

Ended == {"closed", "broken"}

\* In good order or with an error; what is still on its way is lost.
End(d) ==
    /\ stream[d] \in {"open", "answered"}
    /\ Cardinality({e \in Switch : stream[e] \in Ended}) < MaxEnds
    /\ \E how \in Ended, n \in 0 .. Len(responses[d]) :
         /\ stream' = [stream EXCEPT ![d] = how]
         /\ responses' = [responses EXCEPT ![d] = SubSeq(@, 1, n)]
    /\ UNCHANGED <<startupVars, requests, reading, events, sent, notices>>

\* Until the process is over.
SwitchStep(d) ==
    /\ main \notin Over
    /\ Answer(d) \/ SendPacket(d) \/ SendNotice(d) \/ End(d)

-----------------------------------------------------------------------------
(* startup() of the plugins, on the main thread *)

Current == Startup[next]

\* The constructor of the connection starts the call.
Open ==
    /\ main = "load"
    /\ next < Len(Startup)
    /\ next' = next + 1
    /\ stream' = [stream EXCEPT ![Startup[next + 1]] = "open"]
    /\ main' = "opened"
    /\ entry' = NoEntry
    /\ UNCHANGED <<connections, requests, responses, devices, pipeline, reading,
                   events, sent, notices>>

\* Faulty variant: the connection is not listed.
Enlist_Skipped ==
    /\ main = "opened"
    /\ main' = "listed"
    /\ UNCHANGED <<next, connections, devices, pipeline, entry, streamVars, reading, events>>

\* Only then does it list the connection.
Enlist ==
    /\ main = "opened"
    /\ connections' = connections \cup {Current}
    /\ main' = "listed"
    /\ UNCHANGED <<next, devices, pipeline, entry, streamVars, reading, events>>

\* The request is put into the queue the call takes from.
MasterArbitrationUpdate ==
    /\ main = "listed"
    /\ requests' = [requests EXCEPT ![Current] = Append(@, Arbitration)]
    /\ main' = "arbitrate"
    /\ UNCHANGED <<next, connections, stream, responses, devices, pipeline, entry,
                   reading, events, sent, notices>>

\* Faulty variant: the loop reads on instead of returning the first item.
Arbitrated_Drains ==
    /\ main = "arbitrate"
    /\ responses[Current] # << >>
    /\ responses' = [responses EXCEPT ![Current] = << >>]
    /\ devices' = devices \cup {Current}
    /\ main' = "push"
    /\ UNCHANGED <<next, connections, requests, stream, pipeline, entry,
                   reading, events, sent, notices>>

\* One message of the stream, whatever it says, and the device is registered.
Arbitrated ==
    /\ main = "arbitrate"
    /\ responses[Current] # << >>
    /\ responses' = [responses EXCEPT ![Current] = Tail(@)]
    /\ devices' = devices \cup {Current}
    /\ main' = "push"
    /\ UNCHANGED <<next, connections, requests, stream, pipeline, entry,
                   reading, events, sent, notices>>

\* The stream ended in good order: the loop is over and nothing is returned.
NotArbitrated ==
    /\ main = "arbitrate"
    /\ responses[Current] = << >>
    /\ stream[Current] = "closed"
    /\ devices' = devices \cup {Current}
    /\ main' = "push"
    /\ UNCHANGED <<next, connections, pipeline, entry, streamVars, reading, events>>

\* The plugin logs the error and goes on with its next device.
ArbitrationFails ==
    /\ main = "arbitrate"
    /\ responses[Current] = << >>
    /\ stream[Current] = "broken"
    /\ main' = "load"
    /\ UNCHANGED <<next, connections, devices, pipeline, entry, streamVars, reading, events>>

push_pipeline ==
    /\ main = "push"
    /\ pipeline' = pipeline \cup {Current}
    /\ main' = "install"
    /\ UNCHANGED <<next, connections, devices, entry, streamVars, reading, events>>

\* A grpc.RpcError of any call after connect: the device stays registered.
CallFails ==
    /\ main \in {"push", "install"}
    /\ main' = "load"
    /\ UNCHANGED <<next, connections, devices, pipeline, entry, streamVars, reading, events>>

\* One entry stands for each of the list: nothing of one is kept for the next.
install_table_entry(e) ==
    /\ main = "install"
    /\ CanBuild(e)
    /\ entry' = buildTableEntry(e)
    /\ main' = "load"
    /\ UNCHANGED <<next, connections, devices, pipeline, streamVars, reading, events>>

\* The list is empty: an L2 switch is given its rules as it runs.
NothingToInstall ==
    /\ main = "install"
    /\ main' = "load"
    /\ UNCHANGED <<next, connections, devices, pipeline, entry, streamVars, reading, events>>

\* What building the entry raises is no grpc.RpcError: no plugin catches it and
\* the process comes to its end.
InstallRaises(e) ==
    /\ main = "install"
    /\ ~ CanBuild(e)
    /\ main' = "finally"
    /\ UNCHANGED <<next, connections, devices, pipeline, entry, streamVars, reading, events>>

\* Faulty variant: only devices with a pipeline are read from.
Run_Pipelines ==
    /\ main = "load"
    /\ next = Len(Startup)
    /\ reading' = pipeline
    /\ main' = "run"
    /\ entry' = NoEntry
    /\ UNCHANGED <<next, connections, devices, pipeline, streamVars, events>>

Run ==
    /\ main = "load"
    /\ next = Len(Startup)
    /\ reading' = devices
    /\ main' = "run"
    /\ entry' = NoEntry
    /\ UNCHANGED <<next, connections, devices, pipeline, streamVars, events>>

\* Ctrl+C, between any two steps.
Interrupt ==
    /\ main \notin {"finally"} \cup Over
    /\ main' = "finally"
    /\ entry' = NoEntry
    /\ UNCHANGED <<next, connections, devices, pipeline, streamVars, reading, events>>

\* Faulty variant: only the devices that were registered are closed.
ToClose_Devices == devices

ToClose == connections

\* ShutdownAllSwitchConnections closes one connection after another.
Close(d) ==
    /\ main = "finally"
    /\ d \in ToClose
    /\ stream[d] # "cancelled"
    /\ requests' = [requests EXCEPT ![d] = Append(@, Sentinel)]
    /\ stream' = [stream EXCEPT ![d] = "cancelled"]
    /\ UNCHANGED <<startupVars, responses, reading, events, sent, notices>>

\* shutdown() of the plugins comes before ctrl.shutdown(), and nothing catches
\* what one raises.  A second Ctrl+C ends the process too, wherever the closing
\* has got to.
Abort ==
    /\ main = "finally"
    /\ main' = "aborted"
    /\ UNCHANGED <<next, connections, devices, pipeline, entry, streamVars, reading, events>>

\* ctrl.shutdown() has returned.
Exit ==
    /\ main = "finally"
    /\ \A d \in ToClose : stream[d] = "cancelled"
    /\ main' = "done"
    /\ UNCHANGED <<next, connections, devices, pipeline, entry, streamVars, reading, events>>

\* What the main thread does without waiting for a switch, or with its answer in
\* hand, and what it does with calls that have no deadline.
OwnStep ==
    \/ Open \/ Enlist \/ MasterArbitrationUpdate
    \/ Arbitrated \/ NotArbitrated \/ ArbitrationFails
    \/ Run

CallStep ==
    \/ push_pipeline \/ CallFails \/ NothingToInstall
    \/ \E e \in Entries : install_table_entry(e) \/ InstallRaises(e)

Step == OwnStep \/ CallStep \/ Exit \/ Abort \/ \E d \in Switch : Close(d)

-----------------------------------------------------------------------------
(* _read_loop *)

Read(d) ==
    /\ main \notin Over
    /\ d \in reading
    /\ responses[d] # << >>
    /\ responses' = [responses EXCEPT ![d] = Tail(@)]
    /\ events' = IF Head(responses[d]) = Notice THEN events
                 ELSE [events EXCEPT ![d] = Append(@, Head(responses[d]))]
    /\ UNCHANGED <<startupVars, requests, stream, reading, sent, notices>>

\* The iterator stops or raises; a call that was cancelled may do so before
\* it has handed out what had arrived.
ReadEnds(d) ==
    /\ main \notin Over
    /\ d \in reading
    /\ \/ stream[d] = "cancelled"
       \/ stream[d] \in Ended /\ responses[d] = << >>
    /\ reading' = reading \ {d}
    /\ UNCHANGED <<startupVars, streamVars, events>>

Next ==
    \/ Step
    \/ Interrupt
    \/ \E d \in Switch : SwitchStep(d) \/ Read(d) \/ ReadEnds(d)

\* The controller's threads run.  A switch need not answer, send or end; a call
\* that waits for one, SetForwardingPipelineConfig or Write, need never return,
\* as none has a deadline; and nobody need press Ctrl+C.  Nothing below rests on
\* how the process ends.
Fairness ==
    /\ WF_vars(OwnStep)
    /\ \A d \in Switch : WF_vars(Read(d) \/ ReadEnds(d))

Spec == Init /\ [][Next]_vars /\ Fairness

-----------------------------------------------------------------------------
(* Properties *)

\* The types of the sessions and of the controller's tables.
TypeOK ==
    /\ main \in {"load", "opened", "listed", "arbitrate", "push", "install", "run",
                 "finally"} \cup Over
    /\ next \in 0 .. Len(Startup)
    /\ pipeline \subseteq devices /\ devices \subseteq connections
    /\ stream \in [Switch -> {"none", "open", "answered", "cancelled"} \cup Ended]
    /\ \A d \in Switch :
         /\ requests[d] \in Seq({Arbitration, Sentinel})
         /\ responses[d] \in Seq({Notice} \cup 1 .. MaxSent)
         /\ events[d] \in Seq(1 .. MaxSent)
    /\ connections \subseteq {d \in Switch : stream[d] # "none"}
    /\ reading \subseteq devices

\* controller.py:198-214: the events of a device are the packets and digests
\* it has sent since its session began, in order and none left out: connect
\* takes the answer to the arbitration and nothing else from the stream, and
\* what arrives before run() waits.
EventsComplete == \A d \in Switch : events[d] = [i \in 1 .. Len(events[d]) |-> i]

\* controller.py:268-270: when ctrl.shutdown() has returned, every session that
\* was ever opened is closed, those too whose arbitration failed or never was
\* answered.  The one exception is the session whose constructor Ctrl+C left
\* between its last lines (switch.py:46-48).
AllClosed ==
    main = "done" =>
        \A d \in Switch : stream[d] # "none" =>
            \/ stream[d] = "cancelled" /\ Last(requests[d]) = Sentinel
            \/ d = Current /\ d \notin connections

\* convert.py:62-79: each number a switch has in an entry is the one that was
\* asked for, in two's complement of the field's width, and nothing outside.
EntryAsAsked ==
    \A field \in entry : \A i \in DOMAIN field.asked.values :
        LET value == field.asked.values[i]
            bytes == field.bytes[i]
            w == field.asked.bitwidth
        IN  /\ Len(bytes) = bitwidthToBytes(w)
            /\ value.kind = "number" =>
                 /\ decodeNum(bytes) \in 0 .. Pow2[w] - 1
                 /\ (decodeNum(bytes) - value.number) % Pow2[w] = 0

\* The main thread waits for a switch, with no deadline.
Waiting == main \in {"arbitrate", "push", "install"}

\* controller.py:198-214: unless the main thread waits for a switch for ever,
\* before run(), what a switch has sent has all become events in the end,
\* whether it came before run() or after, if its stream does not end and the
\* controller does not stop.
Delivered ==
    \A d \in Switch :
        \/ <>[]Waiting
        \/ sent[d] > Len(events[d]) ~>
               \/ sent[d] = Len(events[d])
               \/ stream[d] \in Ended \cup {"cancelled"}
               \/ main \in {"finally"} \cup Over

=============================================================================
