------------------------------ MODULE EventBus ------------------------------
(***************************************************************************)
(* The controller's event system and the life of its process:              *)
(* controller/controller.py and controller/run_controller.py.              *)
(*                                                                         *)
(* Threads: the main thread loads the plugins one by one, then dispatches  *)
(* events until Ctrl+C, then shuts the plugins down; one thread per device *)
(* reads the gRPC stream; one thread per plugin calls its handlers; a      *)
(* plugin may have a thread of its own that polls and publishes.  They     *)
(* meet in the event queue, the plugin queues and the write lock.          *)
(*                                                                         *)
(* The data is cut down to occurrences: an Event is one call of emit or of *)
(* the stream, published at most once, so that a loss, a duplicate or a    *)
(* reordering shows.                                                       *)
(***************************************************************************)
EXTENDS Naturals, Sequences, Functions

CONSTANTS
    Plugins,         \* the plugins of --plugins, in the order they are loaded
    Event,           \* the events of the window that is modelled
    Stream,          \* "the gRPC stream" as the origin of an event
    EVENTS,          \* the types of event of plugin_base.py
    EventType,       \* event -> type
    Origin,          \* event -> the plugin that emits it, or Stream
    Subscriptions,   \* plugin -> type -> what its startup() subscribes, in order
    Background,      \* the plugins with a polling thread of their own
    Writers,         \* the plugins whose handlers write to a device
    Responsive,      \* the plugins whose handlers always return
    ShutdownRaises   \* the plugins whose shutdown() raises

Plugin == {Plugins[i] : i \in DOMAIN Plugins}

\* An entry of _handlers: whose it is, and which of the plugin's subscriptions
\* to its type.  The filter passes the events of accepts and raises on those of
\* raises.
Handler == UNION {Range(Subscriptions[p][t]) : p \in Plugin, t \in EVENTS}

ASSUME PluginsAssumption ==
    /\ Plugins \in Seq(Plugin)
    /\ \A i, j \in DOMAIN Plugins : Plugins[i] = Plugins[j] => i = j
    /\ Stream \notin Plugin
    /\ Origin \in [Event -> Plugin \cup {Stream}]
    /\ Background \cup Writers \cup Responsive \cup ShutdownRaises \subseteq Plugin

ASSUME SubscriptionsAssumption ==
    /\ EventType \in [Event -> EVENTS]
    /\ \A p \in Plugin, t \in EVENTS :
         /\ Subscriptions[p][t] \in Seq(Handler)
         /\ \A i \in DOMAIN Subscriptions[p][t] :
              LET h == Subscriptions[p][t][i]
              IN  h.plugin = p /\ h.nth = i /\ h.accepts \cup h.raises \subseteq Event

\* The value of event while there is none is not an event.
ASSUME NoneAssumption == "none" \notin Event

-----------------------------------------------------------------------------

VARIABLES
    phase,           \* of the main thread
    loaded,          \* how many plugins have returned from startup()
    shut,            \* how many of them have returned from shutdown()
    handlers,        \* _handlers: type -> its entries, in subscription order
    published,       \* the events put into the event queue so far, in order
    eventQueue,      \* _event_queue
    routing,         \* what the dispatcher has taken and not finished
    queues,          \* _plugin_queues: plugin -> its queue
    thread,          \* plugin -> what its thread is doing
    writer           \* who holds _write_lock

vars == <<phase, loaded, shut, handlers, published, eventQueue, routing,
          queues, thread, writer>>

Sentinel == [stop |-> TRUE]
Nobody == "nobody"
Nothing == [event |-> "none", todo |-> << >>]

Call(h, e) == [handler |-> h, event |-> e]

ThreadStates ==
    {"none", "idle", "toWrite", "writing", "busy", "stopped"}

Init ==
    /\ phase = "startup"
    /\ loaded = 0
    /\ shut = 0
    /\ handlers = [t \in EVENTS |-> << >>]
    /\ published = << >>
    /\ eventQueue = << >>
    /\ routing = Nothing
    /\ queues = [p \in Plugin |-> << >>]
    /\ thread = [p \in Plugin |-> "none"]
    /\ writer = Nobody

-----------------------------------------------------------------------------
(* Main thread: startup *)

\* register_plugin, then startup(): the plugin's subscriptions are appended,
\* each to the entries of its type.
Startup ==
    /\ phase = "startup"
    /\ loaded < Len(Plugins)
    /\ loaded' = loaded + 1
    /\ handlers' = [t \in EVENTS |->
                      handlers[t] \o Subscriptions[Plugins[loaded + 1]][t]]
    /\ UNCHANGED <<phase, shut, published, eventQueue, routing, queues,
                   thread, writer>>

\* ctrl.run() starts the threads and enters the dispatch loop.
Run ==
    /\ phase = "startup"
    /\ loaded = Len(Plugins)
    /\ phase' = "running"
    /\ thread' = [p \in Plugin |-> "idle"]
    /\ UNCHANGED <<loaded, shut, handlers, published, eventQueue, routing,
                   queues, writer>>

-----------------------------------------------------------------------------
(* emit, from whichever thread, and the read loop *)

Loaded(p) == \E i \in 1 .. loaded : Plugins[i] = p

\* A plugin publishes while its startup() runs, from its polling thread, and
\* from a handler that is not waiting for a device; a device only once run()
\* has started its read thread.
MayPublish(source) ==
    \/ /\ source = Stream
       /\ phase \in {"running", "stopping"}
    \/ /\ source # Stream
       /\ Loaded(source)
       /\ phase # "exited"
       /\ \/ phase = "startup" /\ source = Plugins[loaded]
          \/ source \in Background
          \/ thread[source] \in {"toWrite", "busy"}

Emit(e) ==
    /\ e \notin Range(published)
    /\ MayPublish(Origin[e])
    /\ published' = Append(published, e)
    /\ eventQueue' = Append(eventQueue, e)
    /\ UNCHANGED <<phase, loaded, shut, handlers, routing, queues, thread,
                   writer>>

-----------------------------------------------------------------------------
(* Main thread: the dispatcher *)

\* Takes an event and a snapshot of the handlers of its type.
Dispatch ==
    /\ phase = "running"
    /\ routing = Nothing
    /\ eventQueue # << >>
    /\ eventQueue' = Tail(eventQueue)
    /\ LET e == Head(eventQueue)
       IN  routing' = [event |-> e, todo |-> handlers[EventType[e]]]
    /\ UNCHANGED <<phase, loaded, shut, handlers, published, queues, thread,
                   writer>>

\* Faulty variant: the loop stops at the first handler that takes the event.
Route_FirstOnly ==
    /\ phase = "running"
    /\ routing # Nothing
    /\ IF routing.todo = << >>
       THEN routing' = Nothing /\ UNCHANGED queues
       ELSE LET h == Head(routing.todo)
                e == routing.event
            IN  /\ e \notin h.raises
                /\ IF e \in h.accepts
                   THEN /\ routing' = Nothing
                        /\ queues' = [queues EXCEPT
                                        ![h.plugin] = Append(@, Call(h, e))]
                   ELSE /\ routing' = [routing EXCEPT !.todo = Tail(@)]
                        /\ UNCHANGED queues
    /\ UNCHANGED <<phase, loaded, shut, handlers, published, eventQueue,
                   thread, writer>>

\* One turn of the loop over the snapshot; the loop ends when it is empty.
Route ==
    /\ phase = "running"
    /\ routing # Nothing
    /\ IF routing.todo = << >>
       THEN routing' = Nothing /\ UNCHANGED queues
       ELSE LET h == Head(routing.todo)
                e == routing.event
            IN  /\ e \notin h.raises
                /\ routing' = [routing EXCEPT !.todo = Tail(@)]
                /\ queues' = IF e \in h.accepts
                             THEN [queues EXCEPT
                                     ![h.plugin] = Append(@, Call(h, e))]
                             ELSE queues
    /\ UNCHANGED <<phase, loaded, shut, handlers, published, eventQueue,
                   thread, writer>>

\* Faulty variant: the sentinels are sent but the loop goes on.
LeaveLoop_GoesOn ==
    /\ queues' = [p \in Plugin |-> Append(queues[p], Sentinel)]
    /\ routing' = Nothing
    /\ phase' = phase
    /\ UNCHANGED <<loaded, shut, handlers, published, eventQueue, thread,
                   writer>>

\* run() leaves its loop, abandoning the event in hand: its finally clause
\* appends a sentinel to every queue, and the runner's goes on to shutdown().
LeaveLoop ==
    /\ phase' = "stopping"
    /\ routing' = Nothing
    /\ queues' = [p \in Plugin |-> Append(queues[p], Sentinel)]
    /\ UNCHANGED <<loaded, shut, handlers, published, eventQueue, thread,
                   writer>>

\* Ctrl+C reaches the main thread wherever it is.
Interrupt == phase = "running" /\ LeaveLoop

\* An exception in a filter is not caught in the loop.
FilterRaises ==
    /\ phase = "running"
    /\ routing.todo # << >>
    /\ routing.event \in Head(routing.todo).raises
    /\ LeaveLoop

-----------------------------------------------------------------------------
(* Main thread: the end *)

\* Ctrl+C, or an exception of startup(), before ctrl.run(): no thread exists.
StartupFails ==
    /\ phase = "startup"
    /\ phase' = "stopping"
    /\ UNCHANGED <<loaded, shut, handlers, published, eventQueue, routing,
                   queues, thread, writer>>

\* Ctrl+C while run() starts the threads, before its try: the first n plugins
\* have theirs, and nobody is sent a sentinel.
RunInterrupted ==
    /\ phase = "startup"
    /\ loaded = Len(Plugins)
    /\ phase' = "stopping"
    /\ \E n \in DOMAIN Plugins :
         thread' = [p \in Plugin |->
                      IF p \in {Plugins[i] : i \in 1 .. n} THEN "idle" ELSE "none"]
    /\ UNCHANGED <<loaded, shut, handlers, published, eventQueue, routing,
                   queues, writer>>

\* Faulty variant: the plugins named on the command line are shut down, loaded
\* or not.
Shutdown_Unloaded ==
    /\ phase = "stopping"
    /\ shut < Len(Plugins)
    /\ Plugins[shut + 1] \notin ShutdownRaises
    /\ shut' = shut + 1
    /\ UNCHANGED <<phase, loaded, handlers, published, eventQueue, routing,
                   queues, thread, writer>>

Shutdown ==
    /\ phase = "stopping"
    /\ shut < loaded
    /\ Plugins[shut + 1] \notin ShutdownRaises
    /\ shut' = shut + 1
    /\ UNCHANGED <<phase, loaded, handlers, published, eventQueue, routing,
                   queues, thread, writer>>

\* The process ends once every loaded plugin is shut down, or when one of them
\* raises; the other threads are daemons and end with it.
Exit ==
    /\ phase = "stopping"
    /\ shut < loaded => Plugins[shut + 1] \in ShutdownRaises
    /\ phase' = "exited"
    /\ UNCHANGED <<loaded, shut, handlers, published, eventQueue, routing,
                   queues, thread, writer>>

-----------------------------------------------------------------------------
(* Plugin threads: _plugin_loop *)

Alive == phase \in {"running", "stopping"}

\* The next call; its handler may or may not go on to write to a device.
Get(p) ==
    /\ Alive
    /\ thread[p] = "idle"
    /\ queues[p] # << >>
    /\ queues' = [queues EXCEPT ![p] = Tail(@)]
    /\ IF Head(queues[p]) = Sentinel
       THEN thread' = [thread EXCEPT ![p] = "stopped"]
       ELSE \E s \in {"busy"} \cup {"toWrite" : q \in Writers \cap {p}} :
              thread' = [thread EXCEPT ![p] = s]
    /\ UNCHANGED <<phase, loaded, shut, handlers, published, eventQueue,
                   routing, writer>>

\* install_*: the device is written to under _write_lock.
Write(p) ==
    /\ Alive
    /\ thread[p] = "toWrite"
    /\ writer = Nobody
    /\ writer' = p
    /\ thread' = [thread EXCEPT ![p] = "writing"]
    /\ UNCHANGED <<phase, loaded, shut, handlers, published, eventQueue,
                   routing, queues>>

\* Faulty variant: the lock is not released when the write raises.
Written_Leaks(p) ==
    /\ Alive
    /\ thread[p] = "writing"
    /\ writer' \in {p, Nobody}
    /\ thread' = [thread EXCEPT ![p] = "busy"]
    /\ UNCHANGED <<phase, loaded, shut, handlers, published, eventQueue,
                   routing, queues>>

\* The device answers, or the call raises: the lock is released either way.
Written(p) ==
    /\ Alive
    /\ thread[p] = "writing"
    /\ writer' = Nobody
    /\ thread' = [thread EXCEPT ![p] = "busy"]
    /\ UNCHANGED <<phase, loaded, shut, handlers, published, eventQueue,
                   routing, queues>>

\* The handler returns or raises: the loop goes on either way.
Done(p) ==
    /\ Alive
    /\ thread[p] = "busy"
    /\ thread' = [thread EXCEPT ![p] = "idle"]
    /\ UNCHANGED <<phase, loaded, shut, handlers, published, eventQueue,
                   routing, queues, writer>>

-----------------------------------------------------------------------------

Next ==
    \/ Startup
    \/ Run
    \/ \E e \in Event : Emit(e)
    \/ Dispatch
    \/ Route
    \/ Interrupt
    \/ FilterRaises
    \/ StartupFails
    \/ RunInterrupted
    \/ Shutdown
    \/ Exit
    \/ \E p \in Plugin : Get(p) \/ Write(p) \/ Written(p) \/ Done(p)

Spec == Init /\ [][Next]_vars

\* The scheduler runs every thread; startup() returns promptly, as
\* plugin_base.py:19 and :121 ask, although its calls to a switch have no
\* deadline (P4Session has them wait): a switch that hangs there keeps every
\* plugin waiting, which is not what is claimed here.  The handlers of a plugin
\* return only if it is Responsive, and nothing need ever be published or
\* interrupted.
FairSpec ==
    /\ Spec
    /\ WF_vars(Startup) /\ WF_vars(Run) /\ WF_vars(Dispatch) /\ WF_vars(Route)
    /\ WF_vars(FilterRaises) /\ WF_vars(Shutdown) /\ WF_vars(Exit)
    /\ \A p \in Plugin : WF_vars(Get(p)) /\ WF_vars(Write(p))
    /\ \A p \in Responsive : WF_vars(Written(p)) /\ WF_vars(Done(p))

-----------------------------------------------------------------------------
(* Properties *)

\* The types of the queues, the threads and the lock.
TypeOK ==
    /\ phase \in {"startup", "running", "stopping", "exited"}
    /\ loaded \in 0 .. Len(Plugins) /\ shut \in 0 .. loaded
    /\ handlers \in [EVENTS -> Seq(Handler)]
    /\ published \in Seq(Event)
    /\ eventQueue \in Seq(Event)
    /\ routing.event \in Event \cup {"none"} /\ routing.todo \in Seq(Handler)
    /\ \A p \in Plugin : \A i \in DOMAIN queues[p] :
         \/ queues[p][i] = Sentinel
         \/ /\ queues[p][i].handler \in Handler
            /\ queues[p][i].event \in Event
    /\ thread \in [Plugin -> ThreadStates]
    /\ writer \in Plugin \cup {Nobody}

\* A plugin's sentinel is the last thing in its queue: no call is routed to a
\* thread that has been told to stop, and a thread that has stopped has
\* nothing left to do.
SentinelLast ==
    \A p \in Plugin :
        /\ \A i \in DOMAIN queues[p] :
             queues[p][i] = Sentinel => i = Len(queues[p])
        /\ thread[p] = "stopped" => queues[p] = << >>

-----------------------------------------------------------------------------

\* The subscriptions of plugin p that event e is for.
Wanted(p, e) ==
    {h.nth : h \in {h \in Range(Subscriptions[p][EventType[e]]) : e \in h.accepts}}

\* What the bus still owes plugin p: the calls in its queue, what the
\* dispatcher has in hand, and what is in the event queue.
Queued(p) ==
    {<<c.event, c.handler.nth>> : c \in Range(queues[p]) \ {Sentinel}}

InHand(p) ==
    {<<routing.event, h.nth>> :
        h \in {h \in Range(routing.todo) :
                 h.plugin = p /\ routing.event \in h.accepts}}

Ahead(p) == UNION {{e} \X Wanted(p, e) : e \in Range(eventQueue)}

Due(p) ==
    CASE phase = "exited"   -> {}
      [] phase = "stopping" -> Queued(p)
      [] OTHER              -> Queued(p) \cup InHand(p) \cup Ahead(p)

Promise == INSTANCE Mailboxes WITH
    Wants    <- Wanted,
    open     <- phase \in {"startup", "running"},
    due      <- [p \in Plugin |-> Due(p)],
    handling <- {p \in Plugin : thread[p] \in {"toWrite", "writing", "busy"}}

\* Until the bus ends no event is lost, duplicated or reordered on the way to
\* a plugin, including those published before the plugin subscribed, and a
\* plugin handles one call at a time.
RefinesMailboxes == Promise!Spec

\* A device that does not answer a write: gRPC is given no deadline.
WriteHangs == \E p \in Plugin \ Responsive : writer = p /\ thread[p] = "writing"

\* A plugin whose handlers return is given everything it is due, although
\* another plugin's handler never returns.  Of a device that never answers
\* only the plugins that write themselves feel the effect.
Drained ==
    \A p \in Responsive :
        \/ Due(p) # {} ~> Due(p) = {}
        \/ p \in Writers /\ <>[]WriteHangs

=============================================================================
