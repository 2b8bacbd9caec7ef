# A verification of CNF-Plugin-Manager

The repository is the control plane of a small SDN lab: a controller process
that loads plugins and speaks P4Runtime to three switches, the P4 programs of
the switches, and containerised network functions (CNFs) that the controller
watches over HTTP.  This directory holds TLA+ specifications of its parts, TLC
runs on small instances and TLAPS proofs for every instance.

## The system

| component | source | state | operations | depends on |
|---|---|---|---|---|
| runner and event bus | `controller/run_controller.py`, `controller/controller.py` | subscriptions, event queue, a queue and a thread per plugin, write lock | register, subscribe, emit, read loops, dispatch, plugin loops, install, Ctrl+C, shutdown | plugins (callbacks), switches (gRPC) |
| plugin interface | `controller/plugin_base.py` | the names of the events | the life cycle every plugin follows | — |
| self-learning plugin | `controller/plugins/self_learning.py` | `_learned` per switch | `packet_in`, `state_reset`, `entry_removed` | bus, L2 switches |
| L2 switch | `p4/l2switch.p4` | `sMacLookup`, `dMacLookup` | forward or flood; clone to the CPU | — |
| CNF controller plugin | `controller/plugins/cnf_control.py` | `_down`, `_stop` | poll (health, telemetry, reduce the lease time), `mac_learned`, `cnf_config` | bus, CNFs (HTTP) |
| REST API of a CNF | `cNF/cnf_api.py` | none | health, telemetry, get and put configuration, one thread per request | the CNF's functions |
| DHCP server CNF | `cNF/dhcp_server/` | pool, leases, offers, configuration | DISCOVER, REQUEST, PUT configuration | REST API |
| ARP proxy CNF | `cNF/arp_proxy/` | table, counters, configuration | ARP request, PUT configuration | REST API |
| stateful firewall | `p4/d2_fwd_firewall.p4`, `controller/plugins/firewall_app.py` | two Bloom filters, counters, rules | route, record, admit; install rules, poll counters | bus, switch d2 |
| P4Runtime library | `controller/p4runtime_lib/` | the list of connections, a queue of requests and a stream per connection | open, arbitrate, push a pipeline, write, close; encode values | gRPC, switches |

How they interact.  A frame with an unknown source is cloned by an L2 switch,
read by the controller's read loop, put into the event queue, routed by the
main thread into the queue of `self_learning`, whose thread installs two rules
and publishes `mac_learned`; `cnf_control` hears that and asks the DHCP server
for its telemetry.  `cnf_control` also polls every CNF on a thread of its own
and publishes `cnf_down`, `cnf_up` and `cnf_telemetry`.

What is hard about it: threads that meet in queues, locks and a shared
dictionary; decisions taken before a reply is built from state that has changed
since; rules written one by one, with failures in between; HTTP requests that
are given up and still served; CNFs and switches that lose their state behind
the controller's back; an interrupt that may come at any line.  Each such place
is listed, with its line, under `hazards` in `PROJECT.json`.

## The modules

| module | models | abstract specification | checked by | proofs |
|---|---|---|---|---|
| `DhcpServer` | the DHCP server | `LeasePool` | `MCDhcpServer` | `DhcpServer_proofs` |
| `DhcpNet` (extends `DhcpServer`) | the server with its clients, lossy links and restarts | — | `MCDhcpNet` | `DhcpNet_proofs` |
| `ArpProxy` | the ARP proxy and its REST threads | `ConfigRegister` | `MCArpProxy` | `ArpProxy_proofs` |
| `EventBus` | runner, bus, plugin threads, write lock | `Mailboxes` | `MCEventBus` | `EventBus_proofs` |
| `P4Session` (extends `Helper`, `Convert`) | the sessions with the switches, from connect to shutdown, and the entries written over them | two's complement, in `EntryAsAsked` | `MCP4Session` | `P4Session_proofs` |
| `SelfLearning` | the plugin and the tables of its switches | — | `MCSelfLearning` | `SelfLearning_proofs` |
| `CnfControl` | the plugin's two threads and the CNFs | — | `MCCnfControl` | `CnfControl_proofs` |
| `Firewall` | the P4 pipeline and the installation of its rules | — | `MCFirewall` | `Firewall_proofs` |

Definitions keep the source's names (`get_next_ip` becomes `NextIp`, the rest
is spelt as in the code); `map` in `PROJECT.json` gives the lines each one
stands for.  A definition called *Name_Variant* and marked "Faulty variant" is
a plausible bug, used to show that a property notices it.

### DhcpServer

State: `leases` and `offered_pool` (a function from clients to addresses, with
`NoIp` for "no entry"), the fields of `config` that PUT can change, and two
variables that split `handle_dhcp` in two: `handler`, the reply it has decided
on, and `sent`, the packet that left in the last step.  `Discover`, `Confirm`
and `Refuse` are the part of `handle_dhcp` that reads and writes the tables;
`SendReply` and `ReplyFails` are the part that builds the packet from the live
configuration and sends it.  `set_config` runs on the REST thread and may come
between the two.  The sniff loop handles one packet at a time, so nothing else
interleaves.  Clients are an open environment: every DISCOVER and every REQUEST
for every address is possible at any time, which covers lost, repeated and
reordered packets.  Abstracted: addresses are numbers; the request counter, the
time stamp and the expiry of a lease are left out because nothing reads them
back; of a lease time only whether it can be added to a time and packed into an
option.

`LeasePool` is what the server promises: a client is promised an open or its own
locked address, nobody else's; a lease is one of the promises it had; a promise
ends only when its client confirms one or is promised another.

The reservations are assumed not to give one address to two clients
(`ReservationsAssumption`): with such a file the server offers the address to
both, and the repository's file has none.

PUT can move the gateway, while the pool keeps the addresses that were reserved
at the start: the server may then offer its own router's address, although
`dhcp_server.yaml:16` says that the router is always reserved.  The model has
this behaviour; no property forbids it.

### DhcpNet

`DhcpServer` takes any message at any time; here the messages are those of
clients with a state.  The clients are `dhclient`, which the repository only
uses: `client` holds a client's state, its address, the identifier of its round
of messages and, as history, which incarnation of the server acknowledged the
address.  `dhclient` draws an identifier of 32 bits at random for each round;
the model gives it one that no message under way bears (`FreshXids`), and a
round waits when there is none.  Frames travel in two FIFO links per client.  `ServerReceive` is
`handle_dhcp` up to its reply (`Discover` and `Request` of `DhcpServer`),
`ServerReply` the rest.  `Restart` is the process started anew: `main` builds
the pool from the file, and there is no record of leases.

Faults are counted (`MaxFaults`): a frame lost, a client that loses patience
although an answer is on its way, a client that starts again.  A client sends
again, or starts over, without counting when nothing of its round is left
anywhere.

What holds: a client uses only what the server has on record for it, in whatever
order rounds overlap (`UsedIsLeased`); two clients use one address only across a
restart (`NoAddressConflict`), and only until the older lease is renewed, which
the server refuses (`ConflictsEnd`); and nobody is left without an address
(`EventuallyBound`).

### ArpProxy

State: the four fields of `_state`, the lock, where each thread stands, what it
has in hand, how many replies have been sent, and whether the process is up.
Each `with _lock` touches two fields and is two steps, so that the lock is
there for a reason: without it packets would be answered with the MAC of one
configuration on the interface of another.  `_apply_config` may raise between
its two fields (an entry without `ip` or `mac`): the interface is changed, the
table is not, Flask answers 500 and the lock is released.

A PUT that names an interface the host does not have is accepted, and the next
reply raises out of `sendp`; nothing catches it, `sniff` ends, and the REST
threads, daemons, with it (`SendFails`).  A PUT that changes the interface moves
the replies only; the proxy goes on listening where it started, which is why
the model has no second place for it.

`ConfigRegister` is what the configuration promises its readers: it is one
register, changed at one instant by a PUT.  A PUT answers with what is in force
after it, which another PUT may have set by then.

### P4Session

State: where the main thread stands in the `startup()` of the plugins; for each
switch its queue of requests, the state of its stream and what has arrived on it;
`connections` of `switch.py` and `devices` of the controller, which differ by
the sessions that did not get through the arbitration; the events each read
loop has published.  Switches answer, send and end their streams as they like.
Opening a session is three steps, between which Ctrl+C may come: the constructor
starts the stream (`Open`), puts the connection into the list (`Enlist`), and
`MasterArbitrationUpdate` queues its request.

What the code does and no property forbids:

- `connect`, the push of a pipeline and a write wait for the switch without a
  deadline, so that one switch may keep the startup of all plugins waiting.  In
  the model each of the three may wait for ever, and `Delivered` excepts a main
  thread that does.
- Ctrl+C between the lines `switch.py:46` and `:48` leaves a session that is in no
  list and that nobody closes; `AllClosed` excepts that one session.
- `shutdown()` of the plugins comes before `ctrl.shutdown()`.  If one raises, or
  Ctrl+C comes a second time, the process ends with sessions open (`Abort`).
  `AllClosed` speaks of the processes in which `ctrl.shutdown()` returns.
- `connect` registers a device whatever the answer says, and also if the stream
  ended in good order without one.
- A value that does not fit its field raises an exception that no plugin catches,
  so that the controller comes to its end.

`Convert` is `convert.py` on sequences of bytes, with recursive functions in
place of `2 **` and `int(..., 16)`; `Helper` is what `helper.py` makes of the
fields of an entry.

### EventBus

State: the phase of the main thread, how many plugins are loaded and shut down,
`handlers` (from a type of event to its entries, in the order of subscription,
as the dictionary has it), the event queue, `routing` (the event the dispatcher
has in hand and the handlers it has still to consult), a queue and a thread
state per plugin, the holder of the write lock, and as history the events
published, in order.  One step per queue operation, so
that Ctrl+C (`Interrupt`) and a filter that raises fall between any two of
them.  Events are occurrences, each published at most once, so that loss,
duplication and reordering can be told apart.

`Mailboxes` is what the bus promises: an event that is published while the bus
is open becomes due to each plugin that wants it, once for each of its
subscriptions that passes it, and leaves only by being handled, one call at a
time.  What is due is a set of calls; the order in which they are handled is
that of publication and, of one event, that of subscription.  The refinement mapping reads what is due
from three places: the plugin's queue, the dispatcher's hand and the event
queue; a plugin is handling while its thread is inside a handler.

`Drained` is the promise to one plugin: as long as its own handlers return, it is
given all it is due, whatever the others do.  A gRPC write has no deadline, so a
device that never answers keeps the write lock; once the startup is over only
plugins that write themselves are held up by it, and the property says so.
During the startup the calls are made by the main thread, and a device that does
not answer holds up everybody: `Drained` assumes that every `startup()` returns.

Assumed: plugins have different names (`PluginsAssumption`).  An event published before a plugin
has subscribed is still routed to it, because the dispatcher starts when all
have been loaded (that is proved, not assumed).

### SelfLearning

State: the two tables of each switch, `_learned`, the clones each switch has sent
that its read thread has not handed on, the plugin's events in order (`EventBus`
justifies that), where `on_packet_in` stands between its two
writes, and losses nobody has reported yet.  Clones and the news of losses come
by different threads: a clone may be handed on (`Deliver`) before or after the
news of a loss that is younger than it.  The repository has handlers for
`state_reset` and `entry_removed` but nobody that publishes them; `Notice` is
that external publisher, arbitrarily late.  A host may be plugged in elsewhere
(`Move`), which nothing tells the plugin.

The plugin does not recover from three things while a host's `sMacLookup` rule is
there, because that rule suppresses the clones, and a clone that is still on its
way meets ALREADY_EXISTS: a `dMacLookup` rule that is lost alone, one whose write
fails, and a host that has moved.  `halved` and `moved` remember where that has
happened; `LearnedIsInstalled` and `EventuallyUnicast` except just these, and
from every other loss flooding ends.  On a real switch the code of the failed
write may be UNKNOWN, with ALREADY_EXISTS in its details
(`p4runtime_lib/error_utils.py:42`); the model takes what the plugin tests.

### CnfControl

State: which CNFs are up, the DHCP server's leases, the configuration in force
at each CNF and the PUTs on their way to one; where the polling thread is, and
`_down`; the events and the current wait of the event thread.  A CNF may crash
between any two requests, and restarts with nothing.  A PUT is put on its way
and its caller goes on, whether it was answered or given up; it is served later,
in any order.  A request may remain unanswered although its CNF is up
(`MaxTimeouts`).

### Firewall

State: the two filters, the counters and how many rules are installed, with
three history variables for the properties: the flows recorded, the packets
that left and were lost, and whether a packet came before the last rule.
`Receive` is the whole ingress control for one packet (the software switch runs
its ingress on one thread).  The hashes are constants, any functions.

Of the parser the model has what decides a packet's way.  It takes every UDP
packet to port 67 or 68 for DHCP that is long enough for a BOOTP header
(`IsDhcp`), whoever sent it.  A host behind `LAN_PORT` that uses such a port for
something else is recorded, and its short replies are let in; a long one is
handled as DHCP, which `RepliesAdmitted` says.

## The runs

| run | bounds | what it shows |
|---|---|---|
| `dhcp_tight` | 4 clients, 2 open addresses, 4 reservations | exhaustion, a client with two reservations, a reservation of the server's own address, one in capitals; every interleaving of PUT with the two halves of a reply; `LeasePool` is implemented |
| `dhcp_net` | 2 clients, 5 open addresses, 2 faults of one of the clients, 1 restart | an address more than two clients can pin, so `NeverExhausted` is not vacuous; two faults suffice for a late reply of an earlier round behind a lost one, and three identifiers then for a round that finds a fresh one; one restart separates two incarnations |
| `arp_proxy` | 2 REST threads, 2 replies, 5 bodies | two concurrent PUTs of both fields, of one, of a malformed table, of an unusable interface |
| `bus` | 3 plugins, 4 events | two packets, one of them wanted by a plugin that subscribes to packets twice; a `mac_learned` published by a handler and a report from a polling thread; a plugin that may hang, also in a write; a filter and a `shutdown()` that raise |
| `sessions` | 2 switches, 2 packets, 1 notice each, 1 stream that ends, 17 values at the edges of their fields | packets on the first session while the second is opened; a session that never got through, next to one that did |
| `learning_losses` | 1 switch, 2 hosts, 2 losses, 1 write that fails, 1 move, 2 clones waiting | a loss before, between and after the two writes, and again before the news of the first has come; a clone that is overtaken by the news of a later loss; a host that moves while its clone waits |
| `learning_steady` | 2 switches, 2 hosts, tables of one entry | duplicate clones, full tables |
| `cnf_control` | 2 CNFs, 2 crashes, 1 time-out, 1 event, 2 PUTs on their way | a crash, a recovery and a second crash of either CNF; a PUT of each thread on its way at the same time |
| `firewall` | 3 addresses, UDP from and to port 68, short and long, 3 hash positions, 7 rules, 3 packets | flow, reply and a colliding third; a reply that is parsed as DHCP; partial installations |

The properties the runs check, component by component; each is stated in words
above its definition.  Most modules' `TypeOK` is checked besides.

| run | properties |
|---|---|
| `dhcp_tight` | no two clients have a claim to one address (`ClaimsExclusive`); what is sent to a client is on record for it alone (`PromiseBacked`); a reserved address goes to nobody else (`ReservationsLocked`), the server's own and the router's of the file to nobody at all (`ReservedNeverLeased`); `RefinesLeasePool` |
| `dhcp_net` | `UsedIsLeased`, `NoAddressConflict`, `NeverExhausted`; in the end `EventuallyBound` and `ConflictsEnd` |
| `bus` | `SentinelLast`, `RefinesMailboxes`, `Drained` |
| `sessions` | the events of a device are what it sent, in order and complete (`EventsComplete`), none is open after `ctrl.shutdown()` (`AllClosed`), `EntryAsAsked`; in the end `Delivered` |
| `learning_losses` | `LearnedIsInstalled`; in the end `EventuallyUnicast` |
| `learning_steady` | `NoDuplicateInsert`; `ForwardsToHost`, which is also proved, with losses and moves (`RulesPointHome`) |
| `cnf_control` | `NewsConsistent`; in the end `HealthConverges`, `PressureRelieved`, `PollingEnds` |
| `firewall` | `RepliesAdmitted`, `OnlySolicited`, `CountersTruthful` |
| `arp_proxy` | `ReportsExact`, `RefinesRegister`; in the end `EveryoneServed` |

Three more runs are expected to fail; each checks one sentence of the
repository's own text, and `findings` in `PROJECT.json` quotes it:
`dhcp_initreboot` (`InitRebootServed`: a client that skips DISCOVER is refused a free address),
`learning_half` (`LearnedForwards`: a MAC is remembered without its forwarding rule) and
`cnf_correlate` (`MacCorrelated`: the DHCP lease of a learned MAC is never found).

Why small instances are enough where there is no proof: the plugins of the bus
differ only in what they subscribe to, the hosts of a switch do not interact
except through the size of a table, and the CNFs only through whose turn it is.

### Fairness

- `EventBus`: the operating system runs every thread, so the dispatcher and
  every plugin's loop make progress; `startup()` returns, as
  `plugin_base.py:19` asks of a plugin, though a switch could keep it; a handler returns, and a device answers,
  only for the plugins in `Responsive`.  Nothing need ever be published and
  Ctrl+C need never come.
- `DhcpNet`: the sniff loop runs and replies that are not lost arrive; clients
  keep their timers.  Strong fairness of `ServerReceive`: the server reads one
  socket in order, so that no client's frame is overtaken for ever.  Losses,
  restarts and impatience are possible, never required.
- `ArpProxy`: each thread runs.  Strong fairness, because every critical section
  is short and a waiter for the lock is given it in the end.  Nothing need
  arrive.
- `P4Session`: the read loops run, and the main thread in what it does by itself
  or with an answer in hand (`OwnStep`).  A switch need not answer or send, a
  push or a write need not return (`CallStep`), and the end of the process need
  not come.
- `SelfLearning`: the plugin's thread and the read threads run, and reported
  losses arrive.  Every
  host keeps sending; strong fairness, because other hosts' frames may take the
  room in the bounded inbox.
- `CnfControl`: each thread makes progress because every request is answered or
  times out; a CNF serves what has reached it unless it crashes.  A CNF need
  not come back.
- The safety runs assume none.

Deadlock checking is off in the runs of `EventBus` and `P4Session` (the process
may exit), `ArpProxy` (its process may end), `DhcpNet`, `SelfLearning`,
`CnfControl` and `Firewall` (counted inputs may be used up); the DHCP server
alone never stops and its runs check it.

## The proofs

TLAPS proves for every value of the constants, under the assumptions the
modules name:

**DhcpServer** (`DhcpServer_proofs`).  `ClaimsExclusive` is not inductive as it
stands: that a DISCOVER takes an address nobody claims is clear for
`get_next_ip`, but a client with a reservation is offered its address unseen.
`IInv` adds `ClaimsWithin` (a client with a reservation claims nothing else, any
other only addresses of the pool, and the pool has no reserved one), and that
the reply in hand and the one on the wire repeat what is on record, which is
what PUT could disturb.  From `IInv` follow `Exclusive`, `Locked`,
`NeverReserved`, `WireBacked` and `TypeCorrect`; `Unexhausted` needs a counting
argument besides (each client pins at most two addresses); `Refinement` maps
every step to a step of `LeasePool` or a stutter.

**DhcpNet** (`DhcpNet_proofs`).  That a client uses what the server has on
record must survive whatever is still under way.  `NetInv` therefore speaks of
messages: in the frames of a client those of its present round come last
(`Ordered`); within a round a client asks for one address and is granted that
one (`SameAddress`); and once it has been granted, no request under way asks for
another (`Settled`), so that nothing can move the lease under the client
(`OnRecord`).  `Promises` collects the incarnations of the server that have
acknowledged an address a client uses, or will use when the reply arrives;
`NoClash` says that one incarnation never promises two clients one address, and
rests on `Exclusive` of the server alone, which the network inherits.  From
`NetInv` follow `AddressOnRecord`, `NoConflict` and `NetUnexhausted`, for any
number of clients, faults and restarts.  Assumed: identifiers are fresh, and the
pool is roomy (`RoomyAssumption`).

**EventBus** (`EventBus_proofs`).  `SentinelsLast`: no call is ever queued
behind a sentinel and a stopped thread has nothing left.  The strengthening ties
the queues to the phase: while the bus is open no queue holds a sentinel and no
thread has stopped, and no step appends to a queue once it is closed.

`OneMailboxEach`: the bus implements `Mailboxes`.  The inductive invariant
`BusInv` says that what a plugin is due lies in three places in a row, each
sorted and wholly before the next: its queue, the dispatcher's hand, the event
queue (`QueueOK`, `HandOK`, `EventQueueOK`).  It needs that `handlers` holds
exactly what the loaded plugins have subscribed, in their order (`HandlersOK`),
and that nothing is routed before all are loaded (`PhaseOK`), or an early event
would miss a late subscriber.  Then the head of a queue is the first call due,
which is `Handle`; `Dispatch` and `Route` move calls from one place to the next,
which the mailbox does not see; and Ctrl+C keeps the first place and drops the
other two, which is `Close`.  `TypeCorrect` is a part of the invariant.

**Firewall** (`Firewall_proofs`).  The filters always hold exactly the positions
of the recorded flows (`FiltersMatch`); from that follow `NoFalseNegative` and
`Solicited`, for any hashes and any rules.  `Truthful` needs that the rules of
the router and of `internalMacLookup` belong together, for the part that says
the counters are exact.  `FirewallTypes` comes
with them.

**ArpProxy** (`ArpProxy_proofs`).  `Mutex`: a thread is in the second half of a
critical section exactly if it holds the lock.  With it `Counters` (the counters
lag behind the replies by what the sniffer has in hand) and `Read` (what a
thread has read inside the lock is still so) are inductive, and `Reports` and
`TypeCorrect` follow.  `OneRegister`: the proxy implements `ConfigRegister`.
A PUT maps to its write when it enters the lock: from then on the table it is
about to store counts as in force (`TableInForce`), which nobody can notice
before it has stored it.  A read maps to one step at the second half of its critical section,
and the first half is a stutter, which is right because what a thread has in
hand there is still so (`Hands`).  A PUT whose `_apply_config` raises changes
the interface alone (`WriteFails`).  Assumed: the bodies
are of the shapes `AllBodies` lists.

**P4Session** (`P4Session_proofs`).  `NoneLeftOpen`: the strengthening is that a
switch with a stream is in `connections`, unless it is the one whose constructor
runs or was interrupted (`ListedOK`); that a closed one was sent the end of its
requests last and `ctrl.shutdown()` returns when all that are listed are closed
(`ClosedOK`); and that the device being set up has a session (`CurrentOK`).
`SessionTypes` falls out of it.

`NothingLeftOut` (`EventsComplete`): the events of a device and what is still
on its stream are together what it has sent, ascending and without a gap
(`DeviceOK`); the danger is `connect`, which takes one message off the stream and
drops it.  That this is the answer to the arbitration, and no packet, is
`FirstIsAnswer`: a stream brings nothing before its answer (`Silent`), which does
not come before it is asked for, and no
read loop is there to take the answer first, because a session is opened once
and read only after all are (`StartupOK`).

`AsAsked` (`EntryAsAsked`): what is sent is an entry of the plugins or the files,
built whole by the helper, or nothing (`Built`); the rest is arithmetic.
`NumberComesBack` says at every width that the bytes of a number that passes the
two range checks decode to it, or to its two's complement: the first `i` bytes
decode to the number divided by the range of the others (`DecodesBack`).  That
is an induction over the bytes, and so are the laws of `Pow2`.  The library's
induction theorem takes an operator, which the provers cannot instantiate; its
least-number principle does not, and gives induction for a set (`Least`,
`Induction`).  The same argument shows that the recursive functions are what
their equations say (`Pow2Defined`).  `Pow2` is there because the provers know
no law of TLA+'s own power.  Assumed: widths are positive, as P4Info has them,
and what is given as a number is an integer (`EntriesAssumption`).

**SelfLearning** (`SelfLearning_proofs`).  `RulesPointHome`: a rule is made from
an event that may have waited, so `ForwardsToHost` needs that every `packet_in`
in the inbox and the call between its writes tell where their host is
(`InboxTruthful`, `HandlerTruthful`); a move puts its host into `moved`.
`LearningTypes` comes with it.

`RememberedIsInstalled` (`LearnedIsInstalled`), whatever the switches lose,
whichever writes fail, and in whatever order clones and news arrive.  A loss of
the `sMacLookup` rule between the two writes is news to come
(`WritesBeforeNews`), so that the plugin, which remembers the host after the
second, forgets it again.  And a host with its `sMacLookup` rule and no
forwarding rule is one whose first rule has just been written, or one of
`halved` (`HalvedOrWriting`): that is where a clone meets ALREADY_EXISTS and the
plugin remembers a host it has not installed.

`NeverTwice` (`NoDuplicateInsert`), for tables of any size, as long as nothing is
lost and no write fails but for want of room (`NothingFails`): `_learned` is
exactly what `dMacLookup` has, and `sMacLookup` that and the host between its
writes (`InStep`), so that the two tables fill up together and the second write
never finds less room than the first.  With losses `NoDuplicateInsert` is false, as the code
itself says: the branch for a rule that already exists is there for that.

**CnfControl** (`CnfControl_proofs`).  `ConsistentNews` is a property of steps:
`_down` is what the subscribers have been told, whatever the CNFs did since, and
a CNF is asked for telemetry only when it has been marked up in the same turn
(`DownIsNews`).  `TypeCorrect` is the rest of the invariant.

Only model-checked: the liveness properties (`Drained`, `Delivered`,
`EventuallyBound`, `ConflictsEnd`, `EventuallyUnicast`, `HealthConverges`,
`PressureRelieved`, `PollingEnds`, `EveryoneServed`), because fairness and
ENABLED are beyond the prover.  Every safety property of a passing run is a
theorem.

## Not modelled

- `tools/` is nine tenths of the repository's lines: Thrift bindings generated
  for BMv2 and its vendored command-line tools, which the controller does not
  load.  The models cover the lab's own programs instead, so the share of all
  lines they cover stays small.
- Of `p4runtime_lib`: the Read calls, which change nothing; multicast groups and
  clone sessions, which are written once, at startup, and can only succeed or
  fail; the update type of a write; dry runs; IPv6, which no P4 program of the
  repository has; the translation of messages back for printing; files.
- The status of an arbitration: the repository starts one controller.
- `get_telemetry` of the DHCP server copies the leases under another lock than
  the one they are written under; the copy of a dictionary is atomic in CPython.
- What `shutdown()` of a plugin releases while its thread is in a handler: no
  plugin of the repository has anything to release.
- The TTL of a forwarded packet, which wraps at zero, and its rewritten MACs;
  nothing in the repository says what they should be.
- `d2_fwd_firewall_nat.p4` is an exercise scaffold, `core.p4` and `v1model.p4`
  are the P4 library, `mininet/` is the test bed (of it the lossy links are
  modelled), `build/` and `logs/` are outputs.

## Plan

1. A composition of `EventBus` with `SelfLearning`: from the clone to the rule.
2. The gateway that PUT moves (`DhcpServer`): what the server still promises
   about it while the pool keeps the one of the file.
