------------------------------- MODULE ArpProxy -------------------------------
(***************************************************************************)
(* The ARP proxy CNF (cNF/arp_proxy/arp_proxy.py) behind its REST API      *)
(* (cNF/cnf_api.py).                                                       *)
(*                                                                         *)
(* scapy's sniff loop handles one packet after another; Flask runs every   *)
(* request on a thread of its own.  They share _state under one lock.      *)
(* Every critical section of the code touches two fields, one after the    *)
(* other, and is two steps here: the first takes the lock, the second      *)
(* releases it, also when it raises.                                       *)
(*                                                                         *)
(* Requests that change nothing are stuttering steps: /health, a body that *)
(* is not JSON or not an object, a PUT with an unknown field, an ARP       *)
(* packet that is not a request.                                           *)
(***************************************************************************)
EXTENDS Integers

CONSTANTS
    Worker,          \* threads of the REST API
    Sniffer,         \* the main thread, in sniff
    Nobody,
    Ip,
    Interface,
    Usable,          \* interfaces sendp can send on
    Mac,
    NoMac,           \* an address without an entry
    Malformed,       \* 'entries' with an element that has no ip or no mac
    Bodies,          \* the bodies of PUT /config
    FirstInterface, FirstTable,    \* arp_proxy.yaml
    MaxReplies

Thread == Worker \cup {Sniffer}

Tables == [Ip -> Mac \cup {NoMac}]

\* The 'entries' of a request are given by the table they amount to.
AllBodies ==
    LET values == Tables \cup {Malformed}
    IN  [interface : Interface] \cup [table : values]
          \cup [interface : Interface, table : values]

ASSUME BodiesAssumption == Bodies \subseteq AllBodies

ASSUME FileAssumption ==
    /\ Usable \subseteq Interface
    /\ FirstInterface \in Usable
    /\ FirstTable \in Tables

ASSUME ThreadsAssumption == Sniffer \notin Worker /\ Nobody \notin Thread

ASSUME BoundAssumption == MaxReplies \in Nat

VARIABLES
    interface, table, requests, total,    \* the fields of _state
    lock,                                 \* its holder, or Nobody
    at,          \* where each thread stands
    mine,        \* what it has in hand: a body, what it has read
    replies,     \* replies sent
    up           \* the process runs

state == <<interface, table, requests, total>>
vars == <<state, lock, at, mine, replies, up>>

Nothing == [ip |-> "none"]

Init ==
    /\ interface = FirstInterface
    /\ table = FirstTable
    /\ requests = 0
    /\ total = 0
    /\ lock = Nobody
    /\ at = [t \in Thread |-> "idle"]
    /\ mine = [t \in Thread |-> Nothing]
    /\ replies = 0
    /\ up = TRUE

Goto(t, place, hand) ==
    /\ at' = [at EXCEPT ![t] = place]
    /\ mine' = [mine EXCEPT ![t] = hand]

\* Faulty variant: every function has a lock of its own.
Acquire_Own(t) == lock' = t

Acquire(t) == lock = Nobody /\ lock' = t

Release == lock' = Nobody

-----------------------------------------------------------------------------
(* What arrives *)

ArpRequest(ip) ==
    /\ up /\ at[Sniffer] = "idle"
    /\ replies < MaxReplies
    /\ Goto(Sniffer, "lookup", [ip |-> ip])
    /\ UNCHANGED <<state, lock, replies, up>>

Put(w, body) ==
    /\ up /\ at[w] = "idle"
    /\ Goto(w, "apply", body)
    /\ UNCHANGED <<state, lock, replies, up>>

GetConfig(w) ==
    /\ up /\ at[w] = "idle"
    /\ Goto(w, "read", [written |-> FALSE])
    /\ UNCHANGED <<state, lock, replies, up>>

GetTelemetry(w) ==
    /\ up /\ at[w] = "idle"
    /\ Goto(w, "report", Nothing)
    /\ UNCHANGED <<state, lock, replies, up>>

-----------------------------------------------------------------------------
(* handle_arp_request *)

LookupMac ==
    /\ at[Sniffer] = "lookup"
    /\ Acquire(Sniffer)
    /\ LET ip == mine[Sniffer].ip
       IN  Goto(Sniffer, "lookup2", [ip |-> ip, mac |-> table[ip]])
    /\ UNCHANGED <<state, replies, up>>

LookupInterface ==
    /\ at[Sniffer] = "lookup2"
    /\ Release
    /\ LET known == mine[Sniffer]
       IN  Goto(Sniffer, "send", [ip |-> known.ip, mac |-> known.mac,
                                  interface |-> interface])
    /\ UNCHANGED <<state, replies, up>>

NotServed ==
    /\ at[Sniffer] = "send"
    /\ mine[Sniffer].mac = NoMac
    /\ Goto(Sniffer, "idle", Nothing)
    /\ UNCHANGED <<state, lock, replies, up>>

Send ==
    /\ at[Sniffer] = "send"
    /\ mine[Sniffer].mac # NoMac
    /\ mine[Sniffer].interface \in Usable
    /\ replies' = replies + 1
    /\ Goto(Sniffer, "count", Nothing)
    /\ UNCHANGED <<state, lock, up>>

\* sendp raises; nothing catches it, sniff ends and with it the process.
SendFails ==
    /\ at[Sniffer] = "send"
    /\ mine[Sniffer].mac # NoMac
    /\ mine[Sniffer].interface \notin Usable
    /\ up' = FALSE
    /\ UNCHANGED <<state, lock, at, mine, replies>>

CountRequest ==
    /\ at[Sniffer] = "count"
    /\ Acquire(Sniffer)
    /\ requests' = requests + 1
    /\ Goto(Sniffer, "count2", Nothing)
    /\ UNCHANGED <<interface, table, total, replies, up>>

\* Every reply takes one unit of time, so that the sum tells how many.
CountTime ==
    /\ at[Sniffer] = "count2"
    /\ Release
    /\ total' = total + 1
    /\ Goto(Sniffer, "idle", Nothing)
    /\ UNCHANGED <<interface, table, requests, replies, up>>

SnifferStep ==
    \/ LookupMac \/ LookupInterface \/ NotServed \/ Send \/ SendFails
    \/ CountRequest \/ CountTime

-----------------------------------------------------------------------------
(* put_config: _apply_config, then get_config as for a GET *)

ApplyInterface(w) ==
    /\ at[w] = "apply"
    /\ Acquire(w)
    /\ interface' = IF "interface" \in DOMAIN mine[w] THEN mine[w].interface ELSE interface
    /\ Goto(w, "apply2", mine[w])
    /\ UNCHANGED <<table, requests, total, replies, up>>

\* Faulty variant: the entries are stored as they are.
ApplyTable_Unchecked(w) ==
    /\ at[w] = "apply2"
    /\ Release
    /\ table' = IF "table" \in DOMAIN mine[w] THEN mine[w].table ELSE table
    /\ Goto(w, "read", [written |-> TRUE])
    /\ UNCHANGED <<interface, requests, total, replies, up>>

IsMalformed(body) == "table" \in DOMAIN body /\ body.table = Malformed

ApplyTable(w) ==
    /\ at[w] = "apply2"
    /\ Release
    /\ ~ IsMalformed(mine[w])
    /\ table' = IF "table" \in DOMAIN mine[w] THEN mine[w].table ELSE table
    /\ Goto(w, "read", [written |-> TRUE])
    /\ UNCHANGED <<interface, requests, total, replies, up>>

\* Faulty variant: acquire() and release() instead of "with".
ApplyRaises_Locked(w) ==
    /\ at[w] = "apply2"
    /\ IsMalformed(mine[w])
    /\ Goto(w, "idle", Nothing)
    /\ UNCHANGED <<state, lock, replies, up>>

\* The interface has been set, the table has not; Flask answers 500.
ApplyRaises(w) ==
    /\ at[w] = "apply2"
    /\ Release
    /\ IsMalformed(mine[w])
    /\ Goto(w, "idle", Nothing)
    /\ UNCHANGED <<state, replies, up>>

(* get_config *)

ReadInterface(w) ==
    /\ at[w] = "read"
    /\ Acquire(w)
    /\ Goto(w, "read2", [written |-> mine[w].written, interface |-> interface])
    /\ UNCHANGED <<state, replies, up>>

ReadTable(w) ==
    /\ at[w] = "read2"
    /\ Release
    /\ Goto(w, "answer", [interface |-> mine[w].interface, table |-> table])
    /\ UNCHANGED <<state, replies, up>>

(* get_telemetry *)

ReadRequests(w) ==
    /\ at[w] = "report"
    /\ Acquire(w)
    /\ Goto(w, "report2", [requests |-> requests])
    /\ UNCHANGED <<state, replies, up>>

ReadTotal(w) ==
    /\ at[w] = "report2"
    /\ Release
    /\ Goto(w, "reported", [requests |-> mine[w].requests, total |-> total])
    /\ UNCHANGED <<state, replies, up>>

Respond(w) ==
    /\ at[w] \in {"answer", "reported"}
    /\ Goto(w, "idle", Nothing)
    /\ UNCHANGED <<state, lock, replies, up>>

WorkerStep(w) ==
    \/ ApplyInterface(w) \/ ApplyTable(w) \/ ApplyRaises(w)
    \/ ReadInterface(w) \/ ReadTable(w)
    \/ ReadRequests(w) \/ ReadTotal(w)
    \/ Respond(w)

Arrival ==
    \/ \E ip \in Ip : ArpRequest(ip)
    \/ \E w \in Worker :
         (\E body \in Bodies : Put(w, body)) \/ GetConfig(w) \/ GetTelemetry(w)

Next ==
    \/ Arrival
    \/ up /\ SnifferStep
    \/ up /\ \E w \in Worker : WorkerStep(w)

\* Every thread runs, and the lock, held for a moment at a time, is given in
\* the end to whoever waits for it.
Fairness ==
    /\ SF_vars(up /\ SnifferStep)
    /\ \A w \in Worker : SF_vars(up /\ WorkerStep(w))

Spec == Init /\ [][Next]_vars /\ Fairness

-----------------------------------------------------------------------------
(* Properties *)

\* The types of the shared fields, whatever a PUT contains.
TypeOK ==
    /\ interface \in Interface
    /\ table \in Tables
    /\ requests \in 0 .. MaxReplies
    /\ total \in 0 .. MaxReplies
    /\ replies \in 0 .. MaxReplies
    /\ lock \in Thread \cup {Nobody}
    /\ up \in BOOLEAN

\* arp_proxy.py:37-39 and 86-88: every reply is counted once, and the number of
\* replies and the time they took that a report gives are of the same replies.
ReportsExact ==
    /\ at[Sniffer] = "idle" => requests = replies /\ total = replies
    /\ \A w \in Worker : at[w] = "reported" =>
         /\ mine[w].total = mine[w].requests
         /\ mine[w].requests <= replies

\* A malformed body, a report or a GET in between does not keep a packet or a
\* request waiting for the lock for ever.
EveryoneServed ==
    \A t \in Thread : at[t] # "idle" ~> (at[t] = "idle" \/ ~ up)

\* A PUT takes effect for the others when it sets the interface: nobody sees
\* anything before it has set the table too.
TableInForce ==
    IF /\ lock \in Worker
       /\ at[lock] = "apply2"
       /\ "table" \in DOMAIN mine[lock]
       /\ mine[lock].table # Malformed
    THEN mine[lock].table ELSE table

Config == [interface |-> interface, table |-> TableInForce]

\* How far the request or packet of a thread has come, as the register sees it.
Op(t) ==
    CASE at[t] = "apply2" /\ ~ IsMalformed(mine[t]) -> [kind |-> "written"]
      [] at[t] \in {"read", "read2"} /\ mine[t].written -> [kind |-> "written"]
      [] at[t] = "answer" -> [kind |-> "answered", config |-> mine[t]]
      [] at[t] = "send" ->
           [kind |-> "answered",
            config |-> [interface |-> mine[t].interface,
                        table |-> [ip \in {mine[t].ip} |-> mine[t].mac]]]
      [] OTHER -> [kind |-> "idle"]

Ops == [t \in Thread |-> Op(t)]

Register == INSTANCE ConfigRegister WITH config <- Config, op <- Ops

\* Whatever a reply to a packet, a GET or a PUT is made of was in force as a
\* whole at one instant, and a PUT never answers with what it has replaced.
RefinesRegister == Register!Spec

=============================================================================
