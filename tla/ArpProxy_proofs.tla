-------------------------- MODULE ArpProxy_proofs --------------------------
(***************************************************************************)
(* Proofs about ArpProxy: for any number of REST threads, any bodies and   *)
(* any table, the lock excludes, the shared fields keep their types, the   *)
(* counters are reported together and the configuration implements one     *)
(* register (ConfigRegister).                                              *)
(***************************************************************************)
EXTENDS ArpProxy, TLAPS

SnifferPlaces == {"idle", "lookup", "lookup2", "send", "count", "count2"}
WorkerPlaces == {"idle", "apply", "apply2", "read", "read2", "answer",
                 "report", "report2", "reported"}

\* The second halves of the critical sections.
Inside == {"lookup2", "count2", "apply2", "read2", "report2"}

PlacesOK ==
    /\ at[Sniffer] \in SnifferPlaces
    /\ \A w \in Worker : at[w] \in WorkerPlaces

\* Whoever is inside a critical section holds the lock, and nobody else.
Mutex == \A t \in Thread : at[t] \in Inside <=> lock = t

\* Every thread has a place and something in hand; a PUT has its body.
HandsOK ==
    /\ DOMAIN at = Thread /\ DOMAIN mine = Thread
    /\ \A w \in Worker : at[w] \in {"apply", "apply2"} => mine[w] \in Bodies

\* The counters lag behind the replies by what the sniffer has not counted.
Counters ==
    /\ replies = requests + (IF at[Sniffer] = "count" THEN 1 ELSE 0)
    /\ requests = total + (IF at[Sniffer] = "count2" THEN 1 ELSE 0)
    /\ at[Sniffer] \in {"lookup", "lookup2", "send"} => replies < MaxReplies

\* What a thread has read of the counters.
Read ==
    /\ \A w \in Worker : at[w] = "report2" => mine[w].requests = requests
    /\ \A w \in Worker : at[w] = "reported" =>
         mine[w].requests \in Nat /\ mine[w].total = mine[w].requests
           /\ mine[w].requests <= replies

Types ==
    /\ requests \in Nat /\ total \in Nat /\ replies \in 0 .. MaxReplies
    /\ interface \in Interface /\ table \in Tables
    /\ lock \in Thread \cup {Nobody} /\ up \in BOOLEAN

Inv == PlacesOK /\ Mutex /\ HandsOK /\ Counters /\ Read /\ Types

LEMMA InitInv == Init => Inv
<1> SUFFICES ASSUME Init PROVE Inv
  OBVIOUS
<1> USE DEF Init, Thread
<1>1. PlacesOK
  BY DEF PlacesOK, SnifferPlaces, WorkerPlaces
<1>2. Mutex
  BY ThreadsAssumption DEF Mutex, Inside
<1>3. HandsOK
  BY DEF HandsOK
<1>4. Counters /\ Read
  BY DEF Counters, Read
<1>5. Types
  BY FileAssumption, BoundAssumption DEF Types
<1> QED
  BY <1>1, <1>2, <1>3, <1>4, <1>5 DEF Inv

\* The body of a PUT that is not malformed keeps the types of both fields.
LEMMA BodyTypes ==
    ASSUME NEW body \in Bodies
    PROVE  /\ "interface" \in DOMAIN body => body.interface \in Interface
           /\ "table" \in DOMAIN body /\ body.table # Malformed
                => body.table \in Tables
BY BodiesAssumption DEF AllBodies

LEMMA SnifferInv == Inv /\ up /\ SnifferStep => Inv'
<1> SUFFICES ASSUME Inv, SnifferStep PROVE Inv'
  OBVIOUS
<1> USE ThreadsAssumption, BoundAssumption
    DEF Inv, PlacesOK, Mutex, HandsOK, Counters, Read, Types, Inside,
        SnifferPlaces, WorkerPlaces, Goto, Acquire, Release, Thread, state
<1>1. CASE LookupMac
  BY <1>1 DEF LookupMac
<1>2. CASE LookupInterface
  BY <1>2 DEF LookupInterface
<1>3. CASE NotServed
  BY <1>3 DEF NotServed
<1>4. CASE Send
  BY <1>4 DEF Send
<1>5. CASE SendFails
  BY <1>5 DEF SendFails
<1>6. CASE CountRequest
  BY <1>6 DEF CountRequest
<1>7. CASE CountTime
  BY <1>7 DEF CountTime
<1> QED
  BY <1>1, <1>2, <1>3, <1>4, <1>5, <1>6, <1>7 DEF SnifferStep

LEMMA WorkerInv ==
    ASSUME NEW w \in Worker, Inv, WorkerStep(w)
    PROVE  Inv'
<1> USE ThreadsAssumption, BoundAssumption
    DEF Inv, PlacesOK, Mutex, HandsOK, Counters, Read, Types, Inside,
        SnifferPlaces, WorkerPlaces, Goto, Acquire, Release, Thread, state
<1>1. CASE ApplyInterface(w)
  BY <1>1, BodyTypes DEF ApplyInterface
<1>2. CASE ApplyTable(w)
  BY <1>2, BodyTypes DEF ApplyTable, IsMalformed
<1>3. CASE ApplyRaises(w)
  BY <1>3 DEF ApplyRaises
<1>4. CASE ReadInterface(w)
  BY <1>4 DEF ReadInterface
<1>5. CASE ReadTable(w)
  BY <1>5 DEF ReadTable
<1>6. CASE ReadRequests(w)
  BY <1>6 DEF ReadRequests
<1>7. CASE ReadTotal(w)
  BY <1>7 DEF ReadTotal
<1>8. CASE Respond(w)
  BY <1>8 DEF Respond
<1> QED
  BY <1>1, <1>2, <1>3, <1>4, <1>5, <1>6, <1>7, <1>8 DEF WorkerStep

LEMMA ArrivalInv == Inv /\ Arrival => Inv'
<1> SUFFICES ASSUME Inv, Arrival PROVE Inv'
  OBVIOUS
<1> USE ThreadsAssumption, BoundAssumption
    DEF Inv, PlacesOK, Mutex, HandsOK, Counters, Read, Types, Inside,
        SnifferPlaces, WorkerPlaces, Goto, Thread, state
<1>1. ASSUME NEW ip \in Ip, ArpRequest(ip) PROVE Inv'
  BY <1>1 DEF ArpRequest
<1>2. ASSUME NEW w \in Worker, NEW body \in Bodies, Put(w, body) PROVE Inv'
  BY <1>2 DEF Put
<1>3. ASSUME NEW w \in Worker, GetConfig(w) PROVE Inv'
  BY <1>3 DEF GetConfig
<1>4. ASSUME NEW w \in Worker, GetTelemetry(w) PROVE Inv'
  BY <1>4 DEF GetTelemetry
<1> QED
  BY <1>1, <1>2, <1>3, <1>4 DEF Arrival

LEMMA StutterInv == Inv /\ UNCHANGED vars => Inv'
BY DEF vars, state, Inv, PlacesOK, Mutex, HandsOK, Counters, Read, Types

LEMMA NextInv == Inv /\ [Next]_vars => Inv'
BY SnifferInv, WorkerInv, ArrivalInv, StutterInv DEF Next

LEMMA SpecInv == Spec => []Inv
BY InitInv, NextInv, PTL DEF Spec

\* arp_proxy.py: whatever the bodies of its PUTs contain, the fields of _state
\* keep their types.
THEOREM TypeCorrect == Spec => []TypeOK
<1>1. Inv => TypeOK
  BY BoundAssumption DEF Inv, Types, Counters, TypeOK
<1> QED
  BY <1>1, SpecInv, PTL

\* arp_proxy.py:37-39 and 86-88: for any number of threads, a report's count
\* and time are of the same replies, and every reply is counted once.
THEOREM Reports == Spec => []ReportsExact
<1>1. Inv => ReportsExact
  BY DEF Inv, Types, Counters, Read, ReportsExact
<1> QED
  BY <1>1, SpecInv, PTL

-----------------------------------------------------------------------------
(* The configuration is one register *)

\* What a thread has in hand between its steps: the packet its address and,
\* under the lock, the entry it has found; a request whether it has written,
\* and, under the lock, the interface it has read.
Hands ==
    /\ at[Sniffer] \in {"lookup", "lookup2"} => mine[Sniffer].ip \in Ip
    /\ at[Sniffer] = "lookup2" => mine[Sniffer].mac = table[mine[Sniffer].ip]
    /\ \A w \in Worker : at[w] \in {"read", "read2"} => mine[w].written \in BOOLEAN
    /\ \A w \in Worker : at[w] = "read2" => mine[w].interface = interface

LEMMA InitHands == Init => Hands
BY DEF Init, Hands, Thread

LEMMA SnifferHands == Inv /\ Hands /\ SnifferStep => Hands'
<1> SUFFICES ASSUME Inv, Hands, SnifferStep PROVE Hands'
  OBVIOUS
<1> USE ThreadsAssumption
    DEF Inv, PlacesOK, Mutex, HandsOK, Types, Hands, Inside, SnifferPlaces,
        WorkerPlaces, Goto, Acquire, Release, Thread, state
<1>1. CASE LookupMac
  BY <1>1 DEF LookupMac
<1>2. CASE LookupInterface
  BY <1>2 DEF LookupInterface
<1>3. CASE NotServed
  BY <1>3 DEF NotServed
<1>4. CASE Send
  BY <1>4 DEF Send
<1>5. CASE SendFails
  BY <1>5 DEF SendFails
<1>6. CASE CountRequest
  BY <1>6 DEF CountRequest
<1>7. CASE CountTime
  BY <1>7 DEF CountTime
<1> QED
  BY <1>1, <1>2, <1>3, <1>4, <1>5, <1>6, <1>7 DEF SnifferStep

LEMMA WorkerHands ==
    ASSUME NEW w \in Worker, Inv, Hands, WorkerStep(w)
    PROVE  Hands'
<1> USE ThreadsAssumption
    DEF Inv, PlacesOK, Mutex, HandsOK, Types, Hands, Inside, SnifferPlaces,
        WorkerPlaces, Goto, Acquire, Release, Thread, state
<1>1. CASE ApplyInterface(w)
  BY <1>1 DEF ApplyInterface
<1>2. CASE ApplyTable(w)
  BY <1>2 DEF ApplyTable
<1>3. CASE ApplyRaises(w)
  BY <1>3 DEF ApplyRaises
<1>4. CASE ReadInterface(w)
  BY <1>4 DEF ReadInterface
<1>5. CASE ReadTable(w)
  BY <1>5 DEF ReadTable
<1>6. CASE ReadRequests(w)
  BY <1>6 DEF ReadRequests
<1>7. CASE ReadTotal(w)
  BY <1>7 DEF ReadTotal
<1>8. CASE Respond(w)
  BY <1>8 DEF Respond
<1> QED
  BY <1>1, <1>2, <1>3, <1>4, <1>5, <1>6, <1>7, <1>8 DEF WorkerStep

LEMMA NextHands == Inv /\ Hands /\ [Next]_vars => Hands'
<1> SUFFICES ASSUME Inv, Hands, [Next]_vars PROVE Hands'
  OBVIOUS
<1>1. CASE Arrival
  <2> USE ThreadsAssumption
      DEF Inv, PlacesOK, HandsOK, Hands, SnifferPlaces, WorkerPlaces, Goto,
          Thread, state
  <2>1. ASSUME NEW ip \in Ip, ArpRequest(ip) PROVE Hands'
    BY <2>1 DEF ArpRequest
  <2>2. ASSUME NEW w \in Worker, NEW body \in Bodies, Put(w, body) PROVE Hands'
    BY <2>2 DEF Put
  <2>3. ASSUME NEW w \in Worker, GetConfig(w) PROVE Hands'
    BY <2>3 DEF GetConfig
  <2>4. ASSUME NEW w \in Worker, GetTelemetry(w) PROVE Hands'
    BY <2>4 DEF GetTelemetry
  <2> QED
    BY <1>1, <2>1, <2>2, <2>3, <2>4 DEF Arrival
<1>2. CASE UNCHANGED vars
  BY <1>2 DEF vars, state, Hands
<1> QED
  BY <1>1, <1>2, SnifferHands, WorkerHands DEF Next

\* A step of one thread leaves the operations of the others where they are.
LEMMA OneThread ==
    ASSUME HandsOK, NEW t \in Thread, NEW place, NEW hand, Goto(t, place, hand)
    PROVE  /\ at'[t] = place /\ mine'[t] = hand
           /\ \A u \in Thread : u # t => at'[u] = at[u] /\ mine'[u] = mine[u]
           /\ Ops' = [Ops EXCEPT ![t] = Op(t)']
<1>1. /\ at'[t] = place /\ mine'[t] = hand
      /\ \A u \in Thread : u # t => at'[u] = at[u] /\ mine'[u] = mine[u]
  BY DEF HandsOK, Goto
<1>2. ASSUME NEW u \in Thread, u # t PROVE Op(u)' = Op(u)
  BY <1>1, <1>2 DEF Op, IsMalformed
<1> QED
  BY <1>1, <1>2 DEF Ops

\* Only a PUT between its two writes shows a table that is not the stored one.
LEMMA StoredTable ==
    ASSUME \/ lock \notin Worker
           \/ at[lock] # "apply2"
           \/ IsMalformed(mine[lock])
           \/ "table" \notin DOMAIN mine[lock]
    PROVE  TableInForce = table
BY DEF TableInForce, IsMalformed

LEMMA StoredTableAfter ==
    ASSUME \/ lock' \notin Worker
           \/ at'[lock'] # "apply2"
           \/ IsMalformed(mine[lock])'
           \/ "table" \notin DOMAIN mine'[lock']
    PROVE  TableInForce' = table'
BY DEF TableInForce, IsMalformed

\* A step that moves the operation of no thread and leaves the configuration
\* in force is invisible.
LEMMA Invisible ==
    ASSUME HandsOK, NEW t \in Thread, Op(t)' = Op(t), Config' = Config,
           NEW place, NEW hand, Goto(t, place, hand)
    PROVE  UNCHANGED Register!vars
<1>1. Ops' = Ops
  BY OneThread DEF Ops
<1> QED
  BY <1>1 DEF Register!vars

LEMMA SnifferSimulates ==
    Inv /\ Hands /\ SnifferStep => [Register!Next]_(Register!vars)
<1> SUFFICES ASSUME Inv, Hands, SnifferStep
             PROVE  [Register!Next]_(Register!vars)
  OBVIOUS
<1>1. HandsOK /\ Sniffer \in Thread /\ Sniffer \notin Worker /\ Nobody \notin Worker
  BY ThreadsAssumption DEF Inv, Thread
<1>2. CASE LookupMac
  <2>1. at'[Sniffer] = "lookup2" /\ at[Sniffer] = "lookup"
    BY <1>1, <1>2, OneThread DEF LookupMac
  <2>2. Op(Sniffer)' = Op(Sniffer)
    BY <2>1 DEF Op
  <2>3. Config' = Config
    BY <1>1, <1>2, StoredTable, StoredTableAfter
    DEF LookupMac, Acquire, state, Config
  <2> QED
    BY <1>1, <1>2, <2>2, <2>3, Invisible DEF LookupMac
<1>3. CASE LookupInterface
  <2> DEFINE ip == mine[Sniffer].ip
  <2>1. /\ at'[Sniffer] = "send" /\ at[Sniffer] = "lookup2"
        /\ mine'[Sniffer] = [ip |-> ip, mac |-> mine[Sniffer].mac,
                             interface |-> interface]
        /\ Ops' = [Ops EXCEPT ![Sniffer] = Op(Sniffer)']
    BY <1>1, <1>3, OneThread DEF LookupInterface
  <2>2. lock = Sniffer /\ lock' = Nobody
    BY <1>1, <1>3, <2>1 DEF LookupInterface, Release, Inv, Mutex, Inside
  <2>3. Config = [interface |-> interface, table |-> table] /\ Config' = Config
    BY <1>1, <1>3, <2>2, StoredTable, StoredTableAfter
    DEF LookupInterface, state, Config
  <2>4. ip \in Ip /\ mine[Sniffer].mac = table[ip] /\ DOMAIN table = Ip
    BY <2>1 DEF Hands, Inv, Types, Tables
  <2>5. Ops[Sniffer] = Register!Idle
    BY <1>1, <2>1 DEF Ops, Op, Register!Idle
  <2>6. Op(Sniffer)' = [kind |-> "answered",
                        config |-> [interface |-> interface,
                                    table |-> [i \in {ip} |-> table[ip]]]]
    BY <2>1, <2>4 DEF Op
  <2>7. [Config EXCEPT !.table = Register!Restrict(@, {ip})]
          = [interface |-> interface, table |-> [i \in {ip} |-> table[ip]]]
    BY <2>3 DEF Register!Restrict
  <2>8. {ip} \in SUBSET DOMAIN Config.table
    BY <2>3, <2>4
  <2>9. Register!Read(Sniffer)
    BY <2>1, <2>3, <2>5, <2>6, <2>7, <2>8 DEF Register!Read, Register!Answered
  <2> QED
    BY <1>1, <2>9 DEF Register!Next
<1>4. CASE NotServed \/ Send
  <2>1. /\ at[Sniffer] = "send" /\ at'[Sniffer] \in {"idle", "count"}
        /\ Ops' = [Ops EXCEPT ![Sniffer] = Op(Sniffer)']
    BY <1>1, <1>4, OneThread DEF NotServed, Send
  <2>2. Op(Sniffer)' = Register!Idle
    BY <2>1 DEF Op, Register!Idle
  <2>3. Ops[Sniffer].kind = "answered"
    BY <1>1, <2>1 DEF Ops, Op
  <2>4. Config' = Config
    <3>1. UNCHANGED <<interface, table, lock>>
      BY <1>4 DEF NotServed, Send, state
    <3>2. \A w \in Worker : at'[w] = at[w] /\ mine'[w] = mine[w]
      BY <1>1, <1>4, OneThread DEF NotServed, Send, Thread
    <3> QED
      BY <3>1, <3>2 DEF Config, TableInForce
  <2>5. Register!Finish(Sniffer)
    BY <2>1, <2>2, <2>3, <2>4 DEF Register!Finish
  <2> QED
    BY <1>1, <2>5 DEF Register!Next
<1>5. CASE SendFails
  BY <1>5 DEF SendFails, state, Register!vars, Config, TableInForce, Ops, Op,
              IsMalformed
<1>6. CASE CountRequest
  <2>1. at'[Sniffer] = "count2" /\ at[Sniffer] = "count"
    BY <1>1, <1>6, OneThread DEF CountRequest
  <2>2. Op(Sniffer)' = Op(Sniffer)
    BY <2>1 DEF Op
  <2>3. Config' = Config
    BY <1>1, <1>6, StoredTable, StoredTableAfter DEF CountRequest, Acquire, Config
  <2> QED
    BY <1>1, <1>6, <2>2, <2>3, Invisible DEF CountRequest
<1>7. CASE CountTime
  <2>1. at'[Sniffer] = "idle" /\ at[Sniffer] = "count2"
    BY <1>1, <1>7, OneThread DEF CountTime
  <2>2. Op(Sniffer)' = Op(Sniffer)
    BY <2>1 DEF Op
  <2>3. lock = Sniffer /\ lock' = Nobody
    BY <1>1, <1>7, <2>1 DEF CountTime, Release, Inv, Mutex, Inside
  <2>4. Config' = Config
    BY <1>1, <1>7, <2>3, StoredTable, StoredTableAfter DEF CountTime, Config
  <2> QED
    BY <1>1, <1>7, <2>2, <2>4, Invisible DEF CountTime
<1> QED
  BY <1>2, <1>3, <1>4, <1>5, <1>6, <1>7 DEF SnifferStep

\* A PUT takes effect with its first write: all of its fields, or, when its
\* entries are malformed, the interface alone.
LEMMA ApplySimulates ==
    ASSUME NEW w \in Worker, Inv, Hands, ApplyInterface(w)
    PROVE  [Register!Next]_(Register!vars)
<1> DEFINE body == mine[w]
<1>1. HandsOK /\ w \in Thread /\ Nobody \notin Worker /\ body \in Bodies
  BY ThreadsAssumption DEF Inv, HandsOK, Thread, ApplyInterface
<1>2. /\ at[w] = "apply" /\ at'[w] = "apply2" /\ mine'[w] = body
      /\ Ops' = [Ops EXCEPT ![w] = Op(w)']
  BY <1>1, OneThread DEF ApplyInterface
<1>3. /\ lock = Nobody /\ lock' = w /\ table' = table
      /\ interface' = IF "interface" \in DOMAIN body THEN body.interface ELSE interface
  BY DEF ApplyInterface, Acquire
<1>4. Config = [interface |-> interface, table |-> table]
  BY <1>1, <1>3, StoredTable DEF Config
<1>5. Ops[w] = Register!Idle
  BY <1>1, <1>2 DEF Ops, Op, Register!Idle
<1>6. CASE IsMalformed(body)
  <2>1. Config' = [interface |-> interface', table |-> table]
    BY <1>2, <1>3, <1>6, StoredTableAfter DEF Config, IsMalformed
  <2>2. Op(w)' = Register!Idle
    BY <1>2, <1>6 DEF Op, IsMalformed, Register!Idle
  <2>3. Ops' = Ops
    BY <1>1, <1>2, <1>5, <2>2 DEF Ops
  <2>4. CASE "interface" \in DOMAIN body
    <3>1. Config' = [Config EXCEPT !.interface = body.interface]
      BY <1>3, <1>4, <2>1, <2>4
    <3>2. Register!WriteFails(w, body)
      BY <1>5, <2>3, <2>4, <3>1 DEF Register!WriteFails
    <3> QED
      BY <1>1, <3>2 DEF Register!Next
  <2>5. CASE "interface" \notin DOMAIN body
    BY <1>3, <1>4, <2>1, <2>3, <2>5 DEF Register!vars
  <2> QED
    BY <2>4, <2>5
<1>7. CASE ~ IsMalformed(body)
  <2>1. TableInForce' = IF "table" \in DOMAIN body THEN body.table ELSE table
    BY <1>2, <1>3, <1>7 DEF TableInForce, IsMalformed
  <2>2. Config' = [f \in DOMAIN Config |-> IF f \in DOMAIN body THEN body[f] ELSE Config[f]]
    BY <1>3, <1>4, <2>1 DEF Config
  <2>3. Op(w)' = Register!Written
    BY <1>2, <1>7 DEF Op, IsMalformed, Register!Written
  <2>4. Register!Write(w, body)
    BY <1>2, <1>5, <2>2, <2>3 DEF Register!Write
  <2> QED
    BY <1>1, <2>4 DEF Register!Next
<1> QED
  BY <1>6, <1>7

LEMMA WorkerSimulates ==
    ASSUME NEW w \in Worker, Inv, Hands, WorkerStep(w)
    PROVE  [Register!Next]_(Register!vars)
<1>1. /\ HandsOK /\ w \in Thread /\ Nobody \notin Worker
      /\ at[w] \in Inside <=> lock = w
  BY ThreadsAssumption DEF Inv, Mutex, Thread
<1>2. CASE ApplyInterface(w)
  BY <1>2, ApplySimulates
<1>3. CASE ApplyTable(w)
  <2>1. /\ at[w] = "apply2" /\ at'[w] = "read" /\ mine'[w] = [written |-> TRUE]
        /\ lock = w /\ lock' = Nobody /\ ~ IsMalformed(mine[w])
    BY <1>1, <1>3, OneThread DEF ApplyTable, Release, Inside
  <2>2. Op(w)' = Op(w)
    BY <2>1 DEF Op
  <2>3. TableInForce = table'
    BY <1>3, <2>1 DEF ApplyTable, TableInForce, IsMalformed
  <2>4. TableInForce' = table'
    BY <1>1, <2>1, StoredTableAfter
  <2>5. Config' = Config
    BY <1>3, <2>3, <2>4 DEF ApplyTable, Config
  <2> QED
    BY <1>1, <1>3, <2>2, <2>5, Invisible DEF ApplyTable
<1>4. CASE ApplyRaises(w)
  <2>1. /\ at[w] = "apply2" /\ at'[w] = "idle"
        /\ lock = w /\ lock' = Nobody /\ IsMalformed(mine[w])
    BY <1>1, <1>4, OneThread DEF ApplyRaises, Release, Inside
  <2>2. Op(w)' = Op(w)
    BY <2>1 DEF Op
  <2>3. Config' = Config
    BY <1>1, <1>4, <2>1, StoredTable, StoredTableAfter
    DEF ApplyRaises, state, Config
  <2> QED
    BY <1>1, <1>4, <2>2, <2>3, Invisible DEF ApplyRaises
<1>5. CASE ReadInterface(w)
  <2>1. /\ at[w] = "read" /\ at'[w] = "read2"
        /\ mine'[w].written = mine[w].written
        /\ lock = Nobody /\ lock' = w
    BY <1>1, <1>5, OneThread DEF ReadInterface, Acquire
  <2>2. Op(w)' = Op(w)
    BY <2>1 DEF Op
  <2>3. Config' = Config
    BY <1>1, <1>5, <2>1, StoredTable, StoredTableAfter
    DEF ReadInterface, state, Config
  <2> QED
    BY <1>1, <1>5, <2>2, <2>3, Invisible DEF ReadInterface
<1>6. CASE ReadTable(w)
  <2>1. /\ at[w] = "read2" /\ at'[w] = "answer" /\ lock = w /\ lock' = Nobody
        /\ mine'[w] = [interface |-> mine[w].interface, table |-> table]
        /\ Ops' = [Ops EXCEPT ![w] = Op(w)']
    BY <1>1, <1>6, OneThread DEF ReadTable, Release, Inside
  <2>2. Config = [interface |-> interface, table |-> table] /\ Config' = Config
    BY <1>1, <1>6, <2>1, StoredTable, StoredTableAfter
    DEF ReadTable, state, Config
  <2>3. mine[w].interface = interface /\ mine[w].written \in BOOLEAN
        /\ table \in Tables
    BY <2>1 DEF Hands, Inv, Types
  <2>4. Op(w)' = [kind |-> "answered", config |-> Config]
    BY <2>1, <2>2, <2>3 DEF Op
  <2>5. [Config EXCEPT !.table = Register!Restrict(@, DOMAIN table)] = Config
    BY <2>2, <2>3 DEF Register!Restrict, Tables
  <2>6. Ops[w] \in {Register!Idle, Register!Written}
    BY <1>1, <2>1 DEF Ops, Op, Register!Idle, Register!Written
  <2>7. Register!Read(w)
    <3>1. DOMAIN table \in SUBSET DOMAIN Config.table
      BY <2>2
    <3>2. Ops' = [Ops EXCEPT ![w] =
             Register!Answered([Config EXCEPT !.table =
                                  Register!Restrict(@, DOMAIN table)])]
      BY <2>1, <2>4, <2>5 DEF Register!Answered
    <3> QED
      BY <2>2, <2>6, <3>1, <3>2 DEF Register!Read
  <2> QED
    BY <1>1, <2>7 DEF Register!Next
<1>7. CASE ReadRequests(w)
  <2>1. at[w] = "report" /\ at'[w] = "report2" /\ lock = Nobody /\ lock' = w
    BY <1>1, <1>7, OneThread DEF ReadRequests, Acquire
  <2>2. Op(w)' = Op(w)
    BY <2>1 DEF Op
  <2>3. Config' = Config
    BY <1>1, <1>7, <2>1, StoredTable, StoredTableAfter
    DEF ReadRequests, state, Config
  <2> QED
    BY <1>1, <1>7, <2>2, <2>3, Invisible DEF ReadRequests
<1>8. CASE ReadTotal(w)
  <2>1. at[w] = "report2" /\ at'[w] = "reported" /\ lock = w /\ lock' = Nobody
    BY <1>1, <1>8, OneThread DEF ReadTotal, Release, Inside
  <2>2. Op(w)' = Op(w)
    BY <2>1 DEF Op
  <2>3. Config' = Config
    BY <1>1, <1>8, <2>1, StoredTable, StoredTableAfter
    DEF ReadTotal, state, Config
  <2> QED
    BY <1>1, <1>8, <2>2, <2>3, Invisible DEF ReadTotal
<1>9. CASE Respond(w)
  <2>1. /\ at[w] \in {"answer", "reported"} /\ at'[w] = "idle"
        /\ \A u \in Thread : u # w => at'[u] = at[u] /\ mine'[u] = mine[u]
        /\ Ops' = [Ops EXCEPT ![w] = Op(w)']
        /\ UNCHANGED <<interface, table, lock>>
    BY <1>1, <1>9, OneThread DEF Respond, state
  <2>2. Op(w)' = Register!Idle
    BY <2>1 DEF Op, Register!Idle
  <2>3. Config' = Config
    <3>1. lock # w
      BY <1>1, <2>1 DEF Inside
    <3>2. lock \in Worker => at'[lock] = at[lock] /\ mine'[lock] = mine[lock]
      BY <2>1, <3>1 DEF Thread
    <3> QED
      BY <2>1, <3>2 DEF Config, TableInForce
  <2>4. CASE at[w] = "answer"
    <3>1. Ops[w].kind = "answered"
      BY <1>1, <2>4 DEF Ops, Op
    <3>2. Register!Finish(w)
      BY <2>1, <2>2, <2>3, <3>1 DEF Register!Finish
    <3> QED
      BY <1>1, <3>2 DEF Register!Next
  <2>5. CASE at[w] = "reported"
    <3>1. Op(w) = Register!Idle
      BY <2>5 DEF Op, Register!Idle
    <3> QED
      BY <1>1, <1>9, <2>2, <2>3, <3>1, Invisible DEF Respond
  <2> QED
    BY <2>1, <2>4, <2>5
<1> QED
  BY <1>2, <1>3, <1>4, <1>5, <1>6, <1>7, <1>8, <1>9 DEF WorkerStep

\* Nothing that arrives is visible before it reads or writes.
LEMMA ArrivalSimulates == Inv /\ Arrival => UNCHANGED Register!vars
<1> SUFFICES ASSUME Inv, Arrival PROVE UNCHANGED Register!vars
  OBVIOUS
<1>1. PICK t, place, hand :
        /\ t \in Thread /\ place \in {"lookup", "apply", "read", "report"}
        /\ at[t] = "idle" /\ Goto(t, place, hand)
        /\ place = "read" => hand = [written |-> FALSE]
        /\ UNCHANGED <<interface, table, lock>>
  BY DEF Arrival, ArpRequest, Put, GetConfig, GetTelemetry, Thread, state
<1>2. /\ HandsOK /\ at'[t] = place /\ mine'[t] = hand
      /\ \A u \in Thread : u # t => at'[u] = at[u] /\ mine'[u] = mine[u]
  BY <1>1, OneThread DEF Inv
<1>3. Op(t)' = Op(t)
  BY <1>1, <1>2 DEF Op
<1>4. Config' = Config
  <2>1. lock # t
    BY <1>1 DEF Inv, Mutex, Inside
  <2>2. lock \in Worker => at'[lock] = at[lock] /\ mine'[lock] = mine[lock]
    BY <1>2, <2>1 DEF Thread
  <2> QED
    BY <1>1, <2>2 DEF Config, TableInForce
<1> QED
  BY <1>1, <1>2, <1>3, <1>4, Invisible

LEMMA NextSimulates ==
    Inv /\ Hands /\ [Next]_vars => [Register!Next]_(Register!vars)
<1>1. UNCHANGED vars => UNCHANGED Register!vars
  BY DEF vars, state, Register!vars, Config, TableInForce, Ops, Op, IsMalformed
<1> QED
  BY <1>1, SnifferSimulates, WorkerSimulates, ArrivalSimulates DEF Next

\* arp_proxy.py:28-92: for any number of REST threads and any
\* bodies, what a reply to a packet, a GET or a PUT is made of was in force as
\* a whole at one instant, and a PUT never answers with what it has replaced.
THEOREM OneRegister == Spec => RefinesRegister
<1>1. Init => Register!Init
  BY DEF Init, Register!Init, Register!Idle, Ops, Op
<1>2. Spec => [](Inv /\ Hands)
  BY InitInv, InitHands, NextInv, NextHands, PTL DEF Spec
<1> QED
  BY <1>1, <1>2, NextSimulates, PTL DEF Spec, RefinesRegister, Register!Spec

=============================================================================
