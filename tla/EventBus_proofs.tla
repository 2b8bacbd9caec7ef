-------------------------- MODULE EventBus_proofs --------------------------
(***************************************************************************)
(* Proofs about EventBus, for any plugins, subscriptions and events, and   *)
(* for Ctrl+C at any point: the sentinels, the types, and that the bus     *)
(* implements Mailboxes.                                                   *)
(***************************************************************************)
EXTENDS EventBus, SequenceTheorems, TLAPS

\* No sentinel anywhere in a queue.
Unclosed(q) == \A i \in DOMAIN q : q[i] # Sentinel

\* No sentinel but in the last place.
ClosedLast(q) == \A i \in DOMAIN q : q[i] = Sentinel => i = Len(q)

IsSequence(q) == \E S : q \in Seq(S)

\* A call is not a sentinel.
LEMMA CallIsNoSentinel ==
    ASSUME NEW h, NEW e
    PROVE  Call(h, e) # Sentinel
<1>1. "stop" \in DOMAIN Sentinel
  BY DEF Sentinel
<1>2. "stop" \notin DOMAIN Call(h, e)
  BY DEF Call
<1> QED
  BY <1>1, <1>2

\* Putting a call into an unclosed queue leaves it so.
LEMMA AppendCall ==
    ASSUME NEW q, IsSequence(q), Unclosed(q), NEW c, c # Sentinel
    PROVE  IsSequence(Append(q, c)) /\ Unclosed(Append(q, c))
<1>1. PICK S : q \in Seq(S)
  BY DEF IsSequence
<1> DEFINE T == S \cup {c}
<1>2. q \in Seq(T) /\ c \in T
  BY <1>1, SeqMonotonic
<1> HIDE DEF T
<1>3. Append(q, c) \in Seq(T)
  BY <1>2
<1>4. Unclosed(Append(q, c))
  BY <1>2 DEF Unclosed
<1> QED
  BY <1>3, <1>4 DEF IsSequence

\* Putting a sentinel into an unclosed queue closes it.
LEMMA AppendSentinel ==
    ASSUME NEW q, IsSequence(q), Unclosed(q)
    PROVE  IsSequence(Append(q, Sentinel)) /\ ClosedLast(Append(q, Sentinel))
<1>1. PICK S : q \in Seq(S)
  BY DEF IsSequence
<1> DEFINE T == S \cup {Sentinel}
<1>2. q \in Seq(T) /\ Sentinel \in T
  BY <1>1, SeqMonotonic
<1> HIDE DEF T
<1>3. Append(q, Sentinel) \in Seq(T)
  BY <1>2
<1>4. ClosedLast(Append(q, Sentinel))
  BY <1>2 DEF Unclosed, ClosedLast
<1> QED
  BY <1>3, <1>4 DEF IsSequence

\* Taking the head leaves a queue unclosed, or closed at its end; nothing is
\* left behind a sentinel.
LEMMA TakeHead ==
    ASSUME NEW q, IsSequence(q), q # << >>
    PROVE  /\ IsSequence(Tail(q))
           /\ Unclosed(q) => Unclosed(Tail(q)) /\ Head(q) # Sentinel
           /\ ClosedLast(q) => ClosedLast(Tail(q))
           /\ ClosedLast(q) /\ Head(q) = Sentinel => Tail(q) = << >>
<1>1. PICK S : q \in Seq(S)
  BY DEF IsSequence
<1>2. /\ Tail(q) \in Seq(S) /\ Len(Tail(q)) = Len(q) - 1
      /\ \A i \in 1 .. Len(Tail(q)) : Tail(q)[i] = q[i + 1]
      /\ Len(q) \in Nat \ {0} /\ DOMAIN q = 1 .. Len(q)
      /\ DOMAIN Tail(q) = 1 .. Len(Tail(q))
  BY <1>1, HeadTailProperties, LenProperties, EmptySeq
<1>3. Head(q) = q[1]
  BY <1>1
<1>4. Unclosed(q) => Unclosed(Tail(q)) /\ Head(q) # Sentinel
  BY <1>2, <1>3 DEF Unclosed
<1>5. ClosedLast(q) => ClosedLast(Tail(q))
  BY <1>2 DEF ClosedLast
<1>6. ClosedLast(q) /\ Head(q) = Sentinel => Tail(q) = << >>
  BY <1>1, <1>2, <1>3 DEF ClosedLast
<1> QED
  BY <1>2, <1>4, <1>5, <1>6 DEF IsSequence

-----------------------------------------------------------------------------

Bus == {"startup", "running"}

\* What makes SentinelLast inductive: while the bus is open no queue holds a
\* sentinel and no thread has stopped, and afterwards nothing is queued.
QInv ==
    /\ thread \in [Plugin -> ThreadStates]
    /\ DOMAIN queues = Plugin
    /\ \A p \in Plugin : IsSequence(queues[p])
    /\ phase \in Bus =>
         \A p \in Plugin : Unclosed(queues[p]) /\ thread[p] # "stopped"
    /\ SentinelLast

LEMMA UnclosedIsClosedLast ==
    ASSUME NEW q, Unclosed(q)
    PROVE  ClosedLast(q)
BY DEF Unclosed, ClosedLast

\* While the bus is open, and its queues stay unclosed, there is nothing more
\* to show.
LEMMA StaysOpen ==
    ASSUME thread' \in [Plugin -> ThreadStates], DOMAIN queues' = Plugin,
           \A p \in Plugin : /\ IsSequence(queues'[p]) /\ Unclosed(queues'[p])
                             /\ thread'[p] # "stopped"
    PROVE  QInv'
BY UnclosedIsClosedLast DEF QInv, SentinelLast, ClosedLast

LEMMA InitQInv == Init => QInv
<1> SUFFICES ASSUME Init
             PROVE  QInv
  OBVIOUS
<1>1. IsSequence(<< >>) /\ Unclosed(<< >>)
  BY EmptySeq DEF IsSequence, Unclosed
<1>2. ClosedLast(<< >>)
  BY <1>1, UnclosedIsClosedLast
<1> QED
  BY <1>1, <1>2 DEF Init, QInv, SentinelLast, ClosedLast, ThreadStates

LEMMA RunQInv == QInv /\ Run => QInv'
<1> SUFFICES ASSUME QInv, Run
             PROVE  QInv'
  OBVIOUS
<1>1. thread' \in [Plugin -> ThreadStates]
  BY DEF Run, ThreadStates
<1>2. \A p \in Plugin : thread'[p] = "idle"
  BY DEF Run
<1> QED
  BY <1>1, <1>2, StaysOpen DEF Run, QInv, Bus

LEMMA RouteQInv == QInv /\ Route => QInv'
<1> SUFFICES ASSUME QInv, Route
             PROVE  QInv'
  OBVIOUS
<1> DEFINE h == Head(routing.todo)
           e == routing.event
<1>1. phase = "running" /\ UNCHANGED <<phase, thread>>
  BY DEF Route
<1>2. \A p \in Plugin : Unclosed(queues[p]) /\ thread[p] # "stopped"
  BY <1>1 DEF QInv, Bus
<1>3. CASE UNCHANGED queues
  BY <1>1, <1>2, <1>3, StaysOpen DEF QInv
<1>4. CASE queues' = [queues EXCEPT ![h.plugin] = Append(@, Call(h, e))]
  <2>1. \A p \in Plugin :
          queues'[p] = IF p = h.plugin THEN Append(queues[p], Call(h, e))
                       ELSE queues[p]
    BY <1>4 DEF QInv
  <2>2. DOMAIN queues' = Plugin
    BY <1>4 DEF QInv
  <2>3. \A p \in Plugin : /\ IsSequence(Append(queues[p], Call(h, e)))
                          /\ Unclosed(Append(queues[p], Call(h, e)))
    BY <1>2, AppendCall, CallIsNoSentinel DEF QInv
  <2> QED
    BY <1>1, <1>2, <2>1, <2>2, <2>3, StaysOpen DEF QInv
<1> QED
  BY <1>3, <1>4 DEF Route

LEMMA LeaveLoopQInv == QInv /\ phase = "running" /\ LeaveLoop => QInv'
<1> SUFFICES ASSUME QInv, phase = "running", LeaveLoop
             PROVE  QInv'
  OBVIOUS
<1>1. /\ queues' = [p \in Plugin |-> Append(queues[p], Sentinel)]
      /\ phase' = "stopping" /\ thread' = thread
  BY DEF LeaveLoop
<1>2. \A p \in Plugin : /\ IsSequence(queues[p]) /\ Unclosed(queues[p])
                        /\ thread[p] # "stopped"
  BY DEF QInv, Bus
<1>3. \A p \in Plugin : /\ IsSequence(Append(queues[p], Sentinel))
                        /\ ClosedLast(Append(queues[p], Sentinel))
  BY <1>2, AppendSentinel
<1>4. \A p \in Plugin : IsSequence(queues'[p]) /\ ClosedLast(queues'[p])
  BY <1>1, <1>3
<1> QED
  BY <1>1, <1>2, <1>4 DEF QInv, SentinelLast, ClosedLast, Bus

LEMMA GetQInv ==
    ASSUME QInv, NEW p \in Plugin, Get(p)
    PROVE  QInv'
<1> DEFINE q == queues[p]
<1>1. /\ thread[p] = "idle" /\ q # << >> /\ phase' = phase
      /\ queues' = [queues EXCEPT ![p] = Tail(@)]
  BY DEF Get
<1>2. PICK s \in ThreadStates :
        /\ thread' = [thread EXCEPT ![p] = s]
        /\ s = "stopped" => Head(q) = Sentinel
  BY DEF Get, ThreadStates
<1>3. IsSequence(q) /\ ClosedLast(q)
  BY DEF QInv, SentinelLast, ClosedLast
<1>4. /\ IsSequence(Tail(q))
      /\ Unclosed(q) => Unclosed(Tail(q)) /\ Head(q) # Sentinel
      /\ ClosedLast(Tail(q))
      /\ Head(q) = Sentinel => Tail(q) = << >>
  BY <1>1, <1>3, TakeHead
<1>5. thread' \in [Plugin -> ThreadStates] /\ DOMAIN queues' = Plugin
  BY <1>1, <1>2 DEF QInv
<1>6. /\ queues'[p] = Tail(q) /\ thread'[p] = s
      /\ \A r \in Plugin \ {p} : queues'[r] = queues[r] /\ thread'[r] = thread[r]
  BY <1>1, <1>2 DEF QInv
<1>7. \A r \in Plugin : IsSequence(queues'[r])
  BY <1>4, <1>6 DEF QInv
<1>8. phase' \in Bus =>
        \A r \in Plugin : Unclosed(queues'[r]) /\ thread'[r] # "stopped"
  BY <1>1, <1>2, <1>4, <1>6 DEF QInv
<1>9. SentinelLast'
  <2>1. \A r \in Plugin : ClosedLast(queues'[r])
    BY <1>4, <1>6 DEF QInv, SentinelLast, ClosedLast
  <2>2. \A r \in Plugin : thread'[r] = "stopped" => queues'[r] = << >>
    BY <1>2, <1>4, <1>6 DEF QInv, SentinelLast
  <2> QED
    BY <2>1, <2>2 DEF SentinelLast, ClosedLast
<1> QED
  BY <1>5, <1>7, <1>8, <1>9 DEF QInv

\* A thread that goes on with its handler touches no queue.
LEMMA HandlerQInv ==
    ASSUME QInv, NEW p \in Plugin, Write(p) \/ Written(p) \/ Done(p)
    PROVE  QInv'
<1>1. PICK s \in ThreadStates : /\ thread' = [thread EXCEPT ![p] = s]
                                /\ s # "stopped"
  BY DEF Write, Written, Done, ThreadStates
<1>2. UNCHANGED <<phase, queues>>
  BY DEF Write, Written, Done
<1>3. \A r \in Plugin : thread'[r] = "stopped" => thread[r] = "stopped"
  BY <1>1 DEF QInv
<1>4. thread' \in [Plugin -> ThreadStates]
  BY <1>1 DEF QInv
<1> QED
  BY <1>2, <1>3, <1>4 DEF QInv, SentinelLast

LEMMA RunInterruptedQInv == QInv /\ RunInterrupted => QInv'
<1> SUFFICES ASSUME QInv, RunInterrupted
             PROVE  QInv'
  OBVIOUS
<1>1. /\ thread' \in [Plugin -> ThreadStates]
      /\ \A p \in Plugin : thread'[p] # "stopped"
  BY DEF RunInterrupted, ThreadStates
<1>2. UNCHANGED queues /\ phase = "startup"
  BY DEF RunInterrupted
<1> QED
  BY <1>1, <1>2, StaysOpen DEF QInv, Bus

LEMMA NextQInv == QInv /\ [Next]_vars => QInv'
<1> SUFFICES ASSUME QInv, [Next]_vars
             PROVE  QInv'
  OBVIOUS
<1>1. CASE UNCHANGED <<queues, thread>> /\ (phase' \in Bus => phase \in Bus)
  BY <1>1 DEF QInv, SentinelLast
<1>2. CASE Startup \/ Dispatch \/ StartupFails \/ Shutdown \/ Exit
  BY <1>1, <1>2 DEF Startup, Dispatch, StartupFails, Shutdown, Exit, Bus
<1>3. ASSUME NEW e \in Event, Emit(e)
      PROVE  QInv'
  BY <1>1, <1>3 DEF Emit
<1>4. CASE Run
  BY <1>4, RunQInv
<1>5. CASE Route
  BY <1>5, RouteQInv
<1>6. CASE Interrupt
  BY <1>6, LeaveLoopQInv DEF Interrupt
<1>7. CASE FilterRaises
  BY <1>7, LeaveLoopQInv DEF FilterRaises
<1>8. CASE RunInterrupted
  BY <1>8, RunInterruptedQInv
<1>9. ASSUME NEW p \in Plugin, Get(p) \/ Write(p) \/ Written(p) \/ Done(p)
      PROVE  QInv'
  BY <1>9, GetQInv, HandlerQInv
<1>10. CASE UNCHANGED vars
  BY <1>1, <1>10 DEF vars
<1> QED
  BY <1>2, <1>3, <1>4, <1>5, <1>6, <1>7, <1>8, <1>9, <1>10 DEF Next

\* controller.py:264-266: whenever and wherever Ctrl+C comes, a plugin's
\* sentinel is the last thing in its queue, and a thread that has stopped has
\* nothing left to do.
THEOREM SentinelsLast == Spec => []SentinelLast
<1>1. QInv => SentinelLast
  BY DEF QInv
<1> QED
  BY <1>1, InitQInv, NextQInv, PTL DEF Spec

-----------------------------------------------------------------------------
(* The types *)

Item == [handler : Handler, event : Event]

BusTypes ==
    /\ phase \in {"startup", "running", "stopping", "exited"}
    /\ loaded \in 0 .. Len(Plugins) /\ shut \in 0 .. loaded
    /\ handlers \in [EVENTS -> Seq(Handler)]
    /\ published \in Seq(Event) /\ eventQueue \in Seq(Event)
    /\ routing \in [event : Event \cup {"none"}, todo : Seq(Handler)]
    /\ routing.event = "none" => routing = Nothing
    /\ queues \in [Plugin -> Seq(Item \cup {Sentinel})]
    /\ thread \in [Plugin -> ThreadStates]
    /\ writer \in Plugin \cup {Nobody}

LEMMA PluginsFacts ==
    /\ Len(Plugins) \in Nat /\ DOMAIN Plugins = 1 .. Len(Plugins)
    /\ \A i \in 1 .. Len(Plugins) : Plugins[i] \in Plugin
BY PluginsAssumption DEF Plugin

LEMMA HandlerFacts ==
    ASSUME NEW h \in Handler
    PROVE  h.plugin \in Plugin
<1>0. PICK p \in Plugin, t \in EVENTS :
        \E i \in DOMAIN Subscriptions[p][t] : h = Subscriptions[p][t][i]
  BY DEF Handler, Range
<1>1. PICK i \in DOMAIN Subscriptions[p][t] : h = Subscriptions[p][t][i]
  BY <1>0
<1>2. Subscriptions[p][t][i].plugin = p
  BY SubscriptionsAssumption
<1> QED
  BY <1>1, <1>2

\* What is in hand is an event and the entries still to be consulted.
LEMMA HandTypes ==
    ASSUME BusTypes
    PROVE  /\ routing.event \in Event \cup {"none"} /\ routing.todo \in Seq(Handler)
           /\ routing # Nothing => routing.event \in Event
           /\ routing = [event |-> routing.event, todo |-> routing.todo]
BY DEF BusTypes

LEMMA HeadTail ==
    ASSUME NEW S, NEW q \in Seq(S), q # << >>
    PROVE  /\ Head(q) \in S /\ Tail(q) \in Seq(S)
           /\ Head(q) = q[1] /\ DOMAIN q = 1 .. Len(q) /\ Len(q) \in Nat \ {0}
           /\ DOMAIN Tail(q) = 1 .. Len(q) - 1
           /\ \A i \in 1 .. Len(q) - 1 : Tail(q)[i] = q[i + 1]
BY HeadTailProperties, LenProperties, EmptySeq

LEMMA AppendFacts ==
    ASSUME NEW S, NEW q \in Seq(S), NEW x \in S
    PROVE  /\ Append(q, x) \in Seq(S)
           /\ DOMAIN q = 1 .. Len(q) /\ Len(q) \in Nat
           /\ DOMAIN Append(q, x) = 1 .. Len(q) + 1
           /\ \A i \in 1 .. Len(q) : Append(q, x)[i] = q[i]
           /\ Append(q, x)[Len(q) + 1] = x
OBVIOUS

LEMMA InitTypes == Init => BusTypes
<1> SUFFICES ASSUME Init PROVE BusTypes
  OBVIOUS
<1>1. \A S : << >> \in Seq(S)
  BY EmptySeq
<1> QED
  BY <1>1, PluginsFacts DEF Init, BusTypes, Nothing, ThreadStates

LEMMA RouteTypes == BusTypes /\ Route => BusTypes'
<1> SUFFICES ASSUME BusTypes, Route PROVE BusTypes'
  OBVIOUS
<1>0. UNCHANGED <<phase, loaded, shut, handlers, published, eventQueue, thread, writer>>
  BY DEF Route
<1>1. CASE routing.todo = << >>
  BY <1>0, <1>1, EmptySeq DEF Route, BusTypes, Nothing
<1>2. CASE routing.todo # << >>
  <2> DEFINE h == Head(routing.todo)
             e == routing.event
  <2>1. h \in Handler /\ Tail(routing.todo) \in Seq(Handler)
    BY <1>2, HandTypes, HeadTail
  <2>2. e \in Event
    BY HandTypes DEF Route
  <2>3. routing' = [routing EXCEPT !.todo = Tail(@)]
    BY <1>2 DEF Route
  <2>4. /\ routing' \in [event : Event \cup {"none"}, todo : Seq(Handler)]
        /\ routing'.event = e
    BY <2>1, <2>3, HandTypes DEF BusTypes
  <2>5. routing'.event # "none"
    BY <2>2, <2>4, NoneAssumption
  <2>6. queues' \in [Plugin -> Seq(Item \cup {Sentinel})]
    <3>1. CASE queues' = queues
      BY <3>1 DEF BusTypes
    <3>2. CASE queues' = [queues EXCEPT ![h.plugin] = Append(@, Call(h, e))]
      <4>1. Call(h, e) \in Item \cup {Sentinel}
        BY <2>1, <2>2 DEF Call, Item
      <4>2. h.plugin \in Plugin
        BY <2>1, HandlerFacts
      <4>3. queues[h.plugin] \in Seq(Item \cup {Sentinel})
        BY <4>2 DEF BusTypes
      <4> DEFINE I == Item \cup {Sentinel}
                 c == Call(h, e)
      <4> HIDE DEF I, c
      <4>4. Append(queues[h.plugin], c) \in Seq(I)
        BY <4>1, <4>3, AppendFacts DEF I, c
      <4>5. queues \in [Plugin -> Seq(I)]
        BY DEF BusTypes, I
      <4>6. queues' \in [Plugin -> Seq(I)]
        BY <3>2, <4>4, <4>5 DEF c
      <4> QED
        BY <4>6 DEF I
    <3> QED
      BY <1>2, <3>1, <3>2 DEF Route
  <2> QED
    BY <1>0, <2>4, <2>5, <2>6 DEF BusTypes
<1> QED
  BY <1>1, <1>2

LEMMA LeaveLoopTypes == BusTypes /\ LeaveLoop => BusTypes'
<1> SUFFICES ASSUME BusTypes, LeaveLoop PROVE BusTypes'
  OBVIOUS
<1> DEFINE I == Item \cup {Sentinel}
<1>1. queues \in [Plugin -> Seq(I)] /\ Sentinel \in I
  BY DEF BusTypes
<1> HIDE DEF I
<1>2. \A p \in Plugin : Append(queues[p], Sentinel) \in Seq(I)
  BY <1>1, AppendFacts
<1>3. queues' \in [Plugin -> Seq(I)]
  BY <1>2 DEF LeaveLoop
<1>4. queues' \in [Plugin -> Seq(Item \cup {Sentinel})]
  BY <1>3 DEF I
<1> QED
  BY <1>4, EmptySeq DEF LeaveLoop, BusTypes, Nothing

LEMMA GetTypes ==
    ASSUME BusTypes, NEW p \in Plugin, Get(p)
    PROVE  BusTypes'
<1> DEFINE I == Item \cup {Sentinel}
<1>1. queues \in [Plugin -> Seq(I)] /\ queues[p] # << >>
  BY DEF BusTypes, Get
<1> HIDE DEF I
<1>2. Tail(queues[p]) \in Seq(I)
  BY <1>1, HeadTail
<1>3. queues' \in [Plugin -> Seq(I)]
  BY <1>1, <1>2 DEF Get
<1>4. queues' \in [Plugin -> Seq(Item \cup {Sentinel})]
  BY <1>3 DEF I
<1>5. thread' \in [Plugin -> ThreadStates]
  BY DEF Get, BusTypes, ThreadStates
<1> QED
  BY <1>4, <1>5 DEF Get, BusTypes

LEMMA NextTypes == BusTypes /\ [Next]_vars => BusTypes'
<1> SUFFICES ASSUME BusTypes, [Next]_vars PROVE BusTypes'
  OBVIOUS
<1>1. CASE Startup
  <2>1. loaded \in Nat /\ loaded + 1 \in 1 .. Len(Plugins) /\ shut \in 0 .. loaded + 1
    BY <1>1, PluginsFacts DEF Startup, BusTypes
  <2>2. \A t \in EVENTS : Subscriptions[Plugins[loaded + 1]][t] \in Seq(Handler)
    BY <2>1, PluginsFacts, SubscriptionsAssumption
  <2>3. handlers' \in [EVENTS -> Seq(Handler)]
    BY <1>1, <2>2 DEF Startup, BusTypes
  <2> QED
    BY <1>1, <2>1, <2>3, PluginsFacts DEF Startup, BusTypes
<1>2. CASE Run \/ RunInterrupted
  <2>1. thread' \in [Plugin -> ThreadStates]
    BY <1>2 DEF Run, RunInterrupted, ThreadStates
  <2> QED
    BY <1>2, <2>1 DEF Run, RunInterrupted, BusTypes
<1>3. ASSUME NEW e \in Event, Emit(e) PROVE BusTypes'
  BY <1>3, AppendFacts DEF Emit, BusTypes
<1>4. CASE Dispatch
  <2>1. Head(eventQueue) \in Event /\ Tail(eventQueue) \in Seq(Event)
    BY <1>4, HeadTail DEF Dispatch, BusTypes
  <2>2. routing' = [event |-> Head(eventQueue),
                    todo |-> handlers[EventType[Head(eventQueue)]]]
    BY <1>4 DEF Dispatch
  <2>3. /\ routing' \in [event : Event \cup {"none"}, todo : Seq(Handler)]
        /\ routing'.event # "none"
    BY <2>1, <2>2, SubscriptionsAssumption, NoneAssumption DEF BusTypes
  <2> QED
    BY <1>4, <2>1, <2>3 DEF Dispatch, BusTypes
<1>5. CASE Route
  BY <1>5, RouteTypes
<1>6. CASE Interrupt \/ FilterRaises
  BY <1>6, LeaveLoopTypes DEF Interrupt, FilterRaises
<1>7. CASE StartupFails \/ Exit
  BY <1>7 DEF StartupFails, Exit, BusTypes
<1>8. CASE Shutdown
  BY <1>8, PluginsFacts DEF Shutdown, BusTypes
<1>9. ASSUME NEW p \in Plugin, Get(p) PROVE BusTypes'
  BY <1>9, GetTypes
<1>10. ASSUME NEW p \in Plugin, Write(p) \/ Written(p) \/ Done(p) PROVE BusTypes'
  BY <1>10 DEF Write, Written, Done, BusTypes, ThreadStates
<1>11. CASE UNCHANGED vars
  BY <1>11 DEF vars, BusTypes
<1> QED
  BY <1>1, <1>2, <1>3, <1>4, <1>5, <1>6, <1>7, <1>8, <1>9, <1>10, <1>11 DEF Next

LEMMA SpecTypes == Spec => []BusTypes
BY InitTypes, NextTypes, PTL DEF Spec

\* controller.py: the queues hold nothing but calls of subscribed handlers and
\* sentinels, the dispatcher consults nothing but subscribed handlers.
THEOREM TypeCorrect == Spec => []TypeOK
<1>1. BusTypes => TypeOK
  <2> SUFFICES ASSUME BusTypes PROVE TypeOK
    OBVIOUS
  <2>1. ASSUME NEW p \in Plugin, NEW i \in DOMAIN queues[p]
        PROVE  \/ queues[p][i] = Sentinel
               \/ /\ queues[p][i].handler \in Handler
                  /\ queues[p][i].event \in Event
    <3>1. queues[p] \in Seq(Item \cup {Sentinel})
      BY DEF BusTypes
    <3>2. queues[p][i] \in Item \cup {Sentinel}
      BY <3>1
    <3> QED
      BY <3>2 DEF Item
  <2> QED
    BY <2>1, HandTypes DEF BusTypes, TypeOK
<1> QED
  BY <1>1, SpecTypes, PTL

-----------------------------------------------------------------------------
(* The bus implements Mailboxes *)

Earlier(d, e) == Promise!Earlier(d, e)
Before(c, d) == Promise!Before(c, d)

\* The call that an item of a plugin's queue is.
Key(c) == <<c.event, c.handler.nth>>

Entries(p, t) == Range(Subscriptions[p][t])

\* The entries of one plugin stand in the order of its subscriptions.
Sorted(q) ==
    \A i, j \in DOMAIN q :
        i < j /\ q[i].plugin = q[j].plugin => q[i].nth < q[j].nth

PublishedOnce ==
    \A i, j \in DOMAIN published : published[i] = published[j] => i = j

\* _handlers holds what the loaded plugins have subscribed.
HandlersOK ==
    \A t \in EVENTS :
        /\ \A h \in Range(handlers[t]) : Loaded(h.plugin) /\ h \in Entries(h.plugin, t)
        /\ \A p \in Plugin : Loaded(p) => Entries(p, t) \subseteq Range(handlers[t])
        /\ Sorted(handlers[t])

\* Nothing is routed before all plugins are loaded.
PhaseOK ==
    /\ phase = "startup" =>
         /\ routing = Nothing
         /\ \A p \in Plugin : queues[p] = << >> /\ thread[p] = "none"
    /\ phase = "running" => loaded = Len(Plugins)

\* Three places in a row: what is in a plugin's queue comes before what the
\* dispatcher has in hand, and that before what is in the event queue.
EventQueueOK ==
    /\ Range(eventQueue) \subseteq Range(published)
    /\ \A i, j \in DOMAIN eventQueue :
         i < j => Earlier(eventQueue[i], eventQueue[j])

HandOK ==
    /\ Sorted(routing.todo)
    /\ routing # Nothing =>
         /\ routing.event \in Range(published)
         /\ \A e \in Range(eventQueue) : Earlier(routing.event, e)

QueueOK(p) ==
    /\ \A c \in Range(queues[p]) \ {Sentinel} : c.event \in Range(published)
    /\ \A i, j \in DOMAIN queues[p] :
         i < j /\ queues[p][i] # Sentinel /\ queues[p][j] # Sentinel =>
             Before(Key(queues[p][i]), Key(queues[p][j]))
    /\ \A c \in Queued(p), d \in InHand(p) \cup Ahead(p) : Before(c, d)

BusInv ==
    /\ BusTypes /\ PublishedOnce /\ HandlersOK /\ PhaseOK
    /\ EventQueueOK /\ HandOK /\ \A p \in Plugin : QueueOK(p)

LEMMA RangeOfAppend ==
    ASSUME NEW S, NEW q \in Seq(S), NEW x \in S
    PROVE  Range(Append(q, x)) = Range(q) \cup {x}
<1> DEFINE r == Append(q, x)
<1>1. /\ DOMAIN q = 1 .. Len(q) /\ Len(q) \in Nat /\ DOMAIN r = 1 .. Len(q) + 1
      /\ \A i \in 1 .. Len(q) : r[i] = q[i]
      /\ r[Len(q) + 1] = x
  BY AppendFacts
<1> HIDE DEF r
<1>2. Range(r) = Range(q) \cup {x}
  BY <1>1 DEF Range
<1> QED
  BY <1>2 DEF r

LEMMA RangeOfTail ==
    ASSUME NEW S, NEW q \in Seq(S), q # << >>
    PROVE  Range(q) = {Head(q)} \cup Range(Tail(q))
<1> DEFINE r == Tail(q)
<1>1. /\ Head(q) = q[1] /\ DOMAIN q = 1 .. Len(q) /\ Len(q) \in Nat \ {0}
      /\ DOMAIN r = 1 .. Len(q) - 1
      /\ \A i \in 1 .. Len(q) - 1 : r[i] = q[i + 1]
  BY HeadTail
<1> HIDE DEF r
<1>2. ASSUME NEW x \in Range(q) PROVE x \in {Head(q)} \cup Range(r)
  <2>1. PICK i \in 1 .. Len(q) : q[i] = x
    BY <1>1, <1>2 DEF Range
  <2>2. CASE i = 1
    BY <1>1, <2>1, <2>2
  <2>3. CASE i # 1
    <3>1. i - 1 \in DOMAIN r /\ r[i - 1] = x
      BY <1>1, <2>1, <2>3
    <3> QED
      BY <3>1 DEF Range
  <2> QED
    BY <2>2, <2>3
<1>3. ASSUME NEW x \in {Head(q)} \cup Range(r) PROVE x \in Range(q)
  BY <1>1, <1>3 DEF Range
<1>4. Range(q) = {Head(q)} \cup Range(r)
  BY <1>2, <1>3
<1> QED
  BY <1>4 DEF r

LEMMA RangeOfConcat ==
    ASSUME NEW S, NEW q \in Seq(S), NEW r \in Seq(S)
    PROVE  /\ Range(q \o r) = Range(q) \cup Range(r)
           /\ DOMAIN q = 1 .. Len(q) /\ Len(q) \in Nat
           /\ DOMAIN r = 1 .. Len(r) /\ Len(r) \in Nat
           /\ DOMAIN (q \o r) = 1 .. Len(q) + Len(r)
           /\ \A i \in 1 .. Len(q) : (q \o r)[i] = q[i]
           /\ \A i \in 1 .. Len(r) : (q \o r)[Len(q) + i] = r[i]
<1> DEFINE s == q \o r
<1>1. /\ DOMAIN q = 1 .. Len(q) /\ Len(q) \in Nat
      /\ DOMAIN r = 1 .. Len(r) /\ Len(r) \in Nat
      /\ DOMAIN s = 1 .. Len(q) + Len(r)
      /\ \A i \in 1 .. Len(q) : s[i] = q[i]
      /\ \A i \in 1 .. Len(r) : s[Len(q) + i] = r[i]
  BY ConcatProperties
<1> HIDE DEF s
<1>2. ASSUME NEW x \in Range(s) PROVE x \in Range(q) \cup Range(r)
  <2>1. PICK i \in 1 .. Len(q) + Len(r) : s[i] = x
    BY <1>1, <1>2 DEF Range
  <2>2. CASE i <= Len(q)
    BY <1>1, <2>1, <2>2 DEF Range
  <2>3. CASE i > Len(q)
    <3>1. i - Len(q) \in 1 .. Len(r) /\ i = Len(q) + (i - Len(q))
      BY <1>1, <2>1, <2>3
    <3>2. r[i - Len(q)] = x
      BY <1>1, <2>1, <3>1
    <3> QED
      BY <1>1, <3>1, <3>2 DEF Range
  <2> QED
    BY <1>1, <2>2, <2>3
<1>3. ASSUME NEW x \in Range(q) \cup Range(r) PROVE x \in Range(s)
  <2>1. CASE x \in Range(q)
    <3>1. PICK i \in 1 .. Len(q) : q[i] = x
      BY <1>1, <2>1 DEF Range
    <3>2. i \in DOMAIN s /\ s[i] = x
      BY <1>1, <3>1
    <3> QED
      BY <3>2 DEF Range
  <2>2. CASE x \in Range(r)
    <3>1. PICK i \in 1 .. Len(r) : r[i] = x
      BY <1>1, <2>2 DEF Range
    <3>2. Len(q) + i \in DOMAIN s /\ s[Len(q) + i] = x
      BY <1>1, <3>1
    <3> QED
      BY <3>2 DEF Range
  <2> QED
    BY <1>3, <2>1, <2>2
<1> QED
  BY <1>1, <1>2, <1>3 DEF s

LEMMA ElementTypes ==
    ASSUME NEW S, NEW q \in Seq(S)
    PROVE  Range(q) \subseteq S /\ \A i \in DOMAIN q : q[i] \in Range(q)
BY DEF Range

\* What a subscription is: whose, and its number.
LEMMA EntryFacts ==
    ASSUME NEW p \in Plugin, NEW t \in EVENTS, NEW h \in Entries(p, t)
    PROVE  h \in Handler /\ h.plugin = p /\ h.nth \in Nat
<1>1. PICK i \in DOMAIN Subscriptions[p][t] : h = Subscriptions[p][t][i]
  BY DEF Entries, Range
<1>2. h.plugin = p /\ h.nth = i
  BY <1>1, SubscriptionsAssumption
<1>3. Subscriptions[p][t] \in Seq(Handler)
  BY SubscriptionsAssumption
<1> QED
  BY <1>1, <1>2, <1>3

LEMMA HandlerNth ==
    ASSUME NEW h \in Handler
    PROVE  h.nth \in Nat
BY EntryFacts DEF Handler, Entries

\* No event comes before itself, and no call.
LEMMA NotBeforeItself ==
    ASSUME BusTypes, PublishedOnce
    PROVE  /\ \A e : ~ Earlier(e, e)
           /\ \A c : c[2] \in Nat => ~ Before(c, c)
<1>1. DOMAIN published = 1 .. Len(published) /\ Len(published) \in Nat
  BY DEF BusTypes
<1>2. \A e : ~ Earlier(e, e)
  BY <1>1 DEF PublishedOnce, Earlier, Promise!Earlier
<1> QED
  BY <1>2 DEF Before, Promise!Before, Earlier

\* Publishing an event puts it after all the others, and changes nothing else.
LEMMA PublishedLast ==
    ASSUME BusTypes, NEW e \in Event, published' = Append(published, e)
    PROVE  /\ Range(published') = Range(published) \cup {e}
           /\ \A c, d : Earlier(c, d) => Earlier(c, d)'
           /\ \A d \in Range(published) : Earlier(d, e)'
<1>1. /\ DOMAIN published = 1 .. Len(published) /\ Len(published) \in Nat
      /\ DOMAIN published' = 1 .. Len(published) + 1
      /\ \A i \in 1 .. Len(published) : published'[i] = published[i]
      /\ published'[Len(published) + 1] = e
  BY AppendFacts DEF BusTypes
<1>2. Range(published') = Range(published) \cup {e}
  BY RangeOfAppend DEF BusTypes
<1>3. ASSUME NEW c, NEW d, Earlier(c, d) PROVE Earlier(c, d)'
  <2>1. PICK i \in DOMAIN published, j \in DOMAIN published :
          i < j /\ published[i] = c /\ published[j] = d
    BY <1>3 DEF Earlier, Promise!Earlier
  <2>2. /\ i \in DOMAIN published' /\ j \in DOMAIN published'
        /\ published'[i] = c /\ published'[j] = d
    BY <1>1, <2>1
  <2> QED
    BY <2>1, <2>2 DEF Earlier, Promise!Earlier
<1>4. ASSUME NEW d \in Range(published) PROVE Earlier(d, e)'
  <2>1. PICK i \in 1 .. Len(published) : published[i] = d
    BY <1>1 DEF Range
  <2>2. /\ i \in DOMAIN published' /\ Len(published) + 1 \in DOMAIN published'
        /\ i < Len(published) + 1 /\ published'[i] = d
    BY <1>1, <2>1
  <2> QED
    BY <1>1, <2>2 DEF Earlier, Promise!Earlier
<1> QED
  BY <1>2, <1>3, <1>4

LEMMA BeforeStays ==
    ASSUME NEW c, NEW d, Before(c, d),
           \A a, b : Earlier(a, b) => Earlier(a, b)'
    PROVE  Before(c, d)'
BY DEF Before, Promise!Before, Earlier

-----------------------------------------------------------------------------

\* Steps that move no event and no call.
LEMMA NothingMoved ==
    ASSUME BusInv, BusTypes', PhaseOK',
           UNCHANGED <<loaded, handlers, published, eventQueue, routing, queues>>
    PROVE  BusInv'
<1>1. PublishedOnce' /\ HandlersOK'
  BY DEF BusInv, PublishedOnce, HandlersOK, Loaded, Sorted
<1>2. EventQueueOK' /\ HandOK'
  BY DEF BusInv, EventQueueOK, HandOK, Sorted, Earlier, Promise!Earlier
<1>3. ASSUME NEW p \in Plugin PROVE QueueOK(p)'
  <2>1. QueueOK(p)
    BY DEF BusInv
  <2> QED
    BY <2>1 DEF QueueOK, Queued, InHand, Ahead, Before, Promise!Before,
                Promise!Earlier
<1> QED
  BY <1>1, <1>2, <1>3 DEF BusInv

LEMMA StartupInv == BusInv /\ BusTypes' /\ Startup => BusInv'
<1> SUFFICES ASSUME BusInv, BusTypes', Startup PROVE BusInv'
  OBVIOUS
<1> DEFINE new == Plugins[loaded + 1]
<1>1. /\ loaded \in 0 .. Len(Plugins) /\ loaded < Len(Plugins) /\ loaded' = loaded + 1
      /\ handlers' = [t \in EVENTS |-> handlers[t] \o Subscriptions[new][t]]
  BY DEF Startup, BusInv, BusTypes
<1>2. /\ UNCHANGED <<published, eventQueue, routing, queues>>
      /\ UNCHANGED <<phase, thread>> /\ phase = "startup"
  BY DEF Startup
<1>3. PublishedOnce' /\ EventQueueOK' /\ HandOK' /\ PhaseOK'
  BY <1>2 DEF BusInv, PublishedOnce, EventQueueOK, HandOK, PhaseOK, Sorted,
              Earlier, Promise!Earlier
<1>4. ASSUME NEW p \in Plugin PROVE QueueOK(p)'
  <2>1. QueueOK(p)
    BY DEF BusInv
  <2> QED
    BY <1>2, <2>1 DEF QueueOK, Queued, InHand, Ahead, Before, Promise!Before,
                      Promise!Earlier
<1>5. new \in Plugin /\ \A p : Loaded(p)' <=> Loaded(p) \/ p = new
  <2>1. loaded + 1 \in 1 .. Len(Plugins)
    BY <1>1, PluginsFacts
  <2>2. \A i : i \in 1 .. loaded + 1 <=> i \in 1 .. loaded \/ i = loaded + 1
    BY <1>1
  <2> QED
    BY <1>1, <2>1, <2>2, PluginsFacts DEF Loaded
<1>6. ~ Loaded(new)
  <2>1. ASSUME NEW i \in 1 .. loaded PROVE Plugins[i] # Plugins[loaded + 1]
    <3>1. /\ i \in DOMAIN Plugins /\ loaded + 1 \in DOMAIN Plugins
          /\ i # loaded + 1
      BY <1>1, PluginsFacts
    <3> QED
      BY <3>1, PluginsAssumption
  <2> QED
    BY <2>1 DEF Loaded
<1>7. HandlersOK'
  <2> SUFFICES ASSUME NEW t \in EVENTS
               PROVE  /\ \A h \in Range(handlers'[t]) :
                           Loaded(h.plugin)' /\ h \in Entries(h.plugin, t)
                      /\ \A p \in Plugin : Loaded(p)' =>
                           Entries(p, t) \subseteq Range(handlers'[t])
                      /\ Sorted(handlers'[t])
    BY DEF HandlersOK, Entries
  <2> DEFINE q == handlers[t]
             r == Subscriptions[new][t]
  <2>1. q \in Seq(Handler) /\ r \in Seq(Handler)
    BY <1>5, SubscriptionsAssumption DEF BusInv, BusTypes
  <2>2. handlers'[t] = q \o r
    BY <1>1
  <2>3. /\ \A h \in Range(q) : Loaded(h.plugin) /\ h \in Entries(h.plugin, t)
        /\ \A p \in Plugin : Loaded(p) => Entries(p, t) \subseteq Range(q)
        /\ Sorted(q)
    BY DEF BusInv, HandlersOK
  <2>4. \A h \in Range(r) : h.plugin = new /\ h \in Entries(new, t)
    BY <1>5, EntryFacts DEF Entries
  <2>5. Entries(new, t) = Range(r)
    BY DEF Entries
  <2> HIDE DEF new, q, r
  <2>6. /\ Range(q \o r) = Range(q) \cup Range(r)
        /\ DOMAIN q = 1 .. Len(q) /\ Len(q) \in Nat
        /\ DOMAIN r = 1 .. Len(r) /\ Len(r) \in Nat
        /\ DOMAIN (q \o r) = 1 .. Len(q) + Len(r)
        /\ \A i \in 1 .. Len(q) : (q \o r)[i] = q[i]
        /\ \A i \in 1 .. Len(r) : (q \o r)[Len(q) + i] = r[i]
    BY <2>1, RangeOfConcat
  <2>7. \A h \in Range(q \o r) : Loaded(h.plugin)' /\ h \in Entries(h.plugin, t)
    BY <1>5, <2>3, <2>4, <2>6
  <2>8. \A p \in Plugin : Loaded(p)' => Entries(p, t) \subseteq Range(q \o r)
    BY <1>5, <2>3, <2>5, <2>6
  <2>9. Sorted(q \o r)
    <3> DEFINE s == q \o r
    <3> HIDE DEF s
    <3> SUFFICES ASSUME NEW i \in DOMAIN s, NEW j \in DOMAIN s,
                        i < j, s[i].plugin = s[j].plugin
                 PROVE  s[i].nth < s[j].nth
      BY DEF Sorted, s
    <3>1. CASE j <= Len(q)
      <4>1. i \in DOMAIN q /\ j \in DOMAIN q /\ s[i] = q[i] /\ s[j] = q[j]
        BY <2>6, <3>1 DEF s
      <4> QED
        BY <2>3, <4>1 DEF Sorted
    <3>2. CASE i <= Len(q) /\ j > Len(q)
      <4>1. i \in DOMAIN q /\ s[i] = q[i]
        BY <2>6, <3>2 DEF s
      <4>2. j - Len(q) \in DOMAIN r /\ s[j] = r[j - Len(q)]
        <5>1. j - Len(q) \in 1 .. Len(r) /\ j = Len(q) + (j - Len(q))
          BY <2>6, <3>2 DEF s
        <5> QED
          BY <2>6, <5>1 DEF s
      <4>3. Loaded(s[i].plugin) /\ s[j].plugin = new
        BY <2>3, <2>4, <4>1, <4>2 DEF Range
      <4> QED
        BY <1>6, <4>3 DEF new
    <3>3. CASE i > Len(q)
      <4> DEFINE a == i - Len(q)
                 b == j - Len(q)
      <4>1. a \in 1 .. Len(r) /\ b \in 1 .. Len(r) /\ i = Len(q) + a /\ j = Len(q) + b
        BY <2>6, <3>3 DEF s
      <4>2. s[i] = r[a] /\ s[j] = r[b] /\ a < b
        <5> HIDE DEF a, b
        <5> QED
          BY <2>6, <4>1 DEF s
      <4>3. r[a].nth = a /\ r[b].nth = b
        BY <1>5, <2>6, <4>1, SubscriptionsAssumption DEF r, new
      <4> QED
        BY <4>2, <4>3
    <3> QED
      BY <2>6, <3>1, <3>2, <3>3 DEF s
  <2> QED
    BY <2>2, <2>7, <2>8, <2>9
<1> QED
  BY <1>3, <1>4, <1>7 DEF BusInv

\* An event that is published is the last of the event queue.
LEMMA EmitInv == \A e \in Event : BusInv /\ BusTypes' /\ Emit(e) => BusInv'
<1> SUFFICES ASSUME NEW e \in Event, BusInv, BusTypes', Emit(e) PROVE BusInv'
  OBVIOUS
<1>1. /\ published' = Append(published, e) /\ e \notin Range(published)
      /\ eventQueue' = Append(eventQueue, e)
      /\ UNCHANGED <<phase, loaded, handlers, routing, queues, thread>>
  BY DEF Emit
<1>2. /\ Range(published') = Range(published) \cup {e}
      /\ \A c, d : Earlier(c, d) => Earlier(c, d)'
      /\ \A d \in Range(published) : Earlier(d, e)'
  BY <1>1, PublishedLast DEF BusInv
<1>3. HandlersOK' /\ PhaseOK'
  BY <1>1 DEF BusInv, HandlersOK, PhaseOK, Loaded, Sorted
<1>4. PublishedOnce'
  <2>1. /\ DOMAIN published = 1 .. Len(published) /\ Len(published) \in Nat
        /\ DOMAIN published' = 1 .. Len(published) + 1
        /\ \A i \in 1 .. Len(published) : published'[i] = published[i]
        /\ published'[Len(published) + 1] = e
    BY <1>1, AppendFacts DEF BusInv, BusTypes
  <2>2. \A i \in 1 .. Len(published) : published'[i] # e
    BY <1>1, <2>1 DEF Range
  <2> QED
    BY <2>1, <2>2 DEF BusInv, PublishedOnce
<1>5. Range(eventQueue') = Range(eventQueue) \cup {e}
  BY <1>1, RangeOfAppend DEF BusInv, BusTypes
<1>6. EventQueueOK'
  <2>1. /\ DOMAIN eventQueue = 1 .. Len(eventQueue) /\ Len(eventQueue) \in Nat
        /\ DOMAIN eventQueue' = 1 .. Len(eventQueue) + 1
        /\ \A i \in 1 .. Len(eventQueue) : eventQueue'[i] = eventQueue[i]
        /\ eventQueue'[Len(eventQueue) + 1] = e
    BY <1>1, AppendFacts DEF BusInv, BusTypes
  <2>2. ASSUME NEW i \in DOMAIN eventQueue', NEW j \in DOMAIN eventQueue', i < j,
               NEW a, NEW b, a = eventQueue'[i], b = eventQueue'[j]
        PROVE  Earlier(a, b)'
    <3>1. i \in 1 .. Len(eventQueue) /\ a = eventQueue[i] /\ a \in Range(published)
      BY <2>1, <2>2 DEF BusInv, EventQueueOK, Range
    <3>2. CASE j \in 1 .. Len(eventQueue)
      <4>1. Earlier(a, b)
        BY <2>1, <2>2, <3>1, <3>2 DEF BusInv, EventQueueOK
      <4> QED
        BY <1>2, <4>1
    <3>3. CASE j = Len(eventQueue) + 1
      <4>1. b = e
        BY <2>1, <2>2, <3>3
      <4> QED
        BY <1>2, <3>1, <4>1
    <3> QED
      BY <2>1, <3>2, <3>3
  <2>3. \A i, j \in DOMAIN eventQueue' :
          i < j => Earlier(eventQueue[i], eventQueue[j])'
    BY <2>2 DEF Earlier, Promise!Earlier
  <2>4. Range(eventQueue') \subseteq Range(published')
    BY <1>2, <1>5 DEF BusInv, EventQueueOK
  <2> QED
    BY <2>3, <2>4 DEF EventQueueOK
<1>7. HandOK'
  <2>1. Sorted(routing'.todo)
    BY <1>1 DEF BusInv, HandOK
  <2>2. ASSUME routing # Nothing, NEW r, r = routing.event
        PROVE  /\ r \in Range(published')
               /\ \A d \in Range(eventQueue') : Earlier(r, d)'
    BY <1>2, <1>5, <2>2 DEF BusInv, HandOK
  <2>3. routing' # Nothing =>
          \A d \in Range(eventQueue') : Earlier(routing.event, d)'
    BY <1>1, <2>2 DEF Earlier, Promise!Earlier
  <2> QED
    BY <1>1, <2>1, <2>2, <2>3 DEF HandOK, Sorted
<1>8. ASSUME NEW p \in Plugin PROVE QueueOK(p)'
  <2>1. UNCHANGED <<queues[p], Queued(p), InHand(p)>>
    BY <1>1 DEF Queued, InHand
  <2>2. Ahead(p)' = Ahead(p) \cup {e} \X Wanted(p, e)
    BY <1>5 DEF Ahead, Wanted
  <2>3. \A c \in Range(queues[p]) \ {Sentinel} : c.event \in Range(published)
    BY DEF BusInv, QueueOK
  <2>4. \A c \in Queued(p) : c[1] \in Range(published)
    BY <2>3 DEF Queued
  <2>5. ASSUME NEW c \in Queued(p), NEW d \in InHand(p) \cup Ahead(p)'
        PROVE  Before(c, d)'
    <3>1. CASE d \in InHand(p) \cup Ahead(p)
      BY <1>2, <3>1, BeforeStays DEF BusInv, QueueOK
    <3>2. CASE d \in {e} \X Wanted(p, e)
      <4>1. Earlier(c[1], e)' /\ d[1] = e
        BY <1>2, <2>4, <3>2
      <4> QED
        BY <4>1 DEF Before, Promise!Before, Earlier
    <3> QED
      BY <2>2, <3>1, <3>2
  <2>6. ASSUME NEW i \in DOMAIN queues[p], NEW j \in DOMAIN queues[p], i < j,
               queues[p][i] # Sentinel, queues[p][j] # Sentinel,
               NEW a, NEW b, a = Key(queues[p][i]), b = Key(queues[p][j])
        PROVE  Before(a, b)'
    <3>1. Before(a, b)
      BY <2>6 DEF BusInv, QueueOK
    <3> QED
      BY <1>2, <3>1, BeforeStays
  <2>7. \A i, j \in DOMAIN queues[p]' :
          i < j /\ queues[p][i]' # Sentinel /\ queues[p][j]' # Sentinel =>
            Before(Key(queues[p][i]), Key(queues[p][j]))'
    BY <2>1, <2>6 DEF Before, Promise!Before, Promise!Earlier
  <2> QED
    BY <1>2, <2>1, <2>3, <2>5, <2>7 DEF QueueOK, Before, Promise!Before,
                                        Promise!Earlier
<1> QED
  BY <1>3, <1>4, <1>6, <1>7, <1>8 DEF BusInv

\* The dispatcher takes an event: what was ahead is now ahead or in hand.
LEMMA DispatchPlaces ==
    ASSUME BusInv, Dispatch, NEW p \in Plugin
    PROVE  InHand(p) = {} /\ InHand(p)' \cup Ahead(p)' = Ahead(p)
<1>1. PICK e : e = Head(eventQueue)
  OBVIOUS
<1>2. PICK t : t = EventType[e]
  OBVIOUS
<1>3. /\ eventQueue # << >> /\ eventQueue' = Tail(eventQueue)
      /\ routing = Nothing /\ phase = "running"
      /\ routing' = [event |-> e, todo |-> handlers[t]]
  BY <1>1, <1>2 DEF Dispatch
<1>4. e \in Event /\ t \in EVENTS /\ Range(eventQueue) = {e} \cup Range(eventQueue')
  <2>1. eventQueue \in Seq(Event)
    BY DEF BusInv, BusTypes
  <2>2. e \in Event
    BY <1>1, <1>3, <2>1, HeadTail
  <2>3. Range(eventQueue) = {e} \cup Range(eventQueue')
    BY <1>1, <1>3, <2>1, RangeOfTail
  <2> QED
    BY <1>2, <2>2, <2>3, SubscriptionsAssumption
<1>5. InHand(p) = {}
  BY <1>3 DEF InHand, Nothing, Range
<1>6. InHand(p)' = {<<e, h.nth>> : h \in {h \in Range(handlers[t]) :
                                          h.plugin = p /\ e \in h.accepts}}
  BY <1>3 DEF InHand
<1>7. Wanted(p, e) = {h.nth : h \in {h \in Entries(p, t) : e \in h.accepts}}
  BY <1>2 DEF Wanted, Entries
<1>8. Loaded(p)
  <2>1. loaded = Len(Plugins)
    BY <1>3 DEF BusInv, PhaseOK
  <2> QED
    BY <2>1, PluginsFacts DEF Loaded, Plugin
<1>9. \A h : h \in Range(handlers[t]) /\ h.plugin = p <=> h \in Entries(p, t)
  <2>1. \A h \in Range(handlers[t]) : h \in Entries(h.plugin, t)
    BY <1>4 DEF BusInv, HandlersOK
  <2>2. Entries(p, t) \subseteq Range(handlers[t])
    BY <1>4, <1>8 DEF BusInv, HandlersOK
  <2>3. \A h \in Entries(p, t) : h.plugin = p
    BY <1>4, EntryFacts
  <2> QED
    BY <2>1, <2>2, <2>3
<1>10. InHand(p)' = {e} \X Wanted(p, e)
  <2>1. ASSUME NEW x \in InHand(p)' PROVE x \in {e} \X Wanted(p, e)
    <3>1. PICK h \in Range(handlers[t]) :
            h.plugin = p /\ e \in h.accepts /\ x = <<e, h.nth>>
      BY <1>6, <2>1
    <3>2. h.nth \in Wanted(p, e)
      BY <1>7, <1>9, <3>1
    <3> QED
      BY <3>1, <3>2
  <2>2. ASSUME NEW x \in {e} \X Wanted(p, e) PROVE x \in InHand(p)'
    <3>1. PICK h \in Entries(p, t) : e \in h.accepts /\ x = <<e, h.nth>>
      BY <1>7, <2>2
    <3> QED
      BY <1>6, <1>9, <3>1
  <2> QED
    BY <2>1, <2>2
<1>11. Ahead(p) = ({e} \X Wanted(p, e)) \cup Ahead(p)'
  BY <1>4 DEF Ahead, Wanted
<1> QED
  BY <1>5, <1>10, <1>11

\* A plugin whose queue has not changed, and to whom nothing new is due.
LEMMA SameQueue ==
    ASSUME NEW p \in Plugin, QueueOK(p),
           UNCHANGED <<published, queues[p]>>,
           InHand(p)' \cup Ahead(p)' \subseteq InHand(p) \cup Ahead(p)
    PROVE  QueueOK(p)'
<1>1. Queued(p)' = Queued(p)
  BY DEF Queued
<1>2. \A c, d : Before(c, d)' <=> Before(c, d)
  BY DEF Before, Promise!Before, Promise!Earlier
<1>3. \A c \in Queued(p)', d \in InHand(p)' \cup Ahead(p)' : Before(c, d)'
  BY <1>1, <1>2 DEF QueueOK
<1> QED
  BY <1>3 DEF QueueOK, Before, Promise!Before, Promise!Earlier

LEMMA DispatchInv == BusInv /\ BusTypes' /\ Dispatch => BusInv'
<1> SUFFICES ASSUME BusInv, BusTypes', Dispatch PROVE BusInv'
  OBVIOUS
<1>1. PICK e : e = Head(eventQueue)
  OBVIOUS
<1>2. /\ eventQueue # << >> /\ eventQueue' = Tail(eventQueue)
      /\ phase = "running"
      /\ routing' = [event |-> e, todo |-> handlers[EventType[e]]]
      /\ UNCHANGED <<phase, loaded, handlers, published, queues, thread>>
  BY <1>1 DEF Dispatch
<1>3. PublishedOnce' /\ HandlersOK' /\ PhaseOK'
  BY <1>2 DEF BusInv, PublishedOnce, HandlersOK, PhaseOK, Loaded, Sorted
<1>4. eventQueue \in Seq(Event)
  BY DEF BusInv, BusTypes
<1>5. /\ e \in Event /\ e = eventQueue[1]
      /\ DOMAIN eventQueue = 1 .. Len(eventQueue) /\ Len(eventQueue) \in Nat \ {0}
      /\ DOMAIN eventQueue' = 1 .. Len(eventQueue) - 1
      /\ \A i \in 1 .. Len(eventQueue) - 1 : eventQueue'[i] = eventQueue[i + 1]
  BY <1>1, <1>2, <1>4, HeadTail
<1>6. Range(eventQueue) = {e} \cup Range(eventQueue')
  BY <1>1, <1>2, <1>4, RangeOfTail
<1>7. \A c, d : Earlier(c, d)' <=> Earlier(c, d)
  BY <1>2 DEF Earlier, Promise!Earlier
<1>8. EventQueueOK'
  <2>1. ASSUME NEW i \in DOMAIN eventQueue', NEW j \in DOMAIN eventQueue', i < j
        PROVE  Earlier(eventQueue'[i], eventQueue'[j])
    <3>1. /\ i + 1 \in DOMAIN eventQueue /\ j + 1 \in DOMAIN eventQueue
          /\ i + 1 < j + 1
          /\ eventQueue'[i] = eventQueue[i + 1] /\ eventQueue'[j] = eventQueue[j + 1]
      BY <1>5, <2>1
    <3>2. Earlier(eventQueue[i + 1], eventQueue[j + 1])
      BY <3>1 DEF BusInv, EventQueueOK
    <3> QED
      BY <3>1, <3>2
  <2> QED
    BY <1>2, <1>6, <2>1 DEF BusInv, EventQueueOK, Earlier, Promise!Earlier
<1>9. HandOK'
  <2>1. Sorted(handlers[EventType[e]])
    BY <1>5, SubscriptionsAssumption DEF BusInv, HandlersOK
  <2>2. ASSUME NEW d \in Range(eventQueue') PROVE Earlier(e, d)
    <3>1. PICK i \in 1 .. Len(eventQueue) - 1 : eventQueue'[i] = d
      BY <1>5 DEF Range
    <3>2. /\ 1 \in DOMAIN eventQueue /\ i + 1 \in DOMAIN eventQueue /\ 1 < i + 1
          /\ eventQueue[i + 1] = d
      BY <1>5, <3>1
    <3>3. Earlier(eventQueue[1], eventQueue[i + 1])
      BY <3>2 DEF BusInv, EventQueueOK
    <3> QED
      BY <1>5, <3>2, <3>3
  <2>3. e \in Range(published)
    BY <1>6 DEF BusInv, EventQueueOK
  <2>4. routing'.event = e /\ routing'.todo = handlers[EventType[e]]
    BY <1>2
  <2> QED
    BY <1>2, <2>1, <2>2, <2>3, <2>4 DEF HandOK, Sorted, Earlier, Promise!Earlier
<1>10. ASSUME NEW p \in Plugin PROVE QueueOK(p)'
  BY <1>2, DispatchPlaces, SameQueue DEF BusInv
<1> QED
  BY <1>3, <1>8, <1>9, <1>10 DEF BusInv

\* The dispatcher consults an entry: if its filter passes the event, the call
\* goes from its hand into the plugin's queue, and nothing else changes.
LEMMA RoutePlaces ==
    ASSUME BusInv, Route, routing.todo # << >>, NEW p \in Plugin,
           NEW h, h = Head(routing.todo), NEW e, e = routing.event
    PROVE  /\ h \in Handler /\ e \in Event /\ Ahead(p)' = Ahead(p)
           /\ routing' = [routing EXCEPT !.todo = Tail(@)]
           /\ routing'.event = e /\ routing'.todo = Tail(routing.todo)
           /\ IF p = h.plugin /\ e \in h.accepts
              THEN /\ queues'[p] = Append(queues[p], Call(h, e))
                   /\ Queued(p)' = Queued(p) \cup {<<e, h.nth>>}
                   /\ InHand(p) = InHand(p)' \cup {<<e, h.nth>>}
              ELSE /\ queues'[p] = queues[p]
                   /\ Queued(p)' = Queued(p)
                   /\ InHand(p)' = InHand(p)
<1>1. /\ routing \in [event : Event \cup {"none"}, todo : Seq(Handler)]
      /\ routing.todo \in Seq(Handler) /\ e \in Event
  BY HandTypes DEF BusInv, BusTypes, Route
<1>2. /\ h \in Handler /\ Tail(routing.todo) \in Seq(Handler)
      /\ Range(routing.todo) = {h} \cup Range(Tail(routing.todo))
  BY <1>1, HeadTail, RangeOfTail
<1>3. /\ routing' = [routing EXCEPT !.todo = Tail(@)]
      /\ queues' = IF e \in h.accepts
                   THEN [queues EXCEPT ![h.plugin] = Append(@, Call(h, e))]
                   ELSE queues
      /\ UNCHANGED eventQueue
  BY DEF Route
<1>4. routing'.event = e /\ routing'.todo = Tail(routing.todo)
  BY <1>1, <1>3
<1>5. Ahead(p)' = Ahead(p)
  BY <1>3 DEF Ahead
<1>6. InHand(p) = InHand(p)' \cup {<<e, g.nth>> : g \in {g \in {h} :
                                       g.plugin = p /\ e \in g.accepts}}
  BY <1>2, <1>4 DEF InHand
<1>7. CASE p = h.plugin /\ e \in h.accepts
  <2>1. queues'[p] = Append(queues[p], Call(h, e))
    BY <1>3, <1>7 DEF BusInv, BusTypes
  <2>2. InHand(p) = InHand(p)' \cup {<<e, h.nth>>}
    BY <1>6, <1>7
  <2>3. Range(queues'[p]) = Range(queues[p]) \cup {Call(h, e)}
    <3> DEFINE I == Item \cup {Sentinel}
    <3>1. queues[p] \in Seq(I) /\ Call(h, e) \in I
      BY <1>1, <1>2 DEF BusInv, BusTypes, Call, Item
    <3> HIDE DEF I
    <3> QED
      BY <2>1, <3>1, RangeOfAppend
  <2>4. Call(h, e) # Sentinel
    BY CallIsNoSentinel
  <2>5. Call(h, e).event = e /\ Call(h, e).handler = h
    BY DEF Call
  <2>6. Range(queues'[p]) \ {Sentinel}
          = (Range(queues[p]) \ {Sentinel}) \cup {Call(h, e)}
    BY <2>3, <2>4
  <2>7. Queued(p)' = Queued(p) \cup {<<e, h.nth>>}
    BY <2>5, <2>6 DEF Queued
  <2> QED
    BY <1>1, <1>2, <1>3, <1>4, <1>5, <1>7, <2>1, <2>2, <2>7
<1>8. CASE ~ (p = h.plugin /\ e \in h.accepts)
  <2>1. queues'[p] = queues[p]
    BY <1>3, <1>8 DEF BusInv, BusTypes
  <2>2. Queued(p)' = Queued(p)
    BY <2>1 DEF Queued
  <2>3. InHand(p)' = InHand(p)
    BY <1>6, <1>8
  <2> QED
    BY <1>1, <1>2, <1>3, <1>4, <1>5, <1>8, <2>1, <2>2, <2>3
<1> QED
  BY <1>7, <1>8

LEMMA KeyIsQueued ==
    ASSUME NEW p, NEW i \in DOMAIN queues[p], queues[p][i] # Sentinel
    PROVE  Key(queues[p][i]) \in Queued(p)
BY DEF Key, Queued, Range

\* What is left in hand comes after what has been taken from there.
LEMMA HandFirst ==
    ASSUME BusInv, Route, routing.todo # << >>, NEW p \in Plugin,
           NEW h, h = Head(routing.todo), NEW e, e = routing.event, h.plugin = p,
           NEW d \in InHand(p)' \cup Ahead(p)
    PROVE  Before(<<e, h.nth>>, d)
<1>1. CASE d \in Ahead(p)
  <2>1. d[1] \in Range(eventQueue)
    BY <1>1 DEF Ahead
  <2>2. Earlier(e, d[1])
    BY <2>1 DEF BusInv, HandOK, Route
  <2> QED
    BY <2>2 DEF Before, Promise!Before, Earlier
<1>2. CASE d \in InHand(p)'
  <2> DEFINE q == routing.todo
  <2>1. q \in Seq(Handler) /\ q # << >>
    BY HandTypes DEF BusInv
  <2>2. routing'.todo = Tail(q) /\ routing'.event = e
    BY RoutePlaces
  <2>3. PICK g \in Range(Tail(q)) : g.plugin = p /\ d = <<e, g.nth>>
    BY <1>2, <2>2 DEF InHand
  <2>4. Sorted(q)
    BY DEF BusInv, HandOK
  <2>5. h = Head(q)
    OBVIOUS
  <2> HIDE DEF q
  <2>6. /\ h = q[1] /\ DOMAIN q = 1 .. Len(q) /\ Len(q) \in Nat \ {0}
        /\ DOMAIN Tail(q) = 1 .. Len(q) - 1
        /\ \A i \in 1 .. Len(q) - 1 : Tail(q)[i] = q[i + 1]
    BY <2>1, <2>5, HeadTail
  <2>7. PICK i \in 1 .. Len(q) - 1 : g = Tail(q)[i]
    BY <2>3, <2>6 DEF Range
  <2>8. 1 \in DOMAIN q /\ i + 1 \in DOMAIN q /\ 1 < i + 1 /\ g = q[i + 1]
    BY <2>6, <2>7
  <2>9. h.nth < g.nth
    BY <2>3, <2>4, <2>6, <2>8 DEF Sorted
  <2> QED
    BY <2>3, <2>9 DEF Before, Promise!Before
<1> QED
  BY <1>1, <1>2

LEMMA RouteInv == BusInv /\ BusTypes' /\ Route => BusInv'
<1> SUFFICES ASSUME BusInv, BusTypes', Route PROVE BusInv'
  OBVIOUS
<1>1. UNCHANGED <<phase, loaded, handlers, published, eventQueue, thread>>
      /\ phase = "running" /\ routing # Nothing
  BY DEF Route
<1>2. PublishedOnce' /\ HandlersOK' /\ PhaseOK' /\ EventQueueOK'
  BY <1>1 DEF BusInv, PublishedOnce, HandlersOK, PhaseOK, EventQueueOK, Loaded,
              Sorted, Earlier, Promise!Earlier
<1>3. \A c, d : Earlier(c, d)' <=> Earlier(c, d)
  BY <1>1 DEF Earlier, Promise!Earlier
<1>4. \A c, d : Before(c, d)' <=> Before(c, d)
  BY <1>1 DEF Before, Promise!Before, Promise!Earlier
<1>5. CASE routing.todo = << >>
  <2>1. routing' = Nothing /\ UNCHANGED queues
    BY <1>5 DEF Route
  <2>2. routing'.todo = << >>
    BY <2>1 DEF Nothing
  <2>3. HandOK'
    BY <2>1, <2>2 DEF HandOK, Sorted, Nothing
  <2>4. ASSUME NEW p \in Plugin PROVE QueueOK(p)'
    <3>1. InHand(p)' = {} /\ Ahead(p)' = Ahead(p)
      BY <1>1, <2>2 DEF InHand, Ahead, Range
    <3> QED
      BY <1>1, <2>1, <3>1, SameQueue DEF BusInv
  <2> QED
    BY <1>2, <2>3, <2>4 DEF BusInv
<1>6. CASE routing.todo # << >>
  <2>1. PICK h : h = Head(routing.todo)
    OBVIOUS
  <2>2. PICK e : e = routing.event
    OBVIOUS
  <2>3. routing.todo \in Seq(Handler)
    BY HandTypes DEF BusInv
  <2>4. HandOK'
    <3> DEFINE q == routing.todo
    <3>0. Sorted(q) /\ q \in Seq(Handler) /\ q # << >>
      BY <1>6, <2>3 DEF BusInv, HandOK
    <3>1. Sorted(Tail(q))
      <4> HIDE DEF q
      <4>1. /\ DOMAIN q = 1 .. Len(q) /\ Len(q) \in Nat \ {0}
            /\ DOMAIN Tail(q) = 1 .. Len(q) - 1
            /\ \A i \in 1 .. Len(q) - 1 : Tail(q)[i] = q[i + 1]
        BY <3>0, HeadTail
      <4>2. ASSUME NEW i \in DOMAIN Tail(q), NEW j \in DOMAIN Tail(q), i < j
            PROVE  /\ i + 1 \in DOMAIN q /\ j + 1 \in DOMAIN q /\ i + 1 < j + 1
                   /\ Tail(q)[i] = q[i + 1] /\ Tail(q)[j] = q[j + 1]
        BY <4>1, <4>2
      <4> QED
        BY <3>0, <4>2 DEF Sorted
    <3>2. PICK p : p \in Plugin
      BY <2>1, <2>3, <1>6, HeadTail, HandlerFacts
    <3>3. routing'.todo = Tail(routing.todo) /\ routing'.event = e
      BY <1>6, <2>1, <2>2, <3>2, RoutePlaces
    <3>4. /\ e \in Range(published)
          /\ \A d \in Range(eventQueue) : Earlier(e, d)
      BY <1>1, <2>2 DEF BusInv, HandOK
    <3> QED
      BY <1>1, <3>1, <3>3, <3>4 DEF HandOK, Sorted, Earlier, Promise!Earlier
  <2>5. ASSUME NEW p \in Plugin PROVE QueueOK(p)'
    <3>1. CASE p = h.plugin /\ e \in h.accepts
      <4>1. /\ Ahead(p)' = Ahead(p)
            /\ queues'[p] = Append(queues[p], Call(h, e))
            /\ Queued(p)' = Queued(p) \cup {<<e, h.nth>>}
            /\ InHand(p) = InHand(p)' \cup {<<e, h.nth>>}
            /\ h \in Handler /\ e \in Event
        BY <1>6, <2>1, <2>2, <3>1, RoutePlaces
      <4>2. QueueOK(p) /\ e \in Range(published)
        BY <1>1, <2>2 DEF BusInv, HandOK
      <4>3. \A c \in Queued(p), d \in InHand(p) \cup Ahead(p) : Before(c, d)
        BY <4>2 DEF QueueOK
      <4>4. \A d \in InHand(p)' \cup Ahead(p) : Before(<<e, h.nth>>, d)
        BY <1>6, <2>1, <2>2, <3>1, HandFirst
      <4>5. \A c \in Queued(p)', d \in InHand(p)' \cup Ahead(p)' : Before(c, d)'
        BY <1>4, <4>1, <4>3, <4>4
      <4> DEFINE q == queues[p]
                 c0 == Call(h, e)
                 I == Item \cup {Sentinel}
      <4>6. q \in Seq(I) /\ c0 \in I
        BY <4>1 DEF BusInv, BusTypes, Call, Item
      <4>7. /\ Range(queues'[p]) = Range(q) \cup {c0}
            /\ DOMAIN q = 1 .. Len(q) /\ Len(q) \in Nat
            /\ DOMAIN queues'[p] = 1 .. Len(q) + 1
            /\ \A i \in 1 .. Len(q) : queues'[p][i] = q[i]
            /\ queues'[p][Len(q) + 1] = c0
        <5> HIDE DEF q, c0, I
        <5>1. queues'[p] = Append(q, c0)
          BY <4>1 DEF q, c0
        <5> QED
          BY <4>6, <5>1, AppendFacts, RangeOfAppend
      <4>8. c0.event = e /\ Key(c0) = <<e, h.nth>>
        BY DEF Call, Key
      <4>9. \A c \in Range(queues'[p]) \ {Sentinel} : c.event \in Range(published)
        BY <4>2, <4>7, <4>8 DEF QueueOK
      <4>10. ASSUME NEW i \in DOMAIN queues'[p], NEW j \in DOMAIN queues'[p], i < j,
                    queues'[p][i] # Sentinel, queues'[p][j] # Sentinel
             PROVE  Before(Key(queues'[p][i]), Key(queues'[p][j]))
        <5>1. i \in 1 .. Len(q) /\ queues'[p][i] = q[i]
          BY <4>7, <4>10
        <5>2. CASE j \in 1 .. Len(q)
          BY <4>2, <4>7, <4>10, <5>1, <5>2 DEF QueueOK
        <5>3. CASE j = Len(q) + 1
          <6>1. Key(q[i]) \in Queued(p)
            BY <4>7, <4>10, <5>1, KeyIsQueued
          <6>2. Key(queues'[p][j]) = <<e, h.nth>>
            BY <4>7, <4>8, <5>3
          <6> QED
            BY <4>1, <4>3, <5>1, <6>1, <6>2
        <5> QED
          BY <4>7, <5>2, <5>3
      <4>11. \A i, j \in DOMAIN queues[p]' :
              i < j /\ queues[p][i]' # Sentinel /\ queues[p][j]' # Sentinel =>
                Before(Key(queues[p][i]), Key(queues[p][j]))'
        <5> HIDE DEF q
        <5> QED
          BY <1>1, <4>10 DEF Before, Promise!Before, Promise!Earlier, Key
      <4> QED
        BY <1>1, <4>5, <4>9, <4>11 DEF QueueOK
    <3>2. CASE ~ (p = h.plugin /\ e \in h.accepts)
      <4>1. queues'[p] = queues[p] /\ InHand(p)' = InHand(p) /\ Ahead(p)' = Ahead(p)
        BY <1>6, <2>1, <2>2, <3>2, RoutePlaces
      <4> QED
        BY <1>1, <4>1, SameQueue DEF BusInv
    <3> QED
      BY <3>1, <3>2
  <2> QED
    BY <1>2, <2>4, <2>5 DEF BusInv
<1> QED
  BY <1>5, <1>6

\* A sentinel is no call.
LEMMA LeaveLoopPlaces ==
    ASSUME BusInv, LeaveLoop, NEW p \in Plugin
    PROVE  /\ Queued(p)' = Queued(p) /\ InHand(p)' = {} /\ Ahead(p)' = Ahead(p)
           /\ Range(queues'[p]) \ {Sentinel} = Range(queues[p]) \ {Sentinel}
           /\ DOMAIN queues[p] = 1 .. Len(queues[p]) /\ Len(queues[p]) \in Nat
           /\ DOMAIN queues'[p] = 1 .. Len(queues[p]) + 1
           /\ \A i \in 1 .. Len(queues[p]) : queues'[p][i] = queues[p][i]
           /\ queues'[p][Len(queues[p]) + 1] = Sentinel
<1> DEFINE q == queues[p]
           I == Item \cup {Sentinel}
<1>1. q \in Seq(I) /\ Sentinel \in I
  BY DEF BusInv, BusTypes
<1>2. queues'[p] = Append(q, Sentinel)
  BY DEF LeaveLoop
<1>3. /\ Range(queues'[p]) = Range(q) \cup {Sentinel}
      /\ DOMAIN q = 1 .. Len(q) /\ Len(q) \in Nat
      /\ DOMAIN queues'[p] = 1 .. Len(q) + 1
      /\ \A i \in 1 .. Len(q) : queues'[p][i] = q[i]
      /\ queues'[p][Len(q) + 1] = Sentinel
  <2> HIDE DEF q, I
  <2> QED
    BY <1>1, <1>2, AppendFacts, RangeOfAppend
<1>4. Range(queues'[p]) \ {Sentinel} = Range(q) \ {Sentinel}
  BY <1>3
<1>5. Queued(p)' = Queued(p)
  BY <1>4 DEF Queued
<1>6. InHand(p)' = {} /\ Ahead(p)' = Ahead(p)
  BY DEF LeaveLoop, InHand, Ahead, Nothing, Range
<1> QED
  BY <1>3, <1>4, <1>5, <1>6

LEMMA LeaveLoopInv == BusInv /\ BusTypes' /\ LeaveLoop => BusInv'
<1> SUFFICES ASSUME BusInv, BusTypes', LeaveLoop PROVE BusInv'
  OBVIOUS
<1>1. /\ UNCHANGED <<loaded, handlers, published, eventQueue, thread>>
      /\ routing' = Nothing /\ phase' = "stopping"
  BY DEF LeaveLoop
<1>2. PublishedOnce' /\ HandlersOK' /\ PhaseOK' /\ EventQueueOK' /\ HandOK'
  BY <1>1 DEF BusInv, PublishedOnce, HandlersOK, PhaseOK, EventQueueOK, HandOK,
              Loaded, Sorted, Earlier, Promise!Earlier, Nothing
<1>3. \A c, d : Before(c, d)' <=> Before(c, d)
  BY <1>1 DEF Before, Promise!Before, Promise!Earlier
<1>4. ASSUME NEW p \in Plugin PROVE QueueOK(p)'
  <2>1. /\ Queued(p)' = Queued(p) /\ InHand(p)' = {} /\ Ahead(p)' = Ahead(p)
        /\ Range(queues'[p]) \ {Sentinel} = Range(queues[p]) \ {Sentinel}
        /\ DOMAIN queues[p] = 1 .. Len(queues[p]) /\ Len(queues[p]) \in Nat
        /\ DOMAIN queues'[p] = 1 .. Len(queues[p]) + 1
        /\ \A i \in 1 .. Len(queues[p]) : queues'[p][i] = queues[p][i]
        /\ queues'[p][Len(queues[p]) + 1] = Sentinel
    BY LeaveLoopPlaces
  <2>2. QueueOK(p)
    BY DEF BusInv
  <2>3. \A c \in Queued(p)', d \in InHand(p)' \cup Ahead(p)' : Before(c, d)'
    BY <1>3, <2>1, <2>2 DEF QueueOK
  <2>4. ASSUME NEW i \in DOMAIN queues'[p], NEW j \in DOMAIN queues'[p], i < j,
               queues'[p][i] # Sentinel, queues'[p][j] # Sentinel
        PROVE  Before(Key(queues'[p][i]), Key(queues'[p][j]))
    <3>1. i \in 1 .. Len(queues[p]) /\ j \in 1 .. Len(queues[p])
      BY <2>1, <2>4
    <3> QED
      BY <2>1, <2>2, <2>4, <3>1 DEF QueueOK
  <2>5. \A i, j \in DOMAIN queues[p]' :
          i < j /\ queues[p][i]' # Sentinel /\ queues[p][j]' # Sentinel =>
            Before(Key(queues[p][i]), Key(queues[p][j]))'
    BY <1>1, <2>4 DEF Before, Promise!Before, Promise!Earlier, Key
  <2>6. \A c \in Range(queues'[p]) \ {Sentinel} : c.event \in Range(published')
    BY <1>1, <2>1, <2>2 DEF QueueOK
  <2> QED
    BY <2>3, <2>5, <2>6 DEF QueueOK
<1> QED
  BY <1>2, <1>4 DEF BusInv

\* A thread takes the head of its queue, which is a sentinel or the first call
\* of all that are due.
LEMMA GetPlaces ==
    ASSUME BusInv, NEW p \in Plugin, Get(p), NEW c, c = Head(queues[p])
    PROVE  /\ queues'[p] = Tail(queues[p])
           /\ InHand(p)' = InHand(p) /\ Ahead(p)' = Ahead(p)
           /\ Range(queues[p]) = {c} \cup Range(queues'[p])
           /\ c = Sentinel => Queued(p)' = Queued(p)
           /\ c # Sentinel =>
                /\ Queued(p) = Queued(p)' \cup {Key(c)}
                /\ \A d \in Queued(p)' : Before(Key(c), d)
<1> DEFINE q == queues[p]
           I == Item \cup {Sentinel}
<1>1. q \in Seq(I) /\ q # << >> /\ c = Head(q)
  BY DEF BusInv, BusTypes, Get
<1>2. queues'[p] = Tail(q) /\ UNCHANGED <<routing, eventQueue>>
  BY DEF Get, BusInv, BusTypes
<1>3. InHand(p)' = InHand(p) /\ Ahead(p)' = Ahead(p)
  BY <1>2 DEF InHand, Ahead
<1>4. /\ Range(q) = {c} \cup Range(Tail(q))
      /\ c = q[1] /\ DOMAIN q = 1 .. Len(q) /\ Len(q) \in Nat \ {0}
      /\ DOMAIN Tail(q) = 1 .. Len(q) - 1
      /\ \A i \in 1 .. Len(q) - 1 : Tail(q)[i] = q[i + 1]
  <2> HIDE DEF q, I
  <2> QED
    BY <1>1, HeadTail, RangeOfTail
<1>5. ASSUME c = Sentinel PROVE Queued(p)' = Queued(p)
  <2>1. Range(queues'[p]) \ {Sentinel} = Range(q) \ {Sentinel}
    BY <1>2, <1>4, <1>5
  <2> QED
    BY <2>1 DEF Queued
<1>6. ASSUME c # Sentinel PROVE Queued(p) = Queued(p)' \cup {Key(c)}
  <2>1. Range(q) \ {Sentinel} = {c} \cup (Range(queues'[p]) \ {Sentinel})
    BY <1>2, <1>4, <1>6
  <2> QED
    BY <2>1 DEF Queued, Key
<1>7. ASSUME c # Sentinel, NEW d \in Queued(p)' PROVE Before(Key(c), d)
  <2>1. PICK g \in Range(queues'[p]) \ {Sentinel} : d = Key(g)
    BY <1>7 DEF Queued, Key
  <2>2. PICK i \in 1 .. Len(q) - 1 : g = Tail(q)[i]
    BY <1>2, <1>4, <2>1 DEF Range
  <2>3. 1 \in DOMAIN q /\ i + 1 \in DOMAIN q /\ 1 < i + 1 /\ g = q[i + 1]
    BY <1>4, <2>2
  <2>4. Before(Key(q[1]), Key(q[i + 1]))
    BY <1>4, <1>7, <2>1, <2>3 DEF BusInv, QueueOK
  <2> QED
    BY <1>4, <2>1, <2>3, <2>4
<1> QED
  BY <1>2, <1>3, <1>4, <1>5, <1>6, <1>7

LEMMA GetInv == \A p \in Plugin : BusInv /\ BusTypes' /\ Get(p) => BusInv'
<1> SUFFICES ASSUME NEW p \in Plugin, BusInv, BusTypes', Get(p) PROVE BusInv'
  OBVIOUS
<1>1. /\ UNCHANGED <<phase, loaded, handlers, published, eventQueue, routing>>
      /\ phase # "startup" /\ queues' = [queues EXCEPT ![p] = Tail(@)]
  BY DEF Get, Alive
<1>2. PublishedOnce' /\ HandlersOK' /\ PhaseOK' /\ EventQueueOK' /\ HandOK'
  BY <1>1 DEF BusInv, PublishedOnce, HandlersOK, PhaseOK, EventQueueOK, HandOK,
              Loaded, Sorted, Earlier, Promise!Earlier
<1>3. \A c, d : Before(c, d)' <=> Before(c, d)
  BY <1>1 DEF Before, Promise!Before, Promise!Earlier
<1>4. QueueOK(p)'
  <2> DEFINE q == queues[p]
             I == Item \cup {Sentinel}
  <2>1. PICK c : c = Head(q)
    OBVIOUS
  <2>2. /\ queues'[p] = Tail(q)
        /\ InHand(p)' = InHand(p) /\ Ahead(p)' = Ahead(p)
        /\ Range(q) = {c} \cup Range(queues'[p])
        /\ Queued(p)' \subseteq Queued(p)
    BY <2>1, GetPlaces
  <2>3. QueueOK(p)
    BY DEF BusInv
  <2>4. \A d \in Queued(p)', e \in InHand(p)' \cup Ahead(p)' : Before(d, e)'
    BY <1>3, <2>2, <2>3 DEF QueueOK
  <2>5. \A d \in Range(queues'[p]) \ {Sentinel} : d.event \in Range(published)
    BY <2>2, <2>3 DEF QueueOK
  <2>6. q \in Seq(I) /\ q # << >>
    BY DEF BusInv, BusTypes, Get
  <2>7. /\ DOMAIN q = 1 .. Len(q) /\ Len(q) \in Nat \ {0}
        /\ DOMAIN queues'[p] = 1 .. Len(q) - 1
        /\ \A i \in 1 .. Len(q) - 1 : queues'[p][i] = q[i + 1]
    <3>1. queues'[p] = Tail(q)
      BY <2>2
    <3> HIDE DEF q, I
    <3> QED
      BY <2>6, <3>1, HeadTail
  <2>8. ASSUME NEW i \in DOMAIN queues'[p], NEW j \in DOMAIN queues'[p], i < j,
               queues'[p][i] # Sentinel, queues'[p][j] # Sentinel
        PROVE  Before(Key(queues'[p][i]), Key(queues'[p][j]))
    <3>1. /\ i + 1 \in DOMAIN q /\ j + 1 \in DOMAIN q /\ i + 1 < j + 1
          /\ queues'[p][i] = q[i + 1] /\ queues'[p][j] = q[j + 1]
      BY <2>7, <2>8
    <3>2. Before(Key(q[i + 1]), Key(q[j + 1]))
      BY <2>3, <2>8, <3>1 DEF QueueOK
    <3> QED
      BY <3>1, <3>2
  <2>9. \A i, j \in DOMAIN queues[p]' :
          i < j /\ queues[p][i]' # Sentinel /\ queues[p][j]' # Sentinel =>
            Before(Key(queues[p][i]), Key(queues[p][j]))'
    <3> HIDE DEF q
    <3> QED
      BY <1>1, <2>8 DEF Before, Promise!Before, Promise!Earlier, Key
  <2> QED
    BY <1>1, <2>4, <2>5, <2>9 DEF QueueOK
<1>5. ASSUME NEW r \in Plugin, r # p PROVE QueueOK(r)'
  <2>1. /\ queues'[r] = queues[r]
        /\ InHand(r)' = InHand(r) /\ Ahead(r)' = Ahead(r)
    BY <1>1, <1>5 DEF BusInv, BusTypes, InHand, Ahead
  <2> QED
    BY <1>1, <2>1, SameQueue DEF BusInv
<1> QED
  BY <1>2, <1>4, <1>5 DEF BusInv

LEMMA InitBusInv == Init => BusInv
<1> SUFFICES ASSUME Init PROVE BusInv
  OBVIOUS
<1>1. /\ Range(<< >>) = {} /\ loaded = 0 /\ routing.todo = << >>
      /\ \A p : ~ Loaded(p)
  BY DEF Init, Range, Nothing, Loaded
<1>2. PublishedOnce /\ PhaseOK /\ EventQueueOK /\ HandOK
  BY <1>1 DEF Init, PublishedOnce, PhaseOK, EventQueueOK, HandOK, Sorted
<1>3. HandlersOK
  BY <1>1 DEF Init, HandlersOK, Sorted
<1>4. ASSUME NEW p \in Plugin PROVE QueueOK(p)
  <2>1. queues[p] = << >> /\ Queued(p) = {}
    BY <1>1 DEF Init, Queued
  <2> QED
    BY <1>1, <2>1 DEF QueueOK
<1> QED
  BY <1>2, <1>3, <1>4, InitTypes DEF BusInv

LEMMA NextBusInv == BusInv /\ [Next]_vars => BusInv'
<1> SUFFICES ASSUME BusInv, [Next]_vars PROVE BusInv'
  OBVIOUS
<1>1. BusTypes'
  BY NextTypes DEF BusInv
<1>2. CASE Run \/ StartupFails \/ RunInterrupted \/ Shutdown \/ Exit
  <2>1. PhaseOK'
    BY <1>2 DEF Run, StartupFails, RunInterrupted, Shutdown, Exit, BusInv, PhaseOK
  <2> QED
    BY <1>1, <1>2, <2>1, NothingMoved
    DEF Run, StartupFails, RunInterrupted, Shutdown, Exit
<1>3. ASSUME NEW p \in Plugin, Write(p) \/ Written(p) \/ Done(p) PROVE BusInv'
  <2>1. PhaseOK'
    BY <1>3 DEF Write, Written, Done, Alive, BusInv, PhaseOK
  <2> QED
    BY <1>1, <1>3, <2>1, NothingMoved DEF Write, Written, Done
<1>4. CASE UNCHANGED vars
  <2>1. PhaseOK'
    BY <1>4 DEF vars, BusInv, PhaseOK
  <2> QED
    BY <1>1, <1>4, <2>1, NothingMoved DEF vars
<1> QED
  BY <1>1, <1>2, <1>3, <1>4, StartupInv, EmitInv, DispatchInv, RouteInv,
     LeaveLoopInv, GetInv DEF Next, Interrupt, FilterRaises

-----------------------------------------------------------------------------
(* Every step is a step of Mailboxes or none *)

Open == phase \in {"startup", "running"}
Handling == {p \in Plugin : thread[p] \in {"toWrite", "writing", "busy"}}
AllDue == [p \in Plugin |-> Due(p)]

LEMMA DueWhile ==
    ASSUME NEW p \in Plugin, BusTypes
    PROVE  /\ Open => Due(p) = Queued(p) \cup InHand(p) \cup Ahead(p)
           /\ phase = "stopping" => Due(p) = Queued(p)
           /\ phase = "exited" => Due(p) = {}
BY DEF Open, Due, BusTypes

\* What a mailbox shows of a step that changes nothing in it.
LEMMA Stutters ==
    ASSUME Open' = Open, UNCHANGED published, Handling' = Handling,
           \A p \in Plugin : Due(p)' = Due(p)
    PROVE  UNCHANGED Promise!vars
BY DEF Promise!vars, Open, Handling, AllDue

\* The end of the bus: what is lost comes after what is kept.
LEMMA Closes ==
    ASSUME ~ Open', UNCHANGED published, Handling' = Handling,
           \A p \in Plugin :
               /\ Due(p)' \subseteq Due(p)
               /\ \A c \in Due(p)', d \in Due(p) \ Due(p)' : Before(c, d)
    PROVE  Promise!Close
BY DEF Promise!Close, Open, Handling, Before

LEMMA InitPromise == Init => Promise!Init
<1> SUFFICES ASSUME Init PROVE Promise!Init
  OBVIOUS
<1>1. \A p \in Plugin : Due(p) = {}
  <2> SUFFICES ASSUME NEW p \in Plugin PROVE Due(p) = {}
    OBVIOUS
  <2>1. Queued(p) = {} /\ InHand(p) = {} /\ Ahead(p) = {}
    BY DEF Init, Queued, InHand, Ahead, Nothing, Range
  <2> QED
    BY <2>1 DEF Init, Due
<1> QED
  BY <1>1 DEF Init, Promise!Init

LEMMA StartupPromise ==
    ASSUME BusInv, BusTypes', Startup \/ Run
    PROVE  UNCHANGED Promise!vars
<1>1. /\ Open /\ Open' /\ UNCHANGED <<published, eventQueue, routing, queues>>
      /\ phase = "startup" /\ (UNCHANGED thread \/ \A p \in Plugin : thread'[p] = "idle")
  BY DEF Startup, Run, Open
<1>2. \A p \in Plugin : thread[p] = "none"
  BY <1>1 DEF BusInv, PhaseOK
<1>3. Handling' = Handling
  BY <1>1, <1>2 DEF Handling
<1>4. \A p \in Plugin : Due(p)' = Due(p)
  BY <1>1, DueWhile DEF BusInv, Due, Open, Queued, InHand, Ahead
<1> QED
  BY <1>1, <1>3, <1>4, Stutters

LEMMA EmitPromise ==
    ASSUME BusInv, BusTypes', NEW e \in Event, Emit(e)
    PROVE  Promise!Publish(e)
<1>1. /\ published' = Append(published, e) /\ e \notin Range(published)
      /\ eventQueue' = Append(eventQueue, e)
      /\ UNCHANGED <<phase, routing, queues, thread>>
  BY DEF Emit
<1>2. Range(eventQueue') = Range(eventQueue) \cup {e}
  BY <1>1, RangeOfAppend DEF BusInv, BusTypes
<1>3. ASSUME NEW p \in Plugin
      PROVE  Due(p)' = IF Open THEN Due(p) \cup {e} \X Wanted(p, e) ELSE Due(p)
  <2>1. Queued(p)' = Queued(p) /\ InHand(p)' = InHand(p)
    BY <1>1 DEF Queued, InHand
  <2>2. Ahead(p)' = Ahead(p) \cup {e} \X Wanted(p, e)
    BY <1>2 DEF Ahead, Wanted
  <2> QED
    BY <1>1, <2>1, <2>2 DEF BusInv, BusTypes, Due, Open
<1>4. AllDue' = IF Open THEN [p \in Plugin |-> AllDue[p] \cup {e} \X Wanted(p, e)]
                ELSE AllDue
  BY <1>3 DEF AllDue
<1>5. Open' = Open /\ Handling' = Handling
  BY <1>1 DEF Open, Handling
<1>6. e \notin Promise!Range(published)
  BY <1>1 DEF Promise!Range, Range
<1> QED
  BY <1>1, <1>4, <1>5, <1>6, Zenon DEF Promise!Publish, Open, Handling, AllDue

LEMMA DispatchPromise ==
    ASSUME BusInv, BusTypes', Dispatch
    PROVE  UNCHANGED Promise!vars
<1>1. Open /\ Open' /\ UNCHANGED <<published, thread, queues>>
  BY DEF Dispatch, Open
<1>2. ASSUME NEW p \in Plugin PROVE Due(p)' = Due(p)
  <2>1. InHand(p) = {} /\ InHand(p)' \cup Ahead(p)' = Ahead(p)
    BY DispatchPlaces
  <2>2. Queued(p)' = Queued(p)
    BY <1>1 DEF Queued
  <2>3. /\ Due(p) = Queued(p) \cup InHand(p) \cup Ahead(p)
        /\ Due(p)' = Queued(p)' \cup InHand(p)' \cup Ahead(p)'
    BY <1>1 DEF Due, Open
  <2> QED
    BY <2>1, <2>2, <2>3
<1> QED
  BY <1>1, <1>2, Stutters DEF Handling

LEMMA RoutePromise ==
    ASSUME BusInv, BusTypes', Route
    PROVE  UNCHANGED Promise!vars
<1>1. Open /\ Open' /\ UNCHANGED <<published, thread, eventQueue>>
  BY DEF Route, Open
<1>2. ASSUME NEW p \in Plugin PROVE Due(p)' = Due(p)
  <2>1. /\ Due(p) = Queued(p) \cup InHand(p) \cup Ahead(p)
        /\ Due(p)' = Queued(p)' \cup InHand(p)' \cup Ahead(p)'
    BY <1>1 DEF Due, Open
  <2>2. CASE routing.todo = << >>
    <3>1. InHand(p) = {} /\ InHand(p)' = {} /\ Queued(p)' = Queued(p) /\ Ahead(p)' = Ahead(p)
      BY <2>2 DEF Route, InHand, Queued, Ahead, Nothing, Range
    <3> QED
      BY <2>1, <3>1
  <2>3. CASE routing.todo # << >>
    <3>1. PICK h : h = Head(routing.todo)
      OBVIOUS
    <3>2. PICK e : e = routing.event
      OBVIOUS
    <3>3. /\ Ahead(p)' = Ahead(p)
          /\ \/ /\ Queued(p)' = Queued(p) \cup {<<e, h.nth>>}
                /\ InHand(p) = InHand(p)' \cup {<<e, h.nth>>}
             \/ Queued(p)' = Queued(p) /\ InHand(p)' = InHand(p)
      BY <2>3, <3>1, <3>2, RoutePlaces
    <3> QED
      BY <2>1, <3>3
  <2> QED
    BY <2>2, <2>3
<1> QED
  BY <1>1, <1>2, Stutters DEF Handling

\* Ctrl+C or a filter that raises: what is in the queues is kept.
LEMMA LeaveLoopPromise ==
    ASSUME BusInv, BusTypes', phase = "running", LeaveLoop
    PROVE  Promise!Close
<1>1. ~ Open' /\ UNCHANGED <<published, thread>> /\ phase' = "stopping" /\ Open
  BY DEF LeaveLoop, Open
<1>2. ASSUME NEW p \in Plugin
      PROVE  /\ Due(p)' \subseteq Due(p)
             /\ \A c \in Due(p)', d \in Due(p) \ Due(p)' : Before(c, d)
  <2>1. Due(p) = Queued(p) \cup InHand(p) \cup Ahead(p) /\ Due(p)' = Queued(p)'
    BY <1>1 DEF Due, Open
  <2>2. Queued(p)' = Queued(p)
    BY LeaveLoopPlaces
  <2>3. \A c \in Queued(p), d \in InHand(p) \cup Ahead(p) : Before(c, d)
    BY DEF BusInv, QueueOK
  <2> QED
    BY <2>1, <2>2, <2>3
<1> QED
  BY <1>1, <1>2, Closes DEF Handling

\* An end before the bus has begun, and the end of the process.
LEMMA EndPromise ==
    ASSUME BusInv, BusTypes', StartupFails \/ RunInterrupted \/ Exit
    PROVE  Promise!Close
<1>1. ~ Open' /\ UNCHANGED published
  BY DEF StartupFails, RunInterrupted, Exit, Open
<1>2. \A p \in Plugin : Due(p)' = {}
  <2>1. CASE Exit
    BY <2>1 DEF Exit, Due
  <2>2. CASE StartupFails \/ RunInterrupted
    <3>1. \A p \in Plugin : queues'[p] = << >> /\ phase' = "stopping"
      BY <2>2 DEF StartupFails, RunInterrupted, BusInv, PhaseOK
    <3>2. \A p \in Plugin : Due(p)' = Queued(p)'
      BY <3>1 DEF Due
    <3>3. \A p \in Plugin : Queued(p)' = {}
      BY <3>1 DEF Queued, Range
    <3> QED
      BY <3>2, <3>3
  <2> QED
    BY <2>1, <2>2
<1>3. Handling' = Handling
  <2>1. CASE UNCHANGED thread
    BY <2>1 DEF Handling
  <2>2. CASE RunInterrupted
    <3>1. \A p \in Plugin : thread[p] = "none" /\ thread'[p] \in {"none", "idle"}
      BY <2>2 DEF RunInterrupted, BusInv, PhaseOK
    <3> QED
      BY <3>1 DEF Handling
  <2> QED
    BY <2>1, <2>2 DEF StartupFails, Exit
<1> QED
  BY <1>1, <1>2, <1>3, Closes

\* A thread that takes a call starts on the first that its plugin is due; a
\* sentinel is nothing to the mailbox.
LEMMA GetPromise ==
    ASSUME BusInv, BusTypes', NEW p \in Plugin, Get(p)
    PROVE  Promise!Handle(p) \/ UNCHANGED Promise!vars
<1>1. PICK c : c = Head(queues[p])
  OBVIOUS
<1>2. /\ InHand(p)' = InHand(p) /\ Ahead(p)' = Ahead(p)
      /\ c = Sentinel => Queued(p)' = Queued(p)
      /\ c # Sentinel =>
           /\ Queued(p) = Queued(p)' \cup {Key(c)}
           /\ \A d \in Queued(p)' : Before(Key(c), d)
  BY <1>1, GetPlaces
<1>3. /\ UNCHANGED <<phase, published, eventQueue, routing>> /\ phase # "exited"
      /\ thread[p] = "idle" /\ thread \in [Plugin -> ThreadStates]
      /\ queues' = [queues EXCEPT ![p] = Tail(@)]
  BY DEF Get, Alive, BusInv, BusTypes
<1>4. ASSUME NEW r \in Plugin, r # p PROVE Due(r)' = Due(r)
  <2>1. queues'[r] = queues[r]
    BY <1>3, <1>4 DEF BusInv, BusTypes
  <2>2. Queued(r)' = Queued(r) /\ InHand(r)' = InHand(r) /\ Ahead(r)' = Ahead(r)
    BY <1>3, <2>1 DEF Queued, InHand, Ahead
  <2> QED
    BY <1>3, <2>2 DEF Due
<1>5. ASSUME c = Sentinel PROVE UNCHANGED Promise!vars
  <2>1. thread' = [thread EXCEPT ![p] = "stopped"]
    BY <1>1, <1>5 DEF Get
  <2>2. Handling' = Handling
    BY <1>3, <2>1 DEF Handling
  <2>3. Due(p)' = Due(p)
    BY <1>2, <1>3, <1>5 DEF Due
  <2> QED
    BY <1>3, <1>4, <2>2, <2>3, Stutters DEF Open
<1>6. ASSUME c # Sentinel PROVE Promise!Handle(p)
  <2>1. PICK k : k = Key(c)
    OBVIOUS
  <2>2. k \in Due(p) /\ \A d \in Due(p)' : Before(k, d)
    <3>1. /\ k \in Queued(p) /\ \A d \in Queued(p)' : Before(k, d)
      BY <1>2, <1>6, <2>1
    <3>2. \A d \in InHand(p) \cup Ahead(p) : Before(k, d)
      BY <3>1 DEF BusInv, QueueOK
    <3> QED
      BY <1>2, <1>3, <3>1, <3>2 DEF Due
  <2>3. ~ Before(k, k)
    <3>1. c \in Item
      <4> DEFINE q == queues[p]
                 I == Item \cup {Sentinel}
      <4>1. q \in Seq(I) /\ q # << >> /\ c = Head(q)
        BY <1>1 DEF BusInv, BusTypes, Get
      <4> HIDE DEF q, I
      <4>2. c \in I
        BY <4>1, HeadTail
      <4> QED
        BY <1>6, <4>2 DEF I
    <3>2. k[2] \in Nat
      BY <2>1, <3>1, HandlerNth DEF Key, Item
    <3> QED
      BY <3>2, NotBeforeItself DEF BusInv
  <2>4. Due(p)' = Due(p) \ {k}
    <3>1. Due(p) = Due(p)' \cup {k}
      BY <1>2, <1>3, <1>6, <2>1 DEF Due
    <3>2. k \notin Due(p)'
      BY <2>2, <2>3
    <3> QED
      BY <3>1, <3>2
  <2>5. \A d \in Due(p) \ {k} : Before(k, d)
    BY <2>2, <2>4
  <2>6. AllDue' = [AllDue EXCEPT ![p] = @ \ {k}]
    BY <1>4, <2>4 DEF AllDue
  <2>7. p \notin Handling /\ Handling' = Handling \cup {p}
    <3>1. PICK s \in {"busy", "toWrite"} : thread' = [thread EXCEPT ![p] = s]
      BY <1>1, <1>6 DEF Get
    <3> QED
      BY <1>3, <3>1 DEF Handling
  <2>8. k \in AllDue[p] /\ \A d \in AllDue[p] \ {k} : Before(k, d)
    BY <2>2, <2>5 DEF AllDue
  <2> QED
    BY <1>3, <2>6, <2>7, <2>8 DEF Promise!Handle, AllDue, Handling, Before
<1> QED
  BY <1>5, <1>6

LEMMA HandlerPromise ==
    ASSUME BusInv, NEW p \in Plugin, Write(p) \/ Written(p) \/ Done(p)
    PROVE  Promise!Return(p) \/ UNCHANGED Promise!vars
<1>1. /\ UNCHANGED <<phase, published, eventQueue, routing, queues>>
      /\ thread \in [Plugin -> ThreadStates]
  BY DEF Write, Written, Done, BusInv, BusTypes
<1>2. \A r \in Plugin : Due(r)' = Due(r)
  BY <1>1 DEF Due, Queued, InHand, Ahead
<1>3. CASE Write(p) \/ Written(p)
  <2>1. Handling' = Handling
    BY <1>1, <1>3 DEF Write, Written, Handling
  <2> QED
    BY <1>1, <1>2, <2>1, Stutters DEF Open
<1>4. CASE Done(p)
  <2>1. p \in Handling /\ Handling' = Handling \ {p}
    BY <1>1, <1>4 DEF Done, Handling
  <2> QED
    BY <1>1, <1>2, <2>1 DEF Promise!Return, Handling
<1> QED
  BY <1>3, <1>4

LEMMA NextPromise ==
    ASSUME BusInv, BusTypes', [Next]_vars
    PROVE  [Promise!Next]_(Promise!vars)
<1>1. CASE Startup \/ Run
  BY <1>1, StartupPromise
<1>2. ASSUME NEW e \in Event, Emit(e) PROVE Promise!Next
  BY <1>2, EmitPromise DEF Promise!Next
<1>3. CASE Dispatch \/ Route
  BY <1>3, DispatchPromise, RoutePromise
<1>4. CASE Interrupt \/ FilterRaises
  BY <1>4, LeaveLoopPromise DEF Interrupt, FilterRaises, Promise!Next
<1>5. CASE StartupFails \/ RunInterrupted \/ Exit
  BY <1>5, EndPromise DEF Promise!Next
<1>6. CASE Shutdown \/ UNCHANGED vars
  <2>1. UNCHANGED <<phase, published, eventQueue, routing, queues, thread>>
    BY <1>6 DEF Shutdown, vars
  <2>2. \A r \in Plugin : Due(r)' = Due(r)
    BY <2>1 DEF Due, Queued, InHand, Ahead
  <2> QED
    BY <2>1, <2>2, Stutters DEF Open, Handling
<1>7. ASSUME NEW p \in Plugin, Get(p) \/ Write(p) \/ Written(p) \/ Done(p)
      PROVE  [Promise!Next]_(Promise!vars)
  BY <1>7, GetPromise, HandlerPromise DEF Promise!Next
<1> QED
  BY <1>1, <1>2, <1>3, <1>4, <1>5, <1>6, <1>7 DEF Next

\* controller.py: until the bus ends, no event is lost, duplicated or reordered
\* on its way to a plugin, whatever the plugins subscribe and whenever Ctrl+C
\* comes, and a plugin handles one call at a time.
THEOREM OneMailboxEach == Spec => RefinesMailboxes
<1>1. BusInv /\ BusTypes' /\ [Next]_vars => [Promise!Next]_(Promise!vars)
  BY NextPromise
<1>2. BusInv /\ [Next]_vars => BusTypes'
  BY NextTypes DEF BusInv
<1> QED
  BY <1>1, <1>2, InitBusInv, InitPromise, NextBusInv, PTL
  DEF Spec, RefinesMailboxes, Promise!Spec

=============================================================================
