---------------------------- MODULE DhcpNet_proofs ----------------------------
(***************************************************************************)
(* Proofs about DhcpNet: whatever the links lose, the clients send again   *)
(* and the server forgets, no client uses an address that the server has   *)
(* not recorded as its lease, and no two use one that the same incarnation *)
(* of the server has acknowledged.                                         *)
(***************************************************************************)
EXTENDS DhcpNet, DhcpServer_proofs

States == {"init", "selecting", "requesting", "bound", "renewing", "rebooting"}

Clients == [state : States, ip : Subnet \cup {NoIp}, xid : Xid, since : Nat]

Frames == [kind : {"discover", "request"}, ip : Subnet \cup {NoIp}, xid : Xid]

Answers == [kind : {"offer", "ack", "nak"}, ip : Subnet \cup {NoIp}, xid : Xid,
            since : Nat]

-----------------------------------------------------------------------------
(* Queues *)

LEMMA RangeOfAppend ==
    ASSUME NEW S, NEW q \in Seq(S), NEW e \in S
    PROVE  /\ Append(q, e) \in Seq(S)
           /\ Range(Append(q, e)) = Range(q) \cup {e}
<1> DEFINE a == Append(q, e)
<1>1. /\ a \in Seq(S) /\ Len(a) = Len(q) + 1 /\ Len(q) \in Nat
      /\ a[Len(q) + 1] = e
      /\ \A i \in 1 .. Len(q) : a[i] = q[i]
      /\ DOMAIN a = 1 .. Len(a) /\ DOMAIN q = 1 .. Len(q)
  OBVIOUS
<1> HIDE DEF a
<1>2. Range(a) = Range(q) \cup {e}
  BY <1>1 DEF Range
<1> QED
  BY <1>1, <1>2 DEF a

LEMMA RangeOfTail ==
    ASSUME NEW S, NEW q \in Seq(S), q # << >>
    PROVE  /\ Tail(q) \in Seq(S)
           /\ Range(Tail(q)) \subseteq Range(q)
           /\ Head(q) \in Range(q) /\ Head(q) \in S
<1> DEFINE t == Tail(q)
<1>1. /\ t \in Seq(S) /\ Len(t) = Len(q) - 1 /\ Len(q) \in Nat \ {0}
      /\ \A i \in 1 .. Len(t) : t[i] = q[i + 1]
      /\ DOMAIN t = 1 .. Len(t) /\ DOMAIN q = 1 .. Len(q)
      /\ Head(q) = q[1]
  OBVIOUS
<1> HIDE DEF t
<1>2. Range(t) \subseteq Range(q)
  BY <1>1 DEF Range
<1>3. Head(q) \in Range(q) /\ Head(q) \in S
  BY <1>1 DEF Range
<1> QED
  BY <1>1, <1>2, <1>3 DEF t

\* Behind a frame of round x there are frames of round x only.
Ordered(q, x) ==
    \A i, j \in DOMAIN q : i < j /\ q[i].xid = x => q[j].xid = x

LEMMA OrderedAppend ==
    ASSUME NEW S, NEW q \in Seq(S), NEW e \in S, Ordered(q, e.xid)
    PROVE  Ordered(Append(q, e), e.xid)
<1> DEFINE a == Append(q, e)
<1>1. /\ Len(a) = Len(q) + 1 /\ Len(q) \in Nat
      /\ a[Len(q) + 1] = e
      /\ \A i \in 1 .. Len(q) : a[i] = q[i]
      /\ DOMAIN a = 1 .. Len(a) /\ DOMAIN q = 1 .. Len(q)
  OBVIOUS
<1> HIDE DEF a
<1>2. Ordered(a, e.xid)
  BY <1>1 DEF Ordered
<1> QED
  BY <1>2 DEF a

LEMMA OrderedTail ==
    ASSUME NEW S, NEW q \in Seq(S), q # << >>, NEW x, Ordered(q, x)
    PROVE  /\ Ordered(Tail(q), x)
           /\ Head(q).xid = x => \A e \in Range(Tail(q)) : e.xid = x
<1> DEFINE t == Tail(q)
<1>1. /\ Len(t) = Len(q) - 1 /\ Len(q) \in Nat \ {0}
      /\ \A i \in 1 .. Len(t) : t[i] = q[i + 1]
      /\ DOMAIN t = 1 .. Len(t) /\ DOMAIN q = 1 .. Len(q)
      /\ Head(q) = q[1]
  OBVIOUS
<1> HIDE DEF t
<1>2. Ordered(t, x)
  <2> SUFFICES ASSUME NEW i \in DOMAIN t, NEW j \in DOMAIN t, i < j, t[i].xid = x
               PROVE  t[j].xid = x
    BY DEF Ordered
  <2>1. i + 1 \in DOMAIN q /\ j + 1 \in DOMAIN q /\ i + 1 < j + 1
    BY <1>1
  <2>2. q[i + 1].xid = x => q[j + 1].xid = x
    BY <2>1 DEF Ordered
  <2> QED
    BY <1>1, <2>2
<1>3. q[1].xid = x => \A e \in Range(t) : e.xid = x
  BY <1>1 DEF Ordered, Range
<1> QED
  BY <1>1, <1>2, <1>3 DEF t

LEMMA OrderedFresh ==
    ASSUME NEW q, NEW x, \A e \in Range(q) : e.xid # x
    PROVE  Ordered(q, x)
BY DEF Ordered, Range

-----------------------------------------------------------------------------
(* The inductive invariant *)

Asked(m) == {msg \in Range(toServer[m]) : msg.kind = "request"}

Granted(m) == {reply \in Replies(m) : reply.kind = "ack"}

\* The incarnations of the server that have acknowledged an address to client
\* m, which uses it or will when the reply arrives.
Promises(m) ==
    (IF Using(m) THEN {client[m].since} ELSE {})
      \cup {reply.since : reply \in
              {r \in Granted(m) : client[m].state # "init" /\ r.xid = client[m].xid}}

NetTypeOK ==
    /\ epoch \in Nat
    /\ client \in [Mac -> Clients]
    /\ toServer \in [Mac -> Seq(Frames)]
    /\ toClient \in [Mac -> Seq(Answers)]

\* An address that is used or granted is one, and no promise is of the future.
Meant(m) ==
    /\ client[m].since \in 0 .. epoch
    /\ Using(m) => client[m].ip # NoIp
    /\ \A reply \in Replies(m) : reply.since \in 0 .. epoch
    /\ \A reply \in Granted(m) : reply.ip # NoIp

\* Within one round a client asks for one address and is granted that one.
SameAddress(m) ==
    client[m].state # "init" =>
      \A msg \in Asked(m) \cup Granted(m) :
        msg.xid = client[m].xid =>
          client[m].state # "selecting" /\ msg.ip = client[m].ip

\* Once it has been granted, nothing under way can move its lease.
Settled(m) ==
    Promises(m) # {} => \A msg \in Asked(m) : msg.ip = client[m].ip

OnRecord(m) == epoch \in Promises(m) => leases[m] = client[m].ip

OneClient(m) ==
    /\ Meant(m)
    /\ Ordered(toServer[m], client[m].xid)
    /\ SameAddress(m)
    /\ Settled(m)
    /\ OnRecord(m)

\* What one incarnation of the server has promised to two clients differs.
NoClash ==
    \A m, n \in Mac :
      m # n /\ Promises(m) \cap Promises(n) # {} => client[m].ip # client[n].ip

NetInv ==
    /\ IInv
    /\ NetTypeOK
    /\ \A m \in Mac : OneClient(m)
    /\ NoClash

LEMMA InitNetInv == NetInit => NetInv
<1> SUFFICES ASSUME NetInit PROVE NetInv
  OBVIOUS
<1>1. IInv
  BY InitIInv DEF NetInit
<1>2. NetTypeOK
  <2>1. << >> \in Seq(Frames) /\ << >> \in Seq(Answers)
    OBVIOUS
  <2> QED
    BY <2>1, XidAssumption DEF NetInit, NetTypeOK, Clients, States
<1>3. ASSUME NEW m \in Mac PROVE OneClient(m) /\ Promises(m) = {}
  <2>1. /\ toServer[m] = << >> /\ toClient[m] = << >> /\ handler = NoPacket
        /\ client[m].state = "init" /\ client[m].since = 0 /\ epoch = 0
    BY DEF NetInit, Init
  <2>2. Range(<< >>) = {}
    BY DEF Range
  <2>3. Asked(m) = {} /\ Replies(m) = {} /\ Granted(m) = {} /\ ~ Using(m)
    BY <2>1, <2>2 DEF Asked, Replies, Granted, Using
  <2>4. Promises(m) = {}
    BY <2>3 DEF Promises
  <2>5. Ordered(toServer[m], client[m].xid)
    BY <2>1, <2>2, OrderedFresh
  <2> QED
    BY <2>1, <2>3, <2>4, <2>5 DEF OneClient, Meant, SameAddress, Settled, OnRecord
<1> QED
  BY <1>1, <1>2, <1>3 DEF NetInv, NoClash

-----------------------------------------------------------------------------
(* One client's part of a step *)

\* What a step owes client m, and what no step does: promise an address in the
\* name of an earlier incarnation of the server.
Faithful(m) ==
    /\ OneClient(m)'
    /\ \A s \in Promises(m)' :
         s # epoch' => s \in Promises(m) /\ client'[m].ip = client[m].ip

\* A client no frame, reply or record of which changes.
LEMMA Untouched ==
    ASSUME NEW m \in Mac, OneClient(m),
           client'[m] = client[m], toServer'[m] = toServer[m],
           Replies(m)' = Replies(m), leases'[m] = leases[m], epoch' = epoch
    PROVE  Faithful(m)
<1>1. Asked(m)' = Asked(m) /\ Granted(m)' = Granted(m) /\ (Using(m)' <=> Using(m))
  BY DEF Asked, Granted, Using
<1>2. Promises(m)' = Promises(m)
  BY <1>1 DEF Promises
<1>3. Ordered(toServer[m], client[m].xid)'
  BY DEF OneClient
<1> QED
  BY <1>1, <1>2, <1>3 DEF Faithful, OneClient, Meant, SameAddress, Settled, OnRecord

\* A client whose lease the server leaves alone, and that is promised nothing
\* new, is still on record.
LEMMA FewerPromises ==
    ASSUME NEW m \in Mac, OneClient(m),
           leases'[m] = leases[m], epoch' = epoch,
           Promises(m)' \subseteq Promises(m),
           Promises(m)' # {} =>
             /\ client'[m].ip = client[m].ip
             /\ \A msg \in Asked(m)' : msg \in Asked(m) \/ msg.ip = client[m].ip
    PROVE  Settled(m)' /\ OnRecord(m)'
             /\ \A s \in Promises(m)' :
                  s \in Promises(m) /\ client'[m].ip = client[m].ip
BY DEF OneClient, Settled, OnRecord

\* What sending a frame changes.
LEMMA AskStep ==
    ASSUME NetTypeOK, NEW m \in Mac, NEW c \in Clients, Ask(m, c)
    PROVE  /\ client'[m] = c /\ client' \in [Mac -> Clients]
           /\ toServer' \in [Mac -> Seq(Frames)]
           /\ FrameOf(c) \in Frames /\ FrameOf(c).xid = c.xid /\ FrameOf(c).ip = c.ip
           /\ FrameOf(c).kind = "request" <=> c.state # "selecting"
           /\ toServer'[m] = Append(toServer[m], FrameOf(c))
           /\ Range(toServer'[m]) = Range(toServer[m]) \cup {FrameOf(c)}
           /\ \A n \in Mac \ {m} : client'[n] = client[n] /\ toServer'[n] = toServer[n]
<1>1. /\ FrameOf(c) \in Frames /\ FrameOf(c).xid = c.xid /\ FrameOf(c).ip = c.ip
      /\ FrameOf(c).kind = "request" <=> c.state # "selecting"
  BY DEF FrameOf, Clients, Frames
<1>2. /\ toServer' = [toServer EXCEPT ![m] = Append(toServer[m], FrameOf(c))]
      /\ client' = [client EXCEPT ![m] = c]
  BY DEF Ask
<1>3. toServer[m] \in Seq(Frames)
  BY DEF NetTypeOK
<1>4. /\ Append(toServer[m], FrameOf(c)) \in Seq(Frames)
      /\ Range(Append(toServer[m], FrameOf(c))) = Range(toServer[m]) \cup {FrameOf(c)}
  BY <1>1, <1>3, RangeOfAppend
<1>5. /\ toServer'[m] = Append(toServer[m], FrameOf(c)) /\ client'[m] = c
      /\ \A n \in Mac \ {m} : client'[n] = client[n] /\ toServer'[n] = toServer[n]
  BY <1>2 DEF NetTypeOK
<1>6. client' \in [Mac -> Clients]
  BY <1>2 DEF NetTypeOK
<1>7. toServer' \in [Mac -> Seq(Frames)]
  BY <1>2, <1>4 DEF NetTypeOK
<1> QED
  BY <1>1, <1>4, <1>5, <1>6, <1>7

-----------------------------------------------------------------------------
(* The clients' steps *)

\* The steps of client m and of its links leave the server alone.
ServerAlone == UNCHANGED <<vars, epoch>>

\* The replies to a client are those that wait in its queue and the one in the
\* server's hands.
LEMMA RepliesStep ==
    ASSUME NEW m \in Mac, ServerAlone
    PROVE  /\ toClient'[m] = toClient[m] => Replies(m)' = Replies(m)
           /\ Range(toClient'[m]) \subseteq Range(toClient[m])
                => Replies(m)' \subseteq Replies(m)
BY DEF ServerAlone, vars, Replies, WithEpoch

\* A new round: no frame and no reply under way is of it.
LEMMA NewRoundKept ==
    ASSUME NEW m \in Mac, NetTypeOK, OneClient(m), ServerAlone, UNCHANGED toClient,
           NEW state \in {"selecting", "renewing", "rebooting"},
           state # "selecting" => Using(m),
           NewRound(m, state)
    PROVE  Faithful(m) /\ NetTypeOK'
             /\ \A n \in Mac \ {m} : client'[n] = client[n] /\ toServer'[n] = toServer[n]
<1> DEFINE x == Min(FreshXids(m))
           c == [client[m] EXCEPT !.state = state, !.xid = x]
<1>1. /\ x \in Xid
      /\ \A msg \in Range(toServer[m]) \cup Replies(m) : msg.xid # x
  <2>1. FreshXids(m) # {} /\ FreshXids(m) \in SUBSET Nat
    BY XidAssumption DEF NewRound, FreshXids
  <2>2. x \in FreshXids(m)
    BY <2>1, MinIsLeast
  <2> QED
    BY <2>2 DEF FreshXids
<1> HIDE DEF x
<1>2. /\ c \in Clients /\ c.state = state /\ c.xid = x
      /\ c.ip = client[m].ip /\ c.since = client[m].since
  BY <1>1 DEF NetTypeOK, Clients, States
<1>3. Ask(m, c)
  BY DEF NewRound, x
<1> HIDE DEF c
<1>4. /\ client'[m] = c /\ client' \in [Mac -> Clients]
      /\ toServer' \in [Mac -> Seq(Frames)]
      /\ FrameOf(c) \in Frames /\ FrameOf(c).xid = c.xid /\ FrameOf(c).ip = c.ip
      /\ FrameOf(c).kind = "request" <=> c.state # "selecting"
      /\ toServer'[m] = Append(toServer[m], FrameOf(c))
      /\ Range(toServer'[m]) = Range(toServer[m]) \cup {FrameOf(c)}
      /\ \A n \in Mac \ {m} : client'[n] = client[n] /\ toServer'[n] = toServer[n]
  BY <1>2, <1>3, AskStep
<1>5. /\ Replies(m)' = Replies(m) /\ Granted(m)' = Granted(m)
      /\ Granted(m) \subseteq Replies(m)
  BY RepliesStep DEF Granted
<1>6. Using(m)' <=> state = "renewing"
  BY <1>2, <1>4 DEF Using
<1>7. Promises(m)' \subseteq Promises(m) /\ client'[m].ip = client[m].ip
  <2>1. Promises(m)' = IF state = "renewing" THEN {client[m].since} ELSE {}
    BY <1>1, <1>2, <1>4, <1>5, <1>6 DEF Promises
  <2> QED
    BY <1>2, <1>4, <2>1 DEF Promises
<1>8. Asked(m)' \subseteq Asked(m) \cup {FrameOf(c)}
  BY <1>4 DEF Asked
<1>9. /\ Settled(m)' /\ OnRecord(m)'
      /\ \A s \in Promises(m)' : s \in Promises(m) /\ client'[m].ip = client[m].ip
  BY <1>2, <1>4, <1>7, <1>8, FewerPromises DEF ServerAlone, vars
<1>10. Ordered(toServer[m], client[m].xid)'
  <2>1. Ordered(toServer[m], x)
    BY <1>1, OrderedFresh
  <2>2. toServer[m] \in Seq(Frames)
    BY DEF NetTypeOK
  <2>3. Ordered(Append(toServer[m], FrameOf(c)), FrameOf(c).xid)
    BY <1>2, <1>4, <2>1, <2>2, OrderedAppend
  <2> QED
    BY <1>2, <1>4, <2>3
<1>11. SameAddress(m)'
  <2> SUFFICES ASSUME NEW msg \in Asked(m)' \cup Granted(m)', msg.xid = x
               PROVE  state # "selecting" /\ msg.ip = c.ip
    BY <1>2, <1>4 DEF SameAddress
  <2>1. msg \notin Range(toServer[m]) \cup Replies(m)
    BY <1>1
  <2>2. msg = FrameOf(c) /\ msg.kind = "request"
    BY <1>4, <1>5, <2>1 DEF Asked
  <2> QED
    BY <1>2, <1>4, <2>2
<1>12. Meant(m)'
  BY <1>2, <1>4, <1>5, <1>6 DEF OneClient, Meant, ServerAlone
<1>13. NetTypeOK'
  BY <1>4 DEF NetTypeOK, ServerAlone
<1> QED
  BY <1>4, <1>9, <1>10, <1>11, <1>12, <1>13 DEF Faithful, OneClient

\* Another copy of the frame of this round.
LEMMA ResendKept ==
    ASSUME NEW m \in Mac, NetTypeOK, OneClient(m), ServerAlone, UNCHANGED toClient,
           Waiting(m), Ask(m, client[m])
    PROVE  Faithful(m) /\ NetTypeOK'
             /\ \A n \in Mac \ {m} : client'[n] = client[n] /\ toServer'[n] = toServer[n]
<1> DEFINE c == client[m]
<1>1. c \in Clients /\ c.state # "init"
  BY DEF NetTypeOK, Waiting
<1>2. /\ client'[m] = c /\ client' \in [Mac -> Clients]
      /\ toServer' \in [Mac -> Seq(Frames)]
      /\ FrameOf(c) \in Frames /\ FrameOf(c).xid = c.xid /\ FrameOf(c).ip = c.ip
      /\ FrameOf(c).kind = "request" <=> c.state # "selecting"
      /\ toServer'[m] = Append(toServer[m], FrameOf(c))
      /\ Range(toServer'[m]) = Range(toServer[m]) \cup {FrameOf(c)}
      /\ \A n \in Mac \ {m} : client'[n] = client[n] /\ toServer'[n] = toServer[n]
  BY <1>1, AskStep
<1>3. Replies(m)' = Replies(m) /\ Granted(m)' = Granted(m) /\ (Using(m)' <=> Using(m))
  BY <1>2, RepliesStep DEF Granted, Using
<1>4. Promises(m)' = Promises(m)
  BY <1>2, <1>3 DEF Promises
<1>5. /\ Asked(m)' \subseteq Asked(m) \cup {FrameOf(c)}
      /\ FrameOf(c) \in Asked(m)' => c.state # "selecting"
  BY <1>2 DEF Asked
<1>6. /\ Settled(m)' /\ OnRecord(m)'
      /\ \A s \in Promises(m)' : s \in Promises(m) /\ client'[m].ip = client[m].ip
  BY <1>2, <1>4, <1>5, FewerPromises DEF ServerAlone, vars
<1>7. Ordered(toServer[m], client[m].xid)'
  BY <1>2, OrderedAppend DEF NetTypeOK, OneClient
<1>8. SameAddress(m)'
  BY <1>2, <1>3, <1>5 DEF SameAddress, OneClient
<1>9. Meant(m)'
  BY <1>2, <1>3 DEF OneClient, Meant, ServerAlone
<1>10. NetTypeOK'
  BY <1>2 DEF NetTypeOK, ServerAlone
<1> QED
  BY <1>2, <1>6, <1>7, <1>8, <1>9, <1>10 DEF Faithful, OneClient

\* A client without an address: nothing under way means anything to it.
LEMMA InitKept ==
    ASSUME NEW m \in Mac, OneClient(m), ServerAlone,
           client'[m].state = "init", client'[m].xid = client[m].xid,
           client'[m].since = client[m].since,
           toServer'[m] = toServer[m], Range(toClient'[m]) \subseteq Range(toClient[m])
    PROVE  Faithful(m)
<1>1. Replies(m)' \subseteq Replies(m)
  BY RepliesStep
<1>2. ~ Using(m)' /\ Promises(m)' = {}
  BY DEF Using, Promises
<1>3. Meant(m)'
  BY <1>1, <1>2 DEF OneClient, Meant, Granted, ServerAlone
<1> QED
  BY <1>2, <1>3 DEF Faithful, OneClient, SameAddress, Settled, OnRecord

\* Frames and replies that are lost or ignored.
LEMMA FewerKept ==
    ASSUME NEW m \in Mac, OneClient(m), ServerAlone,
           client'[m] = client[m],
           Range(toServer'[m]) \subseteq Range(toServer[m]),
           Ordered(toServer'[m], client[m].xid),
           Range(toClient'[m]) \subseteq Range(toClient[m])
    PROVE  Faithful(m)
<1>1. Replies(m)' \subseteq Replies(m) /\ Granted(m)' \subseteq Granted(m)
  BY RepliesStep DEF Granted
<1>2. Asked(m)' \subseteq Asked(m) /\ (Using(m)' <=> Using(m))
  BY DEF Asked, Using
<1>3. Promises(m)' \subseteq Promises(m)
  BY <1>1, <1>2 DEF Promises
<1>4. /\ Settled(m)' /\ OnRecord(m)'
      /\ \A s \in Promises(m)' : s \in Promises(m) /\ client'[m].ip = client[m].ip
  BY <1>2, <1>3, FewerPromises DEF ServerAlone, vars
<1>5. Meant(m)' /\ SameAddress(m)'
  BY <1>1, <1>2 DEF OneClient, Meant, SameAddress, ServerAlone
<1> QED
  BY <1>4, <1>5 DEF Faithful, OneClient

\* What a client makes of a reply, by cases.
LEMMA ReceiveCases ==
    ASSUME NEW c \in Clients, NEW reply \in Answers
    PROVE  \/ After(c, reply) = c
           \/ /\ reply.xid = c.xid /\ reply.kind = "offer" /\ c.state = "selecting"
              /\ After(c, reply) = [c EXCEPT !.state = "requesting", !.ip = reply.ip]
           \/ /\ reply.xid = c.xid /\ reply.kind = "ack"
              /\ c.state \in {"requesting", "renewing", "rebooting"}
              /\ After(c, reply) = [c EXCEPT !.state = "bound", !.ip = reply.ip,
                                             !.since = reply.since]
           \/ /\ reply.xid = c.xid /\ reply.kind = "nak"
              /\ c.state \in {"requesting", "renewing", "rebooting"}
              /\ After(c, reply) = [c EXCEPT !.state = "init", !.ip = NoIp]
BY DEF After, Answers

LEMMA ReceiveKept ==
    ASSUME NEW m \in Mac, NetTypeOK, OneClient(m), ClientReceive(m)
    PROVE  Faithful(m) /\ NetTypeOK'
             /\ \A n \in Mac \ {m} :
                  /\ client'[n] = client[n] /\ toServer'[n] = toServer[n]
                  /\ toClient'[n] = toClient[n]
<1> DEFINE reply == Head(toClient[m])
           c == After(client[m], reply)
<1>1. /\ toClient[m] \in Seq(Answers) /\ toClient[m] # << >>
      /\ toClient' = [toClient EXCEPT ![m] = Tail(toClient[m])]
      /\ ServerAlone
  BY DEF ClientReceive, NetTypeOK, ServerAlone
<1>2. /\ Tail(toClient[m]) \in Seq(Answers)
      /\ Range(Tail(toClient[m])) \subseteq Range(toClient[m])
      /\ reply \in Range(toClient[m]) /\ reply \in Answers
  BY <1>1, RangeOfTail
<1>3. /\ toClient' \in [Mac -> Seq(Answers)]
      /\ Range(toClient'[m]) \subseteq Range(toClient[m])
      /\ \A n \in Mac \ {m} : toClient'[n] = toClient[n]
  BY <1>1, <1>2 DEF NetTypeOK
<1>4. /\ Replies(m)' \subseteq Replies(m) /\ Granted(m)' \subseteq Granted(m)
      /\ reply \in Replies(m) /\ (reply.kind = "ack" => reply \in Granted(m))
  BY <1>1, <1>2, <1>3, RepliesStep DEF Granted, Replies
<1>5. client[m] \in Clients /\ toServer[m] \in Seq(Frames)
  BY DEF NetTypeOK
<1>6. IF c.state = "requesting" /\ client[m].state = "selecting"
      THEN Ask(m, c)
      ELSE client' = [client EXCEPT ![m] = c] /\ UNCHANGED toServer
  BY DEF ClientReceive
<1>7. CASE c = client[m]
  <2>1. UNCHANGED toServer /\ client' = [client EXCEPT ![m] = client[m]]
    BY <1>6, <1>7
  <2>2. /\ client'[m] = client[m] /\ client' \in [Mac -> Clients]
        /\ \A n \in Mac \ {m} : client'[n] = client[n]
    BY <2>1 DEF NetTypeOK
  <2>3. Faithful(m)
    BY <1>1, <1>3, <2>1, <2>2, FewerKept DEF OneClient
  <2> QED
    BY <1>1, <1>3, <2>1, <2>2, <2>3 DEF NetTypeOK, ServerAlone
<1>8. CASE /\ reply.xid = client[m].xid /\ reply.kind = "offer"
           /\ client[m].state = "selecting"
           /\ c = [client[m] EXCEPT !.state = "requesting", !.ip = reply.ip]
  <2>1. /\ c \in Clients /\ c.state = "requesting" /\ c.xid = client[m].xid
        /\ c.since = client[m].since
    BY <1>2, <1>5, <1>8 DEF Clients, Answers, States
  <2> HIDE DEF c
  <2>2. /\ client'[m] = c /\ client' \in [Mac -> Clients]
        /\ toServer' \in [Mac -> Seq(Frames)]
        /\ FrameOf(c) \in Frames /\ FrameOf(c).xid = c.xid /\ FrameOf(c).ip = c.ip
        /\ toServer'[m] = Append(toServer[m], FrameOf(c))
        /\ Range(toServer'[m]) = Range(toServer[m]) \cup {FrameOf(c)}
        /\ \A n \in Mac \ {m} : client'[n] = client[n] /\ toServer'[n] = toServer[n]
    BY <1>6, <1>8, <2>1, AskStep
  <2>3. \A msg \in Asked(m) \cup Granted(m) : msg.xid # client[m].xid
    BY <1>8 DEF OneClient, SameAddress
  <2>4. ~ Using(m)' /\ Promises(m)' = {}
    BY <1>4, <2>1, <2>2, <2>3 DEF Using, Promises
  <2>5. Asked(m)' \subseteq Asked(m) \cup {FrameOf(c)}
    BY <2>2 DEF Asked
  <2>6. SameAddress(m)'
    BY <1>4, <2>1, <2>2, <2>3, <2>5 DEF SameAddress
  <2>7. Ordered(toServer[m], client[m].xid)'
    <3>1. Ordered(Append(toServer[m], FrameOf(c)), FrameOf(c).xid)
      BY <1>5, <2>1, <2>2, OrderedAppend DEF OneClient
    <3> QED
      BY <2>2, <3>1
  <2>8. Meant(m)'
    BY <1>1, <1>4, <2>1, <2>2, <2>4 DEF OneClient, Meant, ServerAlone
  <2>9. Faithful(m)
    BY <2>4, <2>6, <2>7, <2>8 DEF Faithful, OneClient, Settled, OnRecord
  <2> QED
    BY <1>1, <1>3, <2>2, <2>9 DEF NetTypeOK, ServerAlone
<1>9. CASE /\ reply.xid = client[m].xid /\ reply.kind = "ack"
           /\ client[m].state \in {"requesting", "renewing", "rebooting"}
           /\ c = [client[m] EXCEPT !.state = "bound", !.ip = reply.ip,
                                    !.since = reply.since]
  <2>1. /\ c \in Clients /\ c.state = "bound" /\ c.xid = client[m].xid
        /\ c.since = reply.since /\ c.ip = reply.ip
    BY <1>2, <1>5, <1>9 DEF Clients, Answers, States
  <2>2. reply.ip = client[m].ip
    BY <1>4, <1>9 DEF OneClient, SameAddress
  <2> HIDE DEF c
  <2>3. UNCHANGED toServer /\ client' = [client EXCEPT ![m] = c]
    BY <1>6, <2>1
  <2>4. /\ client'[m] = c /\ client' \in [Mac -> Clients]
        /\ \A n \in Mac \ {m} : client'[n] = client[n]
    BY <2>1, <2>3 DEF NetTypeOK
  <2>5. Asked(m)' = Asked(m) /\ Using(m)'
    BY <2>1, <2>3, <2>4 DEF Asked, Using
  <2>6. Promises(m)' \subseteq Promises(m)
    <3>1. reply.since \in Promises(m)
      BY <1>4, <1>9 DEF Promises
    <3> QED
      BY <1>4, <1>9, <2>1, <2>4, <3>1 DEF Promises
  <2>7. /\ Settled(m)' /\ OnRecord(m)'
        /\ \A s \in Promises(m)' : s \in Promises(m) /\ client'[m].ip = client[m].ip
    BY <1>1, <2>1, <2>2, <2>4, <2>5, <2>6, FewerPromises DEF ServerAlone, vars
  <2>8. SameAddress(m)'
    BY <1>4, <1>9, <2>1, <2>2, <2>4, <2>5 DEF OneClient, SameAddress
  <2>9. Meant(m)'
    BY <1>1, <1>4, <1>9, <2>1, <2>4 DEF OneClient, Meant, ServerAlone
  <2>10. Ordered(toServer[m], client[m].xid)'
    BY <2>1, <2>3, <2>4 DEF OneClient
  <2>11. Faithful(m)
    BY <2>7, <2>8, <2>9, <2>10 DEF Faithful, OneClient
  <2> QED
    BY <1>1, <1>3, <2>3, <2>4, <2>11 DEF NetTypeOK, ServerAlone
<1>10. CASE c = [client[m] EXCEPT !.state = "init", !.ip = NoIp]
  <2>1. /\ c \in Clients /\ c.state = "init" /\ c.xid = client[m].xid
        /\ c.since = client[m].since
    BY <1>5, <1>10 DEF Clients, States
  <2> HIDE DEF c
  <2>2. UNCHANGED toServer /\ client' = [client EXCEPT ![m] = c]
    BY <1>6, <2>1
  <2>3. /\ client'[m] = c /\ client' \in [Mac -> Clients]
        /\ \A n \in Mac \ {m} : client'[n] = client[n]
    BY <2>1, <2>2 DEF NetTypeOK
  <2>4. Faithful(m)
    BY <1>1, <1>3, <2>1, <2>2, <2>3, InitKept
  <2> QED
    BY <1>1, <1>3, <2>2, <2>3, <2>4 DEF NetTypeOK, ServerAlone
<1> QED
  BY <1>2, <1>5, <1>7, <1>8, <1>9, <1>10, ReceiveCases

LEMMA LoseKept ==
    ASSUME NEW m \in Mac, NetTypeOK, OneClient(m), Lose(m)
    PROVE  Faithful(m) /\ NetTypeOK' /\ client' = client
             /\ \A n \in Mac \ {m} : toServer'[n] = toServer[n] /\ toClient'[n] = toClient[n]
<1>1. ServerAlone /\ client' = client
  BY DEF Lose, ServerAlone
<1>2. CASE /\ toServer[m] # << >> /\ toServer' = [toServer EXCEPT ![m] = Tail(@)]
           /\ UNCHANGED toClient
  <2>1. toServer[m] \in Seq(Frames)
    BY DEF NetTypeOK
  <2>2. /\ Tail(toServer[m]) \in Seq(Frames)
        /\ Range(Tail(toServer[m])) \subseteq Range(toServer[m])
        /\ Ordered(Tail(toServer[m]), client[m].xid)
    BY <1>2, <2>1, RangeOfTail, OrderedTail DEF OneClient
  <2>3. /\ toServer'[m] = Tail(toServer[m]) /\ toServer' \in [Mac -> Seq(Frames)]
        /\ \A n \in Mac \ {m} : toServer'[n] = toServer[n]
    BY <1>2, <2>2 DEF NetTypeOK
  <2>4. Faithful(m)
    BY <1>1, <1>2, <2>2, <2>3, FewerKept
  <2> QED
    BY <1>1, <1>2, <2>3, <2>4 DEF NetTypeOK, ServerAlone
<1>3. CASE /\ toClient[m] # << >> /\ toClient' = [toClient EXCEPT ![m] = Tail(@)]
           /\ UNCHANGED toServer
  <2>1. toClient[m] \in Seq(Answers)
    BY DEF NetTypeOK
  <2>2. /\ Tail(toClient[m]) \in Seq(Answers)
        /\ Range(Tail(toClient[m])) \subseteq Range(toClient[m])
    BY <1>3, <2>1, RangeOfTail
  <2>3. /\ toClient'[m] = Tail(toClient[m]) /\ toClient' \in [Mac -> Seq(Answers)]
        /\ \A n \in Mac \ {m} : toClient'[n] = toClient[n]
    BY <1>3, <2>2 DEF NetTypeOK
  <2>4. Faithful(m)
    BY <1>1, <1>3, <2>2, <2>3, FewerKept DEF OneClient
  <2> QED
    BY <1>1, <1>3, <2>3, <2>4 DEF NetTypeOK, ServerAlone
<1> QED
  BY <1>2, <1>3 DEF Lose

\* Every step of a client or of its links.
LEMMA ClientKept ==
    ASSUME NetInv, NEW m \in Mac, ClientStep(m) \/ Lose(m)
    PROVE  NetTypeOK' /\ ServerAlone /\ \A n \in Mac : Faithful(n)
<1>1. NetTypeOK /\ \A n \in Mac : OneClient(n)
  BY DEF NetInv
<1>2. ServerAlone
  BY DEF ClientStep, Lose, Start, Renew, Reboot, Resend, ResendEarly, GiveUp,
         ClientReceive, ServerAlone
<1>3. /\ Faithful(m) /\ NetTypeOK'
      /\ \A n \in Mac \ {m} :
           /\ client'[n] = client[n] /\ toServer'[n] = toServer[n]
           /\ toClient'[n] = toClient[n]
  <2>1. CASE Start(m)
    BY <1>1, <1>2, <2>1, NewRoundKept DEF Start
  <2>2. CASE Renew(m)
    BY <1>1, <1>2, <2>2, NewRoundKept DEF Renew, Using
  <2>3. CASE Reboot(m)
    BY <1>1, <1>2, <2>3, NewRoundKept DEF Reboot, Using
  <2>4. CASE Resend(m)
    BY <1>1, <1>2, <2>4, ResendKept DEF Resend
  <2>5. CASE ResendEarly(m)
    BY <1>1, <1>2, <2>5, ResendKept DEF ResendEarly
  <2>6. CASE GiveUp(m)
    <3>1. /\ client' = [client EXCEPT ![m].state = "init", ![m].ip = NoIp]
          /\ UNCHANGED <<toServer, toClient, epoch>>
      BY <2>6 DEF GiveUp
    <3>2. /\ client'[m] = [client[m] EXCEPT !.state = "init", !.ip = NoIp]
          /\ client[m] \in Clients
          /\ \A n \in Mac \ {m} : client'[n] = client[n]
      BY <1>1, <3>1 DEF NetTypeOK
    <3>3. /\ client'[m] \in Clients /\ client'[m].state = "init"
          /\ client'[m].xid = client[m].xid /\ client'[m].since = client[m].since
      BY <3>2 DEF Clients, States
    <3>4. client' \in [Mac -> Clients]
      BY <1>1, <3>1, <3>2, <3>3 DEF NetTypeOK
    <3>5. Faithful(m)
      BY <1>1, <1>2, <3>1, <3>3, InitKept
    <3> QED
      BY <1>1, <3>1, <3>2, <3>4, <3>5 DEF NetTypeOK
  <2>7. CASE ClientReceive(m)
    BY <1>1, <2>7, ReceiveKept
  <2>8. CASE Lose(m)
    BY <1>1, <2>8, LoseKept
  <2> QED
    BY <2>1, <2>2, <2>3, <2>4, <2>5, <2>6, <2>7, <2>8 DEF ClientStep
<1>4. ASSUME NEW n \in Mac \ {m} PROVE Faithful(n)
  <2>1. Replies(n)' = Replies(n)
    BY <1>2, <1>3, RepliesStep
  <2> QED
    BY <1>1, <1>2, <1>3, <2>1, Untouched DEF ServerAlone, vars
<1> QED
  BY <1>2, <1>3, <1>4

-----------------------------------------------------------------------------
(* The server's steps *)

\* handle_dhcp on the next frame of one client.
LEMMA ServerReceiveKept ==
    ASSUME NetInv, NEW m \in Mac, ServerReceive(m)
    PROVE  NetTypeOK' /\ Next /\ \A n \in Mac : Faithful(n)
<1> DEFINE msg == Head(toServer[m])
<1>1. /\ NetTypeOK /\ IInv /\ OneClient(m)
      /\ toServer[m] \in Seq(Frames) /\ toServer[m] # << >>
      /\ UNCHANGED <<client, toClient, epoch>>
      /\ toServer' = [toServer EXCEPT ![m] = Tail(toServer[m])]
  BY DEF NetInv, NetTypeOK, ServerReceive
<1>2. /\ Tail(toServer[m]) \in Seq(Frames)
      /\ Range(Tail(toServer[m])) \subseteq Range(toServer[m])
      /\ msg \in Range(toServer[m]) /\ msg \in Frames
      /\ Ordered(Tail(toServer[m]), client[m].xid)
      /\ msg.xid = client[m].xid
           => \A f \in Range(Tail(toServer[m])) : f.xid = client[m].xid
  BY <1>1, RangeOfTail, OrderedTail DEF OneClient
<1>3. IF msg.kind = "discover" THEN Discover(m, msg.xid)
                               ELSE Request(m, msg.ip, msg.xid)
  BY DEF ServerReceive
<1>4. msg.xid \in Xid /\ msg.ip \in Subnet \cup {NoIp}
        /\ msg.kind \in {"discover", "request"}
  BY <1>2 DEF Frames
<1> HIDE DEF msg
<1>5. /\ toServer'[m] = Tail(toServer[m]) /\ toServer' \in [Mac -> Seq(Frames)]
      /\ \A n \in Mac \ {m} : toServer'[n] = toServer[n]
  BY <1>1, <1>2 DEF NetTypeOK
<1>6. Next
  BY <1>3, <1>4 DEF Next
<1>7. PICK kind \in {"offer", "ack", "nak"}, ip \in Subnet \cup {NoIp} :
        /\ handler = NoPacket /\ handler' = Packet(kind, m, ip, msg.xid)
        /\ IF kind = "ack" THEN /\ msg.kind = "request" /\ ip = msg.ip /\ ip # NoIp
                                /\ leases' = [leases EXCEPT ![m] = ip]
                           ELSE leases' = leases
  <2>1. ASSUME Discover(m, msg.xid) PROVE OfferFor(m) \in Subnet
    BY <2>1, OfferForIsFree DEF Discover
  <2>2. CASE msg.kind = "discover"
    BY <1>3, <2>1, <2>2 DEF Discover
  <2>3. CASE msg.kind = "request" /\ Confirm(m, msg.ip, msg.xid)
    BY <1>4, <2>3 DEF Confirm, Valid
  <2>4. CASE msg.kind = "request" /\ Refuse(m, msg.ip, msg.xid)
    BY <1>4, <2>4 DEF Refuse
  <2> QED
    BY <1>3, <1>4, <2>2, <2>3, <2>4 DEF Request
<1> DEFINE new == [kind |-> kind, ip |-> ip, xid |-> msg.xid, since |-> epoch]
<1>8. /\ handler' # NoPacket /\ handler'.mac = m /\ WithEpoch(handler)' = new
  BY <1>1, <1>7 DEF Packet, NoPacket, WithEpoch
<1>9. Replies(m)' = Replies(m) \cup {new}
  BY <1>1, <1>7, <1>8 DEF Replies
<1>10. /\ new.kind = kind /\ new.since = epoch /\ new.xid = msg.xid /\ new.ip = ip
  OBVIOUS
<1> HIDE DEF new
<1>11. Granted(m)' = Granted(m) \cup (IF kind = "ack" THEN {new} ELSE {})
  BY <1>9, <1>10 DEF Granted
<1>12. ASSUME NEW n \in Mac \ {m} PROVE Faithful(n)
  <2>1. Replies(n)' = Replies(n)
    BY <1>1, <1>7, <1>8 DEF Replies
  <2>2. leases'[n] = leases[n]
    BY <1>1, <1>7 DEF IInv, TypeOK
  <2> QED
    BY <1>1, <1>5, <2>1, <2>2, Untouched DEF NetInv
<1>13. Asked(m)' \subseteq Asked(m) /\ (Using(m)' <=> Using(m))
  BY <1>1, <1>2, <1>5 DEF Asked, Using
<1>14. Meant(m)'
  BY <1>1, <1>7, <1>9, <1>10, <1>11, <1>13 DEF OneClient, Meant, NetTypeOK
<1>15. Ordered(toServer[m], client[m].xid)'
  BY <1>1, <1>2, <1>5
<1>16. client' = client /\ epoch' = epoch
  BY <1>1
<1>17. ASSUME kind = "ack" PROVE Faithful(m)
  <2>1. /\ msg \in Asked(m) /\ ip = msg.ip /\ leases'[m] = ip
    BY <1>1, <1>2, <1>7, <1>17 DEF Asked, IInv, TypeOK
  <2>2. CASE client[m].state # "init" /\ msg.xid = client[m].xid
    <3>1. client[m].state # "selecting" /\ ip = client[m].ip
      BY <1>1, <2>1, <2>2 DEF OneClient, SameAddress
    <3>2. \A f \in Asked(m)' : f \in Asked(m) /\ f.xid = client[m].xid
      BY <1>2, <1>5, <1>13, <2>2 DEF Asked
    <3>3. \A f \in Asked(m)' : f.ip = client[m].ip
      BY <1>1, <2>2, <3>2 DEF OneClient, SameAddress
    <3>4. Promises(m)' = Promises(m) \cup {epoch}
      BY <1>1, <1>10, <1>11, <1>13, <1>17, <2>2 DEF Promises
    <3>5. SameAddress(m)'
      BY <1>1, <1>10, <1>11, <1>13, <1>17, <3>1 DEF OneClient, SameAddress
    <3> QED
      BY <1>14, <1>15, <1>16, <2>1, <3>1, <3>3, <3>4, <3>5
      DEF Faithful, OneClient, Settled, OnRecord
  <2>3. CASE client[m].state = "init" \/ msg.xid # client[m].xid
    <3>1. Promises(m)' = Promises(m)
      BY <1>1, <1>10, <1>11, <1>13, <1>17, <2>3 DEF Promises
    <3>2. SameAddress(m)'
      BY <1>1, <1>10, <1>11, <1>13, <1>17, <2>3 DEF OneClient, SameAddress
    <3>3. Settled(m)' /\ OnRecord(m)'
      BY <1>1, <1>13, <2>1, <3>1 DEF OneClient, Settled, OnRecord
    <3> QED
      BY <1>14, <1>15, <1>16, <3>1, <3>2, <3>3 DEF Faithful, OneClient
  <2> QED
    BY <2>2, <2>3
<1>18. ASSUME kind # "ack" PROVE Faithful(m)
  <2>1. Granted(m)' = Granted(m) /\ leases'[m] = leases[m]
    BY <1>7, <1>11, <1>18
  <2>2. Promises(m)' = Promises(m)
    BY <1>1, <1>13, <2>1 DEF Promises
  <2>3. SameAddress(m)' /\ Settled(m)' /\ OnRecord(m)'
    BY <1>1, <1>13, <2>1, <2>2 DEF OneClient, SameAddress, Settled, OnRecord
  <2> QED
    BY <1>14, <1>15, <1>16, <2>2, <2>3 DEF Faithful, OneClient
<1>19. NetTypeOK'
  BY <1>1, <1>5 DEF NetTypeOK
<1> QED
  BY <1>6, <1>12, <1>17, <1>18, <1>19

\* The reply in hand is put on its way: for the clients nothing changes.
LEMMA ServerReplyKept ==
    ASSUME NetInv, ServerReply
    PROVE  NetTypeOK' /\ Next /\ \A n \in Mac : Faithful(n)
<1>1. /\ NetTypeOK /\ IInv /\ SendReply
      /\ toClient' = [toClient EXCEPT ![handler.mac] = Append(@, WithEpoch(handler))]
      /\ UNCHANGED <<client, toServer, epoch>>
  BY DEF NetInv, ServerReply
<1>2. handler \in Packets /\ handler # NoPacket /\ handler' = NoPacket /\ leases' = leases
  BY <1>1 DEF IInv, TypeOK, SendReply
<1> DEFINE m == handler.mac
           new == WithEpoch(handler)
<1>3. m \in Mac /\ new \in Answers
  BY <1>1, <1>2 DEF Packets, Answers, WithEpoch, NetTypeOK
<1> HIDE DEF new
<1>4. toClient[m] \in Seq(Answers)
  BY <1>1, <1>3 DEF NetTypeOK
<1>5. /\ Append(toClient[m], new) \in Seq(Answers)
      /\ Range(Append(toClient[m], new)) = Range(toClient[m]) \cup {new}
  BY <1>3, <1>4, RangeOfAppend
<1>6. toClient' = [toClient EXCEPT ![m] = Append(toClient[m], new)]
  BY <1>1 DEF new
<1>7. /\ toClient'[m] = Append(toClient[m], new)
      /\ \A n \in Mac \ {m} : toClient'[n] = toClient[n]
      /\ toClient' \in [Mac -> Seq(Answers)]
  BY <1>1, <1>3, <1>5, <1>6 DEF NetTypeOK
<1>8. ASSUME NEW n \in Mac PROVE Faithful(n)
  <2>1. Replies(n)' = Range(toClient'[n])
    BY <1>2 DEF Replies
  <2>2. Replies(n) = Range(toClient[n]) \cup (IF n = m THEN {new} ELSE {})
    BY <1>2 DEF Replies, new
  <2>3. Replies(n)' = Replies(n)
    BY <1>5, <1>7, <2>1, <2>2
  <2> QED
    BY <1>1, <1>2, <2>3, Untouched DEF NetInv
<1>9. NetTypeOK'
  BY <1>1, <1>7 DEF NetTypeOK
<1>10. Next
  BY <1>1 DEF Next
<1> QED
  BY <1>8, <1>9, <1>10

\* The server forgets; what it has promised is from now on of the past.
LEMMA RestartKept ==
    ASSUME NetInv, Restart
    PROVE  NetTypeOK' /\ Init' /\ \A n \in Mac : Faithful(n)
<1>1. /\ NetTypeOK /\ epoch \in Nat /\ epoch' = epoch + 1 /\ handler' = NoPacket
      /\ UNCHANGED <<client, toServer, toClient>>
  BY DEF NetInv, NetTypeOK, Restart
<1>2. ASSUME NEW n \in Mac PROVE Faithful(n)
  <2>1. Replies(n)' \subseteq Replies(n) /\ Granted(n)' \subseteq Granted(n)
    BY <1>1 DEF Replies, Granted
  <2>2. Asked(n)' = Asked(n) /\ (Using(n)' <=> Using(n))
    BY <1>1 DEF Asked, Using
  <2>3. Promises(n)' \subseteq Promises(n)
    BY <1>1, <2>1, <2>2 DEF Promises
  <2>4. OneClient(n)
    BY DEF NetInv
  <2>5. \A s \in Promises(n) : s \in 0 .. epoch
    BY <2>4 DEF OneClient, Meant, Promises, Granted
  <2>6. OnRecord(n)'
    BY <1>1, <2>3, <2>5 DEF OnRecord
  <2>7. Meant(n)'
    BY <1>1, <2>1, <2>2, <2>4 DEF OneClient, Meant
  <2>8. SameAddress(n)' /\ Settled(n)' /\ Ordered(toServer[n], client[n].xid)'
    BY <1>1, <2>1, <2>2, <2>3, <2>4 DEF OneClient, SameAddress, Settled
  <2>9. \A s \in Promises(n)' : s \in Promises(n) /\ client'[n].ip = client[n].ip
    BY <1>1, <2>3
  <2> QED
    BY <2>6, <2>7, <2>8, <2>9 DEF Faithful, OneClient
<1>3. NetTypeOK'
  BY <1>1 DEF NetTypeOK
<1>4. Init'
  BY DEF Restart, Init
<1> QED
  BY <1>2, <1>3, <1>4

-----------------------------------------------------------------------------
(* All of them *)

\* The server's record keeps apart what its present incarnation has promised,
\* and nobody adds to what the earlier ones have.
LEMMA StillNoClash ==
    ASSUME NetInv, IInv', \A n \in Mac : Faithful(n)
    PROVE  NoClash'
<1> SUFFICES ASSUME NEW m \in Mac, NEW n \in Mac, m # n,
                    NEW s \in Promises(m)' \cap Promises(n)'
             PROVE  client'[m].ip # client'[n].ip
  BY DEF NoClash
<1>1. CASE s = epoch'
  <2>1. ASSUME NEW k \in {m, n}
        PROVE  leases'[k] = client'[k].ip /\ client'[k].ip # NoIp
    <3>1. OneClient(k)' /\ s \in Promises(k)'
      BY DEF Faithful
    <3>2. leases'[k] = client'[k].ip
      BY <1>1, <3>1 DEF OneClient, OnRecord
    <3>3. client'[k].ip # NoIp
      BY <3>1 DEF OneClient, Meant, SameAddress, Promises
    <3> QED
      BY <3>2, <3>3
  <2>2. leases'[m] \in Claims(m)' /\ leases'[n] \in Claims(n)'
    BY <2>1 DEF Claims
  <2>3. Claims(m)' \cap Claims(n)' = {}
    BY DEF IInv, ClaimsExclusive
  <2> QED
    BY <2>1, <2>2, <2>3
<1>2. CASE s # epoch'
  <2>1. /\ s \in Promises(m) /\ s \in Promises(n)
        /\ client'[m].ip = client[m].ip /\ client'[n].ip = client[n].ip
    BY <1>2 DEF Faithful
  <2> QED
    BY <2>1 DEF NetInv, NoClash
<1> QED
  BY <1>1, <1>2

LEMMA NextNetInv == NetInv /\ [NetNext]_allVars => NetInv'
<1> SUFFICES ASSUME NetInv, [NetNext]_allVars PROVE NetInv'
  OBVIOUS
<1>1. IInv /\ TypeOK /\ NetTypeOK /\ \A n \in Mac : OneClient(n)
  BY DEF NetInv, IInv
<1>2. Init' => IInv'
  BY InitIInv, PTL
<1>3. [Next]_vars => IInv'
  BY <1>1, NextIInv, NextTypeOK
<1>4. IInv' /\ NetTypeOK' /\ \A n \in Mac : Faithful(n)
  <2>1. ASSUME NEW m \in Mac, ClientStep(m) \/ Lose(m)
        PROVE  IInv' /\ NetTypeOK' /\ \A n \in Mac : Faithful(n)
    BY <1>3, <2>1, ClientKept DEF ServerAlone
  <2>2. ASSUME NEW m \in Mac, ServerReceive(m)
        PROVE  IInv' /\ NetTypeOK' /\ \A n \in Mac : Faithful(n)
    BY <1>3, <2>2, ServerReceiveKept
  <2>3. CASE ServerReply
    BY <1>3, <2>3, ServerReplyKept
  <2>4. CASE Restart
    BY <1>2, <2>4, RestartKept
  <2>5. CASE UNCHANGED allVars
    <3>1. /\ ServerAlone /\ UNCHANGED <<client, toServer, toClient>>
      BY <2>5 DEF allVars, netVars, ServerAlone
    <3>2. ASSUME NEW n \in Mac PROVE Faithful(n)
      <4>1. Replies(n)' = Replies(n)
        BY <3>1, RepliesStep
      <4> QED
        BY <1>1, <3>1, <4>1, Untouched DEF ServerAlone, vars
    <3> QED
      BY <1>1, <1>3, <3>1, <3>2 DEF NetTypeOK, ServerAlone
  <2> QED
    BY <2>1, <2>2, <2>3, <2>4, <2>5 DEF NetNext
<1>5. NoClash'
  BY <1>4, StillNoClash
<1> QED
  BY <1>4, <1>5 DEF NetInv, Faithful

LEMMA NetInvariant == NetSpec => []NetInv
BY InitNetInv, NextNetInv, PTL DEF NetSpec

\* dhcp_server.py:239: whatever is lost, sent twice or overtaken by a new
\* round, a client uses the address the server has on record as its lease,
\* unless the server has been restarted since.
THEOREM AddressOnRecord == NetSpec => []UsedIsLeased
<1>1. NetInv => UsedIsLeased
  BY DEF NetInv, OneClient, OnRecord, Promises, UsedIsLeased
<1> QED
  BY <1>1, NetInvariant, PTL

\* dhcp_server.py:31-32: two clients that use one address were given it by
\* different incarnations of the server, however often it is restarted.
THEOREM NoConflict == NetSpec => []NoAddressConflict
<1>1. NetInv => NoAddressConflict
  BY DEF NetInv, NoClash, Promises, NoAddressConflict
<1> QED
  BY <1>1, NetInvariant, PTL

\* Restarts and lost frames do not exhaust a pool that is large enough.
THEOREM NetUnexhausted == NetSpec => []NeverExhausted
<1>1. NetInv => NeverExhausted
  BY AlwaysRoom DEF NetInv
<1> QED
  BY <1>1, NetInvariant, PTL

=============================================================================
