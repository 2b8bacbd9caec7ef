------------------------------- MODULE DhcpNet -------------------------------
(***************************************************************************)
(* The DHCP server with its clients, over links that lose frames           *)
(* (my_topo.py: loss=1) and with a server that may be restarted, which     *)
(* builds its pool anew and forgets every lease.                           *)
(*                                                                         *)
(* The clients are dhclient, external to the repository and modelled by    *)
(* what it does with the server's replies: a round of messages has one     *)
(* transaction identifier, replies of another round are ignored, whatever  *)
(* is not answered is sent again, an address is renewed before its lease   *)
(* runs out, and a client that starts again asks for the address it        *)
(* remembers.  Links are FIFO in each direction.                           *)
(***************************************************************************)
EXTENDS DhcpServer

CONSTANTS
    Faulty,       \* clients that may meet the faults counted next
    MaxFaults,    \* a frame lost, the client started again, or out of patience
                  \* though an answer is coming
    MaxRestarts   \* times the server is restarted

\* 0 is the identifier of a client that has not started a round yet.
ASSUME XidAssumption == 0 \in Xid /\ Xid \subseteq Nat

\* By NeverExhausted every DISCOVER then finds an address.
ASSUME RoomyAssumption ==
    Cardinality(available_ips) > 2 * Cardinality(Mac)

VARIABLES
    client,     \* state, address, identifier of the round, and since: the
                \* incarnation of the server that acknowledged the address
    toServer,   \* its frames on their way to the server
    toClient,   \* and the server's replies on their way to it
    epoch,      \* how often the server has been restarted
    faults      \* how much of MaxFaults has been used

netVars == <<client, toServer, toClient, epoch, faults>>
allVars == <<vars, netVars>>

Fault(m) == m \in Faulty /\ faults < MaxFaults /\ faults' = faults + 1

NetInit ==
    /\ Init
    /\ client = [m \in Mac |->
                   [state |-> "init", ip |-> NoIp, xid |-> 0, since |-> 0]]
    /\ toServer = [m \in Mac |-> << >>]
    /\ toClient = [m \in Mac |-> << >>]
    /\ epoch = 0
    /\ faults = 0

-----------------------------------------------------------------------------
(* The clients *)

WithEpoch(packet) ==
    [kind |-> packet.kind, ip |-> packet.ip, xid |-> packet.xid, since |-> epoch]

\* The replies that client m has not seen, the one in the server's hands too.
Replies(m) ==
    Range(toClient[m])
      \cup (IF handler # NoPacket /\ handler.mac = m THEN {WithEpoch(handler)} ELSE {})

\* 32 bits at random: a new round is never taken for one that has messages left.
\* Which of the unused identifiers it gets makes no difference.
FreshXids(m) ==
    Xid \ ({client[m].xid} \cup {msg.xid : msg \in Range(toServer[m]) \cup Replies(m)})

\* The frame a client in state c sends: with requested_addr (or, renewing,
\* with ciaddr; the server treats both alike).
FrameOf(c) ==
    [kind |-> IF c.state = "selecting" THEN "discover" ELSE "request",
     ip |-> c.ip, xid |-> c.xid]

\* The client enters state c and sends the frame that goes with it.
Ask(m, c) ==
    /\ client' = [client EXCEPT ![m] = c]
    /\ toServer' = [toServer EXCEPT ![m] = Append(@, FrameOf(c))]

\* The client enters that state in a round of its own.
NewRound(m, state) ==
    /\ FreshXids(m) # {}
    /\ Ask(m, [client[m] EXCEPT !.state = state, !.xid = Min(FreshXids(m))])

Start(m) ==
    /\ client[m].state = "init"
    /\ NewRound(m, "selecting")
    /\ UNCHANGED <<vars, toClient, epoch, faults>>

Renew(m) ==
    /\ client[m].state = "bound"
    /\ NewRound(m, "renewing")
    /\ UNCHANGED <<vars, toClient, epoch, faults>>

Reboot(m) ==
    /\ client[m].state \in {"bound", "renewing"}
    /\ Fault(m)
    /\ NewRound(m, "rebooting")
    /\ UNCHANGED <<vars, toClient, epoch>>

Waiting(m) == client[m].state \notin {"init", "bound"}

\* Nothing of the client's is on its way or in the server's hands.
Unanswered(m) == toServer[m] = << >> /\ Replies(m) = {}

Resend(m) ==
    /\ Waiting(m)
    /\ Unanswered(m)
    /\ Ask(m, client[m])
    /\ UNCHANGED <<vars, toClient, epoch, faults>>

ResendEarly(m) ==
    /\ Waiting(m)
    /\ ~ Unanswered(m)
    /\ Fault(m)
    /\ Ask(m, client[m])
    /\ UNCHANGED <<vars, toClient, epoch>>

\* Nobody answers: start over, without an address.
GiveUp(m) ==
    /\ Waiting(m)
    /\ client[m].state # "selecting"
    /\ \/ Unanswered(m) /\ UNCHANGED faults
       \/ ~ Unanswered(m) /\ Fault(m)
    /\ client' = [client EXCEPT ![m].state = "init", ![m].ip = NoIp]
    /\ UNCHANGED <<vars, toServer, toClient, epoch>>

\* What a client makes of a reply to its round; it ignores any other.
After(c, reply) ==
    LET waits == c.state \in {"requesting", "renewing", "rebooting"}
    IN  IF reply.xid # c.xid
        THEN c
        ELSE CASE reply.kind = "offer" /\ c.state = "selecting" ->
                    [c EXCEPT !.state = "requesting", !.ip = reply.ip]
               [] reply.kind = "ack" /\ waits ->
                    [c EXCEPT !.state = "bound", !.ip = reply.ip, !.since = reply.since]
               [] reply.kind = "nak" /\ waits ->
                    [c EXCEPT !.state = "init", !.ip = NoIp]
               [] OTHER -> c

ClientReceive(m) ==
    /\ toClient[m] # << >>
    /\ toClient' = [toClient EXCEPT ![m] = Tail(@)]
    /\ LET c == After(client[m], Head(toClient[m]))
       IN  IF c.state = "requesting" /\ client[m].state = "selecting"
           THEN Ask(m, c)
           ELSE client' = [client EXCEPT ![m] = c] /\ UNCHANGED toServer
    /\ UNCHANGED <<vars, epoch, faults>>

-----------------------------------------------------------------------------
(* The network and the server *)

Lose(m) ==
    /\ Fault(m)
    /\ \/ /\ toServer[m] # << >>
          /\ toServer' = [toServer EXCEPT ![m] = Tail(@)]
          /\ UNCHANGED toClient
       \/ /\ toClient[m] # << >>
          /\ toClient' = [toClient EXCEPT ![m] = Tail(@)]
          /\ UNCHANGED toServer
    /\ UNCHANGED <<vars, client, epoch>>

\* handle_dhcp on the next frame of client m.
ServerReceive(m) ==
    /\ toServer[m] # << >>
    /\ LET msg == Head(toServer[m])
       IN  IF msg.kind = "discover" THEN Discover(m, msg.xid)
                                    ELSE Request(m, msg.ip, msg.xid)
    /\ toServer' = [toServer EXCEPT ![m] = Tail(@)]
    /\ UNCHANGED <<client, toClient, epoch, faults>>

ServerReply ==
    /\ SendReply
    /\ toClient' = [toClient EXCEPT ![handler.mac] = Append(@, WithEpoch(handler))]
    /\ UNCHANGED <<client, toServer, epoch, faults>>

\* The process ends and main runs again: nothing is read back from a disk.
Restart ==
    /\ epoch < MaxRestarts
    /\ epoch' = epoch + 1
    /\ leases' = [m \in Mac |-> NoIp]
    /\ offered_pool' = [m \in Mac |-> NoIp]
    /\ config' = [gateway |-> Gateway, lease_time |-> "seconds"]
    /\ handler' = NoPacket
    /\ sent' = NoPacket
    /\ UNCHANGED <<client, toServer, toClient, faults>>

ClientStep(m) ==
    \/ Start(m) \/ Renew(m) \/ Reboot(m)
    \/ Resend(m) \/ ResendEarly(m) \/ GiveUp(m)
    \/ ClientReceive(m)

NetNext ==
    \/ \E m \in Mac : ClientStep(m) \/ Lose(m) \/ ServerReceive(m)
    \/ ServerReply
    \/ Restart

\* The server's sniff loop runs, its replies arrive, and a client keeps its
\* timers.  Strong fairness, because the loop reads one socket in order: no
\* client's frame waits for ever behind another's.  Nothing need ever be lost, and nobody need start again.
NetFairness ==
    /\ WF_allVars(ServerReply)
    /\ \A m \in Mac :
         /\ SF_allVars(ServerReceive(m))
         /\ WF_allVars(ClientReceive(m))
         /\ WF_allVars(Start(m) \/ Resend(m) \/ Renew(m))

NetSpec == NetInit /\ [][NetNext]_allVars /\ NetFairness

-----------------------------------------------------------------------------
(* Properties *)

Using(m) == client[m].state \in {"bound", "renewing"}

\* dhcp_server.py:239: a client uses no address that the server, unless it
\* has been restarted since, does not have on record as that client's lease:
\* whatever was lost, sent twice or overtaken by a new round.
UsedIsLeased ==
    \A m \in Mac : Using(m) /\ client[m].since = epoch => leases[m] = client[m].ip

\* dhcp_server.py:31-32: no two clients use one address, except one that was
\* given it before a restart the server does not remember and one after.
NoAddressConflict ==
    \A m, n \in Mac :
        m # n /\ Using(m) /\ Using(n) /\ client[m].ip = client[n].ip
        => client[m].since # client[n].since

\* A client that has lost its address, its offer to a retransmitted DISCOVER,
\* or its lease to a restart, is given one again.
EventuallyBound == \A m \in Mac : []<>(client[m].state = "bound")

\* The conflicts a restart leaves behind end: a renewal of a lease that the
\* server has forgotten is refused, not granted.
ConflictsEnd ==
    <>[](\A m, n \in Mac :
            m # n /\ Using(m) /\ Using(n) => client[m].ip # client[n].ip)

=============================================================================
