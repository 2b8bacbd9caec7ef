----------------------------- MODULE DhcpServer -----------------------------
(***************************************************************************)
(* The DHCP server CNF, cNF/dhcp_server/dhcp_server.py.                    *)
(*                                                                         *)
(* Two threads share the module-level dictionary _state:                   *)
(*   - scapy's sniff loop calls handle_dhcp for one packet after another;  *)
(*   - the REST thread calls set_config, between any two steps of it.      *)
(* handle_dhcp decides and records first (Discover, Confirm, Refuse) and   *)
(* then builds and sends the reply, re-reading the live configuration      *)
(* without the lock (SendReply, ReplyFails).                               *)
(*                                                                         *)
(* The clients are an open environment: any client may send any DISCOVER   *)
(* or REQUEST at any time.  A packet that changes nothing (no BOOTP layer, *)
(* no message-type option, another type, a DISCOVER when the pool is       *)
(* exhausted, an exception before anything is stored) is a stuttering      *)
(* step.  The request counter, the offer timestamp and the lease expiry    *)
(* are left out: the server never reads them back.                         *)
(***************************************************************************)
EXTENDS Integers, Sequences, FiniteSets, FiniteSetsExt

CONSTANTS
    Mac,             \* the hardware addresses of the clients
    Spelling,        \* every way a reservation may write one
    Xid,             \* transaction identifiers
    NoIp,            \* "no address": None in the code
    Network,         \* network address of the subnet, as a number
    Broadcast,       \* its broadcast address
    ServerIp,        \* config['server_ip']
    Gateway,         \* config['gateway'] as loaded from the YAML file
    Reservations,    \* config['reservations']: a sequence of [mac, ip]
    GatewayUpdates,  \* the gateways an operator may PUT
    LeaseTimes       \* the kinds of lease_time an operator may PUT

\* A lease_time that time arithmetic accepts and the DHCP option can carry;
\* one that adds up but does not pack into 32 bits (-1, 0.5); one that does
\* not even add up ("1h").  PUT /config accepts all three.  A gateway or dns
\* the options cannot carry has the effect of "unpackable".
LeaseTimeKinds == {"seconds", "unpackable", "text"}

Subnet == Network .. Broadcast

ASSUME SubnetAssumption ==
    /\ IsFiniteSet(Mac)
    /\ Network \in Nat /\ Broadcast \in Nat
    /\ ServerIp \in Subnet /\ Gateway \in Subnet
    /\ NoIp \notin Subnet

ASSUME UpdatesAssumption ==
    /\ GatewayUpdates \subseteq Subnet
    /\ LeaseTimes \subseteq LeaseTimeKinds

\* An entry without an address is skipped.  The mac of an entry need not be
\* in Mac: a spelling no client produces (upper-case digits) never matches.
ASSUME ReservationsAssumption ==
    /\ Mac \subseteq Spelling
    /\ Reservations \in Seq([mac : Spelling, ip : Subnet \cup {NoIp}])
    /\ \A i, j \in DOMAIN Reservations :
         /\ Reservations[i].ip = Reservations[j].ip
         /\ Reservations[i].ip # NoIp
         => Reservations[i].mac = Reservations[j].mac

-----------------------------------------------------------------------------
(* build_pool *)

Hosts == (Network + 1) .. (Broadcast - 1)

reserved_ips == {Network, Broadcast, ServerIp, Gateway}

Kept == {i \in DOMAIN Reservations : Reservations[i].ip # NoIp}

\* Faulty variant: reservations do not leave the pool.
available_ips_Reservable == Hosts \ reserved_ips

available_ips == (Hosts \ reserved_ips) \ {Reservations[i].ip : i \in Kept}

\* The last entry for a client wins; the addresses of all of them leave the
\* pool.
static_reservations ==
    [m \in Mac |->
        LET entries == {i \in Kept : Reservations[i].mac = m}
        IN  IF entries = {} THEN NoIp ELSE Reservations[Max(entries)].ip]

-----------------------------------------------------------------------------

VARIABLES
    leases,          \* pool['leases']: client -> address, or NoIp
    offered_pool,    \* _state['offered_pool']: client -> address, or NoIp
    config,          \* the fields of _state['config'] that set_config changes
    handler,         \* what handle_dhcp has decided but not yet sent
    sent             \* the packet the last step put on the wire, if any

vars == <<leases, offered_pool, config, handler, sent>>

Packet(kind, m, ip, xid) == [kind |-> kind, mac |-> m, ip |-> ip, xid |-> xid]

Packets == [kind : {"offer", "ack", "nak"}, mac : Mac,
            ip : Subnet \cup {NoIp}, xid : Xid]

NoPacket == [kind |-> "none"]

Init ==
    /\ leases = [m \in Mac |-> NoIp]
    /\ offered_pool = [m \in Mac |-> NoIp]
    /\ config = [gateway |-> Gateway, lease_time |-> "seconds"]
    /\ handler = NoPacket
    /\ sent = NoPacket

-----------------------------------------------------------------------------
(* get_next_ip: network.hosts() ascends, so the first free is the smallest *)

\* Faulty variant: an address is taken at ACK time only.
Taken_LeasesOnly == reserved_ips \cup {leases[m] : m \in Mac}

Taken == reserved_ips
           \cup {offered_pool[m] : m \in Mac} \cup {leases[m] : m \in Mac}

\* Faulty variant: "return None" sits inside the loop.
NextIp_FirstOnly == IF available_ips \ Taken = {} \/ Min(available_ips) \in Taken
                    THEN NoIp ELSE Min(available_ips)

NextIp == LET free == available_ips \ Taken
          IN  IF free = {} THEN NoIp ELSE Min(free)

OfferFor(m) == IF static_reservations[m] # NoIp
               THEN static_reservations[m] ELSE NextIp

\* Faulty variant: the offer is sent but not recorded.
Discover_Unrecorded(m, xid) ==
    /\ handler = NoPacket
    /\ OfferFor(m) # NoIp
    /\ handler' = Packet("offer", m, OfferFor(m), xid)
    /\ sent' = NoPacket
    /\ UNCHANGED <<leases, offered_pool, config>>

\* DISCOVER: the offer is recorded before the OFFER packet is built.  An
\* earlier offer to the same client is overwritten.
Discover(m, xid) ==
    /\ handler = NoPacket
    /\ OfferFor(m) # NoIp
    /\ offered_pool' = [offered_pool EXCEPT ![m] = OfferFor(m)]
    /\ handler' = Packet("offer", m, OfferFor(m), xid)
    /\ sent' = NoPacket
    /\ UNCHANGED <<leases, config>>

\* Faulty variant: the infrastructure addresses are not excluded.
Valid_Reserved(m, ip) ==
    /\ ip # NoIp
    /\ \/ offered_pool[m] = ip
       \/ static_reservations[m] = ip
       \/ leases[m] = ip

\* Faulty variant: any client's offer will do.
Valid_AnyOffer(m, ip) ==
    /\ ip # NoIp
    /\ ip \notin reserved_ips
    /\ \/ \E n \in Mac : offered_pool[n] = ip
       \/ static_reservations[m] = ip
       \/ leases[m] = ip

\* Faulty variant: the requested address is not validated.
Valid_Anything(m, ip) ==
    /\ ip # NoIp
    /\ ip \notin reserved_ips

\* REQUEST for ip, which is the requested_addr option if there is one, else
\* ciaddr, else nothing.
Valid(m, ip) ==
    /\ ip # NoIp
    /\ ip \notin reserved_ips
    /\ \/ offered_pool[m] = ip
       \/ static_reservations[m] = ip
       \/ leases[m] = ip

\* Faulty variant: a client that has a lease keeps the one on record.
Confirm_FirstOnly(m, ip, xid) ==
    /\ handler = NoPacket
    /\ Valid(m, ip)
    /\ config.lease_time # "text"
    /\ leases' = [leases EXCEPT ![m] = IF @ = NoIp THEN ip ELSE @]
    /\ offered_pool' = [offered_pool EXCEPT ![m] = NoIp]
    /\ handler' = Packet("ack", m, ip, xid)
    /\ sent' = NoPacket
    /\ UNCHANGED config

\* A lease_time that is not a number raises before the lease is stored.
Confirm(m, ip, xid) ==
    /\ handler = NoPacket
    /\ Valid(m, ip)
    /\ config.lease_time # "text"
    /\ leases' = [leases EXCEPT ![m] = ip]
    /\ offered_pool' = [offered_pool EXCEPT ![m] = NoIp]
    /\ handler' = Packet("ack", m, ip, xid)
    /\ sent' = NoPacket
    /\ UNCHANGED config

\* Faulty variant: an invalid REQUEST is left unanswered.
Refuse_Silently(m, ip, xid) ==
    /\ handler = NoPacket
    /\ ~ Valid(m, ip)
    /\ UNCHANGED vars

Refuse(m, ip, xid) ==
    /\ handler = NoPacket
    /\ ~ Valid(m, ip)
    /\ handler' = Packet("nak", m, ip, xid)
    /\ sent' = NoPacket
    /\ UNCHANGED <<leases, offered_pool, config>>

Request(m, ip, xid) == Confirm(m, ip, xid) \/ Refuse(m, ip, xid)

\* A NAK carries neither the gateway nor the lease time.
Packs(packet) == packet.kind = "nak" \/ config.lease_time = "seconds"

SendReply ==
    /\ handler # NoPacket
    /\ Packs(handler)
    /\ sent' = handler
    /\ handler' = NoPacket
    /\ UNCHANGED <<leases, offered_pool, config>>

\* sendp raises, handle_dhcp prints the error: what was recorded stays.
ReplyFails ==
    /\ handler # NoPacket
    /\ ~ Packs(handler)
    /\ handler' = NoPacket
    /\ sent' = NoPacket
    /\ UNCHANGED <<leases, offered_pool, config>>

\* Faulty variant: the configuration is replaced, not updated.
set_config_Replaced(data) ==
    /\ config' = data
    /\ sent' = NoPacket
    /\ UNCHANGED <<leases, offered_pool, handler>>

\* PUT /config: the fields present are overwritten, whatever their values;
\* a request with any other field changes nothing.
set_config(data) ==
    /\ config' = [f \in DOMAIN config |->
                    IF f \in DOMAIN data THEN data[f] ELSE config[f]]
    /\ sent' = NoPacket
    /\ UNCHANGED <<leases, offered_pool, handler>>

Updates == [gateway : GatewayUpdates] \cup [lease_time : LeaseTimes]
             \cup [gateway : GatewayUpdates, lease_time : LeaseTimes]

Next ==
    \/ \E m \in Mac, xid \in Xid : Discover(m, xid)
    \/ \E m \in Mac, ip \in Subnet \cup {NoIp}, xid \in Xid : Request(m, ip, xid)
    \/ SendReply
    \/ ReplyFails
    \/ \E data \in Updates : set_config(data)

Spec == Init /\ [][Next]_vars

-----------------------------------------------------------------------------
(* Properties *)

Claims(m) == {offered_pool[m], leases[m]} \ {NoIp}

\* The types of the two tables, the configuration and the reply in hand.
TypeOK ==
    /\ leases \in [Mac -> Subnet \cup {NoIp}]
    /\ offered_pool \in [Mac -> Subnet \cup {NoIp}]
    /\ config \in [gateway : Subnet, lease_time : LeaseTimeKinds]
    /\ handler \in Packets \cup {NoPacket}
    /\ sent \in Packets \cup {NoPacket}

\* dhcp_server.py:31-32: an address offered or leased to one client is not
\* offered or leased to another, whatever the order of their packets.
ClaimsExclusive ==
    \A m, n \in Mac : m # n => Claims(m) \cap Claims(n) = {}

\* dhcp_server.yaml:15: an address named by a reservation is never offered or
\* leased to a client other than the one the reservation names, not even one
\* that a later entry for the same client has overridden.
ReservationsLocked ==
    \A i \in Kept, m \in Mac :
        Reservations[i].ip \in Claims(m) => Reservations[i].mac = m

\* dhcp_server.yaml:16: no client ever leases the network address, the
\* broadcast address, or the server's and the router's addresses of the file,
\* even when a reservation names one of them.
ReservedNeverLeased == \A m \in Mac : leases[m] \notin reserved_ips

\* What an OFFER or an ACK promises is what the server has on record.
Backed(packet) ==
    packet.kind \in {"offer", "ack"} =>
        packet.ip = IF packet.kind = "offer"
                    THEN offered_pool[packet.mac] ELSE leases[packet.mac]

\* An OFFER or an ACK on the wire is backed by the server's own record at the
\* moment it leaves, and no other client has a claim to the address: neither
\* PUT /config nor a failed reply gets in between.
PromiseBacked ==
    /\ Backed(sent)
    /\ sent.kind \in {"offer", "ack"} =>
         \A n \in Mac \ {sent.mac} : sent.ip \notin Claims(n)

\* What makes the above inductive: a client with a reservation claims nothing
\* else, any other claims open addresses only, and the reply in hand repeats
\* what was recorded.
ClaimsWithin ==
    \A m \in Mac :
        Claims(m) \subseteq IF static_reservations[m] = NoIp
                           THEN available_ips ELSE {static_reservations[m]}

IInv ==
    /\ TypeOK
    /\ ClaimsWithin
    /\ ClaimsExclusive
    /\ ReservedNeverLeased
    /\ Backed(handler)
    /\ Backed(sent)

Dynamic == {m \in Mac : static_reservations[m] = NoIp}

\* Each client pins at most an offer and a lease, so a pool larger than twice
\* the number of clients without a reservation always has an address left to
\* offer: stale offers cannot starve it.
NeverExhausted ==
    Cardinality(available_ips) > 2 * Cardinality(Dynamic) => NextIp # NoIp

Pool == INSTANCE LeasePool WITH
    Client   <- Mac,
    Address  <- Subnet,
    Open     <- available_ips,
    Unusable <- reserved_ips,
    Locked   <- [m \in Mac |-> {static_reservations[m]} \ {NoIp}],
    held     <- [m \in Mac |-> Claims(m)],
    leased   <- [m \in Mac |-> {leases[m]} \ {NoIp}]

\* The server implements the abstract lease pool.
RefinesLeasePool == Pool!Spec

-----------------------------------------------------------------------------
(* What the comments and the configuration file say, and the code does not *)

\* dhcp_server.py:33-35, "Ack if the IP is still available, NAK otherwise":
\* a client whose REQUEST names an address that is still free is not refused.
InitRebootServed ==
    handler.kind = "nak" => handler.ip \notin available_ips \ Taken

=============================================================================
