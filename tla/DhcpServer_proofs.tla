-------------------------- MODULE DhcpServer_proofs --------------------------
(***************************************************************************)
(* Proofs about DhcpServer, for every subnet, every list of reservations,  *)
(* every set of clients and every configuration an operator may PUT.       *)
(***************************************************************************)
EXTENDS DhcpServer, TLAPS, FiniteSetTheorems, FunctionTheorems,
        WellFoundedInduction

-----------------------------------------------------------------------------
(* Lemmas about the operators the pool is built from *)

\* Every non-empty set of naturals has a smallest element, which Min returns.
LEMMA MinIsLeast ==
    ASSUME NEW S \in SUBSET Nat, S # {}
    PROVE  Min(S) \in S /\ \A y \in S : Min(S) =< y
<1>1. PICK x \in S : \A y \in S : ~ (<<y, x>> \in OpToRel(<, Nat))
  BY NatLessThanWellFounded, WFMin, Zenon
<1>2. \A y \in S : ~ (y < x)
  BY <1>1 DEF OpToRel
<1>3. \A y \in S : x =< y
  BY <1>2
<1> QED BY <1>3 DEF Min

\* Every non-empty set of indices of a sequence has a largest one, which Max
\* returns.
LEMMA MaxIsGreatest ==
    ASSUME NEW n \in Nat, NEW S \in SUBSET (1 .. n), S # {}
    PROVE  Max(S) \in S
<1> DEFINE T == {n - i : i \in S}
<1>1. T \in SUBSET Nat /\ T # {}
  <2>1. \A i \in S : i \in Int /\ i =< n
    OBVIOUS
  <2>2. \A i \in S : n - i \in Nat
    BY <2>1
  <2> QED BY <2>2
<1>2. Min(T) \in T /\ \A y \in T : Min(T) =< y
  BY <1>1, MinIsLeast
<1>3. PICK i \in S : Min(T) = n - i
  BY <1>2
<1>4. \A j \in S : n - i =< n - j
  BY <1>2, <1>3
<1>5. \A j \in S : i >= j
  BY <1>4
<1> QED BY <1>5 DEF Max

\* A client's static reservation is the address of one of its entries.
LEMMA StaticIsReserved ==
    ASSUME NEW m \in Mac, static_reservations[m] # NoIp
    PROVE  \E i \in Kept : /\ Reservations[i].mac = m
                           /\ Reservations[i].ip = static_reservations[m]
<1> DEFINE entries == {i \in Kept : Reservations[i].mac = m}
<1>1. entries # {} /\ static_reservations[m] = Reservations[Max(entries)].ip
  BY DEF static_reservations
<1>2. Len(Reservations) \in Nat /\ entries \in SUBSET (1 .. Len(Reservations))
  BY ReservationsAssumption DEF Kept
<1>3. Max(entries) \in entries
  BY <1>1, <1>2, MaxIsGreatest
<1> QED BY <1>1, <1>3

\* It lies in the subnet, outside the pool of open addresses, and is no other
\* client's.
LEMMA StaticIsExclusive ==
    ASSUME NEW m \in Mac, static_reservations[m] # NoIp
    PROVE  /\ static_reservations[m] \in Subnet
           /\ static_reservations[m] \notin available_ips
           /\ \A n \in Mac : static_reservations[n] = static_reservations[m]
                               => n = m
<1>1. PICK i \in Kept : /\ Reservations[i].mac = m
                        /\ Reservations[i].ip = static_reservations[m]
  BY StaticIsReserved
<1>2. Reservations[i].ip \in Subnet
  <2> DEFINE Entry == [mac : Spelling, ip : Subnet \cup {NoIp}]
  <2>1. Reservations \in Seq(Entry)
    BY ReservationsAssumption
  <2>2. i \in 1 .. Len(Reservations) /\ Reservations[i].ip # NoIp
    BY <2>1 DEF Kept
  <2>3. Reservations[i] \in Entry
    <3> HIDE DEF Entry
    <3> QED BY <2>1, <2>2
  <2> QED BY <2>2, <2>3
<1>3. static_reservations[m] \notin available_ips
  BY <1>1 DEF available_ips
<1>4. ASSUME NEW n \in Mac, static_reservations[n] = static_reservations[m]
      PROVE  n = m
  <2>1. PICK j \in Kept : /\ Reservations[j].mac = n
                          /\ Reservations[j].ip = static_reservations[n]
    BY <1>4, StaticIsReserved
  <2> QED BY <1>1, <1>2, <1>4, <2>1, ReservationsAssumption DEF Kept
<1> QED BY <1>1, <1>2, <1>3, <1>4

\* The pool of open addresses is a finite part of the subnet, without the
\* infrastructure addresses.
LEMMA AvailableInSubnet ==
    /\ available_ips \subseteq Subnet
    /\ available_ips \subseteq Nat
    /\ available_ips \cap reserved_ips = {}
    /\ IsFiniteSet(available_ips)
<1>1. available_ips \subseteq Subnet /\ available_ips \subseteq Nat
  BY SubnetAssumption DEF available_ips, Hosts, Subnet
<1>2. available_ips \cap reserved_ips = {}
  BY DEF available_ips
<1>3. IsFiniteSet(Subnet)
  BY SubnetAssumption, FS_Interval DEF Subnet
<1> QED BY <1>1, <1>2, <1>3, FS_Subset

\* What DISCOVER offers: the client's reservation, or an open address nobody
\* has a claim to.
LEMMA OfferForIsFree ==
    ASSUME NEW m \in Mac, OfferFor(m) # NoIp
    PROVE  /\ OfferFor(m) \in Subnet
           /\ \/ OfferFor(m) = static_reservations[m]
              \/ /\ static_reservations[m] = NoIp
                 /\ OfferFor(m) \in available_ips \ Taken
<1>1. CASE static_reservations[m] # NoIp
  BY <1>1, StaticIsExclusive DEF OfferFor
<1>2. CASE static_reservations[m] = NoIp
  <2> DEFINE free == available_ips \ Taken
  <2>1. free # {} /\ OfferFor(m) = Min(free)
    BY <1>2 DEF OfferFor, NextIp
  <2>2. free \in SUBSET Nat
    BY AvailableInSubnet
  <2>3. Min(free) \in free
    BY <2>1, <2>2, MinIsLeast
  <2> QED BY <1>2, <2>1, <2>3, AvailableInSubnet
<1> QED BY <1>1, <1>2

-----------------------------------------------------------------------------
(* Type correctness *)

LEMMA InitTypeOK == Init => TypeOK
BY SubnetAssumption DEF Init, TypeOK, LeaseTimeKinds

LEMMA NextTypeOK == TypeOK /\ [Next]_vars => TypeOK'
<1> SUFFICES ASSUME TypeOK, [Next]_vars PROVE TypeOK'
  OBVIOUS
<1> USE DEF TypeOK
<1>1. ASSUME NEW m \in Mac, NEW xid \in Xid, Discover(m, xid)
      PROVE  TypeOK'
  <2>1. OfferFor(m) \in Subnet
    BY <1>1, OfferForIsFree DEF Discover
  <2> QED BY <1>1, <2>1 DEF Discover, Packet, Packets, NoPacket
<1>2. ASSUME NEW m \in Mac, NEW ip \in Subnet \cup {NoIp}, NEW xid \in Xid,
             Confirm(m, ip, xid)
      PROVE  TypeOK'
  BY <1>2 DEF Confirm, Packet, Packets, NoPacket
<1>3. ASSUME NEW m \in Mac, NEW ip \in Subnet \cup {NoIp}, NEW xid \in Xid,
             Refuse(m, ip, xid)
      PROVE  TypeOK'
  BY <1>3 DEF Refuse, Packet, Packets, NoPacket
<1>4. CASE SendReply
  BY <1>4 DEF SendReply
<1>5. CASE ReplyFails
  BY <1>5 DEF ReplyFails
<1>6. ASSUME NEW data \in Updates, set_config(data)
      PROVE  TypeOK'
  <2>1. config' \in [gateway : Subnet, lease_time : LeaseTimeKinds]
    BY <1>6, UpdatesAssumption DEF set_config, Updates
  <2> QED BY <1>6, <2>1 DEF set_config
<1>7. CASE UNCHANGED vars
  BY <1>7 DEF vars
<1> QED BY <1>1, <1>2, <1>3, <1>4, <1>5, <1>6, <1>7 DEF Next, Request

\* Every behaviour of the server keeps its tables well typed.
THEOREM TypeCorrect == Spec => []TypeOK
BY InitTypeOK, NextTypeOK, PTL DEF Spec

-----------------------------------------------------------------------------
(* The inductive invariant *)

\* Initially nobody claims anything.
LEMMA InitIInv == Init => IInv
<1> SUFFICES ASSUME Init PROVE IInv
  OBVIOUS
<1>1. TypeOK
  BY SubnetAssumption DEF Init, TypeOK, LeaseTimeKinds
<1>2. \A m \in Mac : Claims(m) = {} /\ leases[m] = NoIp
  BY DEF Init, Claims
<1>3. ClaimsWithin /\ ClaimsExclusive
  BY <1>2 DEF ClaimsWithin, ClaimsExclusive
<1>4. ReservedNeverLeased
  BY <1>2, SubnetAssumption DEF ReservedNeverLeased, reserved_ips, Subnet
<1>5. Backed(handler) /\ Backed(sent)
  BY DEF Init, Backed, NoPacket
<1> QED BY <1>1, <1>3, <1>4, <1>5 DEF IInv

\* A step that leaves the two tables alone preserves what they record.
LEMMA TablesUnchanged ==
    ASSUME ClaimsWithin, ClaimsExclusive, ReservedNeverLeased,
           UNCHANGED <<leases, offered_pool>>
    PROVE  ClaimsWithin' /\ ClaimsExclusive' /\ ReservedNeverLeased'
BY DEF ClaimsWithin, ClaimsExclusive, ReservedNeverLeased, Claims

\* DISCOVER hands out an address no other client claims.
LEMMA DiscoverIInv ==
    ASSUME IInv, NEW m \in Mac, NEW xid \in Xid, Discover(m, xid), TypeOK'
    PROVE  IInv'
<1> DEFINE ip == OfferFor(m)
<1>1. /\ ip \in Subnet
      /\ \/ ip = static_reservations[m]
         \/ static_reservations[m] = NoIp /\ ip \in available_ips \ Taken
  BY OfferForIsFree DEF Discover
<1>2. ip # NoIp
  BY DEF Discover
<1> HIDE DEF ip
<1>3. /\ offered_pool' = [offered_pool EXCEPT ![m] = ip]
      /\ leases' = leases
      /\ handler' = Packet("offer", m, ip, xid)
      /\ sent' = NoPacket
  BY DEF Discover, ip
<1>4. /\ \A n \in Mac \ {m} : Claims(n)' = Claims(n)
      /\ Claims(m)' = {ip} \cup ({leases[m]} \ {NoIp})
  BY <1>2, <1>3 DEF IInv, TypeOK, Claims
<1>5. \A n \in Mac \ {m} : ip \notin Claims(n)
  <2>1. CASE ip = static_reservations[m]
    BY <1>2, <2>1, StaticIsExclusive DEF IInv, ClaimsWithin
  <2>2. CASE ip \in available_ips \ Taken
    BY <2>2 DEF Taken, Claims
  <2> QED BY <1>1, <2>1, <2>2
<1>6. ClaimsWithin'
  <2>1. Claims(m)' \subseteq Claims(m) \cup {ip}
    BY <1>4 DEF Claims
  <2> QED BY <1>1, <1>2, <1>4, <2>1 DEF IInv, ClaimsWithin
<1>7. ClaimsExclusive'
  <2>1. Claims(m)' \subseteq Claims(m) \cup {ip}
    BY <1>4 DEF Claims
  <2> QED BY <1>4, <1>5, <2>1 DEF IInv, ClaimsExclusive
<1>8. ReservedNeverLeased'
  BY <1>3 DEF IInv, ReservedNeverLeased
<1>9. Backed(handler)' /\ Backed(sent)'
  BY <1>3 DEF IInv, TypeOK, Backed, Packet, NoPacket
<1> QED BY <1>6, <1>7, <1>8, <1>9 DEF IInv

\* An ACK leases an address the client claims or that is reserved for it.
LEMMA ConfirmIInv ==
    ASSUME IInv, NEW m \in Mac, NEW ip \in Subnet \cup {NoIp}, NEW xid \in Xid,
           Confirm(m, ip, xid), TypeOK'
    PROVE  IInv'
<1>1. /\ leases' = [leases EXCEPT ![m] = ip]
      /\ offered_pool' = [offered_pool EXCEPT ![m] = NoIp]
      /\ handler' = Packet("ack", m, ip, xid)
      /\ sent' = NoPacket
  BY DEF Confirm
<1>2. /\ ip # NoIp
      /\ ip \notin reserved_ips
      /\ ip \in Claims(m) \/ ip = static_reservations[m]
  BY DEF Confirm, Valid, Claims
<1>3. /\ \A n \in Mac \ {m} : Claims(n)' = Claims(n)
      /\ Claims(m)' = {ip}
  BY <1>1, <1>2 DEF IInv, TypeOK, Claims
<1>4. \A n \in Mac \ {m} : ip \notin Claims(n)
  <2>1. CASE ip = static_reservations[m]
    BY <1>2, <2>1, StaticIsExclusive DEF IInv, ClaimsWithin
  <2>2. CASE ip \in Claims(m)
    BY <2>2 DEF IInv, ClaimsExclusive
  <2> QED BY <1>2, <2>1, <2>2
<1>5. ClaimsWithin'
  BY <1>2, <1>3 DEF IInv, ClaimsWithin
<1>6. ClaimsExclusive'
  BY <1>3, <1>4 DEF IInv, ClaimsExclusive
<1>7. ReservedNeverLeased'
  BY <1>1, <1>2 DEF IInv, TypeOK, ReservedNeverLeased
<1>8. Backed(handler)' /\ Backed(sent)'
  BY <1>1 DEF IInv, TypeOK, Backed, Packet, NoPacket
<1> QED BY <1>5, <1>6, <1>7, <1>8 DEF IInv

\* Every step preserves the invariant.
LEMMA NextIInv == IInv /\ TypeOK' /\ [Next]_vars => IInv'
<1> SUFFICES ASSUME IInv, TypeOK', [Next]_vars PROVE IInv'
  OBVIOUS
<1>1. ASSUME NEW m \in Mac, NEW xid \in Xid, Discover(m, xid)
      PROVE  IInv'
  BY <1>1, DiscoverIInv
<1>2. ASSUME NEW m \in Mac, NEW ip \in Subnet \cup {NoIp}, NEW xid \in Xid,
             Confirm(m, ip, xid)
      PROVE  IInv'
  BY <1>2, ConfirmIInv
<1>3. ASSUME NEW m \in Mac, NEW ip \in Subnet \cup {NoIp}, NEW xid \in Xid,
             Refuse(m, ip, xid)
      PROVE  IInv'
  <2>1. ClaimsWithin' /\ ClaimsExclusive' /\ ReservedNeverLeased'
    BY <1>3, TablesUnchanged DEF Refuse, IInv
  <2>2. Backed(handler)' /\ Backed(sent)'
    BY <1>3 DEF Refuse, Backed, Packet, NoPacket
  <2> QED BY <2>1, <2>2 DEF IInv
<1>4. CASE SendReply
  <2>1. ClaimsWithin' /\ ClaimsExclusive' /\ ReservedNeverLeased'
    BY <1>4, TablesUnchanged DEF SendReply, IInv
  <2>2. Backed(handler)' /\ Backed(sent)'
    BY <1>4 DEF SendReply, Backed, NoPacket, IInv
  <2> QED BY <2>1, <2>2 DEF IInv
<1>5. CASE ReplyFails
  <2>1. ClaimsWithin' /\ ClaimsExclusive' /\ ReservedNeverLeased'
    BY <1>5, TablesUnchanged DEF ReplyFails, IInv
  <2>2. Backed(handler)' /\ Backed(sent)'
    BY <1>5 DEF ReplyFails, Backed, NoPacket
  <2> QED BY <2>1, <2>2 DEF IInv
<1>6. ASSUME NEW data \in Updates, set_config(data)
      PROVE  IInv'
  <2>1. ClaimsWithin' /\ ClaimsExclusive' /\ ReservedNeverLeased'
    BY <1>6, TablesUnchanged DEF set_config, IInv
  <2>2. Backed(handler)' /\ Backed(sent)'
    BY <1>6 DEF set_config, Backed, NoPacket, IInv
  <2> QED BY <2>1, <2>2 DEF IInv
<1>7. CASE UNCHANGED vars
  <2>1. ClaimsWithin' /\ ClaimsExclusive' /\ ReservedNeverLeased'
    BY <1>7, TablesUnchanged DEF vars, IInv
  <2>2. Backed(handler)' /\ Backed(sent)'
    BY <1>7 DEF vars, Backed, IInv
  <2> QED BY <2>1, <2>2 DEF IInv
<1> QED BY <1>1, <1>2, <1>3, <1>4, <1>5, <1>6, <1>7 DEF Next, Request

THEOREM Invariant == Spec => []IInv
<1>1. Spec => []TypeOK
  BY TypeCorrect
<1> QED BY <1>1, InitIInv, NextIInv, PTL DEF Spec

-----------------------------------------------------------------------------
(* What follows from it *)

\* No address is offered or leased to two clients.
THEOREM Exclusive == Spec => []ClaimsExclusive
<1>1. IInv => ClaimsExclusive
  BY DEF IInv
<1> QED BY <1>1, Invariant, PTL

\* The addresses of the infrastructure are never leased.
THEOREM NeverReserved == Spec => []ReservedNeverLeased
<1>1. IInv => ReservedNeverLeased
  BY DEF IInv
<1> QED BY <1>1, Invariant, PTL

\* An address a reservation names is claimed by nobody else.
THEOREM Locked == Spec => []ReservationsLocked
<1>1. ASSUME IInv, NEW i \in Kept, NEW m \in Mac,
             Reservations[i].ip \in Claims(m)
      PROVE  Reservations[i].mac = m
  <2>1. Reservations[i].ip \notin available_ips
    BY DEF available_ips
  <2>2. Reservations[i].ip = static_reservations[m] /\ Reservations[i].ip # NoIp
    BY <1>1, <2>1 DEF IInv, ClaimsWithin, Kept
  <2>3. PICK j \in Kept : /\ Reservations[j].mac = m
                          /\ Reservations[j].ip = static_reservations[m]
    BY <2>2, StaticIsReserved
  <2> QED BY <2>2, <2>3, ReservationsAssumption DEF Kept
<1>2. IInv => ReservationsLocked
  BY <1>1 DEF ReservationsLocked
<1> QED BY <1>2, Invariant, PTL

\* What goes on the wire is recorded, and promised to nobody else.
THEOREM WireBacked == Spec => []PromiseBacked
<1>1. ASSUME IInv, sent.kind \in {"offer", "ack"}, NEW n \in Mac \ {sent.mac}
      PROVE  sent.ip \notin Claims(n)
  <2>1. sent \in Packets
    BY <1>1 DEF IInv, TypeOK, NoPacket
  <2>2. sent.mac \in Mac
    BY <2>1 DEF Packets
  <2>3. CASE sent.ip = NoIp
    BY <2>3 DEF Claims
  <2>4. CASE sent.ip # NoIp
    <3>1. sent.ip \in Claims(sent.mac)
      BY <1>1, <2>4 DEF IInv, Backed, Claims
    <3> QED BY <1>1, <2>2, <3>1 DEF IInv, ClaimsExclusive
  <2> QED BY <2>3, <2>4
<1>2. IInv => PromiseBacked
  BY <1>1 DEF PromiseBacked, IInv
<1> QED BY <1>2, Invariant, PTL

-----------------------------------------------------------------------------
(* The pool cannot be exhausted *)

\* A table with one address per client of a set D names at most |D| addresses.
LEMMA ImageBound ==
    ASSUME NEW D, IsFiniteSet(D), NEW T, NEW f \in [D -> T]
    PROVE  /\ IsFiniteSet({f[d] : d \in D})
           /\ Cardinality({f[d] : d \in D}) <= Cardinality(D)
<1> DEFINE R == {f[d] : d \in D}
<1>1. f \in Surjection(D, R)
  BY DEF Surjection
<1> QED BY <1>1, FS_Surjection

\* Whoever finds no address to offer has all open ones offered or leased to
\* the clients without a reservation, at most two to each.
LEMMA AlwaysRoom == IInv => NeverExhausted
<1> DEFINE offers == {offered_pool[m] : m \in Dynamic}
           leased == {leases[m] : m \in Dynamic}
<1>1. ASSUME IInv, NextIp = NoIp
      PROVE  available_ips \subseteq offers \cup leased
  <2> SUFFICES ASSUME NEW ip \in available_ips
               PROVE  ip \in offers \cup leased
    OBVIOUS
  <2>1. ip # NoIp /\ ip \notin reserved_ips
    BY AvailableInSubnet, SubnetAssumption
  <2>2. ip \in Taken
    <3> DEFINE free == available_ips \ Taken
    <3>1. SUFFICES free = {}
      OBVIOUS
    <3>2. ASSUME free # {} PROVE FALSE
      <4>1. free \in SUBSET Nat
        BY AvailableInSubnet
      <4>2. Min(free) \in free
        BY <3>2, <4>1, MinIsLeast
      <4>3. NextIp = Min(free)
        BY <3>2 DEF NextIp
      <4> QED BY <1>1, <4>2, <4>3, AvailableInSubnet, SubnetAssumption
    <3> QED BY <3>2
  <2>3. PICK m \in Mac : ip = offered_pool[m] \/ ip = leases[m]
    BY <2>1, <2>2 DEF Taken
  <2>4. ip \in Claims(m)
    BY <2>1, <2>3 DEF Claims
  <2>5. CASE static_reservations[m] # NoIp
    <3>1. Claims(m) \subseteq {static_reservations[m]}
      BY <1>1, <2>5 DEF IInv, ClaimsWithin
    <3> QED BY <2>4, <2>5, <3>1, StaticIsExclusive
  <2>6. CASE static_reservations[m] = NoIp
    BY <2>3, <2>6 DEF Dynamic
  <2> QED BY <2>5, <2>6
<1>2. ASSUME IInv
      PROVE  /\ IsFiniteSet(offers \cup leased)
             /\ Cardinality(offers \cup leased) <= 2 * Cardinality(Dynamic)
  <2>1. /\ Dynamic \subseteq Mac
        /\ IsFiniteSet(Dynamic)
        /\ Cardinality(Dynamic) \in Nat
    BY SubnetAssumption, FS_Subset, FS_CardinalityType DEF Dynamic
  <2> DEFINE o == [m \in Dynamic |-> offered_pool[m]]
             l == [m \in Dynamic |-> leases[m]]
  <2>2. /\ o \in [Dynamic -> Subnet \cup {NoIp}]
        /\ l \in [Dynamic -> Subnet \cup {NoIp}]
    BY <1>2, <2>1 DEF IInv, TypeOK
  <2>3. /\ offers = {o[m] : m \in Dynamic}
        /\ leased = {l[m] : m \in Dynamic}
    OBVIOUS
  <2>4. /\ IsFiniteSet({o[m] : m \in Dynamic})
        /\ Cardinality({o[m] : m \in Dynamic}) <= Cardinality(Dynamic)
    <3> HIDE DEF o
    <3> QED BY <2>1, <2>2, ImageBound
  <2>5. /\ IsFiniteSet({l[m] : m \in Dynamic})
        /\ Cardinality({l[m] : m \in Dynamic}) <= Cardinality(Dynamic)
    <3> HIDE DEF l
    <3> QED BY <2>1, <2>2, ImageBound
  <2>6. /\ IsFiniteSet(offers) /\ IsFiniteSet(leased)
        /\ Cardinality(offers) <= Cardinality(Dynamic)
        /\ Cardinality(leased) <= Cardinality(Dynamic)
    BY <2>3, <2>4, <2>5
  <2> HIDE DEF offers, leased
  <2>7. /\ Cardinality(offers) \in Nat /\ Cardinality(leased) \in Nat
        /\ Cardinality(offers \cap leased) \in Nat
    BY <2>6, FS_CardinalityType, FS_Subset
  <2>8. /\ IsFiniteSet(offers \cup leased)
        /\ Cardinality(offers \cup leased) =
             Cardinality(offers) + Cardinality(leased)
               - Cardinality(offers \cap leased)
    BY <2>6, FS_Union
  <2> QED BY <2>1, <2>6, <2>7, <2>8
<1>3. IInv => NeverExhausted
  <2> SUFFICES ASSUME IInv, NextIp = NoIp
               PROVE  ~ (Cardinality(available_ips) > 2 * Cardinality(Dynamic))
    BY DEF NeverExhausted
  <2> HIDE DEF offers, leased
  <2>1. available_ips \in SUBSET (offers \cup leased)
    BY <1>1
  <2>2. Cardinality(available_ips) <= Cardinality(offers \cup leased)
    BY <1>2, <2>1, FS_Subset
  <2>3. /\ Cardinality(available_ips) \in Nat
        /\ Cardinality(offers \cup leased) \in Nat
        /\ Cardinality(Dynamic) \in Nat
    BY <1>2, AvailableInSubnet, SubnetAssumption, FS_Subset, FS_CardinalityType
       DEF Dynamic
  <2> QED BY <1>2, <2>2, <2>3
<1> QED BY <1>3

\* With more than two open addresses per client without a reservation, one of
\* them is always neither offered nor leased.
THEOREM Unexhausted == Spec => []NeverExhausted
BY AlwaysRoom, Invariant, PTL

-----------------------------------------------------------------------------
(* Refinement *)

\* Every behaviour of the server, its claims read as what the abstract pool
\* holds, is a behaviour of the abstract pool.
THEOREM Refinement == Spec => RefinesLeasePool
<1> DEFINE H == [m \in Mac |-> Claims(m)]
           L == [m \in Mac |-> {leases[m]} \ {NoIp}]
           K == [m \in Mac |-> {static_reservations[m]} \ {NoIp}]
<1>1. Init => Pool!Init
  BY DEF Init, Pool!Init, Claims
<1>2. IInv /\ TypeOK' /\ [Next]_vars => [Pool!Next]_(Pool!vars)
  <2> SUFFICES ASSUME IInv, TypeOK', [Next]_vars
               PROVE  Pool!Next \/ UNCHANGED Pool!vars
    OBVIOUS
  <2>1. ASSUME NEW m \in Mac, NEW xid \in Xid, Discover(m, xid)
        PROVE  Pool!Next
    <3> DEFINE ip == OfferFor(m)
    <3>1. /\ ip \in Subnet
          /\ \/ ip = static_reservations[m]
             \/ ip \in available_ips \ Taken
      BY <2>1, OfferForIsFree DEF Discover
    <3>2. ip # NoIp
      BY <2>1 DEF Discover
    <3> HIDE DEF ip
    <3>3. /\ offered_pool' = [offered_pool EXCEPT ![m] = ip]
          /\ leases' = leases
      BY <2>1 DEF Discover, ip
    <3>4. \A n \in Mac \ {m} : ip \notin Claims(n)
      <4>1. CASE ip = static_reservations[m]
        BY <3>2, <4>1, StaticIsExclusive DEF IInv, ClaimsWithin
      <4>2. CASE ip \in available_ips \ Taken
        BY <4>2 DEF Taken, Claims
      <4> QED BY <3>1, <4>1, <4>2
    <3>5. \A n \in Mac :
            Claims(n)' = IF n = m THEN L[m] \cup {ip} ELSE Claims(n)
      BY <3>2, <3>3 DEF IInv, TypeOK, Claims
    <3>6. /\ H' = [H EXCEPT ![m] = L[m] \cup {ip}]
          /\ L' = L
      BY <3>3, <3>5
    <3>7. ip \in available_ips \cup K[m]
      BY <3>1, <3>2
    <3>8. ip \notin UNION {H[d] : d \in Mac \ {m}}
      BY <3>4
    <3>9. Pool!Reserve(m, ip)
      BY <3>6, <3>7, <3>8 DEF Pool!Reserve, Pool!HeldByOthers
    <3> QED BY <3>1, <3>9 DEF Pool!Next
  <2>2. ASSUME NEW m \in Mac, NEW ip \in Subnet \cup {NoIp}, NEW xid \in Xid,
               Confirm(m, ip, xid)
        PROVE  Pool!Next
    <3>1. /\ leases' = [leases EXCEPT ![m] = ip]
          /\ offered_pool' = [offered_pool EXCEPT ![m] = NoIp]
      BY <2>2 DEF Confirm
    <3>2. /\ ip # NoIp /\ ip \in Subnet
          /\ ip \notin reserved_ips
          /\ ip \in Claims(m) \/ ip = static_reservations[m]
      BY <2>2 DEF Confirm, Valid, Claims
    <3>3. \A n \in Mac \ {m} : ip \notin Claims(n)
      <4>1. CASE ip = static_reservations[m]
        BY <3>2, <4>1, StaticIsExclusive DEF IInv, ClaimsWithin
      <4>2. CASE ip \in Claims(m)
        BY <4>2 DEF IInv, ClaimsExclusive
      <4> QED BY <3>2, <4>1, <4>2
    <3>4. \A n \in Mac : Claims(n)' = IF n = m THEN {ip} ELSE Claims(n)
      BY <3>1, <3>2 DEF IInv, TypeOK, Claims
    <3>5. /\ H' = [H EXCEPT ![m] = {ip}]
          /\ L' = [L EXCEPT ![m] = {ip}]
      BY <3>1, <3>2, <3>4 DEF IInv, TypeOK
    <3>6. ip \in H[m] \cup K[m]
      BY <3>2
    <3>7. ip \notin UNION {H[d] : d \in Mac \ {m}}
      BY <3>3
    <3>8. Pool!Confirm(m, ip)
      BY <3>2, <3>5, <3>6, <3>7 DEF Pool!Confirm, Pool!HeldByOthers
    <3> QED BY <3>2, <3>8 DEF Pool!Next
  <2>3. ASSUME UNCHANGED <<leases, offered_pool>>
        PROVE  UNCHANGED Pool!vars
    BY <2>3 DEF Pool!vars, Claims
  <2> QED BY <2>1, <2>2, <2>3
          DEF Next, Request, Refuse, SendReply, ReplyFails, set_config, vars
<1> QED BY <1>1, <1>2, TypeCorrect, Invariant, PTL
        DEF Spec, RefinesLeasePool, Pool!Spec

=============================================================================
