----------------------------- MODULE LeasePool -----------------------------
(***************************************************************************)
(* What a DHCP server promises about addresses, with no word on how: no    *)
(* first-fit search, no configuration, no packets, no failures.            *)
(*                                                                         *)
(* An address is first RESERVED for a client and may then be CONFIRMED as  *)
(* its lease.  Whatever is held for one client is held for nobody else,    *)
(* which is what lets the client use a confirmed address on the network.   *)
(* DhcpServer implements this specification (property RefinesLeasePool).   *)
(***************************************************************************)

CONSTANTS
    Client,      \* who asks
    Address,     \* every address that can ever be held
    Open,        \* the addresses any client may be given
    Unusable,    \* the addresses of the infrastructure, never leased
    Locked       \* client -> the set of addresses set aside for it

VARIABLES
    held,        \* client -> addresses kept for it, promised or leased
    leased       \* client -> the addresses it may use (at most one)

vars == <<held, leased>>

HeldByOthers(c) == UNION {held[d] : d \in Client \ {c}}

Init ==
    /\ held = [c \in Client |-> {}]
    /\ leased = [c \in Client |-> {}]

\* Promise address a to client c.  An earlier promise to c lapses, its lease
\* stays.
Reserve(c, a) ==
    /\ a \in Open \cup Locked[c]
    /\ a \notin HeldByOthers(c)
    /\ held' = [held EXCEPT ![c] = leased[c] \cup {a}]
    /\ UNCHANGED leased

\* Lease address a to client c, which gives up everything else it held.
Confirm(c, a) ==
    /\ a \in held[c] \cup Locked[c]
    /\ a \notin Unusable
    /\ a \notin HeldByOthers(c)
    /\ held' = [held EXCEPT ![c] = {a}]
    /\ leased' = [leased EXCEPT ![c] = {a}]

Next == \E c \in Client, a \in Address : Reserve(c, a) \/ Confirm(c, a)

Spec == Init /\ [][Next]_vars

-----------------------------------------------------------------------------

\* Every client holds a set of addresses and leases some of them.
TypeOK ==
    /\ held \in [Client -> SUBSET Address]
    /\ leased \in [Client -> SUBSET Address]

\* No address is held for two clients, and what is leased is held.
Exclusive ==
    /\ \A c, d \in Client : c # d => held[c] \cap held[d] = {}
    /\ \A c \in Client : leased[c] \subseteq held[c]

=============================================================================
