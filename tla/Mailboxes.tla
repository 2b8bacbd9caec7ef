----------------------------- MODULE Mailboxes -----------------------------
(***************************************************************************)
(* What the controller's event bus promises its plugins: one mailbox each. *)
(*                                                                         *)
(* An event that is published joins the mailbox of every plugin that wants *)
(* it and is handled from there in the order of publication, one at a      *)
(* time, once for each subscription that wants it, whatever the other      *)
(* plugins do: nothing leaves a mailbox but by being handled.  Who         *)
(* subscribed first, and whether the event was published before or after   *)
(* that, does not matter.  Only the end of the bus may lose calls, and     *)
(* then the latest ones.  EventBus implements this specification (property *)
(* RefinesMailboxes).                                                      *)
(***************************************************************************)
EXTENDS Naturals, Sequences, Functions

CONSTANTS
    Plugin,        \* the plugins
    Event,         \* the event occurrences that may be published
    Wants(_, _)    \* Wants(p, e): the subscriptions of p that e is for, by
                   \* their number

VARIABLES
    open,          \* the bus still routes
    published,     \* the events published so far, in order
    due,           \* plugin -> the calls it is still due: <<event, number>>
    handling       \* the plugins that are handling a call

vars == <<open, published, due, handling>>

Init ==
    /\ open = TRUE
    /\ published = << >>
    /\ due = [p \in Plugin |-> {}]
    /\ handling = {}

\* Event d was published before event e.
Earlier(d, e) ==
    \E i, j \in DOMAIN published :
        i < j /\ published[i] = d /\ published[j] = e

\* A plugin is called for c before it is called for d.
Before(c, d) ==
    \/ Earlier(c[1], d[1])
    \/ c[1] = d[1] /\ c[2] < d[2]

Publish(e) ==
    /\ e \notin Range(published)
    /\ published' = Append(published, e)
    /\ due' = IF open THEN [p \in Plugin |-> due[p] \cup {e} \X Wants(p, e)]
              ELSE due
    /\ UNCHANGED <<open, handling>>

\* Plugin p starts on its next call.
Handle(p) ==
    /\ p \notin handling
    /\ \E c \in due[p] :
         /\ \A d \in due[p] \ {c} : Before(c, d)
         /\ due' = [due EXCEPT ![p] = @ \ {c}]
    /\ handling' = handling \cup {p}
    /\ UNCHANGED <<open, published>>

Return(p) ==
    /\ p \in handling
    /\ handling' = handling \ {p}
    /\ UNCHANGED <<open, published, due>>

\* From here on nothing is added, and what is lost is lost at the end.
Close ==
    /\ open' = FALSE
    /\ due' = [p \in Plugin |-> due'[p]]
    /\ \A p \in Plugin :
         /\ due'[p] \subseteq due[p]
         /\ \A c \in due'[p], d \in due[p] \ due'[p] : Before(c, d)
    /\ UNCHANGED <<published, handling>>

Next ==
    \/ \E e \in Event : Publish(e)
    \/ \E p \in Plugin : Handle(p) \/ Return(p)
    \/ Close

Spec == Init /\ [][Next]_vars

=============================================================================
