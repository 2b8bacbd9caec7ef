---------------------------- MODULE ConfigRegister ----------------------------
(***************************************************************************)
(* What the configuration of a CNF promises to the threads that share it:  *)
(* it is one register.  A PUT changes it at one instant and then reads it, *)
(* a GET or a packet reads it at one instant, and whatever is read was in  *)
(* force as a whole.  A PUT that fails may still have set the interface.   *)
(***************************************************************************)
EXTENDS Functions

CONSTANTS Thread, Bodies

VARIABLES config, op

vars == <<config, op>>

Idle == [kind |-> "idle"]
Written == [kind |-> "written"]
Answered(c) == [kind |-> "answered", config |-> c]

Init == op = [t \in Thread |-> Idle]

Write(t, body) ==
    /\ op[t] = Idle
    /\ op' = [op EXCEPT ![t] = Written]
    /\ config' = [f \in DOMAIN config |->
                    IF f \in DOMAIN body THEN body[f] ELSE config[f]]

WriteFails(t, body) ==
    /\ op[t] = Idle
    /\ "interface" \in DOMAIN body
    /\ config' = [config EXCEPT !.interface = body.interface]
    /\ UNCHANGED op

\* A packet reads only the entry it is about.
Read(t) ==
    /\ op[t] \in {Idle, Written}
    /\ \E ips \in SUBSET DOMAIN config.table :
         op' = [op EXCEPT ![t] =
                  Answered([config EXCEPT !.table = Restrict(@, ips)])]
    /\ UNCHANGED config

Finish(t) ==
    /\ op[t].kind = "answered"
    /\ op' = [op EXCEPT ![t] = Idle]
    /\ UNCHANGED config

Next == \E t \in Thread :
    \/ \E body \in Bodies : Write(t, body) \/ WriteFails(t, body)
    \/ Read(t)
    \/ Finish(t)

Spec == Init /\ [][Next]_vars

=============================================================================
