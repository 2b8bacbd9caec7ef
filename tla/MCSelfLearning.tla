--------------------------- MODULE MCSelfLearning ---------------------------
(***************************************************************************)
(* Small instances of SelfLearning: two hosts, seen by each switch on      *)
(* different ports.                                                        *)
(***************************************************************************)
EXTENDS SelfLearning

CONSTANTS d1, d3, h1, h2

Ports == [d \in {d1, d3} |->
            IF d = d1 THEN [h \in {h1, h2} |-> IF h = h1 THEN 1 ELSE 2]
                      ELSE [h \in {h1, h2} |-> IF h = h1 THEN 2 ELSE 1]]

OneSwitch == [d \in {d1} |-> Ports[d]]

=============================================================================
