---------------------------- MODULE MCHidKeyboard ----------------------------
(* Instances of HidKeyboard: every bridge forwards to the same host, or each to *)
(* one of its own.                                                              *)
EXTENDS HidKeyboard, TLC

CONSTANTS b1, b2, h1, h2

OneHost  == [b \in Bridges |-> h1]
TwoHosts == [b \in Bridges |-> IF b = b1 THEN h1 ELSE h2]

\* Bound: the host stays with the report protocol.
ReportProtocolOnly ==
    \A h \in Hosts : /\ notify["boot"][h] = None
                     /\ devices[h] # None => devices[h].protocol = "report"

Symmetry == Permutations(Keys) \cup Permutations(Bridges)
=============================================================================
