--------------------------- MODULE MCMouseForwarding ---------------------------
(* MouseForwarding with a report that holds movements of -2 to 1, as one byte *)
(* holds -128 to 127: a step to the left takes two reports, as does one to    *)
(* the right.                                                                 *)
EXTENDS MouseForwarding

MCLo    == -2
MCSteps == {-3, 2}

\* Bound: the host is not followed any further once the bridge has ended.
WhileRunning == Running
=============================================================================
