-------------------------- MODULE MCBridgeRegistry --------------------------
(* BridgeRegistry on small instances; the .cfg files choose the sets. *)
EXTENDS BridgeRegistry, TLC

\* No client and no address is named apart: permuting them changes nothing.
\* Used by a safety run only.
ClientAddrSymmetry == Permutations(Clients) \cup Permutations(Addrs)

\* Bound: nothing happens before the daemon listens to the bus and the adapter
\* (the run on one client lifts it).
StartupFirst ==
    phase \in {"starting", "subscribed"} =>
        /\ nextId = 0
        /\ client = [c \in Clients |-> "on"]
        /\ call = [c \in Clients |-> None]
=============================================================================
