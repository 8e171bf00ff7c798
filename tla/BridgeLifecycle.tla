--------------------------- MODULE BridgeLifecycle ---------------------------
(***************************************************************************)
(* What the daemon promises about the handle of a bridge, whatever the     *)
(* tasks, locks and channels behind it do.  A handle names one bridge      *)
(* forever; it enters the table of live handles once and leaves it once;   *)
(* BridgeBroken is broadcast at most once for it, and only when the        *)
(* handle can no longer be used and the bridge no longer owns its device.  *)
(***************************************************************************)
CONSTANT Handles    \* the handles the daemon can give out

VARIABLES place,    \* where each handle is in its one-way life
          ended     \* the handles whose bridge stopped forwarding

lifecycle == <<place, ended>>

Places == {"unused", "starting", "held", "withdrawn", "announced"}

LifecycleInit ==
    /\ place = [h \in Handles |-> "unused"]
    /\ ended = {}

Move(h, from, to) ==
    /\ place[h] = from
    /\ place' = [place EXCEPT ![h] = to]
    /\ UNCHANGED ended

Start(h)    == Move(h, "unused", "starting")
Hold(h)     == Move(h, "starting", "held")
Withdraw(h) == Move(h, "held", "withdrawn")

\* BridgeBroken(h): only for a bridge that has ended.
Announce(h) == h \in ended /\ Move(h, "withdrawn", "announced")

\* A bridge can end in any place it holds a device, and never restarts.
End(h) ==
    /\ place[h] \in {"starting", "held", "withdrawn"}
    /\ h \notin ended
    /\ ended' = ended \cup {h}
    /\ UNCHANGED place

LifecycleNext ==
    \E h \in Handles : \/ Start(h) \/ Hold(h) \/ Withdraw(h)
                       \/ Announce(h) \/ End(h)

LifecycleSpec == LifecycleInit /\ [][LifecycleNext]_lifecycle
=============================================================================
