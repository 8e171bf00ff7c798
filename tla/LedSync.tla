-------------------------------- MODULE LedSync --------------------------------
(***************************************************************************)
(* The LEDs of a bridged keyboard (evdev_bridge.rs) and those a host means *)
(* it to show (bluetooth/keyboard/mod.rs).  The bridge listens to the HID  *)
(* server's return events, then loads the LEDs the server has stored, then *)
(* applies the events.  Hosts write their LEDs at any time, through either *)
(* of two characteristics; the keyboard is bridged again and again.        *)
(***************************************************************************)
EXTENDS Naturals, Sequences, FiniteSets

CONSTANTS
    Hosts,      \* Bluetooth addresses
    NLeds,      \* LEDs that are looked at (5: NumLock to Kana)
    EventCap,   \* return events a listener may be behind (16)
    None        \* no value (Option::None)

ASSUME BoundsAssumption == NLeds \in Nat /\ EventCap \in Nat \ {0}
ASSUME NoneAssumption   == None \notin Hosts

Leds      == 1 .. NLeds    \* by usage id
LedEvents == [from : Hosts, led : Leds, on : BOOLEAN]    \* LedOn, LedOff
Other     == [from |-> None]    \* Register, Suspend, Wake: the bridge does nothing
Events    == LedEvents \cup {Other}

VARIABLES
    known,      \* hosts in the server's table
    leds,       \* per host: KeyboardState.leds, none for a host that is not in the table
    phase,      \* the bridge: "off", "listening" (the LEDs are not loaded yet), "running"
    target,     \* the host it forwards to, or None
    events,     \* return events it has not read
    shown,      \* LEDs that are lit on the keyboard
    silent      \* LEDs of the target that changed, or were lit, without an event to say so

hostVars == <<known, leds>>
vars == <<known, leds, phase, target, events, shown, silent>>

Init ==
    /\ known = {}
    /\ leds = [h \in Hosts |-> {}]
    /\ phase = "off"
    /\ target = None
    /\ events = <<>>
    /\ shown \in SUBSET Leds
    /\ silent = {}

-----------------------------------------------------------------------------
(* The hosts and the server.                                               *)

\* Return events, for a bridge that listens.  (Bound: nobody writes while the listener
\* is already too far behind.)
Send(es) ==
    /\ Len(events) <= EventCap
    /\ events' = IF phase = "off" THEN events ELSE events \o es

\* acquire_device announces a host that is new to the table.
Announcement(h) == IF h \in known THEN <<>> ELSE <<Other>>

Acquire(h) == known' = known \cup {h}

\* The LEDs of a set in the order of their ids.
Ascending(S) ==
    {s \in [1 .. Cardinality(S) -> S] :
        /\ \A i, j \in DOMAIN s : i < j => s[i] < s[j]
        /\ \A l \in S : \E i \in DOMAIN s : s[i] = l}

Changed(h, lit) == (leds[h] \ lit) \cup (lit \ leds[h])

LedEventsOf(h, order, lit) ==
    [i \in DOMAIN order |-> [from |-> h, led |-> order[i], on |-> order[i] \in lit]]

\* The output report is written: an event for every LED that changes.  The lock is given
\* back before they are sent, but there is one thread and no await in between.
WriteReport(h, lit) ==
    /\ Acquire(h)
    /\ leds' = [leds EXCEPT ![h] = lit]
    /\ \E order \in Ascending(Changed(h, lit)) :
          Send(Announcement(h) \o LedEventsOf(h, order, lit))
    /\ silent' = IF h = target THEN silent \ Changed(h, lit) ELSE silent
    /\ UNCHANGED <<phase, target, shown>>

\* The boot output report is written: no event.
WriteBoot(h, lit) ==
    /\ Acquire(h)
    /\ leds' = [leds EXCEPT ![h] = lit]
    /\ Send(Announcement(h))
    /\ silent' = IF h = target THEN silent \cup Changed(h, lit) ELSE silent
    /\ UNCHANGED <<phase, target, shown>>

\* The host comes into the table by a subscription or a write of the protocol.
Contact(h) ==
    /\ h \notin known
    /\ Acquire(h)
    /\ Send(Announcement(h))
    /\ UNCHANGED <<leds, phase, target, shown, silent>>

\* The control point is written.
SuspendOrWake ==
    /\ Send(<<Other>>)
    /\ UNCHANGED <<hostVars, phase, target, shown, silent>>

\* Mutant: the LEDs of a host outlive its entry.
ForgottenNot(h) == leds

Forgotten(h) == [leds EXCEPT ![h] = {}]

\* The host is removed from the adapter: disconnect_device, and again no event.
Disconnect(h) ==
    /\ h \in known
    /\ known' = known \ {h}
    /\ leds' = Forgotten(h)
    /\ silent' = IF h = target THEN silent \cup leds[h] ELSE silent
    /\ UNCHANGED <<phase, target, events, shown>>

-----------------------------------------------------------------------------
(* The bridge.                                                             *)

\* While the keyboard is not grabbed, others switch its LEDs.
SwitchLocally(lit) ==
    /\ phase = "off"
    /\ shown' = lit
    /\ UNCHANGED <<hostVars, phase, target, events, silent>>

\* keyboard.listen().
Start(h) ==
    /\ phase = "off"
    /\ phase' = "listening"
    /\ target' = h
    /\ UNCHANGED <<hostVars, events, shown, silent>>

\* Some unread event is about the target's LED l.
About(i, l) == events[i] \in LedEvents /\ events[i].from = target /\ events[i].led = l

Unread(l) == \E i \in 1 .. Len(events) : About(i, l)

\* The LEDs are loaded under the table's lock, if the table has the host.  Events from
\* before the load are still to come: what they say of a LED may be old until they
\* are read.
Load ==
    /\ phase = "listening"
    /\ phase' = "running"
    /\ shown' = IF target \in known THEN leds[target] ELSE shown
    /\ silent' = {l \in silent : Unread(l)} \cup (IF target \in known THEN {} ELSE shown)
    /\ UNCHANGED <<hostVars, target, events>>

\* Mutant: events of any host are applied.
ConcernsAny(e) == e \in LedEvents

Concerns(e) == e \in LedEvents /\ e.from = target

\* Mutant: LEDs are only switched on.
AfterOn(e) == IF e.on THEN shown \cup {e.led} ELSE shown

After(e) == IF e.on THEN shown \cup {e.led} ELSE shown \ {e.led}

TakeEvent ==
    /\ phase = "running"
    /\ events # <<>>
    /\ Len(events) <= EventCap
    /\ events' = Tail(events)
    /\ shown' = IF Concerns(Head(events)) THEN After(Head(events)) ELSE shown
    /\ UNCHANGED <<hostVars, phase, target, silent>>

Over ==
    /\ phase' = "off"
    /\ target' = None
    /\ events' = <<>>
    /\ silent' = {}
    /\ UNCHANGED <<hostVars, shown>>

\* RecvError::Lagged ends the bridge.
Lag ==
    /\ phase = "running"
    /\ Len(events) > EventCap
    /\ Over

\* Cancelled, escaped, or the device or the server failed; a load that fails may have
\* set some of the LEDs, which SwitchLocally allows as well.
End == phase # "off" /\ Over

Next ==
    \/ \E h \in Hosts :
          \/ Contact(h) \/ Disconnect(h) \/ Start(h)
          \/ \E lit \in SUBSET Leds : WriteReport(h, lit) \/ WriteBoot(h, lit)
    \/ \E lit \in SUBSET Leds : SwitchLocally(lit)
    \/ SuspendOrWake
    \/ Load \/ TakeEvent \/ Lag \/ End

Spec == Init /\ [][Next]_vars

\* The runtime polls the bridge, and select! takes its LED events in turn with the
\* keys that are typed.
FairSpec == Spec /\ WF_vars(Load) /\ WF_vars(TakeEvent \/ Lag)

-----------------------------------------------------------------------------
(* Properties.                                                             *)

TypeOK ==
    /\ known \subseteq Hosts
    /\ leds \in [Hosts -> SUBSET Leds]
    /\ \A h \in Hosts \ known : leds[h] = {}
    /\ phase \in {"off", "listening", "running"}
    /\ target \in Hosts \cup {None}
    /\ phase = "off" <=> target = None
    /\ events \in Seq(Events)
    /\ phase = "off" => events = <<>>
    /\ shown \subseteq Leds
    /\ silent \subseteq Leds

Agrees(l) == l \in shown <=> l \in leds[target]

\* Whenever a running bridge has read what there is about a LED, the keyboard shows it
\* as the host last wrote it: events that the load already covers, applied late, do no
\* lasting harm, and nothing is lost between listening and loading; unless the host
\* changed it without an event, by the boot report or by its removal, or was not there
\* to be asked (evdev_bridge.rs:166-177, 209-216; keyboard/mod.rs:282, 302-325).
LedsAgree ==
    phase = "running" => \A l \in Leds \ silent : Unread(l) \/ Agrees(l)

\* A LED that the keyboard shows wrong gets right, whatever else happens, while the
\* bridge lasts (evdev_bridge.rs:209-216).
LedsConverge ==
    \A h \in Hosts : \A l \in Leds :
        (target = h /\ ~Agrees(l)) ~> (target # h \/ l \in silent \/ Agrees(l))

\* The inductive invariant behind LedsAgree (see LedSyncProofs): what the last unread
\* event about a LED says is what the host wrote last.
LastUnread(i, l) == About(i, l) /\ \A j \in i + 1 .. Len(events) : ~About(j, l)

LastIsRight ==
    phase # "off" => \A l \in Leds \ silent : \A i \in 1 .. Len(events) :
        LastUnread(i, l) => (events[i].on <=> l \in leds[target])

IInv == TypeOK /\ LastIsRight /\ LedsAgree
=============================================================================
