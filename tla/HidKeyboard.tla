----------------------------- MODULE HidKeyboard -----------------------------
(***************************************************************************)
(* The HID keyboard server (bluetooth/keyboard/mod.rs): key events of      *)
(* several bridges arrive through one bounded channel, change the table of *)
(* devices under its write lock and are reported to the hosts, which at    *)
(* any time subscribe, drop their subscription, write the protocol mode or *)
(* are removed from the adapter.                                           *)
(*                                                                         *)
(* LED values and return events are left out, and so is Target::Broadcast: *)
(* the daemon only ever bridges to one address.                            *)
(***************************************************************************)
EXTENDS Naturals, Sequences, FiniteSets

CONSTANTS
    Hosts,      \* Bluetooth addresses
    Bridges,    \* keyboards that can be bridged
    Target,     \* Target[b]: the host a bridge forwards to
    Keys,       \* usages of plain keys; 0 is not one of them
    Modifiers,  \* usages 0xE0 to 0xE7
    Slots,      \* keys in a report (6)
    QueueCap,   \* capacity of the channel of key events (16)
    None        \* no value (Option::None), and a slot with usage 0

ASSUME TargetAssumption == Target \in [Bridges -> Hosts]
ASSUME KeysAssumption   == Keys \cap Modifiers = {}
ASSUME BoundsAssumption == Slots \in Nat \ {0} /\ QueueCap \in Nat \ {0}

Protocols == {"boot", "report"}
Usages    == Keys \cup Modifiers
Events    == [op : {"press", "release"}, host : Hosts, key : Usages]
Writers   == {"live", "dead", None}    \* an open notification socket, or one the host has closed

KeyboardStates == [keys      : [1 .. Slots -> Keys \cup {None}],
                   modifiers : SUBSET Modifiers,
                   protocol  : Protocols,
                   writer    : [Protocols -> Writers]]

ASSUME NoneAssumption == None \notin Usages \cup Hosts \cup KeyboardStates \cup {"live", "dead"}

VARIABLES
    devices,    \* per host: its KeyboardState, or None
    queue,      \* the channel of key events
    notify,     \* per characteristic and host: a writer the server has not taken yet
    removals,   \* hosts whose DeviceRemoved the server has not taken yet
    sending,    \* the host a report is being sent to, under the table's lock
    server,     \* "running" or "panicked"
    pressed,    \* per bridge: the keys it sent as pressed and not yet as released
    orphans,    \* per host: keys that a bridge held when it ended
    seen        \* per host: the last report on the protocol in use

vars == <<devices, queue, notify, removals, sending, server, pressed, orphans, seen>>

DefaultState == [keys      |-> [i \in 1 .. Slots |-> None],
                 modifiers |-> {},
                 protocol  |-> "report",
                 writer    |-> [p \in Protocols |-> None]]

Running == server = "running"

\* Mutant: the lock is given back before a report is sent.
UnlockedAlways == Running

\* The server holds the write lock while it sends; callbacks wait for it.
Unlocked == Running /\ sending = None

Init ==
    /\ devices = [h \in Hosts |-> None]
    /\ queue = <<>>
    /\ notify = [p \in Protocols |-> [h \in Hosts |-> None]]
    /\ removals = {}
    /\ sending = None
    /\ server = "running"
    /\ pressed = [b \in Bridges |-> {}]
    /\ orphans = [h \in Hosts |-> {}]
    /\ seen = [h \in Hosts |-> None]

-----------------------------------------------------------------------------
(* The bridges.                                                            *)

Enqueue(op, h, k) ==
    /\ Running
    /\ Len(queue) < QueueCap
    /\ queue' = Append(queue, [op |-> op, host |-> h, key |-> k])

\* Keyboard::press, also of a usage that another key of the same keyboard has down.
Press(b, k) ==
    /\ Enqueue("press", Target[b], k)
    /\ pressed' = [pressed EXCEPT ![b] = @ \cup {k}]
    /\ UNCHANGED <<devices, notify, removals, sending, server, orphans, seen>>

\* Keyboard::release, by an escape also of a key the bridge has not pressed.
Release(b, k) ==
    /\ Enqueue("release", Target[b], k)
    /\ pressed' = [pressed EXCEPT ![b] = @ \ {k}]
    /\ orphans' = [orphans EXCEPT ![Target[b]] = @ \ {k}]
    /\ UNCHANGED <<devices, notify, removals, sending, server, seen>>

\* The bridge ends; it can be made again at once.
End(b) ==
    /\ pressed[b] # {}
    /\ orphans' = [orphans EXCEPT ![Target[b]] = @ \cup pressed[b]]
    /\ pressed' = [pressed EXCEPT ![b] = {}]
    /\ UNCHANGED <<devices, queue, notify, removals, sending, server, seen>>

-----------------------------------------------------------------------------
(* The hosts.                                                              *)

\* DeviceMap::acquire_device.
Acquired(h) == IF devices[h] = None THEN DefaultState ELSE devices[h]

\* A host enables notifications (bound: one writer of each kind is under way).
Subscribe(h, p) ==
    /\ Running
    /\ notify[p][h] = None
    /\ notify' = [notify EXCEPT ![p][h] = "live"]
    /\ UNCHANGED <<devices, queue, removals, sending, server, pressed, orphans, seen>>

Closed(w) == IF w = "live" THEN "dead" ELSE w

\* A host disables notifications or disconnects: its writers are closed, and the
\* table keeps them.
Unsubscribe(h, p) ==
    /\ Running
    /\ notify[p][h] = "live" \/ (devices[h] # None /\ devices[h].writer[p] = "live")
    /\ notify' = [notify EXCEPT ![p][h] = Closed(@)]
    /\ devices' = IF devices[h] = None THEN devices
                  ELSE [devices EXCEPT ![h].writer[p] = Closed(@)]
    /\ UNCHANGED <<queue, removals, sending, server, pressed, orphans, seen>>

\* The protocol_mode characteristic is written.
WriteProtocol(h, p) ==
    /\ Unlocked
    /\ devices' = [devices EXCEPT ![h] = [Acquired(h) EXCEPT !.protocol = p]]
    /\ seen' = [seen EXCEPT ![h] = None]
    /\ UNCHANGED <<queue, notify, removals, sending, server, pressed, orphans>>

\* LEDs are written, by a host that may not have subscribed yet.
WriteLeds(h) ==
    /\ Unlocked
    /\ devices' = [devices EXCEPT ![h] = Acquired(h)]
    /\ UNCHANGED <<queue, notify, removals, sending, server, pressed, orphans, seen>>

\* The host is removed from the adapter; it can be paired again at any time.
RemoveDevice(h) ==
    /\ Running
    /\ h \notin removals
    /\ removals' = removals \cup {h}
    /\ UNCHANGED <<devices, queue, notify, sending, server, pressed, orphans, seen>>

-----------------------------------------------------------------------------
(* The server.                                                             *)

IsModifier(k) == k \in Modifiers

\* A slot that holds u.  The code takes the first; which one it is shows in no report,
\* whose keys are in no order.
Slot(keys, u) == CHOOSE i \in DOMAIN keys : keys[i] = u

Holds(keys, u) == \E i \in DOMAIN keys : keys[i] = u

\* Mutant: the key is not looked for before it is put into a slot.
SlotsAfterPressTwice(keys, k) ==
    IF ~Holds(keys, None) THEN keys ELSE [keys EXCEPT ![Slot(keys, None)] = k]

\* Mutant: a key that finds no free slot takes the first one.
SlotsAfterPressEvicting(keys, k) ==
    IF Holds(keys, k) THEN keys
    ELSE [keys EXCEPT ![IF Holds(keys, None) THEN Slot(keys, None) ELSE 1] = k]

\* A key that is down already, or that finds no free slot, changes nothing.
SlotsAfterPress(keys, k) ==
    IF Holds(keys, k) \/ ~Holds(keys, None) THEN keys
    ELSE [keys EXCEPT ![Slot(keys, None)] = k]

SlotsAfterRelease(keys, k) ==
    IF Holds(keys, k) THEN [keys EXCEPT ![Slot(keys, k)] = None] ELSE keys

AfterPress(d, k) ==
    IF IsModifier(k) THEN [d EXCEPT !.modifiers = @ \cup {k}]
    ELSE [d EXCEPT !.keys = SlotsAfterPress(@, k)]

AfterRelease(d, k) ==
    IF IsModifier(k) THEN [d EXCEPT !.modifiers = @ \ {k}]
    ELSE [d EXCEPT !.keys = SlotsAfterRelease(@, k)]

\* Mutant: a release is reported for modifiers only.
ReportsPressesOnly(d, e) == e.op = "press" /\ (IsModifier(e.key) \/ ~Holds(d.keys, e.key))

\* A report is sent, except for a key that is down already or up already.
Reports(d, e) ==
    IsModifier(e.key) \/ (e.op = "press" <=> ~Holds(d.keys, e.key))

\* A key event is applied to its target, if the server knows it, and reported.
ServeKey ==
    /\ Unlocked
    /\ queue # <<>>
    /\ queue' = Tail(queue)
    /\ LET e == Head(queue)
           d == devices[e.host]
       IN  \/ d = None /\ UNCHANGED <<devices, sending>>
           \/ /\ d # None
              /\ devices' = [devices EXCEPT ![e.host] =
                    IF e.op = "press" THEN AfterPress(d, e.key) ELSE AfterRelease(d, e.key)]
              /\ sending' = IF Reports(d, e) THEN e.host ELSE None
    /\ UNCHANGED <<notify, removals, server, pressed, orphans, seen>>

Report(d) == [keys |-> {d.keys[i] : i \in DOMAIN d.keys} \ {None}, modifiers |-> d.modifiers]

Writer(d) == d.writer[d.protocol]

\* Mutant: a report that cannot be sent is tried again.
SendReportRetrying ==
    /\ Running
    /\ sending # None
    /\ Writer(devices[sending]) # "dead"
    /\ sending' = None
    /\ seen' = IF Writer(devices[sending]) = None THEN seen
               ELSE [seen EXCEPT ![sending] = Report(devices[sending])]
    /\ UNCHANGED <<devices, queue, notify, removals, server, pressed, orphans>>

\* send_report: nothing without a subscription; a closed one panics.  An open one
\* takes the report when its socket has room.
SendReport ==
    /\ Running
    /\ sending # None
    /\ sending' = None
    /\ LET d == devices[sending]
       IN  \/ Writer(d) = None /\ UNCHANGED <<server, seen>>
           \/ Writer(d) = "live" /\ seen' = [seen EXCEPT ![sending] = Report(d)] /\ UNCHANGED server
           \/ Writer(d) = "dead" /\ server' = "panicked" /\ UNCHANGED seen
    /\ UNCHANGED <<devices, queue, notify, removals, pressed, orphans>>

\* BootReportNotify, ReportNotify.
TakeWriter(h, p) ==
    /\ Unlocked
    /\ notify[p][h] # None
    /\ notify' = [notify EXCEPT ![p][h] = None]
    /\ devices' = [devices EXCEPT ![h] = [Acquired(h) EXCEPT !.writer[p] = notify[p][h]]]
    /\ seen' = IF devices'[h].protocol = p THEN [seen EXCEPT ![h] = None] ELSE seen
    /\ UNCHANGED <<queue, removals, sending, server, pressed, orphans>>

\* DeviceDisconnect: DeviceMap::disconnect_device.
TakeRemoval(h) ==
    /\ Unlocked
    /\ h \in removals
    /\ removals' = removals \ {h}
    /\ devices' = [devices EXCEPT ![h] = None]
    /\ seen' = [seen EXCEPT ![h] = None]
    /\ UNCHANGED <<queue, notify, sending, server, pressed, orphans>>

Next ==
    \/ \E b \in Bridges : End(b) \/ \E k \in Usages : Press(b, k) \/ Release(b, k)
    \/ \E h \in Hosts :
          \/ WriteLeds(h) \/ RemoveDevice(h) \/ TakeRemoval(h)
          \/ \E p \in Protocols : Subscribe(h, p) \/ Unsubscribe(h, p)
                                  \/ WriteProtocol(h, p) \/ TakeWriter(h, p)
    \/ ServeKey
    \/ SendReport

Spec == Init /\ [][Next]_vars

\* The runtime polls the server again and again, and the hosts read what is sent.
FairSpec == Spec /\ WF_vars(ServeKey) /\ WF_vars(SendReport)

-----------------------------------------------------------------------------
(* Properties.                                                             *)

TypeOK ==
    /\ devices \in [Hosts -> KeyboardStates \cup {None}]
    /\ queue \in Seq(Events) /\ Len(queue) <= QueueCap
    /\ notify \in [Protocols -> [Hosts -> Writers]]
    /\ removals \subseteq Hosts
    /\ sending \in Hosts \cup {None}
    /\ server \in {"running", "panicked"}
    /\ pressed \in [Bridges -> SUBSET Usages]
    /\ orphans \in [Hosts -> SUBSET Usages]
    /\ seen \in [Hosts -> [keys : SUBSET Keys, modifiers : SUBSET Modifiers] \cup {None}]
    /\ sending # None => devices[sending] # None

DownOf(d) == Report(d).keys \cup d.modifiers
Down(h)   == IF devices[h] = None THEN {} ELSE DownOf(devices[h])

\* A key that is down on a host is held by a bridge to it, or was held by one that
\* ended, or its release is on its way: however the events of several bridges
\* interleave with each other and with the host's own doings, the server does not
\* leave a key stuck (keyboard/mod.rs:361-402).
NoKeyStuck ==
    \A h \in Hosts : \A k \in Down(h) :
        \/ \E b \in Bridges : Target[b] = h /\ k \in pressed[b]
        \/ k \in orphans[h]
        \/ \E i \in 1 .. Len(queue) : queue[i] = [op |-> "release", host |-> h, key |-> k]

\* The six slots behave as a set of at most six keys: a press adds its key unless
\* six others are down, a release takes it away whatever was pressed how often
\* before, and no other key is disturbed (keyboard/mod.rs:362-390).
SlotsAreASet ==
    [][\A h \in Hosts :
         (queue # <<>> /\ queue' = Tail(queue) /\ Head(queue).host = h /\ devices[h] # None) =>
            Down(h)' = LET e    == Head(queue)
                           room == IsModifier(e.key) \/ Cardinality(Down(h) \ Modifiers) < Slots
                       IN  IF e.op = "release" THEN Down(h) \ {e.key}
                           ELSE IF room THEN Down(h) \cup {e.key} ELSE Down(h)]_vars

\* What a subscribed host was told last is what the server thinks it was told:
\* between two events no change of the keys is unreported (keyboard/mod.rs:164-181, 361-390).
HostIsCurrent ==
    \A h \in Hosts :
        (Unlocked /\ devices[h] # None /\ seen[h] # None /\ Writer(devices[h]) = "live")
            => seen[h] = Report(devices[h])

\* A full channel gets room again, so that no bridge is held up for good, as long
\* as the hosts read their reports and the server lives (keyboard/mod.rs:66, 342-360).
QueueGetsRoom == (Len(queue) = QueueCap) ~> (Len(queue) < QueueCap \/ ~Running)

\* README.md:96 "allowing you to disconnect, switch devices, or do other activity
\* without constantly starting and stopping the keyboard and mouse services": the
\* keyboard service outlives its hosts.
ServiceOutlivesHosts == Running
=============================================================================
