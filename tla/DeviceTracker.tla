----------------------------- MODULE DeviceTracker -----------------------------
(***************************************************************************)
(* The list of devices on D-Bus (bluekeyd/src/devices.rs).  The tracker    *)
(* hears of hosts through three streams, which it serves in any order: the *)
(* return events of the two HID servers (bounded broadcast channels) and   *)
(* the removals of the adapter.  The HID servers hear of the removals      *)
(* through streams of their own.                                           *)
(***************************************************************************)
EXTENDS Naturals, Sequences, FiniteSets

CONSTANTS
    Hosts,       \* Bluetooth addresses
    EventCap,    \* return events a listener may be behind (16)
    MaxEvents,   \* bound: return events that are sent
    None         \* no value (Option::None)

ASSUME BoundsAssumption == EventCap \in Nat \ {0} /\ MaxEvents \in Nat

Services == {"keyboard", "mouse"}
Powers   == {"Active", "Suspended"}
Devices  == [listens : SUBSET Services, power : Powers]    \* has_keyboard, has_mouse; power
Events   == [host : Hosts, what : {"Register", "Led"} \cup Powers]

ASSUME NoneAssumption == None \notin Devices \cup Powers

VARIABLES
    phase,      \* the tracker: "starting", "listening", "running", "stopped"
    known,      \* per service: the hosts in its server's table
    leaving,    \* per service: removed hosts its server has not heard of yet
    events,     \* per service: return events the tracker has not read
    removals,   \* removed hosts the tracker has not heard of yet
    objects,    \* per host: its Device1 object, or None
    sent,       \* number of return events sent
    told,       \* per host and service: the power it wrote last, or None
    astray      \* hosts the tracker may be wrong about (see Astray)

vars == <<phase, known, leaving, events, removals, objects, sent, told, astray>>

Init ==
    /\ phase = "starting"
    /\ known = [s \in Services |-> {}]
    /\ leaving = [s \in Services |-> {}]
    /\ events = [s \in Services |-> <<>>]
    /\ removals = <<>>
    /\ objects = [h \in Hosts |-> None]
    /\ sent = 0
    /\ told = [h \in Hosts |-> [s \in Services |-> None]]
    /\ astray = {}

Alive == phase # "stopped"

-----------------------------------------------------------------------------
(* The HID servers.                                                        *)

InEvents(h)   == \E s \in Services : \E i \in 1 .. Len(events[s]) : events[s][i].host = h
InRemovals(h) == \E i \in 1 .. Len(removals) : removals[i] = h

\* A return event; before anybody listens it is sent to nobody.  The tracker may go
\* astray with a host whose event it cannot hear, or that crosses its removal.
Send(s, h, what) ==
    /\ Alive
    /\ sent < MaxEvents
    /\ sent' = sent + 1
    /\ events' = IF phase = "starting" THEN events
                 ELSE [events EXCEPT ![s] = Append(@, [host |-> h, what |-> what])]
    /\ astray' = IF what # "Led" /\ (phase = "starting" \/ InRemovals(h) \/ h \in leaving[s])
                 THEN astray \cup {h} ELSE astray

\* A host subscribes or writes the protocol or the LEDs: acquire_device announces it
\* if it is new to the table.
Contact(s, h) ==
    /\ h \notin known[s]
    /\ known' = [known EXCEPT ![s] = @ \cup {h}]
    /\ Send(s, h, "Register")
    /\ UNCHANGED <<phase, leaving, removals, objects, told>>

\* A host writes the control point.
WriteControl(s, h, power) ==
    /\ Send(s, h, power)
    /\ told' = [told EXCEPT ![h][s] = power]
    /\ UNCHANGED <<phase, known, leaving, removals, objects>>

\* A host switches a LED of the keyboard, which the tracker does not care about.
WriteLed(h) ==
    /\ h \in known["keyboard"]
    /\ Send("keyboard", h, "Led")
    /\ UNCHANGED <<phase, known, leaving, removals, objects, told>>

\* A host is removed from the adapter.  It can be paired again at once.  (Bound: one
\* removal of a host is under way, and only of one that was in touch.)
Remove(h) ==
    /\ Alive
    /\ \E s \in Services : h \in known[s] \/ told[h][s] # None
    /\ ~InRemovals(h)
    /\ \A s \in Services : h \notin leaving[s]
    /\ leaving' = [s \in Services |-> leaving[s] \cup {h}]
    /\ removals' = IF phase = "running" THEN Append(removals, h) ELSE removals
    /\ told' = [told EXCEPT ![h] = [s \in Services |-> None]]
    /\ astray' = IF phase # "running" \/ InEvents(h) THEN astray \cup {h} ELSE astray
    /\ UNCHANGED <<phase, known, events, objects, sent>>

\* A server handles the removal: disconnect_device.
Forget(s, h) ==
    /\ Alive
    /\ h \in leaving[s]
    /\ leaving' = [leaving EXCEPT ![s] = @ \ {h}]
    /\ known' = [known EXCEPT ![s] = @ \ {h}]
    /\ UNCHANGED <<phase, events, removals, objects, sent, told, astray>>

-----------------------------------------------------------------------------
(* The tracker.                                                            *)

\* It listens to the servers first; the servers' events are kept from then on, and
\* the adapter's once events() has returned.
Start ==
    /\ \/ phase = "starting" /\ phase' = "listening"
       \/ phase = "listening" /\ phase' = "running"
    /\ UNCHANGED <<known, leaving, events, removals, objects, sent, told, astray>>

NewDevice == [listens |-> {}, power |-> "Active"]

\* DeviceMap::acquire.
Acquired(h) == IF objects[h] = None THEN NewDevice ELSE objects[h]

\* Mutant: the events the tracker does not care about are not told apart.
IgnoresNone(what) == FALSE

Ignores(what) == what = "Led"

\* Mutant: both servers set has_keyboard.
NotedAsKeyboard(d, s, what) ==
    IF what = "Register" THEN [d EXCEPT !.listens = @ \cup {"keyboard"}]
    ELSE [d EXCEPT !.power = what]

\* Mutant: waking up is not looked at.
NotedSuspendsOnly(d, s, what) ==
    IF what = "Register" THEN [d EXCEPT !.listens = @ \cup {s}]
    ELSE IF what = "Suspended" THEN [d EXCEPT !.power = what] ELSE d

\* set_keyboard, set_mouse, set_power.
Noted(d, s, what) ==
    IF what = "Register" THEN [d EXCEPT !.listens = @ \cup {s}]
    ELSE [d EXCEPT !.power = what]

\* The next return event of a server, if the listener is not too far behind it.
TakeEvent(s) ==
    /\ phase = "running"
    /\ events[s] # <<>>
    /\ Len(events[s]) <= EventCap
    /\ events' = [events EXCEPT ![s] = Tail(@)]
    /\ LET h    == Head(events[s]).host
           what == Head(events[s]).what
       IN  \/ Ignores(what) /\ UNCHANGED <<objects, astray>>
           \/ /\ ~Ignores(what)
              /\ objects' = [objects EXCEPT ![h] = Noted(Acquired(h), s, what)]
              /\ UNCHANGED astray
           \* The object server fails, before or after the object was made.
           \/ /\ ~Ignores(what)
              /\ objects' \in {objects, [objects EXCEPT ![h] = Acquired(h)]}
              /\ astray' = astray \cup {h}
    /\ UNCHANGED <<phase, known, leaving, removals, sent, told>>

\* RecvError::Lagged ends the tracker and with it the daemon.
Lag(s) ==
    /\ phase = "running"
    /\ Len(events[s]) > EventCap
    /\ phase' = "stopped"
    /\ UNCHANGED <<known, leaving, events, removals, objects, sent, told, astray>>

\* The adapter's or a server's stream ends, or another part of the daemon fails.
Stop ==
    /\ Alive
    /\ phase' = "stopped"
    /\ UNCHANGED <<known, leaving, events, removals, objects, sent, told, astray>>

\* Mutant: the object stays when its device is removed.
RemovedKept(h) == objects

Removed(h) == [objects EXCEPT ![h] = None]

\* DeviceMap::remove; a failure of the object server is only logged.
TakeRemoval ==
    /\ phase = "running"
    /\ removals # <<>>
    /\ removals' = Tail(removals)
    /\ \/ objects' = Removed(Head(removals)) /\ UNCHANGED astray
       \/ UNCHANGED objects /\ astray' = astray \cup {Head(removals)}
    /\ UNCHANGED <<phase, known, leaving, events, sent, told>>

Next ==
    \/ Start \/ Stop
    \/ \E h \in Hosts : \/ Remove(h) \/ WriteLed(h)
                        \/ \E s \in Services :
                              \/ Contact(s, h) \/ Forget(s, h)
                              \/ \E power \in Powers : WriteControl(s, h, power)
    \/ \E s \in Services : TakeEvent(s) \/ Lag(s)
    \/ TakeRemoval

Spec == Init /\ [][Next]_vars

\* select! takes what is ready in a random order, so none of the streams is passed
\* over for good.
FairSpec ==
    /\ Spec
    /\ WF_vars(Start) /\ WF_vars(TakeRemoval)
    /\ \A s \in Services : WF_vars(TakeEvent(s) \/ Lag(s))
                           /\ \A h \in Hosts : WF_vars(Forget(s, h))

-----------------------------------------------------------------------------
(* Properties.                                                             *)

TypeOK ==
    /\ phase \in {"starting", "listening", "running", "stopped"}
    /\ known \in [Services -> SUBSET Hosts]
    /\ leaving \in [Services -> SUBSET Hosts]
    /\ events \in [Services -> Seq(Events)]
    /\ removals \in Seq(Hosts)
    /\ objects \in [Hosts -> Devices \cup {None}]
    /\ sent \in 0 .. MaxEvents
    /\ told \in [Hosts -> [Services -> Powers \cup {None}]]
    /\ astray \subseteq Hosts

\* Nothing about h is under way, to the tracker or to a server.
Settled(h) ==
    ~InEvents(h) /\ ~InRemovals(h) /\ \A s \in Services : h \notin leaving[s]

Listed(s, h) == objects[h] # None /\ s \in objects[h].listens

\* Through any number of removals and returns of a host, its object says which
\* servers have it in their tables, once all streams have been read; unless events
\* and removals of the host crossed, came before the tracker listened or could not
\* be put on the bus (devices.rs:112-150, 197-239).
ListIsRight ==
    \A h \in Hosts \ astray : (phase = "running" /\ Settled(h)) =>
        \A s \in Services : Listed(s, h) <=> h \in known[s]

\* A host that told both servers the same, in whatever order they hear and report
\* it, is shown with that power (devices.rs:198-207, 228-233).
PowerIsRight ==
    \A h \in Hosts \ astray : \A p \in Powers :
        (phase = "running" /\ Settled(h) /\ \A s \in Services : told[h][s] = p)
            => objects[h] # None /\ objects[h].power = p

\* A host in a table gets listed, unless it is removed again (devices.rs:195-239).
GetsListed ==
    \A h \in Hosts, s \in Services :
        h \in known[s] ~> (Listed(s, h) \/ h \notin known[s] \/ h \in astray \/ ~Alive)

-----------------------------------------------------------------------------
(* The inductive invariant behind them (see DeviceTrackerProofs).          *)

\* What the unread events q of a server say of h.
HasRegister(q, h) == \E i \in 1 .. Len(q) : q[i] = [host |-> h, what |-> "Register"]
IsPower(e, h)     == e.host = h /\ e.what \in Powers
HasPower(q, h)    == \E i \in 1 .. Len(q) : IsPower(q[i], h)

\* The last power in q is p.
EndsWith(q, h, p) ==
    \E i \in 1 .. Len(q) : /\ q[i] = [host |-> h, what |-> p]
                           /\ \A j \in i + 1 .. Len(q) : ~IsPower(q[j], h)

\* Nothing that crosses the removal of h is on its way, and nobody but the servers that
\* have yet to hear of it knows h.
RemovalIsClean(h) ==
    InRemovals(h) => \A s \in Services :
        /\ ~HasRegister(events[s], h) /\ ~HasPower(events[s], h)
        /\ h \in known[s] => h \in leaving[s]
        /\ told[h][s] = None

\* Otherwise the list is right about s, once what s said is read.
ListFollows(h) ==
    ~InRemovals(h) => \A s \in Services :
        IF h \in leaving[s]
        THEN ~Listed(s, h) /\ ~HasRegister(events[s], h) /\ ~HasPower(events[s], h)
        ELSE h \in known[s] <=> Listed(s, h) \/ HasRegister(events[s], h)

\* What a server has yet to report ends with what the host told it last.
ReportsLast(h) ==
    \A s \in Services : HasPower(events[s], h) =>
        told[h][s] \in Powers /\ EndsWith(events[s], h, told[h][s])

\* One of the powers the host told is shown, or about to be.
PowerFollows(h) ==
    (\E s \in Services : told[h][s] # None) =>
        \E s \in Services :
            /\ told[h][s] # None
            /\ \/ HasPower(events[s], h)
               \/ objects[h] # None /\ objects[h].power = told[h][s]

IInv ==
    /\ TypeOK
    /\ \A h \in Hosts \ astray :
          RemovalIsClean(h) /\ ListFollows(h) /\ ReportsLast(h) /\ PowerFollows(h)
=============================================================================
