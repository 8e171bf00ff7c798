---------------------------- MODULE MouseForwarding ----------------------------
(***************************************************************************)
(* A mouse from its evdev device to a host: the loop of the mouse bridge   *)
(* (evdev_bridge.rs), which adds movement up and sends it by the clock,    *)
(* the channel, and the HID mouse server (bluetooth/mouse/mod.rs), whose   *)
(* host subscribes, unsubscribes, writes the protocol and is removed at    *)
(* any time.  Suspend and wake events are in DeviceTracker.                *)
(***************************************************************************)
EXTENDS Integers, Sequences, Totals

CONSTANTS
    Axes,       \* relative axes: REL_X, REL_Y, REL_WHEEL
    Wheel,      \* the one that boot reports have no room for
    Buttons,    \* buttons 1 to 3
    Steps,      \* amounts of one relative event
    Lo, Hi,     \* what fits into a report (i8::MIN, i8::MAX)
    QueueCap,   \* capacity of the channel (16)
    Protocols,  \* protocols the host may use: "boot", "report"
    MaxSteps,   \* bound: relative events
    None        \* no value (Option::None)

ASSUME RangeAssumption     == Lo \in Int /\ Hi \in Int /\ Lo < 0 /\ 0 < Hi /\ Steps \subseteq Int
ASSUME BoundsAssumption    == QueueCap \in Nat \ {0} /\ MaxSteps \in Nat
ASSUME ProtocolsAssumption == "report" \in Protocols /\ Protocols \subseteq {"boot", "report"}

Writers   == {"live", "dead", None}    \* an open notification socket, or one the host has closed
MoveBy    == [Axes -> Lo .. Hi]
ButtonEvents == [op : {"press", "release"}, button : Buttons]
MoveEvents   == [op : {"move"}, by : MoveBy]
MouseStates  == [buttons : SUBSET Buttons, protocol : Protocols, writer : [Protocols -> Writers]]

ASSUME NoneAssumption == None \notin MouseStates \cup MoveBy \cup {"live", "dead"}

VARIABLES
    loop,       \* the bridge's loop: "running" or "ended"
    held,       \* buttons that are down on the mouse
    pending,    \* per axis: movement not sent yet (x, y, scroll)
    due,        \* the clock's period is over since it fired last
    queue,      \* the channel of mouse events
    device,     \* the host's entry in the server's table, or None
    notify,     \* per characteristic: a writer the server has not taken yet
    removal,    \* the server has yet to hear that the host was removed
    sending,    \* movement in the report that is being sent, or None
    seen,       \* buttons in the last report on the protocol in use, or None
    turned,     \* per axis: how far the mouse was moved
    shown,      \* per axis: how far the host was told it was moved
    lossy,      \* axes of which movement was given up
    steps       \* number of relative events

bridgeVars == <<loop, held, pending, due, turned, steps>>
hostVars   == <<notify, removal>>
vars == <<bridgeVars, hostVars, queue, device, sending, seen, shown, lossy>>

Zero == [a \in Axes |-> 0]

DefaultState == [buttons |-> {}, protocol |-> "report", writer |-> [p \in Protocols |-> None]]

\* Buttons may be down when the bridge grabs the mouse.
Init ==
    /\ loop = "running"
    /\ held \in SUBSET Buttons
    /\ pending = Zero
    /\ due = FALSE
    /\ queue = <<>>
    /\ device = None
    /\ notify = [p \in Protocols |-> None]
    /\ removal = FALSE
    /\ sending = None
    /\ seen = None
    /\ turned = Zero
    /\ shown = Zero
    /\ lossy = {}
    /\ steps = 0

-----------------------------------------------------------------------------
(* The bridge.  The loop waits for room in the channel before it goes on.  *)

Running == loop = "running"

Enqueue(e) ==
    /\ Len(queue) < QueueCap
    /\ queue' = Append(queue, e)

ButtonDown(b) ==
    /\ Running
    /\ b \notin held
    /\ held' = held \cup {b}
    /\ Enqueue([op |-> "press", button |-> b])
    /\ UNCHANGED <<loop, pending, due, turned, steps, hostVars, device, sending, seen, shown, lossy>>

\* Mutant: try_release instead of release.
ReleasesIfRoom(b) ==
    queue' = IF Len(queue) < QueueCap THEN Append(queue, [op |-> "release", button |-> b]) ELSE queue

Releases(b) == Enqueue([op |-> "release", button |-> b])

ButtonUp(b) ==
    /\ Running
    /\ b \in held
    /\ held' = held \ {b}
    /\ Releases(b)
    /\ UNCHANGED <<loop, pending, due, turned, steps, hostVars, device, sending, seen, shown, lossy>>

\* Mutant: the clock starts again with every event, as it would without Clock.last.
DueAgain == FALSE

\* Clock.last outlives the future that an event drops.
DueStill == due

\* RelativeAxis.
Turn(a, n) ==
    /\ Running
    /\ steps < MaxSteps
    /\ steps' = steps + 1
    /\ turned' = [turned EXCEPT ![a] = @ + n]
    /\ pending' = [pending EXCEPT ![a] = @ + n]
    /\ due' = DueStill
    /\ UNCHANGED <<loop, held, hostVars, queue, device, sending, seen, shown, lossy>>

\* An event without a meaning for the mouse (Evdev(_), autorepeat).
OtherEvent ==
    /\ Running
    /\ due' = DueStill
    /\ UNCHANGED <<loop, held, pending, turned, steps, hostVars, queue, device, sending, seen, shown, lossy>>

TimePasses ==
    /\ Running
    /\ due' = TRUE
    /\ UNCHANGED <<loop, held, pending, turned, steps, hostVars, queue, device, sending, seen, shown, lossy>>

\* Mutant: clamped on one side.
ClampAbove(n) == IF n > Hi THEN Hi ELSE n

Clamp(n) == IF n < Lo THEN Lo ELSE IF n > Hi THEN Hi ELSE n

\* Mutant: what does not fit is dropped for every axis.
RemainderNone(a) == 0

\* What does not fit is kept, except for the wheel.
Remainder(a) == IF a = Wheel THEN 0 ELSE pending[a] - Clamp(pending[a])

\* MouseClock: a report every period, also of no movement.
MouseClock ==
    /\ Running
    /\ due
    /\ due' = FALSE
    /\ Enqueue([op |-> "move", by |-> [a \in Axes |-> Clamp(pending[a])]])
    /\ pending' = [a \in Axes |-> Remainder(a)]
    /\ lossy' = lossy \cup {a \in Axes : a = Wheel /\ Clamp(pending[a]) # pending[a]}
    /\ UNCHANGED <<loop, held, turned, steps, hostVars, device, sending, seen, shown>>

\* Cancelled, or the device or the server is gone.
End ==
    /\ Running
    /\ loop' = "ended"
    /\ UNCHANGED <<held, pending, due, turned, steps, hostVars, queue, device, sending, seen, shown, lossy>>

-----------------------------------------------------------------------------
(* The host.                                                               *)

Unlocked == sending = None

Acquired == IF device = None THEN DefaultState ELSE device

Closed(w) == IF w = "live" THEN "dead" ELSE w

\* Bound: one writer is under way to the server.
Subscribe(p) ==
    /\ \A q \in Protocols : notify[q] = None
    /\ notify' = [notify EXCEPT ![p] = "live"]
    /\ UNCHANGED <<bridgeVars, removal, queue, device, sending, seen, shown, lossy>>

Unsubscribe(p) ==
    /\ notify[p] = "live" \/ (device # None /\ device.writer[p] = "live")
    /\ notify' = [notify EXCEPT ![p] = Closed(@)]
    /\ device' = IF device = None THEN None ELSE [device EXCEPT !.writer[p] = Closed(@)]
    /\ UNCHANGED <<bridgeVars, removal, queue, sending, seen, shown, lossy>>

WriteProtocol(p) ==
    /\ Unlocked
    /\ device' = [Acquired EXCEPT !.protocol = p]
    /\ seen' = None
    /\ UNCHANGED <<bridgeVars, hostVars, queue, sending, shown, lossy>>

\* Bound: one removal is under way.
RemoveDevice ==
    /\ ~removal
    /\ removal' = TRUE
    /\ UNCHANGED <<bridgeVars, notify, queue, device, sending, seen, shown, lossy>>

-----------------------------------------------------------------------------
(* The server.                                                             *)

Writer(d) == d.writer[d.protocol]

\* Mutant: only presses are reported.
ReportsPresses(d, e) == e.op = "press" /\ e.button \notin d.buttons

\* A button that is down already, or up already, is not reported again.
Reports(d, e) == e.op = "press" <=> e.button \notin d.buttons

ButtonsAfter(d, e) ==
    IF e.op = "press" THEN d.buttons \cup {e.button} ELSE d.buttons \ {e.button}

\* Every report carries the buttons, and movement or none.
ServeButton ==
    /\ Unlocked
    /\ queue # <<>> /\ Head(queue) \in ButtonEvents
    /\ queue' = Tail(queue)
    /\ \/ device = None /\ UNCHANGED <<device, sending>>
       \/ /\ device # None
          /\ device' = [device EXCEPT !.buttons = ButtonsAfter(device, Head(queue))]
          /\ sending' = IF Reports(device, Head(queue)) THEN Zero ELSE None
    /\ UNCHANGED <<bridgeVars, hostVars, seen, shown, lossy>>

\* Axes with movement in it.
Moved(by) == {a \in Axes : by[a] # 0}

ServeMove ==
    /\ Unlocked
    /\ queue # <<>> /\ Head(queue).op = "move"
    /\ queue' = Tail(queue)
    /\ \/ device = None /\ lossy' = lossy \cup Moved(Head(queue).by) /\ UNCHANGED sending
       \/ device # None /\ sending' = Head(queue).by /\ UNCHANGED lossy
    /\ UNCHANGED <<bridgeVars, hostVars, device, seen, shown>>

Carried(d) == IF d.protocol = "boot" THEN Axes \ {Wheel} ELSE Axes

\* An open subscription takes the report when its socket has room; without one, or
\* with one the host has closed, the report is given up.
SendReport ==
    /\ sending # None
    /\ sending' = None
    /\ \/ /\ Writer(device) = "live"
          /\ seen' = device.buttons
          /\ shown' = [a \in Axes |-> IF a \in Carried(device) THEN shown[a] + sending[a] ELSE shown[a]]
          /\ lossy' = lossy \cup (Moved(sending) \ Carried(device))
       \/ /\ Writer(device) # "live"
          /\ lossy' = lossy \cup Moved(sending)
          /\ UNCHANGED <<seen, shown>>
    /\ UNCHANGED <<bridgeVars, hostVars, queue, device>>

TakeWriter(p) ==
    /\ Unlocked
    /\ notify[p] # None
    /\ notify' = [notify EXCEPT ![p] = None]
    /\ device' = [Acquired EXCEPT !.writer[p] = notify[p]]
    /\ seen' = IF device'.protocol = p THEN None ELSE seen
    /\ UNCHANGED <<bridgeVars, removal, queue, sending, shown, lossy>>

TakeRemoval ==
    /\ Unlocked
    /\ removal
    /\ removal' = FALSE
    /\ device' = None
    /\ seen' = None
    /\ UNCHANGED <<bridgeVars, notify, queue, sending, shown, lossy>>

Next ==
    \/ \E b \in Buttons : ButtonDown(b) \/ ButtonUp(b)
    \/ \E a \in Axes : \E n \in Steps : Turn(a, n)
    \/ OtherEvent \/ TimePasses \/ MouseClock \/ End
    \/ \E p \in Protocols : Subscribe(p) \/ Unsubscribe(p) \/ WriteProtocol(p) \/ TakeWriter(p)
    \/ RemoveDevice \/ TakeRemoval
    \/ ServeButton \/ ServeMove \/ SendReport

Spec == Init /\ [][Next]_vars

\* Time passes; the runtime polls the server; select! takes one of the events that
\* are ready at random, so the clock is not passed over for good, and the channel
\* serves those that wait for room in order; the hosts read what is sent.
FairSpec ==
    /\ Spec
    /\ WF_vars(TimePasses) /\ SF_vars(MouseClock)
    /\ WF_vars(ServeButton \/ ServeMove) /\ WF_vars(SendReport)

-----------------------------------------------------------------------------
(* Properties.                                                             *)

BridgeTypes ==
    /\ loop \in {"running", "ended"}
    /\ held \subseteq Buttons
    /\ pending \in [Axes -> Int] /\ turned \in [Axes -> Int]
    /\ due \in BOOLEAN
    /\ queue \in Seq(ButtonEvents \cup MoveEvents) /\ Len(queue) <= QueueCap
    /\ steps \in 0 .. MaxSteps

ServerTypes ==
    /\ device \in MouseStates \cup {None}
    /\ notify \in [Protocols -> Writers]
    /\ removal \in BOOLEAN
    /\ sending \in MoveBy \cup {None}
    /\ sending # None => device # None
    /\ seen \in (SUBSET Buttons) \cup {None}
    /\ shown \in [Axes -> Int]
    /\ lossy \subseteq Axes

TypeOK == BridgeTypes /\ ServerTypes

\* Movement along a of an event in the channel.
MoveOf(e, a) == IF e.op = "move" THEN e.by[a] ELSE 0

Moves(q, a) == [i \in 1 .. Len(q) |-> MoveOf(q[i], a)]

\* Movement on its way: in the report being sent and in the channel.
OnTheWay(a) == Total(Moves(queue, a)) + (IF sending = None THEN 0 ELSE sending[a])

\* No movement is lost or made up between the mouse and the host, however it is cut
\* into reports, unless the host was not there to be told or the wheel turned faster
\* than a report can say (evdev_bridge.rs:339-358, mouse/mod.rs:193-217, 380-384).
MovementIsKept ==
    \A a \in Axes \ lossy : turned[a] = pending[a] + OnTheWay(a) + shown[a]

\* A button that is down on the host is down on the mouse, or its release is on its
\* way, while the bridge runs (evdev_bridge.rs:334-338, mouse/mod.rs:360-379).
NoButtonStuck ==
    (Running /\ device # None) => \A b \in device.buttons :
        \/ b \in held
        \/ \E i \in 1 .. Len(queue) : queue[i] = [op |-> "release", button |-> b]

\* What a subscribed host was told last is what the server thinks it was told
\* (mouse/mod.rs:193-217, 360-384).
HostIsCurrent ==
    (Unlocked /\ device # None /\ seen # None /\ Writer(device) = "live") => seen = device.buttons

\* The host catches up with the mouse, whatever other events keep coming, also when
\* more was moved than one report can say (evdev_bridge.rs:237-256, 325-359).
HostCatchesUp ==
    \A a \in Axes : turned[a] # shown[a] ~> (turned[a] = shown[a] \/ a \in lossy \/ ~Running)

-----------------------------------------------------------------------------
(* The inductive invariant behind NoButtonStuck (see MouseForwardingProofs). *)

\* A press on its way, of a button that is up again, is followed by its release.
PressesFollowed ==
    Running => \A b \in Buttons \ held : \A i \in 1 .. Len(queue) :
        queue[i] = [op |-> "press", button |-> b] =>
            \E j \in i + 1 .. Len(queue) : queue[j] = [op |-> "release", button |-> b]

IInv == TypeOK /\ PressesFollowed /\ NoButtonStuck /\ HostIsCurrent
=============================================================================
