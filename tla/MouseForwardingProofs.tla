------------------------- MODULE MouseForwardingProofs -------------------------
(***************************************************************************)
(* Buttons and movement between a mouse and its host, for any axes,        *)
(* buttons, range of a report and capacity of the channel.                 *)
(***************************************************************************)
EXTENDS MouseForwarding, TotalsProofs, SequenceTheorems, TLAPS

USE RangeAssumption, BoundsAssumption, ProtocolsAssumption, NoneAssumption

Item       == ButtonEvents \cup MoveEvents
Press(b)   == [op |-> "press", button |-> b]
Release(b) == [op |-> "release", button |-> b]

LEMMA ItemTypes ==
    /\ \A b \in Buttons : Press(b) \in ButtonEvents /\ Release(b) \in ButtonEvents
    /\ \A e \in ButtonEvents : /\ e.button \in Buttons
                               /\ e = Press(e.button) \/ e = Release(e.button)
    /\ \A m \in MoveBy : [op |-> "move", by |-> m] \in MoveEvents
    /\ \A e \in MoveEvents : e.by \in MoveBy /\ e.op = "move"
BY DEF ButtonEvents, MoveEvents, Press, Release

LEMMA PressIsNoRelease ==
    ASSUME NEW b, NEW c
    PROVE  /\ Press(b) # Release(c) /\ Press(b) = Press(c) => b = c
           /\ Release(b) = Release(c) => b = c
           /\ Press(b).op = "press" /\ Release(b).op = "release"
           /\ Press(b).button = b /\ Release(b).button = b
BY DEF Press, Release

LEMMA MoveTypes ==
    /\ Zero \in MoveBy /\ None \notin MoveBy /\ None \notin MouseStates
    /\ \A n \in Int : Clamp(n) \in Lo .. Hi
    /\ Lo .. Hi \subseteq Int
BY DEF Zero, MoveBy, Clamp

LEMMA StateTypes ==
    /\ DefaultState \in MouseStates
    /\ \A d \in MouseStates : /\ d.buttons \subseteq Buttons /\ d.protocol \in Protocols
                              /\ d.writer \in [Protocols -> Writers]
    /\ \A d \in MouseStates, bs \in SUBSET Buttons : [d EXCEPT !.buttons = bs] \in MouseStates
    /\ \A d \in MouseStates, p \in Protocols : [d EXCEPT !.protocol = p] \in MouseStates
    /\ \A d \in MouseStates, p \in Protocols, w \in Writers :
          [d EXCEPT !.writer[p] = w] \in MouseStates
BY DEF DefaultState, MouseStates, Writers

LEMMA WriterUpdate ==
    ASSUME NEW d \in MouseStates, NEW p \in Protocols, NEW w \in Writers
    PROVE  /\ [d EXCEPT !.writer[p] = w].buttons = d.buttons
           /\ [d EXCEPT !.writer[p] = w].protocol = d.protocol
           /\ [d EXCEPT !.writer[p] = w].writer = [d.writer EXCEPT ![p] = w]
BY DEF MouseStates

\* The types of what the server and the host change, one by one.
LEMMA ServerParts ==
    ASSUME device' \in MouseStates \cup {None}, notify' \in [Protocols -> Writers],
           removal' \in BOOLEAN, sending' \in MoveBy \cup {None},
           sending' # None => device' # None, seen' \in (SUBSET Buttons) \cup {None},
           shown' \in [Axes -> Int], lossy' \subseteq Axes
    PROVE  ServerTypes'
BY DEF ServerTypes

LEMMA InitHolds == Init => IInv
<1> USE MoveTypes
<1> SUFFICES ASSUME Init PROVE IInv
  OBVIOUS
<1>1. TypeOK
  <2>1. /\ <<>> \in Seq(Item) /\ Len(<<>>) = 0
        /\ Zero \in [Axes -> Int]
        /\ [p \in Protocols |-> None] \in [Protocols -> Writers]
    BY DEF Zero, Writers
  <2>2. /\ loop = "running" /\ held \subseteq Buttons /\ pending = Zero /\ due = FALSE
        /\ queue = <<>> /\ turned = Zero /\ steps = 0
    BY DEF Init
  <2>3. /\ device = None /\ notify = [p \in Protocols |-> None] /\ removal = FALSE
        /\ sending = None /\ seen = None /\ shown = Zero /\ lossy = {}
    BY DEF Init
  <2>4. BridgeTypes
    <3>1. queue \in Seq(ButtonEvents \cup MoveEvents) /\ Len(queue) <= QueueCap
      BY <2>1, <2>2 DEF Item
    <3>2. steps \in 0 .. MaxSteps
      BY <2>2
    <3> QED BY <2>1, <2>2, <3>1, <3>2 DEF BridgeTypes
  <2>5. ServerTypes
    <3>1. device \in MouseStates \cup {None} /\ sending \in MoveBy \cup {None}
      BY <2>3
    <3>2. notify \in [Protocols -> Writers] /\ shown \in [Axes -> Int]
      BY <2>1, <2>3
    <3>3. removal \in BOOLEAN /\ seen \in (SUBSET Buttons) \cup {None} /\ lossy \subseteq Axes
      BY <2>3
    <3> QED BY <2>3, <3>1, <3>2, <3>3 DEF ServerTypes
  <2> QED BY <2>4, <2>5 DEF TypeOK
<1>2. PressesFollowed /\ NoButtonStuck /\ HostIsCurrent
  BY DEF Init, PressesFollowed, NoButtonStuck, HostIsCurrent
<1> QED BY <1>1, <1>2 DEF IInv

-----------------------------------------------------------------------------
(* The queue.                                                              *)

\* The release of b is on its way.
Released(q, b) == \E i \in 1 .. Len(q) : q[i] = Release(b)

\* Every press of b on its way is followed by a release.
Followed(q, b) ==
    \A i \in 1 .. Len(q) : q[i] = Press(b) => \E j \in i + 1 .. Len(q) : q[j] = Release(b)

LEMMA StuckDef ==
    /\ PressesFollowed <=> (Running => \A b \in Buttons \ held : Followed(queue, b))
    /\ NoButtonStuck <=> ((Running /\ device # None) =>
                              \A b \in device.buttons : b \in held \/ Released(queue, b))
BY DEF PressesFollowed, NoButtonStuck, Followed, Released, Press, Release

LEMMA AppendKeeps ==
    ASSUME NEW q \in Seq(Item), NEW e \in Item, NEW b \in Buttons
    PROVE  /\ Append(q, e) \in Seq(Item) /\ Len(Append(q, e)) = Len(q) + 1
           /\ Released(q, b) => Released(Append(q, e), b)
           /\ Followed(q, b) /\ e # Press(b) => Followed(Append(q, e), b)
<1>1. /\ Append(q, e) \in Seq(Item) /\ Len(Append(q, e)) = Len(q) + 1
      /\ \A i \in 1 .. Len(q) : Append(q, e)[i] = q[i]
      /\ Append(q, e)[Len(q) + 1] = e
  OBVIOUS
<1>2. Len(q) \in Nat
  OBVIOUS
<1>3. ASSUME Released(q, b) PROVE Released(Append(q, e), b)
  BY <1>1, <1>2, <1>3 DEF Released
<1>4. ASSUME Followed(q, b), e # Press(b) PROVE Followed(Append(q, e), b)
  <2> SUFFICES ASSUME NEW i \in 1 .. Len(q) + 1, Append(q, e)[i] = Press(b)
               PROVE  \E j \in i + 1 .. Len(q) + 1 : Append(q, e)[j] = Release(b)
    BY <1>1 DEF Followed
  <2>1. i \in 1 .. Len(q)
    BY <1>1, <1>2, <1>4
  <2>2. PICK j \in i + 1 .. Len(q) : q[j] = Release(b)
    BY <1>1, <1>4, <2>1 DEF Followed
  <2> QED BY <1>1, <1>2, <2>1, <2>2
<1> QED BY <1>1, <1>3, <1>4

LEMMA ReleaseFollows ==
    ASSUME NEW q \in Seq(Item), NEW b \in Buttons
    PROVE  Released(Append(q, Release(b)), b) /\ Followed(Append(q, Release(b)), b)
<1>1. Release(b) \in Item
  BY ItemTypes DEF Item
<1>2. /\ Len(Append(q, Release(b))) = Len(q) + 1 /\ Len(q) \in Nat
      /\ Append(q, Release(b))[Len(q) + 1] = Release(b)
  BY <1>1
<1> QED BY <1>2, PressIsNoRelease DEF Released, Followed

\* What serving the first event leaves behind.
LEMMA TailKeeps ==
    ASSUME NEW q \in Seq(Item), q # <<>>, NEW b \in Buttons
    PROVE  /\ Head(q) \in Item /\ Tail(q) \in Seq(Item) /\ Len(Tail(q)) = Len(q) - 1
           /\ Len(q) \in Nat \ {0}
           /\ Released(q, b) /\ Head(q) # Release(b) => Released(Tail(q), b)
           /\ Followed(q, b) => Followed(Tail(q), b)
           /\ Followed(q, b) /\ Head(q) = Press(b) => Released(Tail(q), b)
<1>1. /\ Head(q) = q[1] /\ Head(q) \in Item /\ Tail(q) \in Seq(Item) /\ Len(Tail(q)) = Len(q) - 1
      /\ \A i \in 1 .. Len(q) - 1 : Tail(q)[i] = q[i + 1]
      /\ Len(q) \in Nat \ {0}
  OBVIOUS
<1>2. ASSUME NEW j \in 2 .. Len(q) PROVE j - 1 \in 1 .. Len(q) - 1 /\ Tail(q)[j - 1] = q[j]
  <2>1. j - 1 \in 1 .. Len(q) - 1 /\ (j - 1) + 1 = j
    BY <1>1
  <2> QED BY <1>1, <2>1
<1>3. ASSUME Released(q, b), Head(q) # Release(b) PROVE Released(Tail(q), b)
  <2>1. PICK j \in 1 .. Len(q) : q[j] = Release(b)
    BY <1>3 DEF Released
  <2>2. j \in 2 .. Len(q)
    BY <1>1, <1>3, <2>1
  <2> QED BY <1>1, <1>2, <2>1, <2>2 DEF Released
<1>4. ASSUME Followed(q, b) PROVE Followed(Tail(q), b)
  <2> SUFFICES ASSUME NEW i \in 1 .. Len(q) - 1, Tail(q)[i] = Press(b)
               PROVE  \E j \in i + 1 .. Len(q) - 1 : Tail(q)[j] = Release(b)
    BY <1>1 DEF Followed
  <2>1. i + 1 \in 1 .. Len(q) /\ q[i + 1] = Press(b)
    BY <1>1
  <2>2. PICK j \in (i + 1) + 1 .. Len(q) : q[j] = Release(b)
    BY <1>4, <2>1 DEF Followed
  <2>3. j \in 2 .. Len(q) /\ j - 1 \in i + 1 .. Len(q) - 1
    BY <1>1, <2>1, <2>2
  <2> QED BY <1>2, <2>2, <2>3
<1>5. ASSUME Followed(q, b), Head(q) = Press(b) PROVE Released(Tail(q), b)
  <2>1. PICK j \in 1 + 1 .. Len(q) : q[j] = Release(b)
    BY <1>1, <1>5 DEF Followed
  <2>2. j \in 2 .. Len(q)
    BY <1>1, <2>1
  <2> QED BY <1>1, <1>2, <2>1, <2>2 DEF Released
<1> QED BY <1>1, <1>3, <1>4, <1>5

-----------------------------------------------------------------------------
(* The bridge's steps.                                                     *)

\* A step of the bridge that leaves the buttons and the queue alone.
LEMMA BridgeAside ==
    ASSUME IInv, BridgeTypes', lossy' \subseteq Axes,
           UNCHANGED <<queue, held, hostVars, device, sending, seen, shown>>, Running' => Running
    PROVE  IInv'
<1>1. ServerTypes'
  BY DEF IInv, TypeOK, ServerTypes, hostVars
<1>2. PressesFollowed' /\ NoButtonStuck' /\ HostIsCurrent'
  BY DEF IInv, PressesFollowed, NoButtonStuck, HostIsCurrent, Unlocked, Writer, Running
<1> QED BY <1>1, <1>2 DEF IInv, TypeOK

\* A step of the bridge that sends e.
LEMMA BridgeSends ==
    ASSUME IInv, BridgeTypes', lossy' \subseteq Axes, NEW e \in Item,
           queue' = Append(queue, e), Running,
           UNCHANGED <<hostVars, device, sending, seen, shown>>,
           \A b \in Buttons \ held' : (b \notin held /\ e # Press(b)) \/ e = Release(b)
    PROVE  IInv'
<1>1. ServerTypes' /\ HostIsCurrent'
  BY DEF IInv, TypeOK, ServerTypes, hostVars, HostIsCurrent, Unlocked, Writer
<1>2. /\ queue \in Seq(Item)
      /\ device # None => device.buttons \subseteq Buttons
  BY StateTypes DEF IInv, TypeOK, BridgeTypes, ServerTypes, Item
<1>3. \A b \in Buttons \ held : Followed(queue, b)
  BY StuckDef DEF IInv
<1>4. device # None => \A b \in device.buttons : b \in held \/ Released(queue, b)
  BY StuckDef DEF IInv
<1>5. ASSUME NEW b \in Buttons \ held' PROVE Followed(queue', b)
  <2>1. CASE b \notin held /\ e # Press(b)
    BY <1>2, <1>3, <1>5, <2>1, AppendKeeps
  <2>2. CASE e = Release(b)
    BY <1>2, <1>5, <2>2, ReleaseFollows
  <2> QED BY <1>5, <2>1, <2>2
<1>6. ASSUME device # None, NEW b \in device.buttons, b \notin held' PROVE Released(queue', b)
  <2>1. b \in Buttons
    BY <1>2, <1>6
  <2>2. CASE b \notin held
    BY <1>2, <1>4, <1>6, <2>1, <2>2, AppendKeeps
  <2>3. CASE e = Release(b)
    BY <1>2, <2>1, <2>3, ReleaseFollows
  <2> QED BY <1>6, <2>1, <2>2, <2>3
<1>7. PressesFollowed' <=> (Running' => \A b \in Buttons \ held' : Followed(queue', b))
  BY DEF PressesFollowed, Followed, Press, Release
<1>8. NoButtonStuck' <=> ((Running' /\ device' # None) =>
                              \A b \in device'.buttons : b \in held' \/ Released(queue', b))
  BY DEF NoButtonStuck, Released, Release
<1> QED BY <1>1, <1>5, <1>6, <1>7, <1>8 DEF IInv, TypeOK

LEMMA ButtonDownKeeps ==
    ASSUME IInv, NEW b \in Buttons, ButtonDown(b)
    PROVE  IInv'
<1>1. Press(b) \in Item
  BY ItemTypes DEF Item
<1>2. queue' = Append(queue, Press(b)) /\ Len(queue) < QueueCap /\ held' = held \cup {b}
  BY DEF ButtonDown, Enqueue, Press
<1>3. BridgeTypes'
  <2>1. queue \in Seq(Item)
    BY DEF IInv, TypeOK, BridgeTypes, Item
  <2>2. queue' \in Seq(Item) /\ Len(queue') = Len(queue) + 1 /\ Len(queue) \in Nat
    BY <1>1, <1>2, <2>1
  <2>3. Len(queue') <= QueueCap
    BY <1>2, <2>2
  <2> QED BY <1>2, <2>2, <2>3 DEF ButtonDown, IInv, TypeOK, BridgeTypes, Item
<1>4. \A c \in Buttons \ held' : c \notin held /\ Press(b) # Press(c)
  BY <1>2, PressIsNoRelease
<1> QED BY <1>1, <1>2, <1>3, <1>4, BridgeSends DEF ButtonDown, IInv, TypeOK, ServerTypes

LEMMA ButtonUpKeeps ==
    ASSUME IInv, NEW b \in Buttons, ButtonUp(b)
    PROVE  IInv'
<1>1. Release(b) \in Item
  BY ItemTypes DEF Item
<1>2. queue' = Append(queue, Release(b)) /\ Len(queue) < QueueCap /\ held' = held \ {b}
  BY DEF ButtonUp, Releases, Enqueue, Release
<1>3. BridgeTypes'
  <2>1. queue \in Seq(Item)
    BY DEF IInv, TypeOK, BridgeTypes, Item
  <2>2. queue' \in Seq(Item) /\ Len(queue') = Len(queue) + 1 /\ Len(queue) \in Nat
    BY <1>1, <1>2, <2>1
  <2>3. Len(queue') <= QueueCap
    BY <1>2, <2>2
  <2> QED BY <1>2, <2>2, <2>3 DEF ButtonUp, IInv, TypeOK, BridgeTypes, Item
<1>4. \A c \in Buttons \ held' : (c \notin held /\ Release(b) # Press(c)) \/ Release(b) = Release(c)
  BY <1>2, PressIsNoRelease
<1> QED BY <1>1, <1>2, <1>3, <1>4, BridgeSends DEF ButtonUp, IInv, TypeOK, ServerTypes

LEMMA TurnKeeps ==
    ASSUME IInv, NEW a \in Axes, NEW n \in Steps, Turn(a, n)
    PROVE  IInv'
<1>1. BridgeTypes'
  BY DEF Turn, DueStill, IInv, TypeOK, BridgeTypes
<1> QED BY <1>1, BridgeAside DEF Turn, IInv, TypeOK, ServerTypes, Running

LEMMA TimeKeeps ==
    ASSUME IInv, OtherEvent \/ TimePasses \/ End
    PROVE  IInv'
<1>1. BridgeTypes'
  BY DEF OtherEvent, TimePasses, End, DueStill, IInv, TypeOK, BridgeTypes
<1> QED
  BY <1>1, BridgeAside DEF OtherEvent, TimePasses, End, IInv, TypeOK, ServerTypes, Running

LEMMA MouseClockKeeps ==
    ASSUME IInv, MouseClock
    PROVE  IInv'
<1> DEFINE m == [a \in Axes |-> Clamp(pending[a])]
           e == [op |-> "move", by |-> m]
<1>1. pending \in [Axes -> Int]
  BY DEF IInv, TypeOK, BridgeTypes
<1>2. m \in MoveBy
  BY <1>1, MoveTypes DEF MoveBy
<1>3. e \in Item /\ \A b \in Buttons : e # Press(b)
  BY <1>2, ItemTypes DEF Item, Press
<1>4. queue' = Append(queue, e) /\ Len(queue) < QueueCap
  BY DEF MouseClock, Enqueue
<1> HIDE DEF e
<1>5. pending' \in [Axes -> Int]
  <2>1. \A a \in Axes : Remainder(a) \in Int
    BY <1>1, MoveTypes DEF Remainder
  <2> QED BY <2>1 DEF MouseClock
<1>6. BridgeTypes'
  <2>1. queue \in Seq(Item)
    BY DEF IInv, TypeOK, BridgeTypes, Item
  <2>2. queue' \in Seq(Item) /\ Len(queue') = Len(queue) + 1 /\ Len(queue) \in Nat
    BY <1>3, <1>4, <2>1
  <2>3. Len(queue') <= QueueCap
    BY <1>4, <2>2
  <2> QED BY <1>5, <2>2, <2>3 DEF MouseClock, IInv, TypeOK, BridgeTypes, Item
<1>7. lossy' \subseteq Axes
  BY DEF MouseClock, IInv, TypeOK, ServerTypes
<1> QED BY <1>3, <1>4, <1>6, <1>7, BridgeSends DEF MouseClock

-----------------------------------------------------------------------------
(* The steps of the host and of the server.                                *)

\* A step that sends nothing and takes nothing from the channel: the host's entry keeps its
\* buttons, is new or goes.
LEMMA ServerAside ==
    ASSUME IInv, UNCHANGED <<bridgeVars, queue>>, ServerTypes', HostIsCurrent',
           \/ device' = None
           \/ device = None /\ device'.buttons = {}
           \/ device # None /\ device'.buttons = device.buttons
    PROVE  IInv'
<1>1. BridgeTypes'
  BY DEF IInv, TypeOK, BridgeTypes, bridgeVars
<1>2. PressesFollowed'
  BY DEF IInv, PressesFollowed, Running, bridgeVars
<1>3. NoButtonStuck'
  BY DEF IInv, NoButtonStuck, Running, bridgeVars
<1> QED BY <1>1, <1>2, <1>3 DEF IInv, TypeOK

LEMMA SubscribeKeeps ==
    ASSUME IInv, NEW p \in Protocols, Subscribe(p)
    PROVE  IInv'
<1>1. ServerTypes'
  BY DEF Subscribe, IInv, TypeOK, ServerTypes, Writers
<1>2. HostIsCurrent'
  BY DEF Subscribe, IInv, HostIsCurrent, Unlocked, Writer
<1> QED BY <1>1, <1>2, ServerAside DEF Subscribe

LEMMA UnsubscribeKeeps ==
    ASSUME IInv, NEW p \in Protocols, Unsubscribe(p)
    PROVE  IInv'
<1> USE MoveTypes, StateTypes
<1>1. /\ device \in MouseStates \cup {None} /\ notify \in [Protocols -> Writers]
      /\ UNCHANGED <<bridgeVars, removal, queue, sending, seen, shown, lossy>>
  BY DEF Unsubscribe, IInv, TypeOK, ServerTypes
<1>2. notify' \in [Protocols -> Writers]
  BY <1>1 DEF Unsubscribe, Closed, Writers
<1>3. CASE device = None
  <2>1. device' = None
    BY <1>3 DEF Unsubscribe
  <2>2. ServerTypes'
    BY <1>1, <1>2, <1>3, <2>1 DEF IInv, TypeOK, ServerTypes
  <2> QED BY <1>1, <2>1, <2>2, ServerAside DEF HostIsCurrent
<1>4. CASE device # None
  <2> DEFINE w == Closed(device.writer[p])
  <2>1. device \in MouseStates /\ device.writer \in [Protocols -> Writers]
    BY <1>1, <1>4
  <2>2. w \in Writers
    BY <2>1 DEF Closed, Writers
  <2>3. device' = [device EXCEPT !.writer[p] = w]
    BY <1>4 DEF Unsubscribe
  <2>4. w # "live"
    BY DEF Closed
  <2> HIDE DEF w
  <2>5. /\ device' \in MouseStates /\ device' # None /\ device'.buttons = device.buttons
        /\ device'.protocol = device.protocol
        /\ device'.writer = [device.writer EXCEPT ![p] = w]
    BY <2>1, <2>2, <2>3, WriterUpdate
  <2>6. ServerTypes'
    BY <1>1, <1>2, <1>4, <2>5 DEF IInv, TypeOK, ServerTypes
  <2>7. Writer(device') = "live" => Writer(device) = "live"
    BY <2>1, <2>4, <2>5 DEF Writer
  <2>8. HostIsCurrent'
    BY <1>1, <1>4, <2>5, <2>7 DEF IInv, HostIsCurrent, Unlocked
  <2> QED BY <1>1, <1>4, <2>5, <2>6, <2>8, ServerAside
<1> QED BY <1>3, <1>4

LEMMA AcquiredTypes ==
    ASSUME ServerTypes
    PROVE  /\ Acquired \in MouseStates
           /\ Acquired.buttons = IF device = None THEN {} ELSE device.buttons
<1>1. DefaultState.buttons = {}
  BY DEF DefaultState
<1> QED BY <1>1, StateTypes DEF Acquired, ServerTypes

LEMMA WriteProtocolKeeps ==
    ASSUME IInv, NEW p \in Protocols, WriteProtocol(p)
    PROVE  IInv'
<1> USE MoveTypes, StateTypes
<1>1. /\ Acquired \in MouseStates
      /\ Acquired.buttons = IF device = None THEN {} ELSE device.buttons
  BY AcquiredTypes DEF IInv, TypeOK
<1>2. device' = [Acquired EXCEPT !.protocol = p] /\ seen' = None
      /\ UNCHANGED <<bridgeVars, hostVars, queue, sending, shown, lossy>>
  BY DEF WriteProtocol
<1> HIDE DEF Acquired
<1>3. device' \in MouseStates /\ device'.buttons = Acquired.buttons /\ device' # None
  BY <1>1, <1>2 DEF MouseStates
<1>4. ServerTypes'
  <2>1. seen' \in (SUBSET Buttons) \cup {None}
    BY <1>2
  <2>2. UNCHANGED <<notify, removal, sending, shown, lossy>>
    BY <1>2 DEF hostVars
  <2> QED BY <1>3, <2>1, <2>2, ServerParts DEF IInv, TypeOK, ServerTypes
<1>5. HostIsCurrent'
  BY <1>2 DEF HostIsCurrent
<1> QED BY <1>1, <1>2, <1>3, <1>4, <1>5, ServerAside

LEMMA TakeWriterKeeps ==
    ASSUME IInv, NEW p \in Protocols, TakeWriter(p)
    PROVE  IInv'
<1> USE MoveTypes, StateTypes
<1>1. /\ Acquired \in MouseStates
      /\ Acquired.buttons = IF device = None THEN {} ELSE device.buttons
      /\ notify \in [Protocols -> Writers]
  BY AcquiredTypes DEF IInv, TypeOK, ServerTypes
<1>2. /\ device' = [Acquired EXCEPT !.writer[p] = notify[p]]
      /\ notify' = [notify EXCEPT ![p] = None]
      /\ seen' = IF device'.protocol = p THEN None ELSE seen
      /\ UNCHANGED <<bridgeVars, removal, queue, sending, shown, lossy>>
  BY DEF TakeWriter
<1>3. /\ device' \in MouseStates /\ device'.buttons = Acquired.buttons /\ device' # None
      /\ device'.protocol = Acquired.protocol
      /\ device'.writer = [Acquired.writer EXCEPT ![p] = notify[p]]
  <2>1. notify[p] \in Writers
    BY <1>1
  <2> QED BY <1>1, <1>2, <2>1, WriterUpdate
<1>4. notify' \in [Protocols -> Writers]
  BY <1>1, <1>2 DEF Writers
<1>5. ServerTypes'
  <2>1. seen' \in (SUBSET Buttons) \cup {None}
    BY <1>2 DEF IInv, TypeOK, ServerTypes
  <2> QED BY <1>2, <1>3, <1>4, <2>1, ServerParts DEF IInv, TypeOK, ServerTypes
<1>6. HostIsCurrent'
  <2>1. ASSUME Unlocked', seen' # None, Writer(device') = "live"
        PROVE  seen' = device'.buttons
    <3>1. device'.protocol # p /\ seen' = seen
      BY <1>2, <2>1
    <3>2. Writer(device') = Acquired.writer[Acquired.protocol]
      BY <1>1, <1>3, <3>1 DEF Writer
    <3>3. device # None
      BY <2>1, <3>2 DEF Acquired, DefaultState
    <3>4. Acquired = device
      BY <3>3 DEF Acquired
    <3> QED BY <1>2, <1>3, <2>1, <3>1, <3>2, <3>3, <3>4 DEF IInv, HostIsCurrent, Unlocked, Writer
  <2> QED BY <2>1 DEF HostIsCurrent
<1> QED BY <1>1, <1>2, <1>3, <1>5, <1>6, ServerAside

LEMMA RemovalKeeps ==
    ASSUME IInv, RemoveDevice \/ TakeRemoval
    PROVE  IInv'
<1>1. CASE RemoveDevice
  <2>1. ServerTypes'
    BY <1>1 DEF RemoveDevice, IInv, TypeOK, ServerTypes
  <2>2. HostIsCurrent'
    BY <1>1 DEF RemoveDevice, IInv, HostIsCurrent, Unlocked, Writer
  <2> QED BY <1>1, <2>1, <2>2, ServerAside DEF RemoveDevice
<1>2. CASE TakeRemoval
  <2>1. ServerTypes'
    <3>1. /\ removal' = FALSE /\ device' = None /\ seen' = None /\ sending' = None
          /\ UNCHANGED <<notify, shown, lossy>>
      BY <1>2 DEF TakeRemoval, Unlocked
    <3>2. seen' \in (SUBSET Buttons) \cup {None}
      BY <3>1
    <3> QED BY <3>1, <3>2, ServerParts DEF IInv, TypeOK, ServerTypes
  <2> QED BY <1>2, <2>1, ServerAside DEF TakeRemoval, HostIsCurrent
<1> QED BY <1>1, <1>2

\* The server takes the next event, which is not about a button of the host's entry.
LEMMA TailAside ==
    ASSUME IInv, queue # <<>>, queue' = Tail(queue), UNCHANGED <<bridgeVars, device>>,
           ServerTypes', HostIsCurrent',
           device = None \/ \A b \in Buttons : Head(queue) # Release(b)
    PROVE  IInv'
<1>1. queue \in Seq(Item) /\ Len(queue) <= QueueCap
  BY DEF IInv, TypeOK, BridgeTypes, Item
<1>2. BridgeTypes'
  <2>1. queue' \in Seq(Item) /\ Len(queue') <= QueueCap
    <3>1. Tail(queue) \in Seq(Item) /\ Len(Tail(queue)) = Len(queue) - 1 /\ Len(queue) \in Nat
      BY <1>1
    <3> QED BY <1>1, <3>1
  <2> QED BY <2>1 DEF IInv, TypeOK, BridgeTypes, bridgeVars, Item
<1>3. PressesFollowed' <=> (Running' => \A b \in Buttons \ held' : Followed(queue', b))
  BY DEF PressesFollowed, Followed, Press, Release
<1>4. NoButtonStuck' <=> ((Running' /\ device' # None) =>
                              \A b \in device'.buttons : b \in held' \/ Released(queue', b))
  BY DEF NoButtonStuck, Released, Release
<1>5. Running' = Running /\ held' = held
  BY DEF Running, bridgeVars
<1>6. PressesFollowed'
  BY <1>1, <1>3, <1>5, StuckDef, TailKeeps DEF IInv
<1>7. ASSUME Running, device # None, NEW b \in device.buttons, b \notin held
      PROVE  Released(queue', b)
  <2>1. b \in Buttons
    BY <1>7, StateTypes DEF IInv, TypeOK, ServerTypes
  <2>2. Released(queue, b)
    BY <1>7, StuckDef DEF IInv
  <2> QED BY <1>1, <1>7, <2>1, <2>2, TailKeeps
<1> QED BY <1>2, <1>4, <1>5, <1>6, <1>7 DEF IInv, TypeOK

LEMMA ServeMoveKeeps ==
    ASSUME IInv, ServeMove
    PROVE  IInv'
<1> USE MoveTypes
<1>1. /\ queue # <<>> /\ queue' = Tail(queue) /\ Head(queue).op = "move"
      /\ UNCHANGED <<bridgeVars, device>>
  BY DEF ServeMove
<1>2. Head(queue) \in Item
  BY <1>1 DEF IInv, TypeOK, BridgeTypes, Item
<1>3. \A b \in Buttons : Head(queue) # Release(b)
  BY <1>1 DEF Release
<1>4. Head(queue).by \in MoveBy
  <2>1. Head(queue) \notin ButtonEvents
    BY <1>1 DEF ButtonEvents
  <2> QED BY <1>2, <2>1, ItemTypes DEF Item
<1>5. ServerTypes'
  BY <1>4 DEF ServeMove, hostVars, Moved, IInv, TypeOK, ServerTypes
<1>6. HostIsCurrent'
  <2>1. Unlocked' => Unlocked /\ UNCHANGED <<device, seen>>
    BY <1>4 DEF ServeMove, Unlocked
  <2> QED BY <2>1 DEF IInv, HostIsCurrent, Writer
<1> QED BY <1>1, <1>3, <1>5, <1>6, TailAside

LEMMA ServeButtonKeeps ==
    ASSUME IInv, ServeButton
    PROVE  IInv'
<1> USE MoveTypes
<1> DEFINE e == Head(queue)
<1>1. /\ queue # <<>> /\ queue' = Tail(queue) /\ e \in ButtonEvents /\ sending = None
      /\ UNCHANGED <<bridgeVars, hostVars, seen, shown, lossy>>
  BY DEF ServeButton, Unlocked
<1>2. e.button \in Buttons /\ (e = Press(e.button) \/ e = Release(e.button))
  BY <1>1, ItemTypes
<1>3. CASE device = None
  <2>1. UNCHANGED <<device, sending>>
    BY <1>3 DEF ServeButton
  <2>2. ServerTypes' /\ HostIsCurrent'
    BY <1>1, <1>3, <2>1 DEF IInv, TypeOK, ServerTypes, hostVars, HostIsCurrent
  <2> QED BY <1>1, <1>3, <2>1, <2>2, TailAside
<1>4. CASE device # None
  <2> DEFINE bs == ButtonsAfter(device, e)
  <2>1. device \in MouseStates /\ device.buttons \subseteq Buttons
    BY <1>4, StateTypes DEF IInv, TypeOK, ServerTypes
  <2>2. /\ e = Press(e.button) => bs = device.buttons \cup {e.button}
        /\ e = Release(e.button) => bs = device.buttons \ {e.button}
        /\ bs \subseteq Buttons
    BY <1>2, <2>1, PressIsNoRelease DEF ButtonsAfter
  <2>3. /\ device' = [device EXCEPT !.buttons = bs]
        /\ sending' = IF Reports(device, e) THEN Zero ELSE None
    BY <1>4 DEF ServeButton
  <2>4. ~Reports(device, e) => bs = device.buttons
    <3>1. CASE e = Press(e.button)
      <4>1. e.op = "press"
        BY <3>1, PressIsNoRelease
      <4> QED BY <2>1, <2>2, <3>1, <4>1 DEF Reports
    <3>2. CASE e = Release(e.button)
      <4>1. e.op = "release"
        BY <3>2, PressIsNoRelease
      <4> QED BY <2>2, <3>2, <4>1 DEF Reports
    <3> QED BY <1>2, <3>1, <3>2
  <2> HIDE DEF e, bs
  <2>5. /\ device' \in MouseStates /\ device' # None /\ device'.buttons = bs
        /\ device'.protocol = device.protocol /\ device'.writer = device.writer
    BY <2>1, <2>2, <2>3 DEF MouseStates
  <2>6. ServerTypes'
    BY <1>1, <2>3, <2>5 DEF IInv, TypeOK, ServerTypes, hostVars
  <2>7. HostIsCurrent'
    <3>1. Unlocked' => bs = device.buttons
      BY <2>3, <2>4 DEF Unlocked
    <3> QED BY <1>1, <1>4, <2>5, <3>1 DEF IInv, HostIsCurrent, Unlocked, Writer
  <2>8. queue \in Seq(Item) /\ Len(queue) <= QueueCap
    BY DEF IInv, TypeOK, BridgeTypes, Item
  <2>9. BridgeTypes'
    <3>1. queue' \in Seq(Item) /\ Len(queue') <= QueueCap
      <4>1. Tail(queue) \in Seq(Item) /\ Len(Tail(queue)) = Len(queue) - 1 /\ Len(queue) \in Nat
        BY <1>1, <2>8
      <4> QED BY <1>1, <2>8, <4>1
    <3> QED BY <1>1, <3>1 DEF IInv, TypeOK, BridgeTypes, bridgeVars, Item
  <2>10. PressesFollowed' <=> (Running' => \A b \in Buttons \ held' : Followed(queue', b))
    BY DEF PressesFollowed, Followed, Press, Release
  <2>11. NoButtonStuck' <=> ((Running' /\ device' # None) =>
                                 \A b \in device'.buttons : b \in held' \/ Released(queue', b))
    BY DEF NoButtonStuck, Released, Release
  <2>12. Running' = Running /\ held' = held
    BY <1>1 DEF Running, bridgeVars
  <2>13. PressesFollowed'
    BY <1>1, <2>8, <2>10, <2>12, StuckDef, TailKeeps DEF IInv
  <2>14. ASSUME Running, NEW b \in bs, b \notin held
         PROVE  Released(queue', b)
    <3>1. b \in Buttons
      BY <2>2, <2>14
    <3>2. CASE b \in device.buttons /\ e # Release(b)
      BY <1>1, <1>4, <2>8, <2>14, <3>1, <3>2, StuckDef, TailKeeps DEF IInv, e
    <3>3. CASE e = Press(b)
      BY <1>1, <2>8, <2>14, <3>1, <3>3, StuckDef, TailKeeps DEF IInv, e
    <3>4. (b \in device.buttons /\ e # Release(b)) \/ e = Press(b)
      BY <1>2, <2>2, <2>14, PressIsNoRelease
    <3> QED BY <3>2, <3>3, <3>4
  <2> QED BY <2>5, <2>6, <2>7, <2>9, <2>11, <2>12, <2>13, <2>14 DEF IInv, TypeOK
<1> QED BY <1>3, <1>4

LEMMA SendReportKeeps ==
    ASSUME IInv, SendReport
    PROVE  IInv'
<1> USE MoveTypes
<1>1. /\ sending \in MoveBy /\ device \in MouseStates /\ device # None
      /\ device.buttons \subseteq Buttons
  BY StateTypes DEF SendReport, IInv, TypeOK, ServerTypes
<1>2. shown' \in [Axes -> Int]
  <2>1. \A a \in Axes : shown[a] \in Int /\ sending[a] \in Int
    BY <1>1 DEF IInv, TypeOK, ServerTypes, MoveBy
  <2> QED BY <2>1 DEF SendReport, IInv, TypeOK, ServerTypes
<1>3. lossy' \subseteq Axes
  BY DEF SendReport, Moved, IInv, TypeOK, ServerTypes
<1>4. seen' \in (SUBSET Buttons) \cup {None}
  BY <1>1 DEF SendReport, IInv, TypeOK, ServerTypes
<1>5. ServerTypes'
  BY <1>1, <1>2, <1>3, <1>4 DEF SendReport, hostVars, IInv, TypeOK, ServerTypes
<1>6. HostIsCurrent'
  BY DEF SendReport, HostIsCurrent, Writer
<1> QED BY <1>1, <1>5, <1>6, ServerAside DEF SendReport

-----------------------------------------------------------------------------
(* Movement.                                                               *)

LEMMA MovesTypes ==
    ASSUME NEW q \in Seq(Item), NEW a \in Axes
    PROVE  Moves(q, a) \in Seq(Int) /\ \A e \in Item : MoveOf(e, a) \in Int
<1>1. \A e \in Item : MoveOf(e, a) \in Int
  <2> SUFFICES ASSUME NEW e \in Item, e.op = "move" PROVE e.by[a] \in Int
    BY DEF MoveOf
  <2>1. e \in MoveEvents
    BY DEF Item, ButtonEvents
  <2> QED BY <2>1, ItemTypes, MoveTypes DEF MoveBy
<1>2. \A i \in 1 .. Len(q) : q[i] \in Item
  OBVIOUS
<1>3. \A i \in 1 .. Len(q) : MoveOf(q[i], a) \in Int
  BY <1>1, <1>2
<1> QED BY <1>1, <1>3 DEF Moves

LEMMA MovesOfAppend ==
    ASSUME NEW q \in Seq(Item), NEW e \in Item, NEW a \in Axes
    PROVE  Total(Moves(Append(q, e), a)) = Total(Moves(q, a)) + MoveOf(e, a)
<1>1. /\ Append(q, e) \in Seq(Item) /\ Len(Append(q, e)) = Len(q) + 1 /\ Len(q) \in Nat
      /\ \A i \in 1 .. Len(q) : Append(q, e)[i] = q[i]
      /\ Append(q, e)[Len(q) + 1] = e
  OBVIOUS
<1>2. /\ Moves(q, a) \in Seq(Int) /\ MoveOf(e, a) \in Int /\ Len(Moves(q, a)) = Len(q)
      /\ Moves(Append(q, e), a) \in Seq(Int) /\ Len(Moves(Append(q, e), a)) = Len(q) + 1
  BY <1>1, MovesTypes DEF Moves
<1>3. ASSUME NEW i \in 1 .. Len(q) + 1
      PROVE  Moves(Append(q, e), a)[i] = Append(Moves(q, a), MoveOf(e, a))[i]
  <2>1. CASE i \in 1 .. Len(q)
    BY <1>1, <1>2, <2>1 DEF Moves
  <2>2. CASE i = Len(q) + 1
    <3>1. Moves(Append(q, e), a)[i] = MoveOf(e, a)
      BY <1>1, <2>2 DEF Moves
    <3> QED BY <1>2, <2>2, <3>1
  <2>3. i \in 1 .. Len(q) \/ i = Len(q) + 1
    BY <1>1
  <2> QED BY <2>1, <2>2, <2>3
<1>4. Moves(Append(q, e), a) = Append(Moves(q, a), MoveOf(e, a))
  <2> DEFINE m == Moves(Append(q, e), a)
             n == Append(Moves(q, a), MoveOf(e, a))
  <2>1. n \in Seq(Int) /\ Len(n) = Len(q) + 1
    BY <1>2
  <2> HIDE DEF m, n
  <2>2. m \in Seq(Int) /\ Len(m) = Len(n) /\ \A i \in 1 .. Len(m) : m[i] = n[i]
    BY <1>2, <1>3, <2>1 DEF m, n
  <2>3. m = n
    BY <2>1, <2>2, SeqEqual
  <2> QED BY <2>3 DEF m, n
<1> QED BY <1>2, <1>4, TotalOfAppend

LEMMA MovesOfTail ==
    ASSUME NEW q \in Seq(Item), q # <<>>, NEW a \in Axes
    PROVE  Total(Moves(q, a)) = MoveOf(Head(q), a) + Total(Moves(Tail(q), a))
<1>1. /\ Head(q) = q[1] /\ Tail(q) \in Seq(Item) /\ Len(Tail(q)) = Len(q) - 1 /\ Len(q) \in Nat \ {0}
      /\ \A i \in 1 .. Len(q) - 1 : Tail(q)[i] = q[i + 1]
  OBVIOUS
<1>2. /\ Moves(q, a) \in Seq(Int) /\ Len(Moves(q, a)) = Len(q) /\ Moves(q, a) # <<>>
      /\ Moves(Tail(q), a) \in Seq(Int) /\ Len(Moves(Tail(q), a)) = Len(q) - 1
      /\ Head(Moves(q, a)) = MoveOf(Head(q), a)
  <2>1. Moves(q, a) \in Seq(Int) /\ Moves(Tail(q), a) \in Seq(Int)
    BY <1>1, MovesTypes
  <2>2. Len(Moves(q, a)) = Len(q) /\ Len(Moves(Tail(q), a)) = Len(q) - 1
    BY <1>1 DEF Moves
  <2>3. Moves(q, a)[1] = MoveOf(q[1], a)
    BY <1>1 DEF Moves
  <2> DEFINE m == Moves(q, a)
  <2> HIDE DEF m
  <2>4. m \in Seq(Int) /\ Len(m) = Len(q)
    BY <2>1, <2>2 DEF m
  <2>5. m # <<>> /\ Head(m) = m[1]
    BY <1>1, <2>4
  <2> QED BY <1>1, <2>1, <2>2, <2>3, <2>5 DEF m
<1>3. ASSUME NEW i \in 1 .. Len(q) - 1
      PROVE  Moves(Tail(q), a)[i] = Tail(Moves(q, a))[i]
  <2>1. Moves(Tail(q), a)[i] = MoveOf(q[i + 1], a) /\ Moves(q, a)[i + 1] = MoveOf(q[i + 1], a)
    BY <1>1 DEF Moves
  <2>2. Tail(Moves(q, a))[i] = Moves(q, a)[i + 1]
    BY <1>1, <1>2
  <2> QED BY <2>1, <2>2
<1>4. Moves(Tail(q), a) = Tail(Moves(q, a))
  <2> DEFINE m == Moves(Tail(q), a)
             n == Tail(Moves(q, a))
  <2>1. n \in Seq(Int) /\ Len(n) = Len(q) - 1
    BY <1>2
  <2> HIDE DEF m, n
  <2>2. m \in Seq(Int) /\ Len(m) = Len(n) /\ \A i \in 1 .. Len(m) : m[i] = n[i]
    BY <1>2, <1>3, <2>1 DEF m, n
  <2>3. m = n
    BY <2>1, <2>2, SeqEqual
  <2> QED BY <2>3 DEF m, n
<1> QED BY <1>2, <1>4, TotalOfTail

\* What the movement along an axis adds up to.
LEMMA MovementTypes ==
    ASSUME TypeOK, NEW a \in Axes
    PROVE  /\ turned[a] \in Int /\ pending[a] \in Int /\ shown[a] \in Int
           /\ queue \in Seq(Item) /\ Total(Moves(queue, a)) \in Int
           /\ sending # None => sending \in MoveBy /\ sending[a] \in Int
           /\ lossy \subseteq Axes
<1>1. turned[a] \in Int /\ pending[a] \in Int /\ shown[a] \in Int /\ lossy \subseteq Axes
  BY DEF TypeOK, BridgeTypes, ServerTypes
<1>2. queue \in Seq(Item)
  BY DEF TypeOK, BridgeTypes, Item
<1>3. sending # None => sending \in MoveBy /\ sending[a] \in Int
  BY MoveTypes DEF TypeOK, ServerTypes, MoveBy
<1> QED BY <1>1, <1>2, <1>3, MovesTypes, TotalIsInteger

\* The inductive step of MovementIsKept for one axis.
KeptAlong(a) == a \notin lossy => turned[a] = pending[a] + OnTheWay(a) + shown[a]

LEMMA MovementAside ==
    ASSUME NEW a \in Axes, KeptAlong(a), lossy \subseteq lossy',
           UNCHANGED <<turned, pending, queue, sending, shown>>
    PROVE  KeptAlong(a)'
BY DEF KeptAlong, OnTheWay

LEMMA ButtonMovement ==
    ASSUME TypeOK, NEW a \in Axes, KeptAlong(a), NEW b \in Buttons, ButtonDown(b) \/ ButtonUp(b)
    PROVE  KeptAlong(a)'
<1>1. PICK e \in ButtonEvents : queue' = Append(queue, e)
  BY ItemTypes DEF ButtonDown, ButtonUp, Releases, Enqueue, Press, Release
<1>2. e \in Item /\ MoveOf(e, a) = 0
  BY DEF Item, ButtonEvents, MoveOf
<1>3. UNCHANGED <<turned, pending, sending, shown, lossy>>
  BY DEF ButtonDown, ButtonUp
<1>4. Total(Moves(queue', a)) = Total(Moves(queue, a))
  BY <1>1, <1>2, MovementTypes, MovesOfAppend
<1> QED BY <1>3, <1>4 DEF KeptAlong, OnTheWay

LEMMA TurnMovement ==
    ASSUME TypeOK, NEW a \in Axes, KeptAlong(a), NEW c \in Axes, NEW n \in Steps, Turn(c, n)
    PROVE  KeptAlong(a)'
<1>1. /\ turned' = [turned EXCEPT ![c] = @ + n] /\ pending' = [pending EXCEPT ![c] = @ + n]
      /\ UNCHANGED <<queue, sending, shown, lossy>> /\ n \in Int
  BY DEF Turn
<1>2. /\ turned'[a] = IF a = c THEN turned[a] + n ELSE turned[a]
      /\ pending'[a] = IF a = c THEN pending[a] + n ELSE pending[a]
  BY <1>1 DEF TypeOK, BridgeTypes
<1>3. OnTheWay(a)' = OnTheWay(a) /\ OnTheWay(a) \in Int
  BY <1>1, MovementTypes DEF OnTheWay
<1> QED BY <1>1, <1>2, <1>3, MovementTypes DEF KeptAlong

LEMMA ClockMovement ==
    ASSUME TypeOK, NEW a \in Axes, KeptAlong(a), MouseClock
    PROVE  KeptAlong(a)'
<1> DEFINE m == [c \in Axes |-> Clamp(pending[c])]
           e == [op |-> "move", by |-> m]
<1>1. /\ queue' = Append(queue, e) /\ pending' = [c \in Axes |-> Remainder(c)]
      /\ lossy' = lossy \cup {c \in Axes : c = Wheel /\ Clamp(pending[c]) # pending[c]}
      /\ UNCHANGED <<turned, sending, shown>>
  BY DEF MouseClock, Enqueue
<1>2. m \in MoveBy /\ Clamp(pending[a]) \in Int
  BY MoveTypes DEF TypeOK, BridgeTypes, MoveBy
<1>3. e \in Item /\ MoveOf(e, a) = Clamp(pending[a])
  BY <1>2, ItemTypes DEF Item, MoveOf
<1> HIDE DEF m, e
<1>4. Total(Moves(queue', a)) = Total(Moves(queue, a)) + Clamp(pending[a])
  BY <1>1, <1>3, MovementTypes, MovesOfAppend
<1>5. a \notin lossy' => pending'[a] + Clamp(pending[a]) = pending[a]
  BY <1>1, <1>2, MovementTypes DEF Remainder
<1>6. pending'[a] \in Int
  BY <1>1, <1>2, MovementTypes DEF Remainder
<1> QED BY <1>1, <1>2, <1>4, <1>5, <1>6, MovementTypes DEF KeptAlong, OnTheWay

\* The server takes an event from the channel, and movement is in the report it makes of it.
LEMMA ServedMovement ==
    ASSUME TypeOK, NEW a \in Axes, KeptAlong(a), ServeButton \/ ServeMove
    PROVE  KeptAlong(a)'
<1> DEFINE e == Head(queue)
<1>1. /\ queue # <<>> /\ queue' = Tail(queue) /\ sending = None
      /\ UNCHANGED <<turned, pending, shown>>
  BY DEF ServeButton, ServeMove, Unlocked, bridgeVars
<1>2. e \in Item /\ MoveOf(e, a) \in Int
  BY <1>1, MovementTypes, MovesTypes
<1>3. Total(Moves(queue, a)) = MoveOf(e, a) + Total(Moves(queue', a))
  BY <1>1, MovementTypes, MovesOfTail
<1>4. Total(Moves(queue', a)) \in Int
  <2>1. queue' \in Seq(Item)
    BY <1>1, MovementTypes
  <2> QED BY <2>1, MovesTypes, TotalIsInteger
<1>5. CASE ServeButton
  <2>1. MoveOf(e, a) = 0 /\ lossy' = lossy
    BY <1>5 DEF ServeButton, ButtonEvents, MoveOf
  <2>2. sending' # None => sending'[a] = 0
    BY <1>1, <1>5 DEF ServeButton, Zero
  <2> QED BY <1>1, <1>3, <1>4, <2>1, <2>2, MovementTypes DEF KeptAlong, OnTheWay
<1>6. CASE ServeMove
  <2>1. MoveOf(e, a) = e.by[a]
    BY <1>6 DEF ServeMove, MoveOf
  <2>2. e.by \in MoveBy
    BY <1>2, <1>6, ItemTypes DEF ServeMove, Item, ButtonEvents
  <2>3. CASE device = None
    <3>1. sending' = None /\ lossy' = lossy \cup Moved(e.by)
      BY <1>1, <1>6, <2>3 DEF ServeMove
    <3>2. a \notin lossy' => MoveOf(e, a) = 0 /\ a \notin lossy
      BY <2>1, <3>1 DEF Moved
    <3> QED BY <1>1, <1>3, <1>4, <3>1, <3>2, MovementTypes DEF KeptAlong, OnTheWay
  <2>4. CASE device # None
    <3>1. sending' = e.by /\ lossy' = lossy /\ e.by # None
      BY <1>6, <2>2, <2>4, MoveTypes DEF ServeMove
    <3>2. OnTheWay(a)' = OnTheWay(a)
      BY <1>1, <1>2, <1>3, <1>4, <2>1, <3>1 DEF OnTheWay
    <3> QED BY <1>1, <3>1, <3>2 DEF KeptAlong
  <2> QED BY <2>3, <2>4
<1> QED BY <1>5, <1>6

LEMMA SentMovement ==
    ASSUME TypeOK, NEW a \in Axes, KeptAlong(a), SendReport
    PROVE  KeptAlong(a)'
<1>1. /\ sending # None /\ sending' = None
      /\ UNCHANGED <<turned, pending, queue>>
  BY DEF SendReport, bridgeVars
<1>2. a \notin lossy' => a \notin lossy /\ shown'[a] = shown[a] + sending[a]
  <2>1. CASE Writer(device) = "live"
    BY <1>1, <2>1, MovementTypes DEF SendReport, Moved
  <2>2. CASE Writer(device) # "live"
    BY <1>1, <2>2, MovementTypes DEF SendReport, Moved
  <2> QED BY <2>1, <2>2
<1> QED BY <1>1, <1>2, MovementTypes DEF KeptAlong, OnTheWay

LEMMA NextKeepsMovement ==
    ASSUME TypeOK, MovementIsKept, [Next]_vars
    PROVE  MovementIsKept'
<1>1. MovementIsKept <=> \A a \in Axes : KeptAlong(a)
  BY DEF MovementIsKept, KeptAlong
<1>2. MovementIsKept' <=> \A a \in Axes : KeptAlong(a)'
  BY DEF MovementIsKept, KeptAlong, OnTheWay
<1> SUFFICES ASSUME NEW a \in Axes PROVE KeptAlong(a)'
  BY <1>2
<1>3. KeptAlong(a)
  BY <1>1
<1>4. CASE UNCHANGED vars
  BY <1>3, <1>4, MovementAside DEF vars, bridgeVars
<1>5. ASSUME NEW b \in Buttons, ButtonDown(b) \/ ButtonUp(b) PROVE KeptAlong(a)'
  BY <1>3, <1>5, ButtonMovement
<1>6. ASSUME NEW c \in Axes, NEW n \in Steps, Turn(c, n) PROVE KeptAlong(a)'
  BY <1>3, <1>6, TurnMovement
<1>7. CASE OtherEvent \/ TimePasses \/ End
  BY <1>3, <1>7, MovementAside DEF OtherEvent, TimePasses, End
<1>8. CASE MouseClock
  BY <1>3, <1>8, ClockMovement
<1>9. ASSUME NEW p \in Protocols,
             Subscribe(p) \/ Unsubscribe(p) \/ WriteProtocol(p) \/ TakeWriter(p)
      PROVE  KeptAlong(a)'
  BY <1>3, <1>9, MovementAside DEF Subscribe, Unsubscribe, WriteProtocol, TakeWriter, bridgeVars
<1>10. CASE RemoveDevice \/ TakeRemoval
  BY <1>3, <1>10, MovementAside DEF RemoveDevice, TakeRemoval, bridgeVars
<1>11. CASE ServeButton \/ ServeMove
  BY <1>3, <1>11, ServedMovement
<1>12. CASE SendReport
  BY <1>3, <1>12, SentMovement
<1> QED BY <1>4, <1>5, <1>6, <1>7, <1>8, <1>9, <1>10, <1>11, <1>12 DEF Next

LEMMA InitMovement == Init => MovementIsKept
<1> SUFFICES ASSUME Init, NEW a \in Axes PROVE turned[a] = pending[a] + OnTheWay(a) + shown[a]
  BY DEF MovementIsKept
<1>1. Moves(<<>>, a) = <<>>
  BY DEF Moves
<1>2. OnTheWay(a) = 0
  BY <1>1, TotalOfEmpty DEF Init, OnTheWay
<1> QED BY <1>2 DEF Init, Zero

-----------------------------------------------------------------------------

LEMMA NextKeeps == IInv /\ [Next]_vars => IInv'
<1> SUFFICES ASSUME IInv, [Next]_vars PROVE IInv'
  OBVIOUS
<1>1. CASE UNCHANGED vars
  <2>1. UNCHANGED <<loop, held, pending, due, turned, steps, notify, removal, queue, device,
                    sending, seen, shown, lossy>>
    BY <1>1 DEF vars, bridgeVars, hostVars
  <2>2. BridgeTypes' /\ ServerTypes'
    BY <2>1 DEF IInv, TypeOK, BridgeTypes, ServerTypes
  <2>3. HostIsCurrent'
    BY <2>1 DEF IInv, HostIsCurrent, Unlocked, Writer
  <2>4. UNCHANGED <<bridgeVars, queue>>
    BY <2>1 DEF bridgeVars
  <2> QED BY <2>1, <2>2, <2>3, <2>4, ServerAside
<1>2. ASSUME NEW b \in Buttons, ButtonDown(b) \/ ButtonUp(b) PROVE IInv'
  BY <1>2, ButtonDownKeeps, ButtonUpKeeps
<1>3. ASSUME NEW a \in Axes, NEW n \in Steps, Turn(a, n) PROVE IInv'
  BY <1>3, TurnKeeps
<1>4. CASE OtherEvent \/ TimePasses \/ MouseClock \/ End
  BY <1>4, TimeKeeps, MouseClockKeeps
<1>5. ASSUME NEW p \in Protocols,
             Subscribe(p) \/ Unsubscribe(p) \/ WriteProtocol(p) \/ TakeWriter(p)
      PROVE  IInv'
  BY <1>5, SubscribeKeeps, UnsubscribeKeeps, WriteProtocolKeeps, TakeWriterKeeps
<1>6. CASE RemoveDevice \/ TakeRemoval
  BY <1>6, RemovalKeeps
<1>7. CASE ServeButton \/ ServeMove \/ SendReport
  BY <1>7, ServeButtonKeeps, ServeMoveKeeps, SendReportKeeps
<1> QED BY <1>1, <1>2, <1>3, <1>4, <1>5, <1>6, <1>7 DEF Next

\* A press of a button that is up again is followed by its release, and the server's entry
\* has no other buttons than the mouse but for releases on their way.
THEOREM Invariance == Spec => []IInv
<1>1. Init => IInv BY InitHolds
<1>2. IInv /\ [Next]_vars => IInv' BY NextKeeps
<1> QED BY <1>1, <1>2, PTL DEF Spec

\* The variables keep their types: the channel stays within its capacity and every
\* movement in it within the range of a report (mouse/mod.rs:193-217).
THEOREM TypeCorrect == Spec => []TypeOK
<1>1. IInv => TypeOK BY DEF IInv
<1> QED BY <1>1, Invariance, PTL

\* A button that is down on the host is down on the mouse, or its release is on its way,
\* for any number of buttons and any capacity of the channel (evdev_bridge.rs:334-338).
THEOREM NoButtonGetsStuck == Spec => []NoButtonStuck
<1>1. IInv => NoButtonStuck BY DEF IInv
<1> QED BY <1>1, Invariance, PTL

\* What a subscribed host was told last is what the server thinks it was told
\* (mouse/mod.rs:360-384).
THEOREM HostStaysCurrent == Spec => []HostIsCurrent
<1>1. IInv => HostIsCurrent BY DEF IInv
<1> QED BY <1>1, Invariance, PTL

\* No movement is lost or made up between the mouse and the host, unless the host was not
\* there to be told or the wheel turned faster than a report can say, for any range of a
\* report, capacity of the channel and number of events (evdev_bridge.rs:339-358,
\* mouse/mod.rs:193-217).
THEOREM MovementStaysKept == Spec => []MovementIsKept
<1>1. Init => MovementIsKept BY InitMovement
<1>2. TypeOK /\ MovementIsKept /\ [Next]_vars => MovementIsKept' BY NextKeepsMovement
<1> QED BY <1>1, <1>2, TypeCorrect, PTL DEF Spec
===============================================================================
