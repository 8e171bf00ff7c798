# A TLA+ verification of bluekey

bluekey makes a Linux machine a Bluetooth LE keyboard and mouse.  A daemon,
`bluekeyd`, offers two HID-over-GATT services to hosts (tablets, phones, other
machines) and a D-Bus interface to clients; the client `bluekey` asks it to
grab evdev devices and forward what happens on them to a host.

This directory models the daemon and its client in TLA+, checks the models with TLC on small
instances and proves the most important results with TLAPS for every value of the
constants.  Line numbers refer to the source tree at the commit the project was
written for; `PROJECT.json` maps every definition to the lines it stands for.

## 1. The system and its parts

The daemon is one process on a single-threaded tokio runtime: tasks interleave only
where they await.  Four tasks matter, besides one for every bridge and one for every
method call and GATT callback:

```
 D-Bus clients --- methods ---> Bluekey object --- spawns ---> bridge tasks
      ^                             |  table of bridges           |   |  evdev
      |  BridgeBroken               v  (Mutex<HashMap>)           |   v
      +---------------------- three cleaners <--- deaths ---------+  channels (16)
                                    ^ (channel, 16)                   |
       NameOwnerChanged, DeviceRemoved                                v
 D-Bus clients <-- Device1 -- device tracker <- return events <- HID servers <-> hosts
                                                (broadcast, 16)
```

| Part | Source | State | Operations |
|---|---|---|---|
| Bridge table, D-Bus bridge interface | `bluekeyd/src/main.rs` | table of handles, id source, channel of dead bridges, subscriptions | `bridge_keyboard`, `bridge_mouse`, `destroy_bridge`, the cleaners for departed clients, dead bridges and removed hosts |
| Keyboard bridge, escape shortcut | `blueshare/src/evdev_bridge.rs` | shortcut followed, progress in it | key events, escape, LED events, cancel, break |
| Mouse bridge | same | movement not sent yet, two clocks | button and axis events, clock, cancel |
| Configuration property | `main.rs` | shared shortcut | get, set |
| HID keyboard server | `blueshare/src/bluetooth/keyboard`, `bluetooth/mod.rs` | per host: six key slots, modifiers, LEDs, protocol, subscriptions | key events, subscriptions, protocol and LED writes, control point, removal |
| HID mouse server | `blueshare/src/bluetooth/mouse` | per host: buttons, protocol, subscriptions | button and movement events, the rest as above |
| Device tracker | `bluekeyd/src/devices.rs` | map of hosts to D-Bus objects with power and services | return events of both servers, removal |
| LEDs | `bluetooth/leds.rs`, `keyboard/mod.rs`, `evdev_bridge.rs` | LED bits per host, LEDs of the keyboard | load, change, broadcast |
| Client: `bridge` | `bluekey/src/commands/bridge.rs`, `wait_enter.rs` | the bridges it asked for | create, wait for enter or a break, destroy |
| Client: `list`, `escape-shortcut` | `bluekey/src/commands` | none | one request each |
| GATT tables, formatting, key names, build script, service files | `bluetooth/hid`, `bluekey/src/format.rs`, ... | none | data |

Where it gets hard:

* **One lock, one channel, four kinds of actors** (bridge table).  A bridge can die
  before its handle is stored, while it is cancelled, or because its host goes away;
  the lock's holder awaits other tasks.  Correct: a handle is stored once, withdrawn
  once, announced at most once and after the device was given back; no dead bridge is
  forgotten; no bridge survives its client; calls are answered.
* **A shortcut that is replaced while it is being typed** (keyboard bridge).  Correct:
  escapes happen with all keys down, and only then; nothing stays down on the host.
* **Several bridges, one table of slots, hosts that come and go** (HID servers).
  Correct: no key or button stuck, hosts told what the server believes they were told.
* **Movement cut into reports by a clock that every event interrupts** (mouse bridge).
  Correct: nothing lost, nothing made up, and sent in the end.
* **Three streams read in any order** (device tracker).  Correct: the list agrees with
  the servers once they are read.
* **Events that race with the load of the state they change** (LEDs).  Correct: the keyboard
  shows what the host wrote last, once the bridge has read what there is.
* **A client that waits for two things at once, and whose calls and signals race**
  (`bridge`).  Correct: no break is missed, and it leaves no bridge behind.

The hazards are listed one by one, with their lines and the properties against them,
under `hazards` in `PROJECT.json`.

## 2. The modules

| Module | What it is |
|---|---|
| `BridgeLifecycle` | abstract: what a client may rely on about a handle |
| `BridgeRegistry` | the daemon's bridge table; implements `BridgeLifecycle` |
| `BridgeRegistryProofs` | its theorems |
| `EscapeShortcut`, `EscapeShortcutProofs` | the loop of a keyboard bridge with its shortcut |
| `HidKeyboard`, `HidKeyboardProofs` | the HID keyboard server with bridges and hosts |
| `MouseForwarding`, `MouseForwardingProofs` | a mouse bridge, its channel and the HID mouse server |
| `LedSync`, `LedSyncProofs` | the LEDs of hosts, the HID keyboard server and a keyboard that is bridged again and again |
| `DeviceTracker`, `DeviceTrackerProofs` | the list of hosts on D-Bus |
| `BridgeClient`, `BridgeClientProofs` | the client's `bridge` command with the daemon behind it; its handles are those of `BridgeLifecycle` |
| `Totals`, `TotalsProofs` | the sum of a sequence of integers, for the movement on its way to a host |
| `MC...` | the finite instances, where a `.cfg` cannot say it |

The bridges are cut at their two interfaces: `BridgeRegistry` has their life (start,
cancel, death, notice) and none of their events, `EscapeShortcut` and
`MouseForwarding` have the events of one and only note how it ends, `HidKeyboard`
has any number of them as sources of key events, and `LedSync` has what comes back to one
of them.  `BridgeLifecycle` is the joint between daemon and client: `BridgeRegistry`
implements it, and `BridgeClient`, which extends it, relies on nothing else of the daemon but
that it withdraws one bridge at a time under its lock.  What a module leaves to its
environment is nondeterministic there: a bridge of `BridgeRegistry` may die at any
time, a loop of `EscapeShortcut` may fail at any time.

### BridgeRegistry

| Variable | In the code |
|---|---|
| `phase` | how far `Bluekey::run` is (254-268): bus name taken, listening to NameOwnerChanged, listening to the adapter, returned |
| `client`, `named` | who is on the bus; ghosts of the message bus |
| `call`, `serving`, `pending` | outstanding calls, the one that holds the interface's write lock (methods take `&mut self`), its started and not yet stored bridge |
| `nextId`, `task`, `bridge` | `IdSource`, the spawned tasks, what they were started with |
| `reg`, `cancelled`, `awaiting` | the HashMap; entries taken out; the task whose `cancel()` is being awaited |
| `lockQ` | tokio's Mutex around the map: holder first, then waiters in FIFO order |
| `departures`, `deaths`, `removals`, `job` | the streams of the cleaners and the item each works on |
| `signals` | BridgeBroken signals sent, per handle |

Each action is the code between two awaits that can suspend: `StartBridge` runs from
the call to the wait for the lock, `Insert` stores and answers, `Withdraw` takes an entry
out and cancels it, `Joined` goes on when the task is over, sends the signal and goes to
the next match, `Release` ends a cleaner's round.  `Take` is the next item of a stream.
A bridge runs, is cancelled (`BridgeCancelled`), dies (`BridgeDies`: keyboards go on to
`notifying`, mice do not), panics, and gets its notice into the channel (`Notified`).
`GiveUp`, `EmitFails` and `JoinPanics` are the error paths: a daemon that stops, a method
that panics and never answers, a cleaner that ends the daemon.

A client that leaves idle is `left`; one that leaves with a call under way, or before the
daemon listens, is `lost`: for those the code guarantees nothing, because a call can be
served after the departure was dealt with.

### EscapeShortcut

One loop (`evdev_keyboard_bridge`, 179-219): `KeyDown`, `KeyUp`, `Repeat`, `Cancelled`,
`Fail`, and `Update`, the setter of the Configuration property.  `active` and `progress`
are the fields of `Shortcut`, `shared` is the `ArcSwap`.  `held` (keys down on the
keyboard) and `remote` (usages this bridge has down on its host) are ghosts.  Kept from
the code: `active[..=progress]` takes in the key that is expected next; an escape
truncates usages to a byte where forwarding panics; an empty shortcut is indexed.

### HidKeyboard

`devices` is the `DeviceMap` with each `KeyboardState`; `queue` the channel; `notify` and
`removals` what the server's `select!` can still take; `sending` the report being sent,
during which the table's write lock is held and every callback waits (`Unlocked`).
`ServeKey` is lookup, change and the start of the report, `SendReport` its end: a closed
socket makes the `unwrap` at line 179 panic.  The server takes an event before it awaits
the lock; since nothing but the lock decides the order of what follows, the model takes
the event when the lock is granted.  `pressed`, `orphans`, `seen` are ghosts.
A bridge may press a usage that it has down already: nothing in the code keeps two evdev
keys from having the same usage.

### MouseForwarding

`pending` are `x`, `y`, `scroll`; `due` says that the clock's period is over.  Every event
drops the clock's future and makes a new one, `Clock.last` keeps the time: `DueStill`.
`MouseClock` clamps, sends (waiting for room in the channel) and keeps the remainder,
except for the wheel.  The server is as in `HidKeyboard`, with one host, buttons in
place of slots, and send errors that are only logged.  `turned`, `shown`, `lossy`, `seen`
are ghosts: how far the mouse moved, what the host was told, axes of which movement was
given up (no host, no subscription, no wheel in the boot protocol, a clamped wheel).

### DeviceTracker

`known` are the tables of the two HID servers, `events` their broadcast channels as the
tracker sees them, `leaving` and `removals` the removals that servers and tracker have
not read, `objects` the Device1 objects.  The tracker's `select!` reads the three streams
in any order; `Lag` is `RecvError::Lagged`, which ends it.  `told` and `astray` are
ghosts.  A host is `astray` when one of its events and its removal cross, an event is
sent before anybody listens, or the object server fails: then the list can be wrong for
good, which is what the code does and section 6 describes.

### LedSync

`known` and `leds` are the server's table with `KeyboardState.leds`; `phase`, `target` and
`events` the bridge between `keyboard.listen()`, the load of the LEDs and its end, with what
its broadcast receiver has not given it yet; `shown` the LEDs of the keyboard.
`WriteReport` is the whole callback of the output report: the value is stored under the lock
and one event is sent for each LED that changes, in the order of their ids, with nothing in
between because the daemon has a single thread (`main.rs:386`).  `WriteBoot` stores and sends
nothing but the announcement of a new host.  `Start` (166), `Load` (167-177) and `TakeEvent`
(209-216) are the bridge; an event that was sent between `Start` and `Load` is both in
the load and in the channel.  `Lag` is `RecvError::Lagged`.  `silent` is a ghost: LEDs of the
target that changed without an event to say so (boot report, removal of the host), or that
were lit when the table did not have the target to load from.  It is cleared as soon as
an event about the LED is sent.

### BridgeClient

`pc` is where `Bridge::execute` is: `prepare` (93-99), `subscribe` (102), `mouse` (106-109),
`shortcut` and `keyboard` (111-117), `waiting` (119-142), then `Bridges::wrap`'s two calls of
`destroy_bridge` (78-83).  `slot` is `devices`, `heard` the stream of BridgeBroken, `asked` and
`reply` the call that is awaited.  Every `?` and every way out of the `select!` is `CleanUp`.
`ReadInput` is `async_wait_enter`: a line or the end of the input ends the wait, and
anything else leaves it `spinning` (section 6), in which state no other branch of the
`select!` runs.  `Kill` is a signal that ends the process, `LoseLink` the bus.

The daemon's side serves one call at a time (`MethodRuns`): `ServeBridge` draws the handle and
starts the bridge, `StoreBridge` waits for the lock, `ServeDestroy` and `Clean` withdraw,
`Broken` sends the signal and then the answer.  `ServeOther` and `StoreOther` are the same for
another client, whose `destroy_bridge` is one of the reasons of `Clean`.  Why a cleaner
withdraws is left open (`Clean`), as in `BridgeLifecycle`; when it *must* is in the fairness.
`BridgeEnds` is a loop that returns or, for a keyboard, a task that panics (`panicked`): the
latter reports nothing, because `notify` comes after the loop (`evdev_bridge.rs:125-131`), and
whoever withdraws it fails in `cancel()` (`BreakFails`).  `Reported` are the others.  The
daemon is past its startup.  `whose`, `late` and `panicked` have no variable in the code: the
first two are ghosts, the last is the `JoinError` the task has left.

## 3. The runs

| Run | Instance | Shows |
|---|---|---|
| `registry_two_clients` | two clients, one keyboard, one host, two handles, room for one death | `NoLostDeath`, `DepartureLeavesNothing`, `StuckTakesACrowd`, `WithdrawnForCause`, `AnswerAfterBreak`, and that the daemon implements `BridgeLifecycle` |
| `registry_one_client` | one client with a well-known name, a keyboard and a mouse, two handles, everything from before the daemon listens, fairness | `DepartureLeavesNothing`, `CallsAnswered`, `CancelReturns`, `DeathsCleared`, `DeparturesCleaned` |
| `registry_deadlock` | one client, a keyboard, three handles, fairness | **violated**: `CancelReturns` |
| `escape_shortcut` | four keys, six shortcuts swapped at any time | `ProgressHeld`, `EscapeNeedsAllKeys`, `FreshWhenIdle`, `EscapeLetsGo`, `RemoteIsHeld` |
| `escape_missed` | the default shortcut | **violated**: `HeldShortcutEscapes` |
| `keyboard_shared` | two bridges, three keys, two slots, one host | `NoKeyStuck`, `SlotsAreASet` |
| `keyboard_hosts` | one bridge, a key and a modifier, both protocols, fairness | `HostIsCurrent`, `QueueGetsRoom` |
| `keyboard_disconnect` | two hosts | **violated**: `ServiceOutlivesHosts` |
| `mouse_forwarding` | one button, one axis and the wheel, a report of -2..1, both protocols, fairness | `MovementIsKept`, `NoButtonStuck`, `HostIsCurrent`, `HostCatchesUp` |
| `tracker_list` | one host, two unread events at most, four events, fairness | `ListIsRight`, `PowerIsRight`, `GetsListed` |
| `led_sync` | two hosts, two LEDs, room for two unread events, fairness | `LedsAgree`, `LedsConverge` |
| `client_bridges` | a mouse and a keyboard, one bridge of another client, lines and text, fairness | `CleanExit`, `BreakIsUnread`, `BreakIsHeard`, `EscapeFreesAll` |

For each module one of the passing runs also checks `TypeOK`.  With the two
handles of `registry_two_clients`, `StuckTakesACrowd` says that the daemon never gets stuck;
`registry_deadlock`, with three, shows that it does when the crowd is there.  Every property has a mutant, a
definition with a plausible bug in it (in the module, before the definition it replaces,
commented "Mutant"), that makes TLC report the property violated under the same `.cfg`.

### Bounds

* *Handles* (`MaxId`): two are enough for one to be cancelled while another dies; the
  deadlock needs one more than the channel holds plus one, whatever the capacity
  (`OnlyACrowdGetsStuck`).
* *Channels* (16 in the code): one or two places, so that they are full in most runs.
  Nothing depends on a larger capacity except how soon a channel is full.
* *Clients*: two race for one device; the devices, hosts and clients are otherwise
  independent of each other.
* *Slots* (6): two, with three keys, so that a key finds no slot.
* *Reports* (-128..127): -2..1 with steps of -3 and 2, so that one step takes two reports
  in both directions and the range is as lopsided as a byte's.
* *Steps, events* (`MaxSteps`, `MaxEvents`): one relative event and four return events keep
  the runs in minutes; a host subscribes to both servers, sleeps and wakes up within four.
* *LEDs* (5): two, so that a write can change one, both or none, in both directions; the
  broadcast channel overflows at its third event, within two writes.
* *Handles of the client*: its two and one of somebody else's, whose break it must ignore.
* *Input*: one unread input at a time, which may come at any point of the wait; a line or
  text, since the end of the input does what a line does.
* *Writers and removals under way*: one for each host and characteristic.
* `OneOther` is a state constraint: at most one bridge is another client's, since the
  client treats every one of them alike.
* `StartupFirst`, `ReportProtocolOnly`, `WhileRunning` are state constraints; each is
  lifted by another run or concerns what follows the end of the loop.  `registry_one_client`
  lifts the first and `keyboard_hosts` the second.  `WhileRunning` stops the exploration
  when the mouse's loop has ended; `HostCatchesUp` is satisfied there by `~Running`.
* *Symmetry*: clients and hosts in `registry_two_clients`, keys and bridges in
  `keyboard_shared`; both check safety only and name no element.

Deadlock is checked except where the system really may stop: a loop that has ended, a
panicked server, hosts that stay silent, a daemon that has exited.  `BridgeRegistry` has a
stuttering step `Idle` for a daemon that waits for events, which leaves a lock that is
held for good visible as a deadlock; only `registry_deadlock` turns the check off, to
show it as the liveness failure it is.

### Fairness

Weak fairness of a task's next step says that the runtime polls what it has woken.
Strong fairness is used where the code has a fair queue or a fair choice: tokio's
`Mutex`, `mpsc::Sender` and `RwLock` serve waiters in order (`Serve`, `Notified`,
`MouseClock` waiting for room), and `select!` picks among ready branches at random, so no
branch that is ready again and again is passed over for good.  In `BridgeClient` the strong
fairness of `Clean` stands for the cleaners, which `registry_one_client` shows to get there:
a keyboard bridge whose loop has returned is withdrawn (`DeathsCleared`, which is about tasks
that are `done`), and so are the bridges of a client that left with no call under way
(`DeparturesCleaned`).  Nothing is assumed about a bridge whose task panicked, nor about
what a client with a call under way leaves, because the cleaners are not told of the one and
may have dealt with the other too early.  It holds as long as the channel of deaths
has room, see `registry_deadlock`.  `SendReport` is
fair because hosts are assumed to read what is sent to them: the code has no timeout for
one that does not, and such a host blocks its server (listed under `hazards`).  No
fairness is assumed of users, clients, hosts' writes or failures.

## 4. What is proved

All theorems hold for every value of the constants allowed by the named assumptions
(`BoundsAssumption`, `NoneAssumption`, ...), which TLC evaluates in each run.

**BridgeRegistry** (`BridgeRegistryProofs`).  The inductive invariant is `IInv`, a
conjunction proved one theorem at a time, each from the ones before:

1. `TypeCorrect`.
2. `LockCorrect` (`LockInv`): nobody is twice in the lock's queue; the handler is in it
   exactly while it serves a call, a cleaner exactly while it has a job.
3. `CallCorrect` (`CallInv`): a started bridge that is not stored yet belongs to the call
   being served; a client that left idle has no call.
4. `HandleCorrect` (`HandleInv`): a handle is in one place; announced once and after its
   task is over.
5. `EventsCorrect` (`EventInv`): cleaners work on events that happened.
6. `DeathCorrect` (`DeathInv`): a dead keyboard bridge in the table or about to be stored is
   in the channel or in the death cleaner's hands; if it is not stored yet, its handler is
   *ahead of the cleaner in the lock's queue*.  `NoLostDeath` alone is not inductive: the
   cleaner drops a handle it does not find, so the proof needs the order of the queue.
7. `BreakCorrect` (`BreakInv`): a bridge that was started is in the table, about to be stored
   or withdrawn; one that was withdrawn was announced or is being awaited by the lock's
   holder, unless the handler panicked and left its own client's call open.  So whoever gets
   the lock and does not find a handle knows that its signal was sent.
8. `NoDeathIsLost`, `DepartureIsClean`, `WithdrawalsHaveCauses`: the safety properties.
9. `AnswersFollowBreaks`: whoever destroys a bridge of its own is answered after its
   BridgeBroken, "No such handle" included (from 7).
10. `OnlyACrowdGetsStuck`: the deadlock of `registry_deadlock` takes two more unread deaths than
    the channel holds.  `ReportCorrect` (`ReportInv`) says that a death is in the channel once or
    read once, so the awaited bridge, the one in the cleaner's hands and those in the channel are
    all different, and the rest is counting.  `FewNeverGetStuck` follows: with no more than
    `NotifyCap + 1` handles there is no such deadlock.
11. `Refinement`: `Spec => ImplementsLifecycle`, every step maps to one of the abstract
    specification's or to a stutter.

**EscapeShortcut** (`EscapeShortcutProofs`).  `TypeCorrect` (indices in bounds for every
shortcut list), `ProgressIsHeld`, `EscapesWithAllKeys` (from it: the keys counted so far
are down and the last one goes down now), `EscapeReleasesItsKeys`, `IdleIsFresh`,
`NothingStuck`.

**HidKeyboard** (`HidKeyboardProofs`).  `TypeCorrect`; `SlotsDistinct` (no key in two
slots), without which a release would leave a second copy behind; `SlotsBehaveAsASet`,
by counting: the slots are full exactly when as many keys are down as there are slots;
`NothingStuck`, whose invariant adds that every *queued press* is followed by a release
in the channel or still held (`QueuedIsSafe`); `HostsAreCurrent`, whose invariant adds
that during a report everything but the receiving host is up to date.

**MouseForwarding** (`MouseForwardingProofs`).  `TypeCorrect`; `NoButtonGetsStuck`, whose
invariant (`PressesFollowed`) adds that a queued press of a button that is up again is
followed by its release; `HostStaysCurrent`, which holds during a report for everything but
its receiver; `MovementStaysKept`: on every axis of which nothing was given up, the movement
of the mouse is what the host was shown plus what is in the bridge, in the channel and in the report
being sent.  It is inductive with `TypeOK` and needs the value of a sum when an event enters and
leaves the channel, which `TotalsProofs` proves for all sequences of integers (`TotalOfAppend`,
`TotalOfTail`).  Sums are functions that satisfy a recursive equation: that there is one and only
one is an induction (`SetInduction`), made without an operator as a parameter, from the
least element of a set of numbers, which the library's well-founded order on them provides.

**LedSync** (`LedSyncProofs`).  `TypeCorrect`; `LedsAreInAgreement`.  `LedsAgree` says nothing
while an event about the LED is unread, so the invariant adds `LastIsRight`: the *last*
unread event about a LED says what the host wrote last.  That is what makes it harmless
that the load already covers events that are still in the channel.

**DeviceTracker** (`DeviceTrackerProofs`).  `TypeCorrect`, `ListStaysRight`, `PowerStaysRight`.
For a host that is not astray the invariant relates each server's table to its unread
events: while the tracker has a removal to read, none of the host's events is on its way
(`RemovalIsClean`); otherwise a server has the host exactly if it is listed or its Register
is unread (`ListFollows`); the last unread power of a server is the one it was told last
(`ReportsLast`), and one server's power is shown or about to be (`PowerFollows`).

**BridgeClient** (`BridgeClientProofs`).  `TypeCorrect`, `ExitIsClean`.  The invariant `Accounted`
says where a bridge made for the client can be while it is not announced: in the call
about to store it, in the answer, or in a slot that is still to be freed (`WithinReach`);
`CallInv` and `SlotInv` keep call, answer and slots in step with the client, `PlaceInv` with
the daemon's lock, and `FreedInv` says that the answer to `destroy_bridge`, an error
included, comes after the announcement.  `OursOnly`, inductive besides, keeps the bridges
of other clients out of its slots, calls and answers.  `NoBreakIsMissed`: a bridge that the
waiting client holds and that was announced has its signal still to be read, whether it broke
while its handle was on its way, before the wait or during it.  Its invariant `ListenInv` follows the
handle: the client listens before it asks for its first bridge, and the signals about a handle are
kept from the moment it is handed out.  `BreakIsHeard`, which TLC checks, then only needs the
stream to be read.  That the daemon behaves as `FreedInv` takes for granted, in this module by
the shape of `Broken`, is `AnswersFollowBreaks` of `BridgeRegistry`.

### Only model-checked

* Liveness (`CallsAnswered`, `CancelReturns`, `DeathsCleared`, `DeparturesCleaned`,
  `QueueGetsRoom`, `HostCatchesUp`, `GetsListed`, `LedsConverge`, `BreakIsHeard`,
  `EscapeFreesAll`): outside of what the prover does.
* The violated properties, which no theorem could state.

## 5. What the violated runs show

* `registry_deadlock`: `cancel()` awaits a bridge's task under the table's lock.  A dying
  keyboard bridge waits for room in the channel of dead bridges; only the death cleaner
  makes room, and it waits for the lock.  Two more simultaneous deaths than the channel
  holds stop the daemon, with every later call unanswered.  Fewer do not:
  `OnlyACrowdGetsStuck`.
* `escape_missed`: letting go of a key that is the *next* one of the shortcut forgets those
  held.  With meta held, pressing, releasing and pressing an esc that had been down before
  does not escape; meta has to be let go of first.
* `keyboard_disconnect`: `send_report` unwraps the write to a host's socket.  A host
  that has closed its subscription and is typed on ends the keyboard service for every
  host; nobody awaits the task.  The mouse server logs the same error.

## 6. Other things the models show about the code

* The disconnection cleaner looks at the old owner of a name and not at the name: a client
  that gives up a well-known name has its bridges withdrawn as if its process were dead
  (`main.rs:162-181`).
* A mouse bridge that dies by itself is reported to nobody (`MouseBridge` has no `notify`);
  its entry stays until the client or the host goes.
* Nor is a keyboard bridge whose task panics, on an empty shortcut (`evdev_bridge.rs:82`) or a
  usage above 255 (200): `notify` is called after the loop has returned (126-129).  Its
  client goes on waiting with its mouse grabbed as well.  Enter does not help: the keyboard's
  bridge is destroyed first, `cancel()` panics, and that call is never answered, so that the
  mouse is given back when the client is killed.  `EscapeFreesAll` is about the bridges that are `Reported`; with `ended` in
  their place TLC shows the client waiting for good.  A cleaner that withdraws the panicked
  bridge ends the daemon.
* `DeviceRemoved` is not a disconnection: hosts that disconnect stay in the tables and in
  the list.  And it is handled late: a host that is paired again before its removal has been
  read by a server or the tracker is removed from them although it is back.
* Movement is clamped to -128..127; the report descriptor declares -127..127.
* Buttons are sent at once and movement every 30 ms: a click overtakes the movement
  before it.
* Hosts are announced once, when they enter a server's table, and the servers start before the
  tracker listens (`main.rs:411-412`, `devices.rs:180`): a host that subscribes in between
  is not listed although it can be typed on.  `DeviceTracker` counts it as `astray`.
* `async_wait_enter` clears the readiness after EAGAIN and goes on in its inner loop: after input
  without a newline (text and Ctrl-D, or a pipe) the client reads without pause and its
  `select!` never polls the stream of signals again.  It still ends on the next newline.
  A break is not noticed until then, the processor is busy, and the mouse stays grabbed
  after an escape; `BreakIsHeard` and `EscapeFreesAll` say so by their exception.
* LEDs written through the boot report are stored and sent to nobody, and a removed host's LEDs
  stay lit on a bridged keyboard: `silent` in `LedSync`.  A keyboard that is bridged to a host
  which is not in the table keeps the LEDs it had.
* A client that ends by a broken bridge exits like one whose user pressed enter: the error that
  the waiting branch makes is dropped (`bridge.rs:140`).
* A cancelled bridge releases nothing; keys it had down stay down on the host (`orphans`).

## 7. Not modelled, and what could come next

* **Composition**: several bridges of `EscapeShortcut` as the bridges of `HidKeyboard`, by a
  refinement of their key events; `BridgeClient` over `BridgeRegistry` itself in place of
  `BridgeLifecycle`, which needs a smaller instance of the table than the one checked now.
* The flags of the terminal (`BlockingFlagWrapper`): set and reset in one function; a
  client that is killed leaves its terminal non-blocking.

Left out for good: GATT flags and UUIDs, report descriptors, formatting, names of keys,
the build script and the service files (data and wording); `list` and `escape-shortcut` on
the client's side (one request, one answer); how `bridge` finds its bus and its host's
address (a few questions to the bus, of which the first failure ends the client: `Prepare`);
evdev, BlueZ and the message bus themselves, which appear as the environment actions marked
external in `PROJECT.json`.  `Target::Broadcast` exists in the HID servers, and nothing
in the daemon uses it.
