---------------------------- MODULE BridgeRegistry ----------------------------
(***************************************************************************)
(* The bridge table of the bluekeyd daemon (bluekeyd/src/main.rs): the     *)
(* D-Bus methods that create and destroy bridges, the bridge tasks         *)
(* themselves, and the three cleaners that withdraw bridges whose client   *)
(* left the bus, whose task ended by itself, or whose target was removed   *)
(* from the adapter.  All of them meet at one FIFO lock (tokio's Mutex     *)
(* around the HashMap) and one bounded channel (the ids of the keyboard    *)
(* bridges that died).                                                     *)
(*                                                                         *)
(* The daemon runs on one thread: an action is the code between two        *)
(* await points that can really suspend.                                   *)
(***************************************************************************)
EXTENDS Naturals, Sequences, FiniteSets

CONSTANTS
    Clients,       \* unique names of D-Bus clients
    NamedClients,  \* those that also own a well-known name on the bus
    Keyboards,     \* evdev keyboard devices
    Mice,          \* evdev mouse devices
    Addrs,         \* addresses of Bluetooth targets
    MaxId,         \* bound: handles drawn from the id source (u64 in the code)
    NotifyCap,     \* capacity of the channel of dead keyboard bridges (16)
    None           \* no value (Option::None)

ASSUME ClientsAssumption == NamedClients \subseteq Clients
ASSUME DevicesAssumption == Keyboards \cap Mice = {}
ASSUME BoundsAssumption  == MaxId \in Nat \ {0} /\ NotifyCap \in Nat \ {0}

Ids      == 0 .. MaxId - 1
Devices  == Keyboards \cup Mice
Cleaners == {"disconnection", "death", "device"}
Actors   == Cleaners \cup {"handler"}

BridgeRequests  == [op : {"bridge"}, device : Devices, target : Addrs]
DestroyRequests == [op : {"destroy"}, handle : Ids]
Requests        == BridgeRequests \cup DestroyRequests
BridgeInfos     == [device : Devices, owner : Clients, target : Addrs]

ASSUME NoneAssumption ==
    None \notin Ids \cup Clients \cup Addrs \cup Requests \cup BridgeInfos

VARIABLES
    phase,       \* the daemon: "starting", "subscribed", "running", "stopped"
    client,      \* per client: "on" the bus, "left" it idle, "lost" (see Leave)
    named,       \* clients that still own a well-known name
    call,        \* per client: its outstanding method call
    serving,     \* the client whose call holds the object's write lock
    pending,     \* handle of the bridge the handler started but not stored
    nextId,      \* IdSource
    task,        \* per handle: state of the spawned bridge task
    bridge,      \* per handle: device, owner and target it was started with
    reg,         \* handles in the table
    cancelled,   \* handles that were taken out of the table and cancelled
    lockQ,       \* holder of the table's lock, then those waiting, in order
    awaiting,    \* handle whose task the lock's holder is waiting for
    departures,  \* NameOwnerChanged signals not yet read
    deaths,      \* the bounded channel of dead keyboard bridges
    removals,    \* DeviceRemoved events not yet read
    gone,        \* addresses that were removed from the adapter at least once
    job,         \* per cleaner: the event it is working on
    signals      \* per handle: BridgeBroken signals sent

vars == <<phase, client, named, call, serving, pending, nextId, task, bridge,
          reg, cancelled, lockQ, awaiting, departures, deaths, removals, gone,
          job, signals>>

busVars   == <<client, named, departures>>
callVars  == <<call, serving, pending, nextId>>
tableVars == <<reg, cancelled, awaiting, signals>>

Abandoned == [op |-> "abandoned"]    \* the handler panicked: the call is never answered

ASSUME AbandonedAssumption == None # Abandoned

IsKeyboard(id) == bridge[id].device \in Keyboards
Holder         == Head(lockQ)
Holds(a)       == lockQ # <<>> /\ Holder = a
\* Every task of the daemon ends with the process.
Alive          == phase # "stopped"

Init ==
    /\ phase = "starting"
    /\ client = [c \in Clients |-> "on"]
    /\ named = NamedClients
    /\ call = [c \in Clients |-> None]
    /\ serving = None
    /\ pending = None
    /\ nextId = 0
    /\ task = [id \in Ids |-> "unborn"]
    /\ bridge = [id \in Ids |-> None]
    /\ reg = {}
    /\ cancelled = {}
    /\ lockQ = <<>>
    /\ awaiting = None
    /\ departures = <<>>
    /\ deaths = <<>>
    /\ removals = <<>>
    /\ gone = {}
    /\ job = [a \in Cleaners |-> None]
    /\ signals = [id \in Ids |-> 0]

-----------------------------------------------------------------------------
(* The bus and the adapter.                                                *)

\* The object is served before the daemon asks for NameOwnerChanged, and the
\* adapter's events are asked for after that.  Calls are handled all along.
Subscribe ==
    /\ \/ phase = "starting" /\ phase' = "subscribed"
       \/ phase = "subscribed" /\ phase' = "running"
    /\ UNCHANGED <<busVars, callVars, task, bridge, tableVars, lockQ, deaths,
                   removals, gone, job>>

\* A client sends a method call; it has one outstanding call at a time.
Invoke(c, request) ==
    /\ Alive
    /\ client[c] = "on"
    /\ call[c] = None
    /\ call' = [call EXCEPT ![c] = request]
    /\ UNCHANGED <<phase, busVars, serving, pending, nextId, task, bridge,
                   tableVars, lockQ, deaths, removals, gone, job>>

\* Mutant: the subscription only works once the adapter is watched as well.
PublishLate(cs) == departures' = IF phase # "running" THEN departures
                                                     ELSE departures \o cs

\* The signal the bus sends when a name loses its owner, for those who listen.
Publish(cs) == departures' = IF phase = "starting" THEN departures
                                                   ELSE departures \o cs

\* A client leaves the bus: the bus takes its well-known name away, then its
\* unique name.  It is "left" when the daemon hears of it and none of its calls
\* is under way; otherwise it is "lost": nothing can promise to clean it up.
Leave(c) ==
    /\ Alive
    /\ client[c] = "on"
    /\ client' = [client EXCEPT ![c] = IF phase # "starting" /\ call[c] \notin Requests
                                       THEN "left" ELSE "lost"]
    /\ Publish(IF c \in named THEN <<c, c>> ELSE <<c>>)
    /\ named' = named \ {c}
    /\ UNCHANGED <<phase, callVars, task, bridge, tableVars, lockQ, deaths,
                   removals, gone, job>>

\* A client gives up its well-known name and stays on the bus: the same signal,
\* with the client's unique name as the old owner and no new owner.
ReleaseName(c) ==
    /\ Alive
    /\ client[c] = "on" /\ c \in named
    /\ named' = named \ {c}
    /\ Publish(<<c>>)
    /\ UNCHANGED <<phase, client, callVars, task, bridge, tableVars, lockQ,
                   deaths, removals, gone, job>>

\* The adapter removes a device (bound: each address once); the device can be
\* paired and bridged to again at any time.
DeviceRemoved(addr) ==
    /\ Alive
    /\ addr \notin gone
    /\ gone' = gone \cup {addr}
    /\ removals' = IF phase = "running" THEN Append(removals, addr) ELSE removals
    /\ UNCHANGED <<phase, busVars, callVars, task, bridge, tableVars, lockQ,
                   deaths, job>>

-----------------------------------------------------------------------------
(* The D-Bus methods: each takes the object by &mut self, so one runs at a *)
(* time, up to the table's lock and then under it.                         *)

\* A device is grabbed while the bridge task that owns it runs its loop.
Grabbed(dev) == \E id \in Ids : task[id] = "running" /\ bridge[id].device = dev

\* Mutant: a lock that serves its newest waiter first.
EnqueueFirst(a) == lockQ' = IF lockQ = <<>> THEN <<a>>
                                            ELSE <<Holder, a>> \o Tail(lockQ)

\* A request for the table's lock queues behind the earlier ones.
Enqueue(a) == lockQ' = Append(lockQ, a)

\* Mutant: IdSource increments before it reads.
NextHandleTooLate == nextId + 1

\* IdSource.next: the id before the increment.
NextHandle == nextId

\* bridge_mouse / bridge_keyboard: open, grab, start the task, ask for the lock.
StartBridge(c) ==
    /\ Alive
    /\ serving = None
    /\ call[c] \in BridgeRequests
    /\ nextId < MaxId
    /\ ~Grabbed(call[c].device)
    /\ serving' = c
    /\ pending' = NextHandle
    /\ nextId' = nextId + 1
    /\ task' = [task EXCEPT ![NextHandle] = "running"]
    /\ bridge' = [bridge EXCEPT ![NextHandle] =
                    [device |-> call[c].device, owner |-> c, target |-> call[c].target]]
    /\ Enqueue("handler")
    /\ UNCHANGED <<phase, busVars, call, tableVars, deaths, removals, gone, job>>

\* The device cannot be opened, grabbed or turned into a stream; a keyboard
\* that fails in the last of these has already drawn its id.
RefuseBridge(c) ==
    /\ Alive
    /\ serving = None
    /\ call[c] \in BridgeRequests
    /\ call' = [call EXCEPT ![c] = None]
    /\ \/ UNCHANGED nextId
       \/ /\ call[c].device \in Keyboards
          /\ ~Grabbed(call[c].device)
          /\ nextId < MaxId
          /\ nextId' = nextId + 1
    /\ UNCHANGED <<phase, busVars, serving, pending, task, bridge, tableVars,
                   lockQ, deaths, removals, gone, job>>

\* destroy_bridge up to the table's lock.
StartDestroy(c) ==
    /\ Alive
    /\ serving = None
    /\ call[c] \in DestroyRequests
    /\ serving' = c
    /\ Enqueue("handler")
    /\ UNCHANGED <<phase, busVars, call, pending, nextId, task, bridge,
                   tableVars, deaths, removals, gone, job>>

Serve(c) == StartBridge(c) \/ RefuseBridge(c) \/ StartDestroy(c)

\* Mutant: the object's lock outlives the method.
AnswerKeepingLock(reply) ==
    /\ call' = [call EXCEPT ![serving] = reply]
    /\ UNCHANGED serving

\* The method returns (or panics) and lets both locks go.
Answer(reply) ==
    /\ call' = [call EXCEPT ![serving] = reply]
    /\ serving' = None

\* The new bridge is stored and its handle returned.
Insert ==
    /\ Alive
    /\ Holds("handler")
    /\ awaiting = None
    /\ pending # None
    /\ reg' = reg \cup {pending}
    /\ pending' = None
    /\ Answer(None)
    /\ lockQ' = Tail(lockQ)
    /\ UNCHANGED <<phase, busVars, nextId, task, bridge, cancelled, awaiting,
                   signals, deaths, removals, gone, job>>

-----------------------------------------------------------------------------
(* The cleaners, and what they and destroy_bridge do under the lock.       *)

\* A cleaner reads the next event from its source and asks for the lock.
TakeDeparture ==
    /\ job["disconnection"] = None
    /\ departures # <<>>
    /\ job' = [job EXCEPT !["disconnection"] = Head(departures)]
    /\ departures' = Tail(departures)
    /\ Enqueue("disconnection")
    /\ UNCHANGED <<deaths, removals>>

TakeDeath ==
    /\ job["death"] = None
    /\ deaths # <<>>
    /\ job' = [job EXCEPT !["death"] = Head(deaths)]
    /\ deaths' = Tail(deaths)
    /\ Enqueue("death")
    /\ UNCHANGED <<departures, removals>>

TakeRemoval ==
    /\ job["device"] = None
    /\ removals # <<>>
    /\ job' = [job EXCEPT !["device"] = Head(removals)]
    /\ removals' = Tail(removals)
    /\ Enqueue("device")
    /\ UNCHANGED <<departures, deaths>>

Take(a) ==
    /\ phase = "running"
    /\ \/ a = "disconnection" /\ TakeDeparture
       \/ a = "death" /\ TakeDeath
       \/ a = "device" /\ TakeRemoval
    /\ UNCHANGED <<phase, client, named, callVars, task, bridge, tableVars, gone>>

\* Mutant: the owner is not compared.
OwnedByAnyone(id, c) == TRUE

\* Mutant: bridges that already died are passed over.
OwnedAlive(id, c) == bridge[id].owner = c /\ task[id] = "running"

OwnedBy(id, c) == bridge[id].owner = c

\* The table's entries the holder of the lock is there to withdraw.
Matches(a) ==
    CASE a = "handler"       -> {id \in reg : /\ call[serving] \in DestroyRequests
                                              /\ call[serving].handle = id
                                              /\ OwnedBy(id, serving)}
      [] a = "disconnection" -> {id \in reg : OwnedBy(id, job[a])}
      [] a = "death"         -> {id \in reg : id = job[a]}
      [] a = "device"        -> {id \in reg : bridge[id].target = job[a]}

\* Mutant: the entry is looked up but stays in the table.
Peek(id) == reg' = reg

Remove(id) == reg' = reg \ {id}

\* One entry is taken out, its bridge is told to stop, its task is awaited.
Withdraw(a, id) ==
    /\ Alive
    /\ Holds(a)
    /\ awaiting = None
    /\ id \in Matches(a)
    /\ Remove(id)
    /\ cancelled' = cancelled \cup {id}
    /\ awaiting' = id
    /\ UNCHANGED <<phase, busVars, callVars, task, bridge, lockQ, signals,
                   deaths, removals, gone, job>>

\* Mutant: the JoinHandle is dropped instead of awaited.
Detached(id) == task[id] # "panicked"

\* Awaiting the JoinHandle returns a result.
Finished(id) == task[id] = "done"

\* The task has finished: BridgeBroken is sent for it.
Joined ==
    /\ Alive
    /\ awaiting # None
    /\ Finished(awaiting)
    /\ awaiting' = None
    /\ signals' = [signals EXCEPT ![awaiting] = @ + 1]
    /\ UNCHANGED <<phase, busVars, callVars, task, bridge, reg, cancelled, lockQ,
                   deaths, removals, gone, job>>

\* An error leaves the holder's code.  A method panics in a task of its own, so
\* its call is never answered; an error of a cleaner ends run() and the daemon.
GiveUp ==
    /\ awaiting' = None
    /\ \/ /\ Holds("handler")
          /\ Answer(Abandoned)
          /\ lockQ' = Tail(lockQ)
          /\ UNCHANGED phase
       \/ /\ \E a \in Cleaners : Holds(a)
          /\ phase' = "stopped"
          /\ UNCHANGED <<call, serving, lockQ>>
    /\ UNCHANGED <<busVars, pending, nextId, task, bridge, reg, cancelled,
                   signals, deaths, removals, gone, job>>

\* BridgeBroken cannot be sent (`?` in the cleaners, unwrap() in the method).
EmitFails ==
    /\ Alive
    /\ awaiting # None
    /\ Finished(awaiting)
    /\ GiveUp

\* The bridge's task panicked: cancel() unwraps the JoinError.
JoinPanics ==
    /\ Alive
    /\ awaiting # None
    /\ task[awaiting] = "panicked"
    /\ GiveUp

\* No entry is left to withdraw: the lock is let go.
Release(a) ==
    /\ Alive
    /\ Holds(a)
    /\ awaiting = None
    /\ Matches(a) = {}
    /\ lockQ' = Tail(lockQ)
    /\ \/ a = "handler" /\ pending = None /\ Answer(None) /\ UNCHANGED job
       \/ a \in Cleaners /\ job' = [job EXCEPT ![a] = None]
                         /\ UNCHANGED <<call, serving>>
    /\ UNCHANGED <<phase, busVars, pending, nextId, task, bridge, tableVars,
                   deaths, removals, gone>>

-----------------------------------------------------------------------------
(* The bridge tasks.                                                       *)

BecomesOf(id, from, to) ==
    /\ Alive
    /\ task[id] = from
    /\ task' = [task EXCEPT ![id] = to]
    /\ UNCHANGED <<phase, busVars, callVars, bridge, tableVars, lockQ, removals,
                   gone, job>>

\* Mutant: the canceller is dropped before it is used.
CancelNeverSeen(id) == FALSE

CancelSeen(id) == id \in cancelled

\* The loop sees the cancellation and returns Ok(Cancelled): no notification.
BridgeCancelled(id) ==
    /\ CancelSeen(id)
    /\ BecomesOf(id, "running", "done")
    /\ UNCHANGED deaths

\* Escape shortcut, evdev error or HID server error.  A keyboard bridge goes on
\* to report its death; a mouse bridge has nothing to report it with.
BridgeDies(id) ==
    /\ BecomesOf(id, "running", IF IsKeyboard(id) THEN "notifying" ELSE "done")
    /\ UNCHANGED deaths

\* A keyboard bridge's loop panics (see EscapeShortcut).
BridgePanics(id) ==
    /\ task[id] = "running" /\ IsKeyboard(id)
    /\ BecomesOf(id, "running", "panicked")
    /\ UNCHANGED deaths

\* Mutant: try_send instead of send, a full channel loses the notification.
NotifiedIfRoom(id) ==
    /\ BecomesOf(id, "notifying", "done")
    /\ deaths' = IF Len(deaths) < NotifyCap THEN Append(deaths, id) ELSE deaths

\* Mutant: a notification that got through is sent again.
NotifiedAgain(id) ==
    /\ Len(deaths) < NotifyCap
    /\ BecomesOf(id, "notifying", "notifying")
    /\ deaths' = Append(deaths, id)

\* The notification waits for room in the channel; then the task is over.
Notified(id) ==
    /\ Len(deaths) < NotifyCap
    /\ BecomesOf(id, "notifying", "done")
    /\ deaths' = Append(deaths, id)

\* The daemon waits for the next event, or has exited.
Idle ==
    /\ (lockQ = <<>> /\ serving = None) \/ ~Alive
    /\ UNCHANGED vars

-----------------------------------------------------------------------------
BridgeStep(id) == \/ BridgeCancelled(id) \/ BridgeDies(id)
                  \/ BridgePanics(id) \/ Notified(id)

Next ==
    \/ Subscribe
    \/ \E c \in Clients : \/ \E request \in Requests : Invoke(c, request)
                          \/ Leave(c) \/ ReleaseName(c)
                          \/ StartBridge(c) \/ RefuseBridge(c) \/ StartDestroy(c)
    \/ \E addr \in Addrs : DeviceRemoved(addr)
    \/ Insert \/ Joined \/ EmitFails \/ JoinPanics
    \/ \E a \in Cleaners : Take(a)
    \/ \E a \in Actors : Release(a) \/ \E id \in Ids : Withdraw(a, id)
    \/ \E id \in Ids : BridgeStep(id)
    \/ Idle

Spec == Init /\ [][Next]_vars

\* The runtime polls every task that was woken; tokio's Mutex and mpsc::Sender
\* serve waiters in order and the object's lock starves no writer, so a call
\* that can be served and a notification that can be sent again and again are.
Fairness ==
    /\ WF_vars(Subscribe)
    /\ \A c \in Clients : SF_vars(Serve(c))
    /\ WF_vars(Insert) /\ WF_vars(Joined) /\ WF_vars(JoinPanics)
    /\ \A a \in Cleaners : WF_vars(Take(a))
    /\ \A a \in Actors : WF_vars(Release(a)) /\ WF_vars(\E id \in Ids : Withdraw(a, id))
    /\ \A id \in Ids : WF_vars(BridgeCancelled(id)) /\ SF_vars(Notified(id))

FairSpec == Spec /\ Fairness

-----------------------------------------------------------------------------
(* Properties.                                                             *)

TypeOK ==
    /\ phase \in {"starting", "subscribed", "running", "stopped"}
    /\ client \in [Clients -> {"on", "left", "lost"}]
    /\ named \subseteq NamedClients
    /\ call \in [Clients -> Requests \cup {None, Abandoned}]
    /\ serving \in Clients \cup {None}
    /\ pending \in Ids \cup {None}
    /\ nextId \in 0 .. MaxId
    /\ task \in [Ids -> {"unborn", "running", "notifying", "done", "panicked"}]
    /\ bridge \in [Ids -> BridgeInfos \cup {None}]
    /\ reg \subseteq Ids
    /\ cancelled \subseteq Ids
    /\ lockQ \in Seq(Actors)
    /\ awaiting \in Ids \cup {None}
    /\ departures \in Seq(Clients)
    /\ deaths \in Seq(Ids)
    /\ removals \in Seq(Addrs)
    /\ gone \subseteq Addrs
    /\ job \in [Cleaners -> Clients \cup Ids \cup Addrs \cup {None}]
    /\ job["disconnection"] \in Clients \cup {None}
    /\ job["death"] \in Ids \cup {None}
    /\ job["device"] \in Addrs \cup {None}
    /\ signals \in [Ids -> Nat]

InSeq(e, s)     == \E i \in 1 .. Len(s) : s[i] = e
Distinct(s)     == \A i, j \in 1 .. Len(s) : s[i] = s[j] => i = j
Before(e, f, s) == \E i, j \in 1 .. Len(s) : i < j /\ s[i] = e /\ s[j] = f

\* A keyboard bridge that died by itself (escape shortcut, error) and is still in
\* the table is on its way out: its handle is in the channel or in the hands of
\* the death cleaner.  The cleaner drops a handle it does not find in the table
\* (main.rs:194), and the handle is reported from the moment the task runs, before
\* bridge_keyboard stores it (main.rs:315-324): only the order in which the lock
\* is granted keeps a dead bridge from staying in the table for good.
NoLostDeath ==
    \A id \in reg : (IsKeyboard(id) /\ task[id] = "done") =>
                        InSeq(id, deaths) \/ job["death"] = id

\* Once the daemon has dealt with the departure of a client that had no call
\* under way, the table holds no bridge of that client (main.rs:155-185), and no
\* later step of any method can bring one in.
DepartureLeavesNothing ==
    \A c \in Clients :
        /\ client[c] = "left"
        /\ ~InSeq(c, departures)
        /\ job["disconnection"] # c
        => \A id \in reg : bridge[id].owner # c

\* No bridge is withdrawn behind its owner's back: whenever an entry leaves the
\* table, its owner left the bus or gave up a name, or asked for it and is being
\* served, or the bridge's task is over, or its target was removed from the
\* adapter (main.rs:171, 194, 213, 336-344).
Cause(id) ==
    LET owner == bridge[id].owner
    IN  \/ client[owner] # "on"
        \/ owner \in NamedClients \ named
        \/ serving = owner /\ call[owner] = [op |-> "destroy", handle |-> id]
        \/ task[id] = "done"
        \/ bridge[id].target \in gone

WithdrawnForCause == [][\A id \in reg \ reg' : Cause(id)]_vars

\* The daemon keeps the promise of BridgeLifecycle: a handle is given out once,
\* stored once, withdrawn once, and BridgeBroken is sent at most once for it and
\* only after its task gave its device back (main.rs:174-179, 198-202, 213-218,
\* 344-348).
PlaceOf(id) ==
    IF signals[id] = 1 THEN "announced"
    ELSE IF signals[id] # 0 THEN "announced twice"
    ELSE IF id \in reg THEN "held"
    ELSE IF id \in cancelled THEN "withdrawn"
    ELSE IF task[id] # "unborn" THEN "starting"
    ELSE "unused"

place == [id \in Ids |-> PlaceOf(id)]

ended == {id \in Ids : task[id] \in {"notifying", "done", "panicked"}}

Lifecycle == INSTANCE BridgeLifecycle WITH Handles <- Ids, place <- place, ended <- ended

ImplementsLifecycle == Lifecycle!LifecycleSpec

\* When destroy_bridge answers the owner of a bridge, whether it withdrew the bridge
\* itself or found that a cleaner had done so, BridgeBroken was sent for that bridge
\* before: the answer never overtakes the signal (main.rs:330-351).
AnswerAfterBreak ==
    [][\A c \in Clients : (call[c] \in DestroyRequests /\ call'[c] = None) =>
          LET id == call[c].handle
          IN  (bridge[id] # None /\ bridge[id].owner = c) => signals[id] = 1]_vars

\* The lock's holder awaits a bridge that waits for room in the channel of deaths, which
\* is full, and the death cleaner, which alone makes room, waits for the lock.
Stuck ==
    /\ awaiting # None /\ task[awaiting] = "notifying"
    /\ Len(deaths) >= NotifyCap
    /\ job["death"] # None

\* Keyboard bridges whose death the death cleaner is not done with.
Undealt == {id \in Ids : task[id] = "notifying" \/ InSeq(id, deaths) \/ job["death"] = id}

\* The deadlock on the table's lock takes two more dead keyboard bridges at a time than
\* the channel holds: until then, whoever awaits a bridge under the lock gets it back
\* (main.rs:191, 228, 320, evdev_bridge.rs:128, 143).
StuckTakesACrowd == Stuck => Cardinality(Undealt) >= NotifyCap + 2

\* Every method call is answered, or its handler panicked, or the daemon exited.
CallsAnswered ==
    \A c \in Clients : call[c] \in Requests ~> (call[c] \notin Requests \/ ~Alive)

\* cancel() always returns to the holder of the lock.  evdev_bridge.rs:140 relies
\* on it: "If the channel is closed, the bridge has stoped and handle has a value".
CancelReturns ==
    \A id \in Ids : awaiting = id ~> (awaiting # id \/ ~Alive)

\* A keyboard bridge that died by itself leaves the table in the end.
DeathsCleared ==
    \A id \in Ids : (id \in reg /\ IsKeyboard(id) /\ task[id] = "done")
                        ~> (id \notin reg \/ ~Alive)

\* The bridges of a client that left idle are released in the end: none is in
\* the table, and every one of them has stopped forwarding.
DeparturesCleaned ==
    \A c \in Clients : client[c] = "left" ~>
        \/ ~Alive
        \/ \A id \in Ids : (task[id] # "unborn" /\ bridge[id].owner = c)
                              => id \notin reg /\ task[id] # "running"

-----------------------------------------------------------------------------
(* The inductive invariant behind the properties (see BridgeRegistryProofs). *)

\* Nobody is in the lock's queue twice; the handler is in it exactly while it
\* serves a call and a cleaner exactly while it works on an event; a task is
\* awaited under the lock only.
LockInv ==
    /\ Distinct(lockQ)
    /\ serving # None <=> InSeq("handler", lockQ)
    /\ \A a \in Cleaners : job[a] # None <=> InSeq(a, lockQ)
    /\ awaiting # None => lockQ # <<>>

\* A started bridge that is not stored yet belongs to the call being served;
\* a client that left idle has no call that could still bring one in.
CallInv ==
    /\ serving # None => call[serving] \in Requests
    /\ serving # None => (call[serving] \in BridgeRequests <=> pending # None)
    /\ pending # None => serving # None /\ bridge[pending].owner = serving
    /\ awaiting # None /\ Holds("handler") => pending = None
    /\ \A c \in Clients : client[c] = "left" => call[c] \notin Requests

\* A handle is in one place at a time: not drawn, started, in the table, or
\* withdrawn; only withdrawn handles whose task is over are announced, each once,
\* and the awaited one has not been yet.
HandleInv ==
    /\ \A id \in Ids : nextId <= id => task[id] = "unborn"
    /\ \A id \in Ids : task[id] = "unborn" => id \notin reg \cup cancelled /\ id # pending
    /\ \A id \in Ids : task[id] # "unborn" => bridge[id] # None
    /\ reg \cap cancelled = {}
    /\ pending \notin reg \cup cancelled
    /\ \A id \in Ids : \/ signals[id] = 0
                       \/ signals[id] = 1 /\ id \in cancelled /\ task[id] = "done"
    /\ awaiting # None => awaiting \in cancelled /\ signals[awaiting] = 0

\* The cleaners only ever see events that happened.
Departed(c) == client[c] # "on" \/ c \in NamedClients \ named

EventInv ==
    /\ \A i \in 1 .. Len(departures) : Departed(departures[i])
    /\ \A i \in 1 .. Len(deaths) : task[deaths[i]] = "done"
    /\ \A i \in 1 .. Len(removals) : removals[i] \in gone
    /\ job["disconnection"] # None => Departed(job["disconnection"])
    /\ job["death"] # None => task[job["death"]] = "done"
    /\ job["device"] # None => job["device"] \in gone

\* A dead keyboard bridge is reported even before it is stored, and then its
\* handler is ahead of the death cleaner in the lock's queue.
DeathInv ==
    /\ \A id \in reg \cup {pending} :
          (id # None /\ IsKeyboard(id) /\ task[id] = "done")
              => InSeq(id, deaths) \/ job["death"] = id
    /\ (pending # None /\ job["death"] = pending) => Before("handler", "death", lockQ)

\* A bridge that was started is never out of reach, and one that was withdrawn is
\* announced before the lock is let go, unless the handler that owes the signal
\* panicked and left its own client's call open.
BreakInv ==
    /\ \A id \in Ids : bridge[id] # None => id \in reg \cup cancelled \cup {pending}
    /\ \A id \in cancelled : \/ signals[id] = 1 \/ awaiting = id \/ ~Alive
                              \/ call[bridge[id].owner] = Abandoned
    /\ (awaiting # None /\ Holds("handler")) => bridge[awaiting].owner = serving

\* A death is reported once, and the cleaner reads it once.
ReportInv ==
    /\ Distinct(deaths)
    /\ ~InSeq(job["death"], deaths)

IInv == /\ TypeOK /\ LockInv /\ CallInv /\ HandleInv /\ EventInv /\ DeathInv
        /\ BreakInv /\ ReportInv /\ DepartureLeavesNothing
=============================================================================
