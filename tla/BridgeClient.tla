------------------------------ MODULE BridgeClient ------------------------------
(***************************************************************************)
(* A run of `bluekey bridge` (bluekey/src/commands/bridge.rs) from its     *)
(* first call to its exit, with the daemon on the other side of the bus.   *)
(* The daemon appears by what it does to handles (BridgeLifecycle), one    *)
(* withdrawal at a time under the lock of its table (BridgeRegistry), and  *)
(* by its answers and signals.  The client waits for two things at once: a *)
(* broken bridge, and enter on its standard input (wait_enter.rs).         *)
(***************************************************************************)
EXTENDS BridgeLifecycle, Naturals, Sequences

CONSTANTS
    Wanted,     \* devices the user named: "mouse", "keyboard"
    Inputs,     \* what the user may enter: "line", "eof", "text" (no newline)
    None        \* no value (Option::None)

Kinds == {"mouse", "keyboard"}

ASSUME WantedAssumption == Wanted \subseteq Kinds /\ Wanted # {}
ASSUME InputsAssumption == Inputs \subseteq {"line", "eof", "text"}
ASSUME HandlesAssumption == Handles \subseteq Nat
ASSUME NoneAssumption   == None \notin Handles /\ None \notin Kinds \cup {"other"} /\ None \notin Inputs

VARIABLES
    whose,      \* per handle: what it was made for, "other" for another client, or None
    lock,       \* handle that is being withdrawn under the table's lock, or None
    call,       \* the client's method call as the daemon sees it, or None
    up,         \* the daemon runs
    panicked,   \* handles whose bridge's task panicked: it reports its end to nobody
    link,       \* the client's connection to the bus works
    late,       \* the client left the bus with a call under way
    pc,         \* where the client is
    asked,      \* it awaits the answer to a method call
    reply,      \* the answer, or None
    slot,       \* devices.mouse, devices.keyboard
    listening,  \* it is subscribed to BridgeBroken
    heard,      \* signals it has not read
    input,      \* what the user entered, not read yet, or None
    spinning    \* its wait for enter reads again and again without awaiting

daemonVars == <<place, ended, whose, lock, call, up, panicked>>
clientVars == <<pc, asked, reply, slot, listening, heard, input, spinning>>
vars == <<daemonVars, clientVars, link, late>>

Abandoned == [op |-> "abandoned"]    \* the method panicked: it is never answered

\* destroy_bridge is "destroy" up to the lock, then "withdraw"; the others have drawn
\* their handle when they are at "store".
Calls   == [op : {"bridge"}, kind : Kinds]
             \cup [op : {"store", "destroy", "withdraw"}, handle : Handles]
Replies == [handle : Handles] \cup {[error |-> TRUE], [ok |-> TRUE]}
Error   == [error |-> TRUE]
Ok      == [ok |-> TRUE]

ASSUME RepliesAssumption == None \notin Replies \cup Calls \cup {Abandoned}

Pcs == Kinds \cup {"prepare", "subscribe", "shortcut", "waiting", "free keyboard",
                   "free mouse", "done", "killed"}

Finished == pc \in {"done", "killed"}

\* The daemon hears of the client, and the client of the daemon.
Connected == link /\ ~Finished

Init ==
    /\ LifecycleInit
    /\ whose = [h \in Handles |-> None]
    /\ lock = None
    /\ call = None
    /\ up = TRUE
    /\ panicked = {}
    /\ link = TRUE
    /\ late = FALSE
    /\ pc = "prepare"
    /\ asked = FALSE
    /\ reply = None
    /\ slot = [k \in Kinds |-> None]
    /\ listening = FALSE
    /\ heard = <<>>
    /\ input = None
    /\ spinning = FALSE

-----------------------------------------------------------------------------
(* The daemon.                                                             *)

Ours(h) == whose[h] \in Kinds

\* A method returns; nobody hears of it if the client is gone.
Answer(r) ==
    /\ call' = None
    /\ reply' = IF Connected THEN r ELSE reply

Sent == call # None /\ up

\* The methods take &mut self: one runs at a time, whoever called it.
MethodRuns ==
    \/ \E g \in Handles : place[g] = "starting"
    \/ call # None /\ call.op = "withdraw"

\* Handles are drawn in order.
Fresh(h) ==
    /\ ~MethodRuns
    /\ place[h] = "unused"
    /\ \A g \in Handles : g < h => place[g] # "unused"

\* Mutant: signals are kept from the event loop on.
KeepsLate == pc = "waiting"

KeepsSignals == listening

\* BridgeBroken, for those who listen.
Signal(h) == heard' = IF KeepsSignals /\ Connected THEN Append(heard, h) ELSE heard

\* bridge_mouse, bridge_keyboard: the bridge runs, its handle is not stored yet.
ServeBridge(h) ==
    /\ Sent /\ call.op = "bridge"
    /\ Fresh(h) /\ Start(h)
    /\ whose' = [whose EXCEPT ![h] = call.kind]
    /\ call' = [op |-> "store", handle |-> h]
    /\ UNCHANGED <<lock, up, panicked, clientVars, link, late>>

RefuseBridge ==
    /\ Sent /\ call.op = "bridge"
    /\ Answer(Error)
    /\ UNCHANGED <<lifecycle, whose, lock, up, panicked, pc, asked, slot, listening, heard,
                   input, spinning, link, late>>

StoreBridge ==
    /\ Sent /\ call.op = "store"
    /\ lock = None
    /\ Hold(call.handle)
    /\ Answer([handle |-> call.handle])
    /\ UNCHANGED <<whose, lock, up, panicked, pc, asked, slot, listening, heard, input,
                   spinning, link, late>>

\* destroy_bridge: a handle that is not in the table any more is an error.
ServeDestroy ==
    /\ Sent /\ call.op = "destroy"
    /\ ~MethodRuns
    /\ lock = None
    /\ \/ /\ Withdraw(call.handle)
          /\ lock' = call.handle
          /\ call' = [op |-> "withdraw", handle |-> call.handle]
          /\ UNCHANGED reply
       \/ /\ place[call.handle] # "held"
          /\ Answer(Error)
          /\ UNCHANGED <<lifecycle, lock>>
    /\ UNCHANGED <<whose, up, panicked, pc, asked, slot, listening, heard, input, spinning,
                   link, late>>

\* The same for another client: its bridge starts and is stored.
ServeOther(h) ==
    /\ up
    /\ Fresh(h) /\ Start(h)
    /\ whose' = [whose EXCEPT ![h] = "other"]
    /\ UNCHANGED <<lock, call, up, panicked, clientVars, link, late>>

StoreOther(h) ==
    /\ up
    /\ whose[h] = "other"
    /\ lock = None
    /\ Hold(h)
    /\ UNCHANGED <<whose, lock, call, up, panicked, clientVars, link, late>>

\* A bridge is withdrawn by a cleaner, because its host was removed, it died, or its
\* client left; or another client destroys its own.
Clean(h) ==
    /\ up
    /\ lock = None
    /\ Withdraw(h)
    /\ lock' = h
    /\ UNCHANGED <<whose, call, up, panicked, clientVars, link, late>>

\* A bridge stops: it was cancelled, escaped from or failed; or its task panicked, which
\* only a keyboard's can.
BridgeEnds(h) ==
    /\ up
    /\ End(h)
    /\ \/ UNCHANGED panicked
       \/ whose[h] # "mouse" /\ panicked' = panicked \cup {h}
    /\ UNCHANGED <<whose, lock, call, up, clientVars, link, late>>

\* The withdrawn bridge has ended with a result: BridgeBroken is sent, and then the
\* answer if it was the client who asked.
Broken(h) ==
    /\ up
    /\ lock = h
    /\ h \notin panicked
    /\ Announce(h)
    /\ lock' = None
    /\ Signal(h)
    /\ \/ call = [op |-> "withdraw", handle |-> h] /\ Answer(Ok)
       \/ call # [op |-> "withdraw", handle |-> h] /\ UNCHANGED <<call, reply>>
    /\ UNCHANGED <<whose, up, panicked, pc, asked, slot, listening, input, spinning, link,
                   late>>

\* The bridge had panicked, or the signal cannot be sent: a method panics, a cleaner
\* ends the daemon.
BreakFails(h) ==
    /\ up
    /\ lock = h
    /\ h \in ended
    /\ \/ call = [op |-> "withdraw", handle |-> h]
          /\ call' = Abandoned /\ lock' = None /\ UNCHANGED up
       \/ call # [op |-> "withdraw", handle |-> h]
          /\ up' = FALSE /\ UNCHANGED <<call, lock>>
       \/ whose[h] = "other" /\ lock' = None /\ UNCHANGED <<call, up>>
    /\ UNCHANGED <<lifecycle, whose, panicked, clientVars, link, late>>

DaemonExits ==
    /\ up
    /\ up' = FALSE
    /\ UNCHANGED <<lifecycle, whose, lock, call, panicked, clientVars, link, late>>

-----------------------------------------------------------------------------
(* The bus and the user.                                                   *)

Departs == late' = (late \/ call \notin {None, Abandoned})

\* The client's connection breaks, or the bus stops.
LoseLink ==
    /\ Connected
    /\ link' = FALSE
    /\ Departs
    /\ UNCHANGED <<daemonVars, clientVars>>

\* Ctrl-C: nothing of the client's cleans up.
Kill ==
    /\ ~Finished
    /\ pc' = "killed"
    /\ Departs
    /\ UNCHANGED <<daemonVars, asked, reply, slot, listening, heard, input, spinning, link>>

\* The call of a client whose daemon or whose connection is gone fails.
CallFails ==
    /\ ~Finished
    /\ asked /\ reply = None
    /\ ~up \/ ~link
    /\ reply' = Error
    /\ UNCHANGED <<daemonVars, pc, asked, slot, listening, heard, input, spinning, link, late>>

\* Bound: one unread input.
Enter(i) ==
    /\ pc = "waiting"
    /\ input = None
    /\ input' = i
    /\ UNCHANGED <<daemonVars, pc, asked, reply, slot, listening, heard, spinning, link, late>>

-----------------------------------------------------------------------------
(* The client.                                                             *)

\* Bridges::wrap destroys what is in its slots, whatever the reason.
GoOn(to) ==
    /\ pc' = to
    /\ IF to = "free keyboard"
       THEN listening' = FALSE /\ heard' = <<>> /\ input' = None /\ spinning' = FALSE
       ELSE UNCHANGED <<listening, heard, input, spinning>>

CleanUp == GoOn("free keyboard")

\* The connection is made and the address resolved, or the client has nothing to do.
Prepare ==
    /\ pc = "prepare"
    /\ pc' \in {"subscribe", "done"}
    /\ UNCHANGED <<daemonVars, asked, reply, slot, listening, heard, input, spinning, link, late>>

\* A device that was not named is passed over.
AfterMouse == IF "keyboard" \in Wanted THEN "shortcut" ELSE "waiting"

FirstDevice == IF "mouse" \in Wanted THEN "mouse" ELSE AfterMouse

\* receive_bridge_broken().
Subscribe ==
    /\ pc = "subscribe"
    /\ \/ /\ link
          /\ listening' = TRUE
          /\ pc' = FirstDevice
          /\ UNCHANGED <<heard, input, spinning>>
       \/ CleanUp
    /\ UNCHANGED <<daemonVars, asked, reply, slot, link, late>>

\* A call is sent, as far as there is somebody to send it to.
Ask(request) ==
    /\ ~asked
    /\ asked' = TRUE
    /\ call' = IF link /\ up THEN request ELSE call

Answered == asked /\ reply # None

Create(k) ==
    /\ pc = k /\ k \in Wanted
    /\ Ask([op |-> "bridge", kind |-> k])
    /\ UNCHANGED <<lifecycle, whose, lock, up, panicked, pc, reply, slot, listening, heard,
                   input, spinning, link, late>>

\* Mutant: the handle that will be drawn next is taken for the one that was.
HandleAfter(r) == r.handle + 1

HandleIn(r) == r.handle

Created(k) ==
    /\ pc = k
    /\ Answered
    /\ asked' = FALSE
    /\ reply' = None
    /\ \/ /\ reply \in [handle : Handles]
          /\ slot' = [slot EXCEPT ![k] = HandleIn(reply)]
          /\ GoOn(IF k = "mouse" THEN AfterMouse ELSE "waiting")
       \/ reply = Error /\ CleanUp /\ UNCHANGED slot
    /\ UNCHANGED <<daemonVars, link, late>>

\* The shortcut is asked for and printed.
ReadShortcut ==
    /\ pc = "shortcut"
    /\ GoOn("keyboard") \/ CleanUp
    /\ UNCHANGED <<daemonVars, asked, reply, slot, link, late>>

\* Mutant: only the mouse's handle is compared.
IsTheMouse(h) == slot["mouse"] = h

IsOwn(h) == \E k \in Kinds : slot[k] = h

\* The next signal; it matters if it names one of the client's own handles.
HearSignal ==
    /\ pc = "waiting" /\ ~spinning
    /\ heard # <<>>
    /\ \/ IsOwn(Head(heard)) /\ CleanUp
       \/ /\ ~IsOwn(Head(heard))
          /\ heard' = Tail(heard)
          /\ UNCHANGED <<pc, listening, input, spinning>>
    /\ UNCHANGED <<daemonVars, asked, reply, slot, link, late>>

\* The stream of signals ends with the connection.
StreamEnds ==
    /\ pc = "waiting" /\ ~spinning
    /\ ~link
    /\ CleanUp
    /\ UNCHANGED <<daemonVars, asked, reply, slot, link, late>>

\* async_wait_enter: a newline or the end of the input is what it waits for.  After
\* anything else read() fails with EAGAIN, the readiness is cleared, and the inner
\* loop reads again instead of going back to await.
ReadInput ==
    /\ pc = "waiting"
    /\ input # None
    /\ \/ input \in {"line", "eof"} /\ CleanUp
       \/ /\ input = "text"
          /\ input' = None
          /\ spinning' = TRUE
          /\ UNCHANGED <<pc, listening, heard>>
    /\ UNCHANGED <<daemonVars, asked, reply, slot, link, late>>

\* The standard input cannot be polled or read.
InputFails ==
    /\ pc = "waiting"
    /\ CleanUp
    /\ UNCHANGED <<daemonVars, asked, reply, slot, link, late>>

\* Mutant: the keyboard's bridge is destroyed or the mouse's, never both.
AfterFirstFree(k) == IF slot[k] = None THEN "free mouse" ELSE "done"

AfterFree(k) == IF k = "keyboard" THEN "free mouse" ELSE "done"

AtFree(k) == pc = (IF k = "keyboard" THEN "free keyboard" ELSE "free mouse")

SkipFree(k) ==
    /\ AtFree(k)
    /\ slot[k] = None
    /\ pc' = AfterFree(k)
    /\ Departs
    /\ UNCHANGED <<daemonVars, asked, reply, slot, listening, heard, input, spinning, link>>

Free(k) ==
    /\ AtFree(k)
    /\ slot[k] # None
    /\ Ask([op |-> "destroy", handle |-> slot[k]])
    /\ UNCHANGED <<lifecycle, whose, lock, up, panicked, pc, reply, slot, listening, heard,
                   input, spinning, link, late>>

\* Whatever the answer is.
Freed(k) ==
    /\ AtFree(k)
    /\ Answered
    /\ asked' = FALSE
    /\ reply' = None
    /\ pc' = AfterFree(k)
    /\ Departs
    /\ UNCHANGED <<daemonVars, slot, listening, heard, input, spinning, link>>

\* The client has ended, and the daemon has nothing to do.
Idle ==
    /\ Finished
    /\ UNCHANGED vars

ClientStep ==
    \/ Prepare \/ Subscribe \/ ReadShortcut
    \/ \E k \in Kinds : Create(k) \/ Created(k) \/ SkipFree(k) \/ Free(k) \/ Freed(k)

Next ==
    \/ \E h \in Handles : \/ ServeBridge(h) \/ ServeOther(h) \/ StoreOther(h) \/ Clean(h)
                          \/ BridgeEnds(h) \/ Broken(h) \/ BreakFails(h)
    \/ RefuseBridge \/ StoreBridge \/ ServeDestroy \/ DaemonExits
    \/ LoseLink \/ Kill \/ CallFails
    \/ \E i \in Inputs : Enter(i)
    \/ ClientStep
    \/ HearSignal \/ StreamEnds \/ ReadInput \/ InputFails
    \/ Idle

Spec == Init /\ [][Next]_vars

\* notify is called after the loop has returned; a panic does not get that far.
Reported == ended \ panicked

\* Both processes go on with what they have begun; the table's lock is fair.  The death
\* cleaner withdraws the keyboard bridges it is told of, those whose loop has returned
\* (evdev_bridge.rs:125-131); the disconnection cleaner, what a client that departed with no
\* call under way has left in the table.
Fairness ==
    /\ WF_vars(ClientStep \/ CallFails)
    /\ WF_vars(HearSignal \/ StreamEnds) /\ WF_vars(ReadInput)
    /\ WF_vars(RefuseBridge \/ \E h \in Handles : ServeBridge(h))
    /\ SF_vars(StoreBridge \/ ServeDestroy \/ \E h \in Handles : StoreOther(h))
    /\ WF_vars(\E h \in Handles : (lock = h /\ BridgeEnds(h)) \/ Broken(h) \/ BreakFails(h))
    /\ SF_vars(\E h \in Reported : whose[h] = "keyboard" /\ Clean(h))
    /\ SF_vars(\E h \in Handles : Ours(h) /\ ~Connected /\ ~late /\ Clean(h))

FairSpec == Spec /\ Fairness

\* Bound of an instance: one bridge of another client.
OneOther == \A g, h \in Handles : whose[g] = "other" /\ whose[h] = "other" => g = h

-----------------------------------------------------------------------------
(* Properties.                                                             *)

DaemonTypes ==
    /\ place \in [Handles -> Places]
    /\ ended \subseteq Handles
    /\ whose \in [Handles -> Kinds \cup {"other", None}]
    /\ lock \in Handles \cup {None}
    /\ call \in Calls \cup {None, Abandoned}
    /\ panicked \subseteq ended
    /\ up \in BOOLEAN /\ link \in BOOLEAN /\ late \in BOOLEAN

ClientTypes ==
    /\ pc \in Pcs
    /\ asked \in BOOLEAN /\ listening \in BOOLEAN /\ spinning \in BOOLEAN
    /\ reply \in Replies \cup {None}
    /\ slot \in [Kinds -> Handles \cup {None}]
    /\ heard \in Seq(Handles)
    /\ input \in Inputs \cup {None}

TypeOK == DaemonTypes /\ ClientTypes

\* A client that exits by itself leaves nothing behind, at whatever point its calls
\* failed, its bridges broke or the user had enough: every bridge that was ever made for
\* it has ended and is announced, unless the daemon or the bus was lost on the way
\* (bridge.rs:65-89, main.rs:330-352).
CleanExit ==
    (pc = "done" /\ up /\ link) =>
        \A h \in Handles : Ours(h) => h \in ended /\ place[h] = "announced"

\* The signal that h broke has arrived and is not read yet.
Unread(h) == \E i \in 1 .. Len(heard) : heard[i] = h

\* A broken bridge ends the wait, whether it broke before, while or after its handle was
\* handed out; only a wait for enter that spins never sees it (bridge.rs:96, 119-139,
\* wait_enter.rs:67-80).
BreakIsHeard ==
    (pc = "waiting" /\ \E k \in Kinds : slot[k] # None /\ place[slot[k]] = "announced")
        ~> pc # "waiting" \/ spinning

\* What BreakIsHeard rests on: no break of its own gets past a client that waits.  As long
\* as its connection works, a bridge it holds that was announced, before, while or after
\* its handle was handed out, has its signal still among those to be read
\* (bridge.rs:96, 119-139).
BreakIsUnread ==
    (pc = "waiting" /\ link) => \A k \in Kinds :
        (slot[k] # None /\ place[slot[k]] = "announced") => Unread(slot[k])

\* An escape from the keyboard, or an error that ends its loop, gives the mouse back as
\* well, and whatever else this client had: all of its bridges end up announced, also if
\* it is killed meanwhile; unless it spins, the daemon exits or one of its methods panics,
\* or the client leaves with a call under way (bridge.rs:65-89, 119-139; main.rs:155-208,
\* evdev_bridge.rs:125-131).  A keyboard whose task panicked is reported to nobody, and
\* its client waits on.
EscapeFreesAll ==
    (\E h \in Reported : whose[h] = "keyboard") ~>
        \/ \A g \in Handles : Ours(g) => place[g] = "announced"
        \/ spinning \/ late \/ ~up \/ call = Abandoned

-----------------------------------------------------------------------------
(* The inductive invariant behind CleanExit (see BridgeClientProofs).      *)

\* Nothing was lost so far.
Sound == up /\ link /\ pc # "killed"

\* The daemon's side: a withdrawn bridge is the one the lock is held for.
PlaceInv ==
    /\ \A h \in Handles : place[h] = "unused" <=> whose[h] = None
    /\ \A h \in Handles : place[h] = "announced" => h \in ended
    /\ \A h \in Handles : (up /\ place[h] = "withdrawn") =>
          lock = h \/ call = Abandoned \/ whose[h] = "other"
    /\ lock # None => place[lock] = "withdrawn"

\* One call at a time, for what the client is doing.
OneCall ==
    /\ call # None => asked /\ reply = None
    /\ reply # None => asked
    /\ asked => pc \in Wanted \/ \E k \in Kinds : AtFree(k) /\ slot[k] # None

CallMatches ==
    call # None =>
        /\ call.op = "bridge" => pc = call.kind
        /\ call.op = "store" => pc \in Kinds /\ whose[call.handle] = pc
        /\ call.op \in {"destroy", "withdraw"} =>
              \E k \in Kinds : AtFree(k) /\ call.handle = slot[k]
        /\ call.op = "withdraw" => lock = call.handle

AnswerMatches == \A h \in Handles : reply = [handle |-> h] => pc \in Kinds /\ whose[h] = pc

CallInv == Sound => OneCall /\ CallMatches /\ AnswerMatches

\* The client's slots: filled in order, with handles that were in the table when
\* they were handed out.
SlotInv ==
    /\ pc \in {"prepare", "subscribe", "mouse"} => slot["mouse"] = None
    /\ pc \in {"prepare", "subscribe", "mouse", "shortcut", "keyboard"} => slot["keyboard"] = None
    /\ \A k \in Kinds : slot[k] # None => place[slot[k]] \notin {"unused", "starting"}
    /\ \A h \in Handles : reply = [handle |-> h] => place[h] \notin {"unused", "starting"}

\* A slot that is freed already, or is about to be left, holds nothing any more.
Passed(k) == pc = "done" \/ (k = "keyboard" /\ pc = "free mouse")

FreedInv ==
    Sound => \A k \in Kinds : (AtFree(k) /\ reply # None) =>
                slot[k] # None /\ place[slot[k]] = "announced"

\* Every bridge of the client that is not announced is in one of the slots it has yet to
\* free, or in the call or the answer that will bring it there.
WithinReach(h) ==
    \/ place[h] = "starting" /\ call = [op |-> "store", handle |-> h]
    \/ place[h] # "starting" /\ reply = [handle |-> h]
    \/ place[h] # "starting" /\ slot[whose[h]] = h /\ ~Passed(whose[h])

Accounted ==
    Sound => \A h \in Handles : (Ours(h) /\ place[h] # "announced") => WithinReach(h)

\* The client holds, asks about and hears of its own handles.
OursOnly ==
    /\ \A k \in Kinds : slot[k] # None => Ours(slot[k])
    /\ \A h \in Handles : reply = [handle |-> h] => Ours(h)
    /\ call \in Calls => call.op = "bridge" \/ Ours(call.handle)

\* The client listens before it asks for its first bridge, and keeps every signal about a
\* handle that it holds or is about to be handed, until it waits.
Watching == link /\ pc \in Kinds \cup {"shortcut", "waiting"}

ListenInv ==
    /\ Watching => listening
    /\ Watching => \A k \in Kinds :
          (slot[k] # None /\ place[slot[k]] = "announced") => Unread(slot[k])
    /\ \A h \in Handles : reply = [handle |-> h] =>
          /\ pc \in Kinds \cup {"killed"}
          /\ (link /\ pc \in Kinds /\ place[h] = "announced") => Unread(h)

IInv == TypeOK /\ PlaceInv /\ CallInv /\ SlotInv /\ FreedInv /\ Accounted
=============================================================================
