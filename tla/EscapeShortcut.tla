---------------------------- MODULE EscapeShortcut ----------------------------
(***************************************************************************)
(* The loop of a keyboard bridge (evdev_keyboard_bridge) with the shortcut *)
(* that ends it: the user presses and releases keys of the grabbed         *)
(* keyboard, the loop follows the shortcut and forwards the keys to one    *)
(* target, and the Configuration1 property replaces the shared shortcut at *)
(* any time.  LEDs are left out.                                           *)
(***************************************************************************)
EXTENDS Naturals, Sequences

CONSTANTS
    Keys,       \* evdev key codes
    Usage,      \* Usage[k]: USB usage of a key, or None if it has no mapping
    Width,      \* number of usages that fit the report's bytes (256 for u8)
    Shortcuts,  \* the lists of keys the property may be set to
    None

ASSUME WidthAssumption     == Width \in Nat \ {0}
ASSUME UsageAssumption     == Usage \in [Keys -> Nat \cup {None}] /\ None \notin Nat
ASSUME ShortcutsAssumption == Shortcuts \subseteq Seq(Keys)

VARIABLES
    shared,    \* SharedShortcut: the configured shortcut
    active,    \* Shortcut.active: the one this bridge is following
    progress,  \* Shortcut.progress: how many of its keys have been pressed
    loop,      \* "running", or how the loop ended
    held,      \* the keys that are down on the keyboard, in no order
    remote     \* the usages this bridge has down on its target

vars == <<shared, active, progress, loop, held, remote>>

Mapped(k) == Usage[k] # None
Wide(k)   == Mapped(k) /\ Usage[k] >= Width

Running == loop = "running"

\* Keys may be down when the bridge grabs the keyboard: they were not forwarded.
Init ==
    /\ shared \in Shortcuts
    /\ active = shared
    /\ progress = 0
    /\ loop = "running"
    /\ held \in SUBSET Keys
    /\ remote = {}

\* set_keyboard_escape_shortcut.
Update(keys) ==
    /\ Running
    /\ shared' = keys
    /\ UNCHANGED <<active, progress, loop, held, remote>>

\* An empty shortcut is indexed, or a usage does not fit a byte.
Panic ==
    /\ loop' = "panicked"
    /\ UNCHANGED <<shared, active, remote>>

\* Mutant: releases are swallowed.
ForwardPresses(k, usages) ==
    \/ ~Mapped(k) /\ UNCHANGED <<loop, remote>>
    \/ Mapped(k) /\ ~Wide(k) /\ remote' = remote \cup usages /\ UNCHANGED loop
    \/ Mapped(k) /\ ~Wide(k) /\ loop' = "failed" /\ UNCHANGED remote
    \/ Wide(k) /\ loop' = "panicked" /\ UNCHANGED remote

\* The event is sent on, or the HID server is gone; keys without a usage are skipped.
Forward(k, usages) ==
    \/ ~Mapped(k) /\ UNCHANGED <<loop, remote>>
    \/ Mapped(k) /\ ~Wide(k) /\ remote' = usages /\ UNCHANGED loop
    \/ Mapped(k) /\ ~Wide(k) /\ loop' = "failed" /\ UNCHANGED remote
    \/ Wide(k) /\ loop' = "panicked" /\ UNCHANGED remote

-----------------------------------------------------------------------------
(* Shortcut::pressed and what the loop does about it.                      *)

Expected(k)  == active[progress + 1] = k
Completes(k) == Expected(k) /\ progress + 1 = Len(active)

\* Mutant: the escape does not release the keys it took to get there.
ReleasedNone(n) == {}

\* What `keyboard.release(target, code.usb as u8)` asks for, for the first n keys.
ReleasedByEscape(n) ==
    {Usage[active[i]] % Width : i \in {j \in 1 .. n : Mapped(active[j])}}

\* The shortcut's keys are released on the target and the loop ends; it fails
\* instead when the HID server is gone at some release.
Escape ==
    /\ progress' = 0
    /\ \E n \in 0 .. Len(active) :
          /\ remote' = remote \ ReleasedByEscape(n)
          /\ loop' = IF n = Len(active) THEN "escaped" ELSE "failed"
    /\ UNCHANGED <<shared, active>>

KeyDown(k) ==
    /\ Running
    /\ k \notin held
    /\ held' = held \cup {k}
    /\ \/ active = <<>> /\ Panic /\ UNCHANGED progress
       \/ active # <<>> /\ Completes(k) /\ Escape
       \/ /\ active # <<>> /\ ~Completes(k)
          /\ progress' = IF Expected(k) THEN progress + 1 ELSE progress
          /\ Forward(k, remote \cup {Usage[k]})
          /\ UNCHANGED <<shared, active>>

-----------------------------------------------------------------------------
(* Shortcut::released.                                                     *)

\* Mutant: the last key pressed is not looked at.
ResetsTooFew(k) == \E i \in 1 .. progress - 1 : active[i] = k

\* active[..=progress]: the keys pressed so far and the one expected next.
Resets(k) == \E i \in 1 .. progress + 1 : active[i] = k

\* Mutant: a new shortcut is taken over at every release.
ReloadAlways(p) == shared

\* Mutant: a new shortcut is never taken over.
ReloadNever(p) == active

\* A new shortcut is taken over between two attempts only.
Reload(p) == IF p = 0 THEN shared ELSE active

KeyUp(k) ==
    /\ Running
    /\ k \in held
    /\ held' = held \ {k}
    /\ \/ active = <<>> /\ Panic /\ UNCHANGED progress
       \/ /\ active # <<>>
          /\ progress' = IF Resets(k) THEN 0 ELSE progress
          /\ active' = Reload(progress')
          /\ Forward(k, remote \ {Usage[k]})
          /\ UNCHANGED shared

\* Autorepeat does nothing, but its key's usage is still converted to a byte.
Repeat(k) ==
    /\ Running
    /\ k \in held /\ Wide(k)
    /\ Panic
    /\ UNCHANGED <<progress, held>>

\* The canceller fires: the loop ends as it is.
Cancelled ==
    /\ Running
    /\ loop' = "cancelled"
    /\ UNCHANGED <<shared, active, progress, held, remote>>

\* The keyboard is unplugged, or the HID server is gone or too far ahead.
Fail ==
    /\ Running
    /\ loop' = "failed"
    /\ UNCHANGED <<shared, active, progress, held, remote>>

Next ==
    \/ \E keys \in Shortcuts : Update(keys)
    \/ \E k \in Keys : KeyDown(k) \/ KeyUp(k) \/ Repeat(k)
    \/ Cancelled
    \/ Fail

Spec == Init /\ [][Next]_vars

-----------------------------------------------------------------------------
(* Properties.                                                             *)

TypeOK ==
    /\ shared \in Shortcuts
    /\ active \in Shortcuts
    /\ progress \in Nat
    /\ active # <<>> => progress < Len(active)
    /\ active = <<>> => progress = 0
    /\ loop \in {"running", "escaped", "cancelled", "failed", "panicked"}
    /\ held \subseteq Keys
    /\ remote \subseteq 0 .. Width - 1

\* The keys counted as pressed are down: progress never counts a key that was
\* let go, whatever is pressed, released and reconfigured in between
\* (evdev_bridge.rs:81-101).
ProgressHeld == \A i \in 1 .. progress : active[i] \in held

\* The loop escapes only while every key of the shortcut it follows is down:
\* a shortcut replaced half way through cannot be completed with keys of the
\* old one (evdev_bridge.rs:82-87, 98-100, 185-191).
EscapeNeedsAllKeys ==
    [][loop' = "escaped" => \A i \in 1 .. Len(active) : active[i] \in held']_vars

\* Once the user has let go of every key, the bridge follows the shortcut that
\* is configured at that moment: no release leaves it stuck half way through an
\* old one (evdev_bridge.rs:94-100).
FreshWhenIdle ==
    [][(loop' = "running" /\ held # {} /\ held' = {}) => (active' = shared' /\ progress' = 0)]_vars

\* An escape leaves none of the shortcut's own keys down on the target
\* (evdev_bridge.rs:186-190).
EscapeLetsGo ==
    loop = "escaped" => \A i \in 1 .. Len(active) :
        Mapped(active[i]) => Usage[active[i]] \notin remote

\* While the bridge runs, what it has down on the target is down on the keyboard:
\* no sequence of presses, releases and attempts at the shortcut leaves a key
\* stuck (evdev_bridge.rs:181-206).  Nothing of the kind holds once the loop has ended.
RemoteIsHeld == Running => \A u \in remote : \E k \in held : Usage[k] = u

\* README.md:107 "You can use the escape-shortcut to stop keyboard forwarding":
\* pressing its second key while the first is down, and has been forwarded, does.
HeldShortcutEscapes ==
    [][(/\ Len(active) = 2 /\ active = shared
        /\ active[1] \in held /\ Usage[active[1]] \in remote
        /\ active[2] \in held' \ held)
           => loop' # "running"]_vars
=============================================================================
