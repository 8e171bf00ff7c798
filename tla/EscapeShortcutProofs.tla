------------------------- MODULE EscapeShortcutProofs -------------------------
(***************************************************************************)
(* The properties of EscapeShortcut for every keyboard, mapping of keys to *)
(* usages, width of a report's bytes and set of shortcuts.                 *)
(***************************************************************************)
EXTENDS EscapeShortcut, TLAPS

USE DEF Mapped, Wide, Running

-----------------------------------------------------------------------------
(* The state is well typed.                                                *)

LEMMA SharedTyped ==
    ASSUME TypeOK PROVE shared \in Seq(Keys) /\ active \in Seq(Keys)
BY ShortcutsAssumption DEF TypeOK

LEMMA ForwardTyped ==
    ASSUME TypeOK, NEW k \in Keys, NEW usages, Forward(k, usages), Running,
           Mapped(k) /\ ~Wide(k) => usages \subseteq 0 .. Width - 1
    PROVE  remote' \subseteq 0 .. Width - 1 /\ loop' \in {"running", "failed", "panicked"}
BY DEF TypeOK, Forward

LEMMA NarrowUsage ==
    ASSUME NEW k \in Keys, Mapped(k), ~Wide(k) PROVE Usage[k] \in 0 .. Width - 1
BY UsageAssumption, WidthAssumption

LEMMA KeyDownTyped ==
    ASSUME TypeOK, NEW k \in Keys, KeyDown(k) PROVE TypeOK'
<1> USE DEF TypeOK
<1>1. active \in Seq(Keys)
  BY SharedTyped
<1>2. CASE active = <<>> /\ Panic /\ UNCHANGED progress
  BY <1>2 DEF KeyDown, Panic
<1>3. CASE active # <<>> /\ Completes(k) /\ Escape
  <2>1. 0 < Len(active)
    BY <1>1, <1>3
  <2>2. remote' \subseteq remote /\ loop' \in {"escaped", "failed"}
    BY <1>3 DEF Escape
  <2>3. progress' = 0 /\ shared' = shared /\ active' = active /\ held' = held \cup {k}
    BY <1>3 DEF KeyDown, Escape
  <2> QED
    BY <2>1, <2>2, <2>3
<1>4. CASE /\ active # <<>> /\ ~Completes(k)
           /\ progress' = IF Expected(k) THEN progress + 1 ELSE progress
           /\ Forward(k, remote \cup {Usage[k]})
           /\ UNCHANGED <<shared, active>>
  <2>1. Len(active) \in Nat
    BY <1>1
  <2>2. progress' \in Nat /\ progress' < Len(active)
    BY <1>4, <2>1 DEF Completes
  <2>3. remote' \subseteq 0 .. Width - 1 /\ loop' \in {"running", "failed", "panicked"}
    BY <1>4, NarrowUsage, ForwardTyped DEF KeyDown
  <2> QED
    BY <1>4, <2>2, <2>3 DEF KeyDown
<1> QED
  BY <1>2, <1>3, <1>4 DEF KeyDown

LEMMA KeyUpTyped ==
    ASSUME TypeOK, NEW k \in Keys, KeyUp(k) PROVE TypeOK'
<1> USE DEF TypeOK
<1>1. CASE active = <<>> /\ Panic /\ UNCHANGED progress
  BY <1>1 DEF KeyUp, Panic
<1>2. CASE /\ active # <<>>
           /\ progress' = IF Resets(k) THEN 0 ELSE progress
           /\ active' = Reload(progress')
           /\ Forward(k, remote \ {Usage[k]})
           /\ UNCHANGED shared
  <2>1. remote' \subseteq 0 .. Width - 1 /\ loop' \in {"running", "failed", "panicked"}
    BY <1>2, ForwardTyped DEF KeyUp
  <2>2. CASE progress' = 0
    <3>1. active' = shared /\ shared \in Seq(Keys)
      BY <1>2, <2>2, SharedTyped DEF Reload
    <3>2. active' # <<>> => 0 < Len(active')
      BY <3>1
    <3> QED
      BY <1>2, <2>1, <2>2, <3>1, <3>2 DEF KeyUp
  <2>3. CASE progress' # 0
    BY <1>2, <2>1, <2>3 DEF KeyUp, Reload
  <2> QED
    BY <2>2, <2>3
<1> QED
  BY <1>1, <1>2 DEF KeyUp

LEMMA TypeInvariant ==
    ASSUME TypeOK, [Next]_vars PROVE TypeOK'
<1>1. ASSUME NEW keys \in Shortcuts, Update(keys) PROVE TypeOK'
  BY <1>1 DEF TypeOK, Update
<1>2. ASSUME NEW k \in Keys, KeyDown(k) PROVE TypeOK'
  BY <1>2, KeyDownTyped
<1>3. ASSUME NEW k \in Keys, KeyUp(k) PROVE TypeOK'
  BY <1>3, KeyUpTyped
<1>4. ASSUME NEW k \in Keys, Repeat(k) PROVE TypeOK'
  BY <1>4 DEF TypeOK, Repeat, Panic
<1>5. CASE Cancelled
  BY <1>5 DEF TypeOK, Cancelled
<1>6. CASE Fail
  BY <1>6 DEF TypeOK, Fail
<1>7. CASE UNCHANGED vars
  BY <1>7 DEF TypeOK, vars
<1> QED
  BY <1>1, <1>2, <1>3, <1>4, <1>5, <1>6, <1>7 DEF Next

LEMMA InitTyped == Init => TypeOK
<1> SUFFICES ASSUME Init PROVE TypeOK
  OBVIOUS
<1>1. active \in Seq(Keys)
  BY ShortcutsAssumption DEF Init
<1>2. active # <<>> => 0 < Len(active)
  BY <1>1
<1> QED
  BY <1>2 DEF Init, TypeOK

\* The bridge's position in its shortcut is always a position of it, so that it
\* is never indexed out of its bounds (evdev_bridge.rs:82, 94) unless it is empty.
THEOREM TypeCorrect == Spec => []TypeOK
BY InitTyped, TypeInvariant, PTL DEF Spec

-----------------------------------------------------------------------------
(* The keys counted as pressed are down.                                   *)

LEMMA KeyDownKeepsProgressHeld ==
    ASSUME TypeOK, ProgressHeld, NEW k \in Keys, KeyDown(k) PROVE ProgressHeld'
<1> USE DEF TypeOK, ProgressHeld
<1>1. CASE active = <<>> /\ Panic /\ UNCHANGED progress
  BY <1>1 DEF KeyDown, Panic
<1>2. CASE active # <<>> /\ Completes(k) /\ Escape
  BY <1>2 DEF Escape
<1>3. CASE /\ active # <<>> /\ ~Completes(k)
           /\ progress' = IF Expected(k) THEN progress + 1 ELSE progress
           /\ Forward(k, remote \cup {Usage[k]})
           /\ UNCHANGED <<shared, active>>
  BY <1>3 DEF KeyDown, Expected
<1> QED
  BY <1>1, <1>2, <1>3 DEF KeyDown

LEMMA KeyUpKeepsProgressHeld ==
    ASSUME TypeOK, ProgressHeld, NEW k \in Keys, KeyUp(k) PROVE ProgressHeld'
<1> USE DEF TypeOK, ProgressHeld
<1>1. CASE active = <<>>
  BY <1>1 DEF KeyUp, Panic
<1>2. CASE active # <<>> /\ Resets(k)
  BY <1>2 DEF KeyUp
<1>3. CASE active # <<>> /\ ~Resets(k)
  <2>1. \A i \in 1 .. progress : active[i] # k
    BY <1>3 DEF Resets
  <2>2. progress' = progress /\ (progress # 0 => active' = active)
    BY <1>3 DEF KeyUp, Reload
  <2> QED
    BY <2>1, <2>2 DEF KeyUp
<1> QED
  BY <1>1, <1>2, <1>3

LEMMA ProgressHeldInductive ==
    ASSUME TypeOK, ProgressHeld, [Next]_vars PROVE ProgressHeld'
<1>1. ASSUME NEW keys \in Shortcuts, Update(keys) PROVE ProgressHeld'
  BY <1>1 DEF ProgressHeld, Update
<1>2. ASSUME NEW k \in Keys, KeyDown(k) PROVE ProgressHeld'
  BY <1>2, KeyDownKeepsProgressHeld
<1>3. ASSUME NEW k \in Keys, KeyUp(k) PROVE ProgressHeld'
  BY <1>3, KeyUpKeepsProgressHeld
<1>4. ASSUME NEW k \in Keys, Repeat(k) PROVE ProgressHeld'
  BY <1>4 DEF ProgressHeld, Repeat, Panic
<1>5. CASE Cancelled
  BY <1>5 DEF ProgressHeld, Cancelled
<1>6. CASE Fail
  BY <1>6 DEF ProgressHeld, Fail
<1>7. CASE UNCHANGED vars
  BY <1>7 DEF ProgressHeld, vars
<1> QED
  BY <1>1, <1>2, <1>3, <1>4, <1>5, <1>6, <1>7 DEF Next

\* A key that was let go never counts towards the shortcut (evdev_bridge.rs:81-101).
THEOREM ProgressIsHeld == Spec => []ProgressHeld
<1>1. Init => ProgressHeld
  BY DEF Init, ProgressHeld
<1> QED
  BY <1>1, TypeCorrect, ProgressHeldInductive, PTL DEF Spec

-----------------------------------------------------------------------------
(* What an escape needs and leaves behind.                                 *)

LEMMA EscapeStep ==
    ASSUME TypeOK, ProgressHeld, [Next]_vars, loop # "escaped", loop' = "escaped"
    PROVE  \E k \in Keys : KeyDown(k) /\ active # <<>> /\ Completes(k) /\ Escape
<1>1. ASSUME NEW k \in Keys, KeyDown(k)
      PROVE  active # <<>> /\ Completes(k) /\ Escape
  BY <1>1 DEF KeyDown, Panic, Forward
<1>2. ASSUME NEW k \in Keys, KeyUp(k) PROVE FALSE
  BY <1>2 DEF KeyUp, Panic, Forward
<1>3. ASSUME NEW keys \in Shortcuts, Update(keys) PROVE FALSE
  BY <1>3 DEF Update
<1> QED
  BY <1>1, <1>2, <1>3 DEF Next, Repeat, Panic, Cancelled, Fail, vars

\* The loop escapes only while all keys of the shortcut it follows are down
\* (evdev_bridge.rs:82-87, 98-100, 185-191).
THEOREM EscapesWithAllKeys == Spec => EscapeNeedsAllKeys
<1> DEFINE Step == loop' = "escaped" => \A i \in 1 .. Len(active) : active[i] \in held'
<1>1. ASSUME TypeOK, ProgressHeld, [Next]_vars PROVE [Step]_vars
  <2>1. CASE loop # "escaped" /\ loop' = "escaped"
    <3>1. PICK k \in Keys : KeyDown(k) /\ active # <<>> /\ Completes(k) /\ Escape
      BY <1>1, <2>1, EscapeStep
    <3>2. Len(active) = progress + 1 /\ active[progress + 1] = k /\ progress \in Nat
      BY <1>1, <3>1 DEF Completes, Expected, TypeOK
    <3>3. held' = held \cup {k}
      BY <3>1 DEF KeyDown
    <3> QED
      BY <1>1, <3>2, <3>3 DEF ProgressHeld
  <2>2. CASE loop = "escaped"
    BY <1>1, <2>2 DEF Next, Update, KeyDown, KeyUp, Repeat, Cancelled, Fail
  <2> QED
    BY <2>1, <2>2
<1>2. TypeOK /\ ProgressHeld /\ [Next]_vars => [Step]_vars
  BY <1>1
<1> QED
  BY <1>2, TypeCorrect, ProgressIsHeld, PTL DEF Spec, EscapeNeedsAllKeys

LEMMA ByteOfNarrow ==
    ASSUME NEW u \in 0 .. Width - 1 PROVE u % Width = u
BY WidthAssumption

LEMMA EscapeReleases ==
    ASSUME TypeOK, NEW k \in Keys, Escape, loop' = "escaped"
    PROVE  EscapeLetsGo'
<1>1. remote' = remote \ ReleasedByEscape(Len(active)) /\ active' = active
  BY DEF Escape
<1>2. ASSUME NEW i \in 1 .. Len(active), Mapped(active[i])
      PROVE  Usage[active[i]] \notin remote'
  <2>1. active[i] \in Keys
    BY SharedTyped
  <2>2. CASE Wide(active[i])
    BY <1>1, <1>2, <2>1, <2>2, UsageAssumption, WidthAssumption DEF TypeOK
  <2>3. CASE ~Wide(active[i])
    <3>1. Usage[active[i]] % Width = Usage[active[i]]
      BY <1>2, <2>1, <2>3, NarrowUsage, ByteOfNarrow
    <3>2. Usage[active[i]] \in ReleasedByEscape(Len(active))
      BY <1>2, <3>1 DEF ReleasedByEscape
    <3> QED
      BY <1>1, <3>2
  <2> QED
    BY <2>2, <2>3
<1> QED
  BY <1>1, <1>2 DEF EscapeLetsGo

\* An escape leaves none of the shortcut's own keys down on the target
\* (evdev_bridge.rs:186-190).
THEOREM EscapeReleasesItsKeys == Spec => []EscapeLetsGo
<1>1. Init => EscapeLetsGo
  BY DEF Init, EscapeLetsGo
<1>2. ASSUME TypeOK, ProgressHeld, EscapeLetsGo, [Next]_vars PROVE EscapeLetsGo'
  <2>1. CASE loop # "escaped" /\ loop' = "escaped"
    BY <1>2, <2>1, EscapeStep, EscapeReleases
  <2>2. CASE loop' # "escaped"
    BY <2>2 DEF EscapeLetsGo
  <2>3. CASE loop = "escaped"
    <3>1. UNCHANGED vars
      BY <1>2, <2>3 DEF Next, Update, KeyDown, KeyUp, Repeat, Cancelled, Fail
    <3> QED
      BY <1>2, <3>1 DEF EscapeLetsGo, vars
  <2> QED
    BY <2>1, <2>2, <2>3
<1> QED
  BY <1>1, <1>2, TypeCorrect, ProgressIsHeld, PTL DEF Spec

-----------------------------------------------------------------------------
(* What letting go of the keyboard does.                                   *)

LEMMA LastKeyUp ==
    ASSUME [Next]_vars, loop' = "running", held # {}, held' = {}
    PROVE  \E k \in Keys : KeyUp(k) /\ held = {k} /\ active # <<>>
<1>1. ASSUME NEW k \in Keys, KeyUp(k) PROVE held = {k} /\ active # <<>>
  BY <1>1 DEF KeyUp, Panic
<1>2. ASSUME NEW k \in Keys, KeyDown(k) PROVE FALSE
  BY <1>2 DEF KeyDown
<1> QED
  BY <1>1, <1>2 DEF Next, Update, Repeat, Cancelled, Fail, vars

\* Once the user has let go of every key the bridge follows the configured
\* shortcut (evdev_bridge.rs:94-100): ProgressHeld' leaves no progress.
THEOREM IdleIsFresh == Spec => FreshWhenIdle
<1> DEFINE Step == (loop' = "running" /\ held # {} /\ held' = {})
                      => (active' = shared' /\ progress' = 0)
<1>1. ASSUME TypeOK, TypeOK', ProgressHeld', [Next]_vars PROVE [Step]_vars
  <2> SUFFICES ASSUME loop' = "running", held # {}, held' = {}
               PROVE  active' = shared' /\ progress' = 0
    OBVIOUS
  <2>1. PICK k \in Keys : KeyUp(k) /\ active # <<>>
    BY <1>1, LastKeyUp
  <2>2. progress' = 0
    BY <1>1 DEF ProgressHeld, TypeOK
  <2> QED
    BY <2>1, <2>2 DEF KeyUp, Reload
<1>2. TypeOK /\ TypeOK' /\ ProgressHeld' /\ [Next]_vars => [Step]_vars
  BY <1>1
<1> QED
  BY <1>2, TypeCorrect, ProgressIsHeld, PTL DEF Spec, FreshWhenIdle

\* No key is stuck on the target while the bridge runs (evdev_bridge.rs:181-206).
THEOREM NothingStuck == Spec => []RemoteIsHeld
<1>1. Init => RemoteIsHeld
  BY DEF Init, RemoteIsHeld
<1>2. ASSUME TypeOK, RemoteIsHeld, [Next]_vars PROVE RemoteIsHeld'
  <2> USE DEF RemoteIsHeld
  <2>1. ASSUME NEW keys \in Shortcuts, Update(keys) PROVE RemoteIsHeld'
    BY <1>2, <2>1 DEF Update
  <2>2. ASSUME NEW k \in Keys, KeyDown(k) PROVE RemoteIsHeld'
    BY <1>2, <2>2 DEF KeyDown, Panic, Escape, Forward
  <2>3. ASSUME NEW k \in Keys, KeyUp(k) PROVE RemoteIsHeld'
    <3> SUFFICES ASSUME loop' = "running", NEW u \in remote'
                 PROVE  \E j \in held' : Usage[j] = u
      OBVIOUS
    <3>1. Running /\ held' = held \ {k} /\ Forward(k, remote \ {Usage[k]})
      BY <2>3 DEF KeyUp, Panic
    <3>2. CASE ~Mapped(k)
      <4>1. u \in remote
        BY <3>1, <3>2 DEF Forward
      <4>2. PICK j \in held : Usage[j] = u
        BY <1>2, <3>1, <4>1
      <4>3. u # None
        BY <1>2, <4>1, UsageAssumption, WidthAssumption DEF TypeOK
      <4> QED
        BY <3>1, <3>2, <4>2, <4>3
    <3>3. CASE Mapped(k)
      BY <1>2, <3>1, <3>3 DEF Forward
    <3> QED
      BY <3>2, <3>3
  <2>4. ASSUME NEW k \in Keys, Repeat(k) PROVE RemoteIsHeld'
    BY <2>4 DEF Repeat, Panic
  <2>5. CASE Cancelled
    BY <2>5 DEF Cancelled
  <2>6. CASE Fail
    BY <2>6 DEF Fail
  <2>7. CASE UNCHANGED vars
    BY <1>2, <2>7 DEF vars
  <2> QED
    BY <1>2, <2>1, <2>2, <2>3, <2>4, <2>5, <2>6, <2>7 DEF Next
<1> QED
  BY <1>1, <1>2, TypeCorrect, PTL DEF Spec
=============================================================================
