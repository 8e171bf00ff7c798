-------------------------- MODULE HidKeyboardProofs --------------------------
(***************************************************************************)
(* The safety properties of HidKeyboard for any number of hosts, bridges,  *)
(* keys and slots and any capacity of the channel.                         *)
(***************************************************************************)
EXTENDS HidKeyboard, FiniteSetTheorems, TLAPS

USE DEF Running, Unlocked, IsModifier

Known(h) == devices[h] # None

-----------------------------------------------------------------------------
(* The array of slots.                                                     *)

SlotArrays     == [1 .. Slots -> Keys \cup {None}]
KeySet(keys)   == {keys[i] : i \in DOMAIN keys} \ {None}
Distinct(keys) == \A i, j \in DOMAIN keys : keys[i] = keys[j] /\ keys[i] # None => i = j

LEMMA NoneIsNoKey == None \notin Usages /\ None \notin Hosts /\ None \notin KeyboardStates
BY NoneAssumption

LEMMA SlotHolds ==
    ASSUME NEW keys, NEW u, Holds(keys, u)
    PROVE  Slot(keys, u) \in DOMAIN keys /\ keys[Slot(keys, u)] = u
BY DEF Holds, Slot

LEMMA PressedSlots ==
    ASSUME NEW keys \in SlotArrays, NEW k \in Keys, Distinct(keys)
    PROVE  /\ SlotsAfterPress(keys, k) \in SlotArrays
           /\ Distinct(SlotsAfterPress(keys, k))
           /\ KeySet(SlotsAfterPress(keys, k)) =
                 IF Holds(keys, k) \/ Holds(keys, None) THEN KeySet(keys) \cup {k} ELSE KeySet(keys)
<1> DEFINE after == SlotsAfterPress(keys, k)
<1>0. k # None /\ DOMAIN keys = 1 .. Slots
  BY NoneIsNoKey DEF Usages, SlotArrays
<1>1. CASE Holds(keys, k)
  <2>1. after = keys /\ k \in KeySet(keys)
    BY <1>0, <1>1 DEF SlotsAfterPress, Holds, KeySet
  <2> QED
    BY <1>1, <2>1
<1>2. CASE ~Holds(keys, k) /\ ~Holds(keys, None)
  BY <1>2 DEF SlotsAfterPress
<1>3. CASE ~Holds(keys, k) /\ Holds(keys, None)
  <2> DEFINE s == Slot(keys, None)
  <2>1. s \in 1 .. Slots /\ keys[s] = None
    BY <1>0, <1>3, SlotHolds
  <2>2. after = [keys EXCEPT ![s] = k]
    BY <1>3 DEF SlotsAfterPress
  <2> HIDE DEF s, after
  <2>3. after \in SlotArrays
    BY <2>1, <2>2 DEF SlotArrays
  <2>4. DOMAIN after = 1 .. Slots /\ \A i \in 1 .. Slots : after[i] = IF i = s THEN k ELSE keys[i]
    BY <2>1, <2>2 DEF SlotArrays
  <2>5. \A i \in 1 .. Slots : keys[i] # k
    BY <1>0, <1>3 DEF Holds
  <2>6. Distinct(after)
    BY <1>0, <2>4, <2>5 DEF Distinct
  <2>7. KeySet(after) = KeySet(keys) \cup {k}
    BY <1>0, <2>1, <2>4 DEF KeySet
  <2> QED
    BY <1>3, <2>3, <2>6, <2>7 DEF after
<1> QED
  BY <1>1, <1>2, <1>3

LEMMA ReleasedSlots ==
    ASSUME NEW keys \in SlotArrays, NEW k \in Keys, Distinct(keys)
    PROVE  /\ SlotsAfterRelease(keys, k) \in SlotArrays
           /\ Distinct(SlotsAfterRelease(keys, k))
           /\ KeySet(SlotsAfterRelease(keys, k)) = KeySet(keys) \ {k}
<1> DEFINE after == SlotsAfterRelease(keys, k)
<1>0. k # None /\ DOMAIN keys = 1 .. Slots
  BY NoneIsNoKey DEF Usages, SlotArrays
<1>1. CASE ~Holds(keys, k)
  <2>1. after = keys /\ k \notin KeySet(keys)
    BY <1>1 DEF SlotsAfterRelease, Holds, KeySet
  <2> QED
    BY <2>1
<1>2. CASE Holds(keys, k)
  <2> DEFINE s == Slot(keys, k)
  <2>1. s \in 1 .. Slots /\ keys[s] = k
    BY <1>0, <1>2, SlotHolds
  <2>2. after = [keys EXCEPT ![s] = None]
    BY <1>2 DEF SlotsAfterRelease
  <2> HIDE DEF s, after
  <2>3. after \in SlotArrays
    BY <2>1, <2>2 DEF SlotArrays
  <2>4. DOMAIN after = 1 .. Slots /\ \A i \in 1 .. Slots : after[i] = IF i = s THEN None ELSE keys[i]
    BY <2>1, <2>2 DEF SlotArrays
  <2>5. Distinct(after)
    BY <1>0, <2>4 DEF Distinct
  <2>6. \A i \in 1 .. Slots : keys[i] = k => i = s
    BY <1>0, <2>1 DEF Distinct
  <2>7. KeySet(after) = KeySet(keys) \ {k}
    BY <1>0, <2>1, <2>4, <2>6 DEF KeySet
  <2> QED
    BY <2>3, <2>5, <2>7 DEF after
<1> QED
  BY <1>1, <1>2

\* A slot is free exactly when fewer keys are down than there are slots.
LEMMA RoomForAKey ==
    ASSUME NEW keys \in SlotArrays, Distinct(keys)
    PROVE  Holds(keys, None) <=> Cardinality(KeySet(keys)) < Slots
<1>0. DOMAIN keys = 1 .. Slots /\ Slots \in Nat \ {0}
  BY BoundsAssumption DEF SlotArrays
<1>1. IsFiniteSet(1 .. Slots) /\ Cardinality(1 .. Slots) = Slots
  BY <1>0, FS_Interval
<1> DEFINE image == {keys[i] : i \in 1 .. Slots}
<1>2. keys \in Surjection(1 .. Slots, image)
  BY <1>0 DEF Surjection, SlotArrays
<1>3. /\ IsFiniteSet(image) /\ Cardinality(image) \in Nat /\ Cardinality(image) <= Slots
      /\ Cardinality(image) = Slots <=> keys \in Injection(1 .. Slots, image)
  BY <1>1, <1>2, FS_Surjection, FS_CardinalityType
<1>4. CASE Holds(keys, None)
  <2>1. None \in image
    BY <1>0, <1>4 DEF Holds
  <2>2. Cardinality(image \ {None}) = Cardinality(image) - 1
    BY <1>3, <2>1, FS_RemoveElement
  <2>3. KeySet(keys) = image \ {None}
    BY <1>0 DEF KeySet
  <2> QED
    BY <1>0, <1>3, <1>4, <2>2, <2>3
<1>5. CASE ~Holds(keys, None)
  <2>1. KeySet(keys) = image
    BY <1>0, <1>5 DEF KeySet, Holds
  <2>2. \A i, j \in 1 .. Slots : keys[i] = keys[j] => i = j
    BY <1>0, <1>5 DEF Distinct, Holds
  <2>3. keys \in Injection(1 .. Slots, image)
    BY <1>2, <2>2 DEF Surjection, Injection, IsInjective
  <2> QED
    BY <1>0, <1>3, <1>5, <2>1, <2>3
<1> QED
  BY <1>4, <1>5

-----------------------------------------------------------------------------
(* The table of devices, apart from key events.                            *)

DistinctKeys == \A h \in Hosts : Known(h) => Distinct(devices[h].keys)

\* A record with the keys and modifiers of another one, or with none down.
Keeps(d, e) == d.keys = e.keys /\ d.modifiers = e.modifiers

LEMMA DefaultTyped ==
    DefaultState \in KeyboardStates /\ KeySet(DefaultState.keys) = {}
    /\ Distinct(DefaultState.keys) /\ DefaultState.modifiers = {}
BY DEF DefaultState, KeyboardStates, KeySet, Distinct, Writers, Protocols

LEMMA AcquiredTyped ==
    ASSUME TypeOK, NEW h \in Hosts
    PROVE  Acquired(h) \in KeyboardStates
BY DefaultTyped DEF TypeOK, Acquired

LEMMA WithWriter ==
    ASSUME NEW d \in KeyboardStates, NEW p \in Protocols, NEW w \in Writers
    PROVE  /\ [d EXCEPT !.writer[p] = w] \in KeyboardStates
           /\ Keeps([d EXCEPT !.writer[p] = w], d)
           /\ [d EXCEPT !.writer[p] = w].protocol = d.protocol
           /\ [d EXCEPT !.writer[p] = w].writer = [d.writer EXCEPT ![p] = w]
BY DEF KeyboardStates, Keeps

LEMMA WithProtocol ==
    ASSUME NEW d \in KeyboardStates, NEW p \in Protocols
    PROVE  /\ [d EXCEPT !.protocol = p] \in KeyboardStates
           /\ Keeps([d EXCEPT !.protocol = p], d)
BY DEF KeyboardStates, Keeps

LEMMA ClosedTyped == ASSUME NEW w \in Writers PROVE Closed(w) \in Writers
BY DEF Closed, Writers

LEMMA WriterTyped ==
    ASSUME TypeOK, NEW h \in Hosts, NEW p \in Protocols
    PROVE  notify[p][h] \in Writers /\ (Known(h) => devices[h].writer[p] \in Writers)
BY DEF TypeOK, Known, KeyboardStates

\* What a key event does to the device it is for.
Served(d, e) == IF e.op = "press" THEN AfterPress(d, e.key) ELSE AfterRelease(d, e.key)

LEMMA ServedTyped ==
    ASSUME NEW d \in KeyboardStates, NEW e \in Events, Distinct(d.keys)
    PROVE  /\ Served(d, e) \in KeyboardStates
           /\ Distinct(Served(d, e).keys)
           /\ Served(d, e).writer = d.writer /\ Served(d, e).protocol = d.protocol
<1>0. d.keys \in SlotArrays /\ d.modifiers \in SUBSET Modifiers
  BY DEF KeyboardStates, SlotArrays
<1>1. CASE e.key \in Modifiers
  BY <1>0, <1>1 DEF Served, AfterPress, AfterRelease, KeyboardStates
<1>2. CASE e.key \notin Modifiers
  <2>1. e.key \in Keys
    BY <1>2 DEF Events, Usages
  <2>2. /\ SlotsAfterPress(d.keys, e.key) \in SlotArrays
        /\ SlotsAfterRelease(d.keys, e.key) \in SlotArrays
        /\ Distinct(SlotsAfterPress(d.keys, e.key))
        /\ Distinct(SlotsAfterRelease(d.keys, e.key))
    BY <1>0, <2>1, PressedSlots, ReleasedSlots
  <2>3. CASE e.op = "press"
    <3>1. Served(d, e) = [d EXCEPT !.keys = SlotsAfterPress(d.keys, e.key)]
      BY <1>2, <2>3 DEF Served, AfterPress, KeyboardStates
    <3> QED
      BY <2>2, <3>1 DEF KeyboardStates, SlotArrays
  <2>4. CASE e.op # "press"
    <3>1. Served(d, e) = [d EXCEPT !.keys = SlotsAfterRelease(d.keys, e.key)]
      BY <1>2, <2>4 DEF Served, AfterRelease, KeyboardStates
    <3> QED
      BY <2>2, <3>1 DEF KeyboardStates, SlotArrays
  <2> QED
    BY <2>3, <2>4
<1> QED
  BY <1>1, <1>2

\* The keys that are down after a key event.
DownAfter(d, e) ==
    IF e.op = "release" THEN DownOf(d) \ {e.key}
    ELSE IF e.key \in Modifiers \/ Holds(d.keys, e.key) \/ Holds(d.keys, None)
         THEN DownOf(d) \cup {e.key} ELSE DownOf(d)

LEMMA DownIsUnion == ASSUME NEW d PROVE DownOf(d) = KeySet(d.keys) \cup d.modifiers
BY DEF DownOf, Report, KeySet

LEMMA ServedDown ==
    ASSUME NEW d \in KeyboardStates, NEW e \in Events, Distinct(d.keys)
    PROVE  DownOf(Served(d, e)) = DownAfter(d, e)
<1>0. d.keys \in SlotArrays /\ d.modifiers \subseteq Modifiers /\ KeySet(d.keys) \subseteq Keys
  BY DEF KeyboardStates, SlotArrays, KeySet
<1>1. e.op \in {"press", "release"} /\ Keys \cap Modifiers = {}
  BY KeysAssumption DEF Events
<1>2. CASE e.key \in Modifiers
  <2>1. Served(d, e).keys = d.keys
    BY <1>2 DEF Served, AfterPress, AfterRelease, KeyboardStates
  <2>2. Served(d, e).modifiers = IF e.op = "press" THEN d.modifiers \cup {e.key}
                                                   ELSE d.modifiers \ {e.key}
    BY <1>2 DEF Served, AfterPress, AfterRelease, KeyboardStates
  <2>3. e.key \notin KeySet(d.keys)
    BY <1>0, <1>1, <1>2
  <2> QED
    BY <1>1, <1>2, <2>1, <2>2, <2>3, DownIsUnion DEF DownAfter
<1>3. CASE e.key \notin Modifiers
  <2>1. e.key \in Keys /\ e.key \notin d.modifiers
    BY <1>0, <1>3 DEF Events, Usages
  <2>2. Served(d, e).modifiers = d.modifiers
    BY <1>3 DEF Served, AfterPress, AfterRelease, KeyboardStates
  <2>3. CASE e.op = "press"
    <3>1. Served(d, e).keys = SlotsAfterPress(d.keys, e.key)
      BY <1>3, <2>3 DEF Served, AfterPress, KeyboardStates
    <3> QED
      BY <1>0, <1>3, <2>1, <2>2, <2>3, <3>1, PressedSlots, DownIsUnion DEF DownAfter
  <2>4. CASE e.op = "release"
    <3>1. Served(d, e).keys = SlotsAfterRelease(d.keys, e.key)
      BY <1>3, <2>4 DEF Served, AfterRelease, KeyboardStates
    <3>2. KeySet(Served(d, e).keys) = KeySet(d.keys) \ {e.key}
      BY <1>0, <2>1, <3>1, ReleasedSlots
    <3> QED
      BY <2>1, <2>2, <2>4, <3>2, DownIsUnion DEF DownAfter
  <2> QED
    BY <1>1, <2>3, <2>4
<1> QED
  BY <1>2, <1>3

-----------------------------------------------------------------------------
(* Types, and what a step that serves no key does to the devices.          *)

\* The device keeps its keys, or is new, or is forgotten.
KeysKept(h) ==
    \/ devices'[h] = None
    \/ Known(h) /\ Keeps(devices'[h], devices[h])
    \/ ~Known(h) /\ Keeps(devices'[h], DefaultState)

LEMMA AcquiredKeeps ==
    ASSUME NEW h \in Hosts, NEW d, Keeps(d, Acquired(h)), devices'[h] = d PROVE KeysKept(h)
BY DEF KeysKept, Acquired, Known, Keeps

LEMMA SameDevices ==
    ASSUME UNCHANGED devices PROVE \A h \in Hosts : KeysKept(h)
BY DEF KeysKept, Known, Keeps

LEMMA BridgeStep ==
    ASSUME TypeOK, NEW b \in Bridges,
           End(b) \/ \E k \in Usages : Press(b, k) \/ Release(b, k)
    PROVE  TypeOK' /\ UNCHANGED devices
<1>0. Target[b] \in Hosts
  BY TargetAssumption
<1>1. CASE End(b)
  BY <1>0, <1>1 DEF End, TypeOK
<1>2. ASSUME NEW op \in {"press", "release"}, NEW k \in Usages, Enqueue(op, Target[b], k)
      PROVE  queue' \in Seq(Events) /\ Len(queue') <= QueueCap
  <2>1. [op |-> op, host |-> Target[b], key |-> k] \in Events
    BY <1>0 DEF Events
  <2> QED
    BY <1>2, <2>1, BoundsAssumption DEF Enqueue, TypeOK
<1>3. ASSUME NEW k \in Usages, Press(b, k) PROVE TypeOK' /\ UNCHANGED devices
  BY <1>2, <1>3 DEF Press, TypeOK
<1>4. ASSUME NEW k \in Usages, Release(b, k) PROVE TypeOK' /\ UNCHANGED devices
  BY <1>0, <1>2, <1>4 DEF Release, TypeOK
<1> QED
  BY <1>1, <1>3, <1>4 DEF End

LEMMA ProtocolStep ==
    ASSUME TypeOK, NEW h \in Hosts, NEW p \in Protocols, WriteProtocol(h, p)
    PROVE  TypeOK' /\ \A g \in Hosts : KeysKept(g)
<1> DEFINE d == [Acquired(h) EXCEPT !.protocol = p]
<1>1. d \in KeyboardStates /\ Keeps(d, Acquired(h)) /\ d # None
  BY AcquiredTyped, WithProtocol, NoneIsNoKey
<1>2. devices' = [devices EXCEPT ![h] = d]
  BY DEF WriteProtocol
<1> HIDE DEF d
<1>3. devices'[h] = d /\ devices' \in [Hosts -> KeyboardStates \cup {None}]
  BY <1>1, <1>2 DEF TypeOK
<1>4. TypeOK'
  BY <1>3 DEF TypeOK, WriteProtocol
<1>5. KeysKept(h)
  BY <1>1, <1>3, AcquiredKeeps
<1>6. ASSUME NEW g \in Hosts, g # h PROVE KeysKept(g)
  BY <1>2, <1>6 DEF KeysKept, Known, Keeps, TypeOK
<1> QED
  BY <1>4, <1>5, <1>6

LEMMA LedsStep ==
    ASSUME TypeOK, NEW h \in Hosts, WriteLeds(h)
    PROVE  TypeOK' /\ \A g \in Hosts : KeysKept(g)
<1>1. Acquired(h) \in KeyboardStates /\ devices' = [devices EXCEPT ![h] = Acquired(h)]
  BY AcquiredTyped DEF WriteLeds
<1>2. devices'[h] = Acquired(h) /\ devices' \in [Hosts -> KeyboardStates \cup {None}]
  BY <1>1 DEF TypeOK
<1>3. TypeOK'
  BY <1>2 DEF TypeOK, WriteLeds
<1>4. KeysKept(h)
  BY <1>2, AcquiredKeeps DEF Keeps
<1>5. ASSUME NEW g \in Hosts, g # h PROVE KeysKept(g)
  BY <1>1, <1>5 DEF KeysKept, Known, Keeps, TypeOK
<1> QED
  BY <1>3, <1>4, <1>5

LEMMA WriterStep ==
    ASSUME TypeOK, NEW h \in Hosts, NEW p \in Protocols, TakeWriter(h, p)
    PROVE  TypeOK' /\ \A g \in Hosts : KeysKept(g)
<1> DEFINE d == [Acquired(h) EXCEPT !.writer[p] = notify[p][h]]
<1>1. d \in KeyboardStates /\ Keeps(d, Acquired(h))
  BY AcquiredTyped, WriterTyped, WithWriter
<1>2. devices' = [devices EXCEPT ![h] = d]
  BY DEF TakeWriter
<1> HIDE DEF d
<1>3. devices'[h] = d /\ devices' \in [Hosts -> KeyboardStates \cup {None}]
  BY <1>1, <1>2 DEF TypeOK
<1>4. notify' \in [Protocols -> [Hosts -> Writers]]
  BY DEF TakeWriter, TypeOK, Writers
<1>5. TypeOK'
  BY <1>3, <1>4 DEF TypeOK, TakeWriter
<1>6. KeysKept(h)
  BY <1>1, <1>3, AcquiredKeeps
<1>7. ASSUME NEW g \in Hosts, g # h PROVE KeysKept(g)
  BY <1>2, <1>7 DEF KeysKept, Known, Keeps, TypeOK
<1> QED
  BY <1>5, <1>6, <1>7

LEMMA UnsubscribeStep ==
    ASSUME TypeOK, NEW h \in Hosts, NEW p \in Protocols, Unsubscribe(h, p)
    PROVE  TypeOK' /\ \A g \in Hosts : KeysKept(g)
<1>1. notify' \in [Protocols -> [Hosts -> Writers]]
  <2>1. Closed(notify[p][h]) \in Writers
    BY WriterTyped, ClosedTyped
  <2> QED
    BY <2>1 DEF Unsubscribe, TypeOK
<1>2. CASE ~Known(h)
  <2>1. UNCHANGED devices
    BY <1>2 DEF Unsubscribe, Known
  <2> QED
    BY <1>1, <2>1, SameDevices DEF Unsubscribe, TypeOK
<1>3. CASE Known(h)
  <2> DEFINE d == [devices[h] EXCEPT !.writer[p] = Closed(devices[h].writer[p])]
  <2>1. devices[h] \in KeyboardStates /\ Closed(devices[h].writer[p]) \in Writers
    BY <1>3, WriterTyped, ClosedTyped DEF TypeOK, Known
  <2>2. d \in KeyboardStates /\ Keeps(d, devices[h]) /\ d # None
    BY <2>1, WithWriter, NoneIsNoKey
  <2>3. devices' = [devices EXCEPT ![h] = d]
    BY <1>3, <2>1 DEF Unsubscribe, Known
  <2> HIDE DEF d
  <2>4. devices'[h] = d /\ devices' \in [Hosts -> KeyboardStates \cup {None}]
    BY <2>2, <2>3 DEF TypeOK
  <2>5. sending' # None => devices'[sending'] # None
    BY <2>2, <2>3, <2>4 DEF TypeOK, Unsubscribe
  <2>6. TypeOK'
    BY <1>1, <2>4, <2>5 DEF TypeOK, Unsubscribe
  <2>7. KeysKept(h)
    BY <1>3, <2>2, <2>4 DEF KeysKept
  <2>8. ASSUME NEW g \in Hosts, g # h PROVE KeysKept(g)
    BY <2>3, <2>8 DEF KeysKept, Known, Keeps, TypeOK
  <2> QED
    BY <2>6, <2>7, <2>8
<1> QED
  BY <1>2, <1>3

LEMMA ReportTyped ==
    ASSUME NEW d \in KeyboardStates
    PROVE  Report(d) \in [keys : SUBSET Keys, modifiers : SUBSET Modifiers]
BY DEF KeyboardStates, Report

LEMMA SendStep ==
    ASSUME TypeOK, SendReport PROVE TypeOK' /\ \A g \in Hosts : KeysKept(g)
<1>1. sending \in Hosts /\ devices[sending] \in KeyboardStates
  BY DEF SendReport, TypeOK
<1>2. Report(devices[sending]) \in [keys : SUBSET Keys, modifiers : SUBSET Modifiers]
  BY <1>1, ReportTyped
<1>3. seen' \in [Hosts -> [keys : SUBSET Keys, modifiers : SUBSET Modifiers] \cup {None}]
  BY <1>1, <1>2 DEF SendReport, TypeOK
<1>4. UNCHANGED devices
  BY DEF SendReport
<1>5. TypeOK'
  BY <1>1, <1>3, <1>4 DEF SendReport, TypeOK
<1> QED
  BY <1>4, <1>5, SameDevices

LEMMA HostStep ==
    ASSUME TypeOK, NEW h \in Hosts,
           \/ RemoveDevice(h) \/ TakeRemoval(h) \/ \E p \in Protocols : Subscribe(h, p)
    PROVE  TypeOK' /\ \A g \in Hosts : KeysKept(g)
<1>1. CASE RemoveDevice(h)
  BY <1>1, SameDevices DEF RemoveDevice, TypeOK
<1>2. CASE TakeRemoval(h)
  BY <1>2 DEF TakeRemoval, TypeOK, KeysKept, Known, Keeps
<1>3. ASSUME NEW p \in Protocols, Subscribe(h, p) PROVE TypeOK' /\ \A g \in Hosts : KeysKept(g)
  BY <1>3, SameDevices DEF Subscribe, TypeOK, Writers
<1> QED
  BY <1>1, <1>2, <1>3

LEMMA OtherStep ==
    ASSUME TypeOK, [Next]_vars, ~ServeKey
    PROVE  TypeOK' /\ \A g \in Hosts : KeysKept(g)
<1>1. CASE UNCHANGED vars
  BY <1>1, SameDevices DEF vars, TypeOK
<1> QED
  BY <1>1, BridgeStep, SameDevices, ProtocolStep, LedsStep, WriterStep, UnsubscribeStep, SendStep, HostStep
  DEF Next

\* The event served, and the device it is for.
LEMMA ServeStep ==
    ASSUME TypeOK, DistinctKeys, ServeKey
    PROVE  /\ Head(queue) \in Events /\ queue # <<>> /\ queue' = Tail(queue)
           /\ queue' \in Seq(Events) /\ Len(queue') = Len(queue) - 1
           /\ \A i \in 1 .. Len(queue') : queue'[i] = queue[i + 1]
           /\ devices' = IF Known(Head(queue).host)
                         THEN [devices EXCEPT ![Head(queue).host] =
                                 Served(devices[Head(queue).host], Head(queue))]
                         ELSE devices
           /\ Known(Head(queue).host) =>
                 Served(devices[Head(queue).host], Head(queue)) \in KeyboardStates
<1>1. Head(queue) \in Events /\ queue # <<>> /\ queue' = Tail(queue) /\ queue \in Seq(Events)
  BY DEF ServeKey, TypeOK
<1>2. queue' \in Seq(Events) /\ Len(queue') = Len(queue) - 1
      /\ \A i \in 1 .. Len(queue') : queue'[i] = queue[i + 1]
  BY <1>1
<1>3. Head(queue).host \in Hosts
  BY <1>1 DEF Events
<1>4. devices' = IF Known(Head(queue).host)
                 THEN [devices EXCEPT ![Head(queue).host] =
                         Served(devices[Head(queue).host], Head(queue))]
                 ELSE devices
  BY DEF ServeKey, Known, Served
<1>5. Known(Head(queue).host) => Served(devices[Head(queue).host], Head(queue)) \in KeyboardStates
  BY <1>1, <1>3, ServedTyped DEF TypeOK, Known, DistinctKeys
<1> QED
  BY <1>1, <1>2, <1>4, <1>5

-----------------------------------------------------------------------------
(* Types and distinct slots.                                               *)

SlotInv == TypeOK /\ DistinctKeys

LEMMA SlotInvInit == Init => SlotInv
BY BoundsAssumption, NoneIsNoKey DEF Init, SlotInv, TypeOK, DistinctKeys, Known, Writers

LEMMA SlotInvStep == ASSUME SlotInv, [Next]_vars PROVE SlotInv'
<1> USE DEF SlotInv
<1>1. CASE ServeKey
  <2> DEFINE e == Head(queue)
             d == devices[Head(queue).host]
  <2>1. /\ e \in Events /\ queue' \in Seq(Events) /\ Len(queue') = Len(queue) - 1
        /\ devices' = IF Known(e.host) THEN [devices EXCEPT ![e.host] = Served(d, e)] ELSE devices
        /\ Known(e.host) => Served(d, e) \in KeyboardStates
    BY <1>1, ServeStep
  <2>2. e.host \in Hosts /\ Len(queue) \in Nat /\ Len(queue) <= QueueCap
    BY <2>1 DEF Events, TypeOK
  <2>3. devices' \in [Hosts -> KeyboardStates \cup {None}]
    BY <2>1, <2>2 DEF TypeOK
  <2>4. sending' \in {e.host, None} /\ (sending' # None => Known(e.host))
    BY <1>1 DEF ServeKey, Known
  <2>5. sending' \in Hosts \cup {None} /\ (sending' # None => devices'[sending'] # None)
    BY <2>1, <2>2, <2>4, NoneIsNoKey DEF TypeOK
  <2>6. Len(queue') <= QueueCap
    BY <2>1, <2>2, BoundsAssumption
  <2>7. TypeOK'
    BY <1>1, <2>1, <2>3, <2>5, <2>6 DEF TypeOK, ServeKey
  <2>8. Known(e.host) => Distinct(Served(d, e).keys)
    BY <2>1, <2>2, ServedTyped DEF TypeOK, Known, DistinctKeys
  <2>9. DistinctKeys'
    BY <2>1, <2>2, <2>8 DEF DistinctKeys, Known, TypeOK
  <2> QED
    BY <2>7, <2>9
<1>2. CASE ~ServeKey
  <2>1. TypeOK' /\ \A g \in Hosts : KeysKept(g)
    BY <1>2, OtherStep
  <2>2. DistinctKeys'
    BY <2>1, DefaultTyped DEF DistinctKeys, Known, KeysKept, Keeps
  <2> QED
    BY <2>1, <2>2
<1> QED
  BY <1>1, <1>2

\* The table, the channel, what is being sent and what the hosts have seen are well
\* typed; a report is only ever being sent to a device in the table.
THEOREM TypeCorrect == Spec => []TypeOK
<1>1. Spec => []SlotInv
  BY SlotInvInit, SlotInvStep, PTL DEF Spec
<1> QED
  BY <1>1, PTL DEF SlotInv

\* No key is in two slots: one release takes it away.
THEOREM SlotsDistinct == Spec => []SlotInv
BY SlotInvInit, SlotInvStep, PTL DEF Spec

-----------------------------------------------------------------------------
(* The slots behave as a set.                                              *)

\* What a key event does to the keys that are down, for any number of slots.
LEMMA ServeDown ==
    ASSUME SlotInv, ServeKey, NEW h \in Hosts, h = Head(queue).host, Known(h)
    PROVE  Down(h)' = DownAfter(devices[h], Head(queue))
<1> DEFINE e == Head(queue)
           d == devices[h]
<1>1. e \in Events /\ d \in KeyboardStates /\ Distinct(d.keys)
  <2>1. e \in Events
    BY ServeStep DEF SlotInv
  <2> QED
    BY <2>1 DEF SlotInv, TypeOK, DistinctKeys, Known
<1>2. Served(d, e) \in KeyboardStates /\ devices' = [devices EXCEPT ![h] = Served(d, e)]
  BY ServeStep DEF SlotInv
<1>3. devices'[h] = Served(d, e) /\ Served(d, e) # None
  BY <1>1, <1>2, NoneIsNoKey DEF SlotInv, TypeOK
<1>4. Down(h)' = DownOf(Served(d, e))
  BY <1>3 DEF Down, DownOf, Report
<1> QED
  BY <1>1, <1>4, ServedDown

LEMMA OneMoreIsNotOneLess == ASSUME NEW n \in Nat PROVE n + 1 # n - 1
OBVIOUS

LEMMA TailIsServe ==
    ASSUME TypeOK, [Next]_vars, queue # <<>>, queue' = Tail(queue) PROVE ServeKey
<1>1. Len(queue') # Len(queue) /\ Len(queue) \in Nat /\ Len(queue') = Len(queue) - 1
  BY DEF TypeOK
<1>2. ASSUME NEW op, NEW h, NEW k PROVE ~Enqueue(op, h, k)
  <2>1. Len(Append(queue, [op |-> op, host |-> h, key |-> k])) = Len(queue) + 1
    BY DEF TypeOK
  <2>2. Len(queue) + 1 # Len(queue) - 1
    BY <1>1, OneMoreIsNotOneLess, Zenon
  <2> QED
    BY <1>1, <2>1, <2>2 DEF Enqueue
<1> QED
  BY <1>1, <1>2 DEF Next, vars, End, Press, Release, WriteLeds, RemoveDevice, TakeRemoval,
     Subscribe, Unsubscribe, WriteProtocol, TakeWriter, SendReport

\* A press adds its key unless as many others are down as there are slots, a release
\* takes it away, and no other key is disturbed (keyboard/mod.rs:362-390).
THEOREM SlotsBehaveAsASet == Spec => SlotsAreASet
<1> DEFINE Room(h, k) == IsModifier(k) \/ Cardinality(Down(h) \ Modifiers) < Slots
           Step == \A h \in Hosts :
               (queue # <<>> /\ queue' = Tail(queue) /\ Head(queue).host = h /\ devices[h] # None) =>
                  Down(h)' = LET e    == Head(queue)
                                 room == IsModifier(e.key) \/ Cardinality(Down(h) \ Modifiers) < Slots
                             IN  IF e.op = "release" THEN Down(h) \ {e.key}
                                 ELSE IF room THEN Down(h) \cup {e.key} ELSE Down(h)
<1>1. ASSUME SlotInv, [Next]_vars PROVE [Step]_vars
  <2> SUFFICES ASSUME NEW h \in Hosts, queue # <<>>, queue' = Tail(queue),
                      Head(queue).host = h, devices[h] # None
               PROVE  Down(h)' = IF Head(queue).op = "release" THEN Down(h) \ {Head(queue).key}
                                 ELSE IF Room(h, Head(queue).key) THEN Down(h) \cup {Head(queue).key}
                                 ELSE Down(h)
    OBVIOUS
  <2> DEFINE e == Head(queue)
             d == devices[h]
  <2>1. ServeKey
    BY <1>1, TailIsServe DEF SlotInv
  <2>2. Down(h)' = DownAfter(d, e) /\ Down(h) = DownOf(d)
    BY <1>1, <2>1, ServeDown DEF Known, Down
  <2>3. d \in KeyboardStates /\ Distinct(d.keys)
    BY <1>1 DEF SlotInv, TypeOK, DistinctKeys, Known
  <2>4. d.keys \in SlotArrays /\ d.modifiers \subseteq Modifiers /\ KeySet(d.keys) \subseteq Keys
    BY <2>3 DEF KeyboardStates, SlotArrays, KeySet
  <2>5. Down(h) \ Modifiers = KeySet(d.keys)
    BY <2>2, <2>4, DownIsUnion, KeysAssumption
  <2>6. Holds(d.keys, None) <=> Cardinality(Down(h) \ Modifiers) < Slots
    BY <2>3, <2>4, <2>5, RoomForAKey
  <2>7. e \in Events
    BY <1>1, <2>1, ServeStep DEF SlotInv
  <2>8. Holds(d.keys, e.key) => e.key \in Down(h)
    <3>1. e.key # None
      BY <2>7, NoneIsNoKey DEF Events
    <3> QED
      BY <2>2, <3>1, DownIsUnion DEF Holds, KeySet
  <2> QED
    BY <2>2, <2>6, <2>7, <2>8 DEF DownAfter, Events
<1>2. SlotInv /\ [Next]_vars => [Step]_vars
  BY <1>1
<1> QED
  BY <1>2, SlotsDistinct, PTL DEF Spec, SlotsAreASet

-----------------------------------------------------------------------------
(* No key gets stuck.                                                      *)

Ev(op, h, k) == [op |-> op, host |-> h, key |-> k]

Owned(h, k) == (\E b \in Bridges : Target[b] = h /\ k \in pressed[b]) \/ k \in orphans[h]

\* Somebody answers for key k once the first n events have been served.
Safe(h, k, n) ==
    Owned(h, k) \/ \E i \in 1 .. Len(queue) : i > n /\ queue[i] = Ev("release", h, k)

DownIsSafe   == \A h \in Hosts, k \in Usages : k \in Down(h) => Safe(h, k, 0)
QueuedIsSafe == \A h \in Hosts, k \in Usages : \A i \in 1 .. Len(queue) :
                    queue[i] = Ev("press", h, k) => Safe(h, k, i)

StuckInv == SlotInv /\ DownIsSafe /\ QueuedIsSafe

LEMMA EnqueueAppends ==
    ASSUME TypeOK, NEW op \in {"press", "release"}, NEW h \in Hosts, NEW k \in Usages,
           Enqueue(op, h, k)
    PROVE  /\ Len(queue) \in Nat /\ Len(queue') = Len(queue) + 1
           /\ \A i \in 1 .. Len(queue) : queue'[i] = queue[i]
           /\ queue'[Len(queue) + 1] = Ev(op, h, k)
BY DEF Enqueue, TypeOK, Ev

\* What a bridge does takes no key from everybody who answers for it.
LEMMA BridgeKeepsSafe ==
    ASSUME TypeOK, NEW b \in Bridges,
           End(b) \/ \E k \in Usages : Press(b, k) \/ Release(b, k),
           NEW h \in Hosts, NEW u \in Usages, NEW n \in Nat, n <= Len(queue), Safe(h, u, n)
    PROVE  Safe(h, u, n)'
<1>0. Target[b] \in Hosts
  BY TargetAssumption
<1>1. CASE End(b)
  <2>1. Owned(h, u) => Owned(h, u)'
    BY <1>0, <1>1 DEF End, Owned, TypeOK
  <2>2. UNCHANGED queue
    BY <1>1 DEF End
  <2> QED
    BY <2>1, <2>2 DEF Safe
<1>2. ASSUME NEW k \in Usages, Press(b, k) PROVE Safe(h, u, n)'
  <2>1. Owned(h, u) => Owned(h, u)'
    BY <1>2 DEF Press, Owned, TypeOK
  <2>2. \A i \in 1 .. Len(queue) : i \in 1 .. Len(queue') /\ queue'[i] = queue[i]
    BY <1>0, <1>2, EnqueueAppends DEF Press
  <2> QED
    BY <2>1, <2>2 DEF Safe
<1>3. ASSUME NEW k \in Usages, Release(b, k) PROVE Safe(h, u, n)'
  <2>0. /\ Len(queue) \in Nat /\ Len(queue') = Len(queue) + 1
        /\ \A i \in 1 .. Len(queue) : queue'[i] = queue[i]
        /\ queue'[Len(queue) + 1] = Ev("release", Target[b], k)
    BY <1>0, <1>3, EnqueueAppends DEF Release
  <2>1. CASE h = Target[b] /\ u = k
    <3>1. Len(queue) + 1 \in 1 .. Len(queue') /\ Len(queue) + 1 > n
      BY <2>0
    <3> QED
      BY <2>0, <2>1, <3>1 DEF Safe
  <2>2. CASE ~(h = Target[b] /\ u = k)
    <3>1. Owned(h, u) => Owned(h, u)'
      BY <1>3, <2>2 DEF Release, Owned, TypeOK
    <3>2. \A i \in 1 .. Len(queue) : i \in 1 .. Len(queue') /\ queue'[i] = queue[i]
      BY <2>0
    <3> QED
      BY <3>1, <3>2 DEF Safe
  <2> QED
    BY <2>1, <2>2
<1> QED
  BY <1>1, <1>2, <1>3

\* A press that a bridge sends is of a key it holds.
LEMMA BridgeQueuesSafe ==
    ASSUME TypeOK, QueuedIsSafe, NEW b \in Bridges,
           End(b) \/ \E k \in Usages : Press(b, k) \/ Release(b, k)
    PROVE  QueuedIsSafe'
<1> SUFFICES ASSUME NEW h \in Hosts, NEW u \in Usages, NEW i \in 1 .. Len(queue'),
                    queue'[i] = Ev("press", h, u)
             PROVE  Safe(h, u, i)'
  BY DEF QueuedIsSafe
<1>0. Target[b] \in Hosts /\ Len(queue) \in Nat
  BY TargetAssumption DEF TypeOK
<1>1. CASE i \in 1 .. Len(queue) /\ queue'[i] = queue[i]
  <2>1. Safe(h, u, i)
    BY <1>1 DEF QueuedIsSafe
  <2>2. i \in Nat /\ i <= Len(queue)
    BY <1>0, <1>1
  <2> QED
    BY <2>1, <2>2, BridgeKeepsSafe
<1>2. CASE End(b)
  <2>1. UNCHANGED queue
    BY <1>2 DEF End
  <2> QED
    BY <1>1, <2>1
<1>3. ASSUME NEW k \in Usages, Press(b, k) PROVE Safe(h, u, i)'
  <2>0. /\ Len(queue') = Len(queue) + 1
        /\ \A j \in 1 .. Len(queue) : queue'[j] = queue[j]
        /\ queue'[Len(queue) + 1] = Ev("press", Target[b], k)
    BY <1>0, <1>3, EnqueueAppends DEF Press
  <2>1. CASE i \notin 1 .. Len(queue)
    <3>1. i = Len(queue) + 1
      BY <1>0, <2>0, <2>1
    <3>2. h = Target[b] /\ u = k
      BY <2>0, <3>1 DEF Ev
    <3>3. Owned(h, u)'
      BY <1>3, <3>2 DEF Press, Owned, TypeOK
    <3> QED
      BY <3>3 DEF Safe
  <2> QED
    BY <1>1, <2>0, <2>1
<1>4. ASSUME NEW k \in Usages, Release(b, k) PROVE Safe(h, u, i)'
  <2>0. /\ Len(queue') = Len(queue) + 1
        /\ \A j \in 1 .. Len(queue) : queue'[j] = queue[j]
        /\ queue'[Len(queue) + 1] = Ev("release", Target[b], k)
    BY <1>0, <1>4, EnqueueAppends DEF Release
  <2>1. i # Len(queue) + 1
    BY <2>0 DEF Ev
  <2> QED
    BY <1>0, <1>1, <2>0, <2>1
<1> QED
  BY <1>2, <1>3, <1>4

\* Serving an event: who answered for a key after it still does.
LEMMA ServeKeepsSafe ==
    ASSUME TypeOK, DistinctKeys, ServeKey, NEW h \in Hosts, NEW u \in Usages, NEW n \in Nat,
           Safe(h, u, n + 1)
    PROVE  Safe(h, u, n)'
<1>1. Owned(h, u) => Owned(h, u)'
  BY DEF ServeKey, Owned
<1>2. ASSUME NEW i \in 1 .. Len(queue), i > n + 1, queue[i] = Ev("release", h, u)
      PROVE  Safe(h, u, n)'
  <2>1. Len(queue) \in Nat /\ Len(queue') = Len(queue) - 1
        /\ \A j \in 1 .. Len(queue') : queue'[j] = queue[j + 1]
    BY ServeStep DEF TypeOK
  <2>2. i - 1 \in 1 .. Len(queue') /\ i - 1 > n /\ (i - 1) + 1 = i
    BY <1>2, <2>1
  <2>3. queue'[i - 1] = Ev("release", h, u)
    BY <1>2, <2>1, <2>2
  <2> QED
    BY <2>2, <2>3 DEF Safe
<1> QED
  BY <1>1, <1>2 DEF Safe

LEMMA ServeQueuesSafe ==
    ASSUME TypeOK, DistinctKeys, QueuedIsSafe, ServeKey PROVE QueuedIsSafe'
<1> SUFFICES ASSUME NEW h \in Hosts, NEW u \in Usages, NEW i \in 1 .. Len(queue'),
                    queue'[i] = Ev("press", h, u)
             PROVE  Safe(h, u, i)'
  BY DEF QueuedIsSafe
<1>1. Len(queue) \in Nat /\ Len(queue') = Len(queue) - 1 /\ queue'[i] = queue[i + 1]
  BY ServeStep DEF TypeOK
<1>2. i + 1 \in 1 .. Len(queue) /\ i \in Nat
  BY <1>1
<1>3. Safe(h, u, i + 1)
  BY <1>1, <1>2 DEF QueuedIsSafe
<1> QED
  BY <1>2, <1>3, ServeKeepsSafe

LEMMA ServeLeavesSafe ==
    ASSUME StuckInv, ServeKey PROVE DownIsSafe'
<1> SUFFICES ASSUME NEW h \in Hosts, NEW u \in Usages, u \in Down(h)' PROVE Safe(h, u, 0)'
  BY DEF DownIsSafe
<1> USE DEF StuckInv, SlotInv
<1>1. Head(queue) \in Events /\ 1 \in 1 .. Len(queue) /\ Head(queue) = queue[1]
  <2>1. Head(queue) \in Events /\ queue # <<>> /\ queue \in Seq(Events)
    BY ServeStep DEF TypeOK
  <2> QED
    BY <2>1
<1>2. SUFFICES Safe(h, u, 1)
  BY ServeKeepsSafe
\* A key that was down keeps its answer unless that answer has just been served.
<1>3. CASE u \in Down(h) /\ Head(queue) # Ev("release", h, u)
  <2>1. Safe(h, u, 0)
    BY <1>3 DEF DownIsSafe
  <2>2. \A i \in 1 .. Len(queue) : queue[i] = Ev("release", h, u) => i > 1
    BY <1>1, <1>3 DEF TypeOK
  <2> QED
    BY <2>1, <2>2 DEF Safe
<1>4. CASE Head(queue).host = h /\ Known(h)
  <2>1. Down(h)' = DownAfter(devices[h], Head(queue)) /\ Down(h) = DownOf(devices[h])
    BY <1>4, ServeDown DEF Known, Down
  <2>2. CASE Head(queue).op = "release"
    <3>1. u \in Down(h) /\ Head(queue).key # u
      BY <2>1, <2>2 DEF DownAfter
    <3> QED
      BY <1>3, <3>1 DEF Ev
  <2>3. CASE Head(queue).op # "release" /\ u = Head(queue).key
    <3>1. queue[1] = Ev("press", h, u)
      BY <1>1, <1>4, <2>3 DEF Events, Ev
    <3> QED
      BY <1>1, <3>1 DEF QueuedIsSafe
  <2>4. CASE Head(queue).op # "release" /\ u # Head(queue).key
    <3>1. u \in Down(h)
      BY <2>1, <2>4 DEF DownAfter
    <3> QED
      BY <1>3, <2>4, <3>1 DEF Ev
  <2> QED
    BY <2>2, <2>3, <2>4
<1>5. CASE ~(Head(queue).host = h /\ Known(h))
  <2>1. devices'[h] = devices[h]
    BY <1>1, <1>5, ServeStep DEF TypeOK
  <2>2. u \in Down(h) /\ Known(h)
    BY <2>1 DEF Down, Known, DownOf, Report
  <2>3. Head(queue) # Ev("release", h, u)
    BY <1>5, <2>2 DEF Ev
  <2> QED
    BY <1>3, <2>2, <2>3
<1> QED
  BY <1>4, <1>5

\* Without a key event no key goes down.
LEMMA KeptDown ==
    ASSUME NEW h \in Hosts, KeysKept(h) PROVE Down(h)' \subseteq Down(h)
<1>1. CASE devices'[h] = None
  BY <1>1 DEF Down
<1>2. CASE Known(h) /\ Keeps(devices'[h], devices[h])
  BY <1>2 DEF Known, Keeps, Down, DownOf, Report
<1>3. CASE ~Known(h) /\ Keeps(devices'[h], DefaultState)
  <2>1. DownOf(devices'[h]) = {}
    BY <1>3, DefaultTyped, DownIsUnion DEF Keeps
  <2> QED
    BY <2>1 DEF Down, DownOf, Report
<1> QED
  BY <1>1, <1>2, <1>3 DEF KeysKept

LEMMA StuckInvStep == ASSUME StuckInv, [Next]_vars PROVE StuckInv'
<1>0. SlotInv' /\ TypeOK /\ DistinctKeys
  BY SlotInvStep DEF StuckInv, SlotInv
<1>1. CASE ServeKey
  BY <1>0, <1>1, ServeLeavesSafe, ServeQueuesSafe DEF StuckInv
<1>2. CASE ~ServeKey
  <2>1. \A h \in Hosts : Down(h)' \subseteq Down(h)
    BY <1>0, <1>2, OtherStep, KeptDown
  <2>2. CASE \E b \in Bridges : End(b) \/ \E k \in Usages : Press(b, k) \/ Release(b, k)
    <3>1. QueuedIsSafe'
      BY <1>0, <2>2, BridgeQueuesSafe DEF StuckInv
    <3>2. \A h \in Hosts, u \in Usages : Safe(h, u, 0) => Safe(h, u, 0)'
      BY <1>0, <2>2, BridgeKeepsSafe DEF TypeOK
    <3>3. DownIsSafe'
      BY <2>1, <3>2 DEF StuckInv, DownIsSafe
    <3> QED
      BY <1>0, <3>1, <3>3 DEF StuckInv
  <2>3. CASE ~\E b \in Bridges : End(b) \/ \E k \in Usages : Press(b, k) \/ Release(b, k)
    <3>1. UNCHANGED <<queue, pressed, orphans>>
      BY <1>2, <2>3 DEF Next, vars, WriteLeds, RemoveDevice, TakeRemoval, Subscribe, Unsubscribe,
         WriteProtocol, TakeWriter, SendReport
    <3>2. DownIsSafe' /\ QueuedIsSafe'
      BY <2>1, <3>1 DEF StuckInv, DownIsSafe, QueuedIsSafe, Safe, Owned
    <3> QED
      BY <1>0, <3>2 DEF StuckInv
  <2> QED
    BY <2>2, <2>3
<1> QED
  BY <1>1, <1>2

\* A key that is down on a host is held by a bridge, was held by one that ended, or
\* its release is on its way (keyboard/mod.rs:361-402).
THEOREM NothingStuck == Spec => []NoKeyStuck
<1>1. Init => StuckInv
  BY SlotInvInit DEF Init, StuckInv, DownIsSafe, QueuedIsSafe, Down
<1>2. StuckInv => NoKeyStuck
  <2> SUFFICES ASSUME StuckInv, NEW h \in Hosts, NEW k \in Down(h)
               PROVE  \/ \E b \in Bridges : Target[b] = h /\ k \in pressed[b]
                      \/ k \in orphans[h]
                      \/ \E i \in 1 .. Len(queue) : queue[i] = Ev("release", h, k)
    BY DEF NoKeyStuck, Ev
  <2>1. Known(h) /\ devices[h] \in KeyboardStates
    BY DEF Down, Known, StuckInv, SlotInv, TypeOK
  <2>2. k \in Usages
    BY <2>1, DownIsUnion DEF Down, Known, KeySet, KeyboardStates, Usages
  <2>3. Safe(h, k, 0)
    BY <2>2 DEF StuckInv, DownIsSafe
  <2> QED
    BY <2>3 DEF Safe, Owned
<1> QED
  BY <1>1, <1>2, StuckInvStep, PTL DEF Spec

-----------------------------------------------------------------------------
(* Hosts are up to date.                                                   *)

\* Only a device in the table has been told something, and what a subscribed one was
\* told last is its state, unless the next report is being sent.
UpToDate(h) ==
    /\ seen[h] # None => Known(h)
    /\ Running /\ Known(h) /\ seen[h] # None /\ Writer(devices[h]) = "live" /\ sending # h
          => seen[h] = Report(devices[h])

CurrentInv == SlotInv /\ \A h \in Hosts : UpToDate(h)

\* A key event that is not reported changes nothing.
LEMMA UnreportedChangesNothing ==
    ASSUME NEW d \in KeyboardStates, NEW e \in Events, ~Reports(d, e)
    PROVE  Served(d, e) = d
<1>1. e.key \notin Modifiers /\ e.op \in {"press", "release"}
  BY DEF Reports, Events
<1>2. CASE e.op = "press"
  <2>1. SlotsAfterPress(d.keys, e.key) = d.keys
    BY <1>2 DEF Reports, SlotsAfterPress
  <2> QED
    BY <1>1, <1>2, <2>1 DEF Served, AfterPress, KeyboardStates
<1>3. CASE e.op = "release"
  <2>1. SlotsAfterRelease(d.keys, e.key) = d.keys
    BY <1>3 DEF Reports, SlotsAfterRelease
  <2> QED
    BY <1>1, <1>3, <2>1 DEF Served, AfterRelease, KeyboardStates
<1> QED
  BY <1>1, <1>2, <1>3

LEMMA ServeKeepsCurrent ==
    ASSUME CurrentInv, ServeKey, NEW h \in Hosts PROVE UpToDate(h)'
<1> USE DEF CurrentInv, SlotInv
<1>1. UNCHANGED <<seen, server>> /\ sending = None
  BY DEF ServeKey
<1>2. h # None
  BY NoneIsNoKey
<1>3. CASE devices'[h] = devices[h]
  BY <1>1, <1>2, <1>3 DEF UpToDate, Known
<1>4. CASE devices'[h] # devices[h]
  <2>1. Head(queue) \in Events
        /\ devices' = IF Known(Head(queue).host)
                      THEN [devices EXCEPT ![Head(queue).host] =
                              Served(devices[Head(queue).host], Head(queue))]
                      ELSE devices
    BY ServeStep
  <2>2. Head(queue).host = h /\ Known(h)
    BY <1>4, <2>1 DEF TypeOK
  <2>3. devices'[h] = Served(devices[h], Head(queue)) /\ devices[h] \in KeyboardStates
    BY <2>1, <2>2 DEF TypeOK, Known
  <2>4. Reports(devices[h], Head(queue))
    BY <1>4, <2>1, <2>3, UnreportedChangesNothing
  <2>5. sending' = h
    BY <2>2, <2>4 DEF ServeKey, Known
  <2>6. devices'[h] # None
    BY <2>1, <2>2, <2>3, ServeStep, NoneIsNoKey
  <2> QED
    BY <2>5, <2>6 DEF UpToDate, Known
<1> QED
  BY <1>3, <1>4

LEMMA SendKeepsCurrent ==
    ASSUME CurrentInv, SendReport, NEW h \in Hosts PROVE UpToDate(h)'
<1> USE DEF CurrentInv, SlotInv
<1>1. UNCHANGED devices /\ sending' = None /\ Known(sending) /\ sending \in Hosts /\ Running
  BY DEF SendReport, TypeOK, Known
<1>2. CASE h # sending
  <2>1. seen'[h] = seen[h]
    BY <1>1, <1>2 DEF SendReport, TypeOK
  <2> QED
    BY <1>1, <1>2, <2>1 DEF UpToDate, Known
<1>3. CASE h = sending
  <2>1. CASE Writer(devices[h]) = "live"
    <3>1. seen'[h] = Report(devices[h])
      BY <1>1, <1>3, <2>1, NoneAssumption DEF SendReport, TypeOK
    <3> QED
      BY <1>1, <1>3, <3>1 DEF UpToDate, Known
  <2>2. CASE Writer(devices[h]) # "live"
    <3>1. UNCHANGED seen
      BY <1>3, <2>2 DEF SendReport
    <3> QED
      BY <1>1, <1>3, <2>2, <3>1 DEF UpToDate, Known
  <2> QED
    BY <2>1, <2>2
<1> QED
  BY <1>2, <1>3

LEMMA HostKeepsCurrent ==
    ASSUME CurrentInv, NEW g \in Hosts, NEW p \in Protocols, NEW h \in Hosts,
           \/ WriteLeds(g) \/ RemoveDevice(g) \/ TakeRemoval(g)
           \/ Subscribe(g, p) \/ Unsubscribe(g, p) \/ WriteProtocol(g, p) \/ TakeWriter(g, p)
    PROVE  UpToDate(h)'
<1> USE DEF CurrentInv, SlotInv
<1>0. UNCHANGED <<sending, server>>
  BY DEF WriteLeds, RemoveDevice, TakeRemoval, Subscribe, Unsubscribe, WriteProtocol, TakeWriter
<1>1. CASE devices'[h] = devices[h] /\ seen'[h] = seen[h]
  BY <1>0, <1>1 DEF UpToDate, Known
<1>2. CASE seen'[h] = None
  BY <1>2 DEF UpToDate
<1>3. CASE h # g
  BY <1>1, <1>3 DEF WriteLeds, RemoveDevice, TakeRemoval, Subscribe, Unsubscribe,
     WriteProtocol, TakeWriter, TypeOK
<1>4. CASE h = g /\ (RemoveDevice(g) \/ Subscribe(g, p))
  BY <1>1, <1>4 DEF RemoveDevice, Subscribe
<1>5. CASE h = g /\ (TakeRemoval(g) \/ WriteProtocol(g, p))
  BY <1>2, <1>5 DEF TakeRemoval, WriteProtocol, TypeOK
\* A device that is new to the table has been told nothing.
<1>6. CASE h = g /\ ~Known(h) /\ (WriteLeds(g) \/ TakeWriter(g, p) \/ Unsubscribe(g, p))
  <2>1. seen[h] = None
    BY <1>6 DEF UpToDate
  <2>2. seen'[h] = None
    BY <1>6, <2>1 DEF WriteLeds, TakeWriter, Unsubscribe, TypeOK
  <2> QED
    BY <1>2, <2>2
<1>7. CASE h = g /\ Known(h) /\ WriteLeds(g)
  BY <1>1, <1>7 DEF WriteLeds, Acquired, Known, TypeOK
<1>8. CASE h = g /\ Known(h) /\ TakeWriter(g, p)
  <2> DEFINE d == [devices[h] EXCEPT !.writer[p] = notify[p][h]]
  <2>1. devices[h] \in KeyboardStates /\ notify[p][h] \in Writers /\ devices'[h] = d
    BY <1>8, WriterTyped DEF TakeWriter, Acquired, Known, TypeOK
  <2>2. Keeps(d, devices[h]) /\ d.protocol = devices[h].protocol
        /\ d.writer = [devices[h].writer EXCEPT ![p] = notify[p][h]] /\ d \in KeyboardStates
    BY <2>1, WithWriter
  <2> HIDE DEF d
  <2>3. CASE d.protocol = p
    BY <1>2, <1>8, <2>1, <2>3 DEF TakeWriter, TypeOK
  <2>4. CASE d.protocol # p
    <3>1. seen'[h] = seen[h] /\ devices'[h] # None
      BY <1>8, <2>1, <2>2, <2>4, NoneIsNoKey DEF TakeWriter
    <3>2. Writer(d) = Writer(devices[h]) /\ Report(d) = Report(devices[h])
      BY <2>1, <2>2, <2>4 DEF Writer, Report, Keeps, KeyboardStates
    <3> QED
      BY <1>0, <1>8, <2>1, <3>1, <3>2 DEF UpToDate, Known
  <2> QED
    BY <2>3, <2>4
<1>9. CASE h = g /\ Known(h) /\ Unsubscribe(g, p)
  <2> DEFINE d == [devices[h] EXCEPT !.writer[p] = Closed(devices[h].writer[p])]
  <2>1. devices[h] \in KeyboardStates /\ Closed(devices[h].writer[p]) \in Writers
    BY <1>9, WriterTyped, ClosedTyped DEF TypeOK, Known
  <2>2. devices' = [devices EXCEPT ![h] = d]
    BY <1>9, <2>1 DEF Unsubscribe, Known
  <2>3. Keeps(d, devices[h]) /\ d.protocol = devices[h].protocol
        /\ d.writer = [devices[h].writer EXCEPT ![p] = Closed(devices[h].writer[p])] /\ d # None
    BY <2>1, WithWriter, NoneIsNoKey
  <2> HIDE DEF d
  <2>4. devices'[h] = d /\ seen'[h] = seen[h]
    BY <1>9, <2>2 DEF Unsubscribe, TypeOK
  <2>5. Report(d) = Report(devices[h])
    BY <2>3 DEF Report, Keeps
  <2>6. Writer(d) = "live" => Writer(devices[h]) = "live"
    BY <2>1, <2>3 DEF Writer, Closed, KeyboardStates
  <2> QED
    BY <1>0, <1>9, <2>3, <2>4, <2>5, <2>6 DEF UpToDate, Known
<1> QED
  BY <1>3, <1>4, <1>5, <1>6, <1>7, <1>8, <1>9

LEMMA CurrentInvStep == ASSUME CurrentInv, [Next]_vars PROVE CurrentInv'
<1>0. SlotInv'
  BY SlotInvStep DEF CurrentInv
<1>1. CASE UNCHANGED <<devices, seen, sending, server>>
  BY <1>0, <1>1 DEF CurrentInv, UpToDate, Known
<1>2. CASE ServeKey \/ SendReport
  BY <1>0, <1>2, ServeKeepsCurrent, SendKeepsCurrent DEF CurrentInv
<1>3. CASE \E b \in Bridges : End(b) \/ \E k \in Usages : Press(b, k) \/ Release(b, k)
  BY <1>1, <1>3 DEF End, Press, Release
<1>4. CASE \E g \in Hosts : \/ WriteLeds(g) \/ RemoveDevice(g) \/ TakeRemoval(g)
                            \/ \E p \in Protocols : Subscribe(g, p) \/ Unsubscribe(g, p)
                                                    \/ WriteProtocol(g, p) \/ TakeWriter(g, p)
  <2>1. "boot" \in Protocols
    BY DEF Protocols
  <2>2. \A h \in Hosts : UpToDate(h)'
    BY <1>4, <2>1, HostKeepsCurrent
  <2> QED
    BY <1>0, <2>2 DEF CurrentInv
<1> QED
  BY <1>1, <1>2, <1>3, <1>4 DEF Next, vars

\* What a subscribed host was told last is what the server thinks it was told,
\* whatever the hosts do between two events (keyboard/mod.rs:164-181, 361-390).
THEOREM HostsAreCurrent == Spec => []HostIsCurrent
<1>1. Init => CurrentInv
  BY SlotInvInit DEF Init, CurrentInv, UpToDate
<1>2. CurrentInv => HostIsCurrent
  BY NoneIsNoKey DEF CurrentInv, UpToDate, HostIsCurrent, Known
<1> QED
  BY <1>1, <1>2, CurrentInvStep, PTL DEF Spec
=============================================================================
