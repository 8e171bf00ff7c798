----------------------------- MODULE LedSyncProofs -----------------------------
(* The keyboard's LEDs agree with the host's, for any number of hosts and LEDs. *)
EXTENDS LedSync, TLAPS, FiniteSetTheorems

USE BoundsAssumption, NoneAssumption

LEMMA OtherIsNoLed == Other \notin LedEvents
BY DEF Other, LedEvents

LEMMA InitHolds == Init => IInv
BY DEF Init, IInv, TypeOK, LastIsRight, LedsAgree, Leds, Events

-----------------------------------------------------------------------------
(* What a write appends to the events of a bridge that listens.            *)

\* The events of one write of the output report, or of none: each is about a LED of h
\* that changes and says what it changes to.
Says(es, h, changed, lit) ==
    /\ es \in Seq(Events)
    /\ \A i \in 1 .. Len(es) : es[i] \in LedEvents =>
          /\ es[i].from = h /\ es[i].led \in changed
          /\ es[i].on <=> es[i].led \in lit
    /\ \A l \in changed : \E i \in 1 .. Len(es) :
          es[i] \in LedEvents /\ es[i].from = h /\ es[i].led = l

LEMMA ReportSays ==
    ASSUME TypeOK, NEW h \in Hosts, NEW lit \in SUBSET Leds,
           NEW order \in Ascending(Changed(h, lit))
    PROVE  Says(Announcement(h) \o LedEventsOf(h, order, lit), h, Changed(h, lit), lit)
<1> DEFINE changed == Changed(h, lit)
           new     == LedEventsOf(h, order, lit)
           ann     == Announcement(h)
           n       == Cardinality(changed)
<1>1. changed \subseteq Leds
  BY DEF TypeOK, Changed
<1>2. n \in Nat
  <2>1. IsFiniteSet(Leds) BY FS_Interval DEF Leds
  <2>2. IsFiniteSet(changed) BY <1>1, <2>1, FS_Subset
  <2> QED BY <2>2, FS_CardinalityType
<1>3. /\ order \in [1 .. n -> changed]
      /\ \A l \in changed : \E i \in 1 .. n : order[i] = l
  BY DEF Ascending
<1> HIDE DEF changed, n
<1>4. /\ new \in [1 .. n -> LedEvents]
      /\ \A i \in 1 .. n : new[i] = [from |-> h, led |-> order[i], on |-> order[i] \in lit]
  BY <1>1, <1>3 DEF LedEventsOf, LedEvents
<1>a. \A i \in 1 .. n : /\ new[i] \in LedEvents /\ new[i].from = h
                        /\ new[i].led = order[i] /\ order[i] \in changed
                        /\ new[i].on <=> new[i].led \in lit
  <2> TAKE i \in 1 .. n
  <2>1. new[i] = [from |-> h, led |-> order[i], on |-> order[i] \in lit] BY <1>4
  <2>2. new[i].on = (order[i] \in lit) /\ new[i].led = order[i] /\ new[i].from = h
    BY <2>1
  <2> QED BY <2>2, <1>3, <1>4
<1> HIDE DEF new
<1>5. new \in Seq(LedEvents) /\ Len(new) = n
  BY <1>2, <1>4
<1>6. new \in Seq(Events)
  BY <1>2, <1>4 DEF Events
<1>7. ann = <<>> \/ ann = <<Other>>
  BY DEF Announcement
<1>8. Other \in Events /\ Other \notin LedEvents
  BY OtherIsNoLed DEF Events
<1> SUFFICES Says(ann \o new, h, changed, lit)
  BY DEF changed, new
<1>9. CASE ann = <<>>
  <2>1. ann \o new = new
    BY <1>9, <1>6
  <2>2. \A l \in changed : \E i \in 1 .. n : new[i] \in LedEvents /\ new[i].from = h /\ new[i].led = l
    BY <1>3, <1>a
  <2> QED BY <2>1, <2>2, <1>a, <1>5, <1>6 DEF Says
<1>10. CASE ann = <<Other>>
  <2> DEFINE es == <<Other>> \o new
  <2>1. /\ es \in Seq(Events)
        /\ Len(es) = n + 1
        /\ es[1] = Other
        /\ \A i \in 1 .. n : es[i + 1] = new[i]
    BY <1>2, <1>5, <1>6, <1>8
  <2> HIDE DEF es
  <2>2. ASSUME NEW i \in 1 .. Len(es), es[i] \in LedEvents
        PROVE  /\ es[i].from = h /\ es[i].led \in changed
               /\ es[i].on <=> es[i].led \in lit
    <3>1. i # 1 BY <2>1, <2>2, <1>8
    <3>2. i - 1 \in 1 .. n /\ es[i] = new[i - 1] BY <3>1, <2>1, <1>2
    <3> QED BY <3>2, <1>a
  <2>3. ASSUME NEW l \in changed
        PROVE  \E i \in 1 .. Len(es) : es[i] \in LedEvents /\ es[i].from = h /\ es[i].led = l
    <3>1. PICK j \in 1 .. n : order[j] = l BY <1>3
    <3>2. j + 1 \in 1 .. Len(es) /\ es[j + 1] = new[j] BY <3>1, <2>1, <1>2
    <3> QED BY <3>1, <3>2, <1>a
  <2>4. Says(es, h, changed, lit) BY <2>1, <2>2, <2>3 DEF Says
  <2> QED BY <1>10, <2>4 DEF es
<1> QED BY <1>7, <1>9, <1>10

LEMMA AnnouncementSays ==
    ASSUME NEW h, NEW lit, NEW es \in {<<>>, <<Other>>}
    PROVE  Says(es, h, {}, lit)
<1>1. Other \in Events /\ Other \notin LedEvents
  BY OtherIsNoLed DEF Events
<1>2. es \in Seq(Events)
  <2>1. <<>> \in Seq(Events) /\ <<Other>> \in Seq(Events) BY <1>1
  <2> QED BY <2>1
<1>3. \A i \in 1 .. Len(es) : es[i] \notin LedEvents
  <2>1. CASE es = <<>> BY <2>1
  <2>2. CASE es = <<Other>> BY <2>2, <1>1
  <2> QED BY <2>1, <2>2
<1> QED BY <1>2, <1>3 DEF Says

\* A write keeps the invariant if every LED that is not silent after it was changed by it,
\* or is as it was.
LEMMA WriteStep ==
    ASSUME TypeOK, TypeOK', LastIsRight, LedsAgree, UNCHANGED <<phase, target, shown>>,
           NEW h, NEW changed, NEW lit, NEW es, Says(es, h, changed, lit),
           events' = IF phase = "off" THEN events ELSE events \o es,
           \A l \in Leds \ silent' :
              \/ h = target /\ l \in changed /\ (l \in lit <=> l \in leds'[target])
              \/ /\ h # target \/ l \notin changed
                 /\ l \notin silent
                 /\ phase # "off" => (l \in leds'[target] <=> l \in leds[target])
    PROVE  LastIsRight' /\ LedsAgree'
<1>1. CASE phase = "off"
  BY <1>1 DEF LastIsRight, LedsAgree
<1>2. CASE phase # "off"
  <2> DEFINE n == Len(events)
             m == Len(es)
  <2>1. /\ events' = events \o es
        /\ n \in Nat /\ m \in Nat /\ Len(events') = n + m
        /\ \A i \in 1 .. n : events'[i] = events[i]
        /\ \A i \in 1 .. m : events'[n + i] = es[i]
    BY <1>2 DEF TypeOK, Says
  <2> HIDE DEF n, m
  <2>2. ASSUME NEW l \in Leds \ silent', NEW i \in 1 .. Len(events'), LastUnread(i, l)'
        PROVE  events'[i].on <=> l \in leds'[target]
    <3>1. /\ events'[i] \in LedEvents /\ events'[i].from = target /\ events'[i].led = l
          /\ \A j \in i + 1 .. Len(events') : ~About(j, l)'
      BY <2>2 DEF LastUnread, About
    <3>2. CASE i \in 1 .. n
      <4>1. events'[i] = events[i] BY <3>2, <2>1
      <4>2. \A j \in 1 .. m : ~(es[j] \in LedEvents /\ es[j].from = target /\ es[j].led = l)
        <5> TAKE j \in 1 .. m
        <5>1. n + j \in i + 1 .. Len(events') /\ events'[n + j] = es[j] BY <3>2, <2>1
        <5> QED BY <5>1, <3>1 DEF About
      <4>3. ~(h = target /\ l \in changed)
        BY <4>2 DEF Says, m
      <4>4. l \notin silent /\ (l \in leds'[target] <=> l \in leds[target])
        BY <4>3, <1>2
      <4>5. \A j \in i + 1 .. n : ~About(j, l)
        <5> TAKE j \in i + 1 .. n
        <5>1. j \in i + 1 .. Len(events') /\ events'[j] = events[j] BY <3>2, <2>1
        <5> QED BY <5>1, <3>1 DEF About
      <4>6. LastUnread(i, l)
        BY <4>1, <4>5, <3>1 DEF LastUnread, About, n
      <4>7. events[i].on <=> l \in leds[target]
        BY <4>4, <4>6, <3>2, <1>2 DEF LastIsRight, n
      <4> QED BY <4>1, <4>4, <4>7
    <3>3. CASE i \notin 1 .. n
      <4> DEFINE k == i - n
      <4>1. k \in 1 .. m /\ events'[i] = es[k]
        <5>1. k \in 1 .. m /\ i = n + k BY <3>3, <2>1
        <5> QED BY <5>1, <2>1
      <4> HIDE DEF k
      <4>2. es[k].from = h /\ es[k].led \in changed /\ (es[k].on <=> es[k].led \in lit)
        BY <4>1, <3>1 DEF Says, m
      <4>3. h = target /\ l \in changed
        BY <4>1, <4>2, <3>1
      <4>4. l \in lit <=> l \in leds'[target]
        BY <4>3
      <4>5. es[k].on <=> l \in lit
        BY <4>1, <4>2, <3>1
      <4> QED BY <4>1, <4>4, <4>5
    <3> QED BY <3>2, <3>3
  <2>3. ASSUME NEW l \in Leds \ silent', phase' = "running"
        PROVE  Unread(l)' \/ Agrees(l)'
    <3>1. CASE h = target /\ l \in changed
      <4>1. PICK j \in 1 .. m : es[j] \in LedEvents /\ es[j].from = target /\ es[j].led = l
        BY <3>1 DEF Says, m
      <4>2. n + j \in 1 .. Len(events') /\ events'[n + j] = es[j]
        BY <4>1, <2>1
      <4>3. Unread(l)' BY <4>1, <4>2 DEF Unread, About
      <4> QED BY <4>3
    <3>2. CASE ~(h = target /\ l \in changed)
      <4>1. l \notin silent /\ (l \in leds'[target] <=> l \in leds[target])
        BY <3>2, <1>2
      <4>2. Unread(l) \/ Agrees(l)
        BY <4>1, <2>3 DEF LedsAgree
      <4>3. CASE Agrees(l)
        BY <4>1, <4>3 DEF Agrees
      <4>4. CASE Unread(l)
        <5>1. PICK j \in 1 .. n : About(j, l) BY <4>4 DEF Unread, n
        <5>2. j \in 1 .. Len(events') /\ events'[j] = events[j] BY <2>1
        <5>3. Unread(l)' BY <5>1, <5>2 DEF Unread, About
        <5> QED BY <5>3
      <4> QED BY <4>2, <4>3, <4>4
    <3> QED BY <3>1, <3>2
  <2> QED BY <2>2, <2>3 DEF LastIsRight, LedsAgree
<1> QED BY <1>1, <1>2

-----------------------------------------------------------------------------
(* One lemma per step.                                                     *)

LEMMA AnnouncementType ==
    ASSUME NEW h
    PROVE  Announcement(h) \in {<<>>, <<Other>>}
BY DEF Announcement

LEMMA SendType ==
    ASSUME TypeOK, NEW es \in Seq(Events), Send(es)
    PROVE  events' \in Seq(Events) /\ (phase = "off" => events' = <<>>)
BY DEF TypeOK, Send

LEMMA OtherType == <<>> \in Seq(Events) /\ <<Other>> \in Seq(Events)
BY DEF Events

LEMMA WriteReportStep ==
    ASSUME IInv, NEW h \in Hosts, NEW lit \in SUBSET Leds, WriteReport(h, lit)
    PROVE  IInv'
<1> DEFINE changed == Changed(h, lit)
<1>1. PICK order \in Ascending(changed) : Send(Announcement(h) \o LedEventsOf(h, order, lit))
  BY DEF WriteReport
<1> DEFINE es == Announcement(h) \o LedEventsOf(h, order, lit)
<1>2. Says(es, h, changed, lit)
  BY <1>1, ReportSays DEF IInv
<1>3. es \in Seq(Events) /\ events' = IF phase = "off" THEN events ELSE events \o es
  BY <1>1, <1>2 DEF Says, Send
<1>4. events' \in Seq(Events) /\ (phase = "off" => events' = <<>>)
  BY <1>1, <1>3, SendType DEF IInv
<1> HIDE DEF es
<1>5. TypeOK'
  BY <1>4 DEF IInv, TypeOK, WriteReport, Acquire, Leds
<1>6. leds' = [leds EXCEPT ![h] = lit] /\ leds \in [Hosts -> SUBSET Leds]
  BY DEF WriteReport, IInv, TypeOK
<1>7. phase # "off" => target \in Hosts
  BY DEF IInv, TypeOK
<1>8. ASSUME NEW l \in Leds \ silent'
      PROVE  \/ h = target /\ l \in changed /\ (l \in lit <=> l \in leds'[target])
             \/ /\ h # target \/ l \notin changed
                /\ l \notin silent
                /\ phase # "off" => (l \in leds'[target] <=> l \in leds[target])
  <2>1. CASE h = target
    <3>1. silent' = silent \ changed /\ leds'[target] = lit
      BY <2>1, <1>6 DEF WriteReport
    <3> QED BY <2>1, <3>1, <1>8 DEF Changed
  <2>2. CASE h # target
    <3>1. silent' = silent /\ (target \in Hosts => leds'[target] = leds[target])
      BY <2>2, <1>6 DEF WriteReport
    <3> QED BY <2>2, <3>1, <1>7, <1>8
  <2> QED BY <2>1, <2>2
<1>9. UNCHANGED <<phase, target, shown>>
  BY DEF WriteReport
<1> HIDE DEF changed
<1>10. LastIsRight' /\ LedsAgree'
  BY <1>2, <1>3, <1>5, <1>8, <1>9, WriteStep DEF IInv
<1> QED BY <1>5, <1>10 DEF IInv

\* The steps that send no event about a LED, and leave the LEDs of the target alone or
\* have them in silent'.
LEMMA QuietStep ==
    ASSUME IInv, TypeOK', UNCHANGED <<phase, target, shown>>,
           NEW es \in {<<>>, <<Other>>},
           events' = IF phase = "off" THEN events ELSE events \o es,
           \A l \in Leds \ silent' :
              l \notin silent /\ (phase # "off" => (l \in leds'[target] <=> l \in leds[target]))
    PROVE  LastIsRight' /\ LedsAgree'
<1>1. Says(es, None, {}, {})
  BY AnnouncementSays
<1> QED BY <1>1, WriteStep DEF IInv

LEMMA WriteBootStep ==
    ASSUME IInv, NEW h \in Hosts, NEW lit \in SUBSET Leds, WriteBoot(h, lit)
    PROVE  IInv'
<1>1. Announcement(h) \in {<<>>, <<Other>>} /\ Send(Announcement(h))
  BY AnnouncementType DEF WriteBoot
<1>2. events' \in Seq(Events) /\ (phase = "off" => events' = <<>>)
  BY <1>1, SendType, OtherType DEF IInv
<1>3. TypeOK'
  BY <1>2 DEF IInv, TypeOK, WriteBoot, Acquire, Changed
<1>4. \A l \in Leds \ silent' :
        l \notin silent /\ (phase # "off" => (l \in leds'[target] <=> l \in leds[target]))
  BY DEF WriteBoot, Changed, IInv, TypeOK
<1>5. UNCHANGED <<phase, target, shown>>
  BY DEF WriteBoot
<1>6. LastIsRight' /\ LedsAgree'
  BY <1>1, <1>3, <1>4, <1>5, QuietStep DEF Send
<1> QED BY <1>3, <1>6 DEF IInv

LEMMA ContactStep ==
    ASSUME IInv, NEW h \in Hosts, Contact(h)
    PROVE  IInv'
<1>1. Announcement(h) \in {<<>>, <<Other>>} /\ Send(Announcement(h))
  BY AnnouncementType DEF Contact
<1>2. events' \in Seq(Events) /\ (phase = "off" => events' = <<>>)
  BY <1>1, SendType, OtherType DEF IInv
<1>3. TypeOK'
  BY <1>2 DEF IInv, TypeOK, Contact, Acquire
<1>4. leds' = leds /\ silent' = silent /\ UNCHANGED <<phase, target, shown>>
  BY DEF Contact
<1>5. LastIsRight' /\ LedsAgree'
  BY <1>1, <1>3, <1>4, QuietStep DEF Send
<1> QED BY <1>3, <1>5 DEF IInv

LEMMA SuspendOrWakeStep ==
    ASSUME IInv, SuspendOrWake
    PROVE  IInv'
<1>1. events' \in Seq(Events) /\ (phase = "off" => events' = <<>>)
  BY SendType, OtherType DEF IInv, SuspendOrWake
<1>2. TypeOK'
  BY <1>1 DEF IInv, TypeOK, SuspendOrWake, hostVars
<1>3. leds' = leds /\ silent' = silent /\ UNCHANGED <<phase, target, shown>> /\ Send(<<Other>>)
  BY DEF SuspendOrWake, hostVars
<1>4. LastIsRight' /\ LedsAgree'
  BY <1>2, <1>3, QuietStep DEF Send
<1> QED BY <1>2, <1>4 DEF IInv

LEMMA DisconnectStep ==
    ASSUME IInv, NEW h \in Hosts, Disconnect(h)
    PROVE  IInv'
<1>1. TypeOK'
  BY DEF IInv, TypeOK, Disconnect, Forgotten
<1>2. events' = IF phase = "off" THEN events ELSE events \o <<>>
  BY DEF Disconnect, IInv, TypeOK
<1>3. <<>> \in {<<>>, <<Other>>}
  OBVIOUS
<1>4. \A l \in Leds \ silent' :
        l \notin silent /\ (phase # "off" => (l \in leds'[target] <=> l \in leds[target]))
  BY DEF Disconnect, Forgotten, IInv, TypeOK
<1>5. UNCHANGED <<phase, target, shown>>
  BY DEF Disconnect
<1>6. LastIsRight' /\ LedsAgree'
  BY <1>1, <1>2, <1>3, <1>4, <1>5, QuietStep
<1> QED BY <1>1, <1>6 DEF IInv

-----------------------------------------------------------------------------
(* The bridge's steps.                                                     *)

LEMMA StartStep ==
    ASSUME IInv, NEW h \in Hosts, Start(h)
    PROVE  IInv'
<1>1. events = <<>> /\ events' = <<>> /\ phase' = "listening"
  BY DEF IInv, TypeOK, Start
<1>2. TypeOK'
  BY <1>1 DEF IInv, TypeOK, Start, hostVars
<1>3. LastIsRight' /\ LedsAgree'
  BY <1>1 DEF LastIsRight, LedsAgree
<1> QED BY <1>2, <1>3 DEF IInv

LEMMA SwitchLocallyStep ==
    ASSUME IInv, NEW lit \in SUBSET Leds, SwitchLocally(lit)
    PROVE  IInv'
BY DEF IInv, TypeOK, LastIsRight, LedsAgree, SwitchLocally, hostVars

LEMMA LoadStep ==
    ASSUME IInv, Load
    PROVE  IInv'
<1>1. /\ phase = "listening" /\ phase' = "running"
      /\ shown' = IF target \in known THEN leds[target] ELSE shown
      /\ silent' = {l \in silent : Unread(l)} \cup (IF target \in known THEN {} ELSE shown)
      /\ UNCHANGED <<known, leds, target, events>>
  BY DEF Load, hostVars
<1>2. TypeOK'
  BY <1>1 DEF IInv, TypeOK
<1>3. \A l, i : (About(i, l)' <=> About(i, l)) /\ (LastUnread(i, l)' <=> LastUnread(i, l))
  BY <1>1 DEF About, LastUnread
<1>4. \A l : Unread(l)' <=> Unread(l)
  BY <1>1, <1>3 DEF Unread
<1>5. LastIsRight'
  <2> SUFFICES ASSUME NEW l \in Leds \ silent', NEW i \in 1 .. Len(events), LastUnread(i, l)
               PROVE  events[i].on <=> l \in leds[target]
    BY <1>1, <1>3 DEF LastIsRight
  <2>1. Unread(l)
    BY DEF LastUnread, Unread
  <2>2. l \notin silent
    BY <1>1, <2>1
  <2> QED BY <1>1, <2>2 DEF IInv, LastIsRight
<1>6. LedsAgree'
  <2> SUFFICES ASSUME NEW l \in Leds \ silent', ~Unread(l)
               PROVE  Agrees(l)'
    BY <1>4 DEF LedsAgree
  <2>1. CASE target \in known
    BY <2>1, <1>1 DEF Agrees
  <2>2. CASE target \notin known
    <3>1. l \notin shown' /\ leds[target] = {}
      BY <2>2, <1>1 DEF IInv, TypeOK
    <3> QED BY <3>1, <1>1 DEF Agrees
  <2> QED BY <2>1, <2>2
<1> QED BY <1>2, <1>5, <1>6 DEF IInv

LEMMA TakeEventStep ==
    ASSUME IInv, TakeEvent
    PROVE  IInv'
<1> DEFINE e == Head(events)
           n == Len(events)
<1>1. /\ phase = "running" /\ events # <<>>
      /\ events' = Tail(events)
      /\ shown' = IF Concerns(e) THEN After(e) ELSE shown
      /\ UNCHANGED <<known, leds, phase, target, silent>>
  BY DEF TakeEvent, hostVars
<1>2. /\ n \in Nat /\ n > 0 /\ e \in Events /\ e = events[1]
      /\ events' \in Seq(Events) /\ Len(events') = n - 1
      /\ \A i \in 1 .. n - 1 : events'[i] = events[i + 1]
  BY <1>1 DEF IInv, TypeOK
<1> HIDE DEF e, n
<1>3. TypeOK'
  <2>1. Concerns(e) => e.led \in Leds
    BY DEF Concerns, LedEvents
  <2>2. shown' \subseteq Leds
    BY <1>1, <2>1 DEF After, IInv, TypeOK
  <2> QED BY <1>1, <1>2, <2>2 DEF IInv, TypeOK
<1>4. \A l : \A i \in 1 .. n - 1 : About(i, l)' <=> About(i + 1, l)
  BY <1>1, <1>2 DEF About
<1>5. \A l : \A i \in 1 .. n - 1 : LastUnread(i, l)' => LastUnread(i + 1, l)
  <2> SUFFICES ASSUME NEW l, NEW i \in 1 .. n - 1, LastUnread(i, l)'
               PROVE  LastUnread(i + 1, l)
    OBVIOUS
  <2>1. About(i + 1, l)
    BY <1>4 DEF LastUnread
  <2>2. ASSUME NEW j \in i + 2 .. n
        PROVE  ~About(j, l)
    <3>1. j - 1 \in i + 1 .. n - 1 /\ j - 1 \in 1 .. n - 1 /\ (j - 1) + 1 = j
      BY <1>2
    <3>2. ~About(j - 1, l)'
      BY <3>1, <1>2 DEF LastUnread
    <3> QED BY <3>1, <3>2, <1>4
  <2> QED BY <2>1, <2>2, <1>2 DEF LastUnread, n
<1>6. LastIsRight'
  <2> SUFFICES ASSUME NEW l \in Leds \ silent, NEW i \in 1 .. n - 1, LastUnread(i, l)'
               PROVE  events'[i].on <=> l \in leds[target]
    BY <1>1, <1>2 DEF LastIsRight
  <2>1. LastUnread(i + 1, l) /\ i + 1 \in 1 .. n /\ events'[i] = events[i + 1]
    BY <1>2, <1>5
  <2> QED BY <2>1, <1>1 DEF IInv, LastIsRight, n
<1>7. LedsAgree'
  <2> SUFFICES ASSUME NEW l \in Leds \ silent, ~Unread(l)'
               PROVE  Agrees(l)'
    BY <1>1 DEF LedsAgree
  <2>1. \A i \in 2 .. n : ~About(i, l)
    <3> TAKE i \in 2 .. n
    <3>1. i - 1 \in 1 .. n - 1 /\ (i - 1) + 1 = i BY <1>2
    <3>2. ~About(i - 1, l)' BY <3>1, <1>2 DEF Unread
    <3> QED BY <3>1, <3>2, <1>4
  <2>2. CASE About(1, l)
    <3>1. LastUnread(1, l) /\ 1 \in 1 .. n
      BY <2>1, <2>2, <1>2 DEF LastUnread, n
    <3>2. e.on <=> l \in leds[target]
      BY <3>1, <1>1, <1>2 DEF IInv, LastIsRight, n
    <3>3. Concerns(e) /\ e.led = l
      BY <2>2, <1>2 DEF About, Concerns
    <3>4. shown' = IF e.on THEN shown \cup {l} ELSE shown \ {l}
      BY <3>3, <1>1 DEF After
    <3> QED BY <3>2, <3>4, <1>1 DEF Agrees
  <2>3. CASE ~About(1, l)
    <3>1. ~Unread(l)
      BY <2>1, <2>3, <1>2 DEF Unread, n
    <3>2. Agrees(l)
      BY <3>1, <1>1 DEF IInv, LedsAgree
    <3>3. Concerns(e) => e.led # l
      BY <2>3, <1>2 DEF About, Concerns
    <3>4. l \in shown' <=> l \in shown
      BY <3>3, <1>1 DEF After
    <3> QED BY <3>2, <3>4, <1>1 DEF Agrees
  <2> QED BY <2>2, <2>3
<1> QED BY <1>3, <1>6, <1>7 DEF IInv

LEMMA OverStep ==
    ASSUME IInv, Over
    PROVE  IInv'
BY DEF IInv, TypeOK, LastIsRight, LedsAgree, Over, hostVars

-----------------------------------------------------------------------------
(* The theorems.                                                           *)

LEMMA Inductive == IInv /\ [Next]_vars => IInv'
<1> SUFFICES ASSUME IInv, [Next]_vars PROVE IInv'
  OBVIOUS
<1>1. CASE \E h \in Hosts : Contact(h) \/ Disconnect(h) \/ Start(h)
  BY <1>1, ContactStep, DisconnectStep, StartStep
<1>2. CASE \E h \in Hosts : \E lit \in SUBSET Leds : WriteReport(h, lit) \/ WriteBoot(h, lit)
  BY <1>2, WriteReportStep, WriteBootStep
<1>3. CASE \E lit \in SUBSET Leds : SwitchLocally(lit)
  BY <1>3, SwitchLocallyStep
<1>4. CASE SuspendOrWake
  BY <1>4, SuspendOrWakeStep
<1>5. CASE Load
  BY <1>5, LoadStep
<1>6. CASE TakeEvent
  BY <1>6, TakeEventStep
<1>7. CASE Lag \/ End
  BY <1>7, OverStep DEF Lag, End
<1>8. CASE UNCHANGED vars
  BY <1>8 DEF vars, hostVars, IInv, TypeOK, LastIsRight, LedsAgree, LastUnread, Unread,
              About, Agrees
<1> QED
  BY <1>1, <1>2, <1>3, <1>4, <1>5, <1>6, <1>7, <1>8 DEF Next

\* The last unread event about a LED says what the target wrote last, and a running bridge
\* that has none unread shows it.
THEOREM Invariance == Spec => []IInv
<1>1. Init => IInv BY InitHolds
<1>2. IInv /\ [Next]_vars => IInv' BY Inductive
<1> QED BY <1>1, <1>2, PTL DEF Spec

\* The host's and the keyboard's LEDs have their types, and the LEDs of a host that is
\* not in the server's table are off.
THEOREM TypeCorrect == Spec => []TypeOK
<1>1. IInv => TypeOK BY DEF IInv
<1> QED BY <1>1, Invariance, PTL

\* A bridge that has read all events about a LED shows it as its host wrote it last
\* (evdev_bridge.rs:166-177, 209-216; keyboard/mod.rs:302-325).
THEOREM LedsAreInAgreement == Spec => []LedsAgree
<1>1. IInv => LedsAgree BY DEF IInv
<1> QED BY <1>1, Invariance, PTL
=============================================================================
